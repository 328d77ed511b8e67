---------------------------- MODULE PushDelivery ----------------------------
(***************************************************************************)
(* Push delivery (deliver_pending_pushes): Celery workers, one or several  *)
(* at a time, send pending notifications to their users' devices through   *)
(* Expo.  A run commits its claim before the first request, records each   *)
(* request's tickets before the next, and may die anywhere.                *)
(*                                                                         *)
(* Notifications are numbered by created_at.  Every one is pending from    *)
(* the start here; a run started before it was created does not see it, as *)
(* one whose rows are locked does not.                                     *)
(***************************************************************************)
EXTENDS Naturals, FiniteSets

CONSTANTS
  Last,          \* notifications are 1 .. Last, oldest first
  User, Token, Worker,
  UserOf,        \* UserOf[n]: whose notification n is
  Owner0,        \* the accounts the devices' tokens belong to at the start
  NoUser,
  BATCH_SIZE,    \* rows a run claims
  EXPO_MAX_BATCH,\* messages in one request
  MaxCrashes,    \* bound on the runs that die
  MaxMoves       \* bound on the devices and accounts that come and go

Notification == 1 .. Last
Message == Notification \X Token

ASSUME PushAssumption ==
  /\ Last \in Nat /\ MaxCrashes \in Nat /\ MaxMoves \in Nat
  /\ BATCH_SIZE \in Nat \ {0} /\ EXPO_MAX_BATCH \in Nat \ {0}
  /\ UserOf \in [Notification -> User] /\ NoUser \notin User
  /\ Owner0 \in [Token -> User \cup {NoUser}]

VARIABLES
  status,   \* notifications.push_status; "pending" is NULL, "gone" a deleted row
  owner,    \* push_tokens: the account a token is registered to
  account,  \* the users whose account exists
  old,      \* notifications 1 .. old are older than push_max_age
  run,      \* what each worker's run holds
  pushed,   \* how often Expo took each message
  crashes, moves

vars == <<status, owner, account, old, run, pushed, crashes, moves>>

Status == {"pending", "sending", "sent", "failed", "no_device", "expired", "gone"}

-----------------------------------------------------------------------------
(* Runs. *)

\* due: the stale rows a run settles.  batch: the rows it has selected.  Both
\* are locked until it commits its claim.  Then targets are the messages still
\* to send; oks and dead are the tickets of the last request.
Fresh(pc, cutoff) ==
  [pc |-> pc, cutoff |-> cutoff, due |-> {}, batch |-> {}, claimed |-> {}, targets |-> {},
   oks |-> {}, dead |-> {}, delivered |-> {}, unknown |-> {}, retry |-> {}]

Locked(w) == run[w].due \cup run[w].batch
\* Nobody else holds a lock on these rows.
Free(w, rows) == \A v \in Worker \ {w} : Locked(v) \cap rows = {}
Unlocked(rows) == \A v \in Worker : Locked(v) \cap rows = {}

\* Variant: the other half of a target.
NamesSwapped(messages) == {m[2] : m \in messages}

Names(messages) == {m[1] : m \in messages}
Devices(n) == {t \in Token : owner[t] = UserOf[n]}
Oldest(rows, k) ==
  {n \in rows : Cardinality({m \in rows : m < n}) < k}

\* Rows that are gone match nothing.
Settled(rows, s) == [n \in Notification |-> IF n \in rows /\ status[n] # "gone" THEN s ELSE status[n]]

Start(w) ==
  /\ run[w].pc = "idle"
  /\ run' = [run EXCEPT ![w] = Fresh("expire", old)]
  /\ UNCHANGED <<status, owner, account, old, pushed, crashes, moves>>

\* Variant: the rows a dead run left sending are not looked for.
StalePending(w) == {n \in Notification : n <= run[w].cutoff /\ status[n] = "pending"}

\* The rows created before the run's cutoff that are not settled.
Stale(w) == {n \in Notification : n <= run[w].cutoff /\ status[n] \in {"pending", "sending"}}

\* The two UPDATEs wait for locked rows and then look at them again.
Expire(w) ==
  /\ run[w].pc = "expire"
  /\ Free(w, Stale(w))
  /\ run' = [run EXCEPT ![w].pc = "select", ![w].due = Stale(w)]
  /\ UNCHANGED <<status, owner, account, old, pushed, crashes, moves>>

\* Variant: SELECT without FOR UPDATE.
SkipNothing(w) == {}

\* Rows FOR UPDATE SKIP LOCKED passes over.
SkipLocked(w) == UNION {Locked(v) : v \in Worker \ {w}}

Select(w) ==
  LET rows == {n \in Notification : n > run[w].cutoff /\ status[n] = "pending"} \ SkipLocked(w)
  IN /\ run[w].pc = "select"
     /\ run' = [run EXCEPT ![w].pc = "claim", ![w].batch = Oldest(rows, BATCH_SIZE)]
     /\ UNCHANGED <<status, owner, account, old, pushed, crashes, moves>>

\* The tokens are read, the rows marked, and the transaction committed.
Claim(w) ==
  LET claimed == {n \in run[w].batch : Devices(n) # {}} IN
  /\ run[w].pc = "claim"
  /\ status' = [n \in Notification |->
       IF n \in claimed THEN "sending"
       ELSE IF n \in run[w].batch THEN "no_device"
       ELSE IF n \in run[w].due THEN IF status[n] = "pending" THEN "expired" ELSE "failed"
       ELSE status[n]]
  /\ run' = [run EXCEPT ![w].pc = "send", ![w].due = {}, ![w].batch = {},
                        ![w].claimed = claimed,
                        ![w].targets = {m \in claimed \X Token : m[2] \in Devices(m[1])}]
  /\ UNCHANGED <<owner, account, old, pushed, crashes, moves>>

\* The next request carries the first messages, in the order of their rows.
Chunks(w) ==
  LET targets == run[w].targets
      Size(k) == IF k < EXPO_MAX_BATCH THEN k ELSE EXPO_MAX_BATCH
  IN {c \in SUBSET targets : /\ Cardinality(c) = Size(Cardinality(targets))
                             /\ \A m \in c, other \in targets \ c : m[1] <= other[1]}

Count(messages) == [m \in Message |-> pushed[m] + IF m \in messages THEN 1 ELSE 0]

\* Expo answers with a ticket per message: ok, DeviceNotRegistered or an error.
Answered(w) ==
  /\ run[w].pc = "send" /\ run[w].targets # {}
  /\ \E c \in Chunks(w) : \E oks \in SUBSET c : \E dead \in SUBSET (c \ oks) :
       /\ pushed' = Count(oks)
       /\ run' = [run EXCEPT ![w].pc = "record", ![w].targets = @ \ c, ![w].oks = oks,
                             ![w].dead = {m[2] : m \in dead}]
  /\ UNCHANGED <<status, owner, account, old, crashes, moves>>

\* expo_rejected: Expo took none of the request.  The loop ends.
Rejected(w) ==
  /\ run[w].pc = "send" /\ run[w].targets # {}
  /\ run' = [run EXCEPT ![w].pc = "finish", ![w].targets = {}, ![w].retry = Names(run[w].targets)]
  /\ UNCHANGED <<status, owner, account, old, pushed, crashes, moves>>

\* A timeout or a dropped connection: Expo may have taken any of the request.
Lost(w) ==
  /\ run[w].pc = "send" /\ run[w].targets # {}
  /\ \E c \in Chunks(w) : \E taken \in SUBSET c :
       /\ pushed' = Count(taken)
       /\ run' = [run EXCEPT ![w].pc = "finish", ![w].targets = {}, ![w].unknown = Names(c),
                             ![w].retry = Names(run[w].targets \ c)]
  /\ UNCHANGED <<status, owner, account, old, crashes, moves>>

\* The tickets are recorded and committed before the next request.
Record(w) ==
  /\ run[w].pc = "record"
  /\ Free(w, Names(run[w].oks))
  /\ status' = Settled(Names(run[w].oks), "sent")
  /\ owner' = [t \in Token |-> IF t \in run[w].dead THEN NoUser ELSE owner[t]]
  /\ run' = [run EXCEPT ![w].pc = "send", ![w].oks = {}, ![w].dead = {},
                        ![w].delivered = @ \cup Names(run[w].oks)]
  /\ UNCHANGED <<account, old, pushed, crashes, moves>>

\* Variant: what Expo may have taken is retried too.
RetryUnknown(w) == (run[w].claimed \ run[w].delivered) \cap (run[w].retry \cup run[w].unknown)

Retried(w) == ((run[w].claimed \ run[w].delivered) \cap run[w].retry) \ run[w].unknown

Finish(w) ==
  LET unsettled == run[w].claimed \ run[w].delivered IN
  /\ run[w].pc = "finish" \/ (run[w].pc = "send" /\ run[w].targets = {})
  /\ Free(w, unsettled)
  /\ status' = [n \in Notification |->
       IF n \notin unsettled \/ status[n] = "gone" THEN status[n]
       ELSE IF n \in Retried(w) THEN "pending" ELSE "failed"]
  /\ run' = [run EXCEPT ![w] = Fresh("idle", 0)]
  /\ UNCHANGED <<owner, account, old, pushed, crashes, moves>>

\* The worker dies, or a commit or an answer's parsing fails: what was not
\* committed is rolled back.
Crash(w) ==
  /\ run[w].pc # "idle" /\ crashes < MaxCrashes
  /\ run' = [run EXCEPT ![w] = Fresh("idle", 0)]
  /\ crashes' = crashes + 1
  /\ UNCHANGED <<status, owner, account, old, pushed, moves>>

-----------------------------------------------------------------------------
(* What happens beside the runs. *)

\* push_max_age passes for the next notification.
Age ==
  /\ old < Last /\ old' = old + 1
  /\ UNCHANGED <<status, owner, account, run, pushed, crashes, moves>>

Moving == moves < MaxMoves /\ moves' = moves + 1

\* A device signs in, which takes its token from any other account, or out.
Register(u, t) ==
  /\ u \in account /\ owner[t] # u /\ Moving
  /\ owner' = [owner EXCEPT ![t] = u]
  /\ UNCHANGED <<status, account, old, run, pushed, crashes>>

Unregister(u, t) ==
  /\ u \in account /\ owner[t] = u /\ Moving
  /\ owner' = [owner EXCEPT ![t] = NoUser]
  /\ UNCHANGED <<status, account, old, run, pushed, crashes>>

\* DELETE /api/users/me: the rows and tokens go with the account.
DeleteAccount(u) ==
  LET rows == {n \in Notification : UserOf[n] = u} IN
  /\ u \in account /\ Moving
  /\ Unlocked(rows)
  /\ account' = account \ {u}
  /\ status' = [n \in Notification |-> IF n \in rows THEN "gone" ELSE status[n]]
  /\ owner' = [t \in Token |-> IF owner[t] = u THEN NoUser ELSE owner[t]]
  /\ UNCHANGED <<old, run, pushed, crashes>>

-----------------------------------------------------------------------------
Init ==
  /\ status = [n \in Notification |-> "pending"]
  /\ owner = Owner0 /\ account = User /\ old = 0
  /\ run = [w \in Worker |-> Fresh("idle", 0)]
  /\ pushed = [m \in Message |-> 0]
  /\ crashes = 0 /\ moves = 0

Step(w) == \/ Start(w) \/ Expire(w) \/ Select(w) \/ Claim(w) \/ Answered(w)
           \/ Rejected(w) \/ Lost(w) \/ Record(w) \/ Finish(w)

Next ==
  \/ \E w \in Worker : Step(w) \/ Crash(w)
  \/ Age
  \/ \E u \in User : DeleteAccount(u) \/ \E t \in Token : Register(u, t) \/ Unregister(u, t)

\* Beat starts a run every minute, a started run goes on, and time passes.
Spec == Init /\ [][Next]_vars
FairSpec == Spec /\ WF_vars(Age) /\ \A w \in Worker : WF_vars(Step(w))

-----------------------------------------------------------------------------
(* Properties. *)

RunRow ==
  [pc : {"idle", "expire", "select", "claim", "send", "record", "finish"},
   cutoff : 0 .. Last, due : SUBSET Notification, batch : SUBSET Notification,
   claimed : SUBSET Notification, targets : SUBSET Message, oks : SUBSET Message,
   dead : SUBSET Token, delivered : SUBSET Notification,
   unknown : SUBSET Notification, retry : SUBSET Notification]

\* The shape of the rows and of the runs (models/database.py Notification).
TypeOK ==
  /\ status \in [Notification -> Status]
  /\ owner \in [Token -> User \cup {NoUser}]
  /\ account \in SUBSET User /\ old \in 0 .. Last
  /\ run \in [Worker -> RunRow]
  /\ pushed \in [Message -> Nat] /\ crashes \in 0 .. MaxCrashes
  /\ moves \in 0 .. MaxMoves

\* A run has a notification in hand from its claim to its last commit.
Held(n) == \E w \in Worker : n \in run[w].claimed
Phase == [n \in Notification |->
            IF Held(n) THEN "out" ELSE IF status[n] = "pending" THEN "waiting" ELSE "over"]

Promise == INSTANCE PushPromise WITH phase <- Phase

\* Runs at once, crashes, lost answers and retries never push a notification to
\* a device twice, and one that is retried reached no device (the claim, and the
\* outcomes deliver_pending_pushes tells apart).
KeepsPromise == Promise!Spec

\* A row that says it was not sent was not, and one that says it was, was: the
\* status is true whatever a run did before it died (expo_rejected, _set_push_status).
StatusIsTrue ==
  \A n \in Notification :
    LET got == \E t \in Token : pushed[<<n, t>>] > 0 IN
    /\ status[n] \in {"pending", "no_device", "expired"} => ~got
    /\ status[n] = "sent" => got

\* Every notification is settled in the end, even those of a run that died
\* (the expiry and the sweep of stale sending rows).
EverySettles ==
  \A n \in Notification : status[n] = "pending" ~> status[n] \notin {"pending", "sending"}
=============================================================================
