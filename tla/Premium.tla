------------------------------- MODULE Premium -------------------------------
(***************************************************************************)
(* Premium entitlements (premium_service): RevenueCat tells of each change *)
(* by a webhook, in any order and more than once, and the app asks for a   *)
(* read of the current state in between.                                   *)
(*                                                                         *)
(* RevenueCat is external: store is what it holds of each user and log the *)
(* events it sent, each with what it held of everyone right after.  Event  *)
(* k happened at time 2k; a read after k events is at time 2k + 1.  Every  *)
(* webhook delivery and every refresh is one database transaction.         *)
(***************************************************************************)
EXTENDS Naturals, Sequences

CONSTANTS
  User,
  Worker,      \* transfers handled at once
  Reader,      \* refreshes at once
  Nobody,
  Never,       \* the expiry of what does not lapse, or of an event without one
  LastExpiry,  \* expiries are 1 .. LastExpiry
  MaxEvents,   \* bound on RevenueCat's events
  HasKey       \* a REST API key is configured

ASSUME PremiumAssumption ==
  /\ LastExpiry \in Nat /\ MaxEvents \in Nat /\ HasKey \in BOOLEAN
  /\ Never \notin Nat /\ Nobody \notin User

Expiry == 1 .. LastExpiry
Entitlement == [active : BOOLEAN, expires : Expiry \cup {Never}]
None == [active |-> FALSE, expires |-> Never]

VARIABLES
  now,      \* expiries up to now have passed
  store, log,
  row,      \* users.premium_active, _expires_at and _updated_at (0 is NULL)
  ledger,   \* revenuecat_events: [event -> [outcome, user]]
  job,      \* the transfers in hand
  read,     \* the refreshes
  passed,   \* users a transfer passed over for a newer change
  unread    \* new owners a transfer could not read back

cloud == <<now, store, log>>
db == <<row, ledger, passed, unread>>
vars == <<cloud, db, job, read>>

Past(e) == e # Never /\ e <= now
Grants(e) == e.active /\ ~Past(e.expires)

-----------------------------------------------------------------------------
(* RevenueCat. *)

Emit(kind, u, v, expires, held) ==
  /\ Len(log) < MaxEvents
  /\ store' = held
  /\ log' = Append(log, [kind |-> kind, user |-> u, to |-> v, expires |-> expires, held |-> held])
  /\ UNCHANGED <<now, db, job, read>>

Hold(u, active, e) == [store EXCEPT ![u] = [active |-> active, expires |-> e]]
Subscribed(u) == store[u].active /\ store[u].expires # Never

Purchase(u) ==
  \E e \in {e \in Expiry : e > now} \cup {Never} :
    ~store[u].active /\ Emit("grant", u, u, e, Hold(u, TRUE, e))

\* RENEWAL, UNCANCELLATION, PRODUCT_CHANGE, ...
Renew(u) ==
  \E e \in {e \in Expiry : e > now} :
    Subscribed(u) /\ store[u].expires <= e /\ Emit("grant", u, u, e, Hold(u, TRUE, e))

Cancel(u) ==
  Subscribed(u) /\ ~Past(store[u].expires) /\ Emit("cancel", u, u, store[u].expires, store)

\* A grace period may move the expiry, before it is past.
BillingIssue(u) ==
  \E e \in Expiry :
    /\ Subscribed(u) /\ ~Past(store[u].expires) /\ store[u].expires <= e
    /\ Emit("billing", u, u, e, Hold(u, TRUE, e))

Refund(u) == store[u].active /\ Emit("refund", u, u, Never, Hold(u, FALSE, Never))

\* A non-renewing purchase refunded without saying so; before any subscription.
CancelForever(u) ==
  /\ store[u].active /\ \A k \in 1 .. Len(log) : log[k].expires = Never
  /\ Emit("cancel", u, u, Never, Hold(u, FALSE, Never))

Expire(u) ==
  /\ Subscribed(u) /\ Past(store[u].expires)
  /\ Emit("expiration", u, u, store[u].expires, Hold(u, FALSE, store[u].expires))

\* A restore on another account.
Transfer(u, v) ==
  /\ store[u].active /\ ~store[v].active
  /\ Emit("transfer", u, v, Never, [store EXCEPT ![u] = None, ![v] = store[u]])

Tick ==
  /\ now < LastExpiry /\ now' = now + 1
  /\ UNCHANGED <<store, log, db, job, read>>

\* What GET /v1/subscribers says.
GetPremium(u) == [active |-> Grants(store[u]), expires |-> store[u].expires]

-----------------------------------------------------------------------------
(* The webhook. *)

EventTime(k) == 2 * k
\* Variant: a read counts as later than the next event.
ReadTimeLate == 2 * Len(log) + 3
ReadTime == 2 * Len(log) + 1

Unchanged == [active |-> FALSE, expires |-> Never, at |-> 0]
Silent(got) == [got |-> got, state |-> None]
NoJob == [pc |-> "idle", event |-> 0, locked |-> {},
          said |-> [u \in User |-> Silent("nothing")]]
NoRead == [pc |-> "idle", user |-> Nobody, state |-> None, at |-> 0]

\* Variant: rows another transaction locked are not waited for.
NotWaitedFor(users) == TRUE

\* SELECT ... FOR UPDATE of users rows.
RowsFree(users) == \A w \in Worker : job[w].locked \cap users = {}

\* INSERT ... ON CONFLICT DO NOTHING waits for an uncommitted row with its key.
\* A delivery that finds the row changes nothing, and neither do the kinds of
\* events and the entitlements the backend ignores.
Claim(k) ==
  /\ k \in 1 .. Len(log) /\ k \notin DOMAIN ledger
  /\ \A w \in Worker : job[w].event # k

Record(k, outcome, u) ==
  ledger' = [j \in DOMAIN ledger \cup {k} |->
               IF j = k THEN [outcome |-> outcome, user |-> u] ELSE ledger[j]]

Applied(u) == {k \in DOMAIN ledger : ledger[k].outcome = "applied" /\ ledger[k].user = u}

\* The user was last changed by an event that moves the expiry only.
LastChangeKeptAccess(u, last) ==
  \E k \in Applied(u) : /\ \A j \in Applied(u) : j <= k
                        /\ EventTime(k) = last
                        /\ log[k].kind \in {"cancel", "billing", "refund"}

\* Variants: a late grant is always stale; it may follow any change.
LateGrantNever(k) == FALSE
LateGrantAny(k) == log[k].kind = "grant" /\ row[log[k].user].expires # Never

LateGrant(k) ==
  /\ log[k].kind = "grant" /\ row[log[k].user].expires # Never
  /\ LastChangeKeptAccess(log[k].user, row[log[k].user].at)

\* The user's columns after an event that is not late.
Changed(k, r) ==
  LET e == log[k]
      kept == IF e.expires # Never THEN e.expires ELSE r.expires
      becomes(active, expires) == [active |-> active, expires |-> expires, at |-> EventTime(k)]
  IN CASE e.kind = "grant" -> becomes(TRUE, e.expires)
       [] e.kind = "refund" -> becomes(FALSE, Never)
       [] e.kind = "cancel" -> becomes(r.active /\ kept # Never, kept)
       [] e.kind = "billing" -> becomes(r.active, kept)
       [] e.kind = "expiration" -> becomes(FALSE, e.expires)

TooOld(k, u) == EventTime(k) < row[u].at

\* _apply: the user stays locked from the first look at the row to the commit.
Apply(k) ==
  LET u == log[k].user IN
  /\ Claim(k) /\ log[k].kind # "transfer" /\ RowsFree({u})
  /\ \/ ~TooOld(k, u) /\ row' = [row EXCEPT ![u] = Changed(k, @)] /\ Record(k, "applied", u)
     \/ /\ TooOld(k, u) /\ LateGrant(k)
        /\ row' = [row EXCEPT ![u].active = TRUE] /\ Record(k, "applied", u)
     \/ TooOld(k, u) /\ ~LateGrant(k) /\ UNCHANGED row /\ Record(k, "stale", u)
  /\ UNCHANGED <<cloud, passed, unread, job, read>>

\* _transfer reads each user back while it holds both rows: the old owner, then
\* the new one.  A user changed since is passed over, and RevenueCat may not answer.
Take(w, k) ==
  LET users == {log[k].user, log[k].to} IN
  /\ job[w].pc = "idle"
  /\ Claim(k) /\ log[k].kind = "transfer" /\ RowsFree(users)
  /\ job' = [job EXCEPT ![w].pc = "ask", ![w].event = k, ![w].locked = users]
  /\ UNCHANGED <<cloud, db, read>>

Ask(w) ==
  LET k == job[w].event
      u == IF job[w].said[log[k].user].got = "nothing" THEN log[k].user ELSE log[k].to
      answers == IF TooOld(k, u) THEN {Silent("passed")}
                 ELSE {Silent("unread")} \cup
                      IF HasKey THEN {[got |-> "state", state |-> GetPremium(u)]} ELSE {}
  IN /\ job[w].pc = "ask"
     /\ \E a \in answers :
          job' = [job EXCEPT ![w].said[u] = a,
                             ![w].pc = IF u = log[k].to THEN "transfer" ELSE "ask"]
     /\ UNCHANGED <<cloud, db, read>>

\* Without an answer the old owner loses Premium and the new one waits.
ApplyTransfer(w) ==
  LET k == job[w].event
      from == log[k].user
      to == log[k].to
      said == job[w].said
      touched == {u \in {from, to} : said[u].got = "state"}
                   \cup {u \in {from} : said[u].got = "unread"}
      state(u) == IF said[u].got = "state" THEN said[u].state
                  ELSE [active |-> FALSE, expires |-> row[u].expires]
  IN /\ job[w].pc = "transfer"
     /\ row' = [u \in User |->
          IF u \in touched
          THEN [active |-> state(u).active, expires |-> state(u).expires, at |-> EventTime(k)]
          ELSE row[u]]
     /\ passed' = passed \cup {u \in {from, to} : said[u].got = "passed"}
     /\ unread' = unread \cup {u \in {to} : said[u].got = "unread"}
     /\ IF touched = {} THEN Record(k, "unknown_user", from)
        ELSE Record(k, "applied", IF to \in touched THEN to ELSE from)
     /\ job' = [job EXCEPT ![w] = NoJob]
     /\ UNCHANGED <<cloud, read>>

\* The request fails or the server dies: RevenueCat sends the event again.
Rollback(w) ==
  /\ job[w].pc # "idle"
  /\ job' = [job EXCEPT ![w] = NoJob]
  /\ UNCHANGED <<cloud, db, read>>

-----------------------------------------------------------------------------
(* The refresh: POST /users/me/premium/refresh. *)

\* The answer carries RevenueCat's time of it.
Fetch(q, u) ==
  /\ read[q].pc = "idle" /\ HasKey
  /\ read' = [read EXCEPT ![q] = [pc |-> "store", user |-> u, state |-> GetPremium(u),
                                  at |-> ReadTime]]
  /\ UNCHANGED <<cloud, db, job>>

Outdated(q) == read[q].at < row[read[q].user].at

\* Lock, then store the read only if nothing changed the user after it.
Refresh(q) ==
  LET u == read[q].user IN
  /\ read[q].pc = "store"
  /\ RowsFree({u})
  /\ read' = [read EXCEPT ![q] = NoRead]
  /\ IF Outdated(q) THEN UNCHANGED db
     ELSE /\ row' = [row EXCEPT ![u] = [active |-> read[q].state.active,
                                        expires |-> read[q].state.expires, at |-> read[q].at]]
          /\ UNCHANGED <<ledger, passed, unread>>
  /\ UNCHANGED <<cloud, job>>

\* RevenueCat did not answer, or the request failed.
RefreshFails(q) ==
  /\ read[q].pc = "store"
  /\ read' = [read EXCEPT ![q] = NoRead]
  /\ UNCHANGED <<cloud, db, job>>

-----------------------------------------------------------------------------
Init ==
  /\ now = 0 /\ store = [u \in User |-> None] /\ log = <<>>
  /\ row = [u \in User |-> Unchanged]
  /\ ledger = <<>> /\ passed = {} /\ unread = {}
  /\ job = [w \in Worker |-> NoJob] /\ read = [q \in Reader |-> NoRead]

RevenueCat ==
  \/ \E u \in User : \/ Purchase(u) \/ Renew(u) \/ Cancel(u) \/ BillingIssue(u) \/ Refund(u)
                     \/ CancelForever(u) \/ Expire(u)
                     \/ \E v \in User : Transfer(u, v)
  \/ Tick

Webhook ==
  \/ \E k \in 1 .. MaxEvents : Apply(k) \/ \E w \in Worker : Take(w, k)
  \/ \E w \in Worker : Ask(w) \/ ApplyTransfer(w) \/ Rollback(w)

Next ==
  \/ RevenueCat \/ Webhook
  \/ \E q \in Reader : Refresh(q) \/ RefreshFails(q) \/ \E u \in User : Fetch(q, u)

Spec == Init /\ [][Next]_vars

-----------------------------------------------------------------------------
(* Properties. *)

Row == [active : BOOLEAN, expires : Expiry \cup {Never}, at : 0 .. 2 * MaxEvents + 1]
Kind == {"grant", "cancel", "billing", "refund", "expiration", "transfer"}
Event == [kind : Kind, user : User, to : User, expires : Expiry \cup {Never},
          held : [User -> Entitlement]]
Outcome == [outcome : {"applied", "stale", "unknown_user"}, user : User]
Answer == [got : {"nothing", "passed", "unread", "state"}, state : Entitlement]
Job == [pc : {"idle", "ask", "transfer"}, event : 0 .. MaxEvents,
        locked : SUBSET User, said : [User -> Answer]]
Read == [pc : {"idle", "store"}, user : User \cup {Nobody}, state : Entitlement,
         at : 0 .. 2 * MaxEvents + 1]

\* The shape of the rows, the ledger and the transactions.
TypeOK ==
  /\ now \in 0 .. LastExpiry /\ store \in [User -> Entitlement]
  /\ log \in Seq(Event) /\ Len(log) <= MaxEvents
  /\ row \in [User -> Row]
  /\ DOMAIN ledger \in SUBSET (1 .. Len(log)) /\ \A k \in DOMAIN ledger : ledger[k] \in Outcome
  /\ job \in [Worker -> Job] /\ read \in [Reader -> Read]
  /\ passed \in SUBSET User /\ unread \in SUBSET User

Settled == /\ DOMAIN ledger = 1 .. Len(log)
           /\ \A w \in Worker : job[w].pc = "idle"
           /\ \A q \in Reader : read[q].pc = "idle"

\* is_premium and its end are RevenueCat's.
Agrees(u) == /\ Grants(row[u]) <=> Grants(store[u])
             /\ Grants(row[u]) => row[u].expires = store[u].expires

\* Once every event was delivered, in whatever order and however often, and with
\* refreshes in between, the user is Premium exactly as RevenueCat has it (but
\* for a new owner a transfer gave nothing).
Converges == Settled => \A u \in User \ (passed \cup unread) : Agrees(u)

\* Premium is never stored that RevenueCat did not hold for the user when the
\* row was stamped, or later: no late grant brings back what was refunded,
\* expired or moved (_apply, _last_change_kept_access, refresh).
OwedAtStamp ==
  \A u \in User : Grants(row[u]) =>
    \E k \in 1 .. Len(log) : /\ row[u].at <= EventTime(k) + 1
                             /\ log[k].held[u] = [active |-> TRUE, expires |-> row[u].expires]

\* What was stored as of one time is never replaced by what was known before it
\* (a read taken before a webhook was applied, an event delivered late).
NewerStands == [][\A u \in User : row[u].at <= row'[u].at]_vars
=============================================================================
