------------------------------ MODULE Session ------------------------------
(***************************************************************************)
(* The session of one phone: the tokens the app keeps, the calls it makes  *)
(* with them, the refresh they share, sign-in, sign-out and the deletion   *)
(* of the account on the phone (mobile: services/api.ts, store/authStore,  *)
(* features/auth, features/notifications, the onboarding screens), against *)
(* the token families, the denylist and the rotation lock of the server    *)
(* (backend: services/auth.py, core/token_denylist.py) and the push token  *)
(* the phone registers there.                                              *)
(*                                                                         *)
(* A pair of tokens is [fam, gen]: the sign-in it descends from and the    *)
(* rotation that made it.  The access and the refresh token of a pair go   *)
(* together everywhere but in two places: `expired` holds the pairs whose  *)
(* access token ran out, `denied` those whose refresh token was rotated.   *)
(*                                                                         *)
(* The keychain writes of a pair and the update of the store are one step; *)
(* Redis answers: when it does not, the code lets every check pass.        *)
(***************************************************************************)
EXTENDS Integers, FiniteSets, Sequences

CONSTANTS
    Accounts,       \* the accounts that sign in on this phone
    NoOne,          \* no account
    MaxFamily,      \* bound: sign-ins
    MaxActs,        \* bound: what the user starts (sign-ins, calls of a screen, taps, sign-outs, deletions)
    MaxExpiry,      \* bound: access tokens that run out
    MaxCalls,       \* bound: calls under way at once
    MaxFault        \* bound: calls and answers the network loses, and times the app is killed and started again

ASSUME SessionAssumption ==
    /\ NoOne \notin Accounts
    /\ {MaxFamily, MaxActs, MaxExpiry, MaxCalls, MaxFault} \subseteq Nat

Pushes == {"push", "again"}                 \* the push registrations under way at once
Slots == {"data", "leave"} \cup Pushes      \* the calls under way: a screen's, sign-out, the registrations
Handlers == {1, 2}                          \* refreshes the server works on at once

Pairs == [fam : 1 .. MaxFamily, gen : Nat \ {0}]
NoPair == [fam |-> 0, gen |-> 0]

VARIABLES
    \* the server
    families,       \* the account of each family, in the order they were made
    turns,          \* how many pairs each family was given
    expired, denied, revoked, locked, reused,
    refreshes,      \* the refreshes the server works on
    registered,     \* the account this phone's push token belongs to
    deleted,        \* accounts deleted
    onboarded,      \* accounts that finished onboarding
    \* the phone
    session,        \* authStore: the pair in use
    inFlightRefresh,\* api.ts: the refresh every refused call waits for
    requests, signing, leaving,
    pushToken,      \* pushStore: a registration set the token
    registering,    \* the registration effects that are due, one for each change of the access token
    tap,            \* the account of the push tap that waits to be opened
    onboarding,     \* an onboarding screen is shown
    \* the world, and what is remembered to state properties
    acts, faults,
    lost,           \* the families with a refresh whose answer the phone never got
    held,           \* the families with a refresh past the denylist as the lock on its token ran out
    overtaken       \* the accounts with a registration still unserved as another account's was sent

server == <<families, turns, expired, denied, revoked, locked, held, reused, registered, deleted, onboarded>>
phone == <<session, pushToken, registering, tap, onboarding>>
world == <<acts, faults, lost, overtaken>>
vars == <<server, refreshes, phone, inFlightRefresh, requests, signing, leaving, world>>

Idle == [pc |-> "idle", kind |-> "none", pair |-> NoPair, retried |-> FALSE]
FreeHandler == [pc |-> "free", pair |-> NoPair, answer |-> NoPair]

Calls == [pc : {"idle", "sent", "refused", "waiting", "done", "failed"},
          kind : {"none", "read", "register", "unregister", "signout", "delete"},
          pair : Pairs \cup {NoPair}, retried : BOOLEAN]
Refreshes == [pc : {"free", "sent", "checked", "locked", "answered"},
              pair : Pairs \cup {NoPair}, answer : Pairs \cup {NoPair}]

AccountOf(p) == IF p = NoPair THEN NoOne ELSE families[p.fam]

TypeOK ==
    /\ families \in Seq(Accounts) /\ Len(families) <= MaxFamily
    /\ turns \in Seq(Nat \ {0}) /\ Len(turns) = Len(families)
    /\ expired \subseteq Pairs /\ denied \subseteq Pairs /\ locked \subseteq Pairs
    /\ revoked \subseteq 1 .. MaxFamily /\ reused \subseteq revoked
    /\ lost \subseteq 1 .. MaxFamily /\ held \subseteq 1 .. MaxFamily /\ overtaken \subseteq Accounts
    /\ refreshes \in [Handlers -> Refreshes]
    /\ {registered, tap} \subseteq Accounts \cup {NoOne}
    /\ deleted \subseteq Accounts /\ onboarded \subseteq Accounts
    /\ session \in Pairs \cup {NoPair}
    /\ inFlightRefresh \in Handlers \cup {0}
    /\ requests \in [Slots -> Calls]
    /\ signing \in Pairs \cup {NoPair}
    /\ leaving \in {"no", "release", "revoke", "delete"}
    /\ {pushToken, onboarding} \subseteq BOOLEAN /\ registering \in Nat
    /\ acts \in 0 .. MaxActs /\ faults \in 0 .. MaxFault

-----------------------------------------------------------------------------
(* The store: what a change of the session brings with it                   *)

\* A held tap stays when one account's session replaces another's: the listener
\* compares user ids, and no caller of setSession gives one.
TapSurvives(pair) == pair # NoPair

SetSession(pair, screen) ==
    /\ session' = pair
    /\ registering' = IF pair \in {NoPair, session} THEN registering ELSE registering + 1
    /\ tap' = IF TapSurvives(pair) THEN tap ELSE NoOne
    /\ onboarding' = screen

\* clear(): the gate shows the onboarding screens to whoever has no session.
Clear == SetSession(NoPair, TRUE)

Room == Cardinality({s \in Slots : requests[s].pc # "idle"}) < MaxCalls

Send(slot, kind, pair) ==
    [requests EXCEPT ![slot] = [pc |-> "sent", kind |-> kind, pair |-> pair, retried |-> FALSE]]

\* The user starts something.
Act == acts < MaxActs /\ acts' = acts + 1

Ended(call, pc) == IF pc = "idle" THEN Idle ELSE [call EXCEPT !.pc = pc]

Settle(slot, pc) == [requests EXCEPT ![slot] = Ended(@, pc)]

\* A call that fails: only leaving goes on from there.
After(slot) == IF slot = "leave" THEN "failed" ELSE "idle"

-----------------------------------------------------------------------------
(* Sign-in                                                                  *)

\* The form is there for who has no session, and behind the onboarding screens
\* (Use a different email goes back to it); one sign-in at a time.
FormOffers == onboarding /\ signing = NoPair

SignIn(a) ==
    /\ Act
    /\ FormOffers
    /\ a \notin deleted
    /\ Len(families) < MaxFamily
    /\ families' = Append(families, a)
    /\ turns' = Append(turns, 1)
    /\ signing' = [fam |-> Len(families) + 1, gen |-> 1]
    /\ UNCHANGED <<expired, denied, revoked, locked, held, reused, registered, deleted, onboarded>>
    /\ UNCHANGED <<refreshes, phone, inFlightRefresh, requests, leaving, faults, lost, overtaken>>

\* onSuccess of the mutation: it runs whatever the screen became meanwhile.
SignedIn ==
    /\ signing # NoPair
    /\ SetSession(signing, AccountOf(signing) \notin onboarded)
    /\ signing' = NoPair
    /\ UNCHANGED <<server, refreshes, pushToken, inFlightRefresh, requests, leaving, world>>

SignInLost ==
    /\ signing # NoPair
    /\ faults < MaxFault
    /\ faults' = faults + 1
    /\ signing' = NoPair
    /\ UNCHANGED <<server, refreshes, phone, inFlightRefresh, requests, leaving, acts, lost, overtaken>>

FinishOnboarding ==
    /\ session # NoPair /\ onboarding /\ AccountOf(session) \notin deleted
    /\ onboarding' = FALSE
    /\ onboarded' = onboarded \cup {AccountOf(session)}
    /\ UNCHANGED <<families, turns, expired, denied, revoked, locked, held, reused, registered, deleted>>
    /\ UNCHANGED <<refreshes, session, pushToken, registering, tap, inFlightRefresh, requests, signing, leaving, world>>

-----------------------------------------------------------------------------
(* A call of apiClient                                                      *)

\* get_current_user: the token is not expired, its family not revoked, its user there.
Accepted(p) ==
    /\ p # NoPair
    /\ p \notin expired
    /\ p.fam \notin revoked
    /\ AccountOf(p) \notin deleted

\* Any screen's call; it carries the token the store holds as it starts.
Fetch ==
    /\ Act
    /\ Room /\ requests["data"].pc = "idle" /\ session # NoPair
    /\ requests' = Send("data", "read", session)
    /\ UNCHANGED <<server, refreshes, phone, inFlightRefresh, signing, leaving, faults, lost, overtaken>>

\* A registration that leaves a token with the account that has it already.
RegistersOnce(a, kind) ==
    CASE kind = "register" /\ registered = NoOne -> a
      [] kind \in {"unregister", "delete"} /\ registered = a -> NoOne
      [] OTHER -> registered

Registers(a, kind) ==
    CASE kind = "register" -> a
      [] kind \in {"unregister", "delete"} /\ registered = a -> NoOne
      [] OTHER -> registered

\* The server takes the call: it refuses the token, or does what the call asks,
\* and the answer comes back or is lost.
Serve(slot) ==
    LET call == requests[slot] IN
    /\ call.pc = "sent"
    /\ IF Accepted(call.pair)
       THEN \E pc \in {"done", "failed"} :
              /\ pc = "failed" => faults < MaxFault /\ slot # "data"
              /\ faults' = IF pc = "failed" THEN faults + 1 ELSE faults
              /\ requests' = Settle(slot, IF pc = "done" /\ slot # "data" THEN "done" ELSE After(slot))
              /\ registered' = Registers(AccountOf(call.pair), call.kind)
              /\ revoked' = IF call.kind = "signout" THEN revoked \cup {call.pair.fam} ELSE revoked
              /\ deleted' = IF call.kind = "delete" THEN deleted \cup {AccountOf(call.pair)} ELSE deleted
       ELSE /\ requests' = Settle(slot, "refused")
            /\ UNCHANGED <<registered, revoked, deleted, faults>>
    /\ UNCHANGED <<families, turns, expired, denied, locked, held, reused, onboarded>>
    /\ UNCHANGED <<refreshes, phone, inFlightRefresh, signing, leaving, acts, lost, overtaken>>

\* A screen's call that is lost ends like one that is answered.
CallLost(slot) ==
    /\ requests[slot].pc = "sent" /\ slot # "data"
    /\ faults < MaxFault
    /\ faults' = faults + 1
    /\ requests' = Settle(slot, After(slot))
    /\ UNCHANGED <<server, refreshes, phone, inFlightRefresh, signing, leaving, acts, lost, overtaken>>

\* The newest access token of a family runs out.
Expire(p) ==
    /\ Cardinality(expired) < MaxExpiry
    /\ expired' = expired \cup {p}
    /\ UNCHANGED <<families, turns, denied, revoked, locked, held, reused, registered, deleted, onboarded>>
    /\ UNCHANGED <<refreshes, phone, inFlightRefresh, requests, signing, leaving, world>>

-----------------------------------------------------------------------------
(* The refresh a refused call waits for                                     *)

\* A second refusal is the caller's error, and so is a refusal with no session.
GiveUp(slot) ==
    /\ requests[slot].pc = "refused"
    /\ requests[slot].retried \/ (session = NoPair /\ inFlightRefresh = 0)
    /\ requests' = Settle(slot, After(slot))
    /\ UNCHANGED <<server, refreshes, phone, inFlightRefresh, signing, leaving, world>>

FreeHandlers == {h \in Handlers : refreshes[h].pc = "free"}
NextHandler == IF FreeHandlers = {} THEN 0 ELSE CHOOSE h \in FreeHandlers : \A k \in FreeHandlers : h <= k

\* getOrRefreshToken: every refused call joins the refresh that is under way.
JoinsRefresh(slot) ==
    \/ /\ inFlightRefresh # 0
       /\ UNCHANGED <<inFlightRefresh, refreshes>>
    \/ /\ inFlightRefresh = 0
       /\ session # NoPair
       /\ \E h \in Handlers :
            /\ h = NextHandler
            /\ inFlightRefresh' = h
            /\ refreshes' = [refreshes EXCEPT ![h] = [pc |-> "sent", pair |-> session, answer |-> NoPair]]

\* What a phone without the shared promise would do: each call refreshes for itself.
RefreshesAlone(slot) ==
    /\ session # NoPair
    /\ \E h \in Handlers :
         /\ h = NextHandler
         /\ inFlightRefresh' = h
         /\ refreshes' = [refreshes EXCEPT ![h] = [pc |-> "sent", pair |-> session, answer |-> NoPair]]

getOrRefreshToken(slot) == JoinsRefresh(slot)

Refused(slot) ==
    /\ requests[slot].pc = "refused" /\ ~requests[slot].retried
    /\ getOrRefreshToken(slot)
    /\ requests' = Settle(slot, "waiting")
    /\ UNCHANGED <<server, phone, signing, leaving, world>>

Waiting == {s \in Slots : requests[s].pc = "waiting"}

\* refreshTokens got a pair: it is stored over whatever session there is by now,
\* and every call that waited is sent again with it.
Refreshed ==
    LET h == inFlightRefresh IN
    /\ h # 0 /\ refreshes[h].pc = "answered" /\ refreshes[h].answer # NoPair
    /\ SetSession(refreshes[h].answer, onboarding)
    /\ requests' = [s \in Slots |-> IF s \in Waiting
                      THEN [requests[s] EXCEPT !.pc = "sent", !.retried = TRUE, !.pair = refreshes[h].answer]
                      ELSE requests[s]]
    /\ inFlightRefresh' = 0
    /\ refreshes' = [refreshes EXCEPT ![h] = FreeHandler]
    /\ UNCHANGED <<server, pushToken, signing, leaving, world>>

\* A refused refresh that forgets the calls behind it.
StillWaiting == requests

FailWaiting == [s \in Slots |-> IF s \in Waiting THEN Ended(requests[s], After(s)) ELSE requests[s]]

\* The server refused the refresh: whatever the reason, the session is cleared.
RefreshRefused ==
    LET h == inFlightRefresh IN
    /\ h # 0 /\ refreshes[h].pc = "answered" /\ refreshes[h].answer = NoPair
    /\ Clear
    /\ requests' = FailWaiting
    /\ inFlightRefresh' = 0
    /\ refreshes' = [refreshes EXCEPT ![h] = FreeHandler]
    /\ UNCHANGED <<server, pushToken, signing, leaving, world>>

\* fetch throws: the calls fail and the session stays as it is.
RefreshLost ==
    LET h == inFlightRefresh IN
    /\ h # 0 /\ faults < MaxFault
    /\ faults' = faults + 1
    /\ lost' = lost \cup {refreshes[h].pair.fam}
    /\ requests' = FailWaiting
    /\ inFlightRefresh' = 0
    /\ refreshes' = IF refreshes[h].pc \in {"sent", "answered"}
                    THEN [refreshes EXCEPT ![h] = FreeHandler] ELSE refreshes
    /\ UNCHANGED <<server, phone, signing, leaving, acts, overtaken>>

-----------------------------------------------------------------------------
(* auth.refresh on the server, one step per call to Redis                   *)

\* Nobody hears the answer to a refresh the phone has given up.
Answer(h, pair) ==
    [refreshes EXCEPT ![h] = IF inFlightRefresh = h THEN [@ EXCEPT !.pc = "answered", !.answer = pair]
                                                   ELSE FreeHandler]

\* A check that notices a replay and lets the family live.
CheckFamilyLeniently(h) ==
    LET p == refreshes[h].pair IN
    /\ refreshes[h].pc = "sent"
    /\ refreshes' = IF p.fam \in revoked \/ p \in denied THEN Answer(h, NoPair)
                    ELSE [refreshes EXCEPT ![h].pc = "checked"]
    /\ LET replay == p.fam \notin revoked /\ p \in denied IN
       /\ reused' = IF replay THEN reused \cup {p.fam} ELSE reused
    /\ UNCHANGED <<families, turns, expired, denied, revoked, locked, held, registered, deleted, onboarded>>
    /\ UNCHANGED <<phone, inFlightRefresh, requests, signing, leaving, world>>

CheckFamily(h) ==
    LET p == refreshes[h].pair IN
    /\ refreshes[h].pc = "sent"
    /\ refreshes' = IF p.fam \in revoked \/ p \in denied THEN Answer(h, NoPair)
                    ELSE [refreshes EXCEPT ![h].pc = "checked"]
    /\ LET replay == p.fam \notin revoked /\ p \in denied IN
       /\ revoked' = IF replay THEN revoked \cup {p.fam} ELSE revoked
       /\ reused' = IF replay THEN reused \cup {p.fam} ELSE reused
    /\ UNCHANGED <<families, turns, expired, denied, locked, held, registered, deleted, onboarded>>
    /\ UNCHANGED <<phone, inFlightRefresh, requests, signing, leaving, world>>

\* A rotation that takes the lock for granted.
AcquireLockLoosely(h) ==
    /\ refreshes[h].pc = "checked"
    /\ refreshes' = [refreshes EXCEPT ![h].pc = "locked"]
    /\ UNCHANGED <<server, phone, inFlightRefresh, requests, signing, leaving, world>>

AcquireLock(h) ==
    LET p == refreshes[h].pair IN
    /\ refreshes[h].pc = "checked"
    /\ locked' = locked \cup {p}
    /\ refreshes' = IF p \in locked THEN Answer(h, NoPair)
                    ELSE [refreshes EXCEPT ![h].pc = "locked"]
    /\ UNCHANGED <<families, turns, expired, denied, revoked, held, reused, registered, deleted, onboarded>>
    /\ UNCHANGED <<phone, inFlightRefresh, requests, signing, leaving, world>>

\* A lock runs out 5 seconds after it was taken, whoever still works under it.  It
\* is read by AcquireLock alone: one that no refresh is about to ask for is left.
LockExpires(h) ==
    LET p == refreshes[h].pair IN
    /\ refreshes[h].pc = "checked" /\ p \in locked
    /\ locked' = locked \ {p}
    /\ held' = held \cup {p.fam}
    /\ UNCHANGED <<families, turns, expired, denied, revoked, reused, registered, deleted, onboarded>>
    /\ UNCHANGED <<refreshes, phone, inFlightRefresh, requests, signing, leaving, world>>

\* add_jti_async, then issue_tokens in the same family.
Rotate(h) ==
    LET p == refreshes[h].pair
        next == [fam |-> p.fam, gen |-> turns[p.fam] + 1]
    IN
    /\ refreshes[h].pc = "locked"
    /\ IF AccountOf(p) \in deleted
       THEN refreshes' = Answer(h, NoPair) /\ UNCHANGED <<denied, turns>>
       ELSE /\ denied' = denied \cup {p}
            /\ turns' = [turns EXCEPT ![p.fam] = @ + 1]
            /\ refreshes' = Answer(h, next)
    /\ UNCHANGED <<families, expired, revoked, locked, held, reused, registered, deleted, onboarded>>
    /\ UNCHANGED <<phone, inFlightRefresh, requests, signing, leaving, world>>

-----------------------------------------------------------------------------
(* Push: the registration effect, and the tap that waits                    *)

\* An effect waits for permission and the device's token, then registers with
\* the session of then; no effect waits for the registration of another.
StartRegister(slot) ==
    LET unserved == {AccountOf(requests[s].pair) : s \in {s \in Pushes : requests[s].pc = "sent"}} IN
    /\ registering > 0
    /\ Room /\ requests[slot].pc = "idle" /\ (slot = "again" => requests["push"].pc # "idle")
    /\ registering' = registering - 1
    /\ requests' = Send(slot, "register", session)
    /\ overtaken' = overtaken \cup (unserved \ {AccountOf(session), NoOne})
    /\ UNCHANGED <<server, refreshes, session, pushToken, tap, onboarding, inFlightRefresh, signing, leaving, acts, faults, lost>>

RegisterSettled(slot) ==
    /\ requests[slot].pc = "done"
    /\ pushToken' = TRUE
    /\ requests' = [requests EXCEPT ![slot] = Idle]
    /\ UNCHANGED <<server, refreshes, session, registering, tap, onboarding, inFlightRefresh, signing, leaving, world>>

\* A tap on a push for the account that is signed in; with none it is dropped.
OfferTap ==
    /\ Act
    /\ session # NoPair /\ tap = NoOne
    /\ tap' = AccountOf(session)
    /\ UNCHANGED <<server, refreshes, session, pushToken, registering, onboarding, inFlightRefresh, requests, signing, leaving, faults, lost, overtaken>>

OpenTap ==
    /\ tap # NoOne /\ session # NoPair /\ ~onboarding /\ AccountOf(session) \in onboarded
    /\ tap' = NoOne
    /\ UNCHANGED <<server, refreshes, session, pushToken, registering, onboarding, inFlightRefresh, requests, signing, leaving, world>>

-----------------------------------------------------------------------------
(* Leaving: sign-out and the deletion of the account                        *)

\* useSignOut: release the push token first, with the session that is still valid.
StartSignOut ==
    /\ Act
    /\ Room /\ leaving = "no" /\ session # NoPair /\ ~onboarding
    /\ \/ /\ pushToken
          /\ leaving' = "release"
          /\ requests' = Send("leave", "unregister", session)
       \/ /\ ~pushToken
          /\ leaving' = "revoke"
          /\ requests' = Send("leave", "signout", session)
    /\ UNCHANGED <<server, refreshes, phone, inFlightRefresh, signing, faults, lost, overtaken>>

LeaveSettled == requests["leave"].pc \in {"done", "failed"}

Released ==
    /\ leaving = "release" /\ LeaveSettled
    /\ pushToken' = FALSE
    /\ leaving' = "revoke"
    /\ requests' = Send("leave", "signout", session)
    /\ UNCHANGED <<server, refreshes, session, registering, tap, onboarding, inFlightRefresh, signing, world>>

\* A failed call is ignored: the phone is cleared all the same.
SignedOut ==
    /\ leaving = "revoke" /\ LeaveSettled
    /\ Clear
    /\ leaving' = "no"
    /\ requests' = [requests EXCEPT !["leave"] = Idle]
    /\ UNCHANGED <<server, refreshes, pushToken, inFlightRefresh, signing, world>>

StartDelete ==
    /\ Act
    /\ Room /\ leaving = "no" /\ session # NoPair /\ ~onboarding
    /\ leaving' = "delete"
    /\ requests' = Send("leave", "delete", session)
    /\ UNCHANGED <<server, refreshes, phone, inFlightRefresh, signing, faults, lost, overtaken>>

\* A failed call leaves the phone as it was.
Deleted ==
    /\ leaving = "delete" /\ LeaveSettled
    /\ leaving' = "no"
    /\ requests' = [requests EXCEPT !["leave"] = Idle]
    /\ IF requests["leave"].pc = "done"
       THEN Clear /\ pushToken' = FALSE
       ELSE UNCHANGED <<session, registering, tap, onboarding, pushToken>>
    /\ UNCHANGED <<server, refreshes, inFlightRefresh, signing, world>>

\* The app is killed and started again: the session is read back from the
\* keychain, and what was under way has nobody to answer to.
Relaunch ==
    /\ faults < MaxFault
    /\ faults' = faults + 1
    /\ onboarding' = (session = NoPair \/ AccountOf(session) \notin onboarded)
    /\ registering' = IF session = NoPair THEN 0 ELSE 1
    /\ lost' = IF inFlightRefresh = 0 THEN lost ELSE lost \cup {refreshes[inFlightRefresh].pair.fam}
    /\ tap' = IF session = NoPair THEN NoOne ELSE tap
    /\ pushToken' = FALSE
    /\ inFlightRefresh' = 0
    /\ refreshes' = [h \in Handlers |-> IF refreshes[h].pc = "answered" THEN FreeHandler ELSE refreshes[h]]
    /\ requests' = [s \in Slots |-> Idle]
    /\ signing' = NoPair
    /\ leaving' = "no"
    /\ UNCHANGED <<server, session, acts, overtaken>>

-----------------------------------------------------------------------------
Init ==
    /\ families = <<>> /\ turns = <<>>
    /\ expired = {} /\ denied = {} /\ revoked = {} /\ locked = {} /\ reused = {}
    /\ refreshes = [h \in Handlers |-> FreeHandler]
    /\ registered = NoOne /\ deleted = {} /\ onboarded \in SUBSET Accounts
    /\ session = NoPair /\ inFlightRefresh = 0
    /\ requests = [s \in Slots |-> Idle]
    /\ signing = NoPair
    /\ leaving = "no"
    /\ pushToken = FALSE /\ registering = 0 /\ tap = NoOne /\ onboarding = TRUE
    /\ acts = 0 /\ faults = 0 /\ lost = {} /\ held = {} /\ overtaken = {}

Refreshing(h) == CheckFamily(h) \/ AcquireLock(h) \/ LockExpires(h) \/ Rotate(h)

Calling(s) == Serve(s) \/ GiveUp(s) \/ Refused(s)

Continuing ==
    \/ Refreshed \/ RefreshRefused
    \/ \E s \in Pushes : StartRegister(s) \/ RegisterSettled(s)
    \/ Released \/ SignedOut \/ Deleted

Next ==
    \/ (\E a \in Accounts : SignIn(a)) \/ SignedIn \/ SignInLost
    \/ FinishOnboarding \/ Fetch \/ OfferTap \/ OpenTap
    \/ \E s \in Slots : Calling(s) \/ CallLost(s)
    \/ \E f \in 1 .. Len(families) : Expire([fam |-> f, gen |-> turns[f]])
    \/ RefreshLost
    \/ \E h \in Handlers : Refreshing(h)
    \/ Continuing
    \/ StartSignOut \/ StartDelete \/ Relaunch

Spec == Init /\ [][Next]_vars

-----------------------------------------------------------------------------
(* What the session promises                                                *)

\* The phone never replays a refresh token of its own, however many calls are
\* refused at once: only an answer that was lost can make the server take it
\* for a theft and end the family.
NoSelfReuse == reused \subseteq lost

\* A family that is not revoked has one refresh token that still works, at most.
\* Two rotations of one token both succeed only if the phone never heard of one
\* of them and sent the token again, and a rotation was past its checks for so
\* long that the lock meant to keep them apart ran out.
OneLiveRefresh ==
    \A f \in 1 .. Len(families) :
        f \notin revoked /\ Cardinality({g \in 1 .. turns[f] : [fam |-> f, gen |-> g] \notin denied}) > 1
            => f \in lost /\ f \in held

Quiet ==
    /\ \A s \in Slots : requests[s].pc = "idle"
    /\ signing = NoPair
    /\ inFlightRefresh = 0 /\ leaving = "no" /\ registering = 0

\* With nothing under way and nothing lost, the phone's push token belongs to the
\* account signed in: no other account's registration, release or deletion took
\* it away meanwhile.  Only an account whose registration was still unserved as
\* the next account's was sent may have it instead: the later answer wins.
RegisteredIsMine ==
    Quiet /\ faults = 0 /\ session # NoPair => registered \in {AccountOf(session)} \cup overtaken

\* A call that waits has a refresh to wait for, whatever became of the refresh it
\* joined: answered, refused, lost, or made by an account that signed out since.
NobodyWaitsInVain == Waiting # {} => inFlightRefresh # 0

=============================================================================
