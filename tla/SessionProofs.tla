--------------------------- MODULE SessionProofs ---------------------------
(***************************************************************************)
(* Proofs about Session, for any accounts, families, calls and expiries.   *)
(***************************************************************************)
EXTENDS Session, FiniteSetTheorems, SequenceTheorems, TLAPS

Held == Pairs \cup {NoPair}

(* A pair that the server gave out. *)
Issued(p) == p.fam \in 1 .. Len(families) /\ p.gen \in 1 .. turns[p.fam]

PairsIssued ==
    /\ session # NoPair => Issued(session)
    /\ signing # NoPair => Issued(signing)
    /\ \A h \in Handlers : /\ refreshes[h].pc # "free" => Issued(refreshes[h].pair)
                           /\ refreshes[h].answer # NoPair => Issued(refreshes[h].answer)
    /\ \A s \in Slots : requests[s].pair # NoPair => Issued(requests[s].pair)
    /\ \A p \in denied : Issued(p)

(* A handler that has answered is the one the phone waits for. *)
FlightInv ==
    /\ inFlightRefresh # 0 => refreshes[inFlightRefresh].pc # "free"
    /\ \A h \in Handlers : /\ refreshes[h].pc = "answered" => h = inFlightRefresh
                           /\ refreshes[h].pc # "answered" => refreshes[h].answer = NoPair

TypeInv == TypeOK /\ PairsIssued /\ FlightInv

-----------------------------------------------------------------------------
(* What the operators on calls and refreshes return.                        *)

LEMMA Bounds == MaxFamily \in Nat /\ MaxActs \in Nat /\ MaxExpiry \in Nat /\ MaxFault \in Nat
BY SessionAssumption

LEMMA SlotNames == /\ Slots = {"data", "leave"} \cup Pushes /\ "data" \notin Pushes /\ "leave" \notin Pushes
                   /\ "data" \in Slots /\ "leave" \in Slots /\ \A s \in Pushes : s \in Slots
BY DEF Slots, Pushes

LEMMA IdleTyped == Idle \in Calls /\ FreeHandler \in Refreshes
BY DEF Idle, Calls, FreeHandler, Refreshes

LEMMA SendIs ==
  ASSUME requests \in [Slots -> Calls], NEW slot \in Slots, NEW pair \in Held,
         NEW kind \in {"none", "read", "register", "unregister", "signout", "delete"}
  PROVE  /\ Send(slot, kind, pair) \in [Slots -> Calls]
         /\ Send(slot, kind, pair)[slot] = [pc |-> "sent", kind |-> kind, pair |-> pair, retried |-> FALSE]
         /\ \A s \in Slots \ {slot} : Send(slot, kind, pair)[s] = requests[s]
         /\ \A s \in Slots : Send(slot, kind, pair)[s].pair \in {requests[s].pair, pair}
BY DEF Send, Calls, Held

LEMMA SettleIs ==
  ASSUME requests \in [Slots -> Calls], NEW slot \in Slots,
         NEW pc \in {"idle", "sent", "refused", "waiting", "done", "failed"}
  PROVE  /\ Settle(slot, pc) \in [Slots -> Calls]
         /\ Settle(slot, pc)[slot] = Ended(requests[slot], pc)
         /\ \A s \in Slots \ {slot} : Settle(slot, pc)[s] = requests[s]
         /\ \A s \in Slots : Settle(slot, pc)[s].pair \in {requests[s].pair, NoPair}
         /\ pc # "idle" => \A s \in Slots : /\ Settle(slot, pc)[s].pair = requests[s].pair
                                            /\ Settle(slot, pc)[s].kind = requests[s].kind
                                            /\ Settle(slot, pc)[s].retried = requests[s].retried
                                            /\ Settle(slot, pc)[s].pc = IF s = slot THEN pc ELSE requests[s].pc
<1> DEFINE call == Ended(requests[slot], pc)
<1>1. call \in Calls /\ call.pair \in {requests[slot].pair, NoPair}
  BY IdleTyped DEF Ended, Calls, Idle
<1>2. pc # "idle" => call.pair = requests[slot].pair /\ call.kind = requests[slot].kind
                     /\ call.retried = requests[slot].retried /\ call.pc = pc
  BY DEF Ended, Calls
<1>3. \A s \in Slots : Settle(slot, pc)[s] = IF s = slot THEN call ELSE requests[s]
  BY DEF Settle
<1>4. Settle(slot, pc) \in [Slots -> Calls]
  BY <1>1 DEF Settle
<1> HIDE DEF call
<1> QED BY <1>1, <1>2, <1>3, <1>4 DEF Ended, call

LEMMA AnswerIs ==
  ASSUME refreshes \in [Handlers -> Refreshes], NEW h \in Handlers, NEW pair \in Held
  PROVE  /\ Answer(h, pair) \in [Handlers -> Refreshes]
         /\ Answer(h, pair)[h] = IF inFlightRefresh = h
                THEN [refreshes[h] EXCEPT !.pc = "answered", !.answer = pair] ELSE FreeHandler
         /\ \A k \in Handlers \ {h} : Answer(h, pair)[k] = refreshes[k]
<1>1. [refreshes[h] EXCEPT !.pc = "answered", !.answer = pair] \in Refreshes
  BY DEF Refreshes, Held
<1> QED BY <1>1, IdleTyped DEF Answer

LEMMA FailWaitingIs ==
  ASSUME requests \in [Slots -> Calls]
  PROVE  FailWaiting \in [Slots -> Calls]
<1>1. \A s \in Slots : Ended(requests[s], After(s)) \in Calls
  BY IdleTyped DEF Ended, Calls, After
<1> QED BY <1>1 DEF FailWaiting

LEMMA AccountTyped ==
  ASSUME TypeInv
  PROVE  /\ \A p \in Held : p # NoPair /\ Issued(p) => AccountOf(p) \in Accounts
         /\ AccountOf(NoPair) = NoOne
         /\ AccountOf(session) \in Accounts \cup {NoOne} /\ AccountOf(signing) \in Accounts \cup {NoOne}
         /\ \A s \in Slots : AccountOf(requests[s].pair) \in Accounts \cup {NoOne}
<1>1. \A p : p # NoPair /\ Issued(p) => AccountOf(p) \in Accounts
  BY DEF TypeInv, TypeOK, Issued, AccountOf
<1> QED
  BY <1>1 DEF TypeInv, PairsIssued, AccountOf

-----------------------------------------------------------------------------
(* The steps of a call and of the screens, which give out no pair and move   *)
(* no refresh.                                                               *)

CallStep ==
    \/ Fetch \/ (\E s \in Pushes : StartRegister(s) \/ RegisterSettled(s)) \/ OfferTap \/ OpenTap \/ FinishOnboarding
    \/ StartSignOut \/ Released \/ StartDelete
    \/ \E s \in Slots : Serve(s) \/ CallLost(s) \/ GiveUp(s)
    \/ \E f \in 1 .. Len(families) : Expire([fam |-> f, gen |-> turns[f]])

LEMMA ServeTypes == ASSUME TypeInv, NEW s \in Slots, Serve(s) PROVE TypeOK'
<1>1. AccountOf(requests[s].pair) \in Accounts \cup {NoOne} /\ requests[s] \in Calls
  BY AccountTyped DEF TypeInv, TypeOK
<1>2. CASE Accepted(requests[s].pair)
  <2>1. requests[s].pair # NoPair /\ requests[s].pair \in Held
    BY <1>1, <1>2 DEF Accepted, Calls, Held
  <2>2. AccountOf(requests[s].pair) \in Accounts /\ requests[s].pair.fam \in 1 .. MaxFamily
    BY <2>1, AccountTyped, Bounds DEF TypeInv, TypeOK, PairsIssued, Held, Pairs
  <2>3. Registers(AccountOf(requests[s].pair), requests[s].kind) \in Accounts \cup {NoOne}
    BY <2>2 DEF Registers, TypeInv, TypeOK
  <2>4. requests' \in [Slots -> Calls]
    BY <1>2, SettleIs DEF Serve, After, TypeInv, TypeOK
  <2>5. faults' \in 0 .. MaxFault
    BY <1>2, Bounds DEF Serve, TypeInv, TypeOK
  <2>6. revoked' \subseteq 1 .. MaxFamily /\ revoked \subseteq revoked' /\ deleted' \subseteq Accounts
    BY <1>2, <2>2 DEF Serve, TypeInv, TypeOK
  <2> QED
    BY <1>2, <2>3, <2>4, <2>5, <2>6 DEF Serve, TypeInv, TypeOK, phone
<1>3. CASE ~Accepted(requests[s].pair)
  <2>1. requests' \in [Slots -> Calls]
    BY <1>3, SettleIs DEF Serve, TypeInv, TypeOK
  <2> QED
    BY <1>3, <2>1 DEF Serve, TypeInv, TypeOK, phone
<1> QED
  BY <1>2, <1>3

LEMMA CallTypes == ASSUME TypeInv, CallStep PROVE TypeOK'
<1> USE Bounds, SettleIs, AccountTyped DEF TypeInv, TypeOK, server, phone, world, Held, Act
<1>0. \A slot \in Slots : \A kind \in {"read", "register", "unregister", "signout", "delete"} :
        Send(slot, kind, session) \in [Slots -> Calls]
  BY SendIs
<1>1. CASE Fetch
  <2>1. requests' \in [Slots -> Calls]
    BY <1>0, SlotNames, <1>1 DEF Fetch
  <2> QED
    BY <1>1, <2>1 DEF Fetch
<1>2. ASSUME NEW s \in Pushes, StartRegister(s) PROVE TypeOK'
  <2>1. requests' \in [Slots -> Calls]
    BY <1>0, SlotNames, <1>2 DEF StartRegister
  <2>2. registering' \in Nat
    BY <1>2 DEF StartRegister
  <2>3. overtaken' \subseteq Accounts
    BY <1>2, SlotNames DEF StartRegister
  <2> QED
    BY <1>2, <2>1, <2>2, <2>3 DEF StartRegister
<1>3. ASSUME NEW s \in Pushes, RegisterSettled(s) PROVE TypeOK'
  BY <1>0, SlotNames, <1>3, IdleTyped DEF RegisterSettled
<1>4. CASE OfferTap
  BY <1>4 DEF OfferTap
<1>5. CASE OpenTap
  BY <1>5 DEF OpenTap
<1>6. CASE FinishOnboarding
  <2>1. AccountOf(session) \in Accounts
    BY <1>6 DEF FinishOnboarding, PairsIssued
  <2>2. onboarding' = FALSE /\ onboarded' = onboarded \cup {AccountOf(session)}
    BY <1>6 DEF FinishOnboarding
  <2>3. onboarded' \subseteq Accounts /\ {pushToken', onboarding'} \subseteq BOOLEAN
    BY <1>6, <2>1, <2>2 DEF FinishOnboarding
  <2> QED
    BY <1>6, <2>3 DEF FinishOnboarding
<1>7. CASE StartSignOut
  <2>0. requests' = Send("leave", "unregister", session) \/ requests' = Send("leave", "signout", session)
    BY <1>7, Zenon DEF StartSignOut
  <2>1. requests' \in [Slots -> Calls]
    <3>1. Send("leave", "unregister", session) \in [Slots -> Calls] /\ Send("leave", "signout", session) \in [Slots -> Calls]
      BY <1>0, SlotNames
    <3> QED
      BY <2>0, <3>1
  <2> QED
    BY <1>7, <2>1 DEF StartSignOut
<1>8. CASE Released
  BY <1>0, SlotNames, <1>8 DEF Released
<1>9. CASE StartDelete
  <2>1. requests' \in [Slots -> Calls]
    BY <1>0, SlotNames, <1>9 DEF StartDelete
  <2> QED
    BY <1>9, <2>1 DEF StartDelete
<1>10. ASSUME NEW s \in Slots, CallLost(s) PROVE TypeOK'
  BY <1>10 DEF CallLost, After
<1>11. ASSUME NEW s \in Slots, GiveUp(s) PROVE TypeOK'
  BY <1>11 DEF GiveUp, After
<1>12. ASSUME NEW f \in 1 .. Len(families), Expire([fam |-> f, gen |-> turns[f]]) PROVE TypeOK'
  <2>1. [fam |-> f, gen |-> turns[f]] \in Pairs
    BY DEF Pairs
  <2> QED
    BY <1>12, <2>1 DEF Expire
<1> QED
  BY <1>1, <1>2, <1>3, <1>4, <1>5, <1>6, <1>7, <1>8, <1>9, <1>10, <1>11, <1>12, ServeTypes DEF CallStep

(* The steps that move a pair, a refresh or the session. *)

LEMMA CheckFamilyTypes == ASSUME TypeInv, NEW h \in Handlers, CheckFamily(h) PROVE TypeOK'
<1>1. refreshes[h] \in Refreshes /\ Issued(refreshes[h].pair) /\ NoPair \in Held
  BY DEF TypeInv, TypeOK, PairsIssued, CheckFamily, Held
<1>2. refreshes[h].pair.fam \in 1 .. MaxFamily
  BY <1>1, Bounds DEF TypeInv, TypeOK, Issued
<1>3. refreshes' \in [Handlers -> Refreshes]
  <2>1. [refreshes EXCEPT ![h].pc = "checked"] \in [Handlers -> Refreshes]
    BY DEF TypeInv, TypeOK, Refreshes
  <2> QED
    BY <1>1, <2>1, AnswerIs DEF CheckFamily, TypeInv, TypeOK
<1>4. revoked' \subseteq 1 .. MaxFamily /\ reused' \subseteq revoked'
  BY <1>2 DEF CheckFamily, TypeInv, TypeOK
<1> QED
  BY <1>3, <1>4 DEF CheckFamily, TypeInv, TypeOK, phone, world

LEMMA AcquireLockTypes == ASSUME TypeInv, NEW h \in Handlers, AcquireLock(h) PROVE TypeOK'
<1>1. refreshes[h] \in Refreshes /\ Issued(refreshes[h].pair) /\ NoPair \in Held
  BY DEF TypeInv, TypeOK, PairsIssued, AcquireLock, Held
<1>2. refreshes[h].pair \in Pairs
  BY <1>1, Bounds DEF TypeInv, TypeOK, Issued, Refreshes, NoPair
<1>3. refreshes' \in [Handlers -> Refreshes]
  <2>1. [refreshes EXCEPT ![h].pc = "locked"] \in [Handlers -> Refreshes]
    BY DEF TypeInv, TypeOK, Refreshes
  <2> QED
    BY <1>1, <2>1, AnswerIs DEF AcquireLock, TypeInv, TypeOK
<1> QED
  BY <1>2, <1>3 DEF AcquireLock, TypeInv, TypeOK, phone, world

LEMMA LockExpiresTypes == ASSUME TypeInv, NEW h \in Handlers, LockExpires(h) PROVE TypeInv'
<1>1. refreshes[h].pair.fam \in 1 .. MaxFamily
  BY Bounds DEF LockExpires, TypeInv, TypeOK, PairsIssued, Issued
<1>2. locked' \subseteq Pairs /\ held' \subseteq 1 .. MaxFamily
  BY <1>1 DEF LockExpires, TypeInv, TypeOK
<1> QED
  BY <1>2 DEF LockExpires, TypeInv, TypeOK, PairsIssued, Issued, FlightInv, phone, world

LEMMA RotateTypes == ASSUME TypeInv, NEW h \in Handlers, Rotate(h) PROVE TypeOK'
<1> DEFINE p == refreshes[h].pair
           next == [fam |-> p.fam, gen |-> turns[p.fam] + 1]
<1>1. refreshes[h] \in Refreshes /\ Issued(p) /\ NoPair \in Held
  BY DEF TypeInv, TypeOK, PairsIssued, Rotate, Held
<1>2. p \in Pairs /\ p.fam \in 1 .. Len(families) /\ turns[p.fam] \in Nat \ {0}
  BY <1>1, Bounds DEF TypeInv, TypeOK, Issued, Refreshes, NoPair
<1>3. next \in Held
  BY <1>2, Bounds DEF Held, Pairs, TypeInv, TypeOK
<1>4. refreshes' \in [Handlers -> Refreshes]
  <2>1. Answer(h, NoPair) \in [Handlers -> Refreshes] /\ Answer(h, next) \in [Handlers -> Refreshes]
    BY <1>1, <1>3, AnswerIs DEF TypeInv, TypeOK
  <2> QED
    BY <2>1 DEF Rotate
<1>5. turns' \in Seq(Nat \ {0}) /\ Len(turns') = Len(families)
  <2>1. [turns EXCEPT ![p.fam] = @ + 1] \in Seq(Nat \ {0}) /\ Len([turns EXCEPT ![p.fam] = @ + 1]) = Len(turns)
    BY <1>2 DEF TypeInv, TypeOK
  <2> QED
    BY <2>1 DEF Rotate, TypeInv, TypeOK
<1>6. denied' \subseteq Pairs
  BY <1>2 DEF Rotate, TypeInv, TypeOK
<1> QED
  BY <1>4, <1>5, <1>6 DEF Rotate, TypeInv, TypeOK, phone, world

LEMMA RefusedTypes == ASSUME TypeInv, NEW s \in Slots, Refused(s) PROVE TypeOK'
<1>1. requests' \in [Slots -> Calls]
  BY SettleIs DEF Refused, TypeInv, TypeOK
<1>2. session # NoPair => [pc |-> "sent", pair |-> session, answer |-> NoPair] \in Refreshes
  BY DEF TypeInv, TypeOK, Refreshes
<1>3. refreshes' \in [Handlers -> Refreshes] /\ inFlightRefresh' \in Handlers \cup {0}
  BY <1>2 DEF Refused, getOrRefreshToken, JoinsRefresh, TypeInv, TypeOK
<1> QED
  BY <1>1, <1>3 DEF Refused, TypeInv, TypeOK, server, phone, world

LEMMA RefreshLostTypes == ASSUME TypeInv, RefreshLost PROVE TypeOK'
<1>1. inFlightRefresh \in Handlers /\ Issued(refreshes[inFlightRefresh].pair)
  BY DEF RefreshLost, TypeInv, TypeOK, PairsIssued, FlightInv
<1>2. refreshes[inFlightRefresh].pair.fam \in 1 .. MaxFamily
  BY <1>1, Bounds DEF TypeInv, TypeOK, Issued
<1>3. refreshes' \in [Handlers -> Refreshes] /\ requests' \in [Slots -> Calls]
  BY <1>1, IdleTyped, FailWaitingIs DEF RefreshLost, TypeInv, TypeOK
<1>4. faults' \in 0 .. MaxFault
  BY Bounds DEF RefreshLost, TypeInv, TypeOK
<1>5. lost' \subseteq 1 .. MaxFamily
  BY <1>2 DEF RefreshLost, TypeInv, TypeOK
<1> QED
  BY <1>3, <1>4, <1>5 DEF RefreshLost, TypeInv, TypeOK, server, phone

LEMMA RelaunchTypes == ASSUME TypeInv, Relaunch PROVE TypeOK'
<1>1. refreshes' \in [Handlers -> Refreshes]
  BY IdleTyped DEF Relaunch, TypeInv, TypeOK
<1>2. requests' \in [Slots -> Calls]
  BY IdleTyped DEF Relaunch
<1>3. lost' \subseteq 1 .. MaxFamily
  <2>1. CASE inFlightRefresh = 0
    BY <2>1 DEF Relaunch, TypeInv, TypeOK
  <2>2. CASE inFlightRefresh \in Handlers
    <3>1. Issued(refreshes[inFlightRefresh].pair)
      BY <2>2 DEF TypeInv, PairsIssued, FlightInv, Handlers
    <3>2. refreshes[inFlightRefresh].pair.fam \in 1 .. MaxFamily
      BY <3>1, Bounds DEF TypeInv, TypeOK, Issued
    <3> QED
      BY <2>2, <3>2 DEF Relaunch, TypeInv, TypeOK, Handlers
  <2> QED
    BY <2>1, <2>2 DEF TypeInv, TypeOK
<1>4. {tap', registered'} \subseteq Accounts \cup {NoOne} /\ pushToken' \in BOOLEAN
  BY DEF Relaunch, TypeInv, TypeOK, server
<1>5. session' \in Pairs \cup {NoPair} /\ signing' \in Pairs \cup {NoPair} /\ registering' \in Nat /\ onboarding' \in BOOLEAN
  BY DEF Relaunch, TypeInv, TypeOK
<1>6. faults' \in 0 .. MaxFault /\ inFlightRefresh' \in Handlers \cup {0} /\ leaving' \in {"no", "release", "revoke", "delete"}
  BY Bounds DEF Relaunch, TypeInv, TypeOK
<1> QED
  BY <1>1, <1>2, <1>3, <1>4, <1>5, <1>6 DEF Relaunch, TypeInv, TypeOK, server

LEMMA RefreshedTypes == ASSUME TypeInv, Refreshed PROVE TypeOK'
<1> DEFINE h == inFlightRefresh
<1>1. h \in Handlers /\ refreshes[h].answer \in Pairs
  BY DEF Refreshed, TypeInv, TypeOK, Refreshes
<1>2. refreshes' \in [Handlers -> Refreshes]
  BY <1>1, IdleTyped DEF Refreshed, TypeInv, TypeOK
<1>3. requests' \in [Slots -> Calls]
  <2>1. \A s \in Slots : [requests[s] EXCEPT !.pc = "sent", !.retried = TRUE, !.pair = refreshes[h].answer] \in Calls
    BY <1>1 DEF TypeInv, TypeOK, Calls
  <2> QED
    BY <2>1 DEF Refreshed, TypeInv, TypeOK
<1>4. /\ session' = refreshes[h].answer /\ onboarding' = onboarding /\ tap' \in {tap, NoOne}
      /\ registering' \in {registering, registering + 1}
  BY DEF Refreshed, SetSession
<1>5. {pushToken', onboarding'} = {pushToken, onboarding}
  BY <1>4 DEF Refreshed
<1>6. {pushToken', onboarding'} \subseteq BOOLEAN
  BY <1>5 DEF TypeInv, TypeOK
<1>7. registering' \in Nat
  BY <1>4 DEF TypeInv, TypeOK
<1>8. session' \in Pairs \cup {NoPair} /\ tap' \in Accounts \cup {NoOne}
  BY <1>1, <1>4 DEF TypeInv, TypeOK
<1> QED
  BY <1>2, <1>3, <1>6, <1>7, <1>8 DEF Refreshed, TypeInv, TypeOK, server, world

LEMMA SessionTypes ==
  ASSUME TypeInv,
         \/ \E a \in Accounts : SignIn(a)
         \/ SignedIn \/ SignInLost \/ RefreshRefused \/ SignedOut \/ Deleted
  PROVE  TypeOK'
<1> USE Bounds, IdleTyped DEF TypeInv, TypeOK, server, phone, world
<1>1. ASSUME NEW a \in Accounts, SignIn(a) PROVE TypeOK'
  <2>1. [fam |-> Len(families) + 1, gen |-> 1] \in Pairs
    BY <1>1 DEF SignIn, Pairs
  <2>2. families' \in Seq(Accounts) /\ Len(families') = Len(families) + 1 /\ turns' \in Seq(Nat \ {0})
        /\ Len(turns') = Len(turns) + 1
    BY <1>1 DEF SignIn
  <2> QED
    BY <1>1, <2>1, <2>2 DEF SignIn, Act
<1>2. CASE SignedIn
  BY <1>2 DEF SignedIn, SetSession
<1>3. CASE SignInLost
  BY <1>3 DEF SignInLost
<1>4. CASE RefreshRefused
  <2>1. requests' \in [Slots -> Calls] /\ refreshes' \in [Handlers -> Refreshes]
    BY <1>4, FailWaitingIs DEF RefreshRefused
  <2> QED
    BY <1>4, <2>1 DEF RefreshRefused, Clear, SetSession
<1>5. CASE SignedOut
  BY <1>5 DEF SignedOut, Clear, SetSession
<1>6. CASE Deleted
  <2>1. session' \in Pairs \cup {NoPair} /\ registering' \in Nat /\ {pushToken', onboarding'} \subseteq BOOLEAN
        /\ tap' \in Accounts \cup {NoOne}
    BY <1>6 DEF Deleted, Clear, SetSession
  <2> QED
    BY <1>6, <2>1 DEF Deleted
<1> QED
  BY <1>1, <1>2, <1>3, <1>4, <1>5, <1>6

-----------------------------------------------------------------------------
(* Every pair in hand was issued, and refreshes are answered to the phone.   *)

LEMMA IssuedStays ==
  ASSUME TypeInv, UNCHANGED <<families, turns>>
  PROVE  \A p : Issued(p) <=> Issued(p)'
BY DEF Issued

LEMMA CallIssued == ASSUME TypeInv, CallStep PROVE PairsIssued' /\ FlightInv'
<1>1. UNCHANGED <<families, turns, denied, session, signing, refreshes, inFlightRefresh>>
  BY DEF CallStep, Fetch, StartRegister, RegisterSettled, OfferTap, OpenTap, FinishOnboarding, StartSignOut,
         Released, StartDelete, Serve, CallLost, GiveUp, Expire, server, phone
<1>2. \A s \in Slots : requests'[s].pair \in {requests[s].pair, session, NoPair}
  <2>0. \A slot \in Slots : \A kind \in {"read", "register", "unregister", "signout", "delete"} :
          \A s \in Slots : Send(slot, kind, session)[s].pair \in {requests[s].pair, session}
    BY SendIs DEF TypeInv, TypeOK, Held
  <2>a. \A slot \in Slots : \A pc \in {"idle", "refused", "done", "failed"} :
          \A s \in Slots : Settle(slot, pc)[s].pair \in {requests[s].pair, NoPair}
    BY SettleIs DEF TypeInv, TypeOK
  <2> USE <2>0, <2>a, SlotNames
  <2>1. CASE Fetch
    BY <2>1 DEF Fetch
  <2>2. ASSUME NEW t \in Pushes, StartRegister(t) PROVE \A s \in Slots : requests'[s].pair \in {requests[s].pair, session, NoPair}
    BY <2>2 DEF StartRegister
  <2>3. ASSUME NEW t \in Pushes, RegisterSettled(t) PROVE \A s \in Slots : requests'[s].pair \in {requests[s].pair, session, NoPair}
    BY <2>3 DEF RegisterSettled, TypeInv, TypeOK, Idle
  <2>4. CASE OfferTap \/ OpenTap \/ FinishOnboarding
    BY <2>4 DEF OfferTap, OpenTap, FinishOnboarding
  <2>5. CASE StartSignOut
    BY <2>5 DEF StartSignOut
  <2>6. CASE Released
    BY <2>6 DEF Released
  <2>7. CASE StartDelete
    BY <2>7 DEF StartDelete
  <2>8. ASSUME NEW t \in Slots, Serve(t) PROVE \A s \in Slots : requests'[s].pair \in {requests[s].pair, session, NoPair}
    BY <2>8 DEF Serve, After
  <2>9. ASSUME NEW t \in Slots, CallLost(t) \/ GiveUp(t)
        PROVE  \A s \in Slots : requests'[s].pair \in {requests[s].pair, session, NoPair}
    BY <2>9 DEF CallLost, GiveUp, After
  <2>10. ASSUME NEW f \in 1 .. Len(families), Expire([fam |-> f, gen |-> turns[f]])
         PROVE  \A s \in Slots : requests'[s].pair \in {requests[s].pair, session, NoPair}
    BY <2>10 DEF Expire
  <2> QED
    BY <2>1, <2>2, <2>3, <2>4, <2>5, <2>6, <2>7, <2>8, <2>9, <2>10 DEF CallStep
<1> QED
  BY <1>1, <1>2, IssuedStays DEF TypeInv, PairsIssued, FlightInv

LEMMA AnswerIssued ==
  ASSUME TypeInv, NEW h \in Handlers, NEW pair \in Held, refreshes[h].pc # "free"
  PROVE  LET answer == Answer(h, pair) IN
         /\ \A k \in Handlers : /\ answer[k].pc # "free" => refreshes[k].pc # "free" /\ answer[k].pair = refreshes[k].pair
                                /\ answer[k].answer \in {refreshes[k].answer, NoPair} \cup (IF k = h THEN {pair} ELSE {})
                                /\ answer[k].pc = "answered" => k = inFlightRefresh
                                /\ answer[k].pc # "answered" => answer[k].answer = NoPair
         /\ inFlightRefresh # 0 => answer[inFlightRefresh].pc # "free"
<1> DEFINE heard == [refreshes[h] EXCEPT !.pc = "answered", !.answer = pair]
<1>1. heard.pc = "answered" /\ heard.pair = refreshes[h].pair /\ heard.answer = pair
  BY DEF TypeInv, TypeOK, Refreshes
<1>2. /\ Answer(h, pair)[h] = IF inFlightRefresh = h THEN heard ELSE FreeHandler
      /\ \A k \in Handlers \ {h} : Answer(h, pair)[k] = refreshes[k]
  BY AnswerIs DEF TypeInv, TypeOK
<1>3. FreeHandler.pc = "free" /\ FreeHandler.answer = NoPair
  BY DEF FreeHandler
<1> HIDE DEF heard
<1> QED
  BY <1>1, <1>2, <1>3 DEF TypeInv, TypeOK, FlightInv

LEMMA CheckFamilyIssued == ASSUME TypeInv, NEW h \in Handlers, CheckFamily(h) PROVE PairsIssued' /\ FlightInv'
<1>1. refreshes[h].pc = "sent" /\ NoPair \in Held
  BY DEF CheckFamily, Held
<1>2. CASE refreshes' = Answer(h, NoPair)
  BY <1>1, <1>2, AnswerIssued, IssuedStays DEF CheckFamily, TypeInv, PairsIssued, FlightInv, phone
<1>3. CASE refreshes' = [refreshes EXCEPT ![h].pc = "checked"]
  BY <1>1, <1>3, IssuedStays DEF CheckFamily, TypeInv, TypeOK, PairsIssued, FlightInv, phone, Refreshes
<1> QED
  BY <1>2, <1>3 DEF CheckFamily

LEMMA AcquireLockIssued == ASSUME TypeInv, NEW h \in Handlers, AcquireLock(h) PROVE PairsIssued' /\ FlightInv'
<1>1. refreshes[h].pc = "checked" /\ NoPair \in Held
  BY DEF AcquireLock, Held
<1>2. CASE refreshes' = Answer(h, NoPair)
  BY <1>1, <1>2, AnswerIssued, IssuedStays DEF AcquireLock, TypeInv, PairsIssued, FlightInv, phone
<1>3. CASE refreshes' = [refreshes EXCEPT ![h].pc = "locked"]
  BY <1>1, <1>3, IssuedStays DEF AcquireLock, TypeInv, TypeOK, PairsIssued, FlightInv, phone, Refreshes
<1> QED
  BY <1>2, <1>3 DEF AcquireLock

(* A rotation: either the account is gone, or the refresh gets the next pair. *)
LEMMA RotateIs ==
  ASSUME TypeInv, NEW h \in Handlers, Rotate(h)
  PROVE  LET p == refreshes[h].pair
         IN
         /\ refreshes[h].pc = "locked" /\ p \in Pairs /\ Issued(p)
         /\ \/ refreshes' = Answer(h, NoPair) /\ UNCHANGED <<denied, turns>>
            \/ \E next \in Pairs :
               /\ next = [fam |-> p.fam, gen |-> turns[p.fam] + 1]
               /\ denied' = denied \cup {p} /\ refreshes' = Answer(h, next)
               /\ turns'[p.fam] = turns[p.fam] + 1 /\ turns[p.fam] \in Nat \ {0}
               /\ \A f \in 1 .. Len(families) \ {p.fam} : turns'[f] = turns[f]
               /\ ~Issued(next) /\ Issued(next)' /\ next # NoPair
               /\ \A q : Issued(q) => Issued(q)'
<1> DEFINE p == refreshes[h].pair
<1>1. refreshes[h] \in Refreshes /\ Issued(p) /\ p # NoPair
  BY DEF TypeInv, TypeOK, PairsIssued, Rotate, Issued, NoPair
<1>0. families \in Seq(Accounts) /\ turns \in Seq(Nat \ {0}) /\ Len(turns) = Len(families) /\ Len(families) \in Nat
  BY DEF TypeInv, TypeOK
<1>2. p \in Pairs /\ p.fam \in 1 .. Len(families) /\ turns[p.fam] \in Nat \ {0}
  BY <1>1, Bounds DEF TypeInv, TypeOK, Issued, Refreshes
<1>3. PICK next \in Pairs : next = [fam |-> p.fam, gen |-> turns[p.fam] + 1]
                         /\ next # NoPair /\ next.fam = p.fam /\ next.gen = turns[p.fam] + 1
  <2>1. p.fam \in 1 .. MaxFamily /\ turns[p.fam] + 1 \in Nat \ {0}
    BY <1>2 DEF Pairs
  <2>2. [fam |-> p.fam, gen |-> turns[p.fam] + 1] \in Pairs
    BY <2>1 DEF Pairs
  <2>3. [fam |-> p.fam, gen |-> turns[p.fam] + 1].gen # NoPair.gen
    BY <2>1 DEF NoPair
  <2> QED
    BY <2>2, <2>3
<1>4. CASE AccountOf(p) \in deleted
  BY <1>1, <1>2, <1>4 DEF Rotate
<1>5. CASE AccountOf(p) \notin deleted
  <2>1. turns' = [turns EXCEPT ![p.fam] = turns[p.fam] + 1] /\ UNCHANGED families
    BY <1>5 DEF Rotate
  <2>2. turns'[p.fam] = turns[p.fam] + 1 /\ \A f \in 1 .. Len(families) \ {p.fam} : turns'[f] = turns[f]
    BY <1>2, <2>1 DEF TypeInv, TypeOK
  <2>3. ~Issued(next) /\ Issued(next)'
    <3>1. turns[p.fam] + 1 \notin 1 .. turns[p.fam] /\ turns[p.fam] + 1 \in 1 .. turns'[p.fam]
      BY <1>2, <2>2
    <3> QED
      BY <1>2, <1>3, <2>1, <3>1 DEF Issued
  <2>4. ASSUME NEW q, Issued(q) PROVE Issued(q)'
    <3>1. q.fam \in 1 .. Len(families) /\ turns[q.fam] \in Nat
      BY <1>0, <2>4 DEF Issued
    <3>2. turns'[q.fam] \in Nat /\ turns[q.fam] <= turns'[q.fam]
      <4>1. CASE q.fam = p.fam
        BY <4>1, <1>2, <2>2
      <4>2. CASE q.fam \in 1 .. Len(families) \ {p.fam}
        BY <4>2, <3>1, <2>2
      <4> QED
        BY <3>1, <4>1, <4>2
    <3> QED
      BY <2>1, <2>4, <3>1, <3>2 DEF Issued
  <2> QED
    BY <1>1, <1>2, <1>3, <1>5, <2>1, <2>2, <2>3, <2>4 DEF Rotate
<1> QED
  BY <1>4, <1>5

LEMMA RotateIssued == ASSUME TypeInv, NEW h \in Handlers, Rotate(h) PROVE PairsIssued' /\ FlightInv'
<1> DEFINE p == refreshes[h].pair
<1>1. UNCHANGED <<families, session, signing, inFlightRefresh, requests>> /\ NoPair \in Held
  BY DEF Rotate, phone, Held
<1>2. CASE refreshes' = Answer(h, NoPair) /\ UNCHANGED <<denied, turns>>
  BY <1>1, <1>2, RotateIs, AnswerIssued, IssuedStays DEF TypeInv, PairsIssued, FlightInv
<1>3. ASSUME NEW next \in Pairs, refreshes' = Answer(h, next), Issued(next)', denied' = denied \cup {p},
             \A q : Issued(q) => Issued(q)'
      PROVE  PairsIssued' /\ FlightInv'
  <2>1. next \in Held /\ Issued(p) /\ refreshes[h].pc # "free"
    BY RotateIs DEF Held
  <2> QED
    BY <1>1, <1>3, <2>1, AnswerIssued DEF TypeInv, PairsIssued, FlightInv
<1> QED
  BY <1>2, <1>3, RotateIs

LEMMA RefusedIssued == ASSUME TypeInv, NEW s \in Slots, Refused(s) PROVE PairsIssued' /\ FlightInv'
<1>1. UNCHANGED <<families, turns, denied, session, signing>>
  BY DEF Refused, server, phone
<1>2. \A t \in Slots : requests'[t].pair = requests[t].pair
  BY SettleIs DEF Refused, TypeInv, TypeOK
<1>3. CASE inFlightRefresh # 0
  BY <1>1, <1>2, <1>3, IssuedStays DEF Refused, getOrRefreshToken, JoinsRefresh, TypeInv, PairsIssued, FlightInv
<1>4. CASE inFlightRefresh = 0
  <2>1. PICK h \in Handlers :
          /\ h = NextHandler /\ inFlightRefresh' = h /\ session # NoPair
          /\ refreshes' = [refreshes EXCEPT ![h] = [pc |-> "sent", pair |-> session, answer |-> NoPair]]
    BY <1>4 DEF Refused, getOrRefreshToken, JoinsRefresh
  <2>2. /\ refreshes'[h] = [pc |-> "sent", pair |-> session, answer |-> NoPair]
        /\ \A k \in Handlers \ {h} : refreshes'[k] = refreshes[k]
    BY <2>1 DEF TypeInv, TypeOK
  <2>3. \A k \in Handlers : refreshes[k].pc # "answered"
    BY <1>4 DEF TypeInv, FlightInv, Handlers
  <2>4. PairsIssued'
    BY <1>1, <1>2, <2>1, <2>2, IssuedStays DEF TypeInv, PairsIssued
  <2> QED
    BY <2>1, <2>2, <2>3, <2>4 DEF TypeInv, FlightInv
<1> QED
  BY <1>3, <1>4

LEMMA RefreshedIssued == ASSUME TypeInv, Refreshed PROVE PairsIssued' /\ FlightInv'
<1> DEFINE h == inFlightRefresh
<1>1. h \in Handlers /\ refreshes[h].answer # NoPair /\ Issued(refreshes[h].answer) /\ session' = refreshes[h].answer
  BY DEF Refreshed, TypeInv, TypeOK, PairsIssued, SetSession
<1>2. \A s \in Slots : requests'[s].pair \in {requests[s].pair, refreshes[h].answer}
  <2>1. \A s \in Slots : requests[s] \in Calls
    BY DEF TypeInv, TypeOK
  <2> QED
    BY <2>1 DEF Refreshed, Calls
<1>3. UNCHANGED <<families, turns, denied, signing>> /\ inFlightRefresh' = 0
  BY DEF Refreshed, server
<1>4. \A k \in Handlers : refreshes'[k] = IF k = h THEN FreeHandler ELSE refreshes[k]
  BY <1>1 DEF Refreshed, TypeInv, TypeOK
<1> QED
  BY <1>1, <1>2, <1>3, <1>4, IssuedStays DEF TypeInv, PairsIssued, FlightInv, FreeHandler

(* Whatever gives a refresh up frees the handler that answered. *)
LEMMA GivenUpIssued ==
  ASSUME TypeInv, UNCHANGED <<families, turns, denied>>, session' \in {session, NoPair}, signing' \in {signing, NoPair},
         inFlightRefresh' = 0,
         \A k \in Handlers : refreshes'[k] = FreeHandler \/ (refreshes'[k] = refreshes[k] /\ refreshes[k].pc # "answered"),
         \A s \in Slots : requests'[s].pair \in {requests[s].pair, NoPair}
  PROVE  PairsIssued' /\ FlightInv'
BY IssuedStays DEF TypeInv, PairsIssued, FlightInv, FreeHandler

LEMMA FailWaitingPairs == ASSUME TypeInv PROVE \A s \in Slots : FailWaiting[s].pair \in {requests[s].pair, NoPair}
<1>1. \A s \in Slots : requests[s] \in Calls
  BY DEF TypeInv, TypeOK
<1> QED
  BY <1>1 DEF FailWaiting, Ended, Idle, Calls

LEMMA RefreshRefusedIssued == ASSUME TypeInv, RefreshRefused PROVE PairsIssued' /\ FlightInv'
<1>1. \A k \in Handlers : refreshes'[k] = FreeHandler \/ (refreshes'[k] = refreshes[k] /\ refreshes[k].pc # "answered")
  BY DEF RefreshRefused, TypeInv, TypeOK, FlightInv
<1> QED
  BY <1>1, FailWaitingPairs, GivenUpIssued DEF RefreshRefused, Clear, SetSession, server

LEMMA RefreshLostIssued == ASSUME TypeInv, RefreshLost PROVE PairsIssued' /\ FlightInv'
<1>1. \A k \in Handlers : refreshes'[k] = FreeHandler \/ (refreshes'[k] = refreshes[k] /\ refreshes[k].pc # "answered")
  BY DEF RefreshLost, TypeInv, TypeOK, FlightInv
<1> QED
  BY <1>1, FailWaitingPairs, GivenUpIssued DEF RefreshLost, server, phone

LEMMA RelaunchIssued == ASSUME TypeInv, Relaunch PROVE PairsIssued' /\ FlightInv'
<1>1. \A k \in Handlers : refreshes'[k] = FreeHandler \/ (refreshes'[k] = refreshes[k] /\ refreshes[k].pc # "answered")
  BY DEF Relaunch
<1>2. \A s \in Slots : requests'[s].pair = NoPair
  BY DEF Relaunch, Idle
<1> QED
  BY <1>1, <1>2, GivenUpIssued DEF Relaunch, SetSession, server

LEMMA SignInIssued == ASSUME TypeInv, NEW a \in Accounts, SignIn(a) PROVE PairsIssued' /\ FlightInv'
<1>1. /\ Len(families') = Len(families) + 1 /\ Len(families) \in Nat
      /\ \A f \in 1 .. Len(families) : turns'[f] = turns[f]
      /\ turns'[Len(families) + 1] = 1
  BY DEF SignIn, TypeInv, TypeOK
<1>2. \A q : Issued(q) => Issued(q)'
  BY <1>1 DEF Issued
<1>3. PICK first : first = [fam |-> Len(families) + 1, gen |-> 1] /\ Issued(first)'
  <2>1. PICK first : first = [fam |-> Len(families) + 1, gen |-> 1]
    OBVIOUS
  <2> QED
    BY <1>1, <2>1 DEF Issued
<1>4. signing' = first /\ UNCHANGED <<session, refreshes, inFlightRefresh, requests, denied>>
  BY <1>3 DEF SignIn, phone
<1> QED
  BY <1>2, <1>3, <1>4 DEF TypeInv, PairsIssued, FlightInv

LEMMA SessionIssued ==
  ASSUME TypeInv, SignedIn \/ SignInLost \/ SignedOut \/ Deleted
  PROVE  PairsIssued' /\ FlightInv'
<1>1. UNCHANGED <<families, turns, denied, refreshes, inFlightRefresh>>
  BY DEF SignedIn, SignInLost, SignedOut, Deleted, server
<1>2. session' \in {session, signing, NoPair} /\ signing' \in {signing, NoPair}
  BY DEF SignedIn, SignInLost, SignedOut, Deleted, phone, Clear, SetSession
<1>3. \A s \in Slots : requests'[s].pair \in {requests[s].pair, NoPair}
  <2>1. \A slot \in Slots, s \in Slots : [requests EXCEPT ![slot] = Idle][s].pair \in {requests[s].pair, NoPair}
    BY DEF TypeInv, TypeOK, Idle
  <2> QED
    BY <2>1, SlotNames DEF SignedIn, SignInLost, SignedOut, Deleted
<1> QED
  BY <1>1, <1>2, <1>3, IssuedStays DEF TypeInv, PairsIssued, FlightInv

LEMMA InitTypes == Init => TypeInv
<1> SUFFICES ASSUME Init PROVE TypeInv
  OBVIOUS
<1>1. TypeOK
  <2>1. families \in Seq(Accounts) /\ Len(families) = 0 /\ turns \in Seq(Nat \ {0}) /\ Len(turns) = 0
    BY DEF Init
  <2>2. refreshes \in [Handlers -> Refreshes] /\ requests \in [Slots -> Calls]
    BY IdleTyped DEF Init
  <2>3. acts \in 0 .. MaxActs /\ faults \in 0 .. MaxFault
    BY Bounds DEF Init
  <2>4. Len(families) <= MaxFamily
    BY <2>1, Bounds
  <2> QED
    BY <2>1, <2>2, <2>3, <2>4 DEF Init, TypeOK
<1>2. PairsIssued /\ FlightInv
  BY DEF Init, PairsIssued, FlightInv, FreeHandler, Idle
<1> QED
  BY <1>1, <1>2 DEF TypeInv

LEMMA NextTypes == ASSUME TypeInv, [Next]_vars PROVE TypeInv'
<1> USE DEF TypeInv
<1>1. CASE CallStep
  BY <1>1, CallTypes, CallIssued
<1>2. ASSUME NEW a \in Accounts, SignIn(a) PROVE TypeInv'
  BY <1>2, SessionTypes, SignInIssued
<1>3. CASE SignedIn \/ SignInLost \/ SignedOut \/ Deleted
  BY <1>3, SessionTypes, SessionIssued
<1>4. CASE RefreshRefused
  BY <1>4, SessionTypes, RefreshRefusedIssued
<1>5. CASE Refreshed
  BY <1>5, RefreshedTypes, RefreshedIssued
<1>6. CASE RefreshLost
  BY <1>6, RefreshLostTypes, RefreshLostIssued
<1>7. CASE Relaunch
  BY <1>7, RelaunchTypes, RelaunchIssued
<1>8. ASSUME NEW s \in Slots, Refused(s) PROVE TypeInv'
  BY <1>8, RefusedTypes, RefusedIssued
<1>9. ASSUME NEW h \in Handlers, CheckFamily(h) PROVE TypeInv'
  BY <1>9, CheckFamilyTypes, CheckFamilyIssued
<1>10. ASSUME NEW h \in Handlers, AcquireLock(h) PROVE TypeInv'
  BY <1>10, AcquireLockTypes, AcquireLockIssued
<1>11. ASSUME NEW h \in Handlers, Rotate(h) PROVE TypeInv'
  BY <1>11, RotateTypes, RotateIssued
<1>12. ASSUME NEW h \in Handlers, LockExpires(h) PROVE TypeInv'
  BY <1>12, LockExpiresTypes
<1>13. CASE UNCHANGED vars
  BY <1>13 DEF vars, server, phone, world, TypeOK, PairsIssued, FlightInv, Issued
<1> QED
  BY <1>1, <1>2, <1>3, <1>4, <1>5, <1>6, <1>7, <1>8, <1>9, <1>10, <1>11, <1>12, <1>13
     DEF Next, CallStep, Calling, Refreshing, Continuing

(* Every variable of the session has its type, however many sign-ins, calls and *)
(* rotations there are (Session). *)
THEOREM TypesHold == Spec => []TypeOK
<1>1. Init => TypeInv
  BY InitTypes
<1>2. TypeInv /\ [Next]_vars => TypeInv'
  BY NextTypes
<1>3. TypeInv => TypeOK
  BY DEF TypeInv
<1> QED
  BY <1>1, <1>2, <1>3, PTL DEF Spec

-----------------------------------------------------------------------------
(* What becomes of a pair.  The refresh tokens of a family are rotated in    *)
(* the order they were issued, each once, for two reasons that fail apart:   *)
(* the lock, while nobody is past the denylist as it runs out, and the       *)
(* phone, which waits for one refresh at a time until an answer is lost.  A  *)
(* pair on its way to the phone is known to nobody, and a refresh the phone  *)
(* does not wait for was lost.                                               *)

Apart(f) == f \notin lost \/ f \notin held

Locking ==
    \A h \in Handlers : refreshes[h].pair.fam \notin held =>
        /\ refreshes[h].pc = "checked" /\ refreshes[h].pair \in denied => refreshes[h].pair \in locked
        /\ refreshes[h].pc = "locked" => refreshes[h].pair \in locked

Rotations ==
    /\ Locking
    /\ \A h \in Handlers : refreshes[h].pc = "locked" /\ Apart(refreshes[h].pair.fam) =>
          /\ refreshes[h].pair \notin denied
          /\ \A k \in Handlers \ {h} : refreshes[k].pc = "locked" => refreshes[k].pair # refreshes[h].pair
    /\ \A p \in Pairs : p.fam \in 1 .. Len(families) /\ Apart(p.fam) => (p \in denied <=> p.gen < turns[p.fam])

Fresh(p) ==
    /\ p # session /\ p \notin denied
    /\ \A h \in Handlers : refreshes[h].pc # "free" => refreshes[h].pair # p

Deliveries ==
    /\ signing # NoPair => Fresh(signing)
    /\ \A h \in Handlers : refreshes[h].answer # NoPair =>
          Fresh(refreshes[h].answer) /\ refreshes[h].answer # signing

Replays ==
    /\ \A h \in Handlers : refreshes[h].pc # "free" /\ h # inFlightRefresh => refreshes[h].pair.fam \in lost
    /\ session # NoPair /\ session \in denied /\ session.fam \notin lost =>
          inFlightRefresh # 0 /\ refreshes[inFlightRefresh].pair = session
    /\ \A h \in Handlers : refreshes[h].pc \in {"sent", "checked", "locked"} /\ refreshes[h].pair.fam \notin lost =>
          refreshes[h].pair \notin denied
    /\ NoSelfReuse

TokenInv == TypeInv /\ Rotations /\ Deliveries /\ Replays

LEMMA SignInTokens == ASSUME TokenInv, NEW a \in Accounts, SignIn(a) PROVE Rotations' /\ Deliveries' /\ Replays'
<1>1. /\ Len(families') = Len(families) + 1 /\ Len(families) \in Nat
      /\ \A f \in 1 .. Len(families) : turns'[f] = turns[f]
      /\ turns'[Len(families) + 1] = 1
  BY DEF SignIn, TokenInv, TypeInv, TypeOK
<1>2. PICK first : first = [fam |-> Len(families) + 1, gen |-> 1]
  OBVIOUS
<1>3. first # NoPair /\ ~Issued(first)
  BY <1>1, <1>2 DEF NoPair, Issued
<1>4. signing' = first /\ UNCHANGED <<session, refreshes, inFlightRefresh, denied, locked, held, reused, lost>>
  BY <1>2 DEF SignIn, phone
<1>5. Rotations'
  <2>1. ASSUME NEW p \in Pairs, p.fam \in 1 .. Len(families'), Apart(p.fam)' PROVE p \in denied' <=> p.gen < turns'[p.fam]
    <3>1. CASE p.fam \in 1 .. Len(families)
      BY <1>1, <1>4, <2>1, <3>1 DEF TokenInv, Rotations, Apart
    <3>2. CASE p.fam = Len(families) + 1
      <4>1. p \notin denied
        BY <1>1, <3>2 DEF TokenInv, TypeInv, PairsIssued, Issued
      <4> QED
        BY <1>1, <1>4, <3>2, <4>1 DEF Pairs
    <3> QED
      BY <1>1, <2>1, <3>1, <3>2
  <2> QED
    BY <1>4, <2>1 DEF TokenInv, Rotations, Locking, Apart
<1>6. Deliveries'
  BY <1>3, <1>4 DEF TokenInv, TypeInv, PairsIssued, FlightInv, Deliveries, Fresh
<1> QED
  BY <1>4, <1>5, <1>6 DEF TokenInv, Replays, NoSelfReuse

LEMMA SessionTokens ==
  ASSUME TokenInv, SignedIn \/ SignInLost \/ SignedOut \/ Deleted
  PROVE  Rotations' /\ Deliveries' /\ Replays'
<1>1. UNCHANGED <<families, turns, denied, locked, held, reused, lost, refreshes, inFlightRefresh>>
  BY DEF SignedIn, SignInLost, SignedOut, Deleted, server, world
<1>2. \/ session' = signing /\ signing # NoPair /\ signing' = NoPair
      \/ session' \in {session, NoPair} /\ signing' \in {signing, NoPair}
  BY DEF SignedIn, SignInLost, SignedOut, Deleted, phone, Clear, SetSession
<1> QED
  BY <1>1, <1>2 DEF TokenInv, Rotations, Locking, Apart, Deliveries, Fresh, Replays, NoSelfReuse

LEMMA CallTokens == ASSUME TokenInv, CallStep \/ UNCHANGED vars PROVE Rotations' /\ Deliveries' /\ Replays'
<1>1. UNCHANGED <<families, turns, denied, locked, held, reused, lost, session, signing, refreshes, inFlightRefresh>>
  BY DEF CallStep, Fetch, StartRegister, RegisterSettled, OfferTap, OpenTap, FinishOnboarding, StartSignOut,
         Released, StartDelete, Serve, CallLost, GiveUp, Expire, server, phone, world, vars
<1> QED
  BY <1>1 DEF TokenInv, Rotations, Locking, Apart, Deliveries, Fresh, Replays, NoSelfReuse

LEMMA RefusedTokens == ASSUME TokenInv, NEW s \in Slots, Refused(s) PROVE Rotations' /\ Deliveries' /\ Replays'
<1>1. UNCHANGED <<families, turns, denied, locked, held, reused, lost, session, signing>>
  BY DEF Refused, server, phone, world
<1>2. CASE inFlightRefresh # 0
  <2>1. UNCHANGED <<refreshes, inFlightRefresh>>
    BY <1>2 DEF Refused, getOrRefreshToken, JoinsRefresh
  <2> QED
    BY <1>1, <2>1 DEF TokenInv, Rotations, Locking, Apart, Deliveries, Fresh, Replays, NoSelfReuse
<1>3. CASE inFlightRefresh = 0
  <2>1. PICK h \in Handlers :
          /\ h = NextHandler /\ inFlightRefresh' = h /\ session # NoPair
          /\ refreshes' = [refreshes EXCEPT ![h] = [pc |-> "sent", pair |-> session, answer |-> NoPair]]
    BY <1>3 DEF Refused, getOrRefreshToken, JoinsRefresh
  <2>2. /\ refreshes'[h] = [pc |-> "sent", pair |-> session, answer |-> NoPair]
        /\ \A k \in Handlers \ {h} : refreshes'[k] = refreshes[k]
    BY <2>1 DEF TokenInv, TypeInv, TypeOK
  <2>3. \A k \in Handlers : refreshes[k].answer = NoPair
    BY <1>3 DEF TokenInv, TypeInv, FlightInv, Handlers
  <2>4. Rotations' /\ Deliveries'
    BY <1>1, <2>2, <2>3 DEF TokenInv, Rotations, Locking, Apart, Deliveries, Fresh
  <2>5. \A k \in Handlers : refreshes[k].pc # "free" => refreshes[k].pair.fam \in lost
    BY <1>3 DEF TokenInv, Replays, Handlers
  <2>6. session \notin denied \/ session.fam \in lost
    BY <1>3, <2>1 DEF TokenInv, Replays
  <2>7. Replays'
    BY <1>1, <2>1, <2>2, <2>5, <2>6 DEF TokenInv, Replays, NoSelfReuse, Handlers
  <2> QED
    BY <2>4, <2>7
<1> QED
  BY <1>2, <1>3

(* Whatever ends the refresh the phone waits for: its answer, or nothing. *)
LEMMA EndedTokens ==
  ASSUME TokenInv, UNCHANGED <<families, turns, denied, locked, held, reused>>, inFlightRefresh' = 0,
         lost \subseteq lost', inFlightRefresh # 0 => signing' = signing \/ signing' = NoPair,
         signing' \in {signing, NoPair},
         \A k \in Handlers : refreshes'[k] = FreeHandler \/ (refreshes'[k] = refreshes[k] /\ refreshes[k].pc # "answered"),
         \A k \in Handlers : k = inFlightRefresh /\ refreshes'[k] # FreeHandler => refreshes[k].pair.fam \in lost',
         \/ session' = NoPair
         \/ \E h \in Handlers : session' = refreshes[h].answer
         \/ session' = session /\ (inFlightRefresh # 0 => refreshes[inFlightRefresh].pair.fam \in lost')
  PROVE  Rotations' /\ Deliveries' /\ Replays'
<1>1. FreeHandler.pc = "free" /\ FreeHandler.answer = NoPair
  BY DEF FreeHandler
<1>2. \A k \in Handlers : refreshes'[k].answer = NoPair
  BY <1>1 DEF TokenInv, TypeInv, FlightInv
<1>3. Rotations'
  BY <1>1 DEF TokenInv, Rotations, Locking, Apart
<1>4. Deliveries'
  BY <1>1, <1>2 DEF TokenInv, Deliveries, Fresh
<1>5. Replays'
  BY <1>1 DEF TokenInv, Deliveries, Fresh, Replays, NoSelfReuse, Handlers
<1> QED
  BY <1>3, <1>4, <1>5

LEMMA RefreshEndTokens ==
  ASSUME TokenInv, Refreshed \/ RefreshRefused \/ RefreshLost \/ Relaunch
  PROVE  Rotations' /\ Deliveries' /\ Replays'
<1>1. UNCHANGED <<families, turns, denied, locked, held, reused>> /\ inFlightRefresh' = 0 /\ lost \subseteq lost'
      /\ signing' \in {signing, NoPair}
  BY DEF Refreshed, RefreshRefused, RefreshLost, Relaunch, server, world
<1>2. \A k \in Handlers : refreshes'[k] = FreeHandler \/ (refreshes'[k] = refreshes[k] /\ refreshes[k].pc # "answered")
  BY DEF Refreshed, RefreshRefused, RefreshLost, Relaunch, TokenInv, TypeInv, TypeOK, FlightInv
<1>3. CASE Refreshed
  BY <1>1, <1>2, <1>3, EndedTokens DEF Refreshed, SetSession, TokenInv, TypeInv, TypeOK
<1>4. CASE RefreshRefused
  BY <1>1, <1>2, <1>4, EndedTokens DEF RefreshRefused, Clear, SetSession, TokenInv, TypeInv, TypeOK
<1>5. CASE RefreshLost
  BY <1>1, <1>2, <1>5, EndedTokens DEF RefreshLost, phone
<1>6. CASE Relaunch
  BY <1>1, <1>2, <1>6, EndedTokens DEF Relaunch, SetSession, Handlers
<1> QED
  BY <1>3, <1>4, <1>5, <1>6

(* What a handler becomes that goes on, and one that answers. *)
LEMMA GoesOnIs ==
  ASSUME TypeInv, NEW h \in Handlers, NEW pc \in {"checked", "locked"}, refreshes[h].pc \in {"sent", "checked"},
         refreshes' = [refreshes EXCEPT ![h].pc = pc]
  PROVE  /\ refreshes'[h].pc = pc /\ refreshes'[h].pair = refreshes[h].pair
         /\ refreshes'[h].answer = NoPair /\ refreshes[h].answer = NoPair
         /\ \A k \in Handlers \ {h} : refreshes'[k] = refreshes[k]
BY DEF TypeInv, TypeOK, Refreshes, FlightInv

LEMMA AnsweredIs ==
  ASSUME TypeInv, NEW h \in Handlers, NEW pair \in Held, refreshes[h].pc # "free", refreshes' = Answer(h, pair)
  PROVE  /\ h = inFlightRefresh => /\ refreshes'[h].pc = "answered"
                                   /\ refreshes'[h].pair = refreshes[h].pair /\ refreshes'[h].answer = pair
         /\ h # inFlightRefresh => refreshes'[h].pc = "free" /\ refreshes'[h].answer = NoPair
         /\ \A k \in Handlers \ {h} : refreshes'[k] = refreshes[k]
<1>1. refreshes[h] \in Refreshes
  BY DEF TypeInv, TypeOK
<1>2. /\ Answer(h, pair)[h] = IF inFlightRefresh = h
                THEN [refreshes[h] EXCEPT !.pc = "answered", !.answer = pair] ELSE FreeHandler
      /\ \A k \in Handlers \ {h} : Answer(h, pair)[k] = refreshes[k]
  BY AnswerIs DEF TypeInv, TypeOK
<1>3. CASE h = inFlightRefresh
  BY <1>1, <1>2, <1>3 DEF Refreshes
<1>4. CASE h # inFlightRefresh
  BY <1>2, <1>4 DEF FreeHandler
<1> QED
  BY <1>3, <1>4

LEMMA ReplaysStay ==
  ASSUME TokenInv, NEW h \in Handlers, UNCHANGED <<denied, lost, session, inFlightRefresh>>, NoSelfReuse',
         \A k \in Handlers \ {h} : refreshes'[k] = refreshes[k],
         refreshes[h].pc # "free", refreshes'[h].pc = "free" => h # inFlightRefresh,
         refreshes'[h].pc # "free" => refreshes'[h].pair = refreshes[h].pair,
         refreshes'[h].pc = "sent" => refreshes[h].pc = "sent",
         refreshes'[h].pc \in {"checked", "locked"} =>
            refreshes[h].pc \in {"sent", "checked"} /\ (refreshes[h].pair \notin denied \/ refreshes[h].pair.fam \in lost)
  PROVE  Replays'
<1>1. \A k \in Handlers : refreshes'[k].pc # "free" => refreshes[k].pc # "free" /\ refreshes'[k].pair = refreshes[k].pair
  OBVIOUS
<1>2. \A k \in Handlers : refreshes'[k].pc # "free" /\ k # inFlightRefresh' => refreshes'[k].pair.fam \in lost'
  BY <1>1 DEF TokenInv, Replays
<1>3. session' # NoPair /\ session' \in denied' /\ session'.fam \notin lost' =>
          inFlightRefresh' # 0 /\ refreshes'[inFlightRefresh'].pair = session'
  <2>1. CASE inFlightRefresh \in Handlers
    <3>1. refreshes'[inFlightRefresh].pair = refreshes[inFlightRefresh].pair
      <4>1. CASE inFlightRefresh = h
        BY <4>1
      <4>2. CASE inFlightRefresh # h
        BY <2>1, <4>2
      <4> QED
        BY <4>1, <4>2
    <3> QED
      BY <2>1, <3>1 DEF TokenInv, Replays
  <2>2. CASE inFlightRefresh = 0
    BY <2>2 DEF TokenInv, Replays
  <2> QED
    BY <2>1, <2>2 DEF TokenInv, TypeInv, TypeOK
<1>4. \A k \in Handlers : refreshes'[k].pc \in {"sent", "checked", "locked"} /\ refreshes'[k].pair.fam \notin lost' =>
          refreshes'[k].pair \notin denied'
  BY <1>1 DEF TokenInv, Replays
<1> QED
  BY <1>2, <1>3, <1>4 DEF Replays

(* A handler that answers with no pair leaves what is known of the pairs. *)
LEMMA AnsweredTokens ==
  ASSUME TokenInv, NEW h \in Handlers, refreshes[h].pc # "free", refreshes' = Answer(h, NoPair),
         UNCHANGED <<families, turns, denied, held, lost, session, signing, inFlightRefresh>>, locked \subseteq locked',
         NoSelfReuse'
  PROVE  Rotations' /\ Deliveries' /\ Replays'
<1>1. /\ h = inFlightRefresh => /\ refreshes'[h].pc = "answered"
                                /\ refreshes'[h].pair = refreshes[h].pair /\ refreshes'[h].answer = NoPair
      /\ h # inFlightRefresh => refreshes'[h].pc = "free" /\ refreshes'[h].answer = NoPair
      /\ \A k \in Handlers \ {h} : refreshes'[k] = refreshes[k]
  <2>1. NoPair \in Held
    BY DEF Held
  <2> QED
    BY <2>1, AnsweredIs DEF TokenInv
<1>2. Rotations'
  BY <1>1 DEF TokenInv, Rotations, Locking, Apart
<1>3. Deliveries'
  BY <1>1 DEF TokenInv, Deliveries, Fresh
<1>4. Replays'
  BY <1>1, ReplaysStay DEF TokenInv
<1> QED
  BY <1>2, <1>3, <1>4

LEMMA CheckFamilyTokens ==
  ASSUME TokenInv, NEW h \in Handlers, CheckFamily(h)
  PROVE  Rotations' /\ Deliveries' /\ Replays'
<1>1. UNCHANGED <<families, turns, denied, locked, held, lost, session, signing, inFlightRefresh>>
      /\ refreshes[h].pc = "sent"
  BY DEF CheckFamily, phone, world
<1>2. NoSelfReuse'
  <2>1. refreshes[h].pair \in denied => refreshes[h].pair.fam \in lost
    BY <1>1 DEF TokenInv, Replays
  <2> QED
    BY <1>1, <2>1 DEF CheckFamily, TokenInv, Replays, NoSelfReuse
<1>3. CASE refreshes' = Answer(h, NoPair)
  BY <1>1, <1>2, <1>3, AnsweredTokens
<1>4. CASE refreshes[h].pair \notin denied /\ refreshes' = [refreshes EXCEPT ![h].pc = "checked"]
  <2>1. /\ refreshes'[h].pc = "checked" /\ refreshes'[h].pair = refreshes[h].pair
        /\ refreshes'[h].answer = NoPair /\ refreshes[h].answer = NoPair
        /\ \A k \in Handlers \ {h} : refreshes'[k] = refreshes[k]
    BY <1>1, <1>4, GoesOnIs DEF TokenInv
  <2>2. Rotations'
    BY <1>1, <1>4, <2>1 DEF TokenInv, Rotations, Locking, Apart
  <2>3. Deliveries'
    BY <1>1, <2>1 DEF TokenInv, Deliveries, Fresh
  <2>4. Replays'
    <3>1. refreshes[h].pair \notin denied \/ refreshes[h].pair.fam \in lost
      BY <1>1 DEF TokenInv, Replays
    <3> QED
      BY <1>1, <1>2, <2>1, <3>1, ReplaysStay
  <2> QED
    BY <2>2, <2>3, <2>4
<1> QED
  BY <1>3, <1>4 DEF CheckFamily

LEMMA AcquireLockTokens ==
  ASSUME TokenInv, NEW h \in Handlers, AcquireLock(h)
  PROVE  Rotations' /\ Deliveries' /\ Replays'
<1> DEFINE p == refreshes[h].pair
<1>1. UNCHANGED <<families, turns, denied, held, reused, lost, session, signing, inFlightRefresh>>
      /\ refreshes[h].pc = "checked" /\ locked' = locked \cup {p}
  BY DEF AcquireLock, phone, world
<1>2. NoSelfReuse'
  BY <1>1 DEF TokenInv, Replays, NoSelfReuse
<1>3. CASE refreshes' = Answer(h, NoPair)
  BY <1>1, <1>2, <1>3, AnsweredTokens
<1>4. CASE p \notin locked /\ refreshes' = [refreshes EXCEPT ![h].pc = "locked"]
  <2>1. /\ refreshes'[h].pc = "locked" /\ refreshes'[h].pair = p
        /\ refreshes'[h].answer = NoPair /\ refreshes[h].answer = NoPair
        /\ \A k \in Handlers \ {h} : refreshes'[k] = refreshes[k]
    BY <1>1, <1>4, GoesOnIs DEF TokenInv
  <2>2. Rotations'
    <3>1. Locking'
      BY <1>1, <2>1 DEF TokenInv, Rotations, Locking
    <3>2. Apart(p.fam) => /\ p \notin denied
                          /\ \A k \in Handlers \ {h} : refreshes[k].pc = "locked" => refreshes[k].pair # p
      <4>1. CASE p.fam \notin held
        BY <1>1, <1>4, <4>1 DEF TokenInv, Rotations, Locking
      <4>2. CASE p.fam \notin lost
        BY <1>1, <4>2 DEF TokenInv, Replays
      <4> QED
        BY <4>1, <4>2 DEF Apart
    <3> QED
      BY <1>1, <2>1, <3>1, <3>2 DEF TokenInv, Rotations, Apart
  <2>3. Deliveries'
    BY <1>1, <2>1 DEF TokenInv, Deliveries, Fresh
  <2>4. Replays'
    <3>1. refreshes[h].pc = "checked" /\ refreshes'[h].pc = "locked" /\ refreshes'[h].pair = refreshes[h].pair
          /\ UNCHANGED <<denied, lost, session, inFlightRefresh>>
          /\ (refreshes[h].pair \notin denied \/ refreshes[h].pair.fam \in lost)
      BY <1>1, <2>1 DEF TokenInv, Replays
    <3> HIDE DEF p
    <3> QED
      BY <1>2, <2>1, <3>1, ReplaysStay
  <2> QED
    BY <2>2, <2>3, <2>4
<1> QED
  BY <1>3, <1>4 DEF AcquireLock

LEMMA LockExpiresTokens ==
  ASSUME TokenInv, NEW h \in Handlers, LockExpires(h)
  PROVE  Rotations' /\ Deliveries' /\ Replays'
<1> DEFINE p == refreshes[h].pair
<1>1. /\ UNCHANGED <<families, turns, denied, reused, lost, session, signing, inFlightRefresh, refreshes>>
      /\ locked' = locked \ {p} /\ held' = held \cup {p.fam}
  BY DEF LockExpires, phone, world
<1>2. Locking'
  BY <1>1 DEF TokenInv, Rotations, Locking
<1>3. Rotations'
  BY <1>1, <1>2 DEF TokenInv, Rotations, Apart
<1> QED
  BY <1>1, <1>3 DEF TokenInv, Deliveries, Fresh, Replays, NoSelfReuse

(* A rotation denies the newest pair of its family, unless two went on with the  *)
(* same one, and answers with the next.                                          *)
LEMMA RotatesNewest ==
  ASSUME TokenInv, NEW h \in Handlers, NEW p \in Pairs, NEW next \in Pairs, p = refreshes[h].pair,
         refreshes[h].pc = "locked", Issued(p), ~Issued(next), next # NoPair,
         turns[p.fam] \in Nat \ {0}, turns'[p.fam] = turns[p.fam] + 1,
         \A f \in 1 .. Len(families) \ {p.fam} : turns'[f] = turns[f],
         denied' = denied \cup {p}, refreshes' = Answer(h, next),
         UNCHANGED <<families, locked, held, reused, lost, session, signing, inFlightRefresh>>
  PROVE  Rotations' /\ Deliveries' /\ Replays'
<1>1. /\ h = inFlightRefresh => /\ refreshes'[h].pc = "answered"
                                /\ refreshes'[h].pair = p /\ refreshes'[h].answer = next
      /\ h # inFlightRefresh => refreshes'[h].pc = "free" /\ refreshes'[h].answer = NoPair
      /\ \A k \in Handlers \ {h} : refreshes'[k] = refreshes[k]
  <2>1. next \in Held
    BY DEF Held
  <2> QED
    BY <2>1, AnsweredIs DEF TokenInv
<1>2. p.fam \in 1 .. Len(families) /\ (Apart(p.fam) => p \notin denied /\ p.gen = turns[p.fam])
  <2>1. p.fam \in 1 .. Len(families) /\ p.gen \in 1 .. turns[p.fam]
    BY DEF Issued
  <2>2. Apart(p.fam) => p \notin denied /\ ~(p.gen < turns[p.fam])
    BY <2>1 DEF TokenInv, Rotations
  <2> QED
    BY <2>1, <2>2
<1>3. Rotations'
  <2>1. \A f : Apart(f)' <=> Apart(f)
    BY DEF Apart
  <2>2. \A k \in Handlers : refreshes'[k].pc \in {"checked", "locked"} => k # h /\ refreshes'[k] = refreshes[k]
    BY <1>1
  <2>3. Locking'
    <3>1. p.fam \notin held => p \in locked
      BY DEF TokenInv, Rotations, Locking
    <3> QED
      BY <2>2, <3>1 DEF TokenInv, Rotations, Locking
  <2>4. ASSUME NEW k \in Handlers, (refreshes[k].pc = "locked" /\ Apart(refreshes[k].pair.fam))'
        PROVE  /\ refreshes'[k].pair \notin denied'
               /\ \A l \in Handlers \ {k} : refreshes'[l].pc = "locked" => refreshes'[l].pair # refreshes'[k].pair
    <3>1. k # h /\ refreshes'[k] = refreshes[k] /\ refreshes[k].pc = "locked" /\ Apart(refreshes[k].pair.fam)
      BY <2>1, <2>2, <2>4
    <3>2. /\ refreshes[k].pair \notin denied
          /\ \A l \in Handlers \ {k} : refreshes[l].pc = "locked" => refreshes[l].pair # refreshes[k].pair
      BY <3>1 DEF TokenInv, Rotations
    <3> QED
      BY <2>2, <3>1, <3>2
  <2>5. ASSUME NEW q \in Pairs, q.fam \in 1 .. Len(families'), Apart(q.fam)' PROVE q \in denied' <=> q.gen < turns'[q.fam]
    <3>1. q \in denied <=> q.gen < turns[q.fam]
      BY <2>1, <2>5 DEF TokenInv, Rotations
    <3>2. CASE q.fam # p.fam
      BY <3>1, <3>2, <2>5
    <3>3. CASE q.fam = p.fam
      <4>1. q.gen \in Nat /\ p.gen \in Nat /\ (q = p <=> q.gen = p.gen)
        BY <3>3 DEF Pairs
      <4>2. q \in denied' <=> q.gen < turns[p.fam] \/ q.gen = turns[p.fam]
        BY <1>2, <2>1, <2>5, <3>1, <3>3, <4>1
      <4> QED
        BY <3>3, <4>1, <4>2
    <3> QED
      BY <3>2, <3>3
  <2> QED
    BY <2>3, <2>4, <2>5 DEF Rotations
<1>4. Deliveries'
  <2>1. \A q : Fresh(q) => Fresh(q)'
    BY <1>1 DEF Fresh
  <2>2. Fresh(next)' /\ next # signing
    BY <1>1 DEF Fresh, TokenInv, TypeInv, PairsIssued
  <2>3. signing' # NoPair => Fresh(signing)'
    BY <2>1 DEF TokenInv, Deliveries
  <2>4. ASSUME NEW k \in Handlers, refreshes'[k].answer # NoPair
        PROVE  Fresh(refreshes[k].answer)' /\ refreshes'[k].answer # signing'
    BY <1>1, <2>1, <2>2, <2>4 DEF TokenInv, Deliveries
  <2> QED
    BY <2>3, <2>4 DEF Deliveries
<1>5. Replays'
  <2>1. h # inFlightRefresh => p.fam \in lost
    BY DEF TokenInv, Replays
  <2>2. \A k \in Handlers \ {h} : refreshes[k].pc # "free" /\ h = inFlightRefresh => refreshes[k].pair.fam \in lost
    BY DEF TokenInv, Replays
  <2>3. \A k \in Handlers : refreshes'[k].pc # "free" /\ k # inFlightRefresh' => refreshes'[k].pair.fam \in lost'
    BY <1>1 DEF TokenInv, Replays
  <2>4. session' # NoPair /\ session' \in denied' /\ session'.fam \notin lost' =>
          inFlightRefresh' # 0 /\ refreshes'[inFlightRefresh'].pair = session'
    <3>1. CASE session = p
      BY <1>1, <2>1, <3>1 DEF TokenInv, Replays, Handlers
    <3>2. CASE session # p
      <4>1. session # NoPair /\ session \in denied /\ session.fam \notin lost =>
              inFlightRefresh \in Handlers /\ refreshes[inFlightRefresh].pair = session
        BY DEF TokenInv, Replays, TypeInv, TypeOK
      <4> QED
        BY <1>1, <3>2, <4>1 DEF Handlers
    <3> QED
      BY <3>1, <3>2
  <2>5. ASSUME NEW k \in Handlers, refreshes'[k].pc \in {"sent", "checked", "locked"}, refreshes'[k].pair.fam \notin lost'
        PROVE  refreshes'[k].pair \notin denied'
    <3>1. k # h /\ refreshes'[k] = refreshes[k]
      BY <1>1, <2>5
    <3>2. refreshes[k].pair \notin denied
      BY <2>5, <3>1 DEF TokenInv, Replays
    <3>3. refreshes[k].pair # p
      BY <2>1, <2>2, <2>5, <3>1
    <3> QED
      BY <3>1, <3>2, <3>3
  <2>6. NoSelfReuse'
    BY DEF TokenInv, Replays, NoSelfReuse
  <2> QED
    BY <2>3, <2>4, <2>5, <2>6 DEF Replays
<1> QED
  BY <1>3, <1>4, <1>5

LEMMA RotateTokens ==
  ASSUME TokenInv, NEW h \in Handlers, Rotate(h)
  PROVE  Rotations' /\ Deliveries' /\ Replays'
<1>1. UNCHANGED <<families, locked, held, reused, lost, session, signing, inFlightRefresh>> /\ TypeInv
  BY DEF Rotate, phone, world, TokenInv
<1>2. refreshes[h].pc = "locked" /\ refreshes[h].pair \in Pairs /\ Issued(refreshes[h].pair)
  BY <1>1, RotateIs
<1>3. CASE refreshes' = Answer(h, NoPair) /\ UNCHANGED <<denied, turns>>
  BY <1>1, <1>2, <1>3, AnsweredTokens DEF TokenInv, Replays, NoSelfReuse
<1>4. CASE ~(refreshes' = Answer(h, NoPair) /\ UNCHANGED <<denied, turns>>)
  BY <1>1, <1>2, <1>4, RotateIs, RotatesNewest
<1> QED
  BY <1>3, <1>4

LEMMA InitTokens == Init => TokenInv
<1> SUFFICES ASSUME Init PROVE TokenInv
  OBVIOUS
<1>1. TypeInv
  BY InitTypes
<1>2. Rotations /\ Deliveries /\ Replays
  BY DEF Init, Rotations, Locking, Apart, Deliveries, Replays, NoSelfReuse, FreeHandler
<1> QED
  BY <1>1, <1>2 DEF TokenInv

LEMMA NextTokens == ASSUME TokenInv, [Next]_vars PROVE TokenInv'
<1>1. TypeInv'
  BY NextTypes DEF TokenInv
<1>2. Rotations' /\ Deliveries' /\ Replays'
  BY SignInTokens, SessionTokens, CallTokens, RefusedTokens, RefreshEndTokens, CheckFamilyTokens, AcquireLockTokens,
     LockExpiresTokens, RotateTokens DEF Next, CallStep, Calling, Refreshing, Continuing
<1> QED
  BY <1>1, <1>2 DEF TokenInv

(* The phone replays no refresh token of its own: a family that the server ended *)
(* for a replay lost an answer first, whatever calls are refused at once         *)
(* (Session, api.ts getOrRefreshToken against auth.py refresh).                  *)
THEOREM NeverReplaysItsOwn == Spec => []NoSelfReuse
<1>1. Init => TokenInv
  BY InitTokens
<1>2. TokenInv /\ [Next]_vars => TokenInv'
  BY NextTokens
<1>3. TokenInv => NoSelfReuse
  BY DEF TokenInv, Replays
<1> QED
  BY <1>1, <1>2, <1>3, PTL DEF Spec

(* A family that is not revoked has one refresh token that works, its newest:    *)
(* two rotations of one token need an answer that never reached the phone and a  *)
(* refresh held past the end of the lock, both (Session, the rotation lock of    *)
(* token_denylist.py against auth.py refresh and api.ts getOrRefreshToken).      *)
THEOREM RotatesInTurn == Spec => []OneLiveRefresh
<1>1. Init => TokenInv
  BY InitTokens
<1>2. TokenInv /\ [Next]_vars => TokenInv'
  BY NextTokens
<1>3. TokenInv => OneLiveRefresh
  <2> SUFFICES ASSUME TokenInv, NEW f \in 1 .. Len(families), Apart(f)
               PROVE  ~(Cardinality({g \in 1 .. turns[f] : [fam |-> f, gen |-> g] \notin denied}) > 1)
    BY DEF OneLiveRefresh, Apart
  <2>1. turns[f] \in Nat \ {0} /\ f \in 1 .. MaxFamily
    BY Bounds DEF TokenInv, TypeInv, TypeOK
  <2>2. \A g \in 1 .. turns[f] : [fam |-> f, gen |-> g] \in denied <=> g < turns[f]
    <3>1. \A g \in 1 .. turns[f] : [fam |-> f, gen |-> g] \in Pairs
      BY <2>1 DEF Pairs
    <3> QED
      BY <3>1 DEF TokenInv, Rotations
  <2> DEFINE live == {g \in 1 .. turns[f] : [fam |-> f, gen |-> g] \notin denied}
  <2>3. live = {turns[f]}
    BY <2>1, <2>2
  <2> HIDE DEF live
  <2>4. Cardinality(live) = 1
    BY <2>3, FS_Singleton
  <2>5. ~(Cardinality(live) > 1)
    BY <2>4
  <2> QED
    BY <2>5 DEF live
<1> QED
  BY <1>1, <1>2, <1>3, PTL DEF Spec

-----------------------------------------------------------------------------
(* Whoever waits.                                                            *)

NobodyWaits == \A s \in Slots : requests[s].pc # "waiting"

LEMMA CallWaits == ASSUME TypeInv, NobodyWaitsInVain, CallStep PROVE NobodyWaitsInVain'
<1>1. inFlightRefresh' = inFlightRefresh
  BY DEF CallStep, Fetch, StartRegister, RegisterSettled, OfferTap, OpenTap, FinishOnboarding, StartSignOut,
         Released, StartDelete, Serve, CallLost, GiveUp, Expire
<1>2. \A s \in Slots : requests'[s].pc = "waiting" => requests[s].pc = "waiting"
  <2>0. \A slot \in Slots : \A kind \in {"read", "register", "unregister", "signout", "delete"} :
          \A s \in Slots : Send(slot, kind, session)[s].pc = "waiting" => requests[s].pc = "waiting"
    BY DEF Send, TypeInv, TypeOK
  <2>a. \A slot \in Slots : \A pc \in {"idle", "refused", "done", "failed"} :
          \A s \in Slots : Settle(slot, pc)[s].pc = "waiting" => requests[s].pc = "waiting"
    <3> SUFFICES ASSUME NEW slot \in Slots, NEW pc \in {"idle", "refused", "done", "failed"}, NEW s \in Slots,
                        Settle(slot, pc)[s].pc = "waiting"
                 PROVE  requests[s].pc = "waiting"
      OBVIOUS
    <3>1. Ended(requests[slot], pc).pc = pc
      BY DEF Ended, Idle, TypeInv, TypeOK, Calls
    <3>2. CASE s = slot
      BY <3>1, <3>2, SettleIs DEF TypeInv, TypeOK
    <3>3. CASE s \in Slots \ {slot}
      BY <3>3, SettleIs DEF TypeInv, TypeOK
    <3> QED
      BY <3>2, <3>3
  <2> USE <2>0, <2>a, SlotNames
  <2>1. CASE Fetch
    BY <2>1 DEF Fetch
  <2>2. ASSUME NEW t \in Pushes, StartRegister(t) PROVE \A s \in Slots : requests'[s].pc = "waiting" => requests[s].pc = "waiting"
    BY <2>2 DEF StartRegister
  <2>3. ASSUME NEW t \in Pushes, RegisterSettled(t) PROVE \A s \in Slots : requests'[s].pc = "waiting" => requests[s].pc = "waiting"
    BY <2>3 DEF RegisterSettled, TypeInv, TypeOK, Idle
  <2>4. CASE OfferTap \/ OpenTap \/ FinishOnboarding
    BY <2>4 DEF OfferTap, OpenTap, FinishOnboarding
  <2>5. CASE StartSignOut
    BY <2>5 DEF StartSignOut
  <2>6. CASE Released
    BY <2>6 DEF Released
  <2>7. CASE StartDelete
    BY <2>7 DEF StartDelete
  <2>8. ASSUME NEW t \in Slots, Serve(t) PROVE \A s \in Slots : requests'[s].pc = "waiting" => requests[s].pc = "waiting"
    BY <2>8 DEF Serve, After
  <2>9. ASSUME NEW t \in Slots, CallLost(t) \/ GiveUp(t)
        PROVE  \A s \in Slots : requests'[s].pc = "waiting" => requests[s].pc = "waiting"
    BY <2>9 DEF CallLost, GiveUp, After
  <2>10. ASSUME NEW f \in 1 .. Len(families), Expire([fam |-> f, gen |-> turns[f]])
         PROVE  \A s \in Slots : requests'[s].pc = "waiting" => requests[s].pc = "waiting"
    BY <2>10 DEF Expire
  <2> QED
    BY <2>1, <2>2, <2>3, <2>4, <2>5, <2>6, <2>7, <2>8, <2>9, <2>10 DEF CallStep
<1> QED
  BY <1>1, <1>2 DEF NobodyWaitsInVain, Waiting

LEMMA EndedWaits == ASSUME TypeInv, Refreshed \/ RefreshRefused \/ RefreshLost \/ Relaunch PROVE NobodyWaits'
<1>1. \A s \in Slots : FailWaiting[s].pc # "waiting"
  <2>1. \A s \in Slots : Ended(requests[s], After(s)).pc # "waiting"
    BY DEF TypeInv, TypeOK, Ended, After, Idle, Calls
  <2> QED
    BY <2>1 DEF FailWaiting, Waiting
<1>2. CASE Refreshed
  <2>1. \A s \in Slots : [requests[s] EXCEPT !.pc = "sent", !.retried = TRUE, !.pair = refreshes[inFlightRefresh].answer].pc = "sent"
    BY DEF TypeInv, TypeOK, Calls
  <2> QED
    BY <1>2, <2>1 DEF Refreshed, NobodyWaits, Waiting
<1>3. CASE RefreshRefused \/ RefreshLost
  BY <1>1, <1>3 DEF RefreshRefused, RefreshLost, NobodyWaits
<1>4. CASE Relaunch
  BY <1>4 DEF Relaunch, NobodyWaits, Idle
<1> QED
  BY <1>2, <1>3, <1>4

LEMMA NextWaits == ASSUME TypeInv, NobodyWaitsInVain, [Next]_vars PROVE NobodyWaitsInVain'
<1>1. CASE CallStep
  BY <1>1, CallWaits
<1>2. CASE Refreshed \/ RefreshRefused \/ RefreshLost \/ Relaunch
  BY <1>2, EndedWaits DEF NobodyWaits, NobodyWaitsInVain, Waiting
<1>3. ASSUME NEW s \in Slots, Refused(s) PROVE NobodyWaitsInVain'
  BY <1>3 DEF Refused, getOrRefreshToken, JoinsRefresh, NobodyWaitsInVain, Handlers
<1>4. CASE SignedIn \/ SignInLost \/ SignedOut \/ Deleted
  <2>1. inFlightRefresh' = inFlightRefresh
    BY <1>4 DEF SignedIn, SignInLost, SignedOut, Deleted
  <2>2. \A s \in Slots : requests'[s].pc = "waiting" => requests[s].pc = "waiting"
    <3>1. \A slot, s \in Slots : [requests EXCEPT ![slot] = Idle][s].pc = "waiting" => requests[s].pc = "waiting"
      BY DEF TypeInv, TypeOK, Idle
    <3> QED
      BY <1>4, <3>1, SlotNames DEF SignedIn, SignInLost, SignedOut, Deleted
  <2> QED
    BY <2>1, <2>2 DEF NobodyWaitsInVain, Waiting
<1>5. CASE UNCHANGED <<requests, inFlightRefresh>>
  BY <1>5 DEF NobodyWaitsInVain, Waiting
<1> QED
  BY <1>1, <1>2, <1>3, <1>4, <1>5 DEF Next, CallStep, Calling, Refreshing, Continuing, SignIn, CheckFamily, AcquireLock,
     LockExpires, Rotate, vars

(* A call that waits has a refresh to wait for (Session, the promise of            *)
(* getOrRefreshToken is settled for everyone that joined it).                      *)
THEOREM WaitersAreAnswered == Spec => []NobodyWaitsInVain
<1>1. Init => TypeInv /\ NobodyWaitsInVain
  BY InitTypes DEF Init, NobodyWaitsInVain, Waiting, Idle
<1>2. TypeInv /\ NobodyWaitsInVain /\ [Next]_vars => (TypeInv /\ NobodyWaitsInVain)'
  BY NextTypes, NextWaits
<1> QED
  BY <1>1, <1>2, PTL DEF Spec

-----------------------------------------------------------------------------
(* Who the push token is registered for.                                     *)

(* Which call a slot holds, and what sign-out and deletion wait for. *)
CallsFit ==
    /\ requests["data"].kind \in {"none", "read"}
    /\ \A s \in Pushes : requests[s].pc # "idle" => requests[s].kind = "register"
    /\ requests["leave"].pc = "idle" <=> leaving = "no"
    /\ leaving = "release" => requests["leave"].kind = "unregister"
    /\ leaving = "revoke" => requests["leave"].kind = "signout"
    /\ leaving = "delete" => requests["leave"].kind = "delete"

Rightful == {AccountOf(session)} \cup overtaken

(* The account that is signed in has the token, or is on its way out. *)
Served ==
    \/ registered \in Rightful
    \/ leaving = "revoke"
    \/ requests["leave"].pc = "done"

OnItsWay(s) ==
    /\ requests[s].pc \in {"sent", "refused", "waiting"}
    /\ requests[s].pair = session /\ ~requests[s].retried

(* While nothing was lost and no registration is due, whoever still has one on   *)
(* its way to the server is this account or was overtaken, and this session's    *)
(* registration was served unless it is on its way.                              *)
Registrations ==
    faults = 0 /\ session # NoPair /\ registering = 0 =>
      /\ \A s \in Pushes : requests[s].pc = "sent" => AccountOf(requests[s].pair) \in Rightful \cup {NoOne}
      /\ Served \/ \E s \in Pushes : OnItsWay(s)

RegisterInv == TokenInv /\ CallsFit /\ Registrations

LEMMA SameSlots ==
  ASSUME CallsFit, UNCHANGED <<requests, leaving>>
  PROVE  CallsFit'
BY DEF CallsFit

LEMMA IdleIs == Idle.pc = "idle" /\ Idle.kind = "none"
BY DEF Idle

(* Accounts stay what they are: families only grow. *)
LEMMA SameAccounts ==
  ASSUME TypeInv, families' = families \/ \E a \in Accounts : families' = Append(families, a)
  PROVE  /\ UNCHANGED session => AccountOf(session)' = AccountOf(session)
         /\ \A s \in Slots : UNCHANGED requests => AccountOf(requests[s].pair)' = AccountOf(requests[s].pair)
<1>1. families \in Seq(Accounts)
  BY DEF TypeInv, TypeOK
<1>2. \A p : p # NoPair /\ Issued(p) => families'[p.fam] = families[p.fam]
  BY <1>1 DEF Issued
<1> QED
  BY <1>2 DEF TypeInv, PairsIssued, AccountOf

LEMMA SameRegistration ==
  ASSUME RegisterInv, UNCHANGED <<requests, leaving, registered, session, registering, overtaken>>,
         faults' = 0 => faults = 0, families' = families \/ \E a \in Accounts : families' = Append(families, a)
  PROVE  Registrations'
<1>1. /\ AccountOf(session)' = AccountOf(session)
      /\ \A s \in Pushes : AccountOf(requests[s].pair)' = AccountOf(requests[s].pair)
  BY SameAccounts, SlotNames DEF RegisterInv, TokenInv
<1> QED
  BY <1>1 DEF RegisterInv, Registrations, Served, Rightful, OnItsWay

(* A step that serves nothing and ends no registration still on its way. *)
LEMMA StillRegistered ==
  ASSUME RegisterInv, UNCHANGED <<families, registered, session, registering, overtaken>>, faults' = 0 => faults = 0,
         \A s \in Pushes : requests'[s].pc = "sent" => requests[s].pc = "sent" /\ requests'[s].pair = requests[s].pair,
         \A s \in Pushes : OnItsWay(s) => OnItsWay(s)',
         leaving' = "revoke" \/ leaving' = leaving \/ leaving # "revoke",
         requests["leave"].pc = "done" => requests'["leave"].pc = "done" \/ leaving' = "revoke"
  PROVE  Registrations'
<1>1. AccountOf(session)' = AccountOf(session) /\ Rightful' = Rightful
  BY DEF AccountOf, Rightful
<1>2. \A s \in Pushes : requests'[s].pc = "sent" => AccountOf(requests[s].pair)' = AccountOf(requests[s].pair)
  BY DEF AccountOf
<1>3. Served => Served'
  BY <1>1 DEF Served
<1> QED
  BY <1>1, <1>2, <1>3 DEF RegisterInv, Registrations

(* Ending the call of a slot, as Settle does. *)
LEMMA SettleFits ==
  ASSUME RegisterInv, NEW slot \in Slots, NEW pc \in {"idle", "refused", "waiting", "done", "failed"},
         requests' = Settle(slot, pc), UNCHANGED leaving, pc = "idle" => slot # "leave", requests[slot].pc # "idle"
  PROVE  CallsFit'
<1>1. requests \in [Slots -> Calls]
  BY DEF RegisterInv, TokenInv, TypeInv, TypeOK
<1>2. CASE pc = "idle"
  <2>1. \A s \in Slots : requests'[s] = IF s = slot THEN Idle ELSE requests[s]
    BY <1>1, <1>2 DEF Settle, Ended, Idle, Calls
  <2> QED
    BY <1>2, <2>1, IdleIs, SlotNames DEF RegisterInv, CallsFit
<1>3. CASE pc # "idle"
  <2>1. \A s \in Slots : requests'[s].kind = requests[s].kind /\ requests'[s].pc = IF s = slot THEN pc ELSE requests[s].pc
    BY <1>1, <1>3, SettleIs
  <2>2. \A s \in Slots : requests'[s].pc = "idle" <=> requests[s].pc = "idle"
    BY <1>3, <2>1
  <2> QED
    BY <2>1, <2>2, SlotNames DEF RegisterInv, CallsFit
<1> QED
  BY <1>2, <1>3

LEMMA ServeRegisters == ASSUME RegisterInv, NEW s \in Slots, Serve(s) PROVE CallsFit' /\ Registrations'
<1> DEFINE call == requests[s]
<1>1. requests \in [Slots -> Calls] /\ call \in Calls /\ call.pc = "sent" /\ faults \in Nat
      /\ UNCHANGED <<families, leaving, session, registering, overtaken>>
  BY Bounds DEF RegisterInv, TokenInv, TypeInv, TypeOK, Serve, phone
<1>2. PICK pc \in {"idle", "refused", "done", "failed"} :
        /\ requests' = Settle(s, pc) /\ (pc = "idle" => s # "leave") /\ (s = "data" => pc # "done")
        /\ pc = "failed" => faults' # 0
        /\ faults' = 0 => faults = 0
        /\ s # "data" /\ pc = "idle" => faults' # 0
        /\ pc = "refused" => registered' = registered
        /\ pc # "refused" => Accepted(call.pair) /\ registered' = Registers(AccountOf(call.pair), call.kind)
  BY <1>1 DEF Serve, After
<1>3. CallsFit'
  BY <1>1, <1>2, SettleFits
<1>4. \A t \in Slots \ {s} : requests'[t] = requests[t]
  BY <1>1, <1>2, SettleIs
<1>5. CASE s = "data"
  <2>1. registered' = registered
    BY <1>2, <1>5 DEF RegisterInv, CallsFit, Registers
  <2>2. \A t \in Pushes : requests'[t] = requests[t]
    BY <1>4, <1>5, SlotNames
  <2>3. \A t \in Pushes : OnItsWay(t) => OnItsWay(t)'
    BY <1>1, <2>2 DEF OnItsWay
  <2> QED
    BY <1>1, <1>2, <1>3, <1>4, <1>5, <2>1, <2>2, <2>3, StillRegistered, SlotNames
<1>6. CASE s \in Pushes /\ pc = "refused"
  <2>1. \A t \in Slots : /\ requests'[t].pair = requests[t].pair /\ requests'[t].retried = requests[t].retried
                         /\ requests'[t].pc = IF t = s THEN pc ELSE requests[t].pc
    BY <1>1, <1>2, <1>6, SettleIs
  <2>2. \A t \in Pushes : OnItsWay(t) => OnItsWay(t)'
    BY <1>1, <1>6, <2>1, SlotNames DEF OnItsWay
  <2> QED
    BY <1>1, <1>2, <1>3, <1>6, <2>1, <2>2, StillRegistered, SlotNames
<1>7. CASE s \in Pushes /\ pc \in {"idle", "failed"}
  BY <1>2, <1>3, <1>7, SlotNames DEF Registrations
<1>8. CASE s \in Pushes /\ pc = "done"
  <2>1. registered' = AccountOf(call.pair) /\ AccountOf(call.pair) \in Accounts
    <3>1. call.pair # NoPair /\ call.pair \in Held
      BY <1>1, <1>2, <1>8 DEF Accepted, Calls, Held
    <3>2. AccountOf(call.pair) \in Accounts
      BY <3>1, AccountTyped DEF RegisterInv, TokenInv, TypeInv, PairsIssued
    <3> QED
      BY <1>1, <1>2, <1>8, <3>2 DEF RegisterInv, CallsFit, Registers
  <2>2. AccountOf(session)' = AccountOf(session) /\ Rightful' = Rightful
    BY <1>1 DEF AccountOf, Rightful
  <2>3. requests'[s].pc = "done"
    BY <1>1, <1>2, <1>8, SettleIs
  <2>4. \A t \in Pushes : requests'[t].pc = "sent" => requests[t].pc = "sent" /\ AccountOf(requests[t].pair)' = AccountOf(requests[t].pair)
    BY <1>1, <1>4, <2>3, SlotNames DEF AccountOf
  <2>5. faults' = 0 /\ session' # NoPair /\ registering' = 0 => AccountOf(call.pair) \in Rightful
    BY <1>1, <1>2, <1>8, <2>1, SessionAssumption DEF RegisterInv, Registrations
  <2> QED
    BY <1>1, <1>2, <1>3, <2>1, <2>2, <2>4, <2>5 DEF RegisterInv, Registrations, Served
<1>9. CASE s = "leave" /\ pc = "done"
  <2>1. requests'["leave"].pc = "done"
    BY <1>1, <1>2, <1>9, SettleIs
  <2>2. \A t \in Pushes : AccountOf(requests[t].pair)' = AccountOf(requests[t].pair) /\ requests'[t] = requests[t]
    BY <1>1, <1>4, <1>9, SlotNames DEF AccountOf
  <2>3. Rightful' = Rightful
    BY <1>1 DEF AccountOf, Rightful
  <2> QED
    BY <1>1, <1>2, <1>3, <2>1, <2>2, <2>3 DEF RegisterInv, Registrations, Served
<1>10. CASE s = "leave" /\ pc = "failed"
  BY <1>2, <1>3, <1>10 DEF Registrations
<1>11. CASE s = "leave" /\ pc = "refused"
  <2>1. \A t \in Pushes : requests'[t] = requests[t]
    BY <1>4, <1>11, SlotNames
  <2>2. \A t \in Pushes : OnItsWay(t) => OnItsWay(t)'
    BY <1>1, <2>1 DEF OnItsWay
  <2> QED
    BY <1>1, <1>2, <1>3, <1>11, <2>1, <2>2, StillRegistered
<1> QED
  BY <1>2, <1>3, <1>5, <1>6, <1>7, <1>8, <1>9, <1>10, <1>11, SlotNames

LEMMA RefusalRegisters ==
  ASSUME RegisterInv, NEW s \in Slots, GiveUp(s) \/ Refused(s) \/ CallLost(s)
  PROVE  CallsFit' /\ Registrations'
<1>1. requests \in [Slots -> Calls] /\ faults \in Nat
      /\ UNCHANGED <<families, leaving, session, registering, registered, overtaken>>
  BY Bounds DEF RegisterInv, TokenInv, TypeInv, TypeOK, GiveUp, Refused, CallLost, server, phone, world
<1>2. CASE CallLost(s)
  <2>1. requests' = Settle(s, After(s)) /\ faults' # 0 /\ requests[s].pc = "sent"
    BY <1>1, <1>2 DEF CallLost
  <2> QED
    BY <1>1, <2>1, SettleFits DEF Registrations, After
<1>3. ASSUME NEW pc \in {"idle", "failed", "waiting"}, requests[s].pc = "refused", requests' = Settle(s, pc), faults' = faults,
             pc = "idle" => s # "leave", pc # "waiting" => requests[s].retried \/ session = NoPair
      PROVE  CallsFit' /\ Registrations'
  <2>1. CallsFit'
    BY <1>1, <1>3, SettleFits
  <2>2. \A t \in Slots \ {s} : requests'[t] = requests[t]
    BY <1>1, <1>3, SettleIs
  <2>3. CASE pc = "waiting"
    <3>1. \A t \in Slots : /\ requests'[t].pair = requests[t].pair /\ requests'[t].retried = requests[t].retried
                           /\ requests'[t].pc = IF t = s THEN pc ELSE requests[t].pc
      BY <1>1, <1>3, <2>3, SettleIs
    <3>2. \A t \in Pushes : OnItsWay(t) => OnItsWay(t)'
      BY <1>1, <2>3, <3>1, SlotNames DEF OnItsWay
    <3> QED
      BY <1>1, <1>3, <2>1, <2>3, <3>1, <3>2, StillRegistered, SlotNames
  <2>4. CASE pc # "waiting" /\ session = NoPair
    BY <1>1, <2>1, <2>4 DEF Registrations
  <2>5. CASE pc # "waiting" /\ session # NoPair
    <3>1. requests'[s].pc = pc
      <4>1. Ended(requests[s], pc).pc = pc
        BY <1>1 DEF Ended, Idle, Calls
      <4> QED
        BY <1>1, <1>3, <4>1, SettleIs
    <3>2. \A t \in Pushes : OnItsWay(t) => OnItsWay(t)'
      BY <1>1, <1>3, <2>2, <2>5, SlotNames DEF OnItsWay
    <3> QED
      BY <1>1, <1>3, <2>1, <2>2, <2>5, <3>1, <3>2, StillRegistered, SlotNames
  <2> QED
    BY <2>3, <2>4, <2>5
<1>4. CASE GiveUp(s)
  BY <1>3, <1>4 DEF GiveUp, After, world
<1>5. CASE Refused(s)
  BY <1>3, <1>5 DEF Refused, world
<1> QED
  BY <1>2, <1>4, <1>5

(* The calls that the screens and sign-out send. *)
LEMMA SentRegisters ==
  ASSUME RegisterInv, Fetch \/ StartSignOut \/ Released \/ StartDelete
  PROVE  CallsFit' /\ Registrations'
<1> USE SlotNames
<1>1. requests \in [Slots -> Calls] /\ faults' = faults /\ session \in Held
      /\ UNCHANGED <<families, session, registered, registering, overtaken>>
  BY DEF RegisterInv, TokenInv, TypeInv, TypeOK, Held, Fetch, StartSignOut, Released, StartDelete,
         server, phone, world
<1>2. \A slot \in Slots : \A kind \in {"read", "unregister", "signout", "delete"} :
        /\ Send(slot, kind, session)[slot] = [pc |-> "sent", kind |-> kind, pair |-> session, retried |-> FALSE]
        /\ \A s \in Slots \ {slot} : Send(slot, kind, session)[s] = requests[s]
  BY <1>1 DEF Send
<1>3. ASSUME \A s \in Pushes : requests'[s] = requests[s]
      PROVE  \A s \in Pushes : OnItsWay(s) => OnItsWay(s)'
  BY <1>1, <1>3 DEF OnItsWay
<1>4. CASE Fetch
  <2>1. /\ requests'["data"].kind = "read" /\ (\A s \in Pushes : requests'[s] = requests[s])
        /\ requests'["leave"] = requests["leave"] /\ leaving' = leaving
    <3>1. requests' = Send("data", "read", session) /\ leaving' = leaving
      BY <1>4 DEF Fetch
    <3>2. /\ Send("data", "read", session)["data"].kind = "read"
          /\ \A s \in Slots \ {"data"} : Send("data", "read", session)[s] = requests[s]
      BY <1>2
    <3> QED
      BY <3>1, <3>2
  <2>2. CallsFit'
    BY <2>1 DEF RegisterInv, CallsFit
  <2> QED
    BY <1>1, <1>3, <2>1, <2>2, StillRegistered
<1>5. CASE StartSignOut \/ StartDelete
  <2>1. /\ requests'["data"] = requests["data"] /\ (\A s \in Pushes : requests'[s] = requests[s])
        /\ requests'["leave"].pc = "sent" /\ leaving = "no"
        /\ \/ requests'["leave"].kind = "unregister" /\ leaving' = "release"
           \/ requests'["leave"].kind = "signout" /\ leaving' = "revoke"
           \/ requests'["leave"].kind = "delete" /\ leaving' = "delete"
    <3>1. /\ leaving = "no"
          /\ \E kind \in {"unregister", "signout", "delete"} :
                /\ requests' = Send("leave", kind, session)
                /\ leaving' = IF kind = "unregister" THEN "release" ELSE IF kind = "signout" THEN "revoke" ELSE "delete"
      BY <1>5, Zenon DEF StartSignOut, StartDelete
    <3>2. PICK kind \in {"unregister", "signout", "delete"} :
                /\ requests' = Send("leave", kind, session)
                /\ leaving' = IF kind = "unregister" THEN "release" ELSE IF kind = "signout" THEN "revoke" ELSE "delete"
      BY <3>1
    <3>3. /\ Send("leave", kind, session)["leave"].pc = "sent" /\ Send("leave", kind, session)["leave"].kind = kind
          /\ \A s \in Slots \ {"leave"} : Send("leave", kind, session)[s] = requests[s]
      BY <1>2
    <3> QED
      BY <3>1, <3>2, <3>3
  <2>2. requests["leave"].pc = "idle"
    BY <2>1 DEF RegisterInv, CallsFit
  <2>3. CallsFit'
    BY <2>1 DEF RegisterInv, CallsFit
  <2> QED
    BY <1>1, <1>3, <2>1, <2>2, <2>3, StillRegistered
<1>6. CASE Released
  <2>1. /\ requests'["data"] = requests["data"] /\ (\A s \in Pushes : requests'[s] = requests[s])
        /\ requests'["leave"].pc = "sent" /\ requests'["leave"].kind = "signout" /\ leaving' = "revoke"
    <3>1. PICK kind \in {"read", "unregister", "signout", "delete"} :
             kind = "signout" /\ requests' = Send("leave", kind, session) /\ leaving' = "revoke"
      BY <1>6 DEF Released
    <3>2. /\ Send("leave", kind, session)["leave"].pc = "sent" /\ Send("leave", kind, session)["leave"].kind = kind
          /\ \A s \in Slots \ {"leave"} : Send("leave", kind, session)[s] = requests[s]
      BY <1>2
    <3> QED
      BY <3>1, <3>2
  <2>2. CallsFit'
    BY <2>1 DEF RegisterInv, CallsFit
  <2> QED
    BY <1>1, <1>3, <2>1, <2>2, StillRegistered
<1> QED
  BY <1>4, <1>5, <1>6

(* The effect registers this session: whoever is overtaken is noted. *)
LEMMA StartRegisters == ASSUME RegisterInv, NEW s \in Pushes, StartRegister(s) PROVE CallsFit' /\ Registrations'
<1>1. /\ requests \in [Slots -> Calls] /\ requests[s].pc = "idle" /\ s \in Slots /\ session \in Held
      /\ UNCHANGED <<families, session, registered, leaving>>
      /\ requests' = Send(s, "register", session)
  BY SlotNames DEF RegisterInv, TokenInv, TypeInv, TypeOK, Held, StartRegister, server
<1>2. /\ requests'[s] = [pc |-> "sent", kind |-> "register", pair |-> session, retried |-> FALSE]
      /\ \A t \in Slots \ {s} : requests'[t] = requests[t]
  BY <1>1 DEF Send
<1>3. CallsFit'
  BY <1>1, <1>2, SlotNames DEF RegisterInv, CallsFit
<1>4. ASSUME NEW t \in Pushes, requests'[t].pc = "sent" PROVE (AccountOf(requests[t].pair) \in Rightful \cup {NoOne})'
  <2>1. CASE t = s
    BY <1>1, <1>2, <2>1 DEF Rightful, AccountOf
  <2>2. CASE t # s
    <3>1. requests'[t] = requests[t] /\ AccountOf(requests[t].pair)' = AccountOf(requests[t].pair)
      BY <1>1, <1>2, <2>2, SlotNames DEF AccountOf
    <3>2. AccountOf(requests[t].pair) \in overtaken' \cup {AccountOf(session), NoOne}
      BY <1>4, <3>1 DEF StartRegister
    <3>3. AccountOf(session)' = AccountOf(session)
      BY <1>1 DEF AccountOf
    <3> QED
      BY <3>1, <3>2, <3>3 DEF Rightful
  <2> QED
    BY <2>1, <2>2
<1>5. OnItsWay(s)'
  BY <1>1, <1>2 DEF OnItsWay
<1> QED
  BY <1>3, <1>4, <1>5 DEF Registrations

LEMMA RegisterSettledRegisters == ASSUME RegisterInv, NEW s \in Pushes, RegisterSettled(s) PROVE CallsFit' /\ Registrations'
<1>1. /\ requests \in [Slots -> Calls] /\ s \in Slots /\ requests[s].pc = "done"
      /\ UNCHANGED <<families, session, registered, registering, overtaken, leaving, faults>>
      /\ requests' = [requests EXCEPT ![s] = Idle]
  BY SlotNames DEF RegisterInv, TokenInv, TypeInv, TypeOK, RegisterSettled, server, world
<1>2. requests'[s] = Idle /\ \A t \in Slots \ {s} : requests'[t] = requests[t]
  BY <1>1
<1>3. Idle.pc = "idle" /\ Idle.kind = "none"
  BY DEF Idle
<1>4. CallsFit'
  BY <1>1, <1>2, <1>3, SlotNames DEF RegisterInv, CallsFit
<1>5. \A t \in Pushes : OnItsWay(t) => OnItsWay(t)'
  BY <1>1, <1>2, SlotNames DEF OnItsWay
<1>6. requests'["leave"] = requests["leave"]
  BY <1>1, <1>2, SlotNames
<1>7. \A t \in Pushes : requests'[t].pc = "sent" => requests[t].pc = "sent" /\ requests'[t].pair = requests[t].pair
  BY <1>1, <1>2, <1>3, SlotNames
<1> QED
  BY <1>1, <1>4, <1>5, <1>6, <1>7, StillRegistered

(* Sign-in, and what ends a session. *)
LEMMA SessionRegisters ==
  ASSUME RegisterInv, SignedIn \/ SignInLost \/ SignedOut \/ Deleted
  PROVE  CallsFit' /\ Registrations'
<1>1. requests \in [Slots -> Calls] /\ UNCHANGED <<families, registered>> /\ faults \in Nat
  BY Bounds DEF RegisterInv, TokenInv, TypeInv, TypeOK, SignedIn, SignInLost, SignedOut, Deleted, server
<1>2. CASE SignedIn
  <2>1. UNCHANGED <<requests, leaving>> /\ registering' = registering + 1 /\ registering \in Nat
    BY <1>2 DEF SignedIn, SetSession, RegisterInv, TokenInv, TypeInv, TypeOK, Deliveries, Fresh
  <2> QED
    BY <2>1 DEF RegisterInv, CallsFit, Registrations
<1>3. CASE SignInLost
  <2>1. UNCHANGED <<requests, leaving>> /\ faults' # 0
    BY <1>1, <1>3 DEF SignInLost
  <2> QED
    BY <2>1 DEF RegisterInv, CallsFit, Registrations
<1>4. ASSUME requests' = [requests EXCEPT !["leave"] = Idle], leaving' = "no" PROVE CallsFit'
  <2>1. requests'["leave"] = Idle /\ requests'["data"] = requests["data"] /\ \A s \in Pushes : requests'[s] = requests[s]
    BY <1>1, <1>4, SlotNames
  <2> QED
    BY <1>4, <2>1 DEF RegisterInv, CallsFit, Idle
<1>5. CASE SignedOut
  BY <1>4, <1>5 DEF SignedOut, Clear, SetSession, Registrations
<1>6. CASE Deleted /\ requests["leave"].pc = "done"
  BY <1>4, <1>6 DEF Deleted, Clear, SetSession, Registrations
<1>7. CASE Deleted /\ requests["leave"].pc # "done"
  <2>1. /\ \A s \in Pushes : requests'[s] = requests[s]
        /\ leaving = "delete" /\ leaving' = "no" /\ requests' = [requests EXCEPT !["leave"] = Idle]
        /\ UNCHANGED <<session, registering, faults, overtaken>>
    BY <1>1, <1>7, SlotNames DEF Deleted, world
  <2>2. \A s \in Pushes : OnItsWay(s) => OnItsWay(s)'
    BY <2>1 DEF OnItsWay
  <2> QED
    BY <1>1, <1>4, <1>7, <2>1, <2>2, StillRegistered
<1> QED
  BY <1>2, <1>3, <1>5, <1>6, <1>7

(* The refresh ends: with a pair the session changes, and a registration is due. *)
LEMMA RefreshEndRegisters ==
  ASSUME RegisterInv, Refreshed \/ RefreshRefused \/ RefreshLost \/ Relaunch
  PROVE  CallsFit' /\ Registrations'
<1>1. requests \in [Slots -> Calls] /\ faults \in Nat
  BY Bounds DEF RegisterInv, TokenInv, TypeInv, TypeOK
<1>2. ASSUME requests' = FailWaiting, UNCHANGED leaving PROVE CallsFit'
  <2>1. ASSUME NEW s \in Slots
        PROVE  /\ (requests'[s] = Idle /\ s # "leave") \/ requests'[s].kind = requests[s].kind
               /\ requests[s].pc = "idle" => requests'[s].pc = "idle"
               /\ s = "leave" => (requests'[s].pc = "idle" <=> requests[s].pc = "idle")
    <3>1. CASE s \in Waiting
      BY <1>1, <1>2, <3>1 DEF FailWaiting, Ended, After, Waiting, Calls
    <3>2. CASE s \notin Waiting
      BY <1>2, <3>2 DEF FailWaiting
    <3> QED
      BY <3>1, <3>2
  <2> QED
    BY <1>2, <2>1, IdleIs, SlotNames DEF RegisterInv, CallsFit
<1>3. CASE Refreshed
  <2>1. session' # NoPair => registering' = registering + 1 /\ registering \in Nat
    BY <1>3 DEF Refreshed, SetSession, RegisterInv, TokenInv, TypeInv, TypeOK, Deliveries, Fresh
  <2>2. \A s \in Slots : requests'[s].kind = requests[s].kind /\ (requests'[s].pc = "idle" <=> requests[s].pc = "idle")
    <3> SUFFICES ASSUME NEW s \in Slots
                 PROVE  requests'[s].kind = requests[s].kind /\ (requests'[s].pc = "idle" <=> requests[s].pc = "idle")
      OBVIOUS
    <3>1. CASE s \in Waiting
      BY <1>1, <1>3, <3>1 DEF Refreshed, Waiting, Calls
    <3>2. CASE s \notin Waiting
      BY <1>3, <3>2 DEF Refreshed
    <3> QED
      BY <3>1, <3>2
  <2>3. leaving' = leaving
    BY <1>3 DEF Refreshed
  <2>4. CallsFit'
    BY <2>2, <2>3, SlotNames DEF RegisterInv, CallsFit
  <2>5. Registrations'
    BY <2>1 DEF Registrations
  <2> QED
    BY <2>4, <2>5
<1>4. CASE RefreshRefused
  BY <1>2, <1>4 DEF RefreshRefused, Clear, SetSession, Registrations
<1>5. CASE RefreshLost
  BY <1>1, <1>2, <1>5 DEF RefreshLost, Registrations
<1>6. CASE Relaunch
  BY <1>1, <1>6, SlotNames DEF Relaunch, CallsFit, Idle, Registrations
<1> QED
  BY <1>3, <1>4, <1>5, <1>6

(* The steps that move nothing a registration is about. *)
LEMMA OtherRegisters ==
  ASSUME RegisterInv,
         \/ \E a \in Accounts : SignIn(a)
         \/ FinishOnboarding \/ OfferTap \/ OpenTap \/ UNCHANGED vars
         \/ \E f \in 1 .. Len(families) : Expire([fam |-> f, gen |-> turns[f]])
         \/ \E h \in Handlers : Refreshing(h)
  PROVE  CallsFit' /\ Registrations'
<1>1. UNCHANGED <<requests, leaving, registered, session, registering, overtaken, faults>>
  BY DEF SignIn, FinishOnboarding, OfferTap, OpenTap, Expire, Refreshing, CheckFamily, AcquireLock, LockExpires, Rotate, vars,
         server, phone, world
<1>2. families' = families \/ \E a \in Accounts : families' = Append(families, a)
  BY DEF SignIn, FinishOnboarding, OfferTap, OpenTap, Expire, Refreshing, CheckFamily, AcquireLock, LockExpires, Rotate, vars, server
<1> QED
  BY <1>1, <1>2, SameSlots, SameRegistration DEF RegisterInv

LEMMA InitRegisters == Init => RegisterInv
<1> SUFFICES ASSUME Init PROVE RegisterInv
  OBVIOUS
<1>1. CallsFit /\ Registrations
  BY SlotNames DEF Init, CallsFit, Registrations, Idle
<1> QED
  BY <1>1, InitTokens DEF RegisterInv

LEMMA NextRegisters == ASSUME RegisterInv, [Next]_vars PROVE RegisterInv'
<1>1. TokenInv'
  BY NextTokens DEF RegisterInv
<1>2. CallsFit' /\ Registrations'
  BY ServeRegisters, RefusalRegisters, SentRegisters, StartRegisters, RegisterSettledRegisters, SessionRegisters, RefreshEndRegisters,
     OtherRegisters DEF Next, Calling, Continuing
<1> QED
  BY <1>1, <1>2 DEF RegisterInv

(* With nothing under way and nothing lost, the push token belongs to the account  *)
(* signed in, or to one whose registration was still unserved as the next account's *)
(* was sent, whatever sign-ins, refreshes, sign-outs and deletions came between    *)
(* (Session: the registration effect of usePushNotifications.ts).                  *)
THEOREM RegisteredForMe == Spec => []RegisteredIsMine
<1>1. Init => RegisterInv
  BY InitRegisters
<1>2. RegisterInv /\ [Next]_vars => RegisterInv'
  BY NextRegisters
<1>3. RegisterInv => RegisteredIsMine
  <2> SUFFICES ASSUME RegisterInv, Quiet, faults = 0, session # NoPair
               PROVE  registered \in {AccountOf(session)} \cup overtaken
    BY DEF RegisteredIsMine
  <2>1. /\ \A s \in Pushes : requests[s].pc = "idle"
        /\ requests["leave"].pc = "idle" /\ leaving = "no" /\ registering = 0
    BY SlotNames DEF Quiet
  <2> QED
    BY <2>1 DEF RegisterInv, Registrations, Served, Rightful, OnItsWay
<1> QED
  BY <1>1, <1>2, <1>3, PTL DEF Spec

=============================================================================
