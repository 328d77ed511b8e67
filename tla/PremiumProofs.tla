---------------------------- MODULE PremiumProofs ----------------------------
(***************************************************************************)
(* Theorems about Premium, for any users and any number of events,         *)
(* deliveries and refreshes.                                               *)
(***************************************************************************)
EXTENDS Premium, TLAPS

(* What a transaction holds. *)
Jobs ==
  \A w \in Worker :
    IF job[w].pc = "idle" THEN job[w] = NoJob
    ELSE LET k == job[w].event IN
         /\ k \in 1 .. Len(log) /\ log[k].kind = "transfer"
         /\ job[w].locked = {log[k].user, log[k].to}
Reads == \A q \in Reader : read[q].pc = "store" => read[q].user \in User
TypeInv == TypeOK /\ Jobs /\ Reads

(* The steps of RevenueCat that emit an event, in one form. *)
Emission ==
  \E kind \in Kind, u \in User, v \in User, e \in Expiry \cup {Never},
     held \in [User -> Entitlement] : Emit(kind, u, v, e, held)

LEMMA HoldType ==
  ASSUME TypeOK, NEW u \in User, NEW a \in BOOLEAN, NEW e \in Expiry \cup {Never}
  PROVE  Hold(u, a, e) \in [User -> Entitlement]
  BY DEF Hold, TypeOK, Entitlement

LEMMA StoreType ==
  ASSUME TypeOK, NEW u \in User
  PROVE  /\ store[u].active \in BOOLEAN /\ store[u].expires \in Expiry \cup {Never}
         /\ store \in [User -> Entitlement] /\ None \in Entitlement
         /\ GetPremium(u) \in Entitlement
  BY DEF TypeOK, Entitlement, None, GetPremium, Grants

LEMMA RevenueCatEmits ==
  ASSUME TypeOK, RevenueCat
  PROVE  Tick \/ Emission
<1> Never \in Expiry \cup {Never} /\ TRUE \in BOOLEAN /\ FALSE \in BOOLEAN
  OBVIOUS
<1> USE DEF Emission, Kind
<1>1. ASSUME NEW u \in User, Purchase(u) PROVE Emission
  BY <1>1, HoldType DEF Purchase
<1>2. ASSUME NEW u \in User, Renew(u) PROVE Emission
  BY <1>2, HoldType DEF Renew
<1>3. ASSUME NEW u \in User, Cancel(u) PROVE Emission
  BY <1>3, StoreType DEF Cancel
<1>4. ASSUME NEW u \in User, BillingIssue(u) PROVE Emission
  BY <1>4, HoldType DEF BillingIssue
<1>5. ASSUME NEW u \in User, Refund(u) PROVE Emission
  BY <1>5, HoldType DEF Refund
<1>6. ASSUME NEW u \in User, CancelForever(u) PROVE Emission
  BY <1>6, HoldType DEF CancelForever
<1>7. ASSUME NEW u \in User, Expire(u) PROVE Emission
  BY <1>7, HoldType, StoreType DEF Expire
<1>8. ASSUME NEW u \in User, NEW v \in User, Transfer(u, v) PROVE Emission
  <2>1. [store EXCEPT ![u] = None, ![v] = store[u]] \in [User -> Entitlement]
    BY StoreType
  <2> QED BY <1>8, <2>1 DEF Transfer
<1> QED
  BY <1>1, <1>2, <1>3, <1>4, <1>5, <1>6, <1>7, <1>8 DEF RevenueCat

LEMMA AppendType ==
  ASSUME TypeOK, NEW kind \in Kind, NEW u \in User, NEW v \in User,
         NEW e \in Expiry \cup {Never}, NEW held \in [User -> Entitlement],
         Emit(kind, u, v, e, held)
  PROVE  /\ log' \in Seq(Event) /\ Len(log') = Len(log) + 1 /\ Len(log) \in Nat
         /\ \A k \in 1 .. Len(log) : k \in 1 .. Len(log') /\ log'[k] = log[k]
         /\ log'[Len(log')] = [kind |-> kind, user |-> u, to |-> v, expires |-> e,
                               held |-> held]
         /\ Len(log') <= MaxEvents
<1> DEFINE ev == [kind |-> kind, user |-> u, to |-> v, expires |-> e, held |-> held]
<1>1. ev \in Event
  BY DEF Event
<1>2. log \in Seq(Event) /\ log' = Append(log, ev) /\ Len(log) < MaxEvents
  BY DEF TypeOK, Emit
<1>3. MaxEvents \in Nat
  BY PremiumAssumption
<1> QED
  BY <1>1, <1>2, <1>3

-----------------------------------------------------------------------------
LEMMA TypeInit == Init => TypeInv
<1> SUFFICES ASSUME Init PROVE TypeInv
  OBVIOUS
<1> USE PremiumAssumption DEF Init
<1>1. now \in 0 .. LastExpiry /\ store \in [User -> Entitlement]
  BY DEF None, Entitlement
<1>2. log \in Seq(Event) /\ Len(log) <= MaxEvents
  OBVIOUS
<1>3. row \in [User -> Row]
  BY DEF Unchanged, Row
<1>4. DOMAIN ledger \in SUBSET (1 .. Len(log)) /\ \A k \in DOMAIN ledger : ledger[k] \in Outcome
  OBVIOUS
<1>5. job \in [Worker -> Job]
  BY DEF NoJob, Job, Answer, Silent, None, Entitlement
<1>6. read \in [Reader -> Read]
  BY DEF NoRead, Read, None, Entitlement
<1>7. Jobs /\ Reads
  BY DEF Jobs, Reads, NoJob, NoRead
<1> QED
  BY <1>1, <1>2, <1>3, <1>4, <1>5, <1>6, <1>7 DEF TypeInv, TypeOK

\* Emitting an event keeps the types.
LEMMA TypeEmission ==
  ASSUME TypeInv, Emission
  PROVE  TypeInv'
<1>1. PICK kind \in Kind, u \in User, v \in User, e \in Expiry \cup {Never},
           held \in [User -> Entitlement] : Emit(kind, u, v, e, held)
  BY DEF Emission
<1>2. TypeOK
  BY DEF TypeInv
<1> DEFINE ev == [kind |-> kind, user |-> u, to |-> v, expires |-> e, held |-> held]
<1>3. /\ log' \in Seq(Event) /\ Len(log') = Len(log) + 1 /\ Len(log) \in Nat
      /\ \A k \in 1 .. Len(log) : k \in 1 .. Len(log') /\ log'[k] = log[k]
      /\ Len(log') <= MaxEvents
  BY <1>1, <1>2, AppendType
<1>4. store' = held /\ now' = now /\ row' = row /\ ledger' = ledger /\ passed' = passed
      /\ unread' = unread /\ job' = job /\ read' = read
  BY <1>1 DEF Emit, db
<1>5. TypeOK'
  BY <1>2, <1>3, <1>4 DEF TypeOK
<1>6. Jobs'
  BY <1>3, <1>4 DEF TypeInv, Jobs, NoJob
<1>7. Reads'
  BY <1>4 DEF TypeInv, Reads
<1> QED
  BY <1>5, <1>6, <1>7 DEF TypeInv

LEMMA RecordType ==
  ASSUME TypeOK, NEW k \in 1 .. Len(log), NEW outcome \in {"applied", "stale", "unknown_user"},
         NEW u \in User, Record(k, outcome, u)
  PROVE  /\ DOMAIN ledger' \in SUBSET (1 .. Len(log))
         /\ \A j \in DOMAIN ledger' : ledger'[j] \in Outcome
<1>1. DOMAIN ledger' = DOMAIN ledger \cup {k}
  BY DEF Record
<1>2. ASSUME NEW j \in DOMAIN ledger' PROVE ledger'[j] \in Outcome
  BY <1>1, <1>2 DEF Record, TypeOK, Outcome
<1> QED
  BY <1>1, <1>2 DEF TypeOK

\* What an event in the log is made of.
LEMMA EventType ==
  ASSUME TypeOK, NEW k \in 1 .. Len(log)
  PROVE  /\ k \in Nat /\ log[k].kind \in Kind /\ log[k].user \in User /\ log[k].to \in User
         /\ log[k].expires \in Expiry \cup {Never} /\ log[k].held \in [User -> Entitlement]
         /\ EventTime(k) \in 0 .. 2 * MaxEvents + 1
<1>1. log \in Seq(Event) /\ Len(log) <= MaxEvents /\ MaxEvents \in Nat
  BY PremiumAssumption DEF TypeOK
<1>2. log[k] \in Event /\ k \in 1 .. MaxEvents
  BY <1>1
<1> QED
  BY <1>1, <1>2 DEF Event, EventTime

LEMMA RowType ==
  ASSUME TypeOK, NEW u \in User
  PROVE  /\ row[u] \in Row /\ row[u].active \in BOOLEAN
         /\ row[u].expires \in Expiry \cup {Never} /\ row[u].at \in 0 .. 2 * MaxEvents + 1
         /\ row[u].at \in Nat
  BY PremiumAssumption DEF TypeOK, Row

LEMMA ChangedType ==
  ASSUME TypeOK, NEW k \in 1 .. Len(log), NEW u \in User, log[k].kind # "transfer"
  PROVE  Changed(k, row[u]) \in Row
<1>1. Never \in Expiry \cup {Never}
  OBVIOUS
<1> QED
  BY <1>1, EventType, RowType DEF Changed, Row, Kind

LEMMA TypeApply ==
  ASSUME TypeInv, NEW k, Apply(k)
  PROVE  TypeInv'
<1> DEFINE u == log[k].user
<1>1. TypeOK /\ k \in 1 .. Len(log)
  BY DEF TypeInv, Apply, Claim
<1>2. u \in User
  BY <1>1, EventType
<1>3. row' \in [User -> Row]
  <2>1. CASE row' = [row EXCEPT ![u] = Changed(k, @)]
    BY <1>1, <1>2, <2>1, ChangedType DEF Apply, TypeOK
  <2>2. CASE row' = [row EXCEPT ![u].active = TRUE]
    BY <1>1, <1>2, <2>2, RowType DEF TypeOK, Row
  <2> QED BY <1>1, <2>1, <2>2 DEF Apply, TypeOK
<1>4. /\ DOMAIN ledger' \in SUBSET (1 .. Len(log))
      /\ \A j \in DOMAIN ledger' : ledger'[j] \in Outcome
  <2>1. Record(k, "applied", u) \/ Record(k, "stale", u)
    BY DEF Apply
  <2> QED BY <1>1, <1>2, <2>1, RecordType
<1>5. UNCHANGED <<now, store, log, passed, unread, job, read>>
  BY DEF Apply, cloud
<1>6. TypeOK'
  BY <1>1, <1>3, <1>4, <1>5 DEF TypeOK
<1>7. Jobs' /\ Reads'
  BY <1>5 DEF TypeInv, Jobs, Reads, NoJob
<1> QED
  BY <1>6, <1>7 DEF TypeInv

LEMMA JobOthers ==
  ASSUME TypeInv, NEW w \in Worker, NEW j \in Job, job' = [job EXCEPT ![w] = j],
         log' = log, IF j.pc = "idle" THEN j = NoJob
                     ELSE /\ j.event \in 1 .. Len(log) /\ log[j.event].kind = "transfer"
                          /\ j.locked = {log[j.event].user, log[j.event].to}
  PROVE  job' \in [Worker -> Job] /\ Jobs'
<1>1. job \in [Worker -> Job]
  BY DEF TypeInv, TypeOK
<1>2. job'[w] = j /\ \A o \in Worker \ {w} : job'[o] = job[o]
  BY <1>1
<1> QED
  BY <1>1, <1>2 DEF TypeInv, Jobs, NoJob

LEMMA TypeTake ==
  ASSUME TypeInv, NEW w \in Worker, NEW k, Take(w, k)
  PROVE  TypeInv'
<1>1. TypeOK /\ k \in 1 .. Len(log) /\ job[w] \in Job /\ job \in [Worker -> Job]
  BY DEF TypeInv, Take, Claim, TypeOK
<1> DEFINE j == [job[w] EXCEPT !.pc = "ask", !.event = k, !.locked = {log[k].user, log[k].to}]
<1>2. k \in 0 .. MaxEvents
  BY <1>1, PremiumAssumption DEF TypeOK
<1>3. j \in Job /\ job' = [job EXCEPT ![w] = j] /\ j.pc = "ask" /\ j.event = k
      /\ j.locked = {log[k].user, log[k].to} /\ log[k].kind = "transfer"
  <2>1. {log[k].user, log[k].to} \in SUBSET User /\ log[k].kind = "transfer"
    BY <1>1, EventType DEF Take
  <2>2. j \in Job
    BY <1>1, <1>2, <2>1 DEF Job
  <2>3. job' = [job EXCEPT ![w] = j]
    BY <1>1 DEF Take
  <2> QED BY <1>1, <2>1, <2>2, <2>3 DEF Job
<1>4. UNCHANGED <<now, store, log, row, ledger, passed, unread, read>>
  BY DEF Take, cloud, db
<1> HIDE DEF j
<1>5. job' \in [Worker -> Job] /\ Jobs'
  BY <1>1, <1>3, <1>4, JobOthers
<1> QED
  BY <1>1, <1>4, <1>5 DEF TypeInv, TypeOK, Reads

LEMMA TypeAsk ==
  ASSUME TypeInv, NEW w \in Worker, Ask(w)
  PROVE  TypeInv'
<1> DEFINE k == job[w].event
           u == IF job[w].said[log[k].user].got = "nothing" THEN log[k].user ELSE log[k].to
<1>1. TypeOK /\ k \in 1 .. Len(log) /\ job[w] \in Job /\ job \in [Worker -> Job]
      /\ log[k].kind = "transfer" /\ job[w].locked = {log[k].user, log[k].to}
  BY DEF TypeInv, Ask, Jobs, TypeOK
<1>2. u \in User
  BY <1>1, EventType
<1>3. PICK a : /\ job' = [job EXCEPT ![w].said[u] = a,
                                 ![w].pc = IF u = log[k].to THEN "transfer" ELSE "ask"]
               /\ \/ a \in {Silent("passed"), Silent("unread")}
                  \/ a = [got |-> "state", state |-> GetPremium(u)]
  BY DEF Ask
<1>4. a \in Answer
  <2>1. None \in Entitlement /\ GetPremium(u) \in Entitlement
    BY <1>1, <1>2, StoreType
  <2> HIDE DEF u, k
  <2> QED BY <1>3, <2>1 DEF Answer, Silent
<1> DEFINE j == [job[w] EXCEPT !.said = [job[w].said EXCEPT ![u] = a],
                               !.pc = IF u = log[k].to THEN "transfer" ELSE "ask"]
<1>5. j \in Job /\ job' = [job EXCEPT ![w] = j] /\ j.pc # "idle" /\ j.event = k
      /\ j.locked = {log[k].user, log[k].to}
  BY <1>1, <1>2, <1>3, <1>4 DEF Job
<1>6. UNCHANGED <<now, store, log, row, ledger, passed, unread, read>>
  BY DEF Ask, cloud, db
<1> HIDE DEF j
<1>7. job' \in [Worker -> Job] /\ Jobs'
  BY <1>1, <1>5, <1>6, JobOthers
<1> QED
  BY <1>1, <1>6, <1>7 DEF TypeInv, TypeOK, Reads

LEMMA NoJobType == NoJob \in Job /\ NoJob.pc = "idle" /\ NoRead \in Read /\ NoRead.pc = "idle"
  BY PremiumAssumption DEF NoJob, Job, Answer, Silent, None, Entitlement, NoRead, Read

\* The rows a transfer writes.
LEMMA TransferRows ==
  ASSUME TypeInv, NEW w \in Worker, ApplyTransfer(w)
  PROVE  LET k == job[w].event
             said == job[w].said
         IN /\ k \in 1 .. Len(log) /\ log[k].kind = "transfer"
            /\ log[k].user \in User /\ log[k].to \in User
            /\ job[w].locked = {log[k].user, log[k].to}
            /\ row' \in [User -> Row]
            /\ \A u \in User :
                 \/ row'[u] = row[u]
                 \/ /\ u \in job[w].locked /\ said[u].got = "state"
                    /\ row'[u] = [active |-> said[u].state.active,
                                  expires |-> said[u].state.expires, at |-> EventTime(k)]
                 \/ /\ u \in job[w].locked /\ said[u].got = "unread"
                    /\ row'[u] = [active |-> FALSE, expires |-> row[u].expires,
                                  at |-> EventTime(k)]
<1> DEFINE k == job[w].event
           said == job[w].said
<1>1. TypeOK /\ k \in 1 .. Len(log) /\ job[w] \in Job /\ log[k].kind = "transfer"
      /\ job[w].locked = {log[k].user, log[k].to}
  BY DEF TypeInv, ApplyTransfer, Jobs, TypeOK
<1>2. log[k].user \in User /\ log[k].to \in User /\ EventTime(k) \in 0 .. 2 * MaxEvents + 1
  BY <1>1, EventType
<1>3. \A u \in User :
                 \/ row'[u] = row[u]
                 \/ /\ u \in job[w].locked /\ said[u].got = "state"
                    /\ row'[u] = [active |-> said[u].state.active,
                                  expires |-> said[u].state.expires, at |-> EventTime(k)]
                 \/ /\ u \in job[w].locked /\ said[u].got = "unread"
                    /\ row'[u] = [active |-> FALSE, expires |-> row[u].expires,
                                  at |-> EventTime(k)]
  BY <1>1 DEF ApplyTransfer
<1>4. ASSUME NEW u \in User PROVE row'[u] \in Row
  <2>1. said[u].state.active \in BOOLEAN /\ said[u].state.expires \in Expiry \cup {Never}
    BY <1>1 DEF Job, Answer, Entitlement
  <2>2. row[u] \in Row /\ row[u].expires \in Expiry \cup {Never}
    BY <1>1, RowType
  <2> HIDE DEF k, said
  <2>3. CASE row'[u] = row[u]
    BY <2>2, <2>3
  <2>4. CASE row'[u] = [active |-> said[u].state.active, expires |-> said[u].state.expires,
                        at |-> EventTime(k)]
    BY <1>2, <2>1, <2>4 DEF Row
  <2>5. CASE row'[u] = [active |-> FALSE, expires |-> row[u].expires, at |-> EventTime(k)]
    BY <1>2, <2>2, <2>5 DEF Row
  <2> QED BY <1>3, <2>3, <2>4, <2>5
<1>5. row' = [u \in User |-> row'[u]]
  BY DEF ApplyTransfer
<1> QED
  BY <1>1, <1>2, <1>3, <1>4, <1>5

LEMMA TypeTransfer ==
  ASSUME TypeInv, NEW w \in Worker, ApplyTransfer(w)
  PROVE  TypeInv'
<1> DEFINE k == job[w].event
<1>1. TypeOK /\ job \in [Worker -> Job] /\ k \in 1 .. Len(log) /\ row' \in [User -> Row]
      /\ log[k].user \in User /\ log[k].to \in User
  BY TransferRows DEF TypeInv, TypeOK
<1>2. UNCHANGED <<now, store, log, read>> /\ job' = [job EXCEPT ![w] = NoJob]
  BY DEF ApplyTransfer, cloud
<1>3. passed' \in SUBSET User /\ unread' \in SUBSET User
  BY <1>1 DEF ApplyTransfer, TypeOK
<1>4. /\ DOMAIN ledger' \in SUBSET (1 .. Len(log))
      /\ \A j \in DOMAIN ledger' : ledger'[j] \in Outcome
  <2>1. Record(k, "unknown_user", log[k].user) \/ Record(k, "applied", log[k].to)
        \/ Record(k, "applied", log[k].user)
    BY DEF ApplyTransfer
  <2> QED BY <1>1, <2>1, RecordType
<1>5. job' \in [Worker -> Job] /\ Jobs'
  BY <1>2, JobOthers, NoJobType
<1> QED
  BY <1>1, <1>2, <1>3, <1>4, <1>5 DEF TypeInv, TypeOK, Reads

LEMMA TypeRollback ==
  ASSUME TypeInv, NEW w \in Worker, Rollback(w)
  PROVE  TypeInv'
<1>1. TypeOK /\ UNCHANGED <<now, store, log, row, ledger, passed, unread, read>>
      /\ job' = [job EXCEPT ![w] = NoJob]
  BY DEF TypeInv, Rollback, cloud, db
<1>2. job' \in [Worker -> Job] /\ Jobs'
  BY <1>1, JobOthers, NoJobType
<1> QED
  BY <1>1, <1>2 DEF TypeInv, TypeOK, Reads

LEMMA TypeRefresh ==
  ASSUME TypeInv, NEW q \in Reader,
         Refresh(q) \/ RefreshFails(q) \/ \E u \in User : Fetch(q, u)
  PROVE  TypeInv'
<1>1. TypeOK /\ read \in [Reader -> Read] /\ UNCHANGED <<now, store, log, job>>
  BY DEF TypeInv, TypeOK, Refresh, RefreshFails, Fetch, cloud
<1>2. ASSUME NEW u \in User, Fetch(q, u) PROVE TypeInv'
  <2> DEFINE r == [pc |-> "store", user |-> u, state |-> GetPremium(u), at |-> ReadTime]
  <2>1. ReadTime \in 0 .. 2 * MaxEvents + 1
    BY <1>1, PremiumAssumption DEF ReadTime, TypeOK
  <2>2. r \in Read /\ r.user \in User /\ read' = [read EXCEPT ![q] = r]
    BY <1>1, <1>2, <2>1, StoreType DEF Read, Fetch
  <2>3. UNCHANGED <<row, ledger, passed, unread>>
    BY <1>2 DEF Fetch, db
  <2> HIDE DEF r
  <2>4. read' \in [Reader -> Read] /\ Reads'
    BY <1>1, <2>2 DEF TypeInv, Reads
  <2> QED BY <1>1, <2>3, <2>4 DEF TypeInv, TypeOK, Jobs, NoJob
<1>3. ASSUME Refresh(q) \/ RefreshFails(q) PROVE TypeInv'
  <2>1. read' = [read EXCEPT ![q] = NoRead]
    BY <1>3 DEF Refresh, RefreshFails
  <2>2. read' \in [Reader -> Read] /\ Reads'
    BY <1>1, <2>1, NoJobType DEF TypeInv, Reads
  <2>3. UNCHANGED <<ledger, passed, unread>> /\ row' \in [User -> Row]
    <3>1. CASE RefreshFails(q) \/ Outdated(q)
      BY <1>1, <1>3, <3>1 DEF Refresh, RefreshFails, db, TypeOK
    <3>2. CASE Refresh(q) /\ ~Outdated(q)
      <4>1. read[q] \in Read
        BY <1>1
      <4>2. [active |-> read[q].state.active, expires |-> read[q].state.expires,
             at |-> read[q].at] \in Row
        BY <4>1 DEF Read, Row, Entitlement
      <4> QED BY <1>1, <3>2, <4>2 DEF Refresh, TypeOK
    <3> QED BY <1>3, <3>1, <3>2
  <2> QED BY <1>1, <2>2, <2>3 DEF TypeInv, TypeOK, Jobs, NoJob
<1> QED
  BY <1>2, <1>3

LEMMA TypeStep == TypeInv /\ [Next]_vars => TypeInv'
<1> SUFFICES ASSUME TypeInv, [Next]_vars PROVE TypeInv'
  OBVIOUS
<1>1. CASE RevenueCat
  <2>1. CASE Tick
    BY <2>1, PremiumAssumption DEF Tick, TypeInv, TypeOK, Jobs, Reads, NoJob, db
  <2> QED BY <1>1, <2>1, RevenueCatEmits, TypeEmission DEF TypeInv
<1>2. CASE Webhook
  BY <1>2, TypeApply, TypeTake, TypeAsk, TypeTransfer, TypeRollback DEF Webhook
<1>3. CASE \E q \in Reader : Refresh(q) \/ RefreshFails(q) \/ \E u \in User : Fetch(q, u)
  BY <1>3, TypeRefresh
<1>4. CASE UNCHANGED vars
  BY <1>4 DEF vars, cloud, db, TypeInv, TypeOK, Jobs, Reads, NoJob
<1> QED
  BY <1>1, <1>2, <1>3, <1>4 DEF Next

\* The rows, the ledger and the transactions keep their shape.
THEOREM TypesHold == Spec => []TypeOK
<1>1. TypeInv => TypeOK
  BY DEF TypeInv
<1> QED
  BY <1>1, TypeInit, TypeStep, PTL DEF Spec

-----------------------------------------------------------------------------
(* The stamp.  A transfer holds its rows from its first look at them, so what  *)
(* it found not too new is still not too new when it writes.                   *)
Disjoint == \A w1, w2 \in Worker : w1 # w2 => job[w1].locked \cap job[w2].locked = {}
NotTooNew ==
  \A w \in Worker : \A u \in job[w].locked :
    job[w].said[u].got \in {"state", "unread"} => row[u].at <= EventTime(job[w].event)
LockInv == Disjoint /\ NotTooNew

LEMMA LockInit == Init => LockInv
  BY DEF Init, LockInv, Disjoint, NotTooNew, NoJob

\* A step that leaves the transfers alone, and the rows they hold.
LEMMA LockedRowsStay ==
  ASSUME TypeInv, LockInv, job' = job,
         \A w \in Worker : \A u \in job[w].locked : row'[u] = row[u]
  PROVE  LockInv'
  BY DEF LockInv, Disjoint, NotTooNew, EventTime

\* A step of one transfer that writes no row.
LEMMA LockOwn ==
  ASSUME TypeInv, LockInv, NEW w \in Worker, NEW j, job' = [job EXCEPT ![w] = j], row' = row,
         \A o \in Worker \ {w} : job[o].locked \cap j.locked = {},
         \A u \in j.locked : j.said[u].got \in {"state", "unread"}
                             => row[u].at <= EventTime(j.event)
  PROVE  LockInv'
<1>1. job'[w] = j /\ \A o \in Worker \ {w} : job'[o] = job[o]
  BY DEF TypeInv, TypeOK
<1> QED
  BY <1>1 DEF LockInv, Disjoint, NotTooNew, EventTime

LEMMA StampApply ==
  ASSUME TypeInv, LockInv, NEW k, Apply(k)
  PROVE  LockInv' /\ \A u \in User : row[u].at <= row'[u].at
<1> DEFINE u == log[k].user
<1>1. TypeOK /\ k \in 1 .. Len(log) /\ log[k].kind # "transfer"
  BY DEF TypeInv, Apply, Claim
<1>2. u \in User /\ row[u].at \in Nat /\ EventTime(k) \in Nat
  BY <1>1, EventType, RowType DEF EventTime
<1>3. RowsFree({u}) /\ job' = job
  BY DEF Apply
<1>4. (\A x \in User \ {u} : row'[x] = row[x]) /\ row[u].at <= row'[u].at
  <2>1. CASE ~TooOld(k, u) /\ row' = [row EXCEPT ![u] = Changed(k, @)]
    <3>1. Changed(k, row[u]).at = EventTime(k)
      BY <1>1, EventType DEF Changed, Kind
    <3> QED BY <1>1, <1>2, <2>1, <3>1 DEF TooOld, TypeOK
  <2>2. CASE row' = [row EXCEPT ![u].active = TRUE]
    BY <1>1, <1>2, <2>2, RowType DEF TypeOK, Row
  <2>3. CASE row' = row
    BY <1>2, <2>3
  <2> QED BY <2>1, <2>2, <2>3 DEF Apply
<1>5. \A w \in Worker : \A x \in job[w].locked : x \in User /\ x # u
  BY <1>1, <1>3 DEF RowsFree, TypeOK, Job
<1>6. LockInv'
  BY <1>3, <1>4, <1>5, LockedRowsStay
<1> QED
  BY <1>1, <1>4, <1>6, RowType

LEMMA StampTake ==
  ASSUME TypeInv, LockInv, NEW w \in Worker, NEW k, Take(w, k)
  PROVE  LockInv'
<1> DEFINE j == [job[w] EXCEPT !.pc = "ask", !.event = k, !.locked = {log[k].user, log[k].to}]
<1>1. job[w] = NoJob /\ job[w] \in Job /\ k \in 1 .. Len(log) /\ TypeOK
      /\ job \in [Worker -> Job]
  BY DEF TypeInv, TypeOK, Jobs, Take, Claim
<1>2. job' = [job EXCEPT ![w] = j] /\ row' = row
  BY <1>1 DEF Take, db
<1>3. \A u \in User : j.said[u].got = "nothing"
  <2>1. job[w].said = [u \in User |-> Silent("nothing")]
    BY <1>1 DEF NoJob
  <2>2. j.said = job[w].said
    BY <1>1 DEF Job
  <2>3. Silent("nothing").got = "nothing"
    BY DEF Silent
  <2> HIDE DEF j
  <2> QED BY <2>1, <2>2, <2>3
<1>4. j.locked = {log[k].user, log[k].to} /\ j.locked \subseteq User
  BY <1>1, EventType DEF NoJob
<1>5. \A o \in Worker \ {w} : job[o].locked \cap j.locked = {}
  BY <1>4 DEF Take, RowsFree
<1> HIDE DEF j
<1> QED
  BY <1>2, <1>3, <1>4, <1>5, LockOwn

LEMMA StampAsk ==
  ASSUME TypeInv, LockInv, NEW w \in Worker, Ask(w)
  PROVE  LockInv'
<1> DEFINE k == job[w].event
           u == IF job[w].said[log[k].user].got = "nothing" THEN log[k].user ELSE log[k].to
<1>1. TypeOK /\ k \in 1 .. Len(log) /\ job[w] \in Job /\ job \in [Worker -> Job]
  BY DEF TypeInv, Ask, Jobs, TypeOK
<1>2. u \in User
  BY <1>1, EventType
<1>3. PICK a : /\ job' = [job EXCEPT ![w].said[u] = a,
                                 ![w].pc = IF u = log[k].to THEN "transfer" ELSE "ask"]
               /\ a \in IF TooOld(k, u) THEN {Silent("passed")}
                        ELSE {Silent("unread")} \cup
                             IF HasKey THEN {[got |-> "state", state |-> GetPremium(u)]} ELSE {}
  BY DEF Ask
<1>a. a.got \in {"state", "unread"} => ~TooOld(k, u)
  BY <1>3 DEF Silent
<1> DEFINE j == [job[w] EXCEPT !.said = [job[w].said EXCEPT ![u] = a],
                               !.pc = IF u = log[k].to THEN "transfer" ELSE "ask"]
<1>4. job' = [job EXCEPT ![w] = j] /\ j.event = k /\ j.locked = job[w].locked
      /\ j.said = [job[w].said EXCEPT ![u] = a] /\ row' = row
  BY <1>1, <1>3 DEF Job, Ask, db
<1>5. job[w].said \in [User -> Answer] /\ row[u].at \in Nat /\ EventTime(k) \in Nat
  BY <1>1, <1>2, RowType DEF Job, EventTime
<1>b. j.locked \subseteq User
  BY <1>1, <1>4 DEF Job
<1> HIDE DEF j, u
<1>6. \A x \in j.locked : j.said[x].got \in {"state", "unread"} => row[x].at <= EventTime(j.event)
  <2> SUFFICES ASSUME NEW x \in j.locked, j.said[x].got \in {"state", "unread"}
               PROVE  row[x].at <= EventTime(k)
    BY <1>4
  <2>1. CASE x = u
    <3>1. j.said[x] = a
      BY <1>2, <1>4, <1>5, <2>1
    <3> QED BY <1>2, <1>a, <1>5, <2>1, <3>1 DEF TooOld
  <2>2. CASE x # u
    <3>1. j.said[x] = job[w].said[x] /\ x \in job[w].locked
      BY <1>b, <1>4, <1>5, <2>2
    <3> QED BY <3>1 DEF LockInv, NotTooNew
  <2> QED BY <2>1, <2>2
<1>7. \A o \in Worker \ {w} : job[o].locked \cap j.locked = {}
  BY <1>4 DEF LockInv, Disjoint
<1> QED
  BY <1>4, <1>6, <1>7, LockOwn

LEMMA StampTransfer ==
  ASSUME TypeInv, LockInv, NEW w \in Worker, ApplyTransfer(w)
  PROVE  LockInv' /\ \A u \in User : row[u].at <= row'[u].at
<1> DEFINE k == job[w].event
<1>1. k \in 1 .. Len(log) /\ TypeOK /\ job \in [Worker -> Job]
      /\ job' = [job EXCEPT ![w] = NoJob]
  BY TransferRows DEF TypeInv, TypeOK, ApplyTransfer
<1>2. ASSUME NEW u \in User
      PROVE  row'[u] = row[u] \/ (u \in job[w].locked /\ row[u].at <= row'[u].at)
  <2>1. \/ row'[u] = row[u]
        \/ /\ u \in job[w].locked /\ job[w].said[u].got \in {"state", "unread"}
           /\ row'[u].at = EventTime(k)
    <3>1. \/ row'[u] = row[u]
          \/ /\ u \in job[w].locked /\ job[w].said[u].got = "state"
             /\ row'[u] = [active |-> job[w].said[u].state.active,
                           expires |-> job[w].said[u].state.expires, at |-> EventTime(k)]
          \/ /\ u \in job[w].locked /\ job[w].said[u].got = "unread"
             /\ row'[u] = [active |-> FALSE, expires |-> row[u].expires, at |-> EventTime(k)]
      BY TransferRows
    <3> QED BY <3>1
  <2> QED BY <2>1 DEF LockInv, NotTooNew
<1>3. \A o \in Worker \ {w} : job'[o] = job[o]
      /\ \A u \in job[o].locked : u \in User /\ row'[u] = row[u]
  BY <1>1, <1>2 DEF LockInv, Disjoint, TypeOK, Job
<1>4. job'[w] = NoJob
  BY <1>1
<1>5. LockInv'
  BY <1>3, <1>4 DEF LockInv, Disjoint, NotTooNew, NoJob, EventTime
<1> QED
  BY <1>1, <1>2, <1>5, RowType

LEMMA StampRefresh ==
  ASSUME TypeInv, LockInv, NEW q \in Reader,
         Refresh(q) \/ RefreshFails(q) \/ \E u \in User : Fetch(q, u)
  PROVE  LockInv' /\ \A u \in User : row[u].at <= row'[u].at
<1>1. TypeOK /\ job' = job
  BY DEF TypeInv, Refresh, RefreshFails, Fetch
<1>2. CASE row' = row
  BY <1>1, <1>2, RowType, LockedRowsStay
<1>3. CASE Refresh(q) /\ ~Outdated(q)
  <2> DEFINE u == read[q].user
  <2>1. u \in User /\ read[q].at \in Nat /\ row[u].at \in Nat
    BY <1>1, <1>3, PremiumAssumption, RowType DEF TypeInv, Reads, Refresh, TypeOK, Read
  <2>2. row' = [row EXCEPT ![u] = [active |-> read[q].state.active,
                                   expires |-> read[q].state.expires, at |-> read[q].at]]
        /\ RowsFree({u})
    BY <1>3 DEF Refresh
  <2>3. row'[u].at = read[q].at /\ \A x \in User \ {u} : row'[x] = row[x]
    BY <1>1, <2>1, <2>2 DEF TypeOK
  <2>4. \A w \in Worker : \A x \in job[w].locked : x \in User /\ x # u
    BY <1>1, <2>2 DEF RowsFree, TypeOK, Job
  <2>5. LockInv'
    BY <1>1, <2>3, <2>4, LockedRowsStay
  <2> QED BY <1>1, <1>3, <2>1, <2>3, <2>5, RowType DEF Outdated
<1> QED
  BY <1>2, <1>3 DEF Refresh, RefreshFails, Fetch, db

LEMMA StampStep ==
  ASSUME TypeInv, LockInv, [Next]_vars
  PROVE  LockInv' /\ \A u \in User : row[u].at <= row'[u].at
<1>1. TypeOK
  BY DEF TypeInv
<1>2. CASE row' = row /\ job' = job
  BY <1>1, <1>2, RowType, LockedRowsStay
<1>3. CASE RevenueCat
  BY <1>1, <1>2, <1>3, RevenueCatEmits DEF Tick, Emission, Emit, db
<1>4. CASE Webhook
  <2>1. ASSUME NEW w \in Worker, Rollback(w) PROVE LockInv' /\ row' = row
    <3>1. job' = [job EXCEPT ![w] = NoJob] /\ row' = row
      BY <2>1 DEF Rollback, db
    <3>2. NoJob.locked = {}
      BY DEF NoJob
    <3> QED BY <3>1, <3>2, LockOwn
  <2>2. ASSUME NEW w \in Worker, Ask(w) \/ \E k \in 1 .. MaxEvents : Take(w, k)
        PROVE  LockInv' /\ row' = row
    BY <2>2, StampAsk, StampTake DEF Ask, Take, db
  <2> QED BY <1>1, <1>4, <2>1, <2>2, RowType, StampApply, StampTransfer DEF Webhook
<1>5. CASE \E q \in Reader : Refresh(q) \/ RefreshFails(q) \/ \E u \in User : Fetch(q, u)
  BY <1>5, StampRefresh
<1>6. CASE UNCHANGED vars
  BY <1>2, <1>6 DEF vars, db
<1> QED
  BY <1>3, <1>4, <1>5, <1>6 DEF Next

\* What was stored as of one time is never replaced by what was known before it.
THEOREM StampsOnlyGrow == Spec => NewerStands
<1>1. TypeInv /\ LockInv /\ [Next]_vars => (TypeInv /\ LockInv)'
  BY TypeStep, StampStep
<1>2. TypeInv /\ LockInv /\ [Next]_vars => [\A u \in User : row[u].at <= row'[u].at]_vars
  BY StampStep
<1>3. Init => TypeInv /\ LockInv
  BY TypeInit, LockInit
<1> QED
  BY <1>1, <1>2, <1>3, PTL DEF Spec, NewerStands

-----------------------------------------------------------------------------
(* What RevenueCat's log says.                                               *)
Entitled(e) == [active |-> TRUE, expires |-> e]
Held(u, e) == \E k \in 1 .. Len(log) : log[k].held[u] = Entitled(e)
HeldSince(u, at, e) ==
  \E k \in 1 .. Len(log) : at <= EventTime(k) + 1 /\ log[k].held[u] = Entitled(e)
Ever(u, e) == e = Never \/ Past(e) \/ Held(u, e)
Since(u, at, e) == Past(e) \/ HeldSince(u, at, e)

StoreLogged == IF Len(log) = 0 THEN store = [u \in User |-> None] ELSE store = log[Len(log)].held
Ended == \A u \in User : ~store[u].active => store[u].expires = Never \/ Past(store[u].expires)
\* An event says what RevenueCat held right after it.
Honesty(k) ==
  LET e == log[k] IN
  /\ e.kind = "grant" \/ e.kind = "billing" \/ (e.kind = "cancel" /\ e.expires # Never)
       => e.held[e.user] = Entitled(e.expires)
  /\ e.kind = "billing" => e.expires # Never
  /\ e.kind = "expiration" => Past(e.expires)
  /\ e.kind = "cancel" /\ e.expires = Never
       => \A j \in 1 .. k, u \in User : log[j].held[u].expires = Never
\* What lapses came from an event that says when.
Terms == \A k \in 1 .. Len(log), u \in User :
           log[k].held[u].expires # Never => \E i \in 1 .. k : log[i].expires # Never
LogInv == StoreLogged /\ Ended /\ Terms /\ \A k \in 1 .. Len(log) : Honesty(k)

\* What an event emitted now must say for that to stay so.
Honest(kind, u, e, held) ==
  /\ \A x \in User : ~held[x].active => held[x].expires = Never \/ Past(held[x].expires)
  /\ kind = "grant" \/ kind = "billing" \/ (kind = "cancel" /\ e # Never)
       => held[u] = Entitled(e)
  /\ kind = "billing" => e # Never
  /\ kind = "expiration" => Past(e)
  /\ kind = "cancel" /\ e = Never
       => \A x \in User : /\ held[x].expires = Never
                          /\ \A j \in 1 .. Len(log) : log[j].held[x].expires = Never
  /\ \A x \in User : held[x].expires # Never
       => e # Never \/ \E i \in 1 .. Len(log) : log[i].expires # Never

HonestEmission ==
  \E kind \in Kind, u \in User, v \in User, e \in Expiry \cup {Never},
     held \in [User -> Entitlement] : Emit(kind, u, v, e, held) /\ Honest(kind, u, e, held)

\* What RevenueCat holds with an end came from an event that says when.
LEMMA StoreTerms ==
  ASSUME TypeOK, LogInv, NEW x \in User, store[x].expires # Never
  PROVE  \E i \in 1 .. Len(log) : log[i].expires # Never
<1>1. Len(log) \in Nat
  BY DEF TypeOK
<1>2. Len(log) # 0 /\ store = log[Len(log)].held
  BY DEF LogInv, StoreLogged, None
<1>3. Len(log) \in 1 .. Len(log)
  BY <1>1, <1>2
<1> QED
  BY <1>2, <1>3 DEF LogInv, Terms

LEMMA HoldFacts ==
  ASSUME TypeOK, NEW u \in User, NEW a \in BOOLEAN, NEW e \in Expiry \cup {Never}
  PROVE  /\ Hold(u, a, e)[u] = [active |-> a, expires |-> e]
         /\ \A x \in User \ {u} : Hold(u, a, e)[x] = store[x]
  BY DEF Hold, TypeOK

\* A change of one user's entitlement, and what is left to show of it.
LEMMA HonestHold ==
  ASSUME TypeOK, LogInv, NEW u \in User, NEW a \in BOOLEAN, NEW e \in Expiry \cup {Never},
         ~a => e = Never \/ Past(e)
  PROVE  LET held == Hold(u, a, e) IN
         /\ \A x \in User : ~held[x].active => held[x].expires = Never \/ Past(held[x].expires)
         /\ \A x \in User : held[x].expires # Never
              => e # Never \/ \E i \in 1 .. Len(log) : log[i].expires # Never
<1> DEFINE held == Hold(u, a, e)
<1>1. held[u] = [active |-> a, expires |-> e] /\ \A x \in User \ {u} : held[x] = store[x]
  BY HoldFacts
<1> HIDE DEF held
<1>2. \A x \in User : ~held[x].active => held[x].expires = Never \/ Past(held[x].expires)
  BY <1>1 DEF LogInv, Ended
<1>3. \A x \in User : held[x].expires # Never
        => e # Never \/ \E i \in 1 .. Len(log) : log[i].expires # Never
  BY <1>1, StoreTerms
<1> QED
  BY <1>2, <1>3 DEF held

LEMMA RevenueCatIsHonest ==
  ASSUME TypeOK, LogInv, RevenueCat
  PROVE  Tick \/ HonestEmission
<1>a. Never \in Expiry \cup {Never} /\ TRUE \in BOOLEAN /\ FALSE \in BOOLEAN
      /\ Never \notin Expiry
  BY PremiumAssumption DEF Expiry
<1>1. ASSUME NEW u \in User, NEW e \in Expiry \cup {Never}, Emit("grant", u, u, e, Hold(u, TRUE, e))
      PROVE  HonestEmission
  <2>1. Honest("grant", u, e, Hold(u, TRUE, e))
    BY HonestHold, HoldFacts DEF Honest, Entitled
  <2> QED BY <1>1, <2>1, HoldType DEF HonestEmission, Kind
<1>2. ASSUME NEW u \in User, Cancel(u) PROVE HonestEmission
  <2>1. store[u].active = TRUE /\ store[u].expires # Never
        /\ store[u].expires \in Expiry \cup {Never} /\ store[u] \in Entitlement
        /\ Emit("cancel", u, u, store[u].expires, store)
    BY <1>2, StoreType DEF Cancel, Subscribed, TypeOK
  <2>2. store[u] = Entitled(store[u].expires)
    BY <2>1 DEF Entitlement, Entitled
  <2>3. Honest("cancel", u, store[u].expires, store)
    BY <2>1, <2>2 DEF Honest, LogInv, Ended
  <2> QED BY <2>1, <2>3, StoreType DEF HonestEmission, Kind
<1>3. ASSUME NEW u \in User, BillingIssue(u) PROVE HonestEmission
  <2>1. PICK e \in Expiry : Emit("billing", u, u, e, Hold(u, TRUE, e))
    BY <1>3 DEF BillingIssue
  <2>2. Honest("billing", u, e, Hold(u, TRUE, e))
    <3>1. e \in Expiry \cup {Never} /\ e # Never
      BY <1>a
    <3>2. Hold(u, TRUE, e)[u] = Entitled(e)
      BY <3>1, HoldFacts DEF Entitled
    <3> QED BY <3>1, <3>2, HonestHold DEF Honest
  <2> QED BY <2>1, <2>2, HoldType DEF HonestEmission, Kind
<1>4. ASSUME NEW u \in User, Refund(u) PROVE HonestEmission
  <2>1. Honest("refund", u, Never, Hold(u, FALSE, Never))
    BY <1>a, HonestHold DEF Honest
  <2> QED BY <1>a, <1>4, <2>1, HoldType DEF HonestEmission, Kind, Refund
<1>5. ASSUME NEW u \in User, CancelForever(u) PROVE HonestEmission
  <2>1. \A k \in 1 .. Len(log) : log[k].expires = Never
    BY <1>5 DEF CancelForever
  <2>2. \A x \in User : store[x].expires = Never
                    /\ \A j \in 1 .. Len(log) : log[j].held[x].expires = Never
    <3>1. Len(log) \in Nat
      BY DEF TypeOK
    <3>2. \A x \in User, j \in 1 .. Len(log) : log[j].held[x].expires = Never
      BY <2>1, <3>1 DEF LogInv, Terms
    <3> QED BY <2>1, <3>2, StoreTerms
  <2>3. \A x \in User : Hold(u, FALSE, Never)[x].expires = Never
    <3>1. Hold(u, FALSE, Never)[u].expires = Never
      BY DEF Hold, TypeOK
    <3>2. \A x \in User \ {u} : Hold(u, FALSE, Never)[x] = store[x]
      BY DEF Hold, TypeOK
    <3> QED BY <2>2, <3>1, <3>2
  <2>4. Honest("cancel", u, Never, Hold(u, FALSE, Never))
    BY <1>a, <2>2, <2>3, HonestHold DEF Honest
  <2> QED BY <1>a, <1>5, <2>4, HoldType DEF HonestEmission, Kind, CancelForever
<1>6. ASSUME NEW u \in User, Expire(u) PROVE HonestEmission
  <2> DEFINE e == store[u].expires
  <2>1. e \in Expiry \cup {Never} /\ Past(e) /\ Emit("expiration", u, u, e, Hold(u, FALSE, e))
    BY <1>6, StoreType DEF Expire
  <2> HIDE DEF e
  <2>2. Honest("expiration", u, e, Hold(u, FALSE, e))
    BY <1>a, <2>1, HonestHold DEF Honest
  <2> QED BY <1>a, <2>1, <2>2, HoldType DEF HonestEmission, Kind
<1>7. ASSUME NEW u \in User, NEW v \in User, Transfer(u, v) PROVE HonestEmission
  <2> DEFINE held == [store EXCEPT ![u] = None, ![v] = store[u]]
  <2>1. held \in [User -> Entitlement] /\ Emit("transfer", u, v, Never, held)
    BY <1>7, StoreType DEF Transfer
  <2>2. \A x \in User : held[x] = None \/ \E y \in User : held[x] = store[y]
    BY DEF TypeOK
  <2> HIDE DEF held
  <2>3. Honest("transfer", u, Never, held)
    <3>1. \A x \in User : ~held[x].active => held[x].expires = Never \/ Past(held[x].expires)
      BY <2>2 DEF None, LogInv, Ended
    <3>2. \A x \in User : held[x].expires # Never
            => \E i \in 1 .. Len(log) : log[i].expires # Never
      BY <2>2, StoreTerms DEF None
    <3> QED BY <3>1, <3>2 DEF Honest
  <2> QED BY <1>a, <2>1, <2>3 DEF HonestEmission, Kind
<1> QED
  BY <1>1, <1>2, <1>3, <1>4, <1>5, <1>6, <1>7 DEF RevenueCat, Purchase, Renew

LEMMA LogInit == Init => LogInv
<1> SUFFICES ASSUME Init PROVE LogInv
  OBVIOUS
<1>1. Len(log) = 0 /\ 1 .. Len(log) = {}
  BY DEF Init
<1> QED
  BY <1>1 DEF Init, LogInv, StoreLogged, Ended, Terms, None

\* Time passes and the log grows: what was so stays so.
LEMMA Lasting ==
  ASSUME TypeOK, [Next]_vars
  PROVE  /\ \A e \in Expiry \cup {Never} : Past(e) => Past(e)'
         /\ \A u \in User, e \in Expiry \cup {Never} : Ever(u, e) => Ever(u, e)'
         /\ \A u \in User, e \in Expiry \cup {Never}, at \in Nat :
              Since(u, at, e) => Since(u, at, e)'
         /\ \A k \in 1 .. Len(log) : k \in 1 .. Len(log') /\ log'[k] = log[k]
<1>1. now' >= now /\ now \in Nat /\ now' \in Nat
      /\ \A k \in 1 .. Len(log) : k \in 1 .. Len(log') /\ log'[k] = log[k]
  <2>1. CASE Tick
    BY <2>1, PremiumAssumption DEF Tick, TypeOK
  <2>2. CASE Emission
    <3>1. PICK kind \in Kind, u \in User, v \in User, e \in Expiry \cup {Never},
               held \in [User -> Entitlement] : Emit(kind, u, v, e, held)
      BY <2>2 DEF Emission
    <3>2. now' = now
      BY <3>1 DEF Emit
    <3>3. now \in Nat
      BY PremiumAssumption DEF TypeOK
    <3>4. \A k \in 1 .. Len(log) : k \in 1 .. Len(log') /\ log'[k] = log[k]
      BY <3>1, AppendType
    <3> QED BY <3>2, <3>3, <3>4
  <2>3. CASE UNCHANGED <<now, log>>
    BY <2>3, PremiumAssumption DEF TypeOK
  <2> QED
    BY <2>1, <2>2, <2>3, RevenueCatEmits
    DEF Next, Webhook, Apply, Take, Ask, ApplyTransfer, Rollback, Refresh, RefreshFails, Fetch,
        vars, cloud
<1>2. \A e \in Expiry \cup {Never} : Past(e) => Past(e)'
  BY <1>1 DEF Past, Expiry
<1>3. \A u \in User, e \in Expiry \cup {Never} : Held(u, e) => Held(u, e)'
  BY <1>1 DEF Held, Entitled
<1>4. \A u \in User, e \in Expiry \cup {Never}, at \in Nat :
        HeldSince(u, at, e) => HeldSince(u, at, e)'
  BY <1>1 DEF HeldSince, Entitled, EventTime
<1> QED
  BY <1>1, <1>2, <1>3, <1>4 DEF Ever, Since

LEMMA LogEmission ==
  ASSUME TypeOK, LogInv, HonestEmission
  PROVE  LogInv'
<1>1. PICK kind \in Kind, u \in User, v \in User, e \in Expiry \cup {Never},
           held \in [User -> Entitlement] : Emit(kind, u, v, e, held) /\ Honest(kind, u, e, held)
  BY DEF HonestEmission
<1> DEFINE n == Len(log)
<1>2. /\ n \in Nat /\ Len(log') = n + 1
      /\ \A k \in 1 .. n : log'[k] = log[k]
      /\ log'[n + 1] = [kind |-> kind, user |-> u, to |-> v, expires |-> e, held |-> held]
  BY <1>1, AppendType
<1>3. store' = held /\ now' = now
  BY <1>1 DEF Emit
<1> HIDE DEF n
<1>4. \A k \in 1 .. n + 1 : k \in 1 .. n \/ k = n + 1
  BY <1>2
<1>5. StoreLogged'
  BY <1>2, <1>3 DEF StoreLogged
<1>6. Ended'
  BY <1>1, <1>3 DEF Ended, Honest, Past
<1>7. Terms'
  <2> SUFFICES ASSUME NEW k \in 1 .. n + 1, NEW x \in User, log'[k].held[x].expires # Never
               PROVE  \E i \in 1 .. k : log'[i].expires # Never
    BY <1>2 DEF Terms
  <2>1. CASE k \in 1 .. n
    <3>1. PICK i \in 1 .. k : log[i].expires # Never
      BY <1>2, <2>1 DEF LogInv, Terms, n
    <3> QED BY <1>2, <2>1, <3>1
  <2>2. CASE k = n + 1
    <3>1. e # Never \/ \E i \in 1 .. n : log[i].expires # Never
      BY <1>1, <1>2, <2>2 DEF Honest, n
    <3> QED BY <1>2, <2>2, <3>1
  <2> QED BY <1>4, <2>1, <2>2
<1>8. ASSUME NEW k \in 1 .. n + 1 PROVE Honesty(k)'
  <2>1. CASE k \in 1 .. n
    <3>1. log'[k] = log[k] /\ \A j \in 1 .. k : log'[j] = log[j]
      BY <1>2, <2>1
    <3>2. Honesty(k)
      BY <2>1 DEF LogInv, n
    <3> QED BY <1>3, <3>1, <3>2 DEF Honesty, Past
  <2>2. CASE k = n + 1
    <3>1. \A j \in 1 .. k : j = k \/ (j \in 1 .. n /\ log'[j] = log[j])
      BY <1>2, <2>2
    <3>2. kind = "cancel" /\ e = Never
            => \A j \in 1 .. k, x \in User : log'[j].held[x].expires = Never
      BY <1>1, <1>2, <2>2, <3>1 DEF Honest, n
    <3> QED BY <1>1, <1>2, <1>3, <2>2, <3>2 DEF Honesty, Honest, Past
  <2> QED BY <1>4, <2>1, <2>2
<1> QED
  BY <1>2, <1>5, <1>6, <1>7, <1>8 DEF LogInv

LEMMA LogStep ==
  ASSUME TypeOK, LogInv, [Next]_vars
  PROVE  LogInv'
<1>1. CASE UNCHANGED <<now, store, log>>
  BY <1>1 DEF LogInv, StoreLogged, Ended, Terms, Honesty, Past
<1>2. CASE Tick
  <2>1. store' = store /\ log' = log
    BY <1>2 DEF Tick
  <2>2. \A e \in Expiry \cup {Never} : Past(e) => Past(e)'
    BY Lasting
  <2>3. Ended'
    BY <2>1, <2>2, StoreType DEF LogInv, Ended
  <2>4. ASSUME NEW k \in 1 .. Len(log) PROVE Honesty(k)'
    BY <2>1, <2>2, EventType DEF LogInv, Honesty
  <2> QED BY <2>1, <2>3, <2>4 DEF LogInv, StoreLogged, Terms
<1>3. CASE RevenueCat
  BY <1>2, <1>3, RevenueCatIsHonest, LogEmission
<1> QED
  BY <1>1, <1>3
  DEF Next, Webhook, Apply, Take, Ask, ApplyTransfer, Rollback, Refresh, RefreshFails, Fetch,
      vars, cloud

-----------------------------------------------------------------------------
(* What is stored, read or about to be stored was owed.                      *)
Owed(u, at, state) == /\ Ever(u, state.expires)
                      /\ state.active => Since(u, at, state.expires)
KeepsAccess(k) == log[k].kind \in {"cancel", "billing", "refund"}

RowOwed == \A u \in User : Owed(u, row[u].at, row[u])
\* Why a late grant may be given the expiry that is stored.
LateOwed ==
  \A u \in User : \A k \in Applied(u) :
    EventTime(k) = row[u].at /\ KeepsAccess(k) /\ row[u].expires # Never
    => Since(u, row[u].at, row[u].expires)
ReadOwed ==
  \A q \in Reader : read[q].pc = "store" =>
    /\ Owed(read[q].user, read[q].at, read[q].state)
    /\ \E n \in Nat : read[q].at = 2 * n + 1
JobOwed ==
  \A w \in Worker : \A u \in job[w].locked :
    job[w].said[u].got = "state" => Owed(u, EventTime(job[w].event), job[w].said[u].state)
OwedInv == RowOwed /\ LateOwed /\ ReadOwed /\ JobOwed

LEMMA OwedInit == Init => OwedInv
  BY DEF Init, OwedInv, RowOwed, LateOwed, ReadOwed, JobOwed, Owed, Ever, Unchanged, NoRead, NoJob,
         Applied

LEMMA ReadBackOwed ==
  ASSUME TypeOK, LogInv, NEW u \in User, NEW at \in Nat, at <= ReadTime
  PROVE  Owed(u, at, GetPremium(u))
<1> DEFINE n == Len(log)
<1>1. n \in Nat /\ store[u] \in Entitlement
  BY DEF TypeOK
<1>2. CASE store[u].active
  <2>1. n # 0 /\ store[u] = log[n].held[u]
    BY <1>2 DEF LogInv, StoreLogged, None
  <2>2. store[u] = Entitled(store[u].expires)
    BY <1>1, <1>2 DEF Entitlement, Entitled
  <2>3. n \in 1 .. n /\ at <= EventTime(n) + 1
    BY <1>1, <2>1 DEF ReadTime, EventTime
  <2>4. Held(u, store[u].expires) /\ HeldSince(u, at, store[u].expires)
    BY <2>1, <2>2, <2>3 DEF Held, HeldSince
  <2> QED BY <2>4 DEF Owed, GetPremium, Ever, Since
<1>3. CASE ~store[u].active
  BY <1>3 DEF Owed, GetPremium, Grants, Ever, LogInv, Ended
<1> QED
  BY <1>2, <1>3

LEMMA ChangedOwed ==
  ASSUME TypeOK, LogInv, RowOwed, NEW k \in 1 .. Len(log), log[k].kind # "transfer"
  PROVE  LET u == log[k].user
             r == Changed(k, row[u])
         IN /\ Owed(u, EventTime(k), r) /\ r.at = EventTime(k)
            /\ KeepsAccess(k) /\ r.expires # Never => Since(u, EventTime(k), r.expires)
<1> DEFINE u == log[k].user
           e == log[k].expires
           r == Changed(k, row[u])
<1>1. /\ u \in User /\ k \in Nat /\ log[k].kind \in Kind /\ Honesty(k)
      /\ Owed(u, row[u].at, row[u])
  BY EventType DEF LogInv, RowOwed
<1>2. ASSUME log[k].held[u] = Entitled(e) PROVE Ever(u, e) /\ Since(u, EventTime(k), e)
  <2>1. EventTime(k) <= EventTime(k) + 1
    BY <1>1 DEF EventTime
  <2> QED BY <1>2, <2>1 DEF Ever, Since, Held, HeldSince
<1>3. CASE log[k].kind = "grant"
  BY <1>1, <1>2, <1>3 DEF Changed, Honesty, Owed, KeepsAccess
<1>4. CASE log[k].kind = "refund"
  BY <1>4 DEF Changed, Owed, Ever, KeepsAccess
<1>5. CASE log[k].kind = "expiration"
  BY <1>1, <1>5 DEF Changed, Honesty, Owed, Ever, KeepsAccess
<1>6. CASE log[k].kind \in {"cancel", "billing"} /\ e # Never
  <2>1. r.expires = e /\ r.at = EventTime(k)
    BY <1>6 DEF Changed
  <2> QED BY <1>1, <1>2, <1>6, <2>1 DEF Honesty, Owed
<1>7. CASE log[k].kind = "cancel" /\ e = Never
  <2> DEFINE kept == row[u].expires
  <2>1. r.expires = kept /\ r.at = EventTime(k) /\ (r.active => kept # Never)
    BY <1>7 DEF Changed
  <2>2. ASSUME kept # Never, ~Past(kept) PROVE HeldSince(u, EventTime(k), kept)
    <3>1. PICK j \in 1 .. Len(log) : log[j].held[u] = Entitled(kept)
      BY <1>1, <2>2 DEF Owed, Ever, Held
    <3>2. ~(j <= k)
      <4>1. \A i \in 1 .. k, x \in User : log[i].held[x].expires = Never
        BY <1>1, <1>7 DEF Honesty
      <4> QED BY <1>1, <2>2, <3>1, <4>1 DEF Entitled
    <3>3. EventTime(k) <= EventTime(j) + 1
      BY <1>1, <3>2 DEF EventTime
    <3> QED BY <3>1, <3>3 DEF HeldSince
  <2>3. kept # Never => Since(u, EventTime(k), kept)
    BY <2>2 DEF Since
  <2> QED BY <1>1, <2>1, <2>3 DEF Owed
<1> QED
  BY <1>1, <1>3, <1>4, <1>5, <1>6, <1>7 DEF Honesty, Kind

LEMMA RecordApplied ==
  ASSUME NEW k, NEW outcome, NEW u, Record(k, outcome, u)
  PROVE  /\ \A x \in User : Applied(x)' \subseteq Applied(x) \cup {k}
         /\ \A x \in User \ {u} : Applied(x)' \subseteq Applied(x)
         /\ outcome # "applied" => \A x \in User : Applied(x)' \subseteq Applied(x)
  BY DEF Record, Applied

\* Without a new event or the passing of time, what is owed stays the same.
LEMMA SameOwed ==
  ASSUME UNCHANGED <<now, log>>
  PROVE  /\ \A u, e : Ever(u, e)' <=> Ever(u, e)
         /\ \A u, at, e : Since(u, at, e)' <=> Since(u, at, e)
         /\ \A k : KeepsAccess(k)' <=> KeepsAccess(k)
  BY DEF Ever, Since, Past, Held, HeldSince, KeepsAccess, Entitled

LEMMA OwedApply ==
  ASSUME TypeInv, LogInv, OwedInv, NEW k, Apply(k)
  PROVE  OwedInv'
<1> DEFINE u == log[k].user
<1>1. TypeOK /\ k \in 1 .. Len(log) /\ k \in Nat /\ log[k].kind # "transfer" /\ u \in User
      /\ UNCHANGED <<now, log, job, read>> /\ row \in [User -> Row]
  BY EventType DEF TypeInv, TypeOK, Apply, Claim, cloud
<1>2. /\ \A x, e : Ever(x, e)' <=> Ever(x, e)
      /\ \A x, at, e : Since(x, at, e)' <=> Since(x, at, e)
      /\ \A j : KeepsAccess(j)' <=> KeepsAccess(j)
  BY <1>1, SameOwed
<1>3. ReadOwed' /\ JobOwed'
  BY <1>1, <1>2 DEF OwedInv, ReadOwed, JobOwed, Owed, EventTime
<1>4. CASE row' = [row EXCEPT ![u] = Changed(k, @)] /\ Record(k, "applied", u)
  <2> DEFINE r == Changed(k, row[u])
  <2>1. /\ Owed(u, EventTime(k), r) /\ r.at = EventTime(k)
        /\ KeepsAccess(k) /\ r.expires # Never => Since(u, EventTime(k), r.expires)
    BY <1>1, ChangedOwed DEF OwedInv
  <2> HIDE DEF r
  <2>2. row'[u] = r /\ \A x \in User \ {u} : row'[x] = row[x]
    BY <1>1, <1>4 DEF r
  <2>3. RowOwed'
    BY <1>2, <2>1, <2>2 DEF OwedInv, RowOwed, Owed
  <2>4. LateOwed'
    <3> SUFFICES ASSUME NEW x \in User, NEW j \in Applied(x)', EventTime(j) = row'[x].at,
                        KeepsAccess(j), row'[x].expires # Never
                 PROVE  Since(x, row'[x].at, row'[x].expires)
      BY <1>2 DEF LateOwed, EventTime
    <3>1. CASE x = u
      <4>1. j \in 1 .. Len(log)
        BY <1>1, <1>4 DEF Applied, Record, TypeOK
      <4>2. j = k
        BY <1>1, <2>1, <2>2, <3>1, <4>1 DEF EventTime
      <4> QED BY <2>1, <2>2, <3>1, <4>2
    <3>2. CASE x # u
      <4>a. Applied(x)' \subseteq Applied(x)
        BY <1>4, <3>2, RecordApplied
      <4>1. j \in Applied(x) /\ row'[x] = row[x]
        BY <4>a, <2>2, <3>2
      <4> QED BY <4>1 DEF OwedInv, LateOwed
    <3> QED BY <3>1, <3>2
  <2> QED BY <1>3, <2>3, <2>4 DEF OwedInv
<1>5. CASE LateGrant(k) /\ row' = [row EXCEPT ![u].active = TRUE] /\ Record(k, "applied", u)
  <2>1. log[k].kind = "grant" /\ row[u].expires # Never
        /\ LastChangeKeptAccess(u, row[u].at)
    BY <1>5 DEF LateGrant
  <2>2. Since(u, row[u].at, row[u].expires)
    BY <1>1, <2>1 DEF LastChangeKeptAccess, OwedInv, LateOwed, KeepsAccess
  <2>3. \A x \in User : row'[x].at = row[x].at /\ row'[x].expires = row[x].expires
                      /\ (x = u \/ row'[x] = row[x])
    BY <1>1, <1>5 DEF Row
  <2>4. RowOwed'
    BY <1>2, <2>2, <2>3 DEF OwedInv, RowOwed, Owed
  <2>a. \A x \in User : Applied(x)' \subseteq Applied(x) \cup {k}
    BY <1>5, RecordApplied
  <2>5. ~KeepsAccess(k) /\ \A x \in User : Applied(x)' \subseteq Applied(x) \cup {k}
    BY <2>1, <2>a DEF KeepsAccess
  <2>6. LateOwed'
    BY <1>2, <2>3, <2>5 DEF OwedInv, LateOwed, EventTime
  <2> QED BY <1>3, <2>4, <2>6 DEF OwedInv
<1>6. CASE row' = row /\ Record(k, "stale", u)
  <2>1. \A x \in User : Applied(x)' \subseteq Applied(x)
    BY <1>6, RecordApplied
  <2> QED BY <1>2, <1>3, <1>6, <2>1 DEF OwedInv, RowOwed, LateOwed, Owed, EventTime
<1> QED
  BY <1>4, <1>5, <1>6 DEF Apply

LEMMA OwedTransfer ==
  ASSUME TypeInv, LogInv, OwedInv, NEW w \in Worker, ApplyTransfer(w)
  PROVE  OwedInv'
<1> DEFINE k == job[w].event
<1>1. /\ k \in 1 .. Len(log) /\ log[k].kind = "transfer" /\ TypeOK
      /\ UNCHANGED <<now, log, read>> /\ job \in [Worker -> Job]
      /\ job' = [job EXCEPT ![w] = NoJob]
      /\ \A u \in User :
           \/ row'[u] = row[u]
           \/ /\ u \in job[w].locked /\ job[w].said[u].got = "state"
              /\ row'[u] = [active |-> job[w].said[u].state.active,
                            expires |-> job[w].said[u].state.expires, at |-> EventTime(k)]
           \/ /\ u \in job[w].locked /\ job[w].said[u].got = "unread"
              /\ row'[u] = [active |-> FALSE, expires |-> row[u].expires, at |-> EventTime(k)]
  BY TransferRows DEF TypeInv, TypeOK, ApplyTransfer, cloud
<1>2. /\ \A x, e : Ever(x, e)' <=> Ever(x, e)
      /\ \A x, at, e : Since(x, at, e)' <=> Since(x, at, e)
      /\ \A j : KeepsAccess(j)' <=> KeepsAccess(j)
  BY <1>1, SameOwed
<1>3. ReadOwed'
  BY <1>1, <1>2 DEF OwedInv, ReadOwed, Owed
<1>4. JobOwed'
  <2>1. job'[w] = NoJob /\ \A o \in Worker \ {w} : job'[o] = job[o]
    BY <1>1
  <2> QED BY <1>2, <2>1 DEF OwedInv, JobOwed, Owed, EventTime, NoJob
<1>5. ASSUME NEW u \in User
      PROVE  (row'[u] = row[u] \/ row'[u].at = EventTime(k)) /\ Owed(u, row'[u].at, row'[u])
  <2>1. CASE row'[u] = row[u]
    BY <2>1 DEF OwedInv, RowOwed
  <2>2. CASE u \in job[w].locked /\ job[w].said[u].got = "state"
             /\ row'[u] = [active |-> job[w].said[u].state.active,
                           expires |-> job[w].said[u].state.expires, at |-> EventTime(k)]
    <3>1. Owed(u, EventTime(k), job[w].said[u].state)
      BY <2>2 DEF OwedInv, JobOwed
    <3> QED BY <2>2, <3>1 DEF Owed
  <2>3. CASE row'[u] = [active |-> FALSE, expires |-> row[u].expires, at |-> EventTime(k)]
    BY <2>3 DEF OwedInv, RowOwed, Owed
  <2> QED BY <1>1, <2>1, <2>2, <2>3
<1>6. RowOwed'
  BY <1>2, <1>5 DEF RowOwed, Owed
<1>7. \A u \in User : Applied(u)' \subseteq Applied(u) \cup {k}
  <2>1. \/ Record(k, "unknown_user", log[k].user) \/ Record(k, "applied", log[k].to)
        \/ Record(k, "applied", log[k].user)
    BY DEF ApplyTransfer
  <2> QED BY <2>1, RecordApplied
<1>8. LateOwed'
  <2> SUFFICES ASSUME NEW u \in User, NEW j \in Applied(u)', EventTime(j) = row'[u].at,
                      KeepsAccess(j), row'[u].expires # Never
               PROVE  Since(u, row'[u].at, row'[u].expires)
    BY <1>2 DEF LateOwed, EventTime
  <2>1. j # k /\ j \in Applied(u)
    BY <1>1, <1>7 DEF KeepsAccess
  <2>2. j \in 1 .. Len(log)
    BY <1>1, <2>1 DEF Applied, TypeOK
  <2>3. row'[u] = row[u]
    BY <1>1, <1>5, <2>1, <2>2 DEF EventTime
  <2> QED BY <2>1, <2>3 DEF OwedInv, LateOwed
<1> QED
  BY <1>3, <1>4, <1>6, <1>8 DEF OwedInv

\* A step of one transfer that writes no row.
LEMMA OwedOwn ==
  ASSUME TypeInv, OwedInv, NEW w \in Worker, NEW j, job' = [job EXCEPT ![w] = j],
         UNCHANGED <<now, log, row, ledger, read>>,
         \A u \in j.locked : j.said[u].got = "state" => Owed(u, EventTime(j.event), j.said[u].state)
  PROVE  OwedInv'
<1>1. /\ \A x, e : Ever(x, e)' <=> Ever(x, e)
      /\ \A x, at, e : Since(x, at, e)' <=> Since(x, at, e)
      /\ \A k : KeepsAccess(k)' <=> KeepsAccess(k)
  BY SameOwed
<1>2. job'[w] = j /\ \A o \in Worker \ {w} : job'[o] = job[o]
  BY DEF TypeInv, TypeOK
<1>3. JobOwed'
  BY <1>1, <1>2 DEF OwedInv, JobOwed, Owed, EventTime
<1>4. \A u \in User : Applied(u)' = Applied(u)
  BY DEF Applied
<1> QED
  BY <1>1, <1>3, <1>4 DEF OwedInv, RowOwed, LateOwed, ReadOwed, Owed, EventTime

LEMMA OwedTake ==
  ASSUME TypeInv, OwedInv, NEW w \in Worker, NEW k, Take(w, k)
  PROVE  OwedInv'
<1> DEFINE j == [job[w] EXCEPT !.pc = "ask", !.event = k, !.locked = {log[k].user, log[k].to}]
<1>1. job[w] = NoJob /\ job[w] \in Job /\ k \in 1 .. Len(log) /\ TypeOK
      /\ job \in [Worker -> Job]
  BY DEF TypeInv, TypeOK, Jobs, Take, Claim
<1>2. job' = [job EXCEPT ![w] = j] /\ UNCHANGED <<now, log, row, ledger, read>>
  BY <1>1 DEF Take, db, cloud
<1>3. j.said = [u \in User |-> Silent("nothing")] /\ j.locked \subseteq User
  BY <1>1, EventType DEF NoJob
<1>4. Silent("nothing").got = "nothing"
  BY DEF Silent
<1> HIDE DEF j
<1> QED
  BY <1>2, <1>3, <1>4, OwedOwn

LEMMA OwedAsk ==
  ASSUME TypeInv, LogInv, OwedInv, NEW w \in Worker, Ask(w)
  PROVE  OwedInv'
<1> DEFINE k == job[w].event
           u == IF job[w].said[log[k].user].got = "nothing" THEN log[k].user ELSE log[k].to
<1>1. TypeOK /\ k \in 1 .. Len(log) /\ job[w] \in Job /\ job \in [Worker -> Job]
  BY DEF TypeInv, Ask, Jobs, TypeOK
<1>2. u \in User
  BY <1>1, EventType
<1>3. PICK a : /\ job' = [job EXCEPT ![w].said[u] = a,
                                 ![w].pc = IF u = log[k].to THEN "transfer" ELSE "ask"]
               /\ \/ a \in {Silent("passed"), Silent("unread")}
                  \/ a = [got |-> "state", state |-> GetPremium(u)]
  BY DEF Ask
<1> DEFINE j == [job[w] EXCEPT !.said = [job[w].said EXCEPT ![u] = a],
                               !.pc = IF u = log[k].to THEN "transfer" ELSE "ask"]
<1>4. job' = [job EXCEPT ![w] = j] /\ j.event = k /\ j.locked = job[w].locked
      /\ j.said = [job[w].said EXCEPT ![u] = a]
      /\ UNCHANGED <<now, log, row, ledger, read>>
  BY <1>1, <1>3 DEF Job, Ask, db, cloud
<1>5. job[w].said \in [User -> Answer] /\ j.locked \subseteq User
  BY <1>1, <1>4 DEF Job
<1>6. Owed(u, EventTime(k), GetPremium(u))
  <2>1. EventTime(k) \in Nat /\ EventTime(k) <= ReadTime
    BY <1>1 DEF EventTime, ReadTime, TypeOK
  <2> QED BY <1>1, <1>2, <2>1, ReadBackOwed
<1> HIDE DEF j, u
<1>7. a.got = "state" => a.state = GetPremium(u)
  BY <1>3 DEF Silent
<1>8. \A x \in j.locked : j.said[x].got = "state" => Owed(x, EventTime(j.event), j.said[x].state)
  <2> SUFFICES ASSUME NEW x \in j.locked, j.said[x].got = "state"
               PROVE  Owed(x, EventTime(k), j.said[x].state)
    BY <1>4
  <2>1. CASE x = u
    <3>1. j.said[x] = a
      BY <1>2, <1>4, <1>5, <2>1
    <3> QED BY <1>6, <1>7, <2>1, <3>1
  <2>2. CASE x # u
    <3>1. j.said[x] = job[w].said[x] /\ x \in job[w].locked
      BY <1>4, <1>5, <2>2
    <3> QED BY <3>1 DEF OwedInv, JobOwed
  <2> QED BY <2>1, <2>2
<1> QED
  BY <1>4, <1>8, OwedOwn

LEMMA OwedRefresh ==
  ASSUME TypeInv, LogInv, OwedInv, NEW q \in Reader,
         Refresh(q) \/ RefreshFails(q) \/ \E u \in User : Fetch(q, u)
  PROVE  OwedInv'
<1>1. TypeOK /\ UNCHANGED <<now, log, job, ledger>> /\ read \in [Reader -> Read]
      /\ row \in [User -> Row]
  BY DEF TypeInv, TypeOK, Refresh, RefreshFails, Fetch, cloud, db
<1>2. /\ \A x, e : Ever(x, e)' <=> Ever(x, e)
      /\ \A x, at, e : Since(x, at, e)' <=> Since(x, at, e)
      /\ \A j : KeepsAccess(j)' <=> KeepsAccess(j)
      /\ \A u \in User : Applied(u)' = Applied(u)
  BY <1>1, SameOwed DEF Applied
<1>3. JobOwed'
  BY <1>1, <1>2 DEF OwedInv, JobOwed, Owed, EventTime
<1>4. ReadOwed'
  <2>1. ASSUME NEW u \in User, Fetch(q, u) PROVE ReadOwed'
    <3> DEFINE r == [pc |-> "store", user |-> u, state |-> GetPremium(u), at |-> ReadTime]
    <3>1. ReadTime \in Nat /\ \E n \in Nat : ReadTime = 2 * n + 1
      BY <1>1 DEF ReadTime, TypeOK
    <3>2. Owed(u, ReadTime, GetPremium(u))
      BY <1>1, <3>1, ReadBackOwed
    <3>3. read'[q] = r /\ \A p \in Reader \ {q} : read'[p] = read[p]
      BY <1>1, <2>1 DEF Fetch
    <3> QED BY <1>2, <3>1, <3>2, <3>3 DEF OwedInv, ReadOwed, Owed
  <2>2. ASSUME Refresh(q) \/ RefreshFails(q) PROVE ReadOwed'
    <3>1. read'[q] = NoRead /\ \A p \in Reader \ {q} : read'[p] = read[p]
      BY <1>1, <2>2 DEF Refresh, RefreshFails
    <3> QED BY <1>2, <3>1, NoJobType DEF OwedInv, ReadOwed, Owed
  <2> QED BY <2>1, <2>2
<1>5. CASE row' = row
  BY <1>2, <1>3, <1>4, <1>5 DEF OwedInv, RowOwed, LateOwed, Owed, EventTime
<1>6. CASE Refresh(q) /\ ~Outdated(q)
  <2> DEFINE u == read[q].user
             r == [active |-> read[q].state.active, expires |-> read[q].state.expires,
                   at |-> read[q].at]
  <2>1. u \in User /\ row' = [row EXCEPT ![u] = r]
    BY <1>6 DEF Refresh, TypeInv, Reads
  <2>2. Owed(u, read[q].at, read[q].state) /\ \E n \in Nat : read[q].at = 2 * n + 1
    BY <1>6 DEF OwedInv, ReadOwed, Refresh
  <2>3. Owed(u, r.at, r) /\ \E n \in Nat : r.at = 2 * n + 1
    BY <2>2 DEF Owed
  <2> HIDE DEF r, u
  <2>4. row'[u] = r /\ \A x \in User \ {u} : row'[x] = row[x]
    BY <1>1, <2>1
  <2>5. RowOwed'
    BY <1>2, <2>3, <2>4 DEF OwedInv, RowOwed, Owed
  <2>6. ASSUME NEW j \in Applied(u) PROVE EventTime(j) # r.at
    <3>1. j \in Nat
      BY <1>1 DEF Applied, TypeOK
    <3> QED BY <2>3, <3>1 DEF EventTime
  <2>7. LateOwed'
    <3> SUFFICES ASSUME NEW x \in User, NEW j \in Applied(x), EventTime(j) = row'[x].at,
                        KeepsAccess(j), row'[x].expires # Never
                 PROVE  Since(x, row'[x].at, row'[x].expires)
      BY <1>2 DEF LateOwed, EventTime
    <3>1. x # u /\ row'[x] = row[x]
      BY <2>4, <2>6
    <3> QED BY <3>1 DEF OwedInv, LateOwed
  <2> QED BY <1>3, <1>4, <2>5, <2>7 DEF OwedInv
<1> QED
  BY <1>5, <1>6 DEF Refresh, RefreshFails, Fetch, db

\* RevenueCat's own steps change neither rows nor transactions.
LEMMA OwedRevenueCat ==
  ASSUME TypeInv, OwedInv, [Next]_vars, UNCHANGED <<row, ledger, job, read>>
  PROVE  OwedInv'
<1>1. TypeOK /\ row \in [User -> Row] /\ job \in [Worker -> Job] /\ read \in [Reader -> Read]
  BY DEF TypeInv, TypeOK
<1>2. /\ \A u \in User, e \in Expiry \cup {Never} : Ever(u, e) => Ever(u, e)'
      /\ \A u \in User, e \in Expiry \cup {Never}, at \in Nat :
           Since(u, at, e) => Since(u, at, e)'
      /\ \A k \in 1 .. Len(log) : log'[k] = log[k]
  BY <1>1, Lasting
<1>3. \A u \in User : Applied(u)' = Applied(u) /\ Applied(u) \subseteq 1 .. Len(log)
  BY <1>1 DEF Applied, TypeOK
<1>4. \A u \in User, at \in Nat : \A s : s.active \in BOOLEAN /\ s.expires \in Expiry \cup {Never}
        => (Owed(u, at, s) => Owed(u, at, s)')
  BY <1>2 DEF Owed
<1>5. RowOwed'
  BY <1>1, <1>4, RowType DEF OwedInv, RowOwed
<1>6. LateOwed'
  BY <1>1, <1>2, <1>3, RowType DEF OwedInv, LateOwed, KeepsAccess, EventTime
<1>7. ReadOwed'
  <2> SUFFICES ASSUME NEW q \in Reader, read[q].pc = "store"
               PROVE  Owed(read[q].user, read[q].at, read[q].state)'
    BY DEF OwedInv, ReadOwed
  <2>1. read[q] \in Read /\ read[q].user \in User /\ Owed(read[q].user, read[q].at, read[q].state)
    BY <1>1 DEF TypeInv, Reads, OwedInv, ReadOwed
  <2>2. read[q].at \in Nat /\ read[q].state.active \in BOOLEAN
        /\ read[q].state.expires \in Expiry \cup {Never}
    BY <2>1, PremiumAssumption DEF Read, Entitlement
  <2> QED BY <1>4, <2>1, <2>2
<1>8. JobOwed'
  <2> SUFFICES ASSUME NEW w \in Worker, NEW u \in job[w].locked, job[w].said[u].got = "state"
               PROVE  Owed(u, EventTime(job[w].event), job[w].said[u].state)'
    BY DEF JobOwed
  <2>1. job[w] \in Job /\ Owed(u, EventTime(job[w].event), job[w].said[u].state)
    BY <1>1 DEF OwedInv, JobOwed
  <2>2. /\ u \in User /\ EventTime(job[w].event) \in Nat
        /\ job[w].said[u].state \in Entitlement
    BY <2>1, PremiumAssumption DEF Job, EventTime, Answer
  <2>3. /\ job[w].said[u].state.active \in BOOLEAN
        /\ job[w].said[u].state.expires \in Expiry \cup {Never}
    BY <2>2 DEF Entitlement
  <2> QED BY <1>4, <2>1, <2>2, <2>3 DEF EventTime
<1> QED
  BY <1>5, <1>6, <1>7, <1>8 DEF OwedInv

LEMMA OwedStep ==
  ASSUME TypeInv, LogInv, OwedInv, [Next]_vars
  PROVE  OwedInv'
<1>1. CASE UNCHANGED <<row, ledger, job, read>>
  BY <1>1, OwedRevenueCat
<1>2. CASE RevenueCat
  BY <1>1, <1>2, RevenueCatEmits DEF TypeInv, Tick, Emission, Emit, db
<1>3. CASE Webhook
  <2>1. ASSUME NEW w \in Worker, Rollback(w) PROVE OwedInv'
    <3>1. job' = [job EXCEPT ![w] = NoJob] /\ UNCHANGED <<now, log, row, ledger, read>>
          /\ NoJob.locked = {}
      BY <2>1 DEF Rollback, db, cloud, NoJob
    <3> QED BY <3>1, OwedOwn
  <2> QED BY <1>3, <2>1, OwedApply, OwedTake, OwedAsk, OwedTransfer DEF Webhook
<1>4. CASE \E q \in Reader : Refresh(q) \/ RefreshFails(q) \/ \E u \in User : Fetch(q, u)
  BY <1>4, OwedRefresh
<1>5. CASE UNCHANGED vars
  BY <1>1, <1>5 DEF vars, db
<1> QED
  BY <1>2, <1>3, <1>4, <1>5 DEF Next

\* Premium is never stored that RevenueCat did not hold for the user when the row
\* was stamped, or later.
THEOREM PremiumWasOwed == Spec => []OwedAtStamp
<1>1. TypeInv /\ LogInv /\ OwedInv => OwedAtStamp
  BY DEF OwedInv, RowOwed, Owed, Since, HeldSince, Entitled, OwedAtStamp, Grants
<1>2. Init => TypeInv /\ LogInv /\ OwedInv
  BY TypeInit, LogInit, OwedInit
<1>3. TypeInv /\ LogInv /\ OwedInv /\ [Next]_vars => (TypeInv /\ LogInv /\ OwedInv)'
  BY TypeStep, LogStep, OwedStep DEF TypeInv
<1> QED
  BY <1>1, <1>2, <1>3, PTL DEF Spec

-----------------------------------------------------------------------------
(* Convergence.  Once every event was delivered, the stamp of a row is not    *)
(* before the last event about its user: then Premium that was owed at the    *)
(* stamp is what RevenueCat holds.  That a user RevenueCat has as Premium is  *)
(* so in the row needs the events that came in no order: the one that gave    *)
(* Premium, and those after it that say it goes on.                           *)
About(k, u) == log[k].user = u \/ (log[k].kind = "transfer" /\ log[k].to = u)
Upkeep(k) == log[k].kind \in {"cancel", "billing"} /\ log[k].expires # Never
Opening(k, u) == \/ log[k].kind = "grant" /\ log[k].user = u
                 \/ log[k].kind = "transfer" /\ log[k].to = u
\* Event g gave the user what RevenueCat holds still.
Opens(g, u) == /\ Opening(g, u)
               /\ \A j \in 1 .. Len(log) : j > g /\ About(j, u) => Upkeep(j)

\* What RevenueCat holds of a user is what it held after the last event about them.
Steady == \A u \in User, k \in 1 .. Len(log) :
            (\A j \in 1 .. Len(log) : j > k => ~About(j, u)) => log[k].held[u] = store[u]
Opened == \A u \in User : store[u].active => \E g \in 1 .. Len(log) : Opens(g, u)
Apart == \A k \in 1 .. Len(log) : log[k].kind = "transfer" => log[k].user # log[k].to
ToldInv == Steady /\ Opened /\ Apart

\* What RevenueCat's next event may say of each user.
Orderly(kind, u, v, e, held) ==
  LET about(x) == x = u \/ (kind = "transfer" /\ x = v)
      opening(x) == (kind = "grant" /\ x = u) \/ (kind = "transfer" /\ x = v)
      upkeep == kind \in {"cancel", "billing"} /\ e # Never
  IN /\ \A x \in User : ~about(x) => held[x] = store[x]
     /\ kind = "transfer" => u # v
     /\ \A x \in User : about(x) /\ held[x].active
          => opening(x) \/ (upkeep /\ Grants(store[x]))

OrderlyEmission ==
  \E kind \in Kind, u \in User, v \in User, e \in Expiry \cup {Never},
     held \in [User -> Entitlement] : Emit(kind, u, v, e, held) /\ Orderly(kind, u, v, e, held)

LEMMA OrderlyHold ==
  ASSUME TypeOK, NEW kind \in Kind \ {"transfer"}, NEW u \in User, NEW a \in BOOLEAN,
         NEW e \in Expiry \cup {Never},
         ~a \/ kind = "grant" \/ (kind = "billing" /\ e # Never /\ Grants(store[u])),
         Emit(kind, u, u, e, Hold(u, a, e))
  PROVE  OrderlyEmission
<1> DEFINE held == Hold(u, a, e)
<1>a. held[u] = [active |-> a, expires |-> e] /\ \A x \in User \ {u} : held[x] = store[x]
  BY HoldFacts
<1> HIDE DEF held
<1>b. kind # "transfer" /\ held[u].active = a
  BY <1>a
<1>c. Orderly(kind, u, u, e, held)
  BY <1>a, <1>b DEF Orderly
<1>1. Orderly(kind, u, u, e, Hold(u, a, e))
  BY <1>c DEF held
<1> QED
  BY <1>1, HoldType DEF OrderlyEmission

LEMMA RevenueCatIsOrderly ==
  ASSUME TypeOK, RevenueCat
  PROVE  Tick \/ OrderlyEmission
<1>a. Never \in Expiry \cup {Never} /\ TRUE \in BOOLEAN /\ FALSE \in BOOLEAN
      /\ Never \notin Expiry
  BY PremiumAssumption DEF Expiry
<1>1. ASSUME NEW u \in User, Purchase(u) \/ Renew(u) PROVE OrderlyEmission
  BY <1>1, OrderlyHold DEF Purchase, Renew, Kind
<1>2. ASSUME NEW u \in User, Cancel(u) PROVE OrderlyEmission
  <2>1. Emit("cancel", u, u, store[u].expires, store) /\ Grants(store[u])
        /\ store[u].expires # Never
    BY <1>2, StoreType DEF Cancel, Subscribed, Grants
  <2>2. Orderly("cancel", u, u, store[u].expires, store)
    BY <2>1 DEF Orderly
  <2> QED BY <2>1, <2>2, StoreType DEF OrderlyEmission, Kind
<1>3. ASSUME NEW u \in User, BillingIssue(u) PROVE OrderlyEmission
  <2>1. Grants(store[u])
    BY <1>3, StoreType DEF BillingIssue, Subscribed, Grants
  <2>2. PICK e \in Expiry : Emit("billing", u, u, e, Hold(u, TRUE, e))
    BY <1>3 DEF BillingIssue
  <2>3. e \in Expiry \cup {Never} /\ e # Never
    BY <1>a
  <2> QED BY <1>a, <2>1, <2>2, <2>3, OrderlyHold DEF Kind
<1>4. ASSUME NEW u \in User, Refund(u) \/ CancelForever(u) PROVE OrderlyEmission
  BY <1>a, <1>4, OrderlyHold DEF Refund, CancelForever, Kind
<1>5. ASSUME NEW u \in User, Expire(u) PROVE OrderlyEmission
  BY <1>a, <1>5, OrderlyHold, StoreType DEF Expire, Kind
<1>6. ASSUME NEW u \in User, NEW v \in User, Transfer(u, v) PROVE OrderlyEmission
  <2> DEFINE held == [store EXCEPT ![u] = None, ![v] = store[u]]
  <2>1. held \in [User -> Entitlement] /\ Emit("transfer", u, v, Never, held) /\ u # v
    BY <1>6, StoreType DEF Transfer
  <2>2. held[u] = None /\ \A x \in User \ {u, v} : held[x] = store[x]
    BY <2>1 DEF TypeOK
  <2> HIDE DEF held
  <2>3. Orderly("transfer", u, v, Never, held)
    BY <2>1, <2>2 DEF Orderly, None
  <2> QED BY <1>a, <2>1, <2>3 DEF OrderlyEmission, Kind
<1> QED
  BY <1>1, <1>2, <1>3, <1>4, <1>5, <1>6 DEF RevenueCat

\* What an event adds to the log, to RevenueCat's records, and to no other state.
LEMMA EventAdded ==
  ASSUME TypeOK, NEW kind \in Kind, NEW u \in User, NEW v \in User,
         NEW e \in Expiry \cup {Never}, NEW held \in [User -> Entitlement],
         Emit(kind, u, v, e, held), Orderly(kind, u, v, e, held),
         NEW n \in Nat, n = Len(log)
  PROVE  /\ Len(log') = n + 1 /\ log'[n + 1].held = store'
         /\ 1 .. Len(log') = 1 .. n \cup {n + 1}
         /\ \A k \in 1 .. n : /\ log'[k] = log[k] /\ (Upkeep(k)' <=> Upkeep(k))
                              /\ \A x : /\ About(k, x)' <=> About(k, x)
                                        /\ Opening(k, x)' <=> Opening(k, x)
         /\ \A x \in User : ~About(n + 1, x)' => store'[x] = store[x]
         /\ log'[n + 1].kind = "transfer" => log'[n + 1].user # log'[n + 1].to
         /\ \A x \in User : About(n + 1, x)' /\ store'[x].active
              => Opening(n + 1, x)' \/ (Upkeep(n + 1)' /\ Grants(store[x]))
         /\ now' = now /\ UNCHANGED <<row, ledger, passed, unread, job, read>>
<1>1. /\ Len(log') = n + 1
      /\ \A k \in 1 .. n : log'[k] = log[k]
      /\ log'[n + 1] = [kind |-> kind, user |-> u, to |-> v, expires |-> e, held |-> held]
  BY AppendType
<1>2. store' = held /\ now' = now /\ UNCHANGED <<row, ledger, passed, unread, job, read>>
  BY DEF Emit, db
<1>3. \A k \in 1 .. n : /\ Upkeep(k)' <=> Upkeep(k)
                        /\ \A x : /\ About(k, x)' <=> About(k, x)
                                  /\ Opening(k, x)' <=> Opening(k, x)
  BY <1>1 DEF Upkeep, About, Opening
<1>6. /\ log'[n + 1].kind = kind /\ log'[n + 1].user = u /\ log'[n + 1].to = v
      /\ log'[n + 1].expires = e /\ log'[n + 1].held = held
  BY <1>1
<1>7. \A x : About(n + 1, x)' <=> x = u \/ (kind = "transfer" /\ x = v)
  BY <1>6 DEF About
<1>8. \A x : Opening(n + 1, x)' <=> (kind = "grant" /\ x = u) \/ (kind = "transfer" /\ x = v)
  BY <1>6 DEF Opening
<1>9. Upkeep(n + 1)' <=> kind \in {"cancel", "billing"} /\ e # Never
  BY <1>6 DEF Upkeep
<1>5. 1 .. n + 1 = 1 .. n \cup {n + 1}
  BY <1>1
<1> QED
  BY <1>1, <1>2, <1>3, <1>5, <1>6, <1>7, <1>8, <1>9 DEF Orderly

LEMMA ToldInit == Init => ToldInv
<1> SUFFICES ASSUME Init PROVE ToldInv
  OBVIOUS
<1>1. Len(log) = 0 /\ 1 .. Len(log) = {} /\ \A u \in User : ~store[u].active
  BY DEF Init, None
<1> QED
  BY <1>1 DEF ToldInv, Steady, Opened, Apart

LEMMA ToldEmission ==
  ASSUME TypeOK, ToldInv, OrderlyEmission
  PROVE  ToldInv'
<1>1. PICK kind \in Kind, u \in User, v \in User, e \in Expiry \cup {Never},
           held \in [User -> Entitlement] : Emit(kind, u, v, e, held) /\ Orderly(kind, u, v, e, held)
  BY DEF OrderlyEmission
<1>n. PICK n \in Nat : n = Len(log)
  BY DEF TypeOK
<1>2. /\ Len(log') = n + 1 /\ log'[n + 1].held = store'
      /\ 1 .. Len(log') = 1 .. n \cup {n + 1}
      /\ \A k \in 1 .. n : /\ log'[k] = log[k] /\ (Upkeep(k)' <=> Upkeep(k))
                           /\ \A x : /\ About(k, x)' <=> About(k, x)
                                     /\ Opening(k, x)' <=> Opening(k, x)
      /\ \A x \in User : ~About(n + 1, x)' => store'[x] = store[x]
      /\ log'[n + 1].kind = "transfer" => log'[n + 1].user # log'[n + 1].to
      /\ \A x \in User : About(n + 1, x)' /\ store'[x].active
           => Opening(n + 1, x)' \/ (Upkeep(n + 1)' /\ Grants(store[x]))
  BY <1>1, <1>n, EventAdded
<1>3. Steady'
  <2> SUFFICES ASSUME NEW x \in User, NEW k \in 1 .. n \cup {n + 1},
                      \A j \in 1 .. n \cup {n + 1} : j > k => ~About(j, x)'
               PROVE  log'[k].held[x] = store'[x]
    BY <1>2 DEF Steady
  <2>1. CASE k \in 1 .. n
    <3>1. n + 1 > k /\ ~About(n + 1, x)' /\ store'[x] = store[x]
      BY <1>2, <2>1
    <3>2. \A j \in 1 .. n : j > k => ~About(j, x)
      BY <1>2
    <3>3. log[k].held[x] = store[x]
      BY <1>n, <2>1, <3>2 DEF ToldInv, Steady
    <3> QED BY <1>2, <2>1, <3>1, <3>3
  <2> QED BY <1>2, <2>1
<1>4. Opened'
  <2> SUFFICES ASSUME NEW x \in User, store'[x].active
               PROVE  \E g \in 1 .. n \cup {n + 1} : Opens(g, x)'
    BY <1>2 DEF Opened
  <2>1. CASE Opening(n + 1, x)' /\ About(n + 1, x)'
    <3>1. \A j \in 1 .. n \cup {n + 1} : ~(j > n + 1)
      BY <1>2
    <3> QED BY <1>2, <2>1, <3>1 DEF Opens
  <2>2. CASE ~About(n + 1, x)' \/ (Upkeep(n + 1)' /\ Grants(store[x]))
    <3>1. store[x].active
      BY <1>2, <2>2 DEF Grants
    <3>2. PICK g \in 1 .. n : Opens(g, x)
      BY <1>n, <3>1 DEF ToldInv, Opened
    <3>3. Opens(g, x)'
      BY <1>n, <1>2, <2>2, <3>2 DEF Opens
    <3> QED BY <3>3
  <2> QED BY <1>2, <2>1, <2>2
<1>5. Apart'
  BY <1>n, <1>2 DEF ToldInv, Apart
<1> QED
  BY <1>3, <1>4, <1>5 DEF ToldInv

LEMMA ToldStep ==
  ASSUME TypeOK, ToldInv, [Next]_vars
  PROVE  ToldInv'
<1>1. CASE UNCHANGED <<store, log>>
  BY <1>1 DEF ToldInv, Steady, Opened, Apart, Opens, Opening, About, Upkeep
<1>2. CASE RevenueCat
  BY <1>1, <1>2, RevenueCatIsOrderly, ToldEmission DEF Tick
<1> QED
  BY <1>1, <1>2
  DEF Next, Webhook, Apply, Take, Ask, ApplyTransfer, Rollback, Refresh, RefreshFails, Fetch,
      vars, cloud

-----------------------------------------------------------------------------
(* What is known of a user as of some time, against what RevenueCat holds.   *)
Current(u, at) == \A k \in 1 .. Len(log) : About(k, u) => EventTime(k) <= at
Open(u, at) == \A k \in 1 .. Len(log) : About(k, u) /\ EventTime(k) > at => Upkeep(k)
Fits(u, at, state) ==
  Grants(store[u]) => /\ Current(u, at) => state.expires = store[u].expires
                      /\ Open(u, at) => state.active
\* The row waits for the late event that makes the user Premium again.
Awaited(u) ==
  \E g \in 1 .. Len(log) \ DOMAIN ledger, j \in Applied(u) :
    /\ Opens(g, u) /\ EventTime(j) = row[u].at /\ Upkeep(j) /\ row[u].expires # Never

Known == User \ (passed \cup unread)
RowFit(u) == Grants(store[u]) =>
               /\ Current(u, row[u].at) => row[u].expires = store[u].expires
               /\ Open(u, row[u].at) => row[u].active \/ Awaited(u)
RowFits == \A u \in Known : RowFit(u)
ReadFits == \A q \in Reader : read[q].pc = "store" => Fits(read[q].user, read[q].at, read[q].state)
JobFits == \A w \in Worker : \A u \in job[w].locked : job[w].said[u].got = "state" =>
             Fits(u, EventTime(job[w].event), job[w].said[u].state)
FitsInv == RowFits /\ ReadFits /\ JobFits

\* Every event of the ledger left its mark on the stamp of the users it is about.
InTime == /\ \A u \in User : row[u].at <= ReadTime
          /\ \A q \in Reader : read[q].pc = "store" => read[q].at <= ReadTime
Stamped == \A u \in User : \A k \in Applied(u) : EventTime(k) <= row[u].at
Seen == \A u \in Known : \A k \in DOMAIN ledger : About(k, u) => EventTime(k) <= row[u].at
Asked == \A w \in Worker : job[w].pc = "transfer" =>
           \A u \in job[w].locked : job[w].said[u].got # "nothing"
MarkInv == InTime /\ Stamped /\ Seen /\ Asked

LEMMA MarkInit == Init => MarkInv /\ FitsInv
<1> SUFFICES ASSUME Init PROVE MarkInv /\ FitsInv
  OBVIOUS
<1>1. \A u \in User : row[u].at = 0 /\ Applied(u) = {} /\ ~Grants(store[u])
  <2>1. \A u \in User : row[u].at = 0 /\ ~Grants(store[u])
    BY DEF Init, Unchanged, Grants, None
  <2>2. \A u \in User : Applied(u) = {}
    <3>1. DOMAIN ledger = {}
      BY DEF Init
    <3> QED BY <3>1 DEF Applied
  <2> QED BY <2>1, <2>2
<1>2. ReadTime = 1
  BY DEF Init, ReadTime
<1>3. MarkInv
  BY <1>1, <1>2 DEF Init, MarkInv, InTime, Stamped, Seen, Asked, NoRead, NoJob
<1>4. FitsInv
  BY <1>1 DEF Init, FitsInv, RowFits, RowFit, Known, ReadFits, JobFits, NoRead, NoJob
<1> QED
  BY <1>3, <1>4

\* After a step of RevenueCat, what fits still fits.
LEMMA CloudStep ==
  ASSUME TypeOK, Tick \/ OrderlyEmission
  PROVE  /\ ReadTime \in Nat /\ ReadTime' \in Nat /\ ReadTime <= ReadTime'
         /\ UNCHANGED <<row, ledger, passed, unread, job, read>>
         /\ \A k \in 1 .. Len(log) : \A x : About(k, x)' <=> About(k, x)
         /\ \A x \in User, at \in Nat : at <= ReadTime /\ Grants(store[x])' =>
              /\ Current(x, at)' => Grants(store[x]) /\ Current(x, at) /\ store'[x] = store[x]
              /\ Open(x, at)' => /\ Grants(store[x]) /\ Open(x, at)
                                 /\ \A g \in 1 .. Len(log) : Opens(g, x) => Opens(g, x)'
         /\ 1 .. Len(log) \subseteq 1 .. Len(log')
         /\ \A k \in 1 .. Len(log) : Upkeep(k)' <=> Upkeep(k)
<1>1. CASE Tick
  <2>1. UNCHANGED <<store, log, row, ledger, passed, unread, job, read>>
    BY <1>1 DEF Tick, db
  <2>2. \A x \in User : Grants(store[x])' => Grants(store[x])
    <3>1. now' = now + 1 /\ now \in Nat
      BY <1>1, PremiumAssumption DEF Tick, TypeOK
    <3> QED BY <2>1, <3>1, StoreType DEF Grants, Past, Expiry
  <2>3. ReadTime' = ReadTime /\ ReadTime \in Nat
    BY <2>1 DEF ReadTime, TypeOK
  <2>4. /\ \A k, x : About(k, x)' <=> About(k, x)
        /\ \A x, at : (Current(x, at)' <=> Current(x, at)) /\ (Open(x, at)' <=> Open(x, at))
        /\ \A g, x : Opens(g, x)' <=> Opens(g, x)
        /\ \A k : Upkeep(k)' <=> Upkeep(k)
    BY <2>1 DEF About, Current, Open, Opens, Opening, Upkeep, EventTime
  <2> QED BY <2>1, <2>2, <2>3, <2>4
<1>2. CASE OrderlyEmission
  <2>1. PICK kind \in Kind, u \in User, v \in User, e \in Expiry \cup {Never},
             held \in [User -> Entitlement] :
               Emit(kind, u, v, e, held) /\ Orderly(kind, u, v, e, held)
    BY <1>2 DEF OrderlyEmission
  <2>n. PICK n \in Nat : n = Len(log)
    BY DEF TypeOK
  <2>2. /\ Len(log') = n + 1
        /\ 1 .. Len(log') = 1 .. n \cup {n + 1}
        /\ \A k \in 1 .. n : /\ Upkeep(k)' <=> Upkeep(k)
                             /\ \A x : /\ About(k, x)' <=> About(k, x)
                                       /\ Opening(k, x)' <=> Opening(k, x)
        /\ \A x \in User : ~About(n + 1, x)' => store'[x] = store[x]
        /\ \A x \in User : About(n + 1, x)' /\ store'[x].active
             => Opening(n + 1, x)' \/ (Upkeep(n + 1)' /\ Grants(store[x]))
        /\ now' = now /\ UNCHANGED <<row, ledger, passed, unread, job, read>>
    BY <2>1, <2>n, EventAdded
  <2>3. ReadTime = 2 * n + 1 /\ ReadTime' \in Nat /\ ReadTime <= ReadTime'
    BY <2>n, <2>2 DEF ReadTime
  <2>4. \A k : EventTime(k)' = 2 * k
    BY DEF EventTime
  <2>5. ASSUME NEW x \in User, NEW at \in Nat, at <= ReadTime, Grants(store[x])'
        PROVE  /\ Current(x, at)' => Grants(store[x]) /\ Current(x, at) /\ store'[x] = store[x]
               /\ Open(x, at)' => /\ Grants(store[x]) /\ Open(x, at)
                                  /\ \A g \in 1 .. n : Opens(g, x) => Opens(g, x)'
    <3>1. 2 * (n + 1) > at
      BY <2>2, <2>3, <2>5
    <3>2. store'[x].active
      BY <2>5 DEF Grants
    <3>a. ~About(n + 1, x)' => Grants(store[x])
      BY <2>2, <2>5 DEF Grants, Past
    <3>3. ASSUME Current(x, at)'
          PROVE  Grants(store[x]) /\ Current(x, at) /\ store'[x] = store[x]
      <4>1. ~About(n + 1, x)'
        BY <2>2, <2>4, <3>1, <3>3 DEF Current
      <4>2. Current(x, at)
        BY <2>n, <2>2, <3>3 DEF Current, EventTime
      <4> QED BY <2>2, <3>a, <4>1, <4>2
    <3>4. ASSUME Open(x, at)'
          PROVE  /\ Grants(store[x]) /\ Open(x, at)
                 /\ \A g \in 1 .. n : Opens(g, x) => Opens(g, x)'
      <4>1. About(n + 1, x)' => Upkeep(n + 1)'
        BY <2>2, <2>4, <3>1, <3>4 DEF Open
      <4>2. ~(Upkeep(n + 1)' /\ Opening(n + 1, x)')
        BY DEF Upkeep, Opening
      <4>3. Grants(store[x])
        BY <2>2, <3>2, <3>a, <4>1, <4>2
      <4>4. Open(x, at)
        BY <2>n, <2>2, <3>4 DEF Open, EventTime
      <4>5. \A g \in 1 .. n : Opens(g, x) => Opens(g, x)'
        BY <2>2, <4>1, <2>n DEF Opens
      <4> QED BY <4>3, <4>4, <4>5
    <3> QED BY <3>3, <3>4
  <2> QED BY <2>n, <2>2, <2>3, <2>5
<1> QED
  BY <1>1, <1>2

\* With no news from RevenueCat, what fits is the same.
LEMMA SameCloud ==
  ASSUME UNCHANGED cloud
  PROVE  /\ \A x, at, s : Fits(x, at, s)' <=> Fits(x, at, s)
         /\ \A x : Grants(store[x])' <=> Grants(store[x])
         /\ \A x, at : (Current(x, at)' <=> Current(x, at)) /\ (Open(x, at)' <=> Open(x, at))
         /\ \A g, x : (Opens(g, x)' <=> Opens(g, x)) /\ (About(g, x)' <=> About(g, x))
         /\ \A k : (Upkeep(k)' <=> Upkeep(k)) /\ EventTime(k)' = EventTime(k)
         /\ ReadTime' = ReadTime /\ log' = log /\ store' = store
  BY DEF cloud, Fits, Grants, Past, Current, Open, Opens, Opening, About, Upkeep, EventTime,
         ReadTime

LEMMA OpeningIsAbout ==
  ASSUME NEW g, NEW u, Opens(g, u)
  PROVE  About(g, u) /\ ~Upkeep(g)
  BY DEF Opens, Opening, About, Upkeep

\* A row the step does not write.
LEMMA RowFitStays ==
  ASSUME UNCHANGED cloud, NEW x \in User, row'[x] = row[x],
         \A j \in Applied(x) : Upkeep(j) => j \in Applied(x)',
         \A k \in DOMAIN ledger' : k \in DOMAIN ledger \/ ~About(k, x),
         RowFit(x)
  PROVE  RowFit(x)'
<1>1. /\ \A s : Grants(store[s])' <=> Grants(store[s])
      /\ \A s, at : (Current(s, at)' <=> Current(s, at)) /\ (Open(s, at)' <=> Open(s, at))
      /\ \A g, s : Opens(g, s)' <=> Opens(g, s)
      /\ \A k : (Upkeep(k)' <=> Upkeep(k)) /\ EventTime(k)' = EventTime(k)
      /\ log' = log /\ store' = store
  BY SameCloud
<1>2. ASSUME Awaited(x) PROVE Awaited(x)'
  <2>1. PICK g \in 1 .. Len(log) \ DOMAIN ledger, j \in Applied(x) :
          Opens(g, x) /\ EventTime(j) = row[x].at /\ Upkeep(j) /\ row[x].expires # Never
    BY <1>2 DEF Awaited
  <2>2. g \in 1 .. Len(log') \ DOMAIN ledger' /\ j \in Applied(x)'
    BY <1>1, <2>1, OpeningIsAbout
  <2>3. Opens(g, x)' /\ EventTime(j)' = row'[x].at /\ Upkeep(j)' /\ row'[x].expires # Never
    BY <1>1, <2>1
  <2> QED BY <2>2, <2>3 DEF Awaited
<1>3. /\ Grants(store[x])' <=> Grants(store[x])
      /\ Current(x, row[x].at)' <=> Current(x, row[x].at)
      /\ Open(x, row[x].at)' <=> Open(x, row[x].at)
  BY <1>1
<1> QED
  BY <1>1, <1>2, <1>3 DEF RowFit

\* What an event makes of the row of a user whom RevenueCat has as Premium.
LEMMA ChangedFits ==
  ASSUME TypeOK, LogInv, ToldInv, MarkInv, NEW k \in 1 .. Len(log), k \notin DOMAIN ledger,
         log[k].kind # "transfer", NEW u \in Known, u = log[k].user, RowFit(u), Grants(store[u])
  PROVE  LET r == Changed(k, row[u]) IN
         /\ r.at = EventTime(k)
         /\ Current(u, EventTime(k)) => r.expires = store[u].expires
         /\ Open(u, EventTime(k)) =>
              \/ r.active
              \/ /\ Upkeep(k) /\ r.expires # Never
                 /\ \E g \in 1 .. Len(log) \ (DOMAIN ledger \cup {k}) : Opens(g, u)
<1> DEFINE r == Changed(k, row[u])
           e == log[k].expires
<1>1. PICK g \in 1 .. Len(log) : Opens(g, u)
  BY DEF ToldInv, Opened, Grants, Known
<1>2. k \in Nat /\ g \in Nat /\ About(k, u) /\ Honesty(k) /\ log[k].kind \in Kind /\ u \in User
      /\ row[u].at \in Nat
  BY EventType, RowType DEF About, LogInv, Known
<1>3. About(g, u) /\ ~Upkeep(g) /\ \A j \in 1 .. Len(log) : j > g /\ About(j, u) => Upkeep(j)
  BY <1>1, OpeningIsAbout DEF Opens
<1>4. r.at = EventTime(k)
  BY <1>2 DEF Changed, Kind
<1>5. ASSUME log[k].kind = "grant" \/ Upkeep(k), Current(u, EventTime(k))
      PROVE  e = store[u].expires
  <2>1. \A j \in 1 .. Len(log) : j > k => ~About(j, u)
    BY <1>2, <1>5 DEF Current, EventTime
  <2>2. log[k].held[u] = store[u]
    BY <1>2, <2>1 DEF ToldInv, Steady
  <2>3. log[k].held[u] = Entitled(e)
    BY <1>2, <1>5 DEF Honesty, Upkeep
  <2> QED BY <2>2, <2>3 DEF Entitled
<1>6. CASE k < g
  <2>1. EventTime(g) > EventTime(k)
    BY <1>2, <1>6 DEF EventTime
  <2> QED BY <1>2, <1>3, <1>4, <2>1 DEF Current, Open, EventTime
<1>7. CASE k = g
  <2>1. log[k].kind = "grant"
    BY <1>1, <1>7 DEF Opens, Opening
  <2>2. r.active /\ r.expires = e
    BY <2>1 DEF Changed
  <2> QED BY <1>4, <1>5, <2>1, <2>2
<1>8. CASE k > g
  <2>1. Upkeep(k) /\ g # k
    BY <1>2, <1>3, <1>8
  <2>2. r.expires = e /\ e # Never /\ r.active = row[u].active
    BY <2>1, <1>2, RowType DEF Changed, Upkeep
  <2>3. ASSUME ~row[u].active
        PROVE  \E i \in 1 .. Len(log) \ (DOMAIN ledger \cup {k}) : Opens(i, u)
    <3>1. CASE Open(u, row[u].at)
      <4>1. PICK i \in 1 .. Len(log) \ DOMAIN ledger : Opens(i, u)
        BY <2>3, <3>1 DEF RowFit, Awaited
      <4>2. i # k
        BY <2>1, <4>1, OpeningIsAbout
      <4> QED BY <4>1, <4>2
    <3>2. CASE ~Open(u, row[u].at)
      <4>1. PICK i \in 1 .. Len(log) : About(i, u) /\ EventTime(i) > row[u].at /\ ~Upkeep(i)
        BY <3>2 DEF Open
      <4>2. i <= g /\ i \in Nat
        BY <1>2, <1>3, <4>1
      <4>3. ~(EventTime(g) <= row[u].at)
        BY <1>2, <4>1, <4>2 DEF EventTime
      <4>4. g \notin DOMAIN ledger
        BY <1>3, <4>3 DEF MarkInv, Seen
      <4> QED BY <1>1, <2>1, <4>4
    <3> QED BY <3>1, <3>2
  <2> QED BY <1>4, <1>5, <2>1, <2>2, <2>3
<1> QED
  BY <1>2, <1>6, <1>7, <1>8

LEMMA FitsApply ==
  ASSUME TypeInv, LockInv, LogInv, ToldInv, MarkInv, FitsInv, NEW k, Apply(k)
  PROVE  MarkInv' /\ FitsInv'
<1>0. PICK u : u = log[k].user
  OBVIOUS
<1>1. /\ TypeOK /\ k \in 1 .. Len(log) /\ k \in Nat /\ k \notin DOMAIN ledger
      /\ log[k].kind # "transfer" /\ u \in User /\ row \in [User -> Row]
      /\ UNCHANGED <<cloud, passed, unread, job, read>>
  BY <1>0, EventType DEF TypeInv, TypeOK, Apply, Claim
<1>2. /\ \A x, at, s : Fits(x, at, s)' <=> Fits(x, at, s)
      /\ \A x : Grants(store[x])' <=> Grants(store[x])
      /\ \A x, at : (Current(x, at)' <=> Current(x, at)) /\ (Open(x, at)' <=> Open(x, at))
      /\ \A g, x : (Opens(g, x)' <=> Opens(g, x)) /\ (About(g, x)' <=> About(g, x))
      /\ \A j : (Upkeep(j)' <=> Upkeep(j)) /\ EventTime(j)' = EventTime(j)
      /\ ReadTime' = ReadTime /\ log' = log /\ store' = store
  BY <1>1, SameCloud
<1>3. /\ \A x : About(k, x) <=> x = u
      /\ Known' = Known /\ Known \subseteq User
  BY <1>0, <1>1 DEF About, Known
<1>4. \/ /\ ~TooOld(k, u) /\ row' = [row EXCEPT ![u] = Changed(k, @)] /\ Record(k, "applied", u)
      \/ /\ TooOld(k, u) /\ LateGrant(k)
         /\ row' = [row EXCEPT ![u].active = TRUE] /\ Record(k, "applied", u)
      \/ TooOld(k, u) /\ ~LateGrant(k) /\ row' = row /\ Record(k, "stale", u)
  BY <1>0 DEF Apply
<1>5. /\ DOMAIN ledger' = DOMAIN ledger \cup {k}
      /\ \A x \in User : Applied(x) \subseteq Applied(x)'
      /\ \A x \in User \ {u} : Applied(x)' \subseteq Applied(x)
      /\ \A x \in User : Applied(x)' \subseteq Applied(x) \cup {k}
  <2>1. \E o \in {"applied", "stale"} : Record(k, o, u)
    BY <1>4
  <2>2. PICK o : Record(k, o, u)
    BY <2>1
  <2>3. \A x \in User : Applied(x) \subseteq Applied(x)'
    BY <1>1, <2>2 DEF Record, Applied
  <2> QED BY <2>2, <2>3, RecordApplied DEF Record
<1>6. /\ \A x \in User : row[x].at <= row'[x].at /\ row[x].at \in Nat /\ row'[x].at \in Nat
      /\ \A x \in User \ {u} : row'[x] = row[x]
  <2>1. TypeInv'
    BY TypeApply
  <2>2. \A x \in User : row[x].at \in Nat /\ row'[x].at \in Nat
    BY <1>1, <2>1, PremiumAssumption DEF TypeInv, TypeOK, Row
  <2>3. \A x \in User \ {u} : row'[x] = row[x]
    BY <1>1, <1>4
  <2> QED BY <2>2, <2>3, StampApply
<1>7. /\ EventTime(k) <= row'[u].at /\ row'[u].at <= ReadTime
      /\ k \in Applied(u)' => row'[u].at = EventTime(k) \/ row'[u].at = row[u].at
  <2>1. CASE ~TooOld(k, u) /\ row' = [row EXCEPT ![u] = Changed(k, @)]
    <3>1. Changed(k, row[u]).at = EventTime(k)
      BY <1>1, EventType DEF Changed, Kind
    <3>2. row'[u].at = EventTime(k)
      BY <1>1, <2>1, <3>1
    <3> QED BY <1>1, <3>2 DEF EventTime, ReadTime, TypeOK
  <2>2. CASE TooOld(k, u) /\ (row' = [row EXCEPT ![u].active = TRUE] \/ row' = row)
    <3>1. row'[u].at = row[u].at
      BY <1>1, <2>2, RowType DEF Row
    <3> QED BY <1>1, <1>6, <2>2, <3>1 DEF TooOld, EventTime, MarkInv, InTime
  <2> QED BY <1>4, <2>1, <2>2
<1>8. MarkInv'
  <2>1. InTime'
    BY <1>1, <1>2, <1>6, <1>7 DEF MarkInv, InTime
  <2>2. Stamped'
    <3> SUFFICES ASSUME NEW x \in User, NEW j \in Applied(x)' PROVE EventTime(j) <= row'[x].at
      BY <1>2 DEF Stamped
    <3>1. CASE j \in Applied(x)
      <4>1. EventTime(j) <= row[x].at /\ j \in Nat
        BY <1>1, <3>1 DEF MarkInv, Stamped, Applied, TypeOK
      <4> QED BY <1>6, <4>1 DEF EventTime
    <3>2. CASE j \notin Applied(x)
      BY <1>5, <1>7, <3>2
    <3> QED BY <3>1, <3>2
  <2>3. Seen'
    <3> SUFFICES ASSUME NEW x \in Known, NEW j \in DOMAIN ledger \cup {k}, About(j, x)
                 PROVE  EventTime(j) <= row'[x].at
      BY <1>2, <1>3, <1>5 DEF Seen
    <3>1. CASE j \in DOMAIN ledger
      <4>1. EventTime(j) <= row[x].at /\ j \in Nat
        BY <1>1, <3>1 DEF MarkInv, Seen, TypeOK
      <4> QED BY <1>3, <1>6, <4>1 DEF EventTime
    <3>2. CASE j = k
      BY <1>3, <1>7, <3>2
    <3> QED BY <3>1, <3>2
  <2> QED BY <1>1, <2>1, <2>2, <2>3 DEF MarkInv, Asked
<1>9. ReadFits' /\ JobFits'
  BY <1>1, <1>2 DEF FitsInv, ReadFits, JobFits
<1>10. ASSUME NEW x \in Known, x # u PROVE RowFit(x)'
  <2>1. RowFit(x) /\ row'[x] = row[x] /\ x \in User
    BY <1>3, <1>6, <1>10 DEF FitsInv, RowFits
  <2> QED BY <1>1, <1>3, <1>5, <1>10, <2>1, RowFitStays
<1>11. ASSUME u \in Known PROVE RowFit(u)'
  <2> SUFFICES ASSUME Grants(store[u])
               PROVE  /\ Current(u, row'[u].at) => row'[u].expires = store[u].expires
                      /\ Open(u, row'[u].at) => row'[u].active \/ Awaited(u)'
    BY <1>2 DEF RowFit
  <2>0. RowFit(u)
    BY <1>11 DEF FitsInv, RowFits
  <2>1. CASE row' = [row EXCEPT ![u] = Changed(k, @)] /\ Record(k, "applied", u)
    <3> DEFINE r == Changed(k, row[u])
    <3>1. /\ r.at = EventTime(k)
          /\ Current(u, EventTime(k)) => r.expires = store[u].expires
          /\ Open(u, EventTime(k)) =>
               \/ r.active
               \/ /\ Upkeep(k) /\ r.expires # Never
                  /\ \E g \in 1 .. Len(log) \ (DOMAIN ledger \cup {k}) : Opens(g, u)
      BY <1>0, <1>1, <1>11, <2>0, ChangedFits
    <3> HIDE DEF r
    <3>2. row'[u] = r
      BY <1>1, <2>1 DEF r
    <3>3. k \in Applied(u)'
      BY <2>1 DEF Record, Applied
    <3>4. ASSUME Upkeep(k), r.expires # Never,
                 NEW g \in 1 .. Len(log) \ (DOMAIN ledger \cup {k}), Opens(g, u)
          PROVE  Awaited(u)'
      <4>1. g \in 1 .. Len(log') \ DOMAIN ledger' /\ Opens(g, u)' /\ Upkeep(k)'
            /\ EventTime(k)' = row'[u].at /\ row'[u].expires # Never
        BY <1>2, <1>5, <3>1, <3>2, <3>4
      <4> QED BY <3>3, <4>1 DEF Awaited
    <3> QED BY <3>1, <3>2, <3>4
  <2>2. CASE row' = [row EXCEPT ![u].active = TRUE]
    <3>1. row'[u].active /\ row'[u].at = row[u].at /\ row'[u].expires = row[u].expires
      BY <1>1, <2>2, RowType DEF Row
    <3> QED BY <2>0, <3>1 DEF RowFit
  <2>3. CASE row' = row /\ TooOld(k, u) /\ ~LateGrant(k)
    <3>1. ASSUME Awaited(u) PROVE Awaited(u)'
      <4>1. PICK g \in 1 .. Len(log) \ DOMAIN ledger, j \in Applied(u) :
              Opens(g, u) /\ EventTime(j) = row[u].at /\ Upkeep(j) /\ row[u].expires # Never
        BY <3>1 DEF Awaited
      <4>2. ASSUME g = k PROVE FALSE
        <5>1. log[k].kind = "grant"
          BY <1>1, <4>1, <4>2 DEF Opens, Opening
        <5>2. \A i \in Applied(u) : i <= j
          <6> SUFFICES ASSUME NEW i \in Applied(u) PROVE i <= j
            OBVIOUS
          <6>1. i \in Nat /\ j \in Nat
            BY <1>1 DEF Applied, TypeOK
          <6>2. EventTime(i) <= EventTime(j)
            BY <1>1, <4>1 DEF MarkInv, Stamped
          <6> QED BY <6>1, <6>2 DEF EventTime
        <5>3. LastChangeKeptAccess(u, row[u].at)
          BY <4>1, <5>2 DEF LastChangeKeptAccess, Upkeep
        <5> QED BY <1>0, <2>3, <4>1, <5>1, <5>3 DEF LateGrant
      <4>3. g \in 1 .. Len(log') \ DOMAIN ledger' /\ j \in Applied(u)'
        BY <1>1, <1>2, <1>5, <4>1, <4>2
      <4>4. Opens(g, u)' /\ EventTime(j)' = row'[u].at /\ Upkeep(j)' /\ row'[u].expires # Never
        BY <1>2, <2>3, <4>1
      <4> QED BY <4>3, <4>4 DEF Awaited
    <3> QED BY <2>0, <2>3, <3>1 DEF RowFit
  <2> QED BY <1>4, <2>1, <2>2, <2>3
<1> QED
  BY <1>3, <1>8, <1>9, <1>10, <1>11 DEF FitsInv, RowFits

\* What a transfer does for a user who is still known afterwards.
LEMMA TransferWrites ==
  ASSUME TypeInv, MarkInv, NEW w \in Worker, ApplyTransfer(w), NEW k, k = job[w].event,
         NEW x \in Known', x \in job[w].locked
  PROVE  /\ row'[x].at = EventTime(k)
         /\ \/ /\ job[w].said[x].got = "state"
               /\ row'[x].active = job[w].said[x].state.active
               /\ row'[x].expires = job[w].said[x].state.expires
            \/ x # log[k].to
<1> DEFINE said == job[w].said
<1>1. x \in User /\ x \in {log[k].user, log[k].to} /\ x \notin passed' /\ x \notin unread'
  BY TransferRows DEF Known
<1>2. said[x].got # "nothing" /\ job[w].pc = "transfer"
  BY DEF MarkInv, Asked, ApplyTransfer
<1>3. said[x].got \in {"nothing", "passed", "unread", "state"}
  BY <1>1 DEF TypeInv, TypeOK, Job, Answer
<1>4. said[x].got # "passed" /\ (said[x].got = "unread" => x # log[k].to)
  BY <1>1 DEF ApplyTransfer
<1>5. CASE said[x].got = "state"
  <2>1. row'[x] = [active |-> said[x].state.active, expires |-> said[x].state.expires,
                   at |-> EventTime(k)]
    BY <1>1, <1>5 DEF ApplyTransfer
  <2> QED BY <1>5, <2>1
<1>6. CASE said[x].got = "unread"
  <2>1. x = log[k].user /\ x # log[k].to
    BY <1>1, <1>4, <1>6
  <2>2. row'[x].at = EventTime(k)
    BY <1>1, <1>6, <2>1 DEF ApplyTransfer
  <2> QED BY <2>1, <2>2
<1> QED
  BY <1>2, <1>3, <1>4, <1>5, <1>6

\* A transfer records that it was applied with a user whose row it wrote.
LEMMA TransferRecords ==
  ASSUME TypeInv, NEW w \in Worker, ApplyTransfer(w), NEW k, k = job[w].event, NEW x \in User
  PROVE  /\ DOMAIN ledger' = DOMAIN ledger \cup {k}
         /\ Applied(x)' \subseteq Applied(x) \cup {k}
         /\ Applied(x) \subseteq Applied(x)' \cup {k}
         /\ k \in Applied(x)' => row'[x].at = EventTime(k)
<1> DEFINE from == log[k].user
           to == log[k].to
           said == job[w].said
           touched == {u \in {from, to} : said[u].got = "state"}
                        \cup {u \in {from} : said[u].got = "unread"}
<1>1. \/ touched = {} /\ Record(k, "unknown_user", from)
      \/ touched # {} /\ Record(k, "applied", IF to \in touched THEN to ELSE from)
  BY DEF ApplyTransfer
<1>2. touched \subseteq {from, to}
  OBVIOUS
<1>3. x \in touched => row'[x].at = EventTime(k)
  <2>1. touched \subseteq User
    BY <1>2, TransferRows
  <2> QED BY <2>1 DEF ApplyTransfer
<1> HIDE DEF touched
<1>4. \E o, u : Record(k, o, u) /\ (o = "applied" => u \in touched)
  <2>1. CASE touched = {} /\ Record(k, "unknown_user", from)
    BY <2>1
  <2>2. CASE touched # {} /\ Record(k, "applied", IF to \in touched THEN to ELSE from)
    BY <1>2, <2>2
  <2> QED BY <1>1, <2>1, <2>2
<1>5. PICK o, u : Record(k, o, u) /\ (o = "applied" => u \in touched)
  BY <1>4
<1>6. DOMAIN ledger' = DOMAIN ledger \cup {k}
  BY <1>5 DEF Record
<1>7. k \in Applied(x)' => x \in touched
  BY <1>5 DEF Record, Applied
<1>8. Applied(x) \subseteq Applied(x)' \cup {k}
  BY <1>5 DEF Record, Applied
<1> QED
  BY <1>3, <1>5, <1>6, <1>7, <1>8, RecordApplied

LEMMA FitsTransfer ==
  ASSUME TypeInv, LockInv, ToldInv, MarkInv, FitsInv, NEW w \in Worker, ApplyTransfer(w)
  PROVE  MarkInv' /\ FitsInv'
<1>0. PICK k : k = job[w].event
  OBVIOUS
<1>1. /\ TypeOK /\ k \in 1 .. Len(log) /\ k \in Nat /\ log[k].kind = "transfer"
      /\ job[w].locked = {log[k].user, log[k].to} /\ log[k].user # log[k].to
      /\ UNCHANGED <<cloud, read>> /\ job \in [Worker -> Job]
      /\ job' = [job EXCEPT ![w] = NoJob]
  <2>1. k \in 1 .. Len(log) /\ log[k].kind = "transfer"
        /\ job[w].locked = {log[k].user, log[k].to}
    BY <1>0, TransferRows
  <2>2. TypeOK /\ job \in [Worker -> Job] /\ k \in Nat
    BY <2>1 DEF TypeInv, TypeOK
  <2>3. UNCHANGED <<cloud, read>> /\ job' = [job EXCEPT ![w] = NoJob]
    BY DEF ApplyTransfer
  <2> QED BY <2>1, <2>2, <2>3 DEF ToldInv, Apart
<1>2. /\ \A x, at, s : Fits(x, at, s)' <=> Fits(x, at, s)
      /\ \A x : Grants(store[x])' <=> Grants(store[x])
      /\ \A x, at : (Current(x, at)' <=> Current(x, at)) /\ (Open(x, at)' <=> Open(x, at))
      /\ \A g, x : (Opens(g, x)' <=> Opens(g, x)) /\ (About(g, x)' <=> About(g, x))
      /\ \A j : (Upkeep(j)' <=> Upkeep(j)) /\ EventTime(j)' = EventTime(j)
      /\ ReadTime' = ReadTime /\ log' = log /\ store' = store
  BY <1>1, SameCloud
<1>3. \A x : About(k, x) <=> x \in job[w].locked
  BY <1>1 DEF About
<1>4. Known' \subseteq Known /\ Known \subseteq User
  BY DEF ApplyTransfer, Known
<1>5. \A x \in User :
        /\ row[x].at <= row'[x].at /\ row[x].at \in Nat /\ row'[x].at \in Nat
        /\ row'[x] = row[x] \/ (x \in job[w].locked /\ row'[x].at = EventTime(k))
  <2>1. TypeInv'
    BY TypeTransfer
  <2>2. \A x \in User : row[x].at \in Nat /\ row'[x].at \in Nat
    BY <1>1, <2>1, PremiumAssumption DEF TypeInv, TypeOK, Row
  <2>3. \A x \in User : row'[x] = row[x] \/ (x \in job[w].locked /\ row'[x].at = EventTime(k))
    <3> SUFFICES ASSUME NEW x \in User, row'[x] # row[x]
                 PROVE  x \in job[w].locked /\ row'[x].at = EventTime(k)
      OBVIOUS
    <3>1. \/ /\ x \in job[w].locked
             /\ row'[x] = [active |-> job[w].said[x].state.active,
                           expires |-> job[w].said[x].state.expires, at |-> EventTime(k)]
          \/ /\ x \in job[w].locked
             /\ row'[x] = [active |-> FALSE, expires |-> row[x].expires, at |-> EventTime(k)]
      BY <1>0, TransferRows
    <3> QED BY <3>1
  <2> QED BY <2>2, <2>3, StampTransfer
<1>6. /\ DOMAIN ledger' = DOMAIN ledger \cup {k}
      /\ \A x \in User : /\ Applied(x)' \subseteq Applied(x) \cup {k}
                         /\ Applied(x) \subseteq Applied(x)' \cup {k}
                         /\ k \in Applied(x)' => row'[x].at = EventTime(k)
  BY <1>0, <1>1, TransferRecords, EventType
<1>7. job'[w] = NoJob /\ \A o \in Worker \ {w} : job'[o] = job[o]
  BY <1>1
<1>8. MarkInv'
  <2>1. InTime'
    <3>1. EventTime(k) <= ReadTime
      BY <1>1 DEF EventTime, ReadTime, TypeOK
    <3> QED BY <1>1, <1>2, <1>5, <3>1 DEF MarkInv, InTime
  <2>2. Stamped'
    <3> SUFFICES ASSUME NEW x \in User, NEW j \in Applied(x)' PROVE EventTime(j) <= row'[x].at
      BY <1>2 DEF Stamped
    <3>1. CASE j \in Applied(x)
      <4>1. EventTime(j) <= row[x].at /\ j \in Nat
        BY <1>1, <3>1 DEF MarkInv, Stamped, Applied, TypeOK
      <4> QED BY <1>5, <4>1 DEF EventTime
    <3>2. CASE j = k
      BY <1>1, <1>5, <1>6, <3>2 DEF EventTime
    <3> QED BY <1>6, <3>1, <3>2
  <2>3. Seen'
    <3> SUFFICES ASSUME NEW x \in Known', NEW j \in DOMAIN ledger \cup {k}, About(j, x)
                 PROVE  EventTime(j) <= row'[x].at
      BY <1>2, <1>6 DEF Seen
    <3>1. CASE j \in DOMAIN ledger
      <4>1. EventTime(j) <= row[x].at /\ j \in Nat
        BY <1>1, <1>4, <3>1 DEF MarkInv, Seen, TypeOK
      <4> QED BY <1>4, <1>5, <4>1 DEF EventTime
    <3>2. CASE j = k
      <4>1. row'[x].at = EventTime(k)
        BY <1>0, <1>3, <3>2, TransferWrites
      <4> QED BY <1>1, <3>2, <4>1 DEF EventTime
    <3> QED BY <3>1, <3>2
  <2>4. Asked'
    BY <1>7 DEF MarkInv, Asked, NoJob
  <2> QED BY <2>1, <2>2, <2>3, <2>4 DEF MarkInv
<1>9. ReadFits' /\ JobFits'
  BY <1>1, <1>2, <1>7 DEF FitsInv, ReadFits, JobFits, NoJob
<1>10. ASSUME NEW x \in Known', x \notin job[w].locked PROVE RowFit(x)'
  <2>1. RowFit(x) /\ row'[x] = row[x]
    BY <1>4, <1>5, <1>10 DEF FitsInv, RowFits
  <2>2. \A j \in Applied(x) : Upkeep(j) => j \in Applied(x)'
    BY <1>1, <1>4, <1>6 DEF Upkeep
  <2> QED BY <1>1, <1>3, <1>4, <1>6, <1>10, <2>1, <2>2, RowFitStays
<1>11. ASSUME NEW x \in Known', x \in job[w].locked PROVE RowFit(x)'
  <2> SUFFICES ASSUME Grants(store[x])
               PROVE  /\ Current(x, row'[x].at) => row'[x].expires = store[x].expires
                      /\ Open(x, row'[x].at) => row'[x].active
    BY <1>2 DEF RowFit
  <2>1. /\ row'[x].at = EventTime(k)
        /\ \/ /\ job[w].said[x].got = "state"
              /\ row'[x].active = job[w].said[x].state.active
              /\ row'[x].expires = job[w].said[x].state.expires
           \/ x # log[k].to
    BY <1>0, <1>11, TransferWrites
  <2>2. CASE job[w].said[x].got = "state" /\ row'[x].active = job[w].said[x].state.active
             /\ row'[x].expires = job[w].said[x].state.expires
    <3>1. Fits(x, EventTime(k), job[w].said[x].state)
      BY <1>0, <1>11, <2>2 DEF FitsInv, JobFits
    <3> QED BY <2>1, <2>2, <3>1 DEF Fits
  <2>3. CASE x # log[k].to
    <3>1. PICK g \in 1 .. Len(log) : Opens(g, x)
      BY <1>4 DEF ToldInv, Opened, Grants
    <3>2. g \in Nat /\ About(g, x) /\ ~Upkeep(g) /\ g # k
          /\ \A j \in 1 .. Len(log) : j > g /\ About(j, x) => Upkeep(j)
      BY <1>1, <2>3, <3>1, OpeningIsAbout DEF Opens, Opening
    <3>3. ~(k > g)
      BY <1>1, <1>3, <1>11, <3>2 DEF Upkeep
    <3>4. EventTime(g) > EventTime(k)
      BY <1>1, <3>2, <3>3 DEF EventTime
    <3> QED BY <1>1, <2>1, <3>2, <3>4 DEF Current, Open, EventTime
  <2> QED BY <2>1, <2>2, <2>3
<1> QED
  BY <1>8, <1>9, <1>10, <1>11 DEF FitsInv, RowFits

\* A step of one transfer that writes no row.
LEMMA FitsOwn ==
  ASSUME TypeInv, MarkInv, FitsInv, NEW w \in Worker, NEW j, job' = [job EXCEPT ![w] = j],
         UNCHANGED <<cloud, db, read>>,
         j.pc = "transfer" => \A u \in j.locked : j.said[u].got # "nothing",
         \A u \in j.locked : j.said[u].got = "state" => Fits(u, EventTime(j.event), j.said[u].state)
  PROVE  MarkInv' /\ FitsInv'
<1>1. /\ \A x, at, s : Fits(x, at, s)' <=> Fits(x, at, s)
      /\ \A g, x : About(g, x)' <=> About(g, x)
      /\ \A k : EventTime(k)' = EventTime(k)
      /\ ReadTime' = ReadTime
  BY SameCloud
<1>2. job'[w] = j /\ \A o \in Worker \ {w} : job'[o] = job[o]
  BY DEF TypeInv, TypeOK
<1>3. /\ UNCHANGED <<row, ledger, passed, unread, read>> /\ Known' = Known
      /\ \A x \in User : Applied(x)' = Applied(x)
  BY DEF db, Known, Applied
<1>4. MarkInv'
  <2>1. Asked'
    BY <1>2 DEF MarkInv, Asked
  <2> QED BY <1>1, <1>3, <2>1 DEF MarkInv, InTime, Stamped, Seen
<1>5. RowFits'
  <2> SUFFICES ASSUME NEW x \in Known PROVE RowFit(x)'
    BY <1>3 DEF RowFits
  <2>1. x \in User /\ RowFit(x)
    BY DEF Known, FitsInv, RowFits
  <2> QED BY <1>3, <2>1, RowFitStays
<1>6. ReadFits' /\ JobFits'
  BY <1>1, <1>2, <1>3 DEF FitsInv, ReadFits, JobFits
<1> QED
  BY <1>4, <1>5, <1>6 DEF FitsInv

LEMMA FitsTake ==
  ASSUME TypeInv, MarkInv, FitsInv, NEW w \in Worker, NEW k, Take(w, k)
  PROVE  MarkInv' /\ FitsInv'
<1> DEFINE j == [job[w] EXCEPT !.pc = "ask", !.event = k, !.locked = {log[k].user, log[k].to}]
<1>1. job[w] = NoJob /\ job[w] \in Job /\ k \in 1 .. Len(log) /\ TypeOK
      /\ job \in [Worker -> Job]
  BY DEF TypeInv, TypeOK, Jobs, Take, Claim
<1>2. job' = [job EXCEPT ![w] = j] /\ UNCHANGED <<cloud, db, read>> /\ j.pc = "ask"
  BY <1>1 DEF Take, NoJob
<1>3. j.said = [u \in User |-> Silent("nothing")] /\ j.locked \subseteq User
  BY <1>1, EventType DEF NoJob
<1>4. Silent("nothing").got = "nothing"
  BY DEF Silent
<1> HIDE DEF j
<1> QED
  BY <1>2, <1>3, <1>4, FitsOwn

\* What RevenueCat answers now fits, whatever it is taken to be an answer about.
LEMMA AnswerFits ==
  ASSUME NEW u, NEW at
  PROVE  Fits(u, at, GetPremium(u))
  BY DEF Fits, GetPremium

LEMMA FitsAsk ==
  ASSUME TypeInv, MarkInv, FitsInv, NEW w \in Worker, Ask(w)
  PROVE  MarkInv' /\ FitsInv'
<1> DEFINE k == job[w].event
           u == IF job[w].said[log[k].user].got = "nothing" THEN log[k].user ELSE log[k].to
<1>1. TypeOK /\ k \in 1 .. Len(log) /\ job[w] \in Job /\ job \in [Worker -> Job]
      /\ job[w].locked = {log[k].user, log[k].to}
  BY DEF TypeInv, Ask, Jobs, TypeOK
<1>2. u \in User /\ log[k].user \in User /\ log[k].to \in User
  BY <1>1, EventType
<1>3. PICK a : /\ job' = [job EXCEPT ![w].said[u] = a,
                                 ![w].pc = IF u = log[k].to THEN "transfer" ELSE "ask"]
               /\ \/ a \in {Silent("passed"), Silent("unread")}
                  \/ a = [got |-> "state", state |-> GetPremium(u)]
  BY DEF Ask
<1> DEFINE j == [job[w] EXCEPT !.said = [job[w].said EXCEPT ![u] = a],
                               !.pc = IF u = log[k].to THEN "transfer" ELSE "ask"]
<1>4. job' = [job EXCEPT ![w] = j] /\ j.event = k /\ j.locked = job[w].locked
      /\ j.said = [job[w].said EXCEPT ![u] = a]
      /\ j.pc = (IF u = log[k].to THEN "transfer" ELSE "ask")
      /\ UNCHANGED <<cloud, db, read>>
  BY <1>1, <1>3 DEF Job, Ask
<1>5. job[w].said \in [User -> Answer] /\ j.locked \subseteq User
  BY <1>1, <1>4 DEF Job
<1>6. u = log[k].user \/ job[w].said[log[k].user].got # "nothing"
  OBVIOUS
<1> HIDE DEF j, u
<1>7. (a.got = "state" => a.state = GetPremium(u)) /\ a.got # "nothing"
  BY <1>3 DEF Silent
<1>8. j.said[u] = a /\ \A x \in User \ {u} : j.said[x] = job[w].said[x]
  BY <1>2, <1>4, <1>5
<1>9. j.pc = "transfer" => \A x \in j.locked : j.said[x].got # "nothing"
  <2> SUFFICES ASSUME u = log[k].to, NEW x \in j.locked PROVE j.said[x].got # "nothing"
    BY <1>4
  <2>1. x = u \/ x = log[k].user
    BY <1>1, <1>4
  <2> QED BY <1>2, <1>6, <1>7, <1>8, <2>1
<1>10. \A x \in j.locked : j.said[x].got = "state" => Fits(x, EventTime(k), j.said[x].state)
  <2> SUFFICES ASSUME NEW x \in j.locked, j.said[x].got = "state"
               PROVE  Fits(x, EventTime(k), j.said[x].state)
    OBVIOUS
  <2>1. CASE x = u
    BY <1>7, <1>8, <2>1, AnswerFits
  <2>2. CASE x # u
    <3>1. j.said[x] = job[w].said[x] /\ x \in job[w].locked
      BY <1>4, <1>5, <1>8, <2>2
    <3> QED BY <3>1 DEF FitsInv, JobFits
  <2> QED BY <2>1, <2>2
<1> QED
  BY <1>4, <1>9, <1>10, FitsOwn

LEMMA FitsRefresh ==
  ASSUME TypeInv, LockInv, MarkInv, FitsInv, NEW q \in Reader,
         Refresh(q) \/ RefreshFails(q) \/ \E u \in User : Fetch(q, u)
  PROVE  MarkInv' /\ FitsInv'
<1>1. /\ TypeOK /\ UNCHANGED <<cloud, job, ledger, passed, unread>> /\ read \in [Reader -> Read]
      /\ row \in [User -> Row]
  BY DEF TypeInv, TypeOK, Refresh, RefreshFails, Fetch, db
<1>2. /\ \A x, at, s : Fits(x, at, s)' <=> Fits(x, at, s)
      /\ \A x : Grants(store[x])' <=> Grants(store[x])
      /\ \A x, at : (Current(x, at)' <=> Current(x, at)) /\ (Open(x, at)' <=> Open(x, at))
      /\ \A g, x : About(g, x)' <=> About(g, x)
      /\ \A j : EventTime(j)' = EventTime(j)
      /\ ReadTime' = ReadTime /\ log' = log /\ store' = store
  BY <1>1, SameCloud
<1>3. Known' = Known /\ Known \subseteq User /\ \A x \in User : Applied(x)' = Applied(x)
  BY <1>1 DEF Known, Applied
<1>4. /\ \A p \in Reader \ {q} : read'[p] = read[p]
      /\ \/ read'[q].pc # "store"
         \/ \E u \in User : read'[q].at = ReadTime /\ read'[q].user = u
                            /\ read'[q].state = GetPremium(u)
  <2>1. ASSUME NEW u \in User, Fetch(q, u)
        PROVE  read'[q].at = ReadTime /\ read'[q].user = u /\ read'[q].state = GetPremium(u)
               /\ \A p \in Reader \ {q} : read'[p] = read[p]
    BY <1>1, <2>1 DEF Fetch
  <2>2. ASSUME Refresh(q) \/ RefreshFails(q)
        PROVE  read'[q] = NoRead /\ \A p \in Reader \ {q} : read'[p] = read[p]
    BY <1>1, <2>2 DEF Refresh, RefreshFails
  <2> QED BY <2>1, <2>2, NoJobType
<1>5. /\ \/ row' = row
         \/ \E u \in User : /\ u = read[q].user /\ read[q].pc = "store"
                            /\ row'[u].active = read[q].state.active
                            /\ row'[u].expires = read[q].state.expires
                            /\ row'[u].at = read[q].at
                            /\ \A x \in User \ {u} : row'[x] = row[x]
  <2>1. CASE Refresh(q) /\ ~Outdated(q)
    <3>1. read[q].user \in User
      BY <2>1 DEF Refresh, TypeInv, Reads
    <3> QED BY <1>1, <2>1, <3>1 DEF Refresh
  <2> QED BY <2>1 DEF Refresh, RefreshFails, Fetch, db
<1>6. \A x \in User : row[x].at <= row'[x].at /\ row[x].at \in Nat /\ row'[x].at \in Nat
  <2>1. TypeInv'
    BY TypeRefresh
  <2>2. \A x \in User : row[x].at \in Nat /\ row'[x].at \in Nat
    BY <1>1, <2>1, PremiumAssumption DEF TypeInv, TypeOK, Row
  <2> QED BY <2>2, StampRefresh
<1>7. MarkInv'
  <2>1. InTime'
    <3>1. \A x \in User : row'[x].at <= ReadTime
      BY <1>5 DEF MarkInv, InTime
    <3>2. \A p \in Reader : read'[p].pc = "store" => read'[p].at <= ReadTime
      <4>1. ReadTime \in Nat
        BY <1>1 DEF ReadTime, TypeOK
      <4> QED BY <1>4, <4>1 DEF MarkInv, InTime
    <3> QED BY <1>2, <3>1, <3>2 DEF InTime
  <2>2. Stamped'
    <3> SUFFICES ASSUME NEW x \in User, NEW j \in Applied(x) PROVE EventTime(j) <= row'[x].at
      BY <1>2, <1>3 DEF Stamped
    <3>1. EventTime(j) <= row[x].at /\ j \in Nat
      BY <1>1 DEF MarkInv, Stamped, Applied, TypeOK
    <3> QED BY <1>6, <3>1 DEF EventTime
  <2>3. Seen'
    <3> SUFFICES ASSUME NEW x \in Known, NEW j \in DOMAIN ledger, About(j, x)
                 PROVE  EventTime(j) <= row'[x].at
      BY <1>1, <1>2, <1>3 DEF Seen
    <3>1. EventTime(j) <= row[x].at /\ j \in Nat
      BY <1>1 DEF MarkInv, Seen, TypeOK
    <3> QED BY <1>3, <1>6, <3>1 DEF EventTime
  <2> QED BY <1>1, <2>1, <2>2, <2>3 DEF MarkInv, Asked
<1>8. ReadFits' /\ JobFits'
  <2>1. JobFits'
    BY <1>1, <1>2 DEF FitsInv, JobFits
  <2>2. ReadFits'
    BY <1>2, <1>4, AnswerFits DEF FitsInv, ReadFits
  <2> QED BY <2>1, <2>2
<1>9. ASSUME NEW x \in Known PROVE RowFit(x)'
  <2>1. CASE row'[x] = row[x]
    <3>1. x \in User /\ RowFit(x)
      BY <1>3 DEF FitsInv, RowFits
    <3> QED BY <1>1, <1>3, <2>1, <3>1, RowFitStays
  <2>2. CASE /\ x = read[q].user /\ read[q].pc = "store"
             /\ row'[x].active = read[q].state.active /\ row'[x].expires = read[q].state.expires
             /\ row'[x].at = read[q].at
    <3>1. Fits(x, read[q].at, read[q].state)
      BY <2>2 DEF FitsInv, ReadFits
    <3> QED BY <1>2, <2>2, <3>1 DEF Fits, RowFit
  <2> QED BY <1>3, <1>5, <2>1, <2>2
<1> QED
  BY <1>3, <1>7, <1>8, <1>9 DEF FitsInv, RowFits

LEMMA FitsCloud ==
  ASSUME TypeInv, MarkInv, FitsInv, Tick \/ OrderlyEmission
  PROVE  MarkInv' /\ FitsInv'
<1>1. /\ TypeOK /\ ReadTime \in Nat /\ ReadTime' \in Nat /\ ReadTime <= ReadTime'
      /\ UNCHANGED <<row, ledger, passed, unread, job, read>>
      /\ \A k \in 1 .. Len(log) : \A x : About(k, x)' <=> About(k, x)
      /\ \A x \in User, at \in Nat : at <= ReadTime /\ Grants(store[x])' =>
           /\ Current(x, at)' => Grants(store[x]) /\ Current(x, at) /\ store'[x] = store[x]
           /\ Open(x, at)' => /\ Grants(store[x]) /\ Open(x, at)
                              /\ \A g \in 1 .. Len(log) : Opens(g, x) => Opens(g, x)'
      /\ 1 .. Len(log) \subseteq 1 .. Len(log')
      /\ \A k \in 1 .. Len(log) : Upkeep(k)' <=> Upkeep(k)
  BY CloudStep DEF TypeInv
<1>2. /\ Known' = Known /\ Known \subseteq User /\ \A x \in User : Applied(x)' = Applied(x)
      /\ \A k : EventTime(k)' = EventTime(k)
      /\ DOMAIN ledger \subseteq 1 .. Len(log)
      /\ \A x \in User : Applied(x) \subseteq 1 .. Len(log)
  BY <1>1 DEF Known, Applied, EventTime, TypeOK
<1>3. /\ \A x \in User : row[x].at \in Nat
      /\ \A q \in Reader : read[q].at \in Nat
  BY <1>1, RowType, PremiumAssumption DEF TypeOK, Read
<1>4. MarkInv'
  <2>1. InTime'
    BY <1>1, <1>3 DEF MarkInv, InTime
  <2>2. Stamped'
    BY <1>1, <1>2 DEF MarkInv, Stamped
  <2>3. Seen'
    BY <1>1, <1>2 DEF MarkInv, Seen
  <2> QED BY <1>1, <2>1, <2>2, <2>3 DEF MarkInv, Asked
<1>5. \A x \in User, at \in Nat : \A s : at <= ReadTime /\ Fits(x, at, s) => Fits(x, at, s)'
  BY <1>1 DEF Fits
<1>6. ReadFits'
  <2> SUFFICES ASSUME NEW q \in Reader, read[q].pc = "store"
               PROVE  Fits(read[q].user, read[q].at, read[q].state)'
    BY <1>1 DEF ReadFits
  <2>1. read[q].user \in User /\ read[q].at <= ReadTime
        /\ Fits(read[q].user, read[q].at, read[q].state)
    BY DEF TypeInv, Reads, MarkInv, InTime, FitsInv, ReadFits
  <2>2. PICK x \in User, at \in Nat : x = read[q].user /\ at = read[q].at
    BY <1>3, <2>1
  <2>s. PICK s : s = read[q].state
    OBVIOUS
  <2>3. Fits(x, at, s)'
    BY <1>5, <2>1, <2>2, <2>s
  <2> QED BY <1>1, <2>2, <2>3, <2>s
<1>7. JobFits'
  <2> SUFFICES ASSUME NEW w \in Worker, NEW u \in job[w].locked, job[w].said[u].got = "state"
               PROVE  Fits(u, EventTime(job[w].event), job[w].said[u].state)'
    BY <1>1 DEF JobFits
  <2>1. job[w].pc # "idle" /\ job[w] \in Job
    BY <1>1 DEF TypeInv, Jobs, NoJob, TypeOK
  <2>2. u \in User /\ job[w].event \in 1 .. Len(log)
    BY <2>1 DEF TypeInv, Jobs, Job
  <2>3. EventTime(job[w].event) \in Nat /\ EventTime(job[w].event) <= ReadTime
    BY <1>1, <2>2 DEF EventTime, ReadTime, TypeOK
  <2>4. Fits(u, EventTime(job[w].event), job[w].said[u].state)
    BY DEF FitsInv, JobFits
  <2>5. PICK x \in User, at \in Nat : x = u /\ at = EventTime(job[w].event)
    BY <2>2, <2>3
  <2>s. PICK s : s = job[w].said[u].state
    OBVIOUS
  <2>6. Fits(x, at, s)'
    BY <1>5, <2>3, <2>4, <2>5, <2>s
  <2> QED BY <1>1, <1>2, <2>5, <2>6, <2>s
<1>8. ASSUME NEW x \in Known PROVE RowFit(x)'
  <2>1. RowFit(x) /\ x \in User /\ row[x].at \in Nat /\ row[x].at <= ReadTime
    BY <1>2, <1>3 DEF FitsInv, RowFits, MarkInv, InTime
  <2>2. PICK at \in Nat : at = row[x].at
    BY <2>1
  <2> SUFFICES ASSUME Grants(store[x])'
               PROVE  /\ Current(x, at)' => row[x].expires = store'[x].expires
                      /\ Open(x, at)' => row[x].active \/ Awaited(x)'
    BY <1>1, <2>2 DEF RowFit
  <2>3. ASSUME Current(x, at)' PROVE row[x].expires = store'[x].expires
    BY <1>1, <2>1, <2>2, <2>3 DEF RowFit
  <2>4. ASSUME Open(x, at)', ~row[x].active PROVE Awaited(x)'
    <3>1. /\ Awaited(x)
          /\ \A g \in 1 .. Len(log) : Opens(g, x) => Opens(g, x)'
      BY <1>1, <2>1, <2>2, <2>4 DEF RowFit
    <3>2. PICK g \in 1 .. Len(log) \ DOMAIN ledger, j \in Applied(x) :
            Opens(g, x) /\ EventTime(j) = row[x].at /\ Upkeep(j) /\ row[x].expires # Never
      BY <3>1 DEF Awaited
    <3>3. g \in 1 .. Len(log') \ DOMAIN ledger' /\ j \in Applied(x)'
      BY <1>1, <1>2, <2>1, <3>2
    <3>4. Opens(g, x)' /\ EventTime(j)' = row'[x].at /\ Upkeep(j)' /\ row'[x].expires # Never
      BY <1>1, <1>2, <2>1, <3>1, <3>2
    <3> QED BY <3>3, <3>4 DEF Awaited
  <2> QED BY <2>3, <2>4
<1> QED
  BY <1>2, <1>4, <1>6, <1>7, <1>8 DEF FitsInv, RowFits

LEMMA FitsStep ==
  ASSUME TypeInv, LockInv, LogInv, ToldInv, MarkInv, FitsInv, [Next]_vars
  PROVE  MarkInv' /\ FitsInv'
<1>1. CASE RevenueCat
  BY <1>1, RevenueCatIsOrderly, FitsCloud DEF TypeInv
<1>2. CASE Webhook
  <2>1. ASSUME NEW w \in Worker, Rollback(w) PROVE MarkInv' /\ FitsInv'
    <3>1. job' = [job EXCEPT ![w] = NoJob] /\ UNCHANGED <<cloud, db, read>>
          /\ NoJob.locked = {}
      BY <2>1 DEF Rollback, NoJob
    <3> QED BY <3>1, FitsOwn
  <2> QED BY <1>2, <2>1, FitsApply, FitsTake, FitsAsk, FitsTransfer DEF Webhook
<1>3. CASE \E q \in Reader : Refresh(q) \/ RefreshFails(q) \/ \E u \in User : Fetch(q, u)
  BY <1>3, FitsRefresh
<1>4. CASE UNCHANGED vars
  <2>1. UNCHANGED <<cloud, row, ledger, passed, unread, job, read>>
    BY <1>4 DEF vars, db
  <2>2. \A x, at, s : Fits(x, at, s)' <=> Fits(x, at, s)
    BY <2>1, SameCloud
  <2>3. ReadFits' /\ JobFits'
    BY <2>1, <2>2 DEF FitsInv, ReadFits, JobFits, EventTime
  <2>4. RowFits' /\ MarkInv'
    BY <2>1 DEF cloud, FitsInv, RowFits, RowFit, Known, Current, Open, Awaited, Applied, Opens,
                Opening, About, Upkeep, EventTime, Grants, Past, MarkInv, InTime, Stamped, Seen,
                Asked, ReadTime
  <2> QED BY <2>3, <2>4 DEF FitsInv
<1> QED
  BY <1>1, <1>2, <1>3, <1>4 DEF Next

\* When every event was delivered, the row is RevenueCat's.
LEMMA SettledAgrees ==
  ASSUME TypeOK, LogInv, OwedInv, ToldInv, MarkInv, FitsInv, Settled, NEW u \in Known
  PROVE  Agrees(u)
<1>1. DOMAIN ledger = 1 .. Len(log) /\ u \in User /\ row[u].at \in Nat
  BY RowType DEF Settled, Known
<1>2. Current(u, row[u].at)
  BY <1>1 DEF MarkInv, Seen, Current
<1>3. ASSUME Grants(row[u]) PROVE store[u] = Entitled(row[u].expires)
  <2>1. HeldSince(u, row[u].at, row[u].expires)
    BY <1>1, <1>3 DEF OwedInv, RowOwed, Owed, Since, Grants
  <2>2. PICK k \in 1 .. Len(log) :
          row[u].at <= EventTime(k) + 1 /\ log[k].held[u] = Entitled(row[u].expires)
    BY <2>1 DEF HeldSince
  <2>3. \A j \in 1 .. Len(log) : j > k => ~About(j, u)
    BY <1>1, <1>2, <2>2 DEF Current, EventTime
  <2> QED BY <1>1, <2>2, <2>3 DEF ToldInv, Steady
<1>4. ASSUME Grants(store[u]) PROVE Grants(row[u])
  <2>1. row[u].expires = store[u].expires /\ RowFit(u)
    BY <1>2, <1>4 DEF FitsInv, RowFits, RowFit
  <2>2. Open(u, row[u].at)
    BY <1>1, <1>2 DEF Current, Open, EventTime
  <2>3. ~Awaited(u)
    BY <1>1 DEF Awaited
  <2> QED BY <1>4, <2>1, <2>2, <2>3 DEF RowFit, Grants
<1>5. Grants(row[u]) => Grants(store[u]) /\ row[u].expires = store[u].expires
  BY <1>3 DEF Entitled, Grants
<1> QED
  BY <1>4, <1>5 DEF Agrees

\* Once every event was delivered, in whatever order and however often, and with
\* refreshes in between, the user is Premium exactly as RevenueCat has it (but for
\* a new owner a transfer gave nothing).
THEOREM PremiumConverges == Spec => []Converges
<1> DEFINE Inv == TypeInv /\ LockInv /\ LogInv /\ OwedInv /\ ToldInv /\ MarkInv /\ FitsInv
<1>1. Inv => Converges
  BY SettledAgrees DEF Converges, Known, TypeInv
<1>2. Init => Inv
  BY TypeInit, LockInit, LogInit, OwedInit, ToldInit, MarkInit
<1>3. Inv /\ [Next]_vars => Inv'
  BY TypeStep, StampStep, LogStep, OwedStep, ToldStep, FitsStep DEF TypeInv
<1> QED
  BY <1>1, <1>2, <1>3, PTL DEF Spec
=============================================================================
