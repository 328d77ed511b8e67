------------------------- MODULE PushDeliveryProofs -------------------------
(***************************************************************************)
(* Proofs about PushDelivery, for any number of notifications, devices and *)
(* workers: the types hold, a status never lies about what was pushed, and *)
(* the runs implement PushPromise.                                         *)
(***************************************************************************)
EXTENDS PushDelivery, TLAPS

Got(n) == \E t \in Token : pushed[<<n, t>>] > 0

-----------------------------------------------------------------------------
(* The inductive invariant.  What one run holds: rows it selected are still *)
(* pending, rows it claimed are not, what it has yet to send was never      *)
(* pushed, and it knows of every claimed row a device may have got.         *)

RunInv(w) ==
  LET r == run[w] IN
  /\ r.pc \in {"idle", "expire", "select", "claim"} =>
       r.claimed = {} /\ r.targets = {} /\ r.delivered = {} /\ r.retry = {}
  /\ r.pc \notin {"select", "claim"} => r.due = {}
  /\ r.pc # "claim" => r.batch = {}
  /\ r.pc # "record" => r.oks = {}
  /\ r.pc # "finish" => r.unknown = {}
  /\ \A n \in r.batch : status[n] = "pending"
  /\ \A n \in r.claimed : /\ status[n] \in {"sending", "failed", "sent", "gone"}
                          /\ Got(n) => n \in r.delivered \cup Names(r.oks) \cup r.unknown
  /\ \A m \in r.targets : m[1] \in r.claimed /\ pushed[m] = 0
  /\ \A m \in r.oks : m[1] \in r.claimed /\ pushed[m] > 0

\* No two runs lock, or claim, the same row.
Apart == \A v, w \in Worker : v # w => /\ Locked(v) \cap Locked(w) = {}
                                       /\ run[v].claimed \cap run[w].claimed = {}

Inv == TypeOK /\ StatusIsTrue /\ Apart /\ \A w \in Worker : RunInv(w)

LEMMA FreshTyped ==
  ASSUME NEW pc \in {"idle", "expire"}, NEW cutoff \in 0 .. Last
  PROVE  Fresh(pc, cutoff) \in RunRow
BY DEF Fresh, RunRow

LEMMA InitInv == Init => Inv
<1> SUFFICES ASSUME Init PROVE Inv
  OBVIOUS
<1> USE PushAssumption DEF Init
<1>1. TypeOK
  BY FreshTyped DEF TypeOK, Status
<1>2. StatusIsTrue
  <2>1. \A n \in Notification : status[n] = "pending" /\ ~Got(n)
    <3>1. \A n \in Notification, t \in Token : pushed[<<n, t>>] = 0
      BY DEF Message
    <3>2. \A n \in Notification : ~Got(n)
      <4> SUFFICES ASSUME NEW n \in Notification, NEW t \in Token, pushed[<<n, t>>] > 0
                   PROVE  FALSE
        BY DEF Got
      <4>1. pushed[<<n, t>>] = 0
        BY <3>1
      <4> QED
        BY ONLY <4>1, pushed[<<n, t>>] > 0
    <3> QED
      BY <3>2
  <2> QED
    BY <2>1 DEF StatusIsTrue, Got
<1>3. Apart
  BY DEF Apart, Fresh, Locked
<1>4. \A w \in Worker : RunInv(w)
  BY DEF RunInv, Fresh
<1> QED
  BY <1>1, <1>2, <1>3, <1>4 DEF Inv

-----------------------------------------------------------------------------
(* Steps that write no row and push nothing: the others' runs are as they   *)
(* were, so that only the run that moves needs a look.                      *)

LEMMA RunMoves ==
  ASSUME Inv, NEW w \in Worker, NEW row \in RunRow, run' = [run EXCEPT ![w] = row],
         UNCHANGED <<status, owner, account, old, pushed, moves>>,
         crashes' \in 0 .. MaxCrashes, RunInv(w)',
         row.claimed \subseteq run[w].claimed,
         \A v \in Worker \ {w} : (row.due \cup row.batch) \cap Locked(v) = {}
  PROVE  Inv'
<1>1. TypeOK' /\ StatusIsTrue'
  BY DEF Inv, TypeOK, StatusIsTrue
<1>2. run'[w] = row /\ \A v \in Worker \ {w} : run'[v] = run[v]
  BY DEF Inv, TypeOK
<1>3. Apart'
  BY <1>2 DEF Inv, Apart, Locked
<1>4. ASSUME NEW v \in Worker \ {w} PROVE RunInv(v)'
  BY <1>2, <1>4 DEF Inv, RunInv, Got
<1> QED
  BY <1>1, <1>3, <1>4 DEF Inv

LEMMA StartInv == ASSUME Inv, NEW w \in Worker, Start(w) PROVE Inv'
<1>1. Fresh("expire", old) \in RunRow
  BY FreshTyped DEF Inv, TypeOK
<1>2. RunInv(w)'
  BY DEF Inv, TypeOK, Start, RunInv, Fresh
<1> QED
  BY <1>1, <1>2, RunMoves DEF Start, Fresh, Inv, TypeOK

LEMMA CrashInv == ASSUME Inv, NEW w \in Worker, Crash(w) PROVE Inv'
<1>1. Fresh("idle", 0) \in RunRow
  BY FreshTyped, PushAssumption
<1>2. RunInv(w)'
  BY DEF Inv, TypeOK, Crash, RunInv, Fresh
<1>3. crashes' \in 0 .. MaxCrashes
  BY PushAssumption DEF Crash, Inv, TypeOK
<1> QED
  BY <1>1, <1>2, <1>3, RunMoves DEF Crash, Fresh

LEMMA ExpireInv == ASSUME Inv, NEW w \in Worker, Expire(w) PROVE Inv'
<1> DEFINE row == [run[w] EXCEPT !.pc = "select", !.due = Stale(w)]
<1>1. run' = [run EXCEPT ![w] = row] /\ run[w] \in RunRow /\ RunInv(w) /\ run[w].pc = "expire"
  BY DEF Inv, TypeOK, Expire
<1>2. row \in RunRow
  BY <1>1 DEF RunRow, Stale
<1>3. run'[w] = row
  BY <1>1 DEF Inv, TypeOK
<1>4. RunInv(w)'
  BY <1>1, <1>3 DEF RunInv, RunRow, Expire
<1>5. \A v \in Worker \ {w} : (row.due \cup row.batch) \cap Locked(v) = {}
  BY <1>1 DEF RunInv, RunRow, Expire, Free
<1> QED
  BY <1>1, <1>2, <1>4, <1>5, RunMoves DEF Expire, RunRow, Inv, TypeOK

LEMMA SelectInv == ASSUME Inv, NEW w \in Worker, Select(w) PROVE Inv'
<1> DEFINE rows == {n \in Notification : n > run[w].cutoff /\ status[n] = "pending"} \ SkipLocked(w)
           batch == Oldest(rows, BATCH_SIZE)
           row == [run[w] EXCEPT !.pc = "claim", !.batch = batch]
<1>1. run' = [run EXCEPT ![w] = row] /\ run[w] \in RunRow /\ RunInv(w) /\ run[w].pc = "select"
  BY DEF Inv, TypeOK, Select
<1>2. batch \subseteq rows
  BY DEF Oldest
<1>3. row \in RunRow
  BY <1>1, <1>2 DEF RunRow
<1>4. run'[w] = row
  BY <1>1 DEF Inv, TypeOK
<1>5. RunInv(w)'
  BY <1>1, <1>2, <1>4 DEF RunInv, RunRow, Select
<1>6. \A v \in Worker \ {w} : (row.due \cup row.batch) \cap Locked(v) = {}
  <2> TAKE v \in Worker \ {w}
  <2>1. run[w].due \cap Locked(v) = {}
    BY DEF Inv, Apart, Locked
  <2>2. batch \cap Locked(v) = {}
    BY <1>2 DEF SkipLocked
  <2> QED
    BY <1>1, <2>1, <2>2 DEF RunRow
<1> QED
  BY <1>1, <1>3, <1>5, <1>6, RunMoves DEF Select, RunRow, Inv, TypeOK

\* A claim: the rows it marks were pending, so no other run has them.
LEMMA ClaimInv == ASSUME Inv, NEW w \in Worker, Claim(w) PROVE Inv'
<1> DEFINE claimed == {n \in run[w].batch : Devices(n) # {}}
           row == [run[w] EXCEPT !.pc = "send", !.due = {}, !.batch = {}, !.claimed = claimed,
                     !.targets = {m \in claimed \X Token : m[2] \in Devices(m[1])}]
<1>1. /\ run' = [run EXCEPT ![w] = row] /\ run[w] \in RunRow /\ RunInv(w) /\ run[w].pc = "claim"
      /\ UNCHANGED <<owner, account, old, pushed, crashes, moves>>
  BY DEF Inv, TypeOK, Claim
<1>2. row \in RunRow
  BY <1>1 DEF RunRow, Message
<1>3. run'[w] = row /\ \A v \in Worker \ {w} : run'[v] = run[v]
  BY <1>1 DEF Inv, TypeOK
<1>4. \A n \in Notification : status'[n] =
        IF n \in claimed THEN "sending" ELSE IF n \in run[w].batch THEN "no_device"
        ELSE IF n \in run[w].due THEN IF status[n] = "pending" THEN "expired" ELSE "failed"
        ELSE status[n]
  BY DEF Claim
<1>5. status' \in [Notification -> Status]
  BY DEF Claim, Inv, TypeOK, Status
<1>6. TypeOK'
  BY <1>1, <1>2, <1>5 DEF Inv, TypeOK
<1>7. \A n \in run[w].batch : status[n] = "pending" /\ ~Got(n)
  BY <1>1 DEF RunInv, RunRow, Inv, StatusIsTrue, Got
<1>8. StatusIsTrue'
  <2>1. ASSUME NEW n \in Notification
        PROVE  /\ status'[n] \in {"pending", "no_device", "expired"} => ~Got(n)
               /\ status'[n] = "sent" => Got(n)
    BY <1>4, <1>7 DEF Inv, StatusIsTrue, Got
  <2> QED
    BY <1>1, <2>1 DEF StatusIsTrue, Got
<1>9. Apart'
  <2>1. \A v \in Worker \ {w} : claimed \cap run[v].claimed = {}
    BY <1>7 DEF Inv, RunInv
  <2>2. row.due = {} /\ row.batch = {} /\ row.claimed = claimed
    BY <1>1 DEF RunRow
  <2>3. Locked(w)' = {} /\ \A v \in Worker \ {w} : Locked(v)' = Locked(v)
    BY <1>3, <2>2 DEF Locked
  <2>4. ASSUME NEW v \in Worker, NEW u \in Worker, v # u
        PROVE  Locked(v)' \cap Locked(u)' = {} /\ run'[v].claimed \cap run'[u].claimed = {}
    <3>1. CASE v = w
      BY <1>3, <2>1, <2>2, <2>3, <2>4, <3>1
    <3>2. CASE u = w
      BY <1>3, <2>1, <2>2, <2>3, <2>4, <3>2
    <3>3. CASE v # w /\ u # w
      BY <1>3, <2>3, <2>4, <3>3 DEF Inv, Apart
    <3> QED
      BY <3>1, <3>2, <3>3
  <2> QED
    BY <2>4 DEF Apart
<1>10. RunInv(w)'
  <2>1. /\ row.pc = "send" /\ row.due = {} /\ row.batch = {} /\ row.claimed = claimed
        /\ row.oks = {} /\ row.unknown = {}
        /\ row.targets = {m \in claimed \X Token : m[2] \in Devices(m[1])}
    BY <1>1 DEF RunInv, RunRow
  <2>2. \A n \in claimed : status'[n] = "sending" /\ ~Got(n)'
    BY <1>1, <1>4, <1>7 DEF RunRow, Got
  <2>3. \A m \in row.targets : m[1] \in claimed /\ pushed'[m] = 0
    <3> TAKE m \in row.targets
    <3>1. m = <<m[1], m[2]>> /\ m[1] \in claimed /\ m[2] \in Token
      BY <2>1
    <3>2. m \in Message /\ ~(pushed[m] > 0)
      BY <1>1, <1>7, <3>1 DEF Got, Message, RunRow
    <3> QED
      BY <1>1, <3>1, <3>2 DEF Inv, TypeOK
  <2> QED
    BY <1>3, <2>1, <2>2, <2>3 DEF RunInv
<1>11. ASSUME NEW v \in Worker \ {w} PROVE RunInv(v)'
  <2>1. \A n \in run[v].batch : status'[n] = "pending"
    BY <1>1, <1>4 DEF Inv, TypeOK, RunInv, Apart, Locked, RunRow
  <2>2. \A n \in run[v].claimed : status'[n] \in {"sending", "failed", "sent", "gone"}
    BY <1>4, <1>7 DEF Inv, TypeOK, RunInv, RunRow
  <2> QED
    BY <1>1, <1>3, <2>1, <2>2 DEF Inv, RunInv, Got
<1> QED
  BY <1>6, <1>8, <1>9, <1>10, <1>11 DEF Inv

-----------------------------------------------------------------------------
(* A request leaves with messages no device has got, all of claimed rows.   *)

LEMMA SendInv ==
  ASSUME Inv, NEW w \in Worker, NEW row \in RunRow, NEW got \in SUBSET run[w].targets,
         run[w].pc = "send", run' = [run EXCEPT ![w] = row], pushed' = Count(got),
         UNCHANGED <<status, owner, account, old, crashes, moves>>,
         row.pc \in {"record", "finish"}, row.targets \subseteq run[w].targets \ got,
         row.claimed = run[w].claimed, row.delivered = run[w].delivered,
         row.due = {}, row.batch = {},
         row.oks \subseteq got, row.pc # "record" => row.oks = {},
         row.pc # "finish" => row.unknown = {},
         Names(got) \subseteq Names(row.oks) \cup row.unknown
  PROVE  Inv'
<1>1. run[w] \in RunRow /\ RunInv(w) /\ TypeOK
  BY DEF Inv, TypeOK
<1>2. run'[w] = row /\ \A v \in Worker \ {w} : run'[v] = run[v]
  BY <1>1 DEF TypeOK
<1>3. \A m \in Message : /\ pushed[m] \in Nat
                         /\ pushed'[m] = pushed[m] + IF m \in got THEN 1 ELSE 0
  BY <1>1 DEF TypeOK, Count
<1>4. got \subseteq Message /\ \A m \in got : m[1] \in run[w].claimed /\ pushed'[m] > 0
  BY <1>1, <1>3 DEF RunInv, RunRow
<1>5. TypeOK'
  <2>1. pushed' \in [Message -> Nat]
    BY <1>3 DEF Count
  <2> QED
    BY <1>1, <2>1 DEF TypeOK
<1>6. \A n \in Notification : n \notin run[w].claimed => Got(n)' = Got(n)
  <2> TAKE n \in Notification
  <2> HAVE n \notin run[w].claimed
  <2>1. \A t \in Token : pushed'[<<n, t>>] = pushed[<<n, t>>]
    BY <1>3, <1>4 DEF Message
  <2> QED
    BY <2>1 DEF Got
<1>7. \A n \in Notification : Got(n) => Got(n)'
  BY <1>3 DEF Got, Message
<1>8. StatusIsTrue'
  <2>1. ASSUME NEW n \in Notification
        PROVE  /\ status[n] \in {"pending", "no_device", "expired"} => ~Got(n)'
               /\ status[n] = "sent" => Got(n)'
    BY <1>1, <1>6, <1>7 DEF Inv, RunInv, StatusIsTrue, Got
  <2> QED
    BY <2>1 DEF StatusIsTrue, Got
<1>9. Apart'
  BY <1>2 DEF Inv, Apart, Locked
<1>10. RunInv(w)'
  <2>1. \A n \in run[w].claimed : Got(n)' => n \in row.delivered \cup Names(row.oks) \cup row.unknown
    <3> TAKE n \in run[w].claimed
    <3> HAVE Got(n)'
    <3>1. PICK t \in Token : pushed'[<<n, t>>] > 0
      BY DEF Got
    <3>2. n \in Notification /\ <<n, t>> \in Message
      BY <1>1 DEF RunRow, Message
    <3>3. CASE <<n, t>> \in got
      <4>1. n \in Names(got)
        BY <3>3 DEF Names
      <4> QED
        BY <4>1
    <3>4. CASE <<n, t>> \notin got
      <4>1. pushed[<<n, t>>] > 0
        BY <1>3, <3>1, <3>2, <3>4
      <4>2. Got(n)
        BY <4>1 DEF Got
      <4>3. n \in run[w].delivered
        BY <1>1, <4>2 DEF RunInv, Names
      <4> QED
        BY <4>3
    <3> QED
      BY <3>3, <3>4
  <2>2. \A m \in row.targets : m[1] \in row.claimed /\ pushed'[m] = 0
    BY <1>1, <1>3 DEF RunInv, RunRow
  <2>3. \A m \in row.oks : m[1] \in row.claimed /\ pushed'[m] > 0
    BY <1>4
  <2> QED
    BY <1>1, <1>2, <2>1, <2>2, <2>3 DEF RunInv
<1>11. ASSUME NEW v \in Worker \ {w} PROVE RunInv(v)'
  <2>1. \A n \in run[v].claimed : n \in Notification /\ n \notin run[w].claimed
    BY <1>1, <1>11 DEF Inv, TypeOK, RunRow, Apart
  <2>2. RunInv(v) /\ run[v] \in RunRow /\ run'[v] = run[v]
    BY <1>1, <1>2 DEF Inv, TypeOK
  <2>3. \A m \in Message : m[1] \in run[v].claimed => pushed'[m] = pushed[m]
    BY <1>3, <1>4, <2>1
  <2> QED
    BY <1>6, <2>1, <2>2, <2>3 DEF RunInv, RunRow
<1> QED
  BY <1>5, <1>8, <1>9, <1>10, <1>11 DEF Inv

LEMMA AnsweredInv == ASSUME Inv, NEW w \in Worker, Answered(w) PROVE Inv'
<1>1. PICK c, oks, dead :
        /\ c \in Chunks(w)
        /\ oks \subseteq c /\ dead \subseteq c
        /\ pushed' = Count(oks)
        /\ run' = [run EXCEPT ![w].pc = "record", ![w].targets = @ \ c, ![w].oks = oks,
                              ![w].dead = {m[2] : m \in dead}]
  BY DEF Answered
<1> DEFINE row == [run[w] EXCEPT !.pc = "record", !.targets = @ \ c, !.oks = oks,
                                 !.dead = {m[2] : m \in dead}]
<1>3. run[w] \in RunRow /\ RunInv(w) /\ run[w].pc = "send" /\ c \subseteq run[w].targets
  BY <1>1 DEF Inv, TypeOK, Answered, Chunks
<1>4. {m[2] : m \in dead} \subseteq Token /\ oks \subseteq Message
  BY <1>1, <1>3 DEF RunRow, Message
<1>5. row \in RunRow
  BY <1>3, <1>4 DEF RunRow
<1>6. /\ row.pc = "record" /\ row.targets = run[w].targets \ c /\ row.oks = oks
      /\ row.claimed = run[w].claimed /\ row.delivered = run[w].delivered
      /\ row.due = {} /\ row.batch = {} /\ row.unknown = {}
  BY <1>3 DEF RunRow, RunInv
<1> HIDE DEF row
<1>7. run' = [run EXCEPT ![w] = row]
  BY <1>1 DEF row
<1> QED
  BY <1>1, <1>3, <1>5, <1>6, <1>7, SendInv DEF Answered

LEMMA RejectedInv == ASSUME Inv, NEW w \in Worker, Rejected(w) PROVE Inv'
<1> DEFINE row == [run[w] EXCEPT !.pc = "finish", !.targets = {}, !.retry = Names(run[w].targets)]
<1>1. run[w] \in RunRow /\ RunInv(w) /\ run[w].pc = "send" /\ run' = [run EXCEPT ![w] = row]
  BY DEF Inv, TypeOK, Rejected
<1>2. Names(run[w].targets) \subseteq Notification
  BY <1>1 DEF RunRow, Names, Message
<1>3. row \in RunRow
  BY <1>1, <1>2 DEF RunRow
<1>4. /\ row.pc = "finish" /\ row.targets = {} /\ row.oks = {} /\ row.unknown = {}
      /\ row.claimed = run[w].claimed /\ row.delivered = run[w].delivered
      /\ row.due = {} /\ row.batch = {}
  BY <1>1 DEF RunRow, RunInv
<1>5. pushed' = Count({})
  BY DEF Rejected, Count, Inv, TypeOK
<1>6. Names({}) = {}
  BY DEF Names
<1> HIDE DEF row
<1> QED
  BY <1>1, <1>3, <1>4, <1>5, <1>6, SendInv DEF Rejected

LEMMA LostInv == ASSUME Inv, NEW w \in Worker, Lost(w) PROVE Inv'
<1>1. PICK c, taken :
        /\ c \in Chunks(w)
        /\ taken \subseteq c
        /\ pushed' = Count(taken)
        /\ run' = [run EXCEPT ![w].pc = "finish", ![w].targets = {}, ![w].unknown = Names(c),
                              ![w].retry = Names(run[w].targets \ c)]
  BY DEF Lost
<1> DEFINE row == [run[w] EXCEPT !.pc = "finish", !.targets = {}, !.unknown = Names(c),
                                 !.retry = Names(run[w].targets \ c)]
<1>2. run[w] \in RunRow /\ RunInv(w) /\ run[w].pc = "send" /\ c \subseteq run[w].targets
  BY <1>1 DEF Inv, TypeOK, Lost, Chunks
<1>3. Names(c) \subseteq Notification /\ Names(run[w].targets \ c) \subseteq Notification
  BY <1>2 DEF RunRow, Names, Message
<1>4. row \in RunRow
  BY <1>2, <1>3 DEF RunRow
<1>5. /\ row.pc = "finish" /\ row.targets = {} /\ row.oks = {} /\ row.unknown = Names(c)
      /\ row.claimed = run[w].claimed /\ row.delivered = run[w].delivered
      /\ row.due = {} /\ row.batch = {}
  BY <1>2 DEF RunRow, RunInv
<1>6. Names(taken) \subseteq Names(c)
  BY <1>1 DEF Names
<1> HIDE DEF row
<1>7. run' = [run EXCEPT ![w] = row]
  BY <1>1 DEF row
<1>8. /\ taken \in SUBSET run[w].targets /\ pushed' = Count(taken) /\ run[w].pc = "send"
      /\ UNCHANGED <<status, owner, account, old, crashes, moves>>
  BY <1>1, <1>2 DEF Lost
<1>9. Names(taken) \subseteq Names(row.oks) \cup row.unknown
  BY <1>5, <1>6
<1> QED
  BY <1>4, <1>5, <1>7, <1>8, <1>9, SendInv

-----------------------------------------------------------------------------
(* Recording and settling write only rows the run has claimed.              *)

LEMMA WriteInv ==
  ASSUME Inv, NEW w \in Worker, NEW row \in RunRow, NEW rows \in SUBSET run[w].claimed,
         run' = [run EXCEPT ![w] = row],
         UNCHANGED <<account, old, pushed, crashes, moves>>,
         owner' \in [Token -> User \cup {NoUser}],
         status' \in [Notification -> Status], Free(w, rows),
         \A n \in Notification \ rows : status'[n] = status[n],
         \A n \in rows : /\ status'[n] \in {"pending", "sent", "failed", "gone"}
                         /\ status'[n] = "sent" => Got(n)
                         /\ status'[n] = "pending" => ~Got(n) /\ row.claimed = {},
         row.due = {}, row.batch = {}, row.claimed \in {run[w].claimed, {}},
         RunInv(w)'
  PROVE  Inv'
<1>1. run[w] \in RunRow /\ RunInv(w) /\ TypeOK
  BY DEF Inv, TypeOK
<1>2. run'[w] = row /\ \A v \in Worker \ {w} : run'[v] = run[v]
  BY <1>1 DEF TypeOK
<1>3. TypeOK'
  BY <1>1 DEF TypeOK
<1>4. StatusIsTrue'
  <2>1. ASSUME NEW n \in Notification
        PROVE  /\ status'[n] \in {"pending", "no_device", "expired"} => ~Got(n)
               /\ status'[n] = "sent" => Got(n)
    BY DEF Inv, StatusIsTrue, Got
  <2> QED
    BY <2>1 DEF StatusIsTrue, Got
<1>5. Apart'
  <2>1. Locked(w)' = {} /\ \A v \in Worker \ {w} : Locked(v)' = Locked(v)
    BY <1>2 DEF Locked
  <2> QED
    BY <1>2, <2>1 DEF Inv, Apart
<1>6. ASSUME NEW v \in Worker \ {w} PROVE RunInv(v)'
  <2>1. run[v] \in RunRow /\ RunInv(v) /\ run'[v] = run[v]
    BY <1>1, <1>2 DEF Inv, TypeOK
  <2>2. \A n \in run[v].batch \cup run[v].claimed : n \in Notification \ rows
    BY <1>1, <2>1 DEF Inv, Apart, Free, Locked, RunRow
  <2>3. \A n \in run[v].batch \cup run[v].claimed : status'[n] = status[n]
    BY <2>2
  <2> QED
    BY ONLY <2>1, <2>3, UNCHANGED pushed DEF RunInv, Got
<1> QED
  BY <1>3, <1>4, <1>5, <1>6 DEF Inv

LEMMA RecordInv == ASSUME Inv, NEW w \in Worker, Record(w) PROVE Inv'
<1> DEFINE rows == Names(run[w].oks)
           row == [run[w] EXCEPT !.pc = "send", !.oks = {}, !.dead = {},
                                 !.delivered = @ \cup rows]
<1>1. run[w] \in RunRow /\ RunInv(w) /\ run[w].pc = "record" /\ run' = [run EXCEPT ![w] = row]
  BY DEF Inv, TypeOK, Record
<1>2. rows \subseteq run[w].claimed /\ \A n \in rows : n \in Notification /\ Got(n)
  <2>1. ASSUME NEW m \in run[w].oks
        PROVE  m[1] \in run[w].claimed /\ m[1] \in Notification /\ Got(m[1])
    <3>1. m \in Message /\ m = <<m[1], m[2]>> /\ m[2] \in Token /\ m[1] \in Notification
      BY <1>1 DEF RunRow, Message
    <3>2. m[1] \in run[w].claimed /\ pushed[m] > 0
      BY <1>1 DEF RunInv
    <3> QED
      BY <3>1, <3>2 DEF Got
  <2> QED
    BY <2>1 DEF Names
<1>3. row \in RunRow
  BY <1>1, <1>2 DEF RunRow
<1>4. status' \in [Notification -> Status]
  BY DEF Record, Settled, Inv, TypeOK, Status
<1>5. /\ \A n \in Notification \ rows : status'[n] = status[n]
      /\ \A n \in rows : status'[n] \in {"sent", "gone"}
  BY <1>2 DEF Record, Settled
<1>6. owner' \in [Token -> User \cup {NoUser}]
  BY DEF Record, Inv, TypeOK
<1>7. /\ row.pc = "send" /\ row.due = {} /\ row.batch = {} /\ row.oks = {} /\ row.unknown = {}
      /\ row.claimed = run[w].claimed /\ row.targets = run[w].targets
      /\ row.delivered = run[w].delivered \cup rows
  BY <1>1 DEF RunRow, RunInv
<1>8. run'[w] = row
  BY <1>1 DEF Inv, TypeOK
<1> HIDE DEF row
<1>9. RunInv(w)'
  <2>1. \A n \in row.claimed : /\ status'[n] \in {"sending", "failed", "sent", "gone"}
                               /\ Got(n) => n \in row.delivered
    BY <1>1, <1>5, <1>7 DEF RunInv, RunRow
  <2>2. pushed' = pushed
    BY DEF Record
  <2>3. \A m \in row.targets : m[1] \in row.claimed /\ pushed[m] = 0
    BY <1>1, <1>7 DEF RunInv
  <2> QED
    BY <1>7, <1>8, <2>1, <2>2, <2>3 DEF RunInv, Got
<1>10. /\ UNCHANGED <<account, old, pushed, crashes, moves>> /\ Free(w, rows)
       /\ run' = [run EXCEPT ![w] = row]
  BY <1>1 DEF Record, row
<1> HIDE DEF rows
<1> QED
  BY <1>2, <1>3, <1>4, <1>5, <1>6, <1>7, <1>9, <1>10, WriteInv

LEMMA FinishInv == ASSUME Inv, NEW w \in Worker, Finish(w) PROVE Inv'
<1> DEFINE rows == run[w].claimed \ run[w].delivered
           row == Fresh("idle", 0)
<1>1. run[w] \in RunRow /\ RunInv(w) /\ run' = [run EXCEPT ![w] = row]
  BY DEF Inv, TypeOK, Finish
<1>2. row \in RunRow /\ row.due = {} /\ row.batch = {} /\ row.claimed = {}
  BY FreshTyped, PushAssumption DEF Fresh
<1>3. rows \subseteq Notification /\ rows \subseteq run[w].claimed
  BY <1>1 DEF RunRow
<1>4. \A n \in Notification : status'[n] =
        IF n \notin rows \/ status[n] = "gone" THEN status[n]
        ELSE IF n \in Retried(w) THEN "pending" ELSE "failed"
  BY DEF Finish
<1>5. status' \in [Notification -> Status]
  BY DEF Finish, Inv, TypeOK, Status
<1>6. \A n \in Retried(w) : ~Got(n)
  BY <1>1 DEF Retried, RunInv, Finish, Names
<1>7. \A n \in rows : /\ status'[n] \in {"pending", "sent", "failed", "gone"}
                      /\ status'[n] = "sent" => Got(n)
                      /\ status'[n] = "pending" => ~Got(n)
  BY <1>1, <1>3, <1>4, <1>6 DEF RunInv, Inv, StatusIsTrue, Got
<1>8. RunInv(w)'
  BY <1>1 DEF RunInv, Fresh, Inv, TypeOK
<1>9. /\ UNCHANGED <<account, old, pushed, crashes, moves>> /\ Free(w, rows)
      /\ owner' \in [Token -> User \cup {NoUser}]
  BY DEF Finish, Inv, TypeOK
<1> HIDE DEF row, rows
<1> QED
  BY <1>1, <1>2, <1>3, <1>4, <1>5, <1>7, <1>8, <1>9, WriteInv

\* What happens beside the runs leaves what they hold alone.
LEMMA BesideInv ==
  ASSUME Inv, Age \/ \E u \in User : DeleteAccount(u)
                                  \/ \E t \in Token : Register(u, t) \/ Unregister(u, t)
  PROVE  Inv'
<1>1. TypeOK'
  <2>1. CASE Age
    BY <2>1, PushAssumption DEF Inv, TypeOK, Age
  <2>2. ASSUME NEW u \in User, DeleteAccount(u) PROVE TypeOK'
    BY <2>2, PushAssumption DEF Inv, TypeOK, DeleteAccount, Moving, Status
  <2>3. ASSUME NEW u \in User, NEW t \in Token, Register(u, t) \/ Unregister(u, t) PROVE TypeOK'
    BY <2>3, PushAssumption DEF Inv, TypeOK, Register, Unregister, Moving
  <2> QED
    BY <2>1, <2>2, <2>3
<1>2. UNCHANGED <<run, pushed>>
  BY DEF Age, DeleteAccount, Register, Unregister
<1>3. \A n \in Notification : status'[n] \in {status[n], "gone"}
  BY DEF Age, DeleteAccount, Register, Unregister, Inv, TypeOK
<1>4. \A w \in Worker, n \in Notification : n \in Locked(w) => status'[n] = status[n]
  BY DEF Age, DeleteAccount, Register, Unregister, Inv, TypeOK, Unlocked
<1>5. StatusIsTrue'
  BY <1>2, <1>3 DEF Inv, StatusIsTrue
<1>6. Apart'
  BY <1>2 DEF Inv, Apart, Locked
<1>7. ASSUME NEW w \in Worker PROVE RunInv(w)'
  <2>1. run[w] \in RunRow /\ RunInv(w) /\ run'[w] = run[w]
    BY <1>2 DEF Inv, TypeOK
  <2>2. \A n \in run[w].batch : status'[n] = status[n]
    BY <1>4, <2>1 DEF Locked, RunRow
  <2>3. \A n \in run[w].claimed : status'[n] \in {status[n], "gone"}
    BY <1>3, <2>1 DEF RunRow
  <2> QED
    BY ONLY <1>2, <2>1, <2>2, <2>3 DEF RunInv, Got
<1> QED
  BY <1>1, <1>5, <1>6, <1>7 DEF Inv

LEMMA StutterInv == Inv /\ UNCHANGED vars => Inv'
<1> SUFFICES ASSUME Inv, UNCHANGED vars PROVE Inv'
  OBVIOUS
<1>1. TypeOK' /\ StatusIsTrue' /\ Apart'
  BY DEF Inv, vars, TypeOK, StatusIsTrue, Apart, Locked
<1>2. ASSUME NEW w \in Worker PROVE RunInv(w)'
  BY DEF Inv, vars, RunInv, Got
<1> QED
  BY <1>1, <1>2 DEF Inv

LEMMA NextInv == Inv /\ [Next]_vars => Inv'
<1> SUFFICES ASSUME Inv, [Next]_vars PROVE Inv'
  OBVIOUS
<1> QED
  BY StartInv, ExpireInv, SelectInv, ClaimInv, AnsweredInv, RejectedInv, LostInv, RecordInv,
     FinishInv, CrashInv, BesideInv, StutterInv DEF Next, Step

\* Rows and runs keep their types.
THEOREM TypesHold == Spec => []TypeOK
<1>1. Inv => TypeOK
  BY DEF Inv
<1> QED
  BY InitInv, NextInv, <1>1, PTL DEF Spec

\* A status never lies about what a device got, however many runs there are and
\* wherever they die (deliver_pending_pushes, _set_push_status).
THEOREM StatusNeverLies == Spec => []StatusIsTrue
<1>1. Inv => StatusIsTrue
  BY DEF Inv
<1> QED
  BY InitInv, NextInv, <1>1, PTL DEF Spec

-----------------------------------------------------------------------------
(* Runs implement PushPromise: each step moves each notification by one of  *)
(* the promise's moves.                                                     *)

Move(n) == \/ Promise!Take(n) \/ Promise!Push(n) \/ Promise!HandBack(n)
           \/ Promise!Settle(n) \/ Promise!Wait(n)

LEMMA PhaseIs ==
  ASSUME NEW n \in Notification
  PROVE  /\ Held(n) => Phase[n] = "out"
         /\ ~Held(n) /\ status[n] = "pending" => Phase[n] = "waiting"
         /\ ~Held(n) /\ status[n] # "pending" => Phase[n] = "over"
         /\ Held(n)' => Phase'[n] = "out"
         /\ ~Held(n)' /\ status'[n] = "pending" => Phase'[n] = "waiting"
         /\ ~Held(n)' /\ status'[n] # "pending" => Phase'[n] = "over"
BY DEF Phase

\* A step that pushes nothing.
LEMMA QuietMove ==
  ASSUME NEW n \in Notification, UNCHANGED pushed,
         \/ Held(n)' = Held(n) /\ (status'[n] = "pending") = (status[n] = "pending")
         \/ ~Held(n) /\ status[n] = "pending" /\ Held(n)'
         \/ ~Held(n)' /\ status'[n] # "pending"
         \/ Held(n) /\ ~Held(n)' /\ (status'[n] = "pending" => ~Got(n)),
         \A t \in Token : pushed[<<n, t>>] \in Nat
  PROVE  Move(n)
<1>1. Promise!Same(n)
  BY DEF Promise!Same
<1>2. ~Got(n) => Promise!Untouched(n)
  BY SMT DEF Promise!Untouched, Got
<1> QED
  BY <1>1, <1>2, PhaseIs
     DEF Move, Promise!Take, Promise!HandBack, Promise!Settle, Promise!Wait

\* A run's step moves only what the run holds before or after it.
LEMMA OthersHeld ==
  ASSUME NEW w \in Worker, NEW row, run \in [Worker -> RunRow],
         run' = [run EXCEPT ![w] = row], NEW n
  PROVE  /\ n \in row.claimed => Held(n)'
         /\ n \in run[w].claimed => Held(n)
         /\ n \notin run[w].claimed /\ n \notin row.claimed => Held(n)' = Held(n)
BY DEF Held

LEMMA RunKeepsPromise ==
  ASSUME Inv, Inv', NEW w \in Worker, Step(w) \/ Crash(w), NEW n \in Notification
  PROVE  Move(n)
<1>1. /\ run \in [Worker -> RunRow] /\ run[w] \in RunRow /\ RunInv(w)
      /\ status \in [Notification -> Status] /\ pushed \in [Message -> Nat]
  BY DEF Inv, TypeOK
<1>2. \A t \in Token : <<n, t>> \in Message /\ pushed[<<n, t>>] \in Nat
  BY <1>1 DEF Message
<1>3. ASSUME NEW v \in Worker, n \in run[v].claimed
      PROVE  Held(n) /\ status[n] # "pending"
  BY <1>3 DEF Inv, RunInv, Held
<1>4. CASE Start(w) \/ Expire(w) \/ Select(w)
  <2>1. UNCHANGED <<status, pushed>>
    BY <1>4 DEF Start, Expire, Select
  <2>2. \A v \in Worker : run'[v].claimed = run[v].claimed
    <3>1. run[w].pc \in {"idle", "expire", "select"} /\ run[w].claimed = {}
      BY <1>1, <1>4 DEF Start, Expire, Select, RunInv
    <3>2. run'[w].claimed = {}
      BY <1>1, <1>4, <3>1 DEF Start, Expire, Select, Fresh, RunRow
    <3>3. \A v \in Worker \ {w} : run'[v] = run[v]
      BY <1>1, <1>4 DEF Start, Expire, Select
    <3> QED
      BY <3>1, <3>2, <3>3
  <2>3. Held(n)' = Held(n)
    BY <2>2 DEF Held
  <2> QED
    BY <1>2, <2>1, <2>3, QuietMove
<1>5. CASE Claim(w)
  <2> DEFINE claimed == {m \in run[w].batch : Devices(m) # {}}
             row == [run[w] EXCEPT !.pc = "send", !.due = {}, !.batch = {}, !.claimed = claimed,
                       !.targets = {m \in claimed \X Token : m[2] \in Devices(m[1])}]
  <2>1. run' = [run EXCEPT ![w] = row] /\ UNCHANGED pushed
    BY <1>5 DEF Claim
  <2>2. row.claimed = claimed /\ run[w].claimed = {}
    BY <1>1, <1>5 DEF RunRow, RunInv, Claim
  <2>3. status'[n] =
        IF n \in claimed THEN "sending" ELSE IF n \in run[w].batch THEN "no_device"
        ELSE IF n \in run[w].due THEN IF status[n] = "pending" THEN "expired" ELSE "failed"
        ELSE status[n]
    BY <1>5 DEF Claim
  <2>4. \A m \in run[w].batch : status[m] = "pending"
    BY <1>1 DEF RunInv
  <2> HIDE DEF row
  <2>5. /\ n \in claimed => Held(n)'
        /\ n \notin claimed => Held(n)' = Held(n)
    BY <1>1, <2>1, <2>2, OthersHeld
  <2>6. Held(n) => status[n] # "pending"
    BY <1>3 DEF Held
  <2>7. CASE n \in claimed
    BY <1>2, <2>1, <2>4, <2>5, <2>6, <2>7, QuietMove
  <2>8. CASE n \notin claimed
    BY <1>2, <2>1, <2>3, <2>4, <2>5, <2>6, <2>8, QuietMove
  <2> QED
    BY <2>7, <2>8
<1>6. CASE Answered(w) \/ Rejected(w) \/ Lost(w)
  <2>1. UNCHANGED status
    BY <1>6 DEF Answered, Rejected, Lost
  <2>2. \A v \in Worker \ {w} : run'[v] = run[v]
    BY <1>1, <1>6 DEF Answered, Rejected, Lost
  <2>3. run'[w].claimed = run[w].claimed
    <3>1. CASE Answered(w)
      <4>1. PICK c, oks, dead :
              run' = [run EXCEPT ![w].pc = "record", ![w].targets = @ \ c, ![w].oks = oks,
                                 ![w].dead = {m[2] : m \in dead}]
        BY <3>1 DEF Answered
      <4> QED
        BY <1>1, <4>1 DEF RunRow
    <3>2. CASE Rejected(w)
      BY <1>1, <3>2 DEF Rejected, RunRow
    <3>3. CASE Lost(w)
      <4>1. PICK c :
              run' = [run EXCEPT ![w].pc = "finish", ![w].targets = {}, ![w].unknown = Names(c),
                                 ![w].retry = Names(run[w].targets \ c)]
        BY <3>3 DEF Lost
      <4> QED
        BY <1>1, <4>1 DEF RunRow
    <3> QED
      BY <1>6, <3>1, <3>2, <3>3
  <2>4. Held(n)' = Held(n)
    BY <2>2, <2>3 DEF Held
  <2>5. PICK got : got \subseteq run[w].targets /\ pushed' = Count(got)
    <3>1. CASE Rejected(w)
      <4>1. pushed' = Count({})
        BY <1>1, <3>1 DEF Rejected, Count
      <4> QED
        BY <4>1
    <3>2. CASE Answered(w)
      BY <3>2 DEF Answered, Chunks
    <3>3. CASE Lost(w)
      BY <3>3 DEF Lost, Chunks
    <3> QED
      BY <1>6, <3>1, <3>2, <3>3
  <2>6. \A t \in Token : pushed'[<<n, t>>] = pushed[<<n, t>>] + IF <<n, t>> \in got THEN 1 ELSE 0
    BY <1>2, <2>5 DEF Count
  <2>7. CASE n \in run[w].claimed
    <3>1. Phase[n] = "out" /\ Phase'[n] = "out"
      BY <1>3, <2>4, <2>7, PhaseIs
    <3>2. \A t \in Token : \/ pushed'[<<n, t>>] = pushed[<<n, t>>]
                           \/ pushed[<<n, t>>] = 0 /\ pushed'[<<n, t>>] = 1
      <4> TAKE t \in Token
      <4>1. <<n, t>> \in got => pushed[<<n, t>>] = 0
        BY <1>1, <2>5 DEF RunInv
      <4> QED
        BY <1>2, <2>6, <4>1
    <3> QED
      BY <3>1, <3>2 DEF Move, Promise!Push
  <2>8. CASE n \notin run[w].claimed
    <3>1. \A t \in Token : pushed'[<<n, t>>] = pushed[<<n, t>>]
      <4> TAKE t \in Token
      <4>1. <<n, t>> \notin got
        BY <1>1, <2>5, <2>8 DEF RunInv
      <4> QED
        BY <1>2, <2>6, <4>1
    <3>2. Phase'[n] = Phase[n]
      BY <2>1, <2>4 DEF Phase
    <3> QED
      BY <3>1, <3>2 DEF Move, Promise!Wait, Promise!Same
  <2> QED
    BY <2>7, <2>8
<1>7. CASE Record(w)
  <2>1. UNCHANGED pushed /\ \A v \in Worker \ {w} : run'[v] = run[v]
    BY <1>1, <1>7 DEF Record
  <2>2. run'[w].claimed = run[w].claimed
    BY <1>1, <1>7 DEF Record, RunRow
  <2>3. Held(n)' = Held(n)
    BY <2>1, <2>2 DEF Held
  <2>4. CASE n \in Names(run[w].oks)
    <3>1. n \in run[w].claimed
      BY <1>1, <2>4 DEF RunInv, Names
    <3>2. status[n] # "pending" /\ status'[n] # "pending"
      BY <1>3, <1>7, <3>1 DEF Record, Settled
    <3> QED
      BY <1>2, <2>1, <2>3, <3>2, QuietMove
  <2>5. CASE n \notin Names(run[w].oks)
    <3>1. status'[n] = status[n]
      BY <1>7, <2>5 DEF Record, Settled
    <3> QED
      BY <1>2, <2>1, <2>3, <3>1, QuietMove
  <2> QED
    BY <2>4, <2>5
<1>8. CASE Finish(w) \/ Crash(w)
  <2>1. UNCHANGED pushed /\ run' = [run EXCEPT ![w] = Fresh("idle", 0)]
    BY <1>8 DEF Finish, Crash
  <2>2. Fresh("idle", 0).claimed = {}
    BY DEF Fresh
  <2>3. n \notin run[w].claimed => Held(n)' = Held(n)
    BY <1>1, <2>1, <2>2, OthersHeld
  <2>4. CASE n \notin run[w].claimed
    <3>1. status'[n] = status[n]
      BY <1>8, <2>4 DEF Finish, Crash
    <3> QED
      BY <1>2, <2>1, <2>3, <2>4, <3>1, QuietMove
  <2>5. CASE n \in run[w].claimed
    <3>1. Held(n) /\ status[n] # "pending"
      BY <1>3, <2>5
    <3>2. ~Held(n)'
      <4>1. \A v \in Worker \ {w} : n \notin run[v].claimed
        BY <2>5 DEF Inv, Apart
      <4>2. run'[w].claimed = {} /\ \A v \in Worker \ {w} : run'[v] = run[v]
        BY <1>1, <2>1, <2>2
      <4> QED
        BY <4>1, <4>2 DEF Held
    <3>3. status'[n] = "pending" => ~Got(n)
      <4>1. CASE Crash(w)
        BY <3>1, <4>1 DEF Crash
      <4>2. CASE Finish(w)
        <5>1. status'[n] = "pending" => n \in Retried(w)
          BY <3>1, <4>2 DEF Finish
        <5>2. run[w].oks = {}
          BY <1>1, <4>2 DEF Finish, RunInv
        <5>3. n \in Retried(w) => ~Got(n)
          BY <1>1, <5>2 DEF Retried, RunInv, Names
        <5> QED
          BY <5>1, <5>3
      <4> QED
        BY <1>8, <4>1, <4>2
    <3> QED
      BY <1>2, <2>1, <3>1, <3>2, <3>3, QuietMove
  <2> QED
    BY <2>4, <2>5
<1> QED
  BY <1>4, <1>5, <1>6, <1>7, <1>8 DEF Step

\* Every behaviour of the runs is one the promise allows: each device gets a
\* notification at most once, whatever fails (push_tasks, ExpoPushClient.send).
THEOREM RunsKeepPromise == Spec => KeepsPromise
<1>1. Init => Promise!Init
  <2> SUFFICES ASSUME Init PROVE Promise!Init
    OBVIOUS
  <2>1. \A n \in Notification : ~Held(n)
    BY DEF Init, Held, Fresh
  <2>2. Phase = [n \in Notification |-> "waiting"]
    BY <2>1 DEF Phase, Init
  <2> QED
    BY <2>2 DEF Init, Promise!Init, Message
<1>2. Inv /\ Inv' /\ [Next]_vars => [Promise!Next]_<<Phase, pushed>>
  <2> SUFFICES ASSUME Inv, Inv', [Next]_vars
               PROVE  Promise!Next \/ UNCHANGED <<Phase, pushed>>
    OBVIOUS
  <2>1. ASSUME \A n \in Notification : Move(n) PROVE Promise!Next
    <3>1. Phase' \in [Notification -> {"waiting", "out", "over"}]
      BY DEF Phase
    <3>2. pushed' \in [Notification \X Token -> Nat]
      BY DEF Inv, TypeOK, Message
    <3> QED
      BY <2>1, <3>1, <3>2 DEF Promise!Next, Move
  <2>2. ASSUME NEW w \in Worker, Step(w) \/ Crash(w) PROVE Promise!Next
    BY <2>1, <2>2, RunKeepsPromise
  <2>3. CASE Age \/ \E u \in User : DeleteAccount(u)
                               \/ \E t \in Token : Register(u, t) \/ Unregister(u, t)
    <3>1. UNCHANGED <<run, pushed>>
      BY <2>3 DEF Age, DeleteAccount, Register, Unregister
    <3>2. \A n \in Notification : status'[n] \in {status[n], "gone"}
      BY <2>3 DEF Age, DeleteAccount, Register, Unregister, Inv, TypeOK
    <3>3. \A n \in Notification : Move(n)
      <4> TAKE n \in Notification
      <4>1. Held(n)' = Held(n)
        BY <3>1 DEF Held
      <4>2. \A t \in Token : pushed[<<n, t>>] \in Nat
        BY DEF Inv, TypeOK, Message
      <4>3. Held(n) => status[n] # "pending"
        BY DEF Held, Inv, RunInv
      <4>4. CASE Held(n)
        <5>1. status'[n] # "pending"
          BY <3>2, <4>3, <4>4
        <5> QED
          BY <3>1, <4>1, <4>2, <4>3, <4>4, <5>1, QuietMove
      <4>5. CASE ~Held(n)
        BY <3>1, <3>2, <4>1, <4>2, <4>5, QuietMove
      <4> QED
        BY <4>4, <4>5
    <3> QED
      BY <2>1, <3>3
  <2>4. CASE UNCHANGED vars
    BY <2>4 DEF vars, Phase, Held
  <2> QED
    BY <2>2, <2>3, <2>4 DEF Next
<1> QED
  BY InitInv, NextInv, <1>1, <1>2, PTL DEF Spec, KeepsPromise, Promise!Spec
=============================================================================
