--------------------------- MODULE CaptureProofs ---------------------------
(***************************************************************************)
(* Proofs about Capture, for any accounts, quota and number of photos.     *)
(***************************************************************************)
EXTENDS Capture, FiniteSetTheorems, SequenceTheorems, WellFoundedInduction, TLAPS

LEMMA Bounds == MaxPhotos \in Nat /\ MaxActs \in Nat /\ MaxFaults \in Nat /\ Quota \in Nat
                /\ NoOne \notin Accounts /\ Accounts # {}
BY CaptureAssumption

-----------------------------------------------------------------------------
(* The queue: what its operations leave of a row.                           *)

(* A queue of rows, of one row for a photo at most. *)
QueueOK(q) ==
    /\ q \in Seq(PendingReceipts)
    /\ \A i, j \in 1 .. Len(q) : q[i].photo = q[j].photo => i = j

(* Every row of the queue q was there, whatever became of its status. *)
Keeps(q) ==
    /\ QueueOK(q)
    /\ \A i \in 1 .. Len(q) : \E j \in 1 .. Len(queue) : q[i].photo = queue[j].photo /\ q[i].owner = queue[j].owner

(* ... and every row that was there is, but that of the photo p. *)
KeepsAllBut(p, q) ==
    /\ Keeps(q)
    /\ \A j \in 1 .. Len(queue) : queue[j].photo # p => \E i \in 1 .. Len(q) : q[i].photo = queue[j].photo

LEMMA RowsChanged ==
  ASSUME QueueOK(queue), NEW q, q = [i \in 1 .. Len(queue) |-> q[i]],
         \A i \in 1 .. Len(queue) : /\ q[i] \in PendingReceipts
                                    /\ q[i].photo = queue[i].photo /\ q[i].owner = queue[i].owner
  PROVE  KeepsAllBut(NoPhoto, q) /\ Len(q) = Len(queue)
<1>1. Len(queue) \in Nat
  BY DEF QueueOK
<1>2. q \in Seq(PendingReceipts) /\ Len(q) = Len(queue)
  BY <1>1, IsASeq
<1> QED
  BY <1>2 DEF KeepsAllBut, Keeps, QueueOK


LEMMA RowsAre ==
  ASSUME QueueOK(queue), NEW p
  PROVE  /\ KeepsAllBut(NoPhoto, updateStatus(p, "syncing"))
         /\ KeepsAllBut(NoPhoto, markAttemptFailed(p))
         /\ KeepsAllBut(NoPhoto, holdForConsent(p))
         /\ \A f \in {"unreadable", "quota"} : KeepsAllBut(NoPhoto, markFailed(p, f))
         /\ KeepsAllBut(NoPhoto, requeue(p))
         /\ KeepsAllBut(NoPhoto, Restored)
         /\ KeepsAllBut(NoPhoto, queue)
<1>0. \A i \in 1 .. Len(queue) : queue[i] \in PendingReceipts
  BY DEF QueueOK
<1>1. KeepsAllBut(NoPhoto, updateStatus(p, "syncing"))
  BY <1>0, RowsChanged DEF updateStatus, Row, PendingReceipts
<1>2. KeepsAllBut(NoPhoto, markAttemptFailed(p))
  BY <1>0, RowsChanged DEF markAttemptFailed, Row, PendingReceipts
<1>3. KeepsAllBut(NoPhoto, holdForConsent(p))
  BY <1>0, RowsChanged DEF holdForConsent, Row, PendingReceipts
<1>4. \A f \in {"unreadable", "quota"} : KeepsAllBut(NoPhoto, markFailed(p, f))
  BY <1>0, RowsChanged DEF markFailed, Row, PendingReceipts
<1>5. KeepsAllBut(NoPhoto, requeue(p))
  BY <1>0, RowsChanged DEF requeue, Row, PendingReceipts
<1>6. KeepsAllBut(NoPhoto, Restored)
  BY <1>0, RowsChanged DEF Restored, PendingReceipts
<1>7. KeepsAllBut(NoPhoto, queue)
  BY DEF KeepsAllBut, Keeps
<1> QED
  BY <1>1, <1>2, <1>3, <1>4, <1>5, <1>6, <1>7

LEMMA RemoveAtIs ==
  ASSUME NEW S, NEW s \in Seq(S), NEW k \in 1 .. Len(s)
  PROVE  /\ RemoveAt(s, k) \in Seq(S) /\ Len(RemoveAt(s, k)) = Len(s) - 1
         /\ \A i \in 1 .. Len(s) - 1 : RemoveAt(s, k)[i] = IF i < k THEN s[i] ELSE s[i + 1]
<1> DEFINE front == SubSeq(s, 1, k - 1)
           back == SubSeq(s, k + 1, Len(s))
<1>1. Len(s) \in Nat /\ \A i \in 1 .. Len(s) : s[i] \in S
  OBVIOUS
<1>2. front \in Seq(S) /\ Len(front) = k - 1 /\ \A i \in 1 .. k - 1 : front[i] = s[i]
  BY <1>1, SubSeqProperties
<1>3. back \in Seq(S) /\ Len(back) = Len(s) - k /\ \A i \in 1 .. Len(s) - k : back[i] = s[k + i]
  <2>1. \A i \in k + 1 .. Len(s) : s[i] \in S
    BY <1>1
  <2>2. /\ back \in Seq(S) /\ Len(back) = IF k + 1 <= Len(s) THEN Len(s) - (k + 1) + 1 ELSE 0
        /\ \A i \in 1 .. Len(s) - (k + 1) + 1 : back[i] = s[k + 1 + i - 1]
    BY <1>1, <2>1, SubSeqProperties
  <2> QED
    BY <1>1, <2>2
<1> HIDE DEF front, back
<1>4. /\ front \o back \in Seq(S) /\ Len(front \o back) = Len(front) + Len(back)
      /\ \A i \in 1 .. Len(front) + Len(back) :
           (front \o back)[i] = IF i <= Len(front) THEN front[i] ELSE back[i - Len(front)]
  BY <1>2, <1>3, ConcatProperties
<1>5. RemoveAt(s, k) = front \o back
  BY DEF RemoveAt, front, back
<1>6. Len(front \o back) = Len(s) - 1
  BY <1>1, <1>2, <1>3, <1>4
<1>7. ASSUME NEW i \in 1 .. Len(s) - 1 PROVE (front \o back)[i] = IF i < k THEN s[i] ELSE s[i + 1]
  <2>1. i \in 1 .. Len(front) + Len(back)
    BY <1>1, <1>2, <1>3
  <2>2. CASE i < k
    BY <1>1, <1>2, <1>4, <2>1, <2>2
  <2>3. CASE i >= k
    <3>1. i - (k - 1) \in 1 .. Len(s) - k /\ ~(i <= k - 1) /\ k + (i - (k - 1)) = i + 1
      BY <1>1, <2>3
    <3>2. (front \o back)[i] = back[i - (k - 1)]
      BY <1>2, <1>4, <2>1, <3>1
    <3> QED
      BY <1>3, <2>3, <3>1, <3>2
  <2>4. i < k \/ i >= k
    BY <1>1
  <2> QED
    BY <2>2, <2>3, <2>4
<1> QED
  BY <1>4, <1>5, <1>6, <1>7

(* Taking the row of a photo out. *)
LEMMA RemovalIs ==
  ASSUME QueueOK(queue), NEW p
  PROVE  LET q == removePendingReceipt(p) IN
         KeepsAllBut(p, q) /\ \A i \in 1 .. Len(q) : q[i].photo # p
<1> DEFINE at == {i \in 1 .. Len(queue) : queue[i].photo = p}
<1>0. queue \in Seq(PendingReceipts) /\ Len(queue) \in Nat
      /\ \A i, j \in 1 .. Len(queue) : queue[i].photo = queue[j].photo => i = j
  BY DEF QueueOK
<1>1. CASE at = {}
  <2>1. removePendingReceipt(p) = queue
    BY <1>1 DEF removePendingReceipt, RemoveFirstMatch
  <2> QED
    BY <1>1, <2>1 DEF KeepsAllBut, Keeps
<1>2. CASE at # {}
  <2>1. PICK k \in at : TRUE
    BY <1>2
  <2>2. k \in 1 .. Len(queue) /\ queue[k].photo = p /\ at = {k}
    BY <1>0, <2>1
  <2>3. removePendingReceipt(p) = RemoveAt(queue, k)
    <3>1. Min(at) = k
      BY <2>2 DEF Min
    <3>2. SelectInSeq(queue, LAMBDA r : r.photo = p) = k
      BY <1>2, <3>1 DEF SelectInSeq
    <3> QED
      BY <2>2, <3>2 DEF removePendingReceipt, RemoveFirstMatch
  <2> DEFINE q == RemoveAt(queue, k)
  <2>4. /\ q \in Seq(PendingReceipts) /\ Len(q) = Len(queue) - 1
        /\ \A i \in 1 .. Len(queue) - 1 : q[i] = IF i < k THEN queue[i] ELSE queue[i + 1]
    BY <1>0, <2>2, RemoveAtIs
  <2> HIDE DEF q
  <2> DEFINE from(i) == IF i < k THEN i ELSE i + 1
  <2>a. ASSUME NEW i \in 1 .. Len(q)
        PROVE  from(i) \in 1 .. Len(queue) /\ from(i) # k /\ q[i] = queue[from(i)]
    <3>1. i \in 1 .. Len(queue) - 1 /\ k \in Int /\ i \in Int
      BY <1>0, <2>2, <2>4
    <3>2. q[i] = IF i < k THEN queue[i] ELSE queue[i + 1]
      BY <2>4, <3>1
    <3>3. CASE i < k
      BY <1>0, <3>1, <3>2, <3>3
    <3>4. CASE ~(i < k)
      BY <1>0, <3>1, <3>2, <3>4
    <3> QED
      BY <3>3, <3>4
  <2>b. \A i, j \in 1 .. Len(q) : from(i) = from(j) => i = j
    BY <1>0, <2>2, <2>4
  <2> HIDE DEF from
  <2>c. QueueOK(q)
    BY <1>0, <2>4, <2>a, <2>b DEF QueueOK
  <2>5. Keeps(q) /\ \A i \in 1 .. Len(q) : q[i].photo # p
    BY <1>0, <2>2, <2>a, <2>c DEF Keeps
  <2>6. ASSUME NEW j \in 1 .. Len(queue), queue[j].photo # p
        PROVE  \E i \in 1 .. Len(q) : q[i].photo = queue[j].photo
    <3>1. j # k
      BY <2>2, <2>6
    <3>2. CASE j < k
      <4>1. j \in 1 .. Len(q) /\ q[j] = queue[j]
        BY <1>0, <2>2, <2>4, <3>2
      <4> QED
        BY <4>1
    <3>3. CASE j > k
      <4>1. j - 1 \in 1 .. Len(q) /\ q[j - 1] = queue[j]
        BY <1>0, <2>2, <2>4, <3>3
      <4> QED
        BY <4>1
    <3> QED
      BY <1>0, <2>2, <3>1, <3>2, <3>3
  <2> QED
    BY <2>3, <2>5, <2>6 DEF q, KeepsAllBut
<1> QED
  BY <1>1, <1>2

(* A photo queued: its row is the last. *)
LEMMA AdditionIs ==
  ASSUME QueueOK(queue), NEW p \in Photos, NEW a \in Accounts, \A i \in 1 .. Len(queue) : queue[i].photo # p
  PROVE  LET q == addPendingReceipt(p, a) IN
         /\ QueueOK(q) /\ Len(q) = Len(queue) + 1
         /\ q[Len(queue) + 1].photo = p /\ q[Len(queue) + 1].owner = a
         /\ \A i \in 1 .. Len(queue) : q[i] = queue[i]
<1> DEFINE r == [photo |-> p, owner |-> a, status |-> "pending", tried |-> FALSE, held |-> FALSE, failure |-> "none"]
<1>1. r \in PendingReceipts /\ r.photo = p /\ r.owner = a
  BY DEF PendingReceipts
<1>2. addPendingReceipt(p, a) = Append(queue, r)
  BY DEF addPendingReceipt
<1> HIDE DEF r
<1>3. queue \in Seq(PendingReceipts)
  BY DEF QueueOK
<1> QED
  BY <1>1, <1>2, <1>3 DEF QueueOK

-----------------------------------------------------------------------------
(* Induction over the natural numbers, for a set of them.                   *)

LEMMA SetInduction ==
  ASSUME NEW S, 0 \in S, \A n \in Nat : n \in S => n + 1 \in S
  PROVE  Nat \subseteq S
<1> SUFFICES ASSUME Nat \ S # {} PROVE FALSE
  OBVIOUS
<1> DEFINE R == OpToRel(<, Nat)
<1>0. IsWellFoundedOn(R, Nat)
  BY NatLessThanWellFounded
<1>1. \E n \in Nat \ S : \A m \in Nat \ S : <<m, n>> \notin R
  <2> HIDE DEF R
  <2> QED
    BY <1>0, WFMin
<1>2. PICK n \in Nat \ S : \A m \in Nat \ S : ~ (m < n)
  BY <1>1 DEF OpToRel
<1>3. n # 0 /\ n - 1 \in Nat /\ n - 1 \in S
  BY <1>2
<1> QED
  BY <1>2, <1>3

(* A snapshot holds each pending photo of the account once. *)
LEMMA SnapshotIs ==
  ASSUME NEW q, QueueOK(q), NEW a
  PROVE  LET todo == Snapshot(q, a) IN
         /\ todo \in Seq(Photos)
         /\ \A j \in 1 .. Len(todo) : \E i \in 1 .. Len(q) : q[i].photo = todo[j] /\ q[i].owner = a
         /\ \A j, k \in 1 .. Len(todo) : todo[j] = todo[k] => j = k
<1> DEFINE Takes(i) == q[i].status = "pending" /\ q[i].owner = a
           Is(n, m) == n = [i \in 0 .. m |-> IF i = 0 THEN <<>>
                                              ELSE IF q[i].status = "pending" /\ q[i].owner = a
                                                   THEN Append(n[i - 1], q[i].photo)
                                              ELSE n[i - 1]]
           Good(todo, m) == /\ todo \in Seq(Photos)
                            /\ \A j \in 1 .. Len(todo) : \E i \in 1 .. m : q[i].photo = todo[j] /\ q[i].owner = a
                            /\ \A j, k \in 1 .. Len(todo) : todo[j] = todo[k] => j = k
           Holds(m) == (\E n : Is(n, m)) /\ \A n : Is(n, m) => Good(n[m], m)
           S == {m \in Nat : m <= Len(q) => Holds(m)}
<1>0. Len(q) \in Nat /\ \A i \in 1 .. Len(q) : q[i].photo \in Photos
  <2>1. Len(q) \in Nat /\ \A i \in 1 .. Len(q) : q[i] \in PendingReceipts
    BY DEF QueueOK
  <2> QED
    BY <2>1 DEF PendingReceipts
<1>1. Holds(0)
  <2>1. \E n : Is(n, 0)
    <3> DEFINE n == [i \in 0 .. 0 |-> <<>>]
    <3>1. Is(n, 0)
      OBVIOUS
    <3> QED
      BY <3>1
  <2>2. ASSUME NEW n, Is(n, 0) PROVE Good(n[0], 0)
    <3>1. n[0] = <<>>
      BY <2>2
    <3> QED
      BY <3>1
  <2> QED
    BY <2>1, <2>2
<1>2. ASSUME NEW m \in Nat, m + 1 <= Len(q), Holds(m) PROVE Holds(m + 1)
  <2>2. \E n : Is(n, m + 1)
    <3>1. PICK n : Is(n, m)
      BY <1>2
    <3> DEFINE e == [i \in 0 .. m + 1 |-> IF i <= m THEN n[i]
                                          ELSE IF Takes(m + 1) THEN Append(n[m], q[m + 1].photo) ELSE n[m]]
    <3>2. \A i \in 0 .. m : e[i] = n[i]
      OBVIOUS
    <3>3. e[m + 1] = IF Takes(m + 1) THEN Append(e[m], q[m + 1].photo) ELSE e[m]
      BY <3>2
    <3>4. \A i \in 0 .. m : n[i] = IF i = 0 THEN <<>>
                                   ELSE IF Takes(i) THEN Append(n[i - 1], q[i].photo) ELSE n[i - 1]
      BY <3>1
    <3>5. ASSUME NEW i \in 0 .. m + 1
          PROVE  e[i] = IF i = 0 THEN <<>> ELSE IF Takes(i) THEN Append(e[i - 1], q[i].photo) ELSE e[i - 1]
      <4>1. CASE i = 0
        BY <3>2, <3>4, <4>1
      <4>2. CASE i \in 1 .. m
        <5>1. i - 1 \in 0 .. m /\ i \in 0 .. m /\ i # 0
          BY <4>2
        <5> QED
          BY <3>2, <3>4, <5>1
      <4>3. CASE i = m + 1
        BY <3>3, <4>3
      <4> QED
        BY <4>1, <4>2, <4>3
    <3>6. Is(e, m + 1)
      <4>1. e = [i \in 0 .. m + 1 |-> e[i]]
        OBVIOUS
      <4> HIDE DEF e
      <4> QED
        BY <3>5, <4>1
    <3> QED
      BY <3>6
  <2>3. ASSUME NEW n, Is(n, m + 1) PROVE Good(n[m + 1], m + 1)
    <3> DEFINE b == [i \in 0 .. m |-> n[i]]
    <3>0. \A i \in 0 .. m + 1 : n[i] = IF i = 0 THEN <<>>
                                       ELSE IF Takes(i) THEN Append(n[i - 1], q[i].photo) ELSE n[i - 1]
      BY <2>3
    <3>1. Is(b, m)
      <4>1. ASSUME NEW i \in 0 .. m
            PROVE  b[i] = IF i = 0 THEN <<>> ELSE IF Takes(i) THEN Append(b[i - 1], q[i].photo) ELSE b[i - 1]
        <5>1. i \in 0 .. m + 1 /\ (i # 0 => i - 1 \in 0 .. m)
          OBVIOUS
        <5> HIDE DEF Takes
        <5> QED
          BY <3>0, <5>1
      <4>2. b = [i \in 0 .. m |-> b[i]]
        OBVIOUS
      <4> HIDE DEF b
      <4> QED
        BY <4>1, <4>2
    <3>2. Good(n[m], m)
      <4>1. b[m] = n[m]
        OBVIOUS
      <4> HIDE DEF Is, Good, b
      <4> QED
        BY <1>2, <3>1, <4>1
    <3>4. n[m + 1] = IF Takes(m + 1) THEN Append(n[m], q[m + 1].photo) ELSE n[m]
      <4>1. m + 1 \in 0 .. m + 1 /\ m + 1 # 0 /\ (m + 1) - 1 = m
        OBVIOUS
      <4> HIDE DEF Takes
      <4> QED
        BY <3>0, <4>1
    <3>5. m + 1 \in 1 .. Len(q) /\ q[m + 1].photo \in Photos
      BY <1>0, <1>2
    <3>6. CASE Takes(m + 1)
      <4>1. n[m + 1] = Append(n[m], q[m + 1].photo)
        BY <3>4, <3>6
      <4>2. \A j \in 1 .. Len(n[m]) : n[m][j] # q[m + 1].photo
        BY <3>2, <3>5 DEF QueueOK
      <4> QED
        BY <3>2, <3>5, <3>6, <4>1, <4>2
    <3>7. CASE ~Takes(m + 1)
      <4>1. n[m + 1] = n[m]
        BY <3>4, <3>7
      <4> QED
        BY <3>2, <4>1
    <3> QED
      BY <3>6, <3>7
  <2> QED
    BY <2>2, <2>3
<1>3. Holds(Len(q))
  <2> HIDE DEF Holds
  <2>1. 0 \in S
    BY <1>1
  <2>2. \A m \in Nat : m \in S => m + 1 \in S
    BY <1>0, <1>2
  <2>3. Nat \subseteq S
    <3> HIDE DEF S
    <3> QED
      BY <2>1, <2>2, SetInduction
  <2> QED
    BY <1>0, <2>3
<1>4. Snapshot(q, a) = (CHOOSE n : Is(n, Len(q)))[Len(q)]
  BY DEF Snapshot
<1>5. Good(Snapshot(q, a), Len(q))
  <2> HIDE DEF Is, Good
  <2> QED
    BY <1>3, <1>4
<1> QED
  BY <1>5

-----------------------------------------------------------------------------
(* Where the photos are.                                                    *)

Taker(p, a) == p \in 1 .. Len(takenBy) /\ takenBy[p] = a

(* The photos of the screens, and of their calls. *)
Flow == {camera.page, calls["camera"].photo, calls["import"].photo}

(* A row is of a photo its owner took, that has its file and is on no screen. *)
RowsFit ==
    /\ QueueOK(queue)
    /\ \A i \in 1 .. Len(queue) : /\ Taker(queue[i].photo, queue[i].owner)
                                  /\ queue[i].photo \in files /\ queue[i].photo \notin Flow

(* What a run of the account a has left: photos the account took, each once. *)
TodoFit(todo, a) ==
    /\ todo \in Seq(Photos)
    /\ \A j \in 1 .. Len(todo) : Taker(todo[j], a) /\ todo[j] \notin Flow
    /\ \A j, k \in 1 .. Len(todo) : todo[j] = todo[k] => j = k

(* The first run uploads the first photo it has left. *)
RunsFit ==
    /\ runs \in Seq(Runs)
    /\ runs # <<>> => TodoFit(Run.todo, Run.owner)
    /\ calls["run"].pc # "none" <=> runs # <<>> /\ Run.pc = "upload"
    /\ runs # <<>> /\ Run.pc = "upload" => Run.todo # <<>> /\ calls["run"].photo = Head(Run.todo)

(* A call is of a photo for the account that took it. *)
CallOK(c) ==
    /\ c.pc = "none" => c = NoCall
    /\ c.pc # "none" => Taker(c.photo, c.account)
    /\ c.pc # "answered" => c.answer = "none"
CallsFit == \A s \in Slots : CallOK(calls[s])

(* An import uploads while its call is under way. *)
ImportFit ==
    /\ calls["import"].pc # "none" <=> import.pc = "uploading"
    /\ import.photo = calls["import"].photo
    /\ import.pc = "uploading" => import.owner = calls["import"].account

(* The screens share no photo. *)
FlowFit ==
    /\ camera.page # NoPhoto => camera.page # calls["camera"].photo /\ camera.page # calls["import"].photo
    /\ calls["camera"].photo # NoPhoto => calls["camera"].photo # calls["import"].photo

(* A screen is of the account signed in, and a timer of the effect that set it. *)
ScreensFit ==
    /\ camera.page # NoPhoto => Taker(camera.page, user)
    /\ camera.scanning => user \in Accounts /\ camera.page = NoPhoto
    /\ calls["camera"].pc # "none" => calls["camera"].account = user
    /\ import.pc \in {"asking", "picking"} => user \in Accounts /\ import.owner = user
    /\ timer => listening \in Accounts

PlaceInv == TypeOK /\ RowsFit /\ RunsFit /\ CallsFit /\ ImportFit /\ FlowFit /\ ScreensFit

-----------------------------------------------------------------------------
(* Steps that move no photo.                                                *)

(* No photo is taken, and no other photo comes on a screen. *)
Longer == Len(takenBy') >= Len(takenBy) /\ \A p \in 1 .. Len(takenBy) : takenBy'[p] = takenBy[p]
FlowShrinks == \A p \in Flow' : p \in Flow \/ p \notin 1 .. Len(takenBy)

Quiet ==
    /\ UNCHANGED <<calls, takenBy, receipts, unsure>>
    /\ camera'.page \in {camera.page, NoPhoto}
    /\ import'.photo = import.photo
    /\ import'.pc = "uploading" <=> import.pc = "uploading"
    /\ import.pc = "uploading" => import'.owner = import.owner

(* The rows that stay, with their files; and the runs, the first with what it had. *)
FromQueue(todo, q) == \A j \in 1 .. Len(todo) : \E i \in 1 .. Len(q) : q[i].photo = todo[j]
QueueGoes == \E q : queue' = q /\ Keeps(q) /\ \A i \in 1 .. Len(q) : q[i].photo \in files => q[i].photo \in files'
RunsGo == \E rs \in Seq(Runs) :
    /\ runs' = rs
    /\ runs # <<>> => rs # <<>> /\ Head(rs) = Head(runs)
    /\ runs = <<>> /\ rs # <<>> => /\ Head(rs).pc = "next" /\ TodoFit(Head(rs).todo, Head(rs).owner)
                                   /\ FromQueue(Head(rs).todo, queue)

LEMMA RowsStay ==
  ASSUME RowsFit, Longer, FlowShrinks, QueueGoes, takenBy \in Seq(Accounts), takenBy' \in Seq(Accounts)
  PROVE  RowsFit'
<1>1. PICK q : queue' = q /\ Keeps(q) /\ \A i \in 1 .. Len(q) : q[i].photo \in files => q[i].photo \in files'
  BY DEF QueueGoes
<1>2. ASSUME NEW i \in 1 .. Len(q)
      PROVE  Taker(q[i].photo, q[i].owner)' /\ q[i].photo \in files' /\ q[i].photo \notin Flow'
  <2>1. PICK j \in 1 .. Len(queue) : q[i].photo = queue[j].photo /\ q[i].owner = queue[j].owner
    BY <1>1 DEF Keeps
  <2>2. Taker(q[i].photo, q[i].owner) /\ q[i].photo \in files /\ q[i].photo \notin Flow
    BY <2>1 DEF RowsFit
  <2>3. q[i].photo \notin Flow'
    BY <2>2 DEF FlowShrinks, Taker
  <2> QED
    BY <1>1, <2>2, <2>3 DEF Longer, Taker
<1>3. QueueOK(q)
  BY <1>1 DEF Keeps
<1>4. QueueOK(queue')
  BY <1>1, <1>3
<1> QED
  BY <1>1, <1>2, <1>4 DEF RowsFit, QueueOK

LEMMA TodoStays ==
  ASSUME NEW todo, NEW a, TodoFit(todo, a), Longer, FlowShrinks,
         takenBy \in Seq(Accounts), takenBy' \in Seq(Accounts)
  PROVE  TodoFit(todo, a)'
<1>1. ASSUME NEW j \in 1 .. Len(todo) PROVE Taker(todo[j], a)' /\ todo[j] \notin Flow'
  <2>1. Taker(todo[j], a) /\ todo[j] \notin Flow
    BY DEF TodoFit
  <2> QED
    BY <2>1 DEF Longer, Taker, FlowShrinks
<1> QED
  BY <1>1 DEF TodoFit

LEMMA RunsStay ==
  ASSUME RunsFit, Longer, FlowShrinks, RunsGo, takenBy \in Seq(Accounts), takenBy' \in Seq(Accounts),
         calls'["run"].photo = calls["run"].photo, calls'["run"].pc # "none" <=> calls["run"].pc # "none"
  PROVE  RunsFit'
<1>1. PICK rs \in Seq(Runs) :
         /\ runs' = rs
         /\ runs # <<>> => rs # <<>> /\ Head(rs) = Head(runs)
         /\ runs = <<>> /\ rs # <<>> => Head(rs).pc = "next" /\ TodoFit(Head(rs).todo, Head(rs).owner)
  BY DEF RunsGo
<1>2. rs # <<>> => TodoFit(Head(rs).todo, Head(rs).owner)
  BY <1>1 DEF RunsFit, Run
<1>3. rs # <<>> => TodoFit(Head(rs).todo, Head(rs).owner)'
  BY <1>2, TodoStays
<1>4. calls'["run"].pc # "none" <=> rs # <<>> /\ Head(rs).pc = "upload"
  BY <1>1 DEF RunsFit, Run
<1>5. rs # <<>> /\ Head(rs).pc = "upload" => Head(rs).todo # <<>> /\ calls'["run"].photo = Head(Head(rs).todo)
  BY <1>1 DEF RunsFit, Run
<1>6. (runs # <<>> => TodoFit(Run.todo, Run.owner))'
  BY <1>1, <1>3 DEF TodoFit, Run, Taker
<1> QED
  BY <1>1, <1>4, <1>5, <1>6 DEF RunsFit, Run

LEMMA QuietStays ==
  ASSUME PlaceInv, Quiet
  PROVE  CallsFit' /\ ImportFit' /\ FlowFit' /\ Longer /\ FlowShrinks
<1>1. CallsFit'
  BY DEF PlaceInv, Quiet, CallsFit, CallOK, Taker
<1>2. ImportFit' /\ FlowFit'
  BY DEF PlaceInv, Quiet, ImportFit, FlowFit, TypeOK, Imports
<1>3. Longer /\ FlowShrinks
  BY Bounds DEF PlaceInv, TypeOK, Quiet, Longer, FlowShrinks, Flow, NoPhoto
<1> QED
  BY <1>1, <1>2, <1>3

LEMMA QuietInv ==
  ASSUME PlaceInv, Quiet, QueueGoes, RunsGo, TypeOK', ScreensFit'
  PROVE  PlaceInv'
<1>1. CallsFit' /\ ImportFit' /\ FlowFit' /\ Longer /\ FlowShrinks
  BY QuietStays
<1>2. RowsFit' /\ RunsFit'
  BY <1>1, RowsStay, RunsStay DEF PlaceInv, TypeOK, Quiet
<1> QED
  BY <1>1, <1>2 DEF PlaceInv

LEMMA TakersAre ==
  ASSUME PlaceInv
  PROVE  /\ takenBy \in Seq(Accounts) /\ Len(takenBy) \in Nat /\ Len(takenBy) <= MaxPhotos
         /\ \A p \in 1 .. Len(takenBy) : takenBy[p] \in Accounts /\ p \in Photos /\ p # NoPhoto
<1>1. takenBy \in Seq(Accounts) /\ Len(takenBy) <= MaxPhotos
  BY DEF PlaceInv, TypeOK
<1>2. Len(takenBy) \in Nat
  BY <1>1
<1> QED
  BY <1>1, <1>2, Bounds DEF Photos, NoPhoto

(* The call of a photo is of an account. *)
LEMMA CallTaker ==
  ASSUME PlaceInv, NEW s \in Slots, calls[s].pc # "none"
  PROVE  /\ calls[s].account \in Accounts /\ calls[s].photo \in Photos /\ calls[s].photo # NoPhoto
         /\ Taker(calls[s].photo, calls[s].account) /\ calls[s].photo \in 1 .. Len(takenBy)
<1>1. Taker(calls[s].photo, calls[s].account)
  BY DEF PlaceInv, CallsFit, CallOK
<1> QED
  BY <1>1, TakersAre DEF Taker

LEMMA SameTakers ==
  ASSUME PlaceInv, UNCHANGED takenBy
  PROVE  Longer
BY TakersAre DEF Longer

LEMMA SameStore ==
  ASSUME PlaceInv, UNCHANGED store
  PROVE  QueueGoes
BY RowsAre DEF PlaceInv, RowsFit, store, QueueGoes, KeepsAllBut

LEMMA SameRuns ==
  ASSUME PlaceInv, UNCHANGED runs
  PROVE  RunsGo
BY DEF PlaceInv, RunsFit, RunsGo

(* A queue changed in its rows only. *)
LEMMA RowsGo ==
  ASSUME PlaceInv, NEW q, queue' = q, KeepsAllBut(NoPhoto, q), UNCHANGED files
  PROVE  QueueGoes
BY DEF QueueGoes, KeepsAllBut

(* A run begins with photos of its account that are on no screen. *)
LEMMA SnapshotFits ==
  ASSUME RowsFit, NEW q, Keeps(q), NEW a
  PROVE  TodoFit(Snapshot(q, a), a) /\ FromQueue(Snapshot(q, a), q)
<1>1. QueueOK(q)
  BY DEF Keeps
<1> DEFINE todo == Snapshot(q, a)
<1>2. /\ todo \in Seq(Photos)
      /\ \A j \in 1 .. Len(todo) : \E i \in 1 .. Len(q) : q[i].photo = todo[j] /\ q[i].owner = a
      /\ \A j, k \in 1 .. Len(todo) : todo[j] = todo[k] => j = k
  BY <1>1, SnapshotIs
<1> HIDE DEF todo
<1>3. \A i \in 1 .. Len(q) : Taker(q[i].photo, q[i].owner) /\ q[i].photo \notin Flow
  BY DEF Keeps, RowsFit
<1>4. TodoFit(todo, a)
  BY <1>2, <1>3 DEF TodoFit
<1>5. FromQueue(todo, q)
  BY <1>2 DEF FromQueue
<1> QED
  BY <1>4, <1>5 DEF todo

LEMMA SyncIs ==
  ASSUME PlaceInv, NEW a \in Accounts
  PROVE  LET rs == syncPendingReceipts(a) IN
         /\ rs \in Seq(Runs)
         /\ runs # <<>> => rs # <<>> /\ Head(rs) = Head(runs)
         /\ runs = <<>> => /\ rs # <<>> /\ Head(rs).pc = "next" /\ TodoFit(Head(rs).todo, Head(rs).owner)
                           /\ FromQueue(Head(rs).todo, queue)
<1>1. Keeps(queue)
  BY RowsAre DEF PlaceInv, RowsFit, KeepsAllBut
<1>2. TodoFit(Snapshot(queue, a), a) /\ FromQueue(Snapshot(queue, a), queue)
  BY <1>1, SnapshotFits DEF PlaceInv
<1>3. Snapshot(queue, a) \in Seq(Photos)
  BY <1>2 DEF TodoFit
<1>4. [owner |-> a, todo |-> Snapshot(queue, a), pc |-> "next"] \in Runs
  BY <1>3 DEF Runs
<1>5. [owner |-> a, todo |-> <<>>, pc |-> "behind"] \in Runs
  BY DEF Runs
<1>6. runs \in Seq(Runs)
  BY DEF PlaceInv, RunsFit
<1>7. CASE runs = <<>>
  <2> DEFINE r == [owner |-> a, todo |-> Snapshot(queue, a), pc |-> "next"]
  <2>1. r.pc = "next" /\ TodoFit(r.todo, r.owner) /\ FromQueue(r.todo, queue)
    BY <1>2
  <2>2. syncPendingReceipts(a) = Append(<<>>, r)
    BY <1>7 DEF syncPendingReceipts
  <2>3. r \in Runs
    BY <1>4
  <2> HIDE DEF r
  <2>4. Append(<<>>, r) \in Seq(Runs) /\ Append(<<>>, r) # <<>> /\ Head(Append(<<>>, r)) = r
    BY <2>3
  <2> QED
    BY <1>7, <2>1, <2>2, <2>4
<1>8. CASE runs # <<>>
  <2> DEFINE r == [owner |-> a, todo |-> <<>>, pc |-> "behind"]
  <2>1. syncPendingReceipts(a) \in {runs, Append(runs, r)}
    BY <1>8 DEF syncPendingReceipts
  <2>2. r \in Runs
    BY <1>5
  <2> HIDE DEF r
  <2>3. Append(runs, r) \in Seq(Runs) /\ Append(runs, r) # <<>> /\ Head(Append(runs, r)) = Head(runs)
    BY <1>6, <1>8, <2>2
  <2> QED
    BY <1>6, <1>8, <2>1, <2>3
<1> QED
  BY <1>7, <1>8

LEMMA SyncGoes ==
  ASSUME PlaceInv, NEW a \in Accounts, runs' = syncPendingReceipts(a)
  PROVE  RunsGo
<1>1. PICK rs : rs = syncPendingReceipts(a)
  OBVIOUS
<1> QED
  BY <1>1, SyncIs DEF RunsGo

-----------------------------------------------------------------------------
(* Consent, and the profile.                                                *)

Calm == TypeOK' /\ ScreensFit' /\ Quiet /\ QueueGoes /\ RunsGo

LEMMA Records ==
  /\ NoImport \in Imports /\ NoImport.pc = "idle" /\ NoImport.photo = NoPhoto
  /\ Ready \in Cameras /\ Ready.page = NoPhoto /\ Ready.scanning = FALSE /\ Ready.flow = "ready"
  /\ NoCall \in Calls /\ NoCall.pc = "none" /\ NoCall.photo = NoPhoto /\ NoCall.answer = "none"
BY Bounds DEF NoImport, Imports, Ready, Cameras, NoCall, Calls, NoPhoto

LEMMA ImportIdle ==
  ASSUME PlaceInv
  PROVE  /\ import.photo = calls["import"].photo
         /\ import.pc # "uploading" => import.photo = NoPhoto /\ calls["import"] = NoCall
BY Records DEF PlaceInv, ImportFit, CallsFit, CallOK, Slots

(* An import that does not upload, changed into another. *)
LEMMA ImportQuiet ==
  ASSUME PlaceInv, UNCHANGED <<calls, takenBy, receipts, unsure>>, camera'.page \in {camera.page, NoPhoto},
         \/ import' = import
         \/ import.pc # "uploading" /\ import'.pc # "uploading" /\ import'.photo = NoPhoto
  PROVE  Quiet
BY ImportIdle DEF Quiet

LEMMA ActIs ==
  ASSUME PlaceInv, Act
  PROVE  acts' \in 0 .. MaxActs
BY Bounds DEF PlaceInv, TypeOK, Act

LEMMA ConsentScreenIs ==
  ASSUME PlaceInv, NEW k, NEW flow \in {"ready", "processing", "low-quality", "queued"}, ConsentScreen(k, flow)
  PROVE  camera' \in Cameras /\ camera'.page \in {camera.page, NoPhoto} /\ cut' \subseteq Photos
         /\ (camera'.scanning => camera.scanning /\ camera'.page = camera.page)
<1>0. camera \in Cameras /\ camera.page \in 0 .. MaxPhotos /\ cut \subseteq Photos
  BY DEF PlaceInv, TypeOK, Cameras
<1>1. CASE k = "no"
  <2>1. camera' = [Ready EXCEPT !.flow = flow] /\ cut' = IF HoldsPage THEN cut \cup {camera.page} ELSE cut
    BY <1>1 DEF ConsentScreen
  <2>2. camera' \in Cameras /\ camera'.page = NoPhoto /\ camera'.scanning = FALSE
    BY <2>1, Records DEF Cameras
  <2>3. cut' \subseteq Photos
    BY <1>0, <2>1 DEF HoldsPage, NoPhoto, Photos
  <2> QED
    BY <2>2, <2>3
<1>2. CASE k # "no"
  <2>1. camera' = [camera EXCEPT !.flow = flow] /\ cut' = cut
    BY <1>2 DEF ConsentScreen
  <2> QED
    BY <1>0, <2>1 DEF Cameras
<1> QED
  BY <1>1, <1>2

LEMMA Allows ==
  ASSUME PlaceInv, Allow
  PROVE  Calm
<1>0. user \in Accounts
  BY DEF PlaceInv, TypeOK, Allow, ConsentOffers
<1>1. /\ import' \in Imports
      /\ import' = import \/ (import.pc # "uploading" /\ import'.pc # "uploading" /\ import'.photo = NoPhoto)
      /\ import'.pc \in {"asking", "picking"} => import.pc \in {"asking", "picking"} /\ import'.owner = import.owner
  <2>1. CASE import.pc = "asking"
    <3>1. import' = [import EXCEPT !.pc = "picking"]
      BY <2>1 DEF Allow
    <3> QED
      BY <2>1, <3>1, ImportIdle DEF PlaceInv, TypeOK, Imports
  <2>2. CASE import.pc = "asking again"
    <3>1. import' = NoImport
      BY <2>2 DEF Allow
    <3> QED
      BY <2>2, <3>1, Records
  <2>3. CASE import.pc \notin {"asking", "asking again"}
    <3>1. import' = import
      BY <2>3 DEF Allow
    <3> QED
      BY <3>1 DEF PlaceInv, TypeOK
  <2> QED
    BY <2>1, <2>2, <2>3
<1>a. acts' \in 0 .. MaxActs /\ known' \in {"yes", "no", "unknown"} /\ due' \in BOOLEAN
  BY ActIs DEF Allow, Knows, PlaceInv, TypeOK
<1>2. TypeOK'
  BY <1>0, <1>1, <1>a DEF PlaceInv, TypeOK, Allow, device, store, fate
<1>3. ScreensFit'
  BY <1>0, <1>1 DEF PlaceInv, Allow, ScreensFit, Taker
<1>4. Quiet
  BY <1>1, ImportQuiet DEF Allow, fate
<1>5. QueueGoes /\ RunsGo
  BY SameStore, SameRuns DEF Allow
<1> QED
  BY <1>2, <1>3, <1>4, <1>5 DEF Calm

LEMMA Declines ==
  ASSUME PlaceInv, Decline
  PROVE  Calm
<1>1. import' = NoImport /\ import' \in Imports
  BY Records DEF Decline
<1>2. TypeOK'
  BY <1>1 DEF PlaceInv, TypeOK, Decline, device, store, fate, sync, server, world
<1>3. ScreensFit'
  BY <1>1, Records DEF PlaceInv, Decline, ScreensFit, sync, Taker
<1>4. Quiet
  BY <1>1, Records, ImportQuiet DEF Decline, fate, server
<1>5. QueueGoes /\ RunsGo
  BY SameStore, SameRuns DEF Decline, sync
<1> QED
  BY <1>2, <1>3, <1>4, <1>5 DEF Calm

LEMMA Withdraws ==
  ASSUME PlaceInv, NEW here \in BOOLEAN, Withdraw(here)
  PROVE  Calm
<1>0. user \in Accounts
  BY DEF PlaceInv, TypeOK, Withdraw
<1>1. camera' \in Cameras /\ camera'.page \in {camera.page, NoPhoto} /\ cut' \subseteq Photos
      /\ (camera'.scanning => camera.scanning /\ camera'.page = camera.page)
  <2>1. camera.flow \in {"ready", "processing", "low-quality", "queued"}
    BY DEF PlaceInv, TypeOK, Cameras
  <2> QED
    BY <2>1, ConsentScreenIs DEF Withdraw, PlaceInv, TypeOK
<1>2. known' \in {"yes", "no", "unknown"} /\ due' \in BOOLEAN /\ acts' \in 0 .. MaxActs
  BY ActIs DEF Withdraw, Knows, PlaceInv, TypeOK
<1>3. TypeOK'
  BY <1>0, <1>1, <1>2 DEF PlaceInv, TypeOK, Withdraw, device, store
<1>4. ScreensFit'
  BY <1>0, <1>1 DEF PlaceInv, Withdraw, ScreensFit, Taker
<1>5. Quiet
  BY <1>1 DEF Withdraw, Quiet
<1>6. QueueGoes /\ RunsGo
  BY SameStore, SameRuns DEF Withdraw
<1> QED
  BY <1>3, <1>4, <1>5, <1>6 DEF Calm

LEMMA Fetches ==
  ASSUME PlaceInv, FetchMe
  PROVE  Calm
<1>0. user \in Accounts
  BY DEF PlaceInv, TypeOK, FetchMe
<1>1. camera' \in Cameras /\ camera'.page \in {camera.page, NoPhoto} /\ cut' \subseteq Photos
      /\ (camera'.scanning => camera.scanning /\ camera'.page = camera.page)
  <2>1. camera.flow \in {"ready", "processing", "low-quality", "queued"}
    BY DEF PlaceInv, TypeOK, Cameras
  <2> QED
    BY <2>1, ConsentScreenIs DEF FetchMe
<1>2. known' \in {"yes", "no", "unknown"} /\ due' \in BOOLEAN
  BY DEF FetchMe, Knows, Truth, PlaceInv, TypeOK
<1>3. TypeOK'
  BY <1>0, <1>1, <1>2 DEF PlaceInv, TypeOK, FetchMe, device, store, server, world
<1>4. ScreensFit'
  BY <1>0, <1>1 DEF PlaceInv, FetchMe, ScreensFit, Taker
<1>5. Quiet
  BY <1>1 DEF FetchMe, Quiet, server
<1>6. QueueGoes /\ RunsGo
  BY SameStore, SameRuns DEF FetchMe
<1> QED
  BY <1>3, <1>4, <1>5, <1>6 DEF Calm

-----------------------------------------------------------------------------
(* The scanner, imports, the effect and the rows, as long as no photo moves. *)

LEMMA CameraQuiet ==
  ASSUME PlaceInv, UNCHANGED <<calls, takenBy, receipts, unsure, import, user, listening, timer>>,
         camera'.page \in {camera.page, NoPhoto}, camera'.scanning => user \in Accounts /\ camera'.page = NoPhoto
  PROVE  Quiet /\ ScreensFit'
BY DEF PlaceInv, Quiet, ScreensFit, Taker

LEMMA Opens ==
  ASSUME PlaceInv, OpenScanner
  PROVE  Calm
<1>0. user \in Accounts
  BY DEF PlaceInv, TypeOK, OpenScanner, CaptureOffers
<1>1. camera' = [Ready EXCEPT !.scanning = TRUE]
  BY DEF OpenScanner
<1>2. camera' \in Cameras /\ camera'.page = NoPhoto
  BY <1>1, Records DEF Cameras
<1>3. told' \subseteq Photos
  BY DEF PlaceInv, TypeOK, OpenScanner, HoldsPage, Cameras, NoPhoto, Photos
<1>4. Quiet /\ ScreensFit'
  BY <1>0, <1>2, CameraQuiet DEF OpenScanner, sync, server
<1>5. acts' \in 0 .. MaxActs
  BY ActIs DEF OpenScanner, PlaceInv, TypeOK, world
<1>6. TypeOK'
  BY <1>2, <1>3, <1>5 DEF PlaceInv, TypeOK, OpenScanner, device, store, sync, server, world
<1>7. QueueGoes /\ RunsGo
  BY SameStore, SameRuns DEF OpenScanner, sync
<1> QED
  BY <1>4, <1>6, <1>7 DEF Calm

LEMMA CapturesNothing ==
  ASSUME PlaceInv, NoCapture
  PROVE  Calm
<1>1. PICK flow \in {camera.flow, "low-quality"} : camera' = [camera EXCEPT !.scanning = FALSE, !.flow = flow]
  BY DEF NoCapture
<1>2. camera' \in Cameras /\ camera'.page = camera.page /\ camera'.scanning = FALSE
  BY <1>1 DEF Cameras, PlaceInv, TypeOK
<1>4. Quiet /\ ScreensFit'
  BY <1>2, CameraQuiet DEF NoCapture, sync, server, fate
<1>6. TypeOK'
  BY <1>2 DEF PlaceInv, TypeOK, NoCapture, device, store, sync, server, fate, world
<1>7. QueueGoes /\ RunsGo
  BY SameStore, SameRuns DEF NoCapture, sync
<1> QED
  BY <1>4, <1>6, <1>7 DEF Calm

LEMMA Cancels ==
  ASSUME PlaceInv, CancelPage
  PROVE  Calm
<1>1. camera' = [camera EXCEPT !.page = NoPhoto] /\ camera.page # NoPhoto
  BY DEF CancelPage, HoldsPage
<1>a. camera \in Cameras /\ ~camera.scanning
  BY <1>1 DEF PlaceInv, TypeOK, ScreensFit
<1>2. camera' \in Cameras /\ camera'.page = NoPhoto /\ ~camera'.scanning
  BY <1>1, <1>a, Bounds DEF Cameras, NoPhoto
<1>3. told' \subseteq Photos
  BY <1>1 DEF PlaceInv, TypeOK, CancelPage, Cameras, NoPhoto, Photos
<1>4. Quiet /\ ScreensFit'
  BY <1>2, CameraQuiet DEF CancelPage, sync, server
<1>6. TypeOK'
  BY <1>2, <1>3 DEF PlaceInv, TypeOK, CancelPage, device, store, sync, server, world
<1>7. QueueGoes /\ RunsGo
  BY SameStore, SameRuns DEF CancelPage, sync
<1> QED
  BY <1>4, <1>6, <1>7 DEF Calm

LEMMA ImportBegins ==
  ASSUME PlaceInv, Import
  PROVE  Calm
<1>0. user \in Accounts /\ import.pc # "uploading"
  BY DEF PlaceInv, TypeOK, Import, ensureConsent, ImportOffers
<1>1. import' \in Imports /\ import'.pc \in {"asking", "picking"} /\ import'.photo = NoPhoto /\ import'.owner = user
  BY <1>0, Bounds DEF Import, ensureConsent, Imports, NoPhoto
<1>2. Quiet
  BY <1>0, <1>1, ImportQuiet DEF Import, ensureConsent, fate, server
<1>3. ScreensFit'
  BY <1>0, <1>1 DEF PlaceInv, Import, ensureConsent, ScreensFit, sync, Taker
<1>4. acts' \in 0 .. MaxActs
  BY ActIs DEF Import, ensureConsent
<1>6. TypeOK'
  BY <1>1, <1>4 DEF PlaceInv, TypeOK, Import, ensureConsent, device, store, sync, server, fate
<1>7. QueueGoes /\ RunsGo
  BY SameStore, SameRuns DEF Import, ensureConsent, sync
<1> QED
  BY <1>2, <1>3, <1>6, <1>7 DEF Calm

LEMMA PicksNothing ==
  ASSUME PlaceInv, NothingPicked
  PROVE  Calm
<1>1. import' = NoImport /\ import' \in Imports
  BY Records DEF NothingPicked
<1>2. TypeOK'
  BY <1>1 DEF PlaceInv, TypeOK, NothingPicked, device, store, fate, sync, server, world
<1>3. ScreensFit'
  BY <1>1, Records DEF PlaceInv, NothingPicked, ScreensFit, sync, Taker
<1>4. Quiet
  BY <1>1, Records, ImportQuiet DEF NothingPicked, fate, server
<1>5. QueueGoes /\ RunsGo
  BY SameStore, SameRuns DEF NothingPicked, sync
<1> QED
  BY <1>2, <1>3, <1>4, <1>5 DEF Calm

(* Nothing of the screens, of the calls and of the store changes. *)
LEMMA StillScreens ==
  ASSUME PlaceInv, UNCHANGED <<calls, takenBy, receipts, unsure, import, camera, user>>,
         timer' => listening' \in Accounts
  PROVE  Quiet /\ ScreensFit'
BY DEF PlaceInv, Quiet, ScreensFit, Taker

LEMMA EffectRuns ==
  ASSUME PlaceInv, RunEffect
  PROVE  Calm
<1>1. Wanted(queue) => user \in Accounts
  BY DEF Wanted, PlaceInv, TypeOK
<1>2. RunsGo
  BY <1>1, SyncGoes, SameRuns DEF RunEffect
<1>3. runs' \in Seq(Runs)
  BY <1>2 DEF RunsGo
<1>4. Quiet /\ ScreensFit'
  BY StillScreens DEF RunEffect, flows, server, fate
<1>5. listening' \in Accounts \cup {NoOne} /\ awaiting' \in BOOLEAN
  BY <1>1 DEF RunEffect, Wanted, PlaceInv, TypeOK
<1>6. TypeOK'
  BY <1>3, <1>5 DEF PlaceInv, TypeOK, RunEffect, device, store, flows, server, fate, world
<1>7. QueueGoes
  BY SameStore DEF RunEffect
<1> QED
  BY <1>2, <1>4, <1>6, <1>7 DEF Calm

LEMMA Retries ==
  ASSUME PlaceInv, Retry
  PROVE  Calm
<1>1. listening \in Accounts
  BY DEF Retry, PlaceInv, ScreensFit
<1>2. RunsGo
  BY <1>1, SyncGoes, SameRuns DEF Retry, Sync
<1>3. runs' \in Seq(Runs)
  BY <1>2 DEF RunsGo
<1>4. timer' = FALSE /\ awaiting' \in BOOLEAN
  BY DEF Retry, Sync, PlaceInv, TypeOK
<1>5. Quiet /\ ScreensFit'
  BY <1>4, StillScreens DEF Retry, flows, server, fate
<1>6. TypeOK'
  BY <1>3, <1>4 DEF PlaceInv, TypeOK, Retry, device, store, flows, server, fate, world
<1>7. QueueGoes
  BY SameStore DEF Retry
<1> QED
  BY <1>2, <1>5, <1>6, <1>7 DEF Calm

LEMMA Returns ==
  ASSUME PlaceInv, Foreground
  PROVE  Calm
<1>1. listening # NoOne => listening \in Accounts
  BY DEF PlaceInv, TypeOK
<1>2. RunsGo
  BY <1>1, SyncGoes, SameRuns DEF Foreground, Sync
<1>3. runs' \in Seq(Runs)
  BY <1>2 DEF RunsGo
<1>4. timer' \in {timer, FALSE} /\ awaiting' \in BOOLEAN
  BY DEF Foreground, Sync, PlaceInv, TypeOK
<1>5. Quiet /\ ScreensFit'
  <2>1. timer' => listening' \in Accounts
    BY <1>4 DEF Foreground, PlaceInv, ScreensFit
  <2> QED
    BY <2>1, StillScreens DEF Foreground, flows, server, fate
<1>6. TypeOK'
  BY <1>3, <1>4 DEF PlaceInv, TypeOK, Foreground, store, flows, server, fate, world
<1>7. QueueGoes
  BY SameStore DEF Foreground
<1> QED
  BY <1>2, <1>5, <1>6, <1>7 DEF Calm

LEMMA Leaves ==
  ASSUME PlaceInv, Background \/ (\E on \in BOOLEAN : Connect(on)) \/ Upgrade
  PROVE  Calm
<1>1. Quiet /\ ScreensFit'
  BY StillScreens DEF Background, Connect, Upgrade, flows, server, fate, sync, PlaceInv, ScreensFit
<1>2. QueueGoes /\ RunsGo
  BY SameStore, SameRuns DEF Background, Connect, Upgrade, sync
<1>3. TypeOK'
  <2>1. CASE Background
    BY <2>1 DEF PlaceInv, TypeOK, Background, store, flows, sync, server, fate, world
  <2>2. CASE \E on \in BOOLEAN : Connect(on)
    BY <2>2, ActIs DEF PlaceInv, TypeOK, Connect, store, flows, server, fate
  <2>3. CASE Upgrade
    BY <2>3, ActIs DEF PlaceInv, TypeOK, Upgrade, device, store, flows, sync, fate
  <2> QED
    BY <2>1, <2>2, <2>3
<1> QED
  BY <1>1, <1>2, <1>3 DEF Calm

LEMMA RetriesNow ==
  ASSUME PlaceInv, RetryNow
  PROVE  Calm
<1>1. user \in Accounts
  BY DEF RetryNow, PlaceInv, TypeOK
<1>2. RunsGo
  BY <1>1, SyncGoes DEF RetryNow
<1>3. runs' \in Seq(Runs)
  BY <1>2 DEF RunsGo
<1>5. Quiet /\ ScreensFit'
  BY StillScreens DEF RetryNow, flows, server, fate, PlaceInv, ScreensFit
<1>6. TypeOK'
  BY <1>3, ActIs DEF PlaceInv, TypeOK, RetryNow, device, store, flows, server, fate
<1>7. QueueGoes
  BY SameStore DEF RetryNow
<1> QED
  BY <1>2, <1>5, <1>6, <1>7 DEF Calm

LEMMA SignsIn ==
  ASSUME PlaceInv, NEW a \in Accounts, SignIn(a)
  PROVE  Calm
<1>0. user = NoOne /\ NoOne \notin Accounts
  BY Bounds DEF SignIn
<1>1. camera.page = NoPhoto
  <2>1. camera.page # NoPhoto => Taker(camera.page, user)
    BY DEF PlaceInv, ScreensFit
  <2>2. \A p \in 1 .. Len(takenBy) : takenBy[p] \in Accounts
    BY DEF PlaceInv, TypeOK
  <2> QED
    BY <1>0, <2>1, <2>2 DEF Taker
<1>a. calls["camera"].pc = "none"
  BY <1>0, CallTaker DEF PlaceInv, ScreensFit, Slots
<1>2. ScreensFit'
  BY <1>0, <1>1, <1>a DEF PlaceInv, ScreensFit, SignIn, flows
<1>3. Quiet
  BY DEF SignIn, Quiet, flows, server, fate
<1>4. QueueGoes /\ RunsGo
  BY SameStore, SameRuns DEF SignIn
<1>5. TypeOK'
  BY ActIs DEF PlaceInv, TypeOK, SignIn, device, store, flows, server, fate
<1> QED
  BY <1>2, <1>3, <1>4, <1>5 DEF Calm

LEMMA RowGoes ==
  ASSUME PlaceInv, NEW p \in Photos, UploadNow(p)
  PROVE  Calm
<1>0. user \in Accounts
  BY DEF UploadNow, PlaceInv, TypeOK
<1>1. KeepsAllBut(NoPhoto, requeue(p))
  BY RowsAre DEF PlaceInv, RowsFit
<1>2. QueueGoes
  <2>1. PICK q : q = requeue(p)
    OBVIOUS
  <2> QED
    BY <1>1, <2>1, RowsGo DEF UploadNow, SetQueue
<1>3. queue' \in Seq(PendingReceipts) /\ \A i, j \in 1 .. Len(queue') : queue'[i].photo = queue'[j].photo => i = j
  BY <1>1 DEF UploadNow, SetQueue, KeepsAllBut, Keeps, QueueOK
<1>4. TodoFit(<<p>>, user) /\ FromQueue(<<p>>, queue)
  <2>1. PICK i \in 1 .. Len(queue) : queue[i].photo = p /\ queue[i].owner = user
    BY DEF UploadNow, FailedRow
  <2>2. Taker(p, user) /\ p \notin Flow
    BY <2>1 DEF PlaceInv, RowsFit
  <2>3. <<p>> \in Seq(Photos) /\ Len(<<p>>) = 1 /\ <<p>>[1] = p
    OBVIOUS
  <2>4. \A j \in 1 .. Len(<<p>>) : j = 1
    BY <2>3
  <2> QED
    BY <2>1, <2>2, <2>3, <2>4 DEF TodoFit, FromQueue
<1>5. RunsGo
  <2>0. runs \in Seq(Runs)
    BY DEF PlaceInv, RunsFit
  <2>1. CASE runs' = runs
    BY <2>1, SameRuns
  <2>2. CASE runs' # runs /\ runs = <<>>
    <3> DEFINE r == [owner |-> user, todo |-> <<p>>, pc |-> "next"]
    <3>1. runs' = Append(<<>>, r)
      BY <2>2 DEF UploadNow
    <3>2. r \in Runs
      BY <1>0, <1>4 DEF Runs, TodoFit
    <3>3. r.pc = "next" /\ TodoFit(r.todo, r.owner) /\ FromQueue(r.todo, queue)
      BY <1>4
    <3> HIDE DEF r
    <3>4. Append(<<>>, r) \in Seq(Runs) /\ Append(<<>>, r) # <<>> /\ Head(Append(<<>>, r)) = r
      BY <3>2
    <3> QED
      BY <2>2, <3>1, <3>3, <3>4 DEF RunsGo
  <2>3. CASE runs' # runs /\ runs # <<>>
    <3> DEFINE r == [owner |-> user, todo |-> <<>>, pc |-> "behind"]
    <3>1. runs' = Append(runs, r)
      BY <2>3 DEF UploadNow
    <3>2. r \in Runs
      BY <1>0 DEF Runs
    <3> HIDE DEF r
    <3>3. Append(runs, r) \in Seq(Runs) /\ Append(runs, r) # <<>> /\ Head(Append(runs, r)) = Head(runs)
      BY <2>0, <2>3, <3>2
    <3> QED
      BY <2>3, <3>1, <3>3 DEF RunsGo
  <2> QED
    BY <2>1, <2>2, <2>3
<1>6. Quiet /\ ScreensFit'
  BY StillScreens DEF UploadNow, flows, server, fate, PlaceInv, ScreensFit
<1>7. runs' \in Seq(Runs) /\ due' \in BOOLEAN
  BY <1>5 DEF RunsGo, UploadNow, SetQueue, PlaceInv, TypeOK
<1>8. TypeOK'
  BY <1>3, <1>7 DEF PlaceInv, TypeOK, UploadNow, device, flows, server, fate, world
<1> QED
  BY <1>2, <1>5, <1>6, <1>8 DEF Calm

(* A row taken out, with its file. *)
LEMMA RemovalGoes ==
  ASSUME PlaceInv, NEW p, queue' = removePendingReceipt(p), files' = files \ {p}
  PROVE  /\ QueueGoes /\ files' \subseteq Photos
         /\ queue' \in Seq(PendingReceipts)
         /\ \A i, j \in 1 .. Len(queue') : queue'[i].photo = queue'[j].photo => i = j
<1>1. PICK q : q = removePendingReceipt(p)
  OBVIOUS
<1>2. KeepsAllBut(p, q) /\ \A i \in 1 .. Len(q) : q[i].photo # p
  BY <1>1, RemovalIs DEF PlaceInv, RowsFit
<1>3. QueueGoes
  BY <1>1, <1>2 DEF QueueGoes, KeepsAllBut
<1>4. files' \subseteq Photos
  BY DEF PlaceInv, TypeOK
<1> QED
  BY <1>1, <1>2, <1>3, <1>4 DEF KeepsAllBut, Keeps, QueueOK

LEMMA Drops ==
  ASSUME PlaceInv, NEW p \in Photos, DropPending(p)
  PROVE  Calm
<1>1. /\ QueueGoes /\ files' \subseteq Photos
      /\ queue' \in Seq(PendingReceipts)
      /\ \A i, j \in 1 .. Len(queue') : queue'[i].photo = queue'[j].photo => i = j
  BY RemovalGoes DEF DropPending, SetQueue
<1>2. Quiet /\ ScreensFit'
  BY StillScreens DEF DropPending, flows, server, fate, PlaceInv, ScreensFit
<1>3. RunsGo
  BY SameRuns DEF DropPending
<1>4. due' \in BOOLEAN /\ told' \subseteq Photos
  BY DEF DropPending, SetQueue, PlaceInv, TypeOK
<1>5. TypeOK'
  BY <1>1, <1>4 DEF PlaceInv, TypeOK, DropPending, device, flows, server, world
<1> QED
  BY <1>1, <1>2, <1>3, <1>5 DEF Calm

-----------------------------------------------------------------------------
(* The server's steps.                                                      *)

(* One call goes on, with its photo and its account. *)
Serves(slot) ==
    /\ calls[slot].pc \in {"sent", "reading"}
    /\ calls' \in [Slots -> Calls]
    /\ \A t \in Slots \ {slot} : calls'[t] = calls[t]
    /\ calls'[slot].photo = calls[slot].photo /\ calls'[slot].account = calls[slot].account
    /\ calls'[slot].pc \in {"reading", "answered"}
    /\ calls'[slot].pc # "answered" => calls'[slot].answer = "none"
    /\ UNCHANGED <<user, device, known, store, flows, sync, takenBy, granted, premium, cut, told, displaced>>

LEMMA AnswerIs ==
  ASSUME PlaceInv, NEW slot \in Slots, NEW answer \in Answers
  PROVE  LET c == Answer(slot, answer) IN
         /\ c \in [Slots -> Calls] /\ \A t \in Slots \ {slot} : c[t] = calls[t]
         /\ c[slot].photo = calls[slot].photo /\ c[slot].account = calls[slot].account
         /\ c[slot].pc = "answered" /\ c[slot].answer = answer
BY DEF PlaceInv, TypeOK, Answer, Calls

LEMMA Served ==
  ASSUME PlaceInv, NEW slot \in Slots, Serves(slot), TypeOK'
  PROVE  PlaceInv'
<1>0. /\ \A s \in Slots : calls'[s].photo = calls[s].photo /\ calls'[s].account = calls[s].account
      /\ \A s \in Slots : calls'[s].pc # "none" <=> calls[s].pc # "none"
  BY DEF Serves
<1>a. Flow' = Flow
  BY <1>0 DEF Serves, flows, Flow, Slots
<1>1. Longer /\ FlowShrinks /\ QueueGoes /\ RunsGo
  BY <1>a, SameStore, SameRuns, SameTakers DEF Serves, FlowShrinks, sync
<1>2. RowsFit' /\ RunsFit'
  BY <1>0, <1>1, RowsStay, RunsStay DEF PlaceInv, TypeOK, Serves, Slots
<1>3. CallsFit'
  <2>1. \A s \in Slots : CallOK(calls[s])'
    BY <1>0 DEF Serves, CallsFit, CallOK, Taker, PlaceInv
  <2> QED
    BY <2>1 DEF CallsFit, CallOK, Taker
<1>4. ImportFit' /\ FlowFit'
  BY <1>0 DEF Serves, flows, PlaceInv, ImportFit, FlowFit, Slots
<1>5. ScreensFit'
  BY <1>0 DEF Serves, flows, sync, PlaceInv, ScreensFit, Taker, Slots
<1> QED
  BY <1>2, <1>3, <1>4, <1>5 DEF PlaceInv

LEMMA StoredOnce ==
  ASSUME NEW r \in [Accounts -> [Photos -> Nat]], NEW a \in Accounts, NEW p \in Photos
  PROVE  [r EXCEPT ![a][p] = @ + 1] \in [Accounts -> [Photos -> Nat]]
OBVIOUS

LEMMA SlotsFinite == IsFiniteSet(Slots) /\ \A T \in SUBSET Slots : IsFiniteSet(T) /\ Cardinality(T) \in Nat
<1>1. IsFiniteSet({}) /\ IsFiniteSet({} \cup {"camera"}) /\ IsFiniteSet(({} \cup {"camera"}) \cup {"import"})
      /\ IsFiniteSet((({} \cup {"camera"}) \cup {"import"}) \cup {"run"})
  BY FS_EmptySet, FS_AddElement
<1>2. Slots = (({} \cup {"camera"}) \cup {"import"}) \cup {"run"}
  BY DEF Slots
<1> QED
  BY <1>1, <1>2, FS_Subset, FS_CardinalityType

(* What a check remembers of the scans of the account that are past the count. *)
LEMMA TogetherIs ==
  ASSUME PlaceInv, NEW slot \in Slots, Check(slot)
  PROVE  /\ together' \in [Accounts -> Nat]
         /\ \A a \in Accounts : together'[a] >= together[a]
         /\ calls'[slot].pc = "reading" =>
               together'[calls[slot].account]
                  >= Cardinality({s \in Slots \ {slot} : Reading(s, calls[slot].account)})
<1>1. PICK a \in Accounts : a = calls[slot].account
  BY CallTaker DEF Check
<1>2. PICK n \in Nat : n = Cardinality({s \in Slots \ {slot} : Reading(s, a)})
  BY SlotsFinite
<1>3. together' = IF calls'[slot].pc = "reading"
                  THEN [together EXCEPT ![a] = Larger(together[a], n)] ELSE together
  BY <1>1, <1>2 DEF Check
<1>4. together \in [Accounts -> Nat]
  BY DEF PlaceInv, TypeOK
<1>5. together[a] \in Nat /\ Larger(together[a], n) \in Nat
      /\ Larger(together[a], n) >= n /\ Larger(together[a], n) >= together[a]
  BY <1>4 DEF Larger
<1>6. \A b \in Accounts : together[b] \in Nat
  BY <1>4
<1> HIDE DEF Larger
<1> QED
  BY <1>1, <1>2, <1>3, <1>4, <1>5, <1>6

LEMMA Checks ==
  ASSUME PlaceInv, NEW slot \in Slots, Check(slot)
  PROVE  PlaceInv'
<1>1. CASE calls' = [calls EXCEPT ![slot].pc = "reading"]
  <2>1. Serves(slot)
    BY <1>1 DEF Check, Serves, PlaceInv, TypeOK, Calls, CallsFit, CallOK, fate
  <2>2. together' \in [Accounts -> Nat]
    BY TogetherIs
  <2>3. TypeOK'
    BY <2>1, <2>2 DEF PlaceInv, TypeOK, Check, Serves, device, store, flows, sync, fate, world
  <2> QED
    BY <2>1, <2>3, Served
<1>2. CASE \E answer \in Answers : calls' = Answer(slot, answer)
  <2>1. Serves(slot)
    BY <1>2, AnswerIs DEF Check, Serves, fate
  <2>2. together' \in [Accounts -> Nat]
    BY TogetherIs
  <2>3. TypeOK'
    BY <2>1, <2>2 DEF PlaceInv, TypeOK, Check, Serves, device, store, flows, sync, fate, world
  <2> QED
    BY <2>1, <2>3, Served
<1> QED
  BY <1>1, <1>2 DEF Check, Answers

LEMMA Reads ==
  ASSUME PlaceInv, NEW slot \in Slots, Read(slot)
  PROVE  PlaceInv'
<1>1. calls' = Answer(slot, "ok") \/ calls' = Answer(slot, "unreadable")
  BY DEF Read
<1>2. Serves(slot)
  BY <1>1, AnswerIs DEF Read, Serves, Answers, fate
<1>a. calls[slot].account \in Accounts /\ calls[slot].photo \in Photos
  BY CallTaker DEF Read
<1>b. receipts' = receipts \/ receipts' = [receipts EXCEPT ![calls[slot].account][calls[slot].photo] = @ + 1]
  BY DEF Read
<1>c. receipts \in [Accounts -> [Photos -> Nat]]
  BY DEF PlaceInv, TypeOK
<1>3. receipts' \in [Accounts -> [Photos -> Nat]]
  BY <1>a, <1>b, <1>c, StoredOnce
<1>4. TypeOK'
  BY <1>2, <1>3 DEF PlaceInv, TypeOK, Read, Serves, device, store, flows, sync, fate, world
<1> QED
  BY <1>2, <1>4, Served

LEMMA Failing ==
  ASSUME PlaceInv, NEW slot \in Slots, Fails(slot)
  PROVE  PlaceInv'
<1>1. calls' = Answer(slot, "retry")
  BY DEF Fails
<1>2. Serves(slot)
  BY <1>1, AnswerIs DEF Fails, Serves, Answers
<1>a. calls[slot].account \in Accounts /\ calls[slot].photo \in Photos
  BY CallTaker DEF Fails
<1>b. \/ receipts' = receipts /\ unsure' = unsure
      \/ /\ receipts' = [receipts EXCEPT ![calls[slot].account][calls[slot].photo] = @ + 1]
         /\ unsure' = unsure \cup {calls[slot].photo}
  BY DEF Fails
<1>c. receipts \in [Accounts -> [Photos -> Nat]] /\ unsure \subseteq Photos
  BY DEF PlaceInv, TypeOK
<1>3. receipts' \in [Accounts -> [Photos -> Nat]] /\ unsure' \subseteq Photos
  BY <1>a, <1>b, <1>c, StoredOnce
<1>5. faults' \in 0 .. MaxFaults
  BY Bounds DEF Fails, PlaceInv, TypeOK
<1>6. UNCHANGED <<user, device, known, store, flows, sync, granted, premium, together, takenBy, told, cut,
                  displaced, acts>>
  BY DEF Fails
<1>4. TypeOK'
  BY <1>2, <1>3, <1>5, <1>6 DEF PlaceInv, TypeOK, Serves, device, store, flows, sync
<1> QED
  BY <1>2, <1>4, Served

-----------------------------------------------------------------------------
(* A photo submitted or picked.                                             *)

(* A photo that leaves the screens for the queue. *)
LEMMA RowsAdd ==
  ASSUME PlaceInv, Longer, FlowShrinks, NEW p \in Photos, NEW a \in Accounts,
         queue' = addPendingReceipt(p, a), files' = files \cup {p},
         \A i \in 1 .. Len(queue) : queue[i].photo # p,
         p \in 1 .. Len(takenBy'), takenBy'[p] = a, p \notin Flow', takenBy' \in Seq(Accounts)
  PROVE  /\ RowsFit' /\ files' \subseteq Photos /\ queue' \in Seq(PendingReceipts)
         /\ \A i, j \in 1 .. Len(queue') : queue'[i].photo = queue'[j].photo => i = j
<1>1. PICK q : q = addPendingReceipt(p, a)
  OBVIOUS
<1>2. /\ QueueOK(q) /\ Len(q) = Len(queue) + 1
      /\ q[Len(queue) + 1].photo = p /\ q[Len(queue) + 1].owner = a
      /\ \A i \in 1 .. Len(queue) : q[i] = queue[i]
  BY <1>1, AdditionIs DEF PlaceInv, RowsFit
<1>3. ASSUME NEW i \in 1 .. Len(q)
      PROVE  Taker(q[i].photo, q[i].owner)' /\ q[i].photo \in files' /\ q[i].photo \notin Flow'
  <2>0. Len(queue) \in Nat
    BY DEF PlaceInv, RowsFit, QueueOK
  <2>1. CASE i = Len(queue) + 1
    BY <1>2, <2>1 DEF Taker
  <2>2. CASE i \in 1 .. Len(queue)
    <3>1. Taker(queue[i].photo, queue[i].owner) /\ queue[i].photo \in files /\ queue[i].photo \notin Flow
      BY <2>2 DEF PlaceInv, RowsFit
    <3> QED
      BY <1>2, <2>2, <3>1, TakersAre DEF Taker, Longer, FlowShrinks
  <2> QED
    BY <1>2, <2>0, <2>1, <2>2
<1>4. queue' = q
  BY <1>1
<1>5. RowsFit'
  BY <1>2, <1>3, <1>4 DEF RowsFit, QueueOK
<1> QED
  BY <1>2, <1>4, <1>5 DEF QueueOK, PlaceInv, TypeOK

LEMMA SendIs ==
  ASSUME PlaceInv, NEW slot \in Slots, NEW p \in Photos, NEW a \in Accounts
  PROVE  LET c == Send(slot, p, a) IN
         /\ c \in [Slots -> Calls] /\ \A t \in Slots \ {slot} : c[t] = calls[t]
         /\ c[slot].pc = "sent" /\ c[slot].photo = p /\ c[slot].account = a /\ c[slot].answer = "none"
<1>1. [pc |-> "sent", photo |-> p, account |-> a, answer |-> "none"] \in Calls
  BY Bounds DEF Calls, Photos
<1> QED
  BY <1>1 DEF Send, PlaceInv, TypeOK

(* queuePhoto: the photo is queued, or it is not and the user is told. *)
LEMMA Queues ==
  ASSUME PlaceInv, Longer, FlowShrinks, NEW p \in Photos, user \in Accounts, NEW shown \in Cameras,
         QueuePhoto(p, shown), \A i \in 1 .. Len(queue) : queue[i].photo # p,
         p \in 1 .. Len(takenBy'), takenBy'[p] = user, p \notin Flow', takenBy' \in Seq(Accounts)
  PROVE  /\ RowsFit' /\ files' \subseteq Photos /\ queue' \in Seq(PendingReceipts)
         /\ \A i, j \in 1 .. Len(queue') : queue'[i].photo = queue'[j].photo => i = j
         /\ camera' \in Cameras /\ camera'.page = shown.page /\ (camera'.scanning <=> shown.scanning)
         /\ told' \subseteq Photos /\ due' \in BOOLEAN
<1>1. /\ camera' \in Cameras /\ camera'.page = shown.page /\ (camera'.scanning <=> shown.scanning)
      /\ told' \subseteq Photos /\ due' \in BOOLEAN
  <2>1. \/ camera' = [shown EXCEPT !.flow = "queued"]
        \/ camera' = [shown EXCEPT !.flow = "low-quality"]
    BY DEF QueuePhoto
  <2>2. camera' \in Cameras /\ camera'.page = shown.page /\ (camera'.scanning <=> shown.scanning)
    BY <2>1 DEF Cameras
  <2> QED
    BY <2>2 DEF QueuePhoto, SetQueue, PlaceInv, TypeOK
<1>2. CASE SetQueue(addPendingReceipt(p, user)) /\ files' = files \cup {p}
  <2>1. queue' = addPendingReceipt(p, user)
    BY <1>2 DEF SetQueue
  <2> QED
    BY <1>1, <1>2, <2>1, RowsAdd
<1>3. CASE UNCHANGED <<queue, files>>
  <2>1. QueueGoes
    BY <1>3, SameStore DEF store
  <2>2. RowsFit'
    BY <2>1, RowsStay DEF PlaceInv, TypeOK
  <2> QED
    BY <1>1, <1>3, <2>2 DEF PlaceInv, TypeOK
<1> QED
  BY <1>2, <1>3 DEF QueuePhoto

LEMMA Submits ==
  ASSUME PlaceInv, NEW p \in Photos, Submit(p), user \in Accounts, Longer,
         takenBy' \in Seq(Accounts), Len(takenBy') <= MaxPhotos, p \in 1 .. Len(takenBy'), takenBy'[p] = user,
         \A i \in 1 .. Len(queue) : queue[i].photo # p,
         p # calls["camera"].photo, p # calls["import"].photo, (p = camera.page \/ p \notin 1 .. Len(takenBy)),
         UNCHANGED <<user, device, known, import, runs, listening, awaiting, timer, granted, premium, together,
                     cut, world>>
  PROVE  PlaceInv'
<1>0. p # NoPhoto /\ Ready \in Cameras /\ Ready.page = NoPhoto /\ Ready.scanning = FALSE
  BY Records DEF Photos, NoPhoto
<1>a. RunsGo
  BY SameRuns
<1>b. "camera" \in Slots /\ "import" \in Slots /\ "run" \in Slots
  BY DEF Slots
<1>1. CASE ~connected
  <2>1. QueuePhoto(p, Ready) /\ UNCHANGED <<calls, receipts, displaced, unsure>>
    BY <1>1 DEF Submit
  <2>2. camera'.page = NoPhoto
    BY <1>0, <2>1 DEF QueuePhoto, Cameras
  <2>3. p \notin Flow' /\ FlowShrinks
    BY <1>0, <2>1, <2>2, TakersAre DEF Flow, FlowShrinks, NoPhoto
  <2>4. /\ RowsFit' /\ files' \subseteq Photos /\ queue' \in Seq(PendingReceipts)
        /\ \A i, j \in 1 .. Len(queue') : queue'[i].photo = queue'[j].photo => i = j
        /\ camera' \in Cameras /\ camera'.page = NoPhoto /\ ~camera'.scanning
        /\ told' \subseteq Photos /\ due' \in BOOLEAN
    BY <1>0, <2>1, <2>3, Queues
  <2>5. RunsFit'
    BY <1>a, <2>1, <2>3, RunsStay, TakersAre DEF PlaceInv
  <2>6. CallsFit'
    BY <2>1 DEF PlaceInv, CallsFit, CallOK, Longer, Taker
  <2>7. ImportFit' /\ FlowFit' /\ ScreensFit'
    BY <2>1, <2>2, <2>4 DEF PlaceInv, ImportFit, FlowFit, ScreensFit
  <2>8. TypeOK'
    <3>1. UNCHANGED <<user, connected, active, known, import, runs, listening, awaiting, timer, calls, granted,
                      premium, receipts, together, displaced, unsure, cut, acts, faults>>
      BY <2>1 DEF device, world
    <3>2. TypeOK
      BY DEF PlaceInv
    <3> QED
      BY <2>4, <3>1, <3>2 DEF TypeOK
  <2> QED
    BY <2>4, <2>5, <2>6, <2>7, <2>8 DEF PlaceInv
<1>2. CASE connected
  <2> DEFINE before == calls["camera"]
  <2>1. /\ camera' = [Ready EXCEPT !.flow = "processing"]
        /\ calls' = Send("camera", p, user)
        /\ displaced' = IF Uploading("camera") THEN displaced \cup {before.photo} ELSE displaced
        /\ unsure' = IF Uploading("camera") THEN unsure \cup {before.photo} ELSE unsure
        /\ \/ UNCHANGED receipts
           \/ before.pc = "reading" /\ receipts' = [receipts EXCEPT ![before.account][before.photo] = @ + 1]
        /\ UNCHANGED <<queue, files, due, told>>
    BY <1>2 DEF Submit
  <2>2. camera' \in Cameras /\ camera'.page = NoPhoto /\ ~camera'.scanning
    BY <1>0, <2>1 DEF Cameras
  <2>3. /\ calls' \in [Slots -> Calls] /\ \A t \in Slots \ {"camera"} : calls'[t] = calls[t]
        /\ calls'["camera"].pc = "sent" /\ calls'["camera"].photo = p /\ calls'["camera"].account = user
        /\ calls'["camera"].answer = "none"
    BY <1>b, <2>1, SendIs
  <2>4. calls'["import"] = calls["import"] /\ calls'["run"] = calls["run"]
    BY <1>b, <2>3
  <2>5. Flow' = {NoPhoto, p, calls["import"].photo}
    BY <2>2, <2>3, <2>4 DEF Flow
  <2>6. FlowShrinks
    BY <2>5, TakersAre DEF FlowShrinks, Flow, NoPhoto
  <2>7. QueueGoes
    BY <2>1, SameStore DEF store
  <2>8. RowsFit' /\ RunsFit'
    BY <1>a, <2>4, <2>6, <2>7, RowsStay, RunsStay, TakersAre DEF PlaceInv
  <2>9. CallsFit'
    <3>1. ASSUME NEW s \in Slots PROVE CallOK(calls[s])'
      <4>1. CASE s = "camera"
        BY <2>3, <4>1 DEF CallOK, Taker
      <4>2. CASE s # "camera"
        <5>1. calls'[s] = calls[s] /\ CallOK(calls[s])
          BY <2>3, <4>2 DEF PlaceInv, CallsFit
        <5> QED
          BY <5>1 DEF CallOK, Taker, Longer
      <4> QED
        BY <4>1, <4>2
    <3> QED
      BY <3>1 DEF CallsFit, CallOK, Taker
  <2>10. ImportFit' /\ FlowFit' /\ ScreensFit'
    BY <2>2, <2>3, <2>4 DEF PlaceInv, ImportFit, FlowFit, ScreensFit
  <2>11. receipts' \in [Accounts -> [Photos -> Nat]] /\ displaced' \subseteq Photos /\ unsure' \subseteq Photos
    <3>1. before.pc # "none" => before.account \in Accounts /\ before.photo \in Photos
      BY <1>b, CallTaker
    <3>2. receipts \in [Accounts -> [Photos -> Nat]] /\ displaced \subseteq Photos /\ unsure \subseteq Photos
      BY DEF PlaceInv, TypeOK
    <3>3. displaced' \subseteq Photos /\ unsure' \subseteq Photos
      BY <2>1, <3>1, <3>2 DEF Uploading
    <3>4. CASE UNCHANGED receipts
      BY <3>2, <3>3, <3>4
    <3>5. CASE before.pc = "reading" /\ receipts' = [receipts EXCEPT ![before.account][before.photo] = @ + 1]
      <4>1. before.account \in Accounts /\ before.photo \in Photos
        BY <3>1, <3>5
      <4> HIDE DEF before
      <4> QED
        BY <3>2, <3>3, <3>5, <4>1, StoredOnce
    <3> QED
      BY <2>1, <3>4, <3>5
  <2>a. UNCHANGED <<queue, files, due, told>>
    BY <2>1
  <2>12. TypeOK'
    BY <2>a, <2>2, <2>3, <2>11 DEF PlaceInv, TypeOK, device, world
  <2> QED
    BY <2>8, <2>9, <2>10, <2>12 DEF PlaceInv
<1> QED
  BY <1>1, <1>2

LEMMA Grows ==
  ASSUME PlaceInv, NEW p, Taken(p), user \in Accounts
  PROVE  /\ p = Len(takenBy) + 1 /\ p \in Photos /\ Longer
         /\ takenBy' \in Seq(Accounts) /\ Len(takenBy') = p /\ p <= MaxPhotos /\ takenBy'[p] = user
         /\ p \in 1 .. Len(takenBy') /\ p \notin 1 .. Len(takenBy)
<1>1. takenBy \in Seq(Accounts) /\ Len(takenBy) \in Nat
  BY TakersAre
<1>2. p = Len(takenBy) + 1 /\ p <= MaxPhotos /\ takenBy' = Append(takenBy, user)
  BY DEF Taken
<1>3. takenBy' \in Seq(Accounts) /\ Len(takenBy') = p /\ takenBy'[p] = user
      /\ \A i \in 1 .. Len(takenBy) : takenBy'[i] = takenBy[i]
  BY <1>1, <1>2
<1> QED
  BY <1>1, <1>2, <1>3, Bounds DEF Photos, Longer

(* A new photo is nowhere yet. *)
LEMMA NewPhoto ==
  ASSUME PlaceInv, NEW p, p = Len(takenBy) + 1
  PROVE  /\ \A i \in 1 .. Len(queue) : queue[i].photo # p
         /\ \A s \in Slots : calls[s].photo # p
         /\ camera.page # p
         /\ \A a \in Accounts : ~Taker(p, a)
<1>1. ~(p \in 1 .. Len(takenBy)) /\ p # NoPhoto
  BY TakersAre DEF NoPhoto
<1>2. \A i \in 1 .. Len(queue) : queue[i].photo # p
  BY <1>1 DEF PlaceInv, RowsFit, Taker
<1>3. ASSUME NEW s \in Slots PROVE calls[s].photo # p
  <2>1. CASE calls[s].pc = "none"
    BY <1>1, <2>1, Records DEF PlaceInv, CallsFit, CallOK
  <2>2. CASE calls[s].pc # "none"
    BY <1>1, <2>2, CallTaker
  <2> QED
    BY <2>1, <2>2
<1>4. camera.page # p
  BY <1>1 DEF PlaceInv, ScreensFit, Taker
<1> QED
  BY <1>1, <1>2, <1>3, <1>4 DEF Taker

LEMMA Captures ==
  ASSUME PlaceInv, NEW p \in Photos, Captured(p)
  PROVE  PlaceInv'
<1>1. user \in Accounts /\ camera.page = NoPhoto
  BY DEF Captured, PlaceInv, ScreensFit
<1>2. /\ p = Len(takenBy) + 1 /\ Longer
      /\ takenBy' \in Seq(Accounts) /\ Len(takenBy') = p /\ p <= MaxPhotos /\ takenBy'[p] = user
      /\ p \in 1 .. Len(takenBy') /\ p \notin 1 .. Len(takenBy)
  BY <1>1, Grows DEF Captured
<1>3. /\ \A i \in 1 .. Len(queue) : queue[i].photo # p
      /\ p # calls["camera"].photo /\ p # calls["import"].photo
  BY <1>2, NewPhoto DEF Slots
<1>4. UNCHANGED <<user, device, known, import, runs, listening, awaiting, timer, granted, premium, together,
                  cut, world>>
  BY DEF Captured
<1>5. CASE Submit(p)
  BY <1>1, <1>2, <1>3, <1>4, <1>5, Submits
<1>6. CASE /\ camera' = [camera EXCEPT !.scanning = FALSE, !.page = p]
           /\ UNCHANGED <<queue, files, due, told, calls, receipts, displaced, unsure>>
  <2>0. camera \in Cameras /\ p \in 0 .. MaxPhotos
    BY Bounds DEF PlaceInv, TypeOK, Photos
  <2>1. camera' \in Cameras /\ camera'.page = p /\ ~camera'.scanning
    BY <1>6, <2>0 DEF Cameras
  <2>2. Flow' = {p, calls["camera"].photo, calls["import"].photo}
    BY <1>6, <2>1 DEF Flow
  <2>3. FlowShrinks
    BY <1>2, <2>2 DEF FlowShrinks, Flow
  <2>4. QueueGoes /\ RunsGo
    BY <1>4, <1>6, SameStore, SameRuns DEF store
  <2>5. RowsFit' /\ RunsFit'
    BY <1>2, <1>6, <2>3, <2>4, RowsStay, RunsStay, TakersAre DEF PlaceInv
  <2>6. CallsFit'
    BY <1>2, <1>6 DEF PlaceInv, CallsFit, CallOK, Longer, Taker
  <2>7. ImportFit' /\ FlowFit'
    BY <1>3, <1>4, <1>6, <2>1 DEF PlaceInv, ImportFit, FlowFit
  <2>8. ScreensFit'
    BY <1>1, <1>2, <1>4, <1>6, <2>1 DEF PlaceInv, ScreensFit, Taker
  <2>9. TypeOK'
    BY <1>2, <1>4, <1>6, <2>1 DEF PlaceInv, TypeOK, device, world
  <2> QED
    BY <2>5, <2>6, <2>7, <2>8, <2>9 DEF PlaceInv
<1> QED
  BY <1>5, <1>6 DEF Captured

LEMMA UsesPage ==
  ASSUME PlaceInv, UsePage
  PROVE  PlaceInv'
<1>1. camera.page # NoPhoto /\ Submit(camera.page) /\ UNCHANGED takenBy
  BY DEF UsePage, HoldsPage
<1>2. PICK p : p = camera.page
  OBVIOUS
<1>3. p \in 1 .. Len(takenBy) /\ takenBy[p] = user
  BY <1>1, <1>2 DEF PlaceInv, ScreensFit, Taker
<1>4. p \in Photos /\ user \in Accounts
  BY <1>3, TakersAre
<1>5. /\ \A i \in 1 .. Len(queue) : queue[i].photo # p
      /\ p # calls["camera"].photo /\ p # calls["import"].photo
  BY <1>1, <1>2 DEF PlaceInv, RowsFit, Flow, FlowFit
<1>6. UNCHANGED <<user, device, known, import, runs, listening, awaiting, timer, granted, premium, together,
                  cut, world>>
  BY DEF UsePage
<1>7. takenBy' \in Seq(Accounts) /\ Len(takenBy') <= MaxPhotos /\ p \in 1 .. Len(takenBy') /\ takenBy'[p] = user
  BY <1>1, <1>3, TakersAre
<1>8. Longer /\ Submit(p)
  BY <1>1, <1>2, SameTakers
<1> QED
  BY <1>2, <1>4, <1>5, <1>6, <1>7, <1>8, Submits

LEMMA Picks ==
  ASSUME PlaceInv, NEW p \in Photos, Picked(p)
  PROVE  PlaceInv'
<1>b. "camera" \in Slots /\ "import" \in Slots /\ "run" \in Slots
  BY DEF Slots
<1>1. user \in Accounts /\ import.pc = "picking"
  BY DEF Picked, PlaceInv, ScreensFit
<1>2. /\ p = Len(takenBy) + 1 /\ Longer
      /\ takenBy' \in Seq(Accounts) /\ Len(takenBy') = p /\ p <= MaxPhotos /\ takenBy'[p] = user
      /\ p \in 1 .. Len(takenBy') /\ p \notin 1 .. Len(takenBy)
  BY <1>1, Grows DEF Picked
<1>3. p # calls["camera"].photo /\ p # camera.page
  BY <1>b, <1>2, NewPhoto
<1>4. /\ calls' \in [Slots -> Calls] /\ \A t \in Slots \ {"import"} : calls'[t] = calls[t]
      /\ calls'["import"].pc = "sent" /\ calls'["import"].photo = p /\ calls'["import"].account = user
      /\ calls'["import"].answer = "none"
  BY <1>1, <1>b, SendIs DEF Picked
<1>5. UNCHANGED <<user, device, known, store, camera, sync, server, fate, world>>
  BY DEF Picked
<1>a. import \in Imports /\ import.owner = user /\ p \in 0 .. MaxPhotos
  BY <1>1, Bounds DEF PlaceInv, TypeOK, ScreensFit, Photos
<1>6. import' \in Imports /\ import'.pc = "uploading" /\ import'.photo = p /\ import'.owner = user
  BY <1>a DEF Picked, Imports
<1>7. calls'["camera"] = calls["camera"] /\ calls'["run"] = calls["run"]
  BY <1>b, <1>4
<1>8. Flow' = {camera.page, calls["camera"].photo, p}
  BY <1>4, <1>5, <1>7 DEF Flow
<1>9. FlowShrinks
  BY <1>2, <1>8 DEF FlowShrinks, Flow
<1>10. RowsFit' /\ RunsFit'
  BY <1>2, <1>5, <1>7, <1>9, SameStore, SameRuns, RowsStay, RunsStay, TakersAre DEF PlaceInv, sync
<1>11. CallsFit'
  <2>1. ASSUME NEW s \in Slots PROVE CallOK(calls[s])'
    <3>1. CASE s = "import"
      BY <1>2, <1>4, <3>1 DEF CallOK, Taker
    <3>2. CASE s # "import"
      <4>1. calls'[s] = calls[s] /\ CallOK(calls[s])
        BY <1>4, <3>2 DEF PlaceInv, CallsFit
      <4> QED
        BY <1>2, <4>1 DEF CallOK, Taker, Longer
    <3> QED
      BY <3>1, <3>2
  <2> QED
    BY <2>1 DEF CallsFit, CallOK, Taker
<1>12. ImportFit' /\ FlowFit'
  BY <1>3, <1>4, <1>5, <1>6, <1>7 DEF PlaceInv, ImportFit, FlowFit
<1>13. ScreensFit'
  BY <1>2, <1>5, <1>6, <1>7 DEF PlaceInv, ScreensFit, Taker, Longer, sync
<1>14. TypeOK'
  BY <1>2, <1>4, <1>5, <1>6 DEF PlaceInv, TypeOK, device, store, sync, server, fate, world
<1> QED
  BY <1>10, <1>11, <1>12, <1>13, <1>14 DEF PlaceInv

-----------------------------------------------------------------------------
(* The screens hear of their calls.                                         *)

LEMMA CallEnds ==
  ASSUME PlaceInv, NEW slot \in Slots, calls' = [calls EXCEPT ![slot] = NoCall], UNCHANGED takenBy
  PROVE  /\ calls' \in [Slots -> Calls] /\ CallsFit'
         /\ calls'[slot] = NoCall /\ \A t \in Slots \ {slot} : calls'[t] = calls[t]
<1>1. /\ calls' \in [Slots -> Calls]
      /\ calls'[slot] = NoCall /\ \A t \in Slots \ {slot} : calls'[t] = calls[t]
  BY Records DEF PlaceInv, TypeOK
<1>2. ASSUME NEW s \in Slots PROVE CallOK(calls[s])'
  <2>1. CASE s = slot
    BY <1>1, <2>1, Records DEF CallOK
  <2>2. CASE s # slot
    <3>1. calls'[s] = calls[s] /\ CallOK(calls[s])
      BY <1>1, <2>2 DEF PlaceInv, CallsFit
    <3> QED
      BY <3>1 DEF CallOK, Taker
  <2> QED
    BY <2>1, <2>2
<1> QED
  BY <1>1, <1>2 DEF CallsFit, CallOK, Taker

LEMMA ScansEnd ==
  ASSUME PlaceInv, Scanned
  PROVE  PlaceInv'
<1> DEFINE p == calls["camera"].photo
           answer == calls["camera"].answer
<1>b. "camera" \in Slots /\ "import" \in Slots /\ "run" \in Slots
  BY DEF Slots
<1>0. calls["camera"].pc # "none"
  BY DEF Scanned, Heard
<1>1. p \in Photos /\ p # NoPhoto /\ Taker(p, user) /\ user \in Accounts
  BY <1>0, <1>b, CallTaker DEF PlaceInv, ScreensFit
<1>2. UNCHANGED <<user, device, import, runs, listening, awaiting, timer, server, takenBy, displaced, unsure, world>>
  BY DEF Scanned
<1>3. /\ calls' \in [Slots -> Calls] /\ CallsFit'
      /\ calls'["camera"] = NoCall /\ calls'["import"] = calls["import"] /\ calls'["run"] = calls["run"]
  BY <1>b, CallEnds DEF Scanned
<1>4. /\ \A i \in 1 .. Len(queue) : queue[i].photo # p
      /\ p # camera.page /\ p # calls["import"].photo
  BY <1>1 DEF PlaceInv, RowsFit, Flow, FlowFit
<1>5. Longer /\ RunsGo
  BY <1>2, SameTakers, SameRuns
(* What remains once the camera, the store and what the user knows are settled. *)
<1>6. ASSUME camera' \in Cameras, camera'.page \in {camera.page, NoPhoto},
             camera'.scanning => camera.scanning /\ camera'.page = camera.page,
             FlowShrinks => RowsFit',
             files' \subseteq Photos, queue' \in Seq(PendingReceipts),
             \A i, j \in 1 .. Len(queue') : queue'[i].photo = queue'[j].photo => i = j,
             told' \subseteq Photos, cut' \subseteq Photos, due' \in BOOLEAN, known' \in {"yes", "no", "unknown"}
      PROVE  PlaceInv'
  <2>1. Flow' \subseteq {camera.page, NoPhoto, calls["import"].photo}
    BY <1>3, <1>6, Records DEF Flow
  <2>2. FlowShrinks
    BY <2>1, TakersAre DEF FlowShrinks, Flow, NoPhoto
  <2>3. RowsFit' /\ RunsFit'
    BY <1>2, <1>3, <1>5, <1>6, <2>2, RunsStay, TakersAre DEF PlaceInv
  <2>4. ImportFit' /\ FlowFit'
    BY <1>2, <1>3, <1>6, Records DEF PlaceInv, ImportFit, FlowFit
  <2>5. ScreensFit'
    BY <1>2, <1>3, <1>6, Records DEF PlaceInv, ScreensFit, Taker
  <2>6. TypeOK'
    BY <1>2, <1>3, <1>6 DEF PlaceInv, TypeOK, device, server, world
  <2> QED
    BY <1>3, <2>3, <2>4, <2>5, <2>6 DEF PlaceInv
<1>7. CASE answer = "retry"
  <2>1. QueuePhoto(p, camera) /\ UNCHANGED <<known, cut>>
    BY <1>7 DEF Scanned
  <2>2. camera'.page = camera.page
    BY <2>1 DEF QueuePhoto, PlaceInv, TypeOK, Cameras
  <2>3. p \notin Flow'
    BY <1>1, <1>3, <1>4, <2>2, Records DEF Flow
  <2>4. FlowShrinks
    BY <1>3, <2>2, Records, TakersAre DEF FlowShrinks, Flow, NoPhoto
  <2>5. camera \in Cameras /\ known \in {"yes", "no", "unknown"} /\ cut \subseteq Photos
    BY DEF PlaceInv, TypeOK
  <2>6. p \in 1 .. Len(takenBy') /\ takenBy'[p] = user /\ takenBy' \in Seq(Accounts)
    BY <1>1, <1>2, TakersAre DEF Taker
  <2>7. /\ RowsFit' /\ files' \subseteq Photos /\ queue' \in Seq(PendingReceipts)
        /\ \A i, j \in 1 .. Len(queue') : queue'[i].photo = queue'[j].photo => i = j
        /\ camera' \in Cameras /\ camera'.page = camera.page /\ (camera'.scanning <=> camera.scanning)
        /\ told' \subseteq Photos /\ due' \in BOOLEAN
    <3> HIDE DEF p
    <3> QED
      BY <1>1, <1>4, <1>5, <2>1, <2>3, <2>4, <2>5, <2>6, Queues
  <2> QED
    BY <1>6, <2>1, <2>5, <2>7
<1>8. CASE answer # "retry"
  <2>1. UNCHANGED <<queue, files>> /\ told' \in {told, told \cup {p}}
    BY <1>8 DEF Scanned
  <2>2. QueueGoes
    BY <2>1, SameStore DEF store
  <2>3. FlowShrinks => RowsFit'
    BY <1>2, <1>5, <2>2, RowsStay, TakersAre DEF PlaceInv
  <2>4. files' \subseteq Photos /\ queue' \in Seq(PendingReceipts) /\ told' \subseteq Photos
        /\ \A i, j \in 1 .. Len(queue') : queue'[i].photo = queue'[j].photo => i = j
    BY <1>1, <2>1 DEF PlaceInv, TypeOK
  <2>5. due' \in BOOLEAN /\ known' \in {"yes", "no", "unknown"}
    BY <1>8 DEF Scanned, Knows, Refused, PlaceInv, TypeOK
  <2>6. /\ camera' \in Cameras /\ camera'.page \in {camera.page, NoPhoto} /\ cut' \subseteq Photos
        /\ (camera'.scanning => camera.scanning /\ camera'.page = camera.page)
    <3>1. CASE answer = "consent"
      <4>1. ConsentScreen(Refused, "ready")
        BY <3>1 DEF Scanned
      <4> QED
        BY <4>1, ConsentScreenIs
    <3>2. CASE answer # "consent"
      <4>1. (\E f \in {"ready", "low-quality"} : camera' = [camera EXCEPT !.flow = f]) /\ cut' = cut
        BY <1>8, <3>2 DEF Scanned
      <4> QED
        BY <4>1 DEF PlaceInv, TypeOK, Cameras
    <3> QED
      BY <3>1, <3>2
  <2> QED
    BY <1>6, <2>3, <2>4, <2>5, <2>6
<1> QED
  BY <1>7, <1>8

LEMMA ImportsEnd ==
  ASSUME PlaceInv, Imported
  PROVE  PlaceInv'
<1> DEFINE p == import.photo
           answer == calls["import"].answer
<1>b. "camera" \in Slots /\ "import" \in Slots /\ "run" \in Slots
  BY DEF Slots
<1>0. calls["import"].pc # "none" /\ import.pc = "uploading"
  BY DEF Imported, importReceipt, QueueImport, Heard
<1>1. p \in Photos /\ p # NoPhoto /\ Taker(p, import.owner) /\ import.owner \in Accounts
  BY <1>0, <1>b, CallTaker DEF PlaceInv, ImportFit
<1>2. UNCHANGED <<user, device, runs, listening, awaiting, timer, server, takenBy, displaced, unsure, world>>
  BY DEF Imported, importReceipt, QueueImport
<1>3. /\ calls' \in [Slots -> Calls] /\ CallsFit'
      /\ calls'["import"] = NoCall /\ calls'["camera"] = calls["camera"] /\ calls'["run"] = calls["run"]
  BY <1>b, <1>2, CallEnds DEF Imported, importReceipt, QueueImport
<1>4. /\ \A i \in 1 .. Len(queue) : queue[i].photo # p
      /\ p # camera.page /\ p # calls["camera"].photo
  BY <1>1 DEF PlaceInv, RowsFit, Flow, FlowFit, ImportFit
<1>5. Longer /\ RunsGo
  BY <1>2, SameTakers, SameRuns
<1>6. /\ import' \in Imports /\ import'.pc \in {"idle", "asking again"} /\ import'.photo = NoPhoto
  <2>1. CASE answer = "consent"
    <3>1. import' = [import EXCEPT !.pc = "asking again", !.photo = NoPhoto]
      BY <2>1 DEF Imported, importReceipt, QueueImport
    <3>2. import \in Imports /\ NoPhoto \in 0 .. MaxPhotos
      BY Bounds DEF PlaceInv, TypeOK, NoPhoto
    <3> QED
      BY <3>1, <3>2 DEF Imports
  <2>2. CASE answer # "consent"
    BY <2>2, Records DEF Imported, importReceipt, QueueImport
  <2> QED
    BY <2>1, <2>2
<1>7. /\ camera' \in Cameras /\ camera'.page \in {camera.page, NoPhoto} /\ cut' \subseteq Photos
      /\ (camera'.scanning => camera.scanning /\ camera'.page = camera.page)
  <2>1. CASE answer = "consent"
    <3>1. ConsentScreen(Refused, camera.flow) /\ camera.flow \in {"ready", "processing", "low-quality", "queued"}
      BY <2>1 DEF Imported, importReceipt, QueueImport, PlaceInv, TypeOK, Cameras
    <3> QED
      BY <3>1, ConsentScreenIs
  <2>2. CASE answer # "consent"
    BY <2>2 DEF Imported, importReceipt, QueueImport, PlaceInv, TypeOK
  <2> QED
    BY <2>1, <2>2
<1>8. Flow' \subseteq {camera.page, NoPhoto, calls["camera"].photo}
  BY <1>3, <1>7, Records DEF Flow
<1>9. FlowShrinks /\ p \notin Flow'
  BY <1>1, <1>4, <1>8, TakersAre DEF FlowShrinks, Flow, NoPhoto
<1>10. /\ RowsFit' /\ files' \subseteq Photos /\ queue' \in Seq(PendingReceipts)
       /\ \A i, j \in 1 .. Len(queue') : queue'[i].photo = queue'[j].photo => i = j
  <2>1. CASE SetQueue(addPendingReceipt(p, import.owner)) /\ files' = files \cup {p}
    <3>1. queue' = addPendingReceipt(p, import.owner)
      BY <2>1 DEF SetQueue
    <3>2. p \in 1 .. Len(takenBy') /\ takenBy'[p] = import.owner /\ takenBy' \in Seq(Accounts)
      BY <1>1, <1>2, TakersAre DEF Taker
    <3>3. PICK o : o = import.owner
      OBVIOUS
    <3> HIDE DEF p
    <3> QED
      BY <1>1, <1>4, <1>5, <1>9, <2>1, <3>1, <3>2, <3>3, RowsAdd
  <2>2. CASE UNCHANGED <<queue, files>>
    <3>1. QueueGoes
      BY <2>2, SameStore DEF store
    <3>2. RowsFit'
      BY <1>2, <1>5, <1>9, <3>1, RowsStay, TakersAre DEF PlaceInv
    <3> QED
      BY <2>2, <3>2 DEF PlaceInv, TypeOK
  <2> QED
    BY <2>1, <2>2 DEF Imported, importReceipt, QueueImport
<1>11. told' \subseteq Photos /\ due' \in BOOLEAN /\ known' \in {"yes", "no", "unknown"}
  <2>1. told' \in {told, told \cup {p}}
    BY DEF Imported, importReceipt, QueueImport
  <2>2. due' \in BOOLEAN /\ known' \in {"yes", "no", "unknown"}
    BY DEF Imported, importReceipt, QueueImport, Knows, Refused, SetQueue, PlaceInv, TypeOK
  <2> QED
    BY <1>1, <2>1, <2>2 DEF PlaceInv, TypeOK
<1>12. RunsFit'
  BY <1>2, <1>3, <1>5, <1>9, RunsStay, TakersAre DEF PlaceInv
<1>13. ImportFit' /\ FlowFit'
  BY <1>3, <1>6, <1>7, Records DEF PlaceInv, ImportFit, FlowFit
<1>14. ScreensFit'
  BY <1>2, <1>3, <1>6, <1>7 DEF PlaceInv, ScreensFit, Taker
<1>a. camera' \in Cameras /\ import' \in Imports /\ calls' \in [Slots -> Calls] /\ cut' \subseteq Photos
  BY <1>3, <1>6, <1>7
<1>15. TypeOK'
  <2> HIDE DEF p, answer
  <2> QED
    BY <1>2, <1>a, <1>10, <1>11 DEF PlaceInv, TypeOK, device, server, world
<1> QED
  BY <1>3, <1>10, <1>12, <1>13, <1>14, <1>15 DEF PlaceInv

-----------------------------------------------------------------------------
(* The upload runs.                                                         *)

(* The runs once the call of the first has ended, and the effect. *)
FromRun(todo) ==
    /\ Run.pc = "upload"
    /\ \A j \in 1 .. Len(todo) : \E k \in 2 .. Len(Run.todo) : todo[j] = Run.todo[k]
Ended(q) ==
    /\ queue' = q
    /\ \E rs \in Seq(Runs) :
         /\ runs' = rs
         /\ rs # <<>> => /\ Head(rs).pc = "next" /\ TodoFit(Head(rs).todo, Head(rs).owner)
                         /\ FromQueue(Head(rs).todo, q) \/ FromRun(Head(rs).todo)
    /\ {due', awaiting', timer'} \subseteq BOOLEAN
    /\ listening' \in Accounts \cup {NoOne}
    /\ timer' => listening' \in Accounts

LEMMA WaitingIs ==
  ASSUME NEW q, Keeps(q), NEW a, WaitingToRetry(q, a)
  PROVE  a \in Accounts
<1>1. PICK i \in 1 .. Len(q) : q[i].owner = a
  BY DEF WaitingToRetry
<1>2. q \in Seq(PendingReceipts)
  BY DEF Keeps, QueueOK
<1>3. q[i] \in PendingReceipts
  BY <1>1, <1>2
<1> QED
  BY <1>1, <1>3 DEF PendingReceipts

LEMMA Settles ==
  ASSUME PlaceInv, runs # <<>>, NEW q, Keeps(q), Settled(q), queue' = q, due' \in BOOLEAN
  PROVE  Ended(q)
<1>0. runs \in Seq(Runs)
  BY DEF PlaceInv, RunsFit
<1>1. \E rs \in Seq(Runs) :
         /\ runs' = rs
         /\ rs # <<>> => /\ Head(rs).pc = "next" /\ TodoFit(Head(rs).todo, Head(rs).owner)
                         /\ FromQueue(Head(rs).todo, q)
  <2>1. CASE LastRun
    <3>1. runs' = <<>> /\ <<>> \in Seq(Runs)
      BY <2>1 DEF Settled
    <3> QED
      BY <3>1
  <2>2. CASE ~LastRun
    <3>1. PICK next : next = Head(Tail(runs))
      OBVIOUS
    <3>2. Tail(runs) \in Seq(Runs) /\ Tail(runs) # <<>>
      BY <1>0, <2>2 DEF LastRun
    <3>3. next \in Runs /\ Tail(Tail(runs)) \in Seq(Runs)
      BY <3>1, <3>2
    <3>4. TodoFit(Snapshot(q, next.owner), next.owner) /\ FromQueue(Snapshot(q, next.owner), q)
      BY SnapshotFits DEF PlaceInv
    <3>5. PICK todo \in Seq(Photos) : todo = Snapshot(q, next.owner)
      BY <3>4 DEF TodoFit
    <3> DEFINE r == [next EXCEPT !.pc = "next", !.todo = todo]
    <3>6. r \in Runs /\ r.pc = "next" /\ TodoFit(r.todo, r.owner) /\ FromQueue(r.todo, q)
      BY <3>3, <3>4, <3>5 DEF Runs
    <3>7. runs' = <<r>> \o Tail(Tail(runs))
      BY <2>2, <3>1, <3>5 DEF Settled
    <3> HIDE DEF r
    <3>8. <<r>> \o Tail(Tail(runs)) \in Seq(Runs) /\ Head(<<r>> \o Tail(Tail(runs))) = r
      BY <3>3, <3>6
    <3> QED
      BY <3>6, <3>7, <3>8
  <2> QED
    BY <2>1, <2>2
<1>2. awaiting' \in BOOLEAN /\ timer' \in BOOLEAN /\ listening' = listening
  BY DEF Settled, PlaceInv, TypeOK
<1>3. timer' => listening \in Accounts
  BY WaitingIs DEF Settled, PlaceInv, ScreensFit
<1> QED
  BY <1>1, <1>2, <1>3 DEF Ended, PlaceInv, TypeOK

LEMMA Finishes ==
  ASSUME PlaceInv, runs # <<>>, NEW q, Keeps(q), Finish(q)
  PROVE  Ended(q)
<1>1. CASE SetQueue(q) /\ Settled(q)
  BY <1>1, Settles DEF SetQueue, PlaceInv, TypeOK
<1>2. CASE /\ queue' = q /\ due' = FALSE /\ awaiting' = FALSE /\ runs' = <<>> /\ listening' = user
           /\ timer' = WaitingToRetry(q, user)
  <2>1. timer' \in BOOLEAN /\ (timer' => user \in Accounts)
    BY <1>2, WaitingIs DEF WaitingToRetry
  <2>2. <<>> \in Seq(Runs)
    OBVIOUS
  <2> QED
    BY <1>2, <2>1, <2>2 DEF Ended, PlaceInv, TypeOK
<1> QED
  BY <1>1, <1>2 DEF Finish

LEMMA GoesOn ==
  ASSUME PlaceInv, runs # <<>>, Run.pc = "upload", NEW q, Keeps(q), GoOn(q)
  PROVE  Ended(q)
<1>1. CASE Finish(q)
  BY <1>1, Finishes
<1>2. CASE /\ Tail(Run.todo) # <<>> /\ SetQueue(q)
           /\ SetRun([Run EXCEPT !.pc = "next", !.todo = Tail(@)])
           /\ UNCHANGED <<listening, awaiting, timer>>
  <2>1. PICK run \in Runs : run = Run
    BY DEF PlaceInv, RunsFit, Run
  <2>2. PICK todo : todo = run.todo
    OBVIOUS
  <2>3. TodoFit(todo, run.owner) /\ todo # <<>> /\ todo \in Seq(Photos)
    BY <2>1, <2>2 DEF PlaceInv, RunsFit, TodoFit
  <2>4. Tail(todo) \in Seq(Photos) /\ Len(Tail(todo)) = Len(todo) - 1
        /\ \A j \in 1 .. Len(Tail(todo)) : Tail(todo)[j] = todo[j + 1] /\ j + 1 \in 1 .. Len(todo)
    BY <2>3
  <2>5. TodoFit(Tail(todo), run.owner)
    BY <2>3, <2>4 DEF TodoFit
  <2> DEFINE r == [run EXCEPT !.pc = "next", !.todo = Tail(todo)]
  <2>b. FromRun(Tail(todo))
    BY <2>1, <2>2, <2>4 DEF FromRun
  <2>6. r \in Runs /\ r.pc = "next" /\ TodoFit(r.todo, r.owner) /\ FromRun(r.todo)
    BY <2>1, <2>4, <2>5, <2>b DEF Runs
  <2>7. runs' = <<r>> \o Tail(runs)
    BY <1>2, <2>1, <2>2 DEF SetRun
  <2> HIDE DEF r
  <2>8. Tail(runs) \in Seq(Runs)
    BY DEF PlaceInv, RunsFit
  <2>9. <<r>> \o Tail(runs) \in Seq(Runs) /\ Head(<<r>> \o Tail(runs)) = r
    BY <2>6, <2>8
  <2>10. {due', awaiting', timer'} \subseteq BOOLEAN /\ queue' = q /\ listening' = listening /\ timer' = timer
    BY <1>2 DEF SetQueue, PlaceInv, TypeOK
  <2> QED
    BY <2>6, <2>7, <2>9, <2>10 DEF Ended, PlaceInv, TypeOK, ScreensFit
<1> QED
  BY <1>1, <1>2 DEF GoOn

(* What remains to be shown of a step that ends a run, or its call. *)
LEMMA EndedInv ==
  ASSUME PlaceInv, NEW q, Keeps(q), Ended(q), QueueGoes,
         calls' = [calls EXCEPT !["run"] = NoCall] \/ (calls' = calls /\ calls["run"] = NoCall),
         camera' \in Cameras, camera'.page \in {camera.page, NoPhoto},
         camera'.scanning => camera.scanning /\ camera'.page = camera.page,
         files' \subseteq Photos, cut' \subseteq Photos, known' \in {"yes", "no", "unknown"},
         UNCHANGED <<user, device, import, server, takenBy, told, displaced, unsure, world>>
  PROVE  PlaceInv'
<1>b. "camera" \in Slots /\ "import" \in Slots /\ "run" \in Slots
  BY DEF Slots
<1>1. /\ calls' \in [Slots -> Calls] /\ CallsFit'
      /\ calls'["run"] = NoCall /\ calls'["camera"] = calls["camera"] /\ calls'["import"] = calls["import"]
  <2>1. CASE calls' = [calls EXCEPT !["run"] = NoCall]
    BY <1>b, <2>1, CallEnds
  <2>2. CASE calls' = calls /\ calls["run"] = NoCall
    BY <2>2 DEF PlaceInv, TypeOK, CallsFit, CallOK, Taker
  <2> QED
    BY <2>1, <2>2
<1>2. Flow' \subseteq {camera.page, NoPhoto, calls["camera"].photo, calls["import"].photo}
  BY <1>1 DEF Flow
<1>3. Longer /\ FlowShrinks
  BY <1>2, SameTakers, TakersAre DEF FlowShrinks, Flow, NoPhoto
<1>4. RowsFit'
  BY <1>3, RowsStay, TakersAre DEF PlaceInv
<1>5. PICK rs \in Seq(Runs) :
         /\ runs' = rs
         /\ rs # <<>> => Head(rs).pc = "next" /\ TodoFit(Head(rs).todo, Head(rs).owner)
  BY DEF Ended
<1>6. RunsFit'
  <2>1. rs # <<>> => TodoFit(Head(rs).todo, Head(rs).owner)'
    BY <1>3, <1>5, TodoStays, TakersAre
  <2>2. (runs # <<>> => TodoFit(Run.todo, Run.owner))'
    BY <1>5, <2>1 DEF TodoFit, Run, Taker
  <2> QED
    BY <1>1, <1>5, <2>2, Records DEF RunsFit, Run
<1>7. ImportFit' /\ FlowFit'
  BY <1>1 DEF PlaceInv, ImportFit, FlowFit
<1>8. ScreensFit'
  BY <1>1 DEF PlaceInv, ScreensFit, Taker, Ended
<1>9. /\ queue' \in Seq(PendingReceipts)
      /\ \A i, j \in 1 .. Len(queue') : queue'[i].photo = queue'[j].photo => i = j
  BY DEF Ended, Keeps, QueueOK
<1>10. {due', awaiting', timer'} \subseteq BOOLEAN /\ listening' \in Accounts \cup {NoOne} /\ runs' \in Seq(Runs)
  BY <1>5 DEF Ended
<1>11. TypeOK'
  BY <1>1, <1>9, <1>10 DEF PlaceInv, TypeOK, device, server, world
<1> QED
  BY <1>1, <1>4, <1>6, <1>7, <1>8, <1>11 DEF PlaceInv

(* What the run leaves of the queue: every row, but that of a photo stored. *)
UploadLeaves(q) ==
    \/ /\ calls["run"].answer = "ok" /\ KeepsAllBut(Head(Run.todo), q)
       /\ \A i \in 1 .. Len(q) : q[i].photo # Head(Run.todo)
    \/ calls["run"].answer # "ok" /\ KeepsAllBut(NoPhoto, q)

LEMMA UploadsEnd ==
  ASSUME PlaceInv, Uploaded
  PROVE  PlaceInv' /\ \E q : Ended(q) /\ UploadLeaves(q)
<1>1. PICK p : p = Head(Run.todo)
  OBVIOUS
<1>2. PICK answer : answer = calls["run"].answer
  OBVIOUS
<1>3. /\ runs # <<>> /\ Run.pc = "upload"
      /\ calls' = [calls EXCEPT !["run"] = NoCall]
      /\ UNCHANGED <<user, device, import, server, takenBy, told, displaced, unsure, world>>
  BY DEF Uploaded
<1>4. CASE answer = "consent"
  <2>1. PICK q : q = holdForConsent(p)
    OBVIOUS
  <2>2. KeepsAllBut(NoPhoto, q)
    BY <2>1, RowsAre DEF PlaceInv, RowsFit
  <2>3. /\ queue' = q /\ Settled(q) /\ UNCHANGED files
        /\ Knows(Refused) /\ ConsentScreen(Refused, camera.flow)
    BY <1>1, <1>2, <1>4, <2>1 DEF Uploaded
  <2>4. due' \in BOOLEAN /\ known' \in {"yes", "no", "unknown"}
    BY <2>3 DEF Knows, Refused, PlaceInv, TypeOK
  <2>5. Ended(q)
    BY <1>3, <2>2, <2>3, <2>4, Settles DEF KeepsAllBut
  <2>6. camera.flow \in {"ready", "processing", "low-quality", "queued"}
    BY DEF PlaceInv, TypeOK, Cameras
  <2>7. /\ camera' \in Cameras /\ camera'.page \in {camera.page, NoPhoto} /\ cut' \subseteq Photos
        /\ (camera'.scanning => camera.scanning /\ camera'.page = camera.page)
    BY <2>3, <2>6, ConsentScreenIs
  <2>8. QueueGoes
    BY <2>2, <2>3, RowsGo
  <2>9. files' \subseteq Photos
    BY <2>3 DEF PlaceInv, TypeOK
  <2>10. PlaceInv'
    BY <1>3, <2>2, <2>4, <2>5, <2>7, <2>8, <2>9, EndedInv DEF KeepsAllBut
  <2> QED
    BY <1>2, <1>4, <2>2, <2>5, <2>10 DEF UploadLeaves
<1>5. CASE answer # "consent"
  <2>1. UNCHANGED <<known, camera, cut>>
    BY <1>2, <1>5 DEF Uploaded
  <2>2. /\ camera' \in Cameras /\ cut' \subseteq Photos /\ known' \in {"yes", "no", "unknown"}
        /\ camera'.page = camera.page /\ (camera'.scanning => camera.scanning)
    BY <2>1 DEF PlaceInv, TypeOK
  <2>3. \E q : /\ Keeps(q) /\ UploadLeaves(q) /\ (GoOn(q) \/ Finish(q))
               /\ queue' = q => QueueGoes /\ files' \subseteq Photos
    <3>1. CASE answer = "ok"
      <4>1. PICK q : q = removePendingReceipt(p)
        OBVIOUS
      <4>2. GoOn(q) /\ files' = files \ {p}
        BY <1>1, <1>2, <3>1, <4>1 DEF Uploaded
      <4>3. Keeps(q) /\ UploadLeaves(q)
        BY <1>1, <1>2, <3>1, <4>1, RemovalIs DEF PlaceInv, RowsFit, KeepsAllBut, UploadLeaves
      <4>4. queue' = q => QueueGoes /\ files' \subseteq Photos
        BY <4>1, <4>2, RemovalGoes
      <4> QED
        BY <4>2, <4>3, <4>4
    <3>2. CASE answer \in {"quota", "unreadable"}
      <4>1. PICK q : q = markFailed(p, answer)
        OBVIOUS
      <4>2. GoOn(q) /\ UNCHANGED files
        BY <1>1, <1>2, <3>2, <4>1 DEF Uploaded
      <4>3. KeepsAllBut(NoPhoto, q)
        BY <3>2, <4>1, RowsAre DEF PlaceInv, RowsFit
      <4>4. queue' = q => QueueGoes /\ files' \subseteq Photos
        BY <4>2, <4>3, RowsGo DEF PlaceInv, TypeOK
      <4> QED
        BY <1>2, <3>2, <4>2, <4>3, <4>4 DEF KeepsAllBut, UploadLeaves
    <3>3. CASE answer \notin {"ok", "quota", "unreadable"}
      <4>1. PICK q : q = markAttemptFailed(p)
        OBVIOUS
      <4>2. Finish(q) /\ UNCHANGED files
        BY <1>1, <1>2, <1>5, <3>3, <4>1 DEF Uploaded
      <4>3. KeepsAllBut(NoPhoto, q)
        BY <4>1, RowsAre DEF PlaceInv, RowsFit
      <4>4. queue' = q => QueueGoes /\ files' \subseteq Photos
        BY <4>2, <4>3, RowsGo DEF PlaceInv, TypeOK
      <4> QED
        BY <1>2, <3>3, <4>2, <4>3, <4>4 DEF KeepsAllBut, UploadLeaves
    <3> QED
      BY <3>1, <3>2, <3>3
  <2>4. PICK q : /\ Keeps(q) /\ UploadLeaves(q) /\ (GoOn(q) \/ Finish(q))
                 /\ queue' = q => QueueGoes /\ files' \subseteq Photos
    BY <2>3
  <2>5. Keeps(q) /\ Ended(q)
    BY <1>3, <2>4, GoesOn, Finishes
  <2>6. QueueGoes /\ files' \subseteq Photos
    BY <2>4, <2>5 DEF Ended
  <2>7. PlaceInv'
    BY <1>3, <2>2, <2>5, <2>6, EndedInv
  <2> QED
    BY <2>4, <2>5, <2>7
<1> QED
  BY <1>4, <1>5

LEMMA Goes ==
  ASSUME PlaceInv, NextPhoto
  PROVE  PlaceInv'
<1>b. "camera" \in Slots /\ "import" \in Slots /\ "run" \in Slots
  BY DEF Slots
<1>1. /\ runs # <<>> /\ Run.pc = "next"
      /\ UNCHANGED <<user, device, known, files, flows, server, takenBy, fate, world>>
  BY DEF NextPhoto
<1>2. calls["run"] = NoCall
  BY <1>b, <1>1 DEF PlaceInv, RunsFit, CallsFit, CallOK
<1>3. CASE Finish(queue) /\ UNCHANGED calls
  <2>1. Keeps(queue)
    BY RowsAre DEF PlaceInv, RowsFit, KeepsAllBut
  <2>2. PICK q : q = queue
    OBVIOUS
  <2>3. Ended(q) /\ Keeps(q)
    BY <1>1, <1>3, <2>1, <2>2, Finishes
  <2>4. QueueGoes
    BY <1>1, <2>2, <2>3 DEF QueueGoes, Ended
  <2>5. /\ camera' \in Cameras /\ cut' \subseteq Photos /\ known' \in {"yes", "no", "unknown"}
        /\ camera'.page = camera.page /\ (camera'.scanning => camera.scanning) /\ files' \subseteq Photos
    BY <1>1 DEF PlaceInv, TypeOK, flows, fate
  <2>6. UNCHANGED <<user, device, import, server, takenBy, told, displaced, unsure, world>>
    BY <1>1 DEF flows, fate
  <2> QED
    BY <1>2, <1>3, <2>3, <2>4, <2>5, <2>6, EndedInv
<1>4. CASE Run.todo # <<>> /\ currentOwnerIs(Run.owner) /\ ~(Finish(queue) /\ UNCHANGED calls)
  <2>1. PICK run \in Runs : run = Run
    BY <1>1 DEF PlaceInv, RunsFit, Run
  <2>2. PICK p : p = Head(run.todo)
    OBVIOUS
  <2>3. /\ runs' = <<[run EXCEPT !.pc = "upload"]>> \o Tail(runs)
        /\ queue' = updateStatus(p, "syncing")
        /\ calls' = Send("run", p, user)
        /\ UNCHANGED <<listening, due, awaiting, timer>>
        /\ user = run.owner /\ run.todo # <<>>
    BY <1>4, <2>1, <2>2 DEF NextPhoto, SetRun, currentOwnerIs
  <2>4. TodoFit(run.todo, run.owner)
    BY <1>1, <2>1 DEF PlaceInv, RunsFit
  <2>5. p \in Photos /\ Taker(p, user) /\ p # NoPhoto /\ user \in Accounts
    <3>1. Len(run.todo) \in Nat \ {0} /\ p = run.todo[1] /\ p \in Photos
      BY <2>2, <2>3, <2>4 DEF TodoFit
    <3> QED
      BY <2>1, <2>3, <2>4, <3>1 DEF TodoFit, Runs, Photos, NoPhoto
  <2>6. /\ calls' \in [Slots -> Calls] /\ \A t \in Slots \ {"run"} : calls'[t] = calls[t]
        /\ calls'["run"].pc = "sent" /\ calls'["run"].photo = p /\ calls'["run"].account = user
        /\ calls'["run"].answer = "none"
    BY <1>b, <2>3, <2>5, SendIs
  <2>7. calls'["camera"] = calls["camera"] /\ calls'["import"] = calls["import"]
    BY <1>b, <2>6
  <2>8. Flow' = Flow
    BY <1>1, <2>7 DEF Flow, flows
  <2>9. Longer /\ FlowShrinks
    BY <1>1, <2>8, SameTakers DEF FlowShrinks
  <2>10. PICK q : q = updateStatus(p, "syncing")
    OBVIOUS
  <2>11. KeepsAllBut(NoPhoto, q) /\ queue' = q
    BY <2>3, <2>10, RowsAre DEF PlaceInv, RowsFit
  <2>12. QueueGoes
    BY <1>1, <2>11, RowsGo
  <2>13. RowsFit'
    BY <1>1, <2>9, <2>12, RowsStay, TakersAre DEF PlaceInv
  <2> DEFINE r == [run EXCEPT !.pc = "upload"]
  <2>14. r \in Runs /\ r.pc = "upload" /\ r.todo = run.todo /\ r.owner = run.owner
    BY <2>1 DEF Runs
  <2>a. runs' = <<r>> \o Tail(runs)
    BY <2>3
  <2> HIDE DEF r
  <2>15. runs' \in Seq(Runs) /\ runs' # <<>> /\ Head(runs') = r
    <3>1. Tail(runs) \in Seq(Runs)
      BY <1>1 DEF PlaceInv, RunsFit
    <3> QED
      BY <2>14, <2>a, <3>1
  <2>16. RunsFit'
    <3>1. TodoFit(run.todo, run.owner)'
      BY <1>1, <2>4, <2>9, TodoStays, TakersAre
    <3>2. (runs # <<>> => TodoFit(Run.todo, Run.owner))'
      BY <2>14, <2>15, <3>1 DEF TodoFit, Run, Taker
    <3> QED
      BY <2>2, <2>3, <2>6, <2>14, <2>15, <3>2 DEF RunsFit, Run
  <2>17. CallsFit'
    <3>1. ASSUME NEW s \in Slots PROVE CallOK(calls[s])'
      <4>1. CASE s = "run"
        BY <1>1, <2>5, <2>6, <4>1 DEF CallOK, Taker
      <4>2. CASE s # "run"
        <5>1. calls'[s] = calls[s] /\ CallOK(calls[s])
          BY <2>6, <4>2 DEF PlaceInv, CallsFit
        <5> QED
          BY <1>1, <5>1 DEF CallOK, Taker
      <4> QED
        BY <4>1, <4>2
    <3> QED
      BY <3>1 DEF CallsFit, CallOK, Taker
  <2>18. ImportFit' /\ FlowFit' /\ ScreensFit'
    BY <1>1, <2>3, <2>7 DEF PlaceInv, ImportFit, FlowFit, ScreensFit, Taker, flows
  <2>19. /\ queue' \in Seq(PendingReceipts)
         /\ \A i, j \in 1 .. Len(queue') : queue'[i].photo = queue'[j].photo => i = j
    BY <2>11 DEF KeepsAllBut, Keeps, QueueOK
  <2>b. UNCHANGED <<listening, due, awaiting, timer>>
    BY <2>3
  <2>20. TypeOK'
    BY <1>1, <2>b, <2>6, <2>15, <2>19 DEF PlaceInv, TypeOK, device, flows, server, fate, world
  <2> QED
    BY <2>13, <2>16, <2>17, <2>18, <2>20 DEF PlaceInv
<1> QED
  BY <1>3, <1>4 DEF NextPhoto

-----------------------------------------------------------------------------
(* The end of a session and of the app.                                     *)

(* What the calls nobody hears of leave behind: photos of theirs, stored or not. *)
LEMMA UnheardIs ==
  ASSUME PlaceInv, NEW slots \in SUBSET Slots, Unheard(slots), UNCHANGED takenBy
  PROVE  /\ calls' \in [Slots -> Calls] /\ CallsFit'
         /\ \A s \in slots : calls'[s] = NoCall
         /\ \A s \in Slots \ slots : calls'[s] = calls[s]
         /\ receipts' \in [Accounts -> [Photos -> Nat]] /\ unsure' \subseteq Photos
         /\ \A a \in Accounts, p \in Photos : receipts'[a][p] # receipts[a][p] =>
                receipts'[a][p] >= receipts[a][p] /\ Taker(p, a) /\ p \in unsure'
         /\ unsure \subseteq unsure' /\ \A s \in slots : calls[s].pc # "none" => calls[s].photo \in unsure'
<1>1. /\ \A s \in slots : calls'[s] = NoCall
      /\ \A s \in Slots \ slots : calls'[s] = calls[s]
  BY DEF Unheard
<1>2. calls' \in [Slots -> Calls]
  BY Records DEF Unheard, PlaceInv, TypeOK
<1>3. CallsFit'
  <2>1. ASSUME NEW s \in Slots PROVE CallOK(calls[s])'
    <3>1. CASE s \in slots
      BY <1>1, <3>1, Records DEF CallOK
    <3>2. CASE s \notin slots
      <4>1. calls'[s] = calls[s] /\ CallOK(calls[s])
        BY <1>1, <3>2 DEF PlaceInv, CallsFit
      <4> QED
        BY <4>1 DEF CallOK, Taker
    <3> QED
      BY <3>1, <3>2
  <2> QED
    BY <2>1 DEF CallsFit, CallOK, Taker
<1> DEFINE busy == {s \in slots : calls[s].pc = "reading"}
           photos == {calls[s].photo : s \in {s \in slots : calls[s].pc # "none"}}
<1>4. unsure' = unsure \cup photos
  BY DEF Unheard
<1>5. photos \subseteq Photos /\ \A s \in slots : calls[s].pc # "none" => calls[s].photo \in photos
  BY CallTaker
<1>6. PICK stored \in SUBSET busy :
         receipts' = [a \in Accounts |-> [p \in Photos |-> receipts[a][p] + Cardinality(
                         {s \in stored : calls[s].account = a /\ calls[s].photo = p})]]
  BY DEF Unheard
<1> DEFINE More(a, p) == {s \in stored : calls[s].account = a /\ calls[s].photo = p}
<1>7. \A a, p : Cardinality(More(a, p)) \in Nat
  BY SlotsFinite
<1>8. receipts \in [Accounts -> [Photos -> Nat]] /\ unsure \subseteq Photos
  BY DEF PlaceInv, TypeOK
<1>9. \A a \in Accounts, p \in Photos : receipts'[a][p] = receipts[a][p] + Cardinality(More(a, p))
  BY <1>6
<1>10. receipts' \in [Accounts -> [Photos -> Nat]]
  <2>1. receipts' = [a \in Accounts |-> [p \in Photos |-> receipts[a][p] + Cardinality(More(a, p))]]
    BY <1>6
  <2> HIDE DEF More
  <2>2. \A a \in Accounts, p \in Photos : receipts[a][p] + Cardinality(More(a, p)) \in Nat
    BY <1>7, <1>8
  <2> QED
    BY <2>1, <2>2
<1>11. ASSUME NEW a \in Accounts, NEW p \in Photos, receipts'[a][p] # receipts[a][p]
       PROVE  receipts'[a][p] >= receipts[a][p] /\ Taker(p, a) /\ p \in unsure'
  <2>1. receipts'[a][p] >= receipts[a][p]
    <3> HIDE DEF More
    <3> QED
      BY <1>7, <1>8, <1>9
  <2>2. More(a, p) # {}
    <3>1. CASE More(a, p) = {}
      <4>1. Cardinality(More(a, p)) = 0
        BY <3>1, FS_EmptySet
      <4> HIDE DEF More
      <4> QED
        BY <1>8, <1>9, <1>11, <4>1
    <3> QED
      BY <3>1
  <2>3. PICK s \in slots : calls[s].pc = "reading" /\ calls[s].account = a /\ calls[s].photo = p
    BY <2>2
  <2>4. Taker(p, a) /\ p \in photos
    BY <1>5, <2>3, CallTaker
  <2> QED
    BY <1>4, <2>1, <2>4
<1> QED
  BY <1>1, <1>2, <1>3, <1>4, <1>5, <1>8, <1>10, <1>11

LEMMA SignsOut ==
  ASSUME PlaceInv, SignOut
  PROVE  PlaceInv'
<1>b. "camera" \in Slots /\ "import" \in Slots /\ "run" \in Slots /\ {"camera"} \in SUBSET Slots
  BY DEF Slots
<1>1. UNCHANGED <<device, store, runs, listening, awaiting, timer, granted, premium, together, takenBy,
                  told, displaced, faults>>
      /\ user' = NoOne /\ known' = "unknown" /\ due' = TRUE /\ camera' = Ready
      /\ import' = IF import.pc = "uploading" THEN import ELSE NoImport
  BY DEF SignOut
<1>2. /\ calls' \in [Slots -> Calls] /\ CallsFit'
      /\ calls'["camera"] = NoCall /\ calls'["import"] = calls["import"] /\ calls'["run"] = calls["run"]
      /\ receipts' \in [Accounts -> [Photos -> Nat]] /\ unsure' \subseteq Photos
  BY <1>b, <1>1, UnheardIs DEF SignOut
<1>3. import' \in Imports /\ import'.photo = import.photo /\ import'.owner \in {import.owner, NoOne}
      /\ (import.pc = "uploading" => import' = import) /\ (import.pc # "uploading" => import'.pc = "idle")
  BY <1>1, Records, ImportIdle DEF PlaceInv, TypeOK, NoImport
<1>4. Flow' = {NoPhoto, calls["import"].photo}
  BY <1>1, <1>2, Records DEF Flow
<1>5. Longer /\ FlowShrinks
  BY <1>1, <1>4, SameTakers, TakersAre DEF FlowShrinks, Flow, NoPhoto
<1>6. RowsFit' /\ RunsFit'
  BY <1>1, <1>2, <1>5, SameStore, SameRuns, RowsStay, RunsStay, TakersAre DEF PlaceInv
<1>7. ImportFit' /\ FlowFit'
  BY <1>1, <1>2, <1>3, Records, ImportIdle DEF PlaceInv, ImportFit, FlowFit
<1>8. ScreensFit'
  BY <1>1, <1>2, <1>3, Records DEF PlaceInv, ScreensFit
<1>9. cut' \subseteq Photos
  <2>1. Held \subseteq Photos
    <3>1. camera.page \in Photos \cup {NoPhoto} /\ calls["camera"].photo \in Photos \cup {NoPhoto}
      BY <1>b, Bounds DEF PlaceInv, TypeOK, Cameras, Calls, Photos, NoPhoto
    <3> QED
      BY <3>1 DEF Held
  <2> QED
    BY <2>1 DEF SignOut, PlaceInv, TypeOK
<1>10. acts' \in 0 .. MaxActs
  BY ActIs DEF SignOut
<1>11. TypeOK'
  BY <1>1, <1>2, <1>3, <1>9, <1>10, Records DEF PlaceInv, TypeOK, device, store
<1> QED
  BY <1>2, <1>6, <1>7, <1>8, <1>11 DEF PlaceInv

LEMMA Relaunches ==
  ASSUME PlaceInv, Relaunch
  PROVE  PlaceInv'
<1>b. "camera" \in Slots /\ "import" \in Slots /\ "run" \in Slots /\ Slots \in SUBSET Slots
  BY DEF Slots
<1>1. /\ UNCHANGED <<user, connected, files, granted, premium, together, takenBy, told, displaced, acts>>
      /\ queue' = Restored /\ known' = "unknown" /\ camera' = Ready /\ import' = NoImport
      /\ runs' = <<>> /\ listening' = NoOne /\ awaiting' = FALSE /\ timer' = FALSE /\ due' = TRUE /\ active' = TRUE
  BY DEF Relaunch
<1>2. /\ calls' \in [Slots -> Calls] /\ CallsFit'
      /\ calls'["camera"] = NoCall /\ calls'["import"] = NoCall /\ calls'["run"] = NoCall
      /\ receipts' \in [Accounts -> [Photos -> Nat]] /\ unsure' \subseteq Photos
  BY <1>b, <1>1, UnheardIs DEF Relaunch
<1>4. Flow' = {NoPhoto}
  BY <1>1, <1>2, Records DEF Flow
<1>5. Longer /\ FlowShrinks
  BY <1>1, <1>4, SameTakers, TakersAre DEF FlowShrinks
<1>6. PICK q : q = Restored
  OBVIOUS
<1>7. KeepsAllBut(NoPhoto, q) /\ queue' = q
  BY <1>1, <1>6, RowsAre DEF PlaceInv, RowsFit
<1>8. RowsFit'
  BY <1>1, <1>5, <1>7, RowsGo, RowsStay, TakersAre DEF PlaceInv
<1>9. RunsFit' /\ ImportFit' /\ FlowFit' /\ ScreensFit'
  <2>1. <<>> \in Seq(Runs)
    OBVIOUS
  <2> QED
    BY <1>1, <1>2, <2>1, Records DEF RunsFit, ImportFit, FlowFit, ScreensFit
<1>10. cut' \subseteq Photos
  <2>1. Held \subseteq Photos /\ (import.photo # NoPhoto => import.photo \in Photos)
    <3>1. camera.page \in Photos \cup {NoPhoto} /\ calls["camera"].photo \in Photos \cup {NoPhoto}
      BY <1>b, Bounds DEF PlaceInv, TypeOK, Cameras, Calls, Photos, NoPhoto
    <3>a. import.photo \in 0 .. MaxPhotos
      BY DEF PlaceInv, TypeOK, Imports
    <3>2. import.photo \in Photos \cup {NoPhoto}
      BY <3>a, Bounds DEF Photos, NoPhoto
    <3> QED
      BY <3>1, <3>2 DEF Held
  <2> QED
    BY <2>1 DEF Relaunch, PlaceInv, TypeOK
<1>11. faults' \in 0 .. MaxFaults
  BY Bounds DEF Relaunch, PlaceInv, TypeOK
<1>12. queue' \in Seq(PendingReceipts) /\ runs' \in Seq(Runs)
       /\ \A i, j \in 1 .. Len(queue') : queue'[i].photo = queue'[j].photo => i = j
  BY <1>1, <1>7 DEF KeepsAllBut, Keeps, QueueOK
<1>13. TypeOK'
  BY <1>1, <1>2, <1>10, <1>11, <1>12, Records DEF PlaceInv, TypeOK
<1> QED
  BY <1>2, <1>8, <1>9, <1>13 DEF PlaceInv

-----------------------------------------------------------------------------
(* Every photo is in one place.                                             *)

LEMMA PlaceInit ==
  ASSUME Init
  PROVE  PlaceInv
<1>0. user \in Accounts
  BY Bounds DEF Init
<1>1. calls \in [Slots -> Calls] /\ \A s \in Slots : calls[s] = NoCall
  BY Records DEF Init
<1>a. "camera" \in Slots /\ "import" \in Slots /\ "run" \in Slots
  BY DEF Slots
<1>2. queue = <<>> /\ runs = <<>> /\ takenBy = <<>> /\ <<>> \in Seq(PendingReceipts) /\ <<>> \in Seq(Runs)
      /\ <<>> \in Seq(Accounts) /\ Len(<<>>) = 0
  BY DEF Init
<1>3. receipts \in [Accounts -> [Photos -> Nat]]
  BY DEF Init
<1>b. {} \subseteq Photos /\ 0 \in 0 .. MaxActs /\ 0 \in 0 .. MaxFaults /\ 0 <= MaxPhotos
  BY Bounds
<1>c. \A i, j \in 1 .. Len(queue) : queue[i].photo = queue[j].photo => i = j
  BY <1>2
<1>d. {user, listening} \subseteq Accounts \cup {NoOne}
      /\ {connected, active, due, awaiting, timer} \subseteq BOOLEAN /\ known \in {"yes", "no", "unknown"}
  BY <1>0 DEF Init
<1>4. TypeOK
  BY <1>1, <1>2, <1>3, <1>b, <1>c, <1>d, Records DEF Init, TypeOK
<1>5. RowsFit /\ RunsFit
  BY <1>1, <1>2, <1>a, Records DEF RowsFit, QueueOK, RunsFit
<1>6. CallsFit /\ ImportFit /\ FlowFit /\ ScreensFit
  BY <1>1, <1>a, Records DEF Init, CallsFit, CallOK, ImportFit, FlowFit, ScreensFit
<1> QED
  BY <1>4, <1>5, <1>6 DEF PlaceInv

LEMMA CalmInv ==
  ASSUME PlaceInv, Calm
  PROVE  PlaceInv'
BY QuietInv DEF Calm

LEMMA PlaceStutters ==
  ASSUME PlaceInv, UNCHANGED vars
  PROVE  PlaceInv'
<1>1. TypeOK'
  BY DEF PlaceInv, TypeOK, vars, device, store, flows, sync, server, fate, world
<1>2. Quiet /\ ScreensFit'
  BY StillScreens DEF PlaceInv, ScreensFit, vars, flows, sync, server, fate
<1>3. QueueGoes /\ RunsGo
  BY SameStore, SameRuns DEF vars, sync
<1> QED
  BY <1>1, <1>2, <1>3, QuietInv

LEMMA PlaceSteps ==
  ASSUME PlaceInv, [Next]_vars
  PROVE  PlaceInv'
<1>1. CASE \E s \in Slots : Check(s) \/ Read(s) \/ Fails(s)
  BY <1>1, Checks, Reads, Failing
<1>2. CASE Scanned \/ Imported
  BY <1>2, ScansEnd, ImportsEnd
<1>3. CASE NextPhoto \/ Uploaded
  BY <1>3, Goes, UploadsEnd
<1>4. CASE RunEffect \/ Retry \/ Foreground \/ RetryNow
  BY <1>4, EffectRuns, Retries, Returns, RetriesNow, CalmInv
<1>5. CASE Allow \/ Decline \/ (\E here \in BOOLEAN : Withdraw(here)) \/ FetchMe
  BY <1>5, Allows, Declines, Withdraws, Fetches, CalmInv
<1>6. CASE OpenScanner \/ NoCapture \/ CancelPage \/ Import \/ NothingPicked
  BY <1>6, Opens, CapturesNothing, Cancels, ImportBegins, PicksNothing, CalmInv
<1>7. CASE UsePage \/ \E p \in Photos : Captured(p) \/ Picked(p)
  BY <1>7, UsesPage, Captures, Picks
<1>8. CASE \E p \in Photos : UploadNow(p) \/ DropPending(p)
  BY <1>8, RowGoes, Drops, CalmInv
<1>9. CASE Background \/ (\E on \in BOOLEAN : Connect(on)) \/ Upgrade
  BY <1>9, Leaves, CalmInv
<1>10. CASE (\E a \in Accounts : SignIn(a)) \/ SignOut \/ Relaunch
  BY <1>10, SignsIn, SignsOut, Relaunches, CalmInv
<1>11. CASE UNCHANGED vars
  BY <1>11, PlaceStutters
<1> QED
  BY <1>1, <1>2, <1>3, <1>4, <1>5, <1>6, <1>7, <1>8, <1>9, <1>10, <1>11 DEF Next, Continuing, Serving

(* The variables keep their types: above all, the queue never holds two rows of *)
(* one photo, and every call is of a photo and an account.                      *)
THEOREM TypesHold == Spec => []TypeOK
<1>1. Init => PlaceInv
  BY PlaceInit
<1>2. PlaceInv /\ [Next]_vars => PlaceInv'
  BY PlaceSteps
<1>3. PlaceInv => TypeOK
  BY DEF PlaceInv
<1> QED
  BY <1>1, <1>2, <1>3, PTL DEF Spec

-----------------------------------------------------------------------------
(* What becomes of the photos.                                              *)

(* A photo the server has stored, as its one answer said or will say. *)
Known(p) == Stored(p) /\ p \notin unsure

InRow(p) == \E i \in 1 .. Len(queue) : queue[i].photo = p
InTodo(p) == runs # <<>> /\ \E j \in 1 .. Len(Run.todo) : Run.todo[j] = p

(* Nobody will send it again: its own call is answered "ok". *)
Alone(p) ==
    /\ p # camera.page
    /\ \A s \in Slots : calls[s].photo = p => calls[s].answer = "ok"
    /\ InRow(p) \/ InTodo(p) => calls["run"].photo = p

ReceiptsFit == \A a \in Accounts, p \in Photos : receipts[a][p] > 0 => Taker(p, a)
Once == \A p \in Photos : Known(p) => Alone(p)
Answered == \A s \in Slots : calls[s].answer = "ok" => Stored(calls[s].photo)

Kept(p) == Stored(p) \/ InQueue(p) \/ p \in {camera.page, calls["camera"].photo, import.photo}
           \/ p \in told \cup cut \cup displaced

FateInv == PlaceInv /\ ReceiptsFit /\ NoPhotoTwice /\ Once /\ Answered /\ PhotoKept

LEMMA KeptIs == PhotoKept <=> \A p \in 1 .. Len(takenBy) : Kept(p)
BY DEF PhotoKept, Kept

(* The receipts change only for photos whose upload ends without an answer. *)
ReceiptsGrow ==
    /\ \A a \in Accounts, p \in Photos :
         \/ receipts'[a][p] = receipts[a][p]
         \/ receipts'[a][p] >= receipts[a][p] /\ Taker(p, a) /\ p \in unsure'
    /\ unsure \subseteq unsure'

LEMMA GrowIs ==
  ASSUME FateInv, ReceiptsGrow, Longer, TypeOK'
  PROVE  /\ ReceiptsFit' /\ NoPhotoTwice'
         /\ \A p : Stored(p) /\ p \in Photos => Stored(p)'
         /\ \A p \in Photos : Known(p)' => Known(p)
<1>1. receipts \in [Accounts -> [Photos -> Nat]] /\ receipts' \in [Accounts -> [Photos -> Nat]]
  BY DEF FateInv, PlaceInv, TypeOK
<1>2. \A a \in Accounts, p \in Photos : receipts[a][p] \in Nat /\ receipts'[a][p] \in Nat
  BY <1>1
<1>3. ReceiptsFit'
  <2>1. ASSUME NEW a \in Accounts, NEW p \in Photos, receipts'[a][p] > 0 PROVE Taker(p, a)'
    <3>1. Taker(p, a)
      BY <1>2, <2>1 DEF FateInv, ReceiptsFit, ReceiptsGrow
    <3>2. p \in 1 .. Len(takenBy) /\ takenBy[p] = a
      BY <3>1, TakersAre DEF Taker, FateInv
    <3> QED
      BY <3>1, <3>2 DEF Taker, Longer
  <2> QED
    BY <2>1 DEF ReceiptsFit, Taker
<1>4. NoPhotoTwice'
  BY <1>2 DEF FateInv, NoPhotoTwice, ReceiptsGrow
<1>5. \A p : Stored(p) /\ p \in Photos => Stored(p)'
  BY <1>2 DEF Stored, ReceiptsGrow
<1>6. \A p \in Photos : Known(p)' => Known(p)
  BY <1>2 DEF Known, Stored, ReceiptsGrow
<1> QED
  BY <1>3, <1>4, <1>5, <1>6

(* Nothing known is sent, shown or queued again. *)
LEMMA OnceIs ==
  ASSUME FateInv, \A p \in Photos : Known(p)' => Known(p),
         \A p \in Photos : Known(p) => Alone(p)'
  PROVE  Once'
BY DEF Once, Known, Stored, Alone, InRow, InTodo, Run

LEMMA KnownIs ==
  ASSUME FateInv, NEW p \in Photos, Known(p)
  PROVE  Alone(p) /\ p # NoPhoto /\ p \in 1 .. Len(takenBy)
BY DEF FateInv, Once, Known, Stored, ReceiptsFit, Taker, Photos, NoPhoto

-----------------------------------------------------------------------------
(* Steps that move no photo.                                                *)

LEMMA CalmGrows ==
  ASSUME FateInv, Calm, PlaceInv'
  PROVE  ReceiptsGrow /\ Longer /\ TypeOK' /\ ReceiptsFit' /\ NoPhotoTwice' /\ Answered' /\ Once'
<1>1. UNCHANGED <<calls, receipts, unsure>>
  BY DEF Calm, Quiet
<1>2. ReceiptsGrow /\ TypeOK'
  BY <1>1 DEF ReceiptsGrow, Calm
<1>3. Longer
  BY SameTakers DEF FateInv, Calm, Quiet
<1>4. /\ ReceiptsFit' /\ NoPhotoTwice'
      /\ \A p : Stored(p) /\ p \in Photos => Stored(p)'
      /\ \A p \in Photos : Known(p)' => Known(p)
  BY <1>2, <1>3, GrowIs
<1>5. Answered'
  BY <1>1 DEF FateInv, Answered, Stored
<1>6. ASSUME NEW p \in Photos, Known(p) PROVE Alone(p)'
  <2>1. Alone(p) /\ p # NoPhoto
    BY <1>6, KnownIs
  <2>2. InRow(p)' => InRow(p)
    BY DEF InRow, Calm, QueueGoes, Keeps
  <2>3. InTodo(p)' => InTodo(p) \/ InRow(p)
    <3>1. PICK rs \in Seq(Runs) :
             /\ runs' = rs
             /\ runs # <<>> => rs # <<>> /\ Head(rs) = Head(runs)
             /\ runs = <<>> /\ rs # <<>> => FromQueue(Head(rs).todo, queue)
      BY DEF Calm, RunsGo
    <3> QED
      BY <3>1 DEF InTodo, InRow, Run, FromQueue
  <2> QED
    BY <1>1, <2>1, <2>2, <2>3 DEF Alone, Calm, Quiet
<1>7. Once'
  BY <1>4, <1>6, OnceIs
<1> QED
  BY <1>2, <1>3, <1>4, <1>5, <1>7

(* The rows are kept, and a page goes only to be told of, or cut off. *)
Holds ==
    /\ told \subseteq told' /\ cut \subseteq cut' /\ displaced \subseteq displaced'
    /\ camera'.page = camera.page \/ camera.page \in {NoPhoto} \cup told' \cup cut'
    /\ \A p : InRow(p) => InRow(p)' \/ p \in told'

LEMMA CalmKept ==
  ASSUME FateInv, Calm, PlaceInv', Holds
  PROVE  FateInv'
<1>1. ReceiptsGrow /\ Longer /\ TypeOK' /\ ReceiptsFit' /\ NoPhotoTwice' /\ Answered' /\ Once'
  BY CalmGrows
<1>2. UNCHANGED <<calls, takenBy, receipts>> /\ import'.photo = import.photo
  BY DEF Calm, Quiet
<1>3. ASSUME NEW p \in 1 .. Len(takenBy) PROVE Kept(p)'
  <2>1. Kept(p) /\ p # NoPhoto
    BY KeptIs, TakersAre DEF FateInv
  <2>2. Stored(p) => Stored(p)'
    BY <1>2 DEF Stored
  <2>3. InQueue(p) => InQueue(p)' \/ p \in told'
    <3>1. InQueue(p) => InRow(p)' \/ p \in told'
      BY DEF InQueue, InRow, Holds
    <3>2. InRow(p)' => InQueue(p)'
      BY DEF InRow, InQueue, PlaceInv, RowsFit
    <3> QED
      BY <3>1, <3>2
  <2>4. p = camera.page => p = camera'.page \/ p \in told' \cup cut'
    BY <2>1 DEF Holds
  <2> QED
    BY <1>2, <2>1, <2>2, <2>3, <2>4 DEF Kept, Holds, Stored, InQueue
<1>4. PhotoKept'
  <2>1. (\A p \in 1 .. Len(takenBy) : Kept(p))'
    BY <1>2, <1>3
  <2> QED
    BY <2>1, KeptIs DEF Kept, PhotoKept
<1> QED
  BY <1>1, <1>4 DEF FateInv

LEMMA RowsKept ==
  ASSUME PlaceInv, NEW x, NEW q, queue' = q, KeepsAllBut(x, q)
  PROVE  \A p : InRow(p) => InRow(p)' \/ p = x
BY DEF InRow, KeepsAllBut

LEMMA RowPhoto ==
  ASSUME PlaceInv, NEW p, InRow(p)
  PROVE  p \in Photos /\ p # NoPhoto /\ p \in 1 .. Len(takenBy)
<1>1. \A i \in 1 .. Len(queue) : Taker(queue[i].photo, queue[i].owner)
  BY DEF PlaceInv, RowsFit
<1> QED
  BY <1>1, TakersAre DEF InRow, Taker

LEMMA ConsentHolds ==
  ASSUME PlaceInv, NEW k, NEW flow \in {"ready", "processing", "low-quality", "queued"}, ConsentScreen(k, flow)
  PROVE  cut \subseteq cut' /\ (camera'.page = camera.page \/ camera.page \in {NoPhoto} \cup cut')
<1>1. CASE k = "no"
  BY <1>1 DEF ConsentScreen, HoldsPage
<1>2. CASE k # "no"
  BY <1>2 DEF ConsentScreen, PlaceInv, TypeOK, Cameras
<1> QED
  BY <1>1, <1>2

LEMMA QuietHolds ==
  ASSUME FateInv,
         \/ Allow \/ Decline \/ Import \/ NothingPicked \/ NoCapture
         \/ RunEffect \/ Retry \/ Foreground \/ RetryNow \/ Background
         \/ (\E on \in BOOLEAN : Connect(on)) \/ Upgrade \/ (\E a \in Accounts : SignIn(a))
  PROVE  Holds
<1>1. UNCHANGED <<queue, told, cut, displaced>>
  BY DEF Allow, Decline, Import, ensureConsent, NothingPicked, NoCapture, RunEffect, Retry, Foreground, RetryNow, Background,
         Connect, Upgrade, SignIn, store, fate
<1>2. CASE UNCHANGED camera
  BY <1>1, <1>2 DEF Holds, InRow
<1>3. CASE NoCapture
  <2>1. camera'.page = camera.page
    BY <1>3 DEF NoCapture, FateInv, PlaceInv, TypeOK, Cameras
  <2> QED
    BY <1>1, <2>1 DEF Holds, InRow
<1> QED
  BY <1>2, <1>3 DEF Allow, Decline, Import, ensureConsent, NothingPicked, RunEffect, Retry, Foreground, RetryNow, Background,
                    Connect, Upgrade, SignIn, flows

LEMMA ScreenHolds ==
  ASSUME FateInv, (\E here \in BOOLEAN : Withdraw(here)) \/ FetchMe \/ OpenScanner \/ CancelPage
  PROVE  Holds
<1>0. camera.flow \in {"ready", "processing", "low-quality", "queued"}
  BY DEF FateInv, PlaceInv, TypeOK, Cameras
<1>1. UNCHANGED <<queue, displaced>>
  BY DEF Withdraw, FetchMe, OpenScanner, CancelPage, store
<1>2. CASE UNCHANGED told /\ \E k : ConsentScreen(k, camera.flow)
  BY <1>0, <1>1, <1>2, ConsentHolds DEF Holds, InRow, FateInv
<1>3. CASE UNCHANGED <<told, cut, camera>>
  BY <1>1, <1>3 DEF Holds, InRow
<1>4. CASE UNCHANGED cut /\ told \subseteq told' /\ camera.page \in {NoPhoto} \cup told'
  BY <1>1, <1>4 DEF Holds, InRow
<1>5. \/ UNCHANGED told /\ \E k : ConsentScreen(k, camera.flow)
      \/ UNCHANGED <<told, cut, camera>>
      \/ UNCHANGED cut /\ told \subseteq told' /\ camera.page \in {NoPhoto} \cup told'
  <2>1. CASE \E here \in BOOLEAN : Withdraw(here)
    BY <2>1 DEF Withdraw
  <2>2. CASE FetchMe
    BY <2>2 DEF FetchMe
  <2>3. CASE OpenScanner
    BY <2>3 DEF OpenScanner, HoldsPage
  <2>4. CASE CancelPage
    BY <2>4 DEF CancelPage
  <2> QED
    BY <2>1, <2>2, <2>3, <2>4
<1> QED
  BY <1>2, <1>3, <1>4, <1>5

LEMMA RowHolds ==
  ASSUME FateInv, NEW p \in Photos, UploadNow(p) \/ DropPending(p)
  PROVE  Holds
<1>1. UNCHANGED <<camera, cut, displaced>> /\ told \subseteq told'
  BY DEF UploadNow, DropPending, fate, flows
<1>2. \A x : InRow(x) => InRow(x)' \/ x \in told'
  <2>1. CASE UploadNow(p)
    <3>1. PICK q : q = requeue(p)
      OBVIOUS
    <3>2. KeepsAllBut(NoPhoto, q) /\ queue' = q
      BY <2>1, <3>1, RowsAre DEF UploadNow, SetQueue, FateInv, PlaceInv, RowsFit
    <3> QED
      BY <3>2, RowsKept, RowPhoto DEF FateInv
  <2>2. CASE DropPending(p)
    <3>1. PICK q : q = removePendingReceipt(p)
      OBVIOUS
    <3>2. KeepsAllBut(p, q) /\ queue' = q /\ p \in told'
      BY <2>2, <3>1, RemovalIs DEF DropPending, SetQueue, FateInv, PlaceInv, RowsFit
    <3> QED
      BY <3>2, RowsKept DEF FateInv
  <2> QED
    BY <2>1, <2>2
<1> QED
  BY <1>1, <1>2 DEF Holds

-----------------------------------------------------------------------------
(* The server's steps.                                                      *)

(* A call that goes on keeps every photo where it is. *)
LEMMA ServesKept ==
  ASSUME FateInv, NEW slot \in Slots, Serves(slot), PlaceInv',
         \A p : Stored(p) /\ p \in Photos => Stored(p)'
  PROVE  PhotoKept'
<1>1. UNCHANGED <<queue, files, camera, import, takenBy, told, cut, displaced>>
  BY DEF Serves, store, flows
<1>2. calls'["camera"].photo = calls["camera"].photo
  BY DEF Serves, Slots
<1>3. ASSUME NEW p \in 1 .. Len(takenBy) PROVE Kept(p)'
  <2>1. Kept(p) /\ p \in Photos
    BY KeptIs, TakersAre DEF FateInv
  <2> QED
    BY <1>1, <1>2, <2>1 DEF Kept, InQueue, Stored
<1> QED
  <2>1. (\A p \in 1 .. Len(takenBy) : Kept(p))'
    BY <1>1, <1>3
  <2> QED
    BY <2>1, KeptIs DEF Kept, PhotoKept

(* The photo of a call is on no other screen, and in the queue only for the run's. *)
LEMMA OnePlace ==
  ASSUME PlaceInv, NEW slot \in Slots, calls[slot].pc # "none"
  PROVE  LET p == calls[slot].photo IN
         /\ p # camera.page
         /\ \A s \in Slots : calls[s].photo = p => s = slot
         /\ InRow(p) \/ InTodo(p) => slot = "run"
<1> DEFINE p == calls[slot].photo
<1>1. p # NoPhoto
  BY CallTaker
<1>2. slot # "run" => p \in Flow
  BY DEF Flow, Slots
<1>3. InRow(p) \/ InTodo(p) => p \notin Flow
  BY DEF InRow, InTodo, PlaceInv, RowsFit, RunsFit, TodoFit
<1>4. calls["run"].photo # NoPhoto => InTodo(calls["run"].photo)
  <2>1. ASSUME calls["run"].photo # NoPhoto
        PROVE  InTodo(calls["run"].photo)
    <3>1. runs # <<>> /\ Run.pc = "upload"
      BY <2>1, Records DEF PlaceInv, RunsFit, CallsFit, CallOK, Slots
    <3>2. Run.todo # <<>> /\ calls["run"].photo = Head(Run.todo) /\ Run.todo \in Seq(Photos)
      BY <3>1 DEF PlaceInv, RunsFit, TodoFit
    <3>3. 1 \in 1 .. Len(Run.todo) /\ Head(Run.todo) = Run.todo[1]
      BY <3>2
    <3> QED
      BY <3>1, <3>2, <3>3 DEF InTodo
  <2> QED
    BY <2>1
<1>5. calls["run"].photo # NoPhoto => calls["run"].photo \notin Flow
  BY <1>4 DEF InTodo, PlaceInv, RunsFit, TodoFit
<1>6. p # camera.page
  BY <1>1, <1>2, <1>5 DEF PlaceInv, FlowFit, Slots, Flow
<1>7. ASSUME NEW s \in Slots, calls[s].photo = p PROVE s = slot
  BY <1>1, <1>5, <1>7 DEF PlaceInv, FlowFit, Slots, Flow
<1> QED
  BY <1>2, <1>3, <1>6, <1>7

(* A call in flight is of no photo that is known to be stored. *)
LEMMA FlightUnknown ==
  ASSUME FateInv, NEW slot \in Slots, calls[slot].pc \in {"sent", "reading"}
  PROVE  /\ ~Known(calls[slot].photo) /\ calls[slot].answer = "none"
         /\ calls[slot].photo \in Photos /\ calls[slot].account \in Accounts
         /\ Taker(calls[slot].photo, calls[slot].account)
<1>1. calls[slot].answer = "none"
  BY DEF FateInv, PlaceInv, CallsFit, CallOK
<1>2. /\ calls[slot].photo \in Photos /\ calls[slot].account \in Accounts
      /\ Taker(calls[slot].photo, calls[slot].account)
  BY CallTaker DEF FateInv
<1> QED
  BY <1>1, <1>2, KnownIs DEF Alone

(* No answer but "ok" for a photo stored by this very step. *)
LEMMA ServesOnce ==
  ASSUME FateInv, NEW slot \in Slots, Serves(slot), PlaceInv', ReceiptsGrow, calls'[slot].answer # "ok"
  PROVE  FateInv'
<1>1. UNCHANGED <<queue, runs, camera, takenBy>>
  BY DEF Serves, store, flows, sync
<1>2. /\ \A s \in Slots : calls'[s].photo = calls[s].photo
      /\ \A s \in Slots \ {slot} : calls'[s] = calls[s]
      /\ calls[slot].answer = "none"
  BY FlightUnknown DEF Serves
<1>3. Longer /\ TypeOK'
  BY <1>1, SameTakers DEF FateInv, PlaceInv
<1>4. /\ ReceiptsFit' /\ NoPhotoTwice'
      /\ \A p : Stored(p) /\ p \in Photos => Stored(p)'
      /\ \A p \in Photos : Known(p)' => Known(p)
  BY <1>3, GrowIs
<1>5. ASSUME NEW p \in Photos, Known(p) PROVE Alone(p)'
  <2>1. Alone(p) /\ p # calls[slot].photo
    BY <1>5, KnownIs, FlightUnknown DEF Serves
  <2>2. calls'["run"].photo = calls["run"].photo
    BY <1>2 DEF Slots
  <2>3. \A s \in Slots : calls'[s].photo = p => calls'[s].answer = "ok"
    BY <1>2, <2>1 DEF Alone
  <2> QED
    BY <1>1, <2>1, <2>2, <2>3 DEF Alone, InRow, InTodo, Run
<1>6. Once'
  BY <1>4, <1>5, OnceIs
<1>7. Answered'
  <2>1. ASSUME NEW s \in Slots, calls'[s].answer = "ok"
        PROVE  \E p \in Photos : p = calls'[s].photo /\ Stored(p)'
    <3>1. calls'[s] = calls[s] /\ calls[s].answer = "ok"
      BY <1>2, <2>1
    <3>2. calls[s].pc # "none"
      BY <3>1, Records DEF FateInv, PlaceInv, CallsFit, CallOK
    <3>3. Stored(calls[s].photo) /\ calls[s].photo \in Photos
      BY <3>1, <3>2, CallTaker DEF FateInv, Answered
    <3> QED
      BY <1>4, <3>1, <3>3
  <2> QED
    BY <2>1 DEF Answered, Stored
<1>8. PhotoKept'
  BY <1>4, ServesKept
<1> QED
  BY <1>4, <1>6, <1>7, <1>8 DEF FateInv

LEMMA ChecksFate ==
  ASSUME FateInv, NEW slot \in Slots, Check(slot)
  PROVE  FateInv'
<1>1. PlaceInv'
  BY Checks DEF FateInv
<1>2. calls[slot].pc = "sent" /\ UNCHANGED <<receipts, unsure>>
  BY DEF Check, fate
<1>3. ReceiptsGrow
  BY <1>2 DEF ReceiptsGrow
<1>4. CASE calls' = [calls EXCEPT ![slot].pc = "reading"]
  <2>1. Serves(slot) /\ calls'[slot].answer # "ok"
    BY <1>2, <1>4 DEF Check, Serves, FateInv, PlaceInv, TypeOK, Calls, CallsFit, CallOK, fate
  <2> QED
    BY <1>1, <1>3, <2>1, ServesOnce
<1>5. CASE \E answer \in Answers \ {"ok"} : calls' = Answer(slot, answer)
  <2>1. Serves(slot) /\ calls'[slot].answer # "ok"
    BY <1>2, <1>5, AnswerIs DEF Check, Serves, FateInv, fate
  <2> QED
    BY <1>1, <1>3, <2>1, ServesOnce
<1> QED
  BY <1>4, <1>5 DEF Check, Answers

LEMMA FailsFate ==
  ASSUME FateInv, NEW slot \in Slots, Fails(slot)
  PROVE  FateInv'
<1>1. PlaceInv'
  BY Failing DEF FateInv
<1>2. Serves(slot) /\ calls'[slot].answer # "ok"
  BY AnswerIs DEF Fails, Serves, Answers, FateInv
<1>3. ReceiptsGrow
  <2>1. CASE UNCHANGED <<receipts, unsure>>
    BY <2>1 DEF ReceiptsGrow
  <2>2. CASE /\ receipts' = [receipts EXCEPT ![calls[slot].account][calls[slot].photo] = @ + 1]
             /\ unsure' = unsure \cup {calls[slot].photo}
    <3>1. PICK a \in Accounts, p \in Photos : a = calls[slot].account /\ p = calls[slot].photo /\ Taker(p, a)
      BY FlightUnknown DEF Fails
    <3>2. receipts \in [Accounts -> [Photos -> Nat]]
      BY DEF FateInv, PlaceInv, TypeOK
    <3>3. receipts' = [receipts EXCEPT ![a][p] = @ + 1] /\ unsure' = unsure \cup {p}
      BY <2>2, <3>1
    <3>4. \A b \in Accounts, x \in Photos :
             receipts'[b][x] = IF b = a /\ x = p THEN receipts[b][x] + 1 ELSE receipts[b][x]
      BY <3>2, <3>3
    <3>5. receipts[a][p] + 1 >= receipts[a][p]
      BY <3>2
    <3> QED
      BY <3>1, <3>3, <3>4, <3>5 DEF ReceiptsGrow
  <2> QED
    BY <2>1, <2>2 DEF Fails
<1> QED
  BY <1>1, <1>2, <1>3, ServesOnce

LEMMA ReadsFate ==
  ASSUME FateInv, NEW slot \in Slots, Read(slot)
  PROVE  FateInv'
<1>1. PlaceInv'
  BY Reads DEF FateInv
<1>2. Serves(slot) /\ calls[slot].pc = "reading" /\ UNCHANGED unsure
  BY AnswerIs DEF Read, Serves, Answers, FateInv, fate
<1>3. CASE calls' = Answer(slot, "unreadable") /\ UNCHANGED receipts
  <2>1. ReceiptsGrow
    BY <1>2, <1>3 DEF ReceiptsGrow
  <2>2. calls'[slot].answer # "ok"
    BY <1>3, AnswerIs DEF Answers, FateInv
  <2> QED
    BY <1>1, <1>2, <2>1, <2>2, ServesOnce
<1>4. CASE /\ receipts' = [receipts EXCEPT ![calls[slot].account][calls[slot].photo] = @ + 1]
           /\ calls' = Answer(slot, "ok")
  <2>1. PICK a \in Accounts, p \in Photos : a = calls[slot].account /\ p = calls[slot].photo /\ Taker(p, a)
    BY <1>2, FlightUnknown
  <2>2. receipts \in [Accounts -> [Photos -> Nat]] /\ receipts' \in [Accounts -> [Photos -> Nat]]
    BY <1>1 DEF FateInv, PlaceInv, TypeOK
  <2>3. /\ \A b \in Accounts, x \in Photos :
             receipts'[b][x] = IF b = a /\ x = p THEN receipts[b][x] + 1 ELSE receipts[b][x]
        /\ \A b \in Accounts, x \in Photos : receipts[b][x] \in Nat
    BY <1>4, <2>1, <2>2
  <2>4. ~Known(p)
    BY <1>2, <2>1, FlightUnknown
  <2>5. UNCHANGED <<queue, runs, camera, takenBy>>
    BY <1>2 DEF Serves, store, flows, sync
  <2>6. \A s \in Slots : calls'[s].photo = calls[s].photo
    BY <1>2 DEF Serves
  <2>7. \A s \in Slots \ {slot} : calls'[s] = calls[s]
    BY <1>2 DEF Serves
  <2>8. calls'[slot].answer = "ok" /\ calls'[slot].photo = p
    BY <1>4, <2>1, AnswerIs DEF Answers, FateInv
  <2>9. \A x : Stored(x) /\ x \in Photos => Stored(x)'
    <3>1. \A b \in Accounts, x \in Photos : receipts[b][x] > 0 => receipts'[b][x] > 0
      BY <2>3
    <3> QED
      BY <3>1 DEF Stored
  <2>10. ReceiptsFit'
    <3>1. ASSUME NEW b \in Accounts, NEW x \in Photos, receipts'[b][x] > 0 PROVE Taker(x, b)
      BY <2>1, <2>3, <3>1 DEF FateInv, ReceiptsFit
    <3> QED
      BY <2>5, <3>1 DEF ReceiptsFit, Taker
  <2>11. NoPhotoTwice'
    <3>1. ASSUME NEW b \in Accounts, NEW x \in Photos, receipts'[b][x] > 1 PROVE x \in unsure
      <4>1. CASE b = a /\ x = p
        <5>1. receipts[a][p] > 0
          BY <2>3, <3>1, <4>1
        <5> QED
          BY <2>4, <4>1, <5>1 DEF Known, Stored
      <4>2. CASE ~(b = a /\ x = p)
        BY <2>3, <3>1, <4>2 DEF FateInv, NoPhotoTwice
      <4> QED
        BY <4>1, <4>2
    <3> QED
      BY <1>2, <3>1 DEF NoPhotoTwice
  <2>12. \A x \in Photos : Known(x)' => Known(x) \/ x = p
    BY <1>2, <2>3 DEF Known, Stored
  <2>13. ASSUME NEW x \in Photos, Known(x) \/ x = p PROVE Alone(x)'
    <3>1. /\ p # camera.page
          /\ \A s \in Slots : calls[s].photo = p => s = slot
          /\ InRow(p) \/ InTodo(p) => slot = "run"
      BY <1>2, <2>1, OnePlace DEF FateInv
    <3>2. CASE x = p
      <4>1. \A s \in Slots : calls'[s].photo = p => calls'[s].answer = "ok"
        BY <2>6, <2>8, <3>1
      <4>2. InRow(p)' \/ InTodo(p)' => calls'["run"].photo = p
        BY <2>1, <2>5, <2>6, <3>1 DEF InRow, InTodo, Run
      <4> QED
        BY <2>5, <3>1, <3>2, <4>1, <4>2 DEF Alone
    <3>3. CASE x # p /\ Known(x)
      <4>1. Alone(x)
        BY <3>3, KnownIs
      <4>2. \A s \in Slots : calls'[s].photo = x => calls'[s].answer = "ok"
        BY <2>6, <2>7, <2>8, <3>3, <4>1 DEF Alone
      <4>3. calls'["run"].photo = calls["run"].photo
        BY <2>6 DEF Slots
      <4> QED
        BY <2>5, <4>1, <4>2, <4>3 DEF Alone, InRow, InTodo, Run
    <3> QED
      BY <2>13, <3>2, <3>3
  <2>14. Once'
    BY <2>12, <2>13 DEF Once, Known, Stored, Alone, InRow, InTodo, Run
  <2>15. Answered'
    <3>1. ASSUME NEW s \in Slots, calls'[s].answer = "ok"
          PROVE  \E x \in Photos : x = calls'[s].photo /\ Stored(x)'
      <4>1. CASE s = slot
        <5>1. receipts'[a][p] > 0
          BY <2>3
        <5> QED
          BY <2>8, <4>1, <5>1 DEF Stored
      <4>2. CASE s # slot
        <5>1. calls'[s] = calls[s] /\ calls[s].answer = "ok"
          BY <2>7, <3>1, <4>2
        <5>2. calls[s].pc # "none"
          BY <5>1, Records DEF FateInv, PlaceInv, CallsFit, CallOK
        <5>3. Stored(calls[s].photo) /\ calls[s].photo \in Photos
          BY <5>1, <5>2, CallTaker DEF FateInv, Answered
        <5> QED
          BY <2>9, <5>1, <5>3
      <4> QED
        BY <4>1, <4>2
    <3> QED
      BY <3>1 DEF Answered, Stored
  <2>16. PhotoKept'
    BY <1>1, <1>2, <2>9, ServesKept
  <2> QED
    BY <1>1, <2>10, <2>11, <2>14, <2>15, <2>16 DEF FateInv
<1> QED
  BY <1>3, <1>4 DEF Read

-----------------------------------------------------------------------------
(* A photo that comes on a screen, or leaves it.                            *)

LEMMA FateFrame ==
  ASSUME FateInv, PlaceInv', ReceiptsGrow, Longer,
         \A p \in Photos : Known(p) /\ p \notin unsure' => Alone(p)',
         \A s \in Slots : calls'[s].answer = "ok" => calls'[s] = calls[s],
         (\A p \in Photos : Stored(p) => Stored(p)') => (\A p \in 1 .. Len(takenBy) : Kept(p))'
  PROVE  FateInv'
<1>1. TypeOK'
  BY DEF PlaceInv
<1>2. /\ ReceiptsFit' /\ NoPhotoTwice'
      /\ \A p : Stored(p) /\ p \in Photos => Stored(p)'
      /\ \A p \in Photos : Known(p)' => Known(p)
  BY <1>1, GrowIs
<1>3. Once'
  BY <1>2 DEF Once, Known, Stored, Alone, InRow, InTodo, Run
<1>4. Answered'
  <2>1. ASSUME NEW s \in Slots, calls'[s].answer = "ok"
        PROVE  \E p \in Photos : p = calls'[s].photo /\ Stored(p)'
    <3>1. calls'[s] = calls[s] /\ calls[s].answer = "ok"
      BY <2>1
    <3>2. calls[s].pc # "none"
      BY <3>1, Records DEF FateInv, PlaceInv, CallsFit, CallOK
    <3>3. Stored(calls[s].photo) /\ calls[s].photo \in Photos
      BY <3>1, <3>2, CallTaker DEF FateInv, Answered
    <3> QED
      BY <1>2, <3>1, <3>3
  <2> QED
    BY <2>1 DEF Answered, Stored
<1>5. PhotoKept'
  <2>1. (\A p \in 1 .. Len(takenBy) : Kept(p))'
    BY <1>2
  <2> QED
    BY <2>1, KeptIs DEF Kept, PhotoKept
<1> QED
  BY <1>2, <1>3, <1>4, <1>5 DEF FateInv

(* A row of the queue has its file. *)
LEMMA RowsQueued ==
  ASSUME PlaceInv'
  PROVE  \A p : InRow(p)' => InQueue(p)'
BY DEF InRow, InQueue, PlaceInv, RowsFit

(* queuePhoto leaves a row, or the user knows; and no other row. *)
LEMMA QueuedIs ==
  ASSUME PlaceInv, NEW p \in Photos, user \in Accounts, NEW shown, QueuePhoto(p, shown),
         \A i \in 1 .. Len(queue) : queue[i].photo # p
  PROVE  /\ \A x : InRow(x) => InRow(x)'
         /\ \A x : InRow(x)' => InRow(x) \/ x = p
         /\ InRow(p)' \/ p \in told'
         /\ told \subseteq told'
<1>1. CASE SetQueue(addPendingReceipt(p, user)) /\ UNCHANGED told
  <2>1. PICK q : q = addPendingReceipt(p, user)
    OBVIOUS
  <2>2. /\ Len(q) = Len(queue) + 1 /\ q[Len(queue) + 1].photo = p
        /\ \A i \in 1 .. Len(queue) : q[i] = queue[i]
        /\ queue' = q /\ Len(queue) \in Nat
    BY <1>1, <2>1, AdditionIs DEF SetQueue, PlaceInv, RowsFit, QueueOK
  <2> QED
    BY <1>1, <2>2 DEF InRow
<1>2. CASE UNCHANGED queue /\ told' = told \cup {p}
  BY <1>2 DEF InRow
<1> QED
  BY <1>1, <1>2 DEF QueuePhoto

LEMMA SubmitsFate ==
  ASSUME FateInv, PlaceInv', NEW p \in Photos, Submit(p), user \in Accounts, Longer,
         \A x \in 1 .. Len(takenBy') : x \in 1 .. Len(takenBy) \/ x = p,
         \A i \in 1 .. Len(queue) : queue[i].photo # p,
         camera.page \in {NoPhoto, p}, ~Known(p),
         UNCHANGED <<import, runs, cut>>
  PROVE  FateInv'
<1>b. "camera" \in Slots /\ "import" \in Slots /\ "run" \in Slots
  BY DEF Slots
<1>a. p # NoPhoto
  BY Bounds DEF Photos, NoPhoto
<1>0. PlaceInv /\ receipts \in [Accounts -> [Photos -> Nat]] /\ p # NoPhoto /\ Ready.page = NoPhoto
  BY <1>a, Records DEF FateInv, PlaceInv, TypeOK
<1>1. CASE ~connected
  <2>1. QueuePhoto(p, Ready) /\ UNCHANGED <<calls, receipts, displaced, unsure>>
    BY <1>1 DEF Submit
  <2>2. camera'.page = NoPhoto
    BY <1>0, <2>1, Records DEF QueuePhoto, Cameras
  <2>3. /\ \A x : InRow(x) => InRow(x)'
        /\ \A x : InRow(x)' => InRow(x) \/ x = p
        /\ InRow(p)' \/ p \in told'
        /\ told \subseteq told'
    BY <1>0, <2>1, QueuedIs
  <2>4. ReceiptsGrow
    BY <2>1 DEF ReceiptsGrow
  <2>5. ASSUME NEW x \in Photos, Known(x) PROVE Alone(x)'
    <3>1. Alone(x) /\ x # NoPhoto /\ x # p
      BY <2>5, KnownIs
    <3> QED
      BY <2>1, <2>2, <2>3, <3>1 DEF Alone, InTodo, Run
  <2>6. ASSUME NEW x \in 1 .. Len(takenBy'), \A y \in Photos : Stored(y) => Stored(y)' PROVE Kept(x)'
    <3>1. CASE x = p
      BY <2>3, <3>1, RowsQueued DEF Kept
    <3>2. CASE x # p
      <4>1. x \in 1 .. Len(takenBy) /\ x \in Photos /\ x # NoPhoto /\ Kept(x)
        BY <1>0, <3>2, TakersAre, KeptIs DEF FateInv
      <4>2. x # camera.page
        BY <3>2, <4>1
      <4>3. InQueue(x) => InQueue(x)'
        BY <2>3, RowsQueued DEF InQueue, InRow
      <4> QED
        BY <2>1, <2>3, <2>6, <4>1, <4>2, <4>3 DEF Kept
    <3> QED
      BY <3>1, <3>2
  <2> QED
    BY <2>1, <2>4, <2>5, <2>6, FateFrame
<1>2. CASE connected
  <2> DEFINE before == calls["camera"]
  <2>1. /\ camera' = [Ready EXCEPT !.flow = "processing"]
        /\ calls' = Send("camera", p, user)
        /\ displaced' = IF Uploading("camera") THEN displaced \cup {before.photo} ELSE displaced
        /\ unsure' = IF Uploading("camera") THEN unsure \cup {before.photo} ELSE unsure
        /\ \/ UNCHANGED receipts
           \/ before.pc = "reading" /\ receipts' = [receipts EXCEPT ![before.account][before.photo] = @ + 1]
        /\ UNCHANGED <<queue, files, due, told>>
    BY <1>2 DEF Submit
  <2>2. camera'.page = NoPhoto
    BY <1>0, <2>1, Records DEF Cameras
  <2>3. /\ \A t \in Slots \ {"camera"} : calls'[t] = calls[t]
        /\ calls'["camera"].photo = p /\ calls'["camera"].answer = "none"
    BY <1>0, <1>b, <2>1, SendIs
  <2>4. ReceiptsGrow
    <3>1. CASE UNCHANGED receipts
      BY <2>1, <3>1 DEF ReceiptsGrow
    <3>2. CASE before.pc = "reading" /\ receipts' = [receipts EXCEPT ![before.account][before.photo] = @ + 1]
      <4>1. PICK a \in Accounts, y \in Photos : a = before.account /\ y = before.photo /\ Taker(y, a)
        BY <1>0, <1>b, <3>2, CallTaker
      <4>2. receipts' = [receipts EXCEPT ![a][y] = @ + 1] /\ y \in unsure' /\ unsure \subseteq unsure'
        BY <2>1, <3>2, <4>1 DEF Uploading
      <4>3. \A b \in Accounts, x \in Photos :
               receipts'[b][x] = IF b = a /\ x = y THEN receipts[b][x] + 1 ELSE receipts[b][x]
        BY <1>0, <4>2
      <4>4. receipts[a][y] + 1 >= receipts[a][y]
        BY <1>0
      <4> QED
        BY <4>1, <4>2, <4>3, <4>4 DEF ReceiptsGrow
    <3> QED
      BY <2>1, <3>1, <3>2
  <2>5. ASSUME NEW x \in Photos, Known(x) PROVE Alone(x)'
    <3>1. Alone(x) /\ x # NoPhoto /\ x # p
      BY <2>5, KnownIs
    <3>2. \A s \in Slots : calls'[s].photo = x => calls'[s].answer = "ok"
      BY <2>3, <3>1 DEF Alone
    <3>3. calls'["run"] = calls["run"]
      BY <1>b, <2>3
    <3> QED
      BY <2>1, <2>2, <3>1, <3>2, <3>3 DEF Alone, InRow, InTodo, Run
  <2>6. ASSUME NEW x \in 1 .. Len(takenBy'), \A y \in Photos : Stored(y) => Stored(y)' PROVE Kept(x)'
    <3>1. CASE x = p
      BY <2>3, <3>1 DEF Kept
    <3>2. CASE x # p
      <4>1. x \in 1 .. Len(takenBy) /\ x \in Photos /\ x # NoPhoto /\ Kept(x)
        BY <1>0, <3>2, TakersAre, KeptIs DEF FateInv
      <4>2. x # camera.page
        BY <3>2, <4>1
      <4>3. x = before.photo => x \in displaced'
        <5>1. before.pc = "none" => before.photo = NoPhoto
          BY <1>0, <1>b, Records DEF PlaceInv, CallsFit, CallOK
        <5> QED
          BY <2>1, <4>1, <5>1 DEF Uploading
      <4>4. InQueue(x) => InQueue(x)'
        BY <2>1 DEF InQueue
      <4>5. displaced \subseteq displaced'
        BY <2>1
      <4> QED
        BY <2>1, <2>6, <4>1, <4>2, <4>3, <4>4, <4>5 DEF Kept
    <3> QED
      BY <3>1, <3>2
  <2>7. \A s \in Slots : calls'[s].answer = "ok" => calls'[s] = calls[s]
    BY <2>3
  <2> QED
    BY <2>4, <2>5, <2>6, <2>7, FateFrame
<1> QED
  BY <1>1, <1>2

LEMMA CapturesFate ==
  ASSUME FateInv, NEW p \in Photos, Captured(p)
  PROVE  FateInv'
<1>0. PlaceInv /\ PlaceInv'
  BY Captures DEF FateInv
<1>1. user \in Accounts /\ camera.page = NoPhoto
  BY <1>0 DEF Captured, PlaceInv, ScreensFit
<1>2. p = Len(takenBy) + 1 /\ Longer /\ Len(takenBy') = p
  BY <1>0, <1>1, Grows DEF Captured
<1>3. \A x \in 1 .. Len(takenBy') : x \in 1 .. Len(takenBy) \/ x = p
  BY <1>0, <1>2, TakersAre
<1>4. /\ \A i \in 1 .. Len(queue) : queue[i].photo # p
      /\ \A s \in Slots : calls[s].photo # p
      /\ ~Known(p)
  <2>1. p \notin 1 .. Len(takenBy)
    BY <1>0, <1>2, TakersAre
  <2> QED
    BY <1>0, <1>2, <2>1, NewPhoto, KnownIs
<1>5. UNCHANGED <<import, runs, cut>>
  BY DEF Captured
<1>6. CASE Submit(p)
  BY <1>0, <1>1, <1>2, <1>3, <1>4, <1>5, <1>6, SubmitsFate
<1>7. CASE /\ camera' = [camera EXCEPT !.scanning = FALSE, !.page = p]
           /\ UNCHANGED <<queue, files, due, told, calls, receipts, displaced, unsure>>
  <2>1. camera'.page = p
    BY <1>0, <1>7 DEF PlaceInv, TypeOK, Cameras
  <2>2. ReceiptsGrow
    BY <1>7 DEF ReceiptsGrow
  <2>3. ASSUME NEW x \in Photos, Known(x) PROVE Alone(x)'
    <3>1. Alone(x) /\ x # p
      BY <1>4, <2>3, KnownIs
    <3> QED
      BY <1>5, <1>7, <2>1, <3>1 DEF Alone, InRow, InTodo, Run
  <2>4. ASSUME NEW x \in 1 .. Len(takenBy'), \A y \in Photos : Stored(y) => Stored(y)' PROVE Kept(x)'
    <3>1. CASE x = p
      BY <2>1, <3>1 DEF Kept
    <3>2. CASE x # p
      <4>1. x \in 1 .. Len(takenBy) /\ x \in Photos /\ x # NoPhoto /\ Kept(x)
        BY <1>0, <1>3, <3>2, TakersAre, KeptIs DEF FateInv
      <4> QED
        BY <1>1, <1>5, <1>7, <2>4, <4>1 DEF Kept, InQueue
    <3> QED
      BY <3>1, <3>2
  <2> QED
    BY <1>0, <1>2, <1>7, <2>2, <2>3, <2>4, FateFrame
<1> QED
  BY <1>6, <1>7 DEF Captured

LEMMA UsesPageFate ==
  ASSUME FateInv, UsePage
  PROVE  FateInv'
<1>0. PlaceInv /\ PlaceInv'
  BY UsesPage DEF FateInv
<1>1. camera.page # NoPhoto /\ Submit(camera.page) /\ UNCHANGED takenBy /\ UNCHANGED <<import, runs, cut>>
  BY DEF UsePage, HoldsPage
<1>2. PICK p : p = camera.page
  OBVIOUS
<1>3. p \in 1 .. Len(takenBy) /\ takenBy[p] = user
  BY <1>0, <1>1, <1>2 DEF PlaceInv, ScreensFit, Taker
<1>4. p \in Photos /\ user \in Accounts
  BY <1>0, <1>3, TakersAre
<1>5. \A i \in 1 .. Len(queue) : queue[i].photo # p
  BY <1>0, <1>2 DEF PlaceInv, RowsFit, Flow
<1>6. ~Known(p)
  BY <1>2, <1>4, KnownIs DEF Alone
<1>7. Longer /\ Submit(p) /\ \A x \in 1 .. Len(takenBy') : x \in 1 .. Len(takenBy)
  BY <1>0, <1>1, <1>2, SameTakers
<1> QED
  BY <1>0, <1>1, <1>2, <1>4, <1>5, <1>6, <1>7, SubmitsFate

LEMMA PicksFate ==
  ASSUME FateInv, NEW p \in Photos, Picked(p)
  PROVE  FateInv'
<1>b. "camera" \in Slots /\ "import" \in Slots /\ "run" \in Slots
  BY DEF Slots
<1>0. PlaceInv /\ PlaceInv'
  BY Picks DEF FateInv
<1>1. user \in Accounts /\ import.pc = "picking"
  BY <1>0 DEF Picked, PlaceInv, ScreensFit
<1>2. p = Len(takenBy) + 1 /\ Longer /\ Len(takenBy') = p
  BY <1>0, <1>1, Grows DEF Picked
<1>3. \A x \in 1 .. Len(takenBy') : x \in 1 .. Len(takenBy) \/ x = p
  BY <1>0, <1>2, TakersAre
<1>4. ~Known(p)
  <2>1. p \notin 1 .. Len(takenBy)
    BY <1>0, <1>2, TakersAre
  <2> QED
    BY <2>1, KnownIs
<1>5. /\ \A t \in Slots \ {"import"} : calls'[t] = calls[t]
      /\ calls'["import"].photo = p /\ calls'["import"].answer = "none"
  BY <1>0, <1>1, <1>b, SendIs DEF Picked
<1>6. UNCHANGED <<queue, files, camera, runs, receipts, unsure, told, cut, displaced>>
  BY DEF Picked, store, sync, server, fate
<1>7. import'.photo = p /\ import.photo = NoPhoto
  BY <1>0, <1>1, ImportIdle DEF Picked, PlaceInv, TypeOK, Imports
<1>8. ReceiptsGrow
  BY <1>6 DEF ReceiptsGrow
<1>9. ASSUME NEW x \in Photos, Known(x) PROVE Alone(x)'
  <2>1. Alone(x) /\ x # p
    BY <1>4, <1>9, KnownIs
  <2>2. \A s \in Slots : calls'[s].photo = x => calls'[s].answer = "ok"
    BY <1>5, <2>1 DEF Alone
  <2>3. calls'["run"] = calls["run"]
    BY <1>b, <1>5
  <2> QED
    BY <1>6, <2>1, <2>2, <2>3 DEF Alone, InRow, InTodo, Run
<1>10. ASSUME NEW x \in 1 .. Len(takenBy'), \A y \in Photos : Stored(y) => Stored(y)' PROVE Kept(x)'
  <2>1. CASE x = p
    BY <1>7, <2>1 DEF Kept
  <2>2. CASE x # p
    <3>1. x \in 1 .. Len(takenBy) /\ x \in Photos /\ x # NoPhoto /\ Kept(x)
      BY <1>0, <1>3, <2>2, TakersAre, KeptIs DEF FateInv
    <3>2. calls'["camera"] = calls["camera"]
      BY <1>b, <1>5
    <3> QED
      BY <1>6, <1>7, <1>10, <3>1, <3>2 DEF Kept, InQueue
  <2> QED
    BY <2>1, <2>2
<1>11. \A s \in Slots : calls'[s].answer = "ok" => calls'[s] = calls[s]
  BY <1>5
<1> QED
  BY <1>0, <1>2, <1>8, <1>9, <1>10, <1>11, FateFrame

LEMMA ScansFate ==
  ASSUME FateInv, Scanned
  PROVE  FateInv'
<1>a. PICK p, answer : p = calls["camera"].photo /\ answer = calls["camera"].answer
  OBVIOUS
<1> USE <1>a
<1>b. "camera" \in Slots /\ "import" \in Slots /\ "run" \in Slots
  BY DEF Slots
<1>0. PlaceInv /\ PlaceInv'
  BY ScansEnd DEF FateInv
<1>1. calls["camera"].pc # "none"
  BY DEF Scanned, Heard
<1>2. p \in Photos /\ p # NoPhoto /\ user \in Accounts
  BY <1>0, <1>1, <1>b, CallTaker DEF PlaceInv, ScreensFit
<1>3. UNCHANGED <<import, runs, receipts, takenBy, displaced, unsure>>
  BY DEF Scanned, server
<1>4. calls'["camera"] = NoCall /\ \A t \in Slots \ {"camera"} : calls'[t] = calls[t]
  BY <1>0, <1>b, <1>3, CallEnds DEF Scanned
<1>5. p # camera.page /\ (\A s \in Slots : calls[s].photo = p => s = "camera") /\ ~InRow(p)
  BY <1>0, <1>1, <1>b, OnePlace
<1>6. ReceiptsGrow /\ Longer
  BY <1>0, <1>3, SameTakers DEF ReceiptsGrow
(* The page, the rows and the photo of the call. *)
<1>7. /\ camera'.page \in {camera.page, NoPhoto} /\ camera.page \in {NoPhoto, camera'.page} \cup cut'
      /\ cut \subseteq cut' /\ told \subseteq told'
      /\ \A x : InRow(x) => InRow(x)'
      /\ \A x : InRow(x)' => InRow(x) \/ (x = p /\ answer # "ok")
      /\ answer # "ok" => InRow(p)' \/ p \in told'
  <2>1. CASE answer = "retry"
    <3>1. QueuePhoto(p, camera) /\ UNCHANGED <<known, cut>>
      BY <2>1 DEF Scanned
    <3>2. camera'.page = camera.page
      BY <1>0, <3>1 DEF QueuePhoto, PlaceInv, TypeOK, Cameras
    <3>3. \A i \in 1 .. Len(queue) : queue[i].photo # p
      BY <1>5 DEF InRow
    <3>4. /\ \A x : InRow(x) => InRow(x)'
          /\ \A x : InRow(x)' => InRow(x) \/ x = p
          /\ InRow(p)' \/ p \in told'
          /\ told \subseteq told'
      BY <1>0, <1>2, <3>1, <3>3, QueuedIs
    <3> QED
      BY <2>1, <3>1, <3>2, <3>4
  <2>2. CASE answer = "consent"
    <3>1. ConsentScreen(Refused, "ready") /\ told' = told \cup {p} /\ UNCHANGED queue
      BY <2>2 DEF Scanned
    <3>2. /\ cut \subseteq cut' /\ (camera'.page = camera.page \/ camera.page \in {NoPhoto} \cup cut')
          /\ camera'.page \in {camera.page, NoPhoto}
      BY <1>0, <3>1, ConsentHolds, ConsentScreenIs
    <3> QED
      BY <2>2, <3>1, <3>2 DEF InRow
  <2>3. CASE answer \notin {"retry", "consent"}
    <3>1. /\ \E f \in {"ready", "low-quality"} : camera' = [camera EXCEPT !.flow = f]
          /\ UNCHANGED <<queue, cut>>
          /\ IF answer = "ok" THEN UNCHANGED told ELSE told' = told \cup {p}
      BY <2>3 DEF Scanned
    <3>2. camera'.page = camera.page
      BY <1>0, <3>1 DEF PlaceInv, TypeOK, Cameras
    <3> QED
      BY <3>1, <3>2 DEF InRow
  <2> QED
    BY <2>1, <2>2, <2>3
<1>8. ASSUME NEW x \in Photos, Known(x) PROVE Alone(x)'
  <2>1. Alone(x) /\ x # NoPhoto
    BY <1>8, KnownIs
  <2>2. \A s \in Slots : calls'[s].photo = x => calls'[s].answer = "ok"
    BY <1>4, <2>1, Records DEF Alone
  <2>3. calls'["run"] = calls["run"]
    BY <1>b, <1>4
  <2>4. InRow(x)' => InRow(x)
    BY <1>7, <1>b, <2>1 DEF Alone
  <2> QED
    BY <1>3, <1>7, <2>1, <2>2, <2>3, <2>4 DEF Alone, InTodo, Run
<1>9. ASSUME NEW x \in 1 .. Len(takenBy'), \A y \in Photos : Stored(y) => Stored(y)' PROVE Kept(x)'
  <2>1. x \in Photos /\ x # NoPhoto /\ Kept(x)
    BY <1>0, <1>3, TakersAre, KeptIs DEF FateInv
  <2>2. InRow(x)' => InQueue(x)'
    BY <1>0, RowsQueued
  <2>3. CASE x = p
    <3>1. answer = "ok" => Stored(x)
      BY <1>b, <2>3 DEF FateInv, Answered
    <3> QED
      BY <1>7, <1>9, <2>1, <2>2, <2>3, <3>1 DEF Kept
  <2>4. CASE x # p
    <3>1. InQueue(x) => InRow(x)'
      BY <1>7 DEF InQueue, InRow
    <3> QED
      BY <1>3, <1>7, <1>9, <2>1, <2>2, <2>4, <3>1 DEF Kept
  <2> QED
    BY <2>3, <2>4
<1>10. \A s \in Slots : calls'[s].answer = "ok" => calls'[s] = calls[s]
  BY <1>4, Records
<1> QED
  BY <1>0, <1>6, <1>8, <1>9, <1>10, FateFrame

LEMMA ImportsFate ==
  ASSUME FateInv, Imported
  PROVE  FateInv'
<1>a. PICK p, answer : p = import.photo /\ answer = calls["import"].answer
  OBVIOUS
<1> USE <1>a
<1>b. "camera" \in Slots /\ "import" \in Slots /\ "run" \in Slots
  BY DEF Slots
<1>0. PlaceInv /\ PlaceInv'
  BY ImportsEnd DEF FateInv
<1>1. calls["import"].pc # "none" /\ p = calls["import"].photo /\ import.owner = calls["import"].account
  BY <1>0 DEF Imported, importReceipt, QueueImport, Heard, PlaceInv, ImportFit
<1>2. p \in Photos /\ p # NoPhoto /\ import.owner \in Accounts
  BY <1>0, <1>1, <1>b, CallTaker
<1>3. UNCHANGED <<runs, receipts, takenBy, displaced, unsure>>
  BY DEF Imported, importReceipt, QueueImport, server
<1>4. calls'["import"] = NoCall /\ \A t \in Slots \ {"import"} : calls'[t] = calls[t]
  BY <1>0, <1>b, <1>3, CallEnds DEF Imported, importReceipt, QueueImport
<1>5. p # camera.page /\ (\A s \in Slots : calls[s].photo = p => s = "import") /\ ~InRow(p)
  BY <1>0, <1>1, <1>b, OnePlace
<1>6. ReceiptsGrow /\ Longer
  BY <1>0, <1>3, SameTakers DEF ReceiptsGrow
<1>7. /\ camera'.page \in {camera.page, NoPhoto} /\ camera.page \in {NoPhoto, camera'.page} \cup cut'
      /\ cut \subseteq cut'
  <2>1. CASE answer = "consent"
    <3>1. ConsentScreen(Refused, camera.flow) /\ camera.flow \in {"ready", "processing", "low-quality", "queued"}
      BY <1>0, <2>1 DEF Imported, importReceipt, QueueImport, PlaceInv, TypeOK, Cameras
    <3> QED
      BY <1>0, <3>1, ConsentHolds, ConsentScreenIs
  <2>2. CASE answer # "consent"
    BY <2>2 DEF Imported, importReceipt, QueueImport
  <2> QED
    BY <2>1, <2>2
<1>c. /\ told \subseteq told'
      /\ \A x : InRow(x) => InRow(x)'
      /\ \A x : InRow(x)' => InRow(x) \/ (x = p /\ answer # "ok")
      /\ answer # "ok" => InRow(p)' \/ p \in told'
  <2>1. CASE UNCHANGED queue /\ told' = told \cup {p}
    BY <2>1 DEF InRow
  <2>2. CASE answer = "ok" /\ UNCHANGED <<queue, told>>
    BY <2>2 DEF InRow
  <2>3. CASE answer # "ok" /\ SetQueue(addPendingReceipt(p, import.owner)) /\ UNCHANGED told
    <3>o. PICK o \in Accounts : o = import.owner
      BY <1>2
    <3>1. PICK q : q = addPendingReceipt(p, o)
      OBVIOUS
    <3>2. \A i \in 1 .. Len(queue) : queue[i].photo # p
      BY <1>5 DEF InRow
    <3>3. QueueOK(queue)
      BY <1>0 DEF PlaceInv, RowsFit
    <3>4. /\ Len(q) = Len(queue) + 1 /\ q[Len(queue) + 1].photo = p
          /\ \A i \in 1 .. Len(queue) : q[i] = queue[i]
      BY <1>2, <3>1, <3>2, <3>3, AdditionIs
    <3>5. queue' = q /\ Len(queue) \in Nat
      BY <2>3, <3>o, <3>1, <3>3 DEF SetQueue, QueueOK
    <3>6. InRow(p)'
      BY <3>4, <3>5 DEF InRow
    <3>7. \A x : InRow(x) => InRow(x)'
      BY <3>4, <3>5 DEF InRow
    <3>8. \A x : InRow(x)' => InRow(x) \/ x = p
      BY <3>4, <3>5 DEF InRow
    <3> QED
      BY <2>3, <3>6, <3>7, <3>8
  <2>4. \/ UNCHANGED queue /\ told' = told \cup {p}
        \/ answer = "ok" /\ UNCHANGED <<queue, told>>
        \/ answer # "ok" /\ SetQueue(addPendingReceipt(p, import.owner)) /\ UNCHANGED told
    <3>1. CASE answer = "consent"
      BY <3>1 DEF Imported, importReceipt, QueueImport
    <3>2. CASE answer = "ok"
      BY <3>2 DEF Imported, importReceipt, QueueImport
    <3>3. CASE answer = "retry"
      BY <3>3 DEF Imported, importReceipt, QueueImport
    <3>4. CASE answer \notin {"consent", "ok", "retry"}
      BY <3>4 DEF Imported, importReceipt, QueueImport
    <3> QED
      BY <3>1, <3>2, <3>3, <3>4
  <2> QED
    BY <2>1, <2>2, <2>3, <2>4
<1>8. ASSUME NEW x \in Photos, Known(x) PROVE Alone(x)'
  <2>1. Alone(x) /\ x # NoPhoto
    BY <1>8, KnownIs
  <2>2. \A s \in Slots : calls'[s].photo = x => calls'[s].answer = "ok"
    BY <1>4, <2>1, Records DEF Alone
  <2>3. calls'["run"] = calls["run"]
    BY <1>b, <1>4
  <2>4. InRow(x)' => InRow(x)
    BY <1>1, <1>c, <1>b, <2>1 DEF Alone
  <2> QED
    BY <1>3, <1>7, <2>1, <2>2, <2>3, <2>4 DEF Alone, InTodo, Run
<1>9. ASSUME NEW x \in 1 .. Len(takenBy'), \A y \in Photos : Stored(y) => Stored(y)' PROVE Kept(x)'
  <2>1. x \in Photos /\ x # NoPhoto /\ Kept(x)
    BY <1>0, <1>3, TakersAre, KeptIs DEF FateInv
  <2>2. InRow(x)' => InQueue(x)'
    BY <1>0, RowsQueued
  <2>3. CASE x = p
    <3>1. answer = "ok" => Stored(x)
      BY <1>1, <1>b, <2>3 DEF FateInv, Answered
    <3> QED
      BY <1>c, <1>9, <2>1, <2>2, <2>3, <3>1 DEF Kept
  <2>4. CASE x # p
    <3>1. InQueue(x) => InRow(x)'
      BY <1>c DEF InQueue, InRow
    <3>2. calls'["camera"] = calls["camera"]
      BY <1>b, <1>4
    <3> QED
      BY <1>3, <1>7, <1>c, <1>9, <2>1, <2>2, <2>4, <3>1, <3>2 DEF Kept
  <2> QED
    BY <2>3, <2>4
<1>10. \A s \in Slots : calls'[s].answer = "ok" => calls'[s] = calls[s]
  BY <1>4, Records
<1> QED
  BY <1>0, <1>6, <1>8, <1>9, <1>10, FateFrame

-----------------------------------------------------------------------------
(* The upload runs.                                                         *)

(* The photo a run has sent is the first it has left, and is left once. *)
LEMMA RunSends ==
  ASSUME PlaceInv, runs # <<>>, Run.pc = "upload"
  PROVE  LET p == Head(Run.todo) IN
         /\ p = calls["run"].photo /\ p \in Photos /\ p # NoPhoto /\ calls["run"].pc # "none"
         /\ \A k \in 2 .. Len(Run.todo) : Run.todo[k] # p
<1>1. TodoFit(Run.todo, Run.owner) /\ Run.todo # <<>> /\ calls["run"].photo = Head(Run.todo)
      /\ calls["run"].pc # "none"
  BY DEF PlaceInv, RunsFit
<1>2. PICK todo \in Seq(Photos) : todo = Run.todo
  BY <1>1 DEF TodoFit
<1>3. Len(todo) \in Nat \ {0} /\ Head(todo) = todo[1] /\ todo[1] \in Photos
  BY <1>1, <1>2
<1>4. \A k \in 2 .. Len(todo) : todo[k] # todo[1]
  BY <1>1, <1>2, <1>3 DEF TodoFit
<1> QED
  BY <1>1, <1>2, <1>3, <1>4, Bounds DEF Photos, NoPhoto

LEMMA UploadsFate ==
  ASSUME FateInv, Uploaded
  PROVE  FateInv'
<1>b. "camera" \in Slots /\ "import" \in Slots /\ "run" \in Slots
  BY DEF Slots
<1>0. PlaceInv /\ PlaceInv'
  BY UploadsEnd DEF FateInv
<1>1. PICK q : Ended(q) /\ UploadLeaves(q)
  BY UploadsEnd DEF FateInv
<1>2. PICK p : p = Head(Run.todo)
  OBVIOUS
<1>3. /\ runs # <<>> /\ Run.pc = "upload" /\ queue' = q
      /\ UNCHANGED <<import, receipts, takenBy, displaced, unsure, told>>
  BY <1>1 DEF Uploaded, Ended, server
<1>4. /\ p = calls["run"].photo /\ p \in Photos /\ p # NoPhoto
      /\ \A k \in 2 .. Len(Run.todo) : Run.todo[k] # p
  BY <1>0, <1>2, <1>3, RunSends
<1>5. calls'["run"] = NoCall /\ \A t \in Slots \ {"run"} : calls'[t] = calls[t]
  BY <1>0, <1>b, <1>3, CallEnds DEF Uploaded
<1>6. ReceiptsGrow /\ Longer
  BY <1>0, <1>3, SameTakers DEF ReceiptsGrow
<1>7. /\ camera'.page \in {camera.page, NoPhoto} /\ camera.page \in {NoPhoto, camera'.page} \cup cut'
      /\ cut \subseteq cut'
  <2>1. CASE calls["run"].answer = "consent"
    <3>1. ConsentScreen(Refused, camera.flow) /\ camera.flow \in {"ready", "processing", "low-quality", "queued"}
      BY <1>0, <2>1 DEF Uploaded, PlaceInv, TypeOK, Cameras
    <3> QED
      BY <1>0, <3>1, ConsentHolds, ConsentScreenIs
  <2>2. CASE calls["run"].answer # "consent"
    BY <2>2 DEF Uploaded
  <2> QED
    BY <2>1, <2>2
<1>8. ASSUME NEW x \in Photos, Known(x) PROVE Alone(x)'
  <2>1. Alone(x) /\ x # NoPhoto
    BY <1>8, KnownIs
  <2>2. ~InRow(x)'
    <3>1. ASSUME NEW i \in 1 .. Len(q), q[i].photo = x PROVE FALSE
      <4>1. Keeps(q)
        BY <1>1 DEF UploadLeaves, KeepsAllBut
      <4>2. InRow(x)
        BY <3>1, <4>1 DEF Keeps, InRow
      <4>3. x = p /\ calls["run"].answer = "ok"
        BY <1>4, <1>b, <2>1, <4>2 DEF Alone
      <4> QED
        BY <1>1, <1>2, <3>1, <4>3 DEF UploadLeaves
    <3> QED
      BY <1>3, <3>1 DEF InRow
  <2>3. ~InTodo(x)'
    <3>1. PICK rs \in Seq(Runs) :
             /\ runs' = rs
             /\ rs # <<>> => FromQueue(Head(rs).todo, q) \/ FromRun(Head(rs).todo)
      BY <1>1 DEF Ended
    <3>2. CASE rs # <<>> /\ FromQueue(Head(rs).todo, q)
      BY <1>3, <2>2, <3>1, <3>2 DEF FromQueue, InTodo, InRow, Run
    <3>3. CASE rs # <<>> /\ FromRun(Head(rs).todo)
      <4>1. ASSUME NEW j \in 1 .. Len(Head(rs).todo), Head(rs).todo[j] = x PROVE FALSE
        <5>1. PICK k \in 2 .. Len(Run.todo) : x = Run.todo[k]
          BY <3>3, <4>1 DEF FromRun
        <5>2. k \in 1 .. Len(Run.todo)
          <6>1. Len(Run.todo) \in Nat
            BY <1>0, <1>3 DEF PlaceInv, RunsFit, TodoFit
          <6> QED
            BY <6>1
        <5>3. x = p
          BY <1>3, <1>4, <2>1, <5>1, <5>2 DEF Alone, InTodo
        <5> QED
          BY <1>4, <5>1, <5>3
      <4> QED
        BY <3>1, <4>1 DEF InTodo, Run
    <3> QED
      BY <3>1, <3>2, <3>3 DEF InTodo
  <2>4. \A s \in Slots : calls'[s].photo = x => calls'[s].answer = "ok"
    BY <1>5, <2>1, Records DEF Alone
  <2> QED
    BY <1>7, <2>1, <2>2, <2>3, <2>4 DEF Alone
<1>9. ASSUME NEW x \in 1 .. Len(takenBy'), \A y \in Photos : Stored(y) => Stored(y)' PROVE Kept(x)'
  <2>1. x \in Photos /\ x # NoPhoto /\ Kept(x)
    BY <1>0, <1>3, TakersAre, KeptIs DEF FateInv
  <2>2. InRow(x)' => InQueue(x)'
    BY <1>0, RowsQueued
  <2>3. InRow(x) => InRow(x)' \/ Stored(x)
    <3>1. CASE calls["run"].answer = "ok" /\ KeepsAllBut(p, q)
      <4>1. InRow(x) => InRow(x)' \/ x = p
        BY <1>0, <1>3, <3>1, RowsKept
      <4>2. Stored(p)
        BY <1>4, <1>b, <3>1 DEF FateInv, Answered
      <4> QED
        BY <4>1, <4>2
    <3>2. CASE KeepsAllBut(NoPhoto, q)
      BY <1>0, <1>3, <2>1, <3>2, RowsKept
    <3> QED
      BY <1>1, <1>2, <3>1, <3>2 DEF UploadLeaves
  <2>4. InQueue(x) => InRow(x)
    BY DEF InQueue, InRow
  <2>5. calls'["camera"] = calls["camera"]
    BY <1>b, <1>5
  <2> QED
    BY <1>3, <1>7, <1>9, <2>1, <2>2, <2>3, <2>4, <2>5 DEF Kept
<1>10. \A s \in Slots : calls'[s].answer = "ok" => calls'[s] = calls[s]
  BY <1>5, Records
<1> QED
  BY <1>0, <1>6, <1>8, <1>9, <1>10, FateFrame

LEMMA GoesFate ==
  ASSUME FateInv, NextPhoto
  PROVE  FateInv'
<1>b. "camera" \in Slots /\ "import" \in Slots /\ "run" \in Slots
  BY DEF Slots
<1>0. PlaceInv /\ PlaceInv'
  BY Goes DEF FateInv
<1>1. /\ runs # <<>> /\ Run.pc = "next"
      /\ UNCHANGED <<files, camera, import, receipts, unsure, takenBy, told, cut, displaced>>
  BY DEF NextPhoto, flows, server, fate
<1>2. calls["run"] = NoCall
  BY <1>0, <1>b, <1>1 DEF PlaceInv, RunsFit, CallsFit, CallOK
(* A photo that is known is in no row and left to no run. *)
<1>3. \A x \in Photos : Known(x) => Alone(x) /\ x # NoPhoto /\ ~InRow(x) /\ ~InTodo(x)
  BY <1>2, KnownIs, Records DEF Alone
<1>4. ReceiptsGrow /\ Longer
  BY <1>0, <1>1, SameTakers DEF ReceiptsGrow
<1>5. ASSUME \A x : InRow(x)' <=> InRow(x), \A t \in Slots \ {"run"} : calls'[t] = calls[t],
             calls'["run"].answer = "none",
             \A x \in Photos : Known(x) => ~InTodo(x)' /\ calls'["run"].photo # x
      PROVE  FateInv'
  <2>1. ASSUME NEW x \in Photos, Known(x) PROVE Alone(x)'
    <3>1. \A s \in Slots : calls'[s].photo = x => calls'[s].answer = "ok"
      BY <1>3, <1>5, <2>1 DEF Alone
    <3> QED
      BY <1>1, <1>3, <1>5, <2>1, <3>1 DEF Alone
  <2>2. ASSUME NEW x \in 1 .. Len(takenBy'), \A y \in Photos : Stored(y) => Stored(y)' PROVE Kept(x)'
    <3>1. x \in Photos /\ x # NoPhoto /\ Kept(x)
      BY <1>0, <1>1, TakersAre, KeptIs DEF FateInv
    <3>2. InQueue(x) => InQueue(x)'
      BY <1>0, <1>5, RowsQueued DEF InQueue, InRow
    <3>3. calls'["camera"] = calls["camera"]
      BY <1>b, <1>5
    <3> QED
      BY <1>1, <2>2, <3>1, <3>2, <3>3 DEF Kept
  <2>3. \A s \in Slots : calls'[s].answer = "ok" => calls'[s] = calls[s]
    BY <1>5
  <2> QED
    BY <1>0, <1>4, <2>1, <2>2, <2>3, FateFrame
<1>6. CASE Finish(queue) /\ UNCHANGED calls
  <2>1. Keeps(queue)
    BY <1>0, RowsAre DEF PlaceInv, RowsFit, KeepsAllBut
  <2>2. PICK q : q = queue
    OBVIOUS
  <2>3. Ended(q)
    BY <1>0, <1>1, <1>6, <2>1, <2>2, Finishes
  <2>4. PICK rs \in Seq(Runs) :
           /\ runs' = rs
           /\ rs # <<>> => FromQueue(Head(rs).todo, q) \/ FromRun(Head(rs).todo)
    BY <2>3 DEF Ended
  <2>5. queue' = queue
    BY <2>2, <2>3 DEF Ended
  <2>6. \A x : InTodo(x)' => InRow(x)
    BY <1>1, <2>2, <2>4 DEF InTodo, InRow, FromQueue, FromRun, Run
  <2> QED
    BY <1>2, <1>3, <1>5, <1>6, <2>5, <2>6, Records DEF InRow
<1>7. CASE Run.todo # <<>> /\ currentOwnerIs(Run.owner) /\ ~(Finish(queue) /\ UNCHANGED calls)
  <2>1. PICK run \in Runs : run = Run
    BY <1>0, <1>1 DEF PlaceInv, RunsFit, Run
  <2>2. PICK p : p = Head(run.todo)
    OBVIOUS
  <2>3. /\ runs' = <<[run EXCEPT !.pc = "upload"]>> \o Tail(runs)
        /\ queue' = updateStatus(p, "syncing")
        /\ calls' = Send("run", p, user)
        /\ user = run.owner /\ run.todo # <<>>
    BY <1>7, <2>1, <2>2 DEF NextPhoto, SetRun, currentOwnerIs
  <2>4. TodoFit(run.todo, run.owner)
    BY <1>0, <1>1, <2>1 DEF PlaceInv, RunsFit
  <2>5. p \in Photos /\ user \in Accounts /\ 1 \in 1 .. Len(run.todo) /\ p = run.todo[1]
    <3>1. Len(run.todo) \in Nat \ {0} /\ p = run.todo[1] /\ p \in Photos
      BY <2>2, <2>3, <2>4 DEF TodoFit
    <3> QED
      BY <2>1, <2>3, <3>1 DEF Runs
  <2>6. /\ \A t \in Slots \ {"run"} : calls'[t] = calls[t]
        /\ calls'["run"].photo = p /\ calls'["run"].answer = "none"
    BY <1>0, <1>b, <2>3, <2>5, SendIs
  <2>7. PICK q : q = updateStatus(p, "syncing")
    OBVIOUS
  <2>8. KeepsAllBut(NoPhoto, q) /\ queue' = q
    BY <1>0, <2>3, <2>7, RowsAre DEF PlaceInv, RowsFit
  <2>9. \A x : InRow(x)' <=> InRow(x)
    <3>1. \A x : InRow(x) => InRow(x)'
      BY <1>0, <2>8, RowsKept, RowPhoto
    <3>2. \A x : InRow(x)' => InRow(x)
      BY <2>8 DEF InRow, KeepsAllBut, Keeps
    <3> QED
      BY <3>1, <3>2
  <2> DEFINE r == [run EXCEPT !.pc = "upload"]
  <2>10. r \in Runs /\ r.todo = run.todo
    BY <2>1 DEF Runs
  <2>a. runs' = <<r>> \o Tail(runs)
    BY <2>3
  <2> HIDE DEF r
  <2>11. Head(runs') = r
    <3>1. Tail(runs) \in Seq(Runs)
      BY <1>0, <1>1 DEF PlaceInv, RunsFit
    <3> QED
      BY <2>10, <2>a, <3>1
  <2>12. \A x : InTodo(x)' => InTodo(x)
    BY <1>1, <2>1, <2>10, <2>11 DEF InTodo, Run
  <2>13. InTodo(p)
    BY <1>1, <2>1, <2>5 DEF InTodo
  <2> QED
    BY <1>3, <1>5, <2>6, <2>9, <2>12, <2>13
<1> QED
  BY <1>6, <1>7 DEF NextPhoto

-----------------------------------------------------------------------------
(* The session, and the app.                                                *)

LEMMA SignsOutFate ==
  ASSUME FateInv, SignOut
  PROVE  FateInv'
<1>b. "camera" \in Slots /\ "import" \in Slots /\ "run" \in Slots /\ {"camera"} \in SUBSET Slots
  BY DEF Slots
<1>0. PlaceInv /\ PlaceInv'
  BY SignsOut DEF FateInv
<1>1. /\ UNCHANGED <<queue, files, runs, takenBy, told, displaced>>
      /\ camera' = Ready /\ cut' = cut \cup Held
      /\ import' = IF import.pc = "uploading" THEN import ELSE NoImport
  BY DEF SignOut, store
<1>2. Unheard({"camera"})
  BY DEF SignOut
<1>3. /\ calls'["camera"] = NoCall /\ \A s \in Slots \ {"camera"} : calls'[s] = calls[s]
      /\ ReceiptsGrow
  BY <1>0, <1>1, <1>2, <1>b, UnheardIs DEF ReceiptsGrow
<1>4. Longer
  BY <1>0, <1>1, SameTakers
<1>5. import'.photo = import.photo
  BY <1>0, <1>1, ImportIdle, Records DEF NoImport, PlaceInv
<1>6. ASSUME NEW x \in Photos, Known(x) PROVE Alone(x)'
  <2>1. Alone(x) /\ x # NoPhoto
    BY <1>6, KnownIs
  <2>2. \A s \in Slots : calls'[s].photo = x => calls'[s].answer = "ok"
    BY <1>3, <2>1, Records DEF Alone
  <2>3. calls'["run"] = calls["run"] /\ camera'.page = NoPhoto
    BY <1>1, <1>b, <1>3, Records
  <2> QED
    BY <1>1, <2>1, <2>2, <2>3 DEF Alone, InRow, InTodo, Run
<1>7. ASSUME NEW x \in 1 .. Len(takenBy'), \A y \in Photos : Stored(y) => Stored(y)' PROVE Kept(x)'
  <2>1. x \in Photos /\ x # NoPhoto /\ Kept(x)
    BY <1>0, <1>1, TakersAre, KeptIs DEF FateInv
  <2>2. x \in {camera.page, calls["camera"].photo} => x \in cut'
    BY <1>1, <2>1 DEF Held
  <2> QED
    BY <1>1, <1>5, <1>7, <2>1, <2>2 DEF Kept, InQueue
<1>8. \A s \in Slots : calls'[s].answer = "ok" => calls'[s] = calls[s]
  BY <1>3, Records
<1> QED
  BY <1>0, <1>3, <1>4, <1>6, <1>7, <1>8, FateFrame

LEMMA RelaunchesFate ==
  ASSUME FateInv, Relaunch
  PROVE  FateInv'
<1>b. "camera" \in Slots /\ "import" \in Slots /\ "run" \in Slots /\ Slots \in SUBSET Slots
  BY DEF Slots
<1>0. PlaceInv /\ PlaceInv'
  BY Relaunches DEF FateInv
<1>1. /\ UNCHANGED <<files, takenBy, told, displaced>>
      /\ camera' = Ready /\ import' = NoImport /\ runs' = <<>> /\ queue' = Restored
      /\ cut' = cut \cup Held \cup (IF import.photo = NoPhoto THEN {} ELSE {import.photo})
  BY DEF Relaunch
<1>2. Unheard(Slots)
  BY DEF Relaunch
<1>3. /\ \A s \in Slots : calls'[s] = NoCall
      /\ \A s \in Slots : calls[s].pc # "none" => calls[s].photo \in unsure'
      /\ ReceiptsGrow
  BY <1>0, <1>1, <1>2, <1>b, UnheardIs DEF ReceiptsGrow
<1>4. Longer
  BY <1>0, <1>1, SameTakers
<1>5. PICK q : q = Restored
  OBVIOUS
<1>6. KeepsAllBut(NoPhoto, q) /\ queue' = q
  BY <1>0, <1>1, <1>5, RowsAre DEF PlaceInv, RowsFit
<1>7. \A x : InRow(x) => InRow(x)'
  BY <1>0, <1>6, RowsKept, RowPhoto
<1>8. \A x : InRow(x)' => InRow(x)
  BY <1>6 DEF InRow, KeepsAllBut, Keeps
<1>9. ASSUME NEW x \in Photos, Known(x), x \notin unsure' PROVE Alone(x)'
  <2>1. Alone(x) /\ x # NoPhoto
    BY <1>9, KnownIs
  <2>2. calls["run"].photo # x
    BY <1>0, <1>3, <1>9, <1>b, <2>1, Records DEF PlaceInv, CallsFit, CallOK
  <2>3. ~InRow(x)'
    BY <1>8, <2>1, <2>2 DEF Alone
  <2>4. camera'.page = NoPhoto /\ \A s \in Slots : calls'[s].photo # x
    BY <1>1, <1>3, <2>1, Records
  <2> QED
    BY <1>1, <2>1, <2>3, <2>4 DEF Alone, InTodo
<1>10. ASSUME NEW x \in 1 .. Len(takenBy'), \A y \in Photos : Stored(y) => Stored(y)' PROVE Kept(x)'
  <2>1. x \in Photos /\ x # NoPhoto /\ Kept(x)
    BY <1>0, <1>1, TakersAre, KeptIs DEF FateInv
  <2>2. x \in {camera.page, calls["camera"].photo, import.photo} => x \in cut'
    BY <1>1, <2>1 DEF Held
  <2>3. InQueue(x) => InQueue(x)'
    <3>1. InQueue(x) => InRow(x)'
      BY <1>7 DEF InQueue, InRow
    <3> QED
      BY <1>0, <3>1, RowsQueued
  <2> QED
    BY <1>1, <1>10, <2>1, <2>2, <2>3 DEF Kept
<1>11. \A s \in Slots : calls'[s].answer = "ok" => calls'[s] = calls[s]
  BY <1>3, Records
<1> QED
  BY <1>0, <1>3, <1>4, <1>9, <1>10, <1>11, FateFrame

-----------------------------------------------------------------------------
(* Every photo's fate.                                                      *)

LEMMA FateInit ==
  ASSUME Init
  PROVE  FateInv
<1>1. PlaceInv
  BY PlaceInit
<1>2. \A a \in Accounts, p \in Photos : receipts[a][p] = 0
  BY DEF Init
<1>3. ReceiptsFit /\ NoPhotoTwice /\ \A p \in Photos : ~Stored(p)
  BY <1>2 DEF ReceiptsFit, NoPhotoTwice, Stored
<1>4. Once
  BY <1>3 DEF Once, Known
<1>5. Answered
  BY Records DEF Init, Answered
<1>6. PhotoKept
  <2>1. takenBy = <<>>
    BY DEF Init
  <2> QED
    BY <2>1 DEF PhotoKept
<1> QED
  BY <1>1, <1>3, <1>4, <1>5, <1>6 DEF FateInv

LEMMA FateStutters ==
  ASSUME FateInv, UNCHANGED vars
  PROVE  FateInv'
<1>1. PlaceInv'
  BY PlaceStutters DEF FateInv
<1>2. UNCHANGED <<receipts, unsure, camera, import, calls, queue, files, runs, takenBy, told, cut, displaced>>
  BY DEF vars, store, flows, sync, server, fate
<1>3. ReceiptsFit' /\ NoPhotoTwice' /\ Answered' /\ PhotoKept'
  BY <1>2 DEF FateInv, ReceiptsFit, NoPhotoTwice, Answered, PhotoKept, Taker, Stored, InQueue
<1>4. Once'
  BY <1>2 DEF FateInv, Once, Known, Stored, Alone, InRow, InTodo, Run
<1> QED
  BY <1>1, <1>3, <1>4 DEF FateInv

LEMMA FateSteps ==
  ASSUME FateInv, [Next]_vars
  PROVE  FateInv'
<1>p. PlaceInv /\ PlaceInv'
  BY PlaceSteps DEF FateInv
<1>1. CASE \E s \in Slots : Check(s) \/ Read(s) \/ Fails(s)
  BY <1>1, ChecksFate, ReadsFate, FailsFate
<1>2. CASE Scanned \/ Imported
  BY <1>2, ScansFate, ImportsFate
<1>3. CASE NextPhoto \/ Uploaded
  BY <1>3, GoesFate, UploadsFate
<1>4. CASE RunEffect \/ Retry \/ Foreground \/ RetryNow
  BY <1>p, <1>4, EffectRuns, Retries, Returns, RetriesNow, QuietHolds, CalmKept
<1>5. CASE Allow \/ Decline
  BY <1>p, <1>5, Allows, Declines, QuietHolds, CalmKept
<1>6. CASE (\E here \in BOOLEAN : Withdraw(here)) \/ FetchMe
  BY <1>p, <1>6, Withdraws, Fetches, ScreenHolds, CalmKept
<1>7. CASE OpenScanner \/ CancelPage
  BY <1>p, <1>7, Opens, Cancels, ScreenHolds, CalmKept
<1>8. CASE NoCapture \/ Import \/ NothingPicked
  BY <1>p, <1>8, CapturesNothing, ImportBegins, PicksNothing, QuietHolds, CalmKept
<1>9. CASE UsePage \/ \E p \in Photos : Captured(p) \/ Picked(p)
  BY <1>9, UsesPageFate, CapturesFate, PicksFate
<1>10. CASE \E p \in Photos : UploadNow(p) \/ DropPending(p)
  BY <1>p, <1>10, RowGoes, Drops, RowHolds, CalmKept
<1>11. CASE Background \/ (\E on \in BOOLEAN : Connect(on)) \/ Upgrade
  BY <1>p, <1>11, Leaves, QuietHolds, CalmKept
<1>12. CASE (\E a \in Accounts : SignIn(a))
  BY <1>p, <1>12, SignsIn, QuietHolds, CalmKept
<1>13. CASE SignOut \/ Relaunch
  BY <1>13, SignsOutFate, RelaunchesFate
<1>14. CASE UNCHANGED vars
  BY <1>14, FateStutters
<1> QED
  BY <1>1, <1>2, <1>3, <1>4, <1>5, <1>6, <1>7, <1>8, <1>9, <1>10, <1>11, <1>12, <1>13, <1>14
     DEF Next, Continuing, Serving

(* No account receives a photo another account took on the phone: a run checks  *)
(* whose rows it uploads, and the account of a call is the one that took it.    *)
THEOREM OnlyTheirOwn == Spec => []OnlyOwnersReceive
<1>1. Init => FateInv
  BY FateInit
<1>2. FateInv /\ [Next]_vars => FateInv'
  BY FateSteps
<1>3. FateInv => OnlyOwnersReceive
  <2>1. ASSUME FateInv, NEW a \in Accounts, NEW p \in 1 .. Len(takenBy), receipts[a][p] > 0
        PROVE  takenBy[p] = a
    <3>1. p \in Photos
      BY <2>1, TakersAre DEF FateInv
    <3> QED
      BY <2>1, <3>1 DEF FateInv, ReceiptsFit, Taker
  <2> QED
    BY <2>1 DEF OnlyOwnersReceive
<1> QED
  BY <1>1, <1>2, <1>3, PTL DEF Spec

(* A photo is stored twice only when the answer of an upload of it was lost, for *)
(* every order of retries, restarts, runs and screens.                           *)
THEOREM StoredOnceUnlessUnsure == Spec => []NoPhotoTwice
<1>1. Init => FateInv
  BY FateInit
<1>2. FateInv /\ [Next]_vars => FateInv'
  BY FateSteps
<1>3. FateInv => NoPhotoTwice
  BY DEF FateInv
<1> QED
  BY <1>1, <1>2, <1>3, PTL DEF Spec

(* No photo is lost in silence: it is stored, in the queue with its file, or on a *)
(* screen that goes on, unless the user was told, or a restart, a sign-out, the   *)
(* consent screen or a scanner opened over its upload took it.                    *)
THEOREM NoneIsLost == Spec => []PhotoKept
<1>1. Init => FateInv
  BY FateInit
<1>2. FateInv /\ [Next]_vars => FateInv'
  BY FateSteps
<1>3. FateInv => PhotoKept
  BY DEF FateInv
<1> QED
  BY <1>1, <1>2, <1>3, PTL DEF Spec

-----------------------------------------------------------------------------
(* The count of the receipts.                                               *)

(* The running sums of f, and the last of them. *)
SumsOf(n, f) == n = [k \in 0 .. MaxPhotos |-> IF k = 0 THEN 0 ELSE n[k - 1] + f[k]]
Total(f) == (CHOOSE n : SumsOf(n, f))[MaxPhotos]

LEMMA CountIs ==
  ASSUME NEW a
  PROVE  Count(a) = Total(receipts[a]) /\ Count(a)' = Total(receipts'[a])
BY DEF Count, Total, SumsOf

LEMMA SumsExist ==
  ASSUME NEW f
  PROVE  \E n : SumsOf(n, f)
<1> DEFINE Is(n, m) == n = [k \in 0 .. m |-> IF k = 0 THEN 0 ELSE n[k - 1] + f[k]]
           Good(m) == \E n : Is(n, m)
           S == {m \in Nat : Good(m)}
<1>1. Good(0)
  <2> DEFINE n == [k \in 0 .. 0 |-> 0]
  <2>1. Is(n, 0)
    OBVIOUS
  <2> QED
    BY <2>1
<1>2. ASSUME NEW m \in Nat, Good(m) PROVE Good(m + 1)
  <2>1. PICK n : Is(n, m)
    BY <1>2
  <2>2. \A k \in 0 .. m : n[k] = IF k = 0 THEN 0 ELSE n[k - 1] + f[k]
    BY <2>1
  <2> DEFINE e == [k \in 0 .. m + 1 |-> IF k <= m THEN n[k] ELSE n[m] + f[m + 1]]
  <2>3. \A k \in 0 .. m : e[k] = n[k]
    OBVIOUS
  <2>4. e[m + 1] = e[m] + f[m + 1]
    BY <2>3
  <2>5. ASSUME NEW k \in 0 .. m + 1
        PROVE  e[k] = IF k = 0 THEN 0 ELSE e[k - 1] + f[k]
    <3>1. CASE k = 0
      BY <2>2, <2>3, <3>1
    <3>2. CASE k \in 1 .. m
      <4>1. k - 1 \in 0 .. m /\ k \in 0 .. m /\ k # 0
        BY <3>2
      <4> QED
        BY <2>2, <2>3, <4>1
    <3>3. CASE k = m + 1
      BY <2>4, <3>3
    <3> QED
      BY <3>1, <3>2, <3>3
  <2>6. Is(e, m + 1)
    <3>1. e = [k \in 0 .. m + 1 |-> e[k]]
      OBVIOUS
    <3> HIDE DEF e
    <3> QED
      BY <2>5, <3>1
  <2> QED
    BY <2>6
<1>3. Good(MaxPhotos)
  <2> HIDE DEF Good
  <2>1. 0 \in S
    BY <1>1
  <2>2. \A m \in Nat : m \in S => m + 1 \in S
    BY <1>2
  <2>3. Nat \subseteq S
    <3> HIDE DEF S
    <3> QED
      BY <2>1, <2>2, SetInduction
  <2> QED
    BY <2>3, CaptureAssumption
<1> QED
  BY <1>3 DEF SumsOf

(* One more of one photo is one more in all. *)
LEMMA TotalMore ==
  ASSUME NEW f \in [Photos -> Nat], NEW g \in [Photos -> Nat], NEW p \in Nat,
         \A k \in Photos : g[k] = IF k = p THEN f[k] + 1 ELSE f[k]
  PROVE  Total(f) \in Nat /\ (p \in Photos => Total(g) = Total(f) + 1)
<1>1. PICK n : SumsOf(n, f) /\ Total(f) = n[MaxPhotos]
  BY SumsExist DEF Total
<1>2. PICK h : SumsOf(h, g) /\ Total(g) = h[MaxPhotos]
  BY SumsExist DEF Total
<1>3. \A k \in 0 .. MaxPhotos : /\ n[k] = IF k = 0 THEN 0 ELSE n[k - 1] + f[k]
                                /\ h[k] = IF k = 0 THEN 0 ELSE h[k - 1] + g[k]
  BY <1>1, <1>2 DEF SumsOf
<1> DEFINE Good(m) == n[m] \in Nat /\ h[m] = n[m] + (IF p \in 1 .. m THEN 1 ELSE 0)
           S == {m \in Nat : m <= MaxPhotos => Good(m)}
<1>4. MaxPhotos \in Nat
  BY CaptureAssumption
<1>5. 0 \in S
  BY <1>3, <1>4
<1>6. ASSUME NEW m \in Nat, m \in S PROVE m + 1 \in S
  <2>1. CASE m + 1 <= MaxPhotos
    <3>1. Good(m) /\ m + 1 \in 0 .. MaxPhotos /\ m + 1 # 0 /\ (m + 1) - 1 = m
      BY <1>4, <1>6, <2>1
    <3>2. n[m + 1] = n[m] + f[m + 1] /\ h[m + 1] = h[m] + g[m + 1]
      BY <1>3, <3>1
    <3>3. f[m + 1] \in Nat /\ g[m + 1] = IF m + 1 = p THEN f[m + 1] + 1 ELSE f[m + 1]
      <4>1. m + 1 \in Photos
        BY <1>4, <2>1 DEF Photos
      <4> QED
        BY <4>1
    <3>4. Good(m + 1)
      BY <1>4, <3>1, <3>2, <3>3
    <3> QED
      BY <3>4
  <2>2. CASE ~(m + 1 <= MaxPhotos)
    BY <2>2
  <2> QED
    BY <2>1, <2>2
<1>7. Good(MaxPhotos)
  <2> HIDE DEF Good
  <2>1. Nat \subseteq S
    <3> HIDE DEF S
    <3> QED
      BY <1>5, <1>6, SetInduction
  <2> QED
    BY <1>4, <2>1
<1> QED
  BY <1>1, <1>2, <1>4, <1>7 DEF Photos

LEMMA TotalNone ==
  ASSUME NEW f \in [Photos -> Nat], \A k \in Photos : f[k] = 0
  PROVE  Total(f) = 0
<1>1. PICK n : SumsOf(n, f) /\ Total(f) = n[MaxPhotos]
  BY SumsExist DEF Total
<1>2. \A k \in 0 .. MaxPhotos : n[k] = IF k = 0 THEN 0 ELSE n[k - 1] + f[k]
  BY <1>1 DEF SumsOf
<1> DEFINE S == {m \in Nat : m <= MaxPhotos => n[m] = 0}
<1>3. MaxPhotos \in Nat
  BY CaptureAssumption
<1>4. 0 \in S
  BY <1>2, <1>3
<1>5. ASSUME NEW m \in Nat, m \in S PROVE m + 1 \in S
  <2>1. CASE m + 1 <= MaxPhotos
    <3>1. n[m] = 0 /\ m + 1 \in 0 .. MaxPhotos /\ m + 1 # 0 /\ (m + 1) - 1 = m /\ m + 1 \in Photos
      BY <1>3, <1>5, <2>1 DEF Photos
    <3> QED
      BY <1>2, <3>1
  <2>2. CASE ~(m + 1 <= MaxPhotos)
    BY <2>2
  <2> QED
    BY <2>1, <2>2
<1>6. Nat \subseteq S
  <2> HIDE DEF S
  <2> QED
    BY <1>4, <1>5, SetInduction
<1> QED
  BY <1>1, <1>3, <1>6

-----------------------------------------------------------------------------
(* The quota.                                                               *)

(* The scans of an account past the count, one for each slot that has one. *)
One(s, a) == IF Reading(s, a) THEN 1 ELSE 0
Ones(a) == One("camera", a) + One("import", a) + One("run", a)

(* What is stored for an account, and what may be without another look at the count. *)
Bound(a) == Count(a) + Ones(a)

QuotaInv == PlaceInv /\ \A a \in Accounts \ premium : Bound(a) <= Quota + together[a]

(* No step but a check lets an account have more. *)
Spends == UNCHANGED together /\ premium \subseteq premium' /\ \A a \in Accounts : Bound(a)' <= Bound(a)

LEMMA OnesAre ==
  ASSUME NEW a
  PROVE  /\ Ones(a) \in Nat /\ Ones(a)' \in Nat
         /\ {One("camera", a), One("import", a), One("run", a)} \subseteq 0 .. 1
         /\ {One("camera", a), One("import", a), One("run", a)}' \subseteq 0 .. 1
BY DEF Ones, One

LEMMA CountNat ==
  ASSUME PlaceInv, NEW a \in Accounts
  PROVE  Count(a) \in Nat
<1>1. receipts[a] \in [Photos -> Nat]
  BY DEF PlaceInv, TypeOK
<1>2. PICK f \in [Photos -> Nat] : f = receipts[a]
  BY <1>1
<1>3. \A k \in Photos : f[k] = IF k = 0 THEN f[k] + 1 ELSE f[k]
  BY DEF Photos
<1>4. Total(f) \in Nat
  BY <1>3, TotalMore
<1> QED
  BY <1>2, <1>4, CountIs

LEMMA CountNatNext ==
  ASSUME PlaceInv', NEW a \in Accounts
  PROVE  Count(a)' \in Nat
<1>1. receipts'[a] \in [Photos -> Nat]
  BY DEF PlaceInv, TypeOK
<1>2. PICK f \in [Photos -> Nat] : f = receipts'[a]
  BY <1>1
<1>3. \A k \in Photos : f[k] = IF k = 0 THEN f[k] + 1 ELSE f[k]
  BY DEF Photos
<1>4. Total(f) \in Nat
  BY <1>3, TotalMore
<1> QED
  BY <1>2, <1>4, CountIs

LEMMA SpendsQuota ==
  ASSUME QuotaInv, PlaceInv', Spends
  PROVE  QuotaInv'
<1>1. ASSUME NEW a \in Accounts \ premium' PROVE Bound(a)' <= Quota + together'[a]
  <2>1. together[a] \in Nat /\ together'[a] = together[a]
    BY DEF Spends, QuotaInv, PlaceInv, TypeOK
  <2>2. Count(a) \in Nat /\ Count(a)' \in Nat
    BY CountNat, CountNatNext DEF QuotaInv
  <2>3. Bound(a) \in Nat /\ Bound(a)' \in Nat
    BY <2>2, OnesAre DEF Bound
  <2>4. Bound(a) <= Quota + together[a] /\ Bound(a)' <= Bound(a)
    BY <1>1 DEF QuotaInv, Spends
  <2> QED
    BY <2>1, <2>3, <2>4, CaptureAssumption
<1> QED
  BY <1>1 DEF QuotaInv

(* The same receipts, and no scan past the count that was not. *)
NoMore == \A s \in Slots : calls'[s].pc = "reading" => calls'[s] = calls[s]

LEMMA FewerOnes ==
  ASSUME NoMore, NEW a
  PROVE  /\ One("camera", a)' <= One("camera", a) /\ One("import", a)' <= One("import", a)
         /\ One("run", a)' <= One("run", a) /\ Ones(a)' <= Ones(a)
<1>1. "camera" \in Slots /\ "import" \in Slots /\ "run" \in Slots
  BY DEF Slots
<1>2. /\ Reading("camera", a)' => Reading("camera", a)
      /\ Reading("import", a)' => Reading("import", a)
      /\ Reading("run", a)' => Reading("run", a)
  BY <1>1 DEF NoMore, Reading
<1> QED
  BY <1>2 DEF Ones, One

LEMMA SameReceipts ==
  ASSUME PlaceInv, NoMore, UNCHANGED <<receipts, together>>, premium \subseteq premium'
  PROVE  Spends
<1>1. ASSUME NEW a \in Accounts PROVE Bound(a)' <= Bound(a)
  <2>1. Count(a)' = Count(a) /\ Count(a) \in Nat
    BY CountIs, CountNat
  <2>2. Ones(a)' <= Ones(a) /\ Ones(a) \in Nat /\ Ones(a)' \in Nat
    BY FewerOnes, OnesAre
  <2> QED
    BY <2>1, <2>2 DEF Bound
<1> QED
  BY <1>1 DEF Spends

(* The photo of a scan that was past the count is stored, and the scan is over. *)
LEMMA StoredInstead ==
  ASSUME PlaceInv, receipts' \in [Accounts -> [Photos -> Nat]], NEW slot \in Slots, NEW b \in Accounts,
         NEW p \in Photos, Reading(slot, b), receipts' = [receipts EXCEPT ![b][p] = @ + 1],
         NoMore, calls'[slot].pc # "reading", UNCHANGED together, premium \subseteq premium'
  PROVE  Spends
<1>1. receipts \in [Accounts -> [Photos -> Nat]]
  BY DEF PlaceInv, TypeOK
<1>2. /\ \A a \in Accounts : a # b => receipts'[a] = receipts[a]
      /\ \A k \in Photos : receipts'[b][k] = IF k = p THEN receipts[b][k] + 1 ELSE receipts[b][k]
  BY <1>1
<1>3. ASSUME NEW a \in Accounts PROVE Bound(a)' <= Bound(a)
  <2>1. Count(a) \in Nat
    BY CountNat
  <2>2. CASE a # b
    <3>1. Count(a)' = Count(a)
      BY <1>2, <2>2, CountIs
    <3>2. Ones(a)' <= Ones(a) /\ Ones(a) \in Nat /\ Ones(a)' \in Nat
      BY FewerOnes, OnesAre
    <3> QED
      BY <2>1, <3>1, <3>2 DEF Bound
  <2>3. CASE a = b
    <3>1. PICK f \in [Photos -> Nat], g \in [Photos -> Nat] : f = receipts[a] /\ g = receipts'[a]
      BY <1>1
    <3>2. Total(g) = Total(f) + 1
      <4>1. p \in Nat
        BY DEF Photos
      <4>2. \A k \in Photos : g[k] = IF k = p THEN f[k] + 1 ELSE f[k]
        BY <1>2, <2>3, <3>1
      <4> QED
        BY <4>1, <4>2, TotalMore
    <3>3. Count(a)' = Count(a) + 1
      BY <3>1, <3>2, CountIs
    <3>4. One(slot, a) = 1 /\ One(slot, a)' = 0 /\ slot \in {"camera", "import", "run"}
      BY <2>3 DEF One, Reading, Slots
    <3>5. Ones(a)' <= Ones(a) - 1 /\ Ones(a) \in Nat /\ Ones(a)' \in Nat
      BY <3>4, FewerOnes, OnesAre DEF Ones
    <3> QED
      BY <2>1, <3>3, <3>5 DEF Bound
  <2> QED
    BY <2>2, <2>3
<1> QED
  BY <1>3 DEF Spends

(* A check counts before the scan passes it, and sees how many others did. *)
LEMMA OthersAre ==
  ASSUME PlaceInv, NEW slot \in Slots, NEW a, ~Reading(slot, a)
  PROVE  Ones(a) = Cardinality({s \in Slots \ {slot} : Reading(s, a)})
<1> DEFINE S == {s \in Slots \ {slot} : Reading(s, a)}
           C == IF Reading("camera", a) THEN {"camera"} ELSE {}
           I == IF Reading("import", a) THEN C \cup {"import"} ELSE C
           R == IF Reading("run", a) THEN I \cup {"run"} ELSE I
<1>1. S = R
  BY DEF Slots
<1>2. IsFiniteSet({}) /\ Cardinality({}) = 0
  BY FS_EmptySet
<1>3. IsFiniteSet(C) /\ Cardinality(C) = One("camera", a)
  <2>1. CASE Reading("camera", a)
    <3>1. C = {} \cup {"camera"}
      BY <2>1
    <3> QED
      BY <1>2, <2>1, <3>1, FS_AddElement DEF One
  <2> QED
    BY <1>2, <2>1 DEF One
<1>4. IsFiniteSet(I) /\ Cardinality(I) = One("camera", a) + One("import", a)
  <2>1. CASE Reading("import", a)
    <3>1. I = C \cup {"import"} /\ "import" \notin C
      BY <2>1
    <3>2. One("camera", a) \in Nat /\ One("import", a) = 1
      BY <2>1 DEF One
    <3> HIDE DEF C, I
    <3> QED
      BY <1>3, <3>1, <3>2, FS_AddElement
  <2>2. CASE ~Reading("import", a)
    <3>1. I = C /\ One("camera", a) \in Nat /\ One("import", a) = 0
      BY <2>2 DEF One
    <3> HIDE DEF C, I
    <3> QED
      BY <1>3, <3>1
  <2> QED
    BY <2>1, <2>2
<1>5. Cardinality(R) = Ones(a)
  <2>1. CASE Reading("run", a)
    <3>1. R = I \cup {"run"} /\ "run" \notin I
      BY <2>1
    <3>2. One("camera", a) \in Nat /\ One("import", a) \in Nat /\ One("run", a) = 1
      BY <2>1 DEF One
    <3> HIDE DEF C, I, R
    <3> QED
      BY <1>4, <3>1, <3>2, FS_AddElement DEF Ones
  <2>2. CASE ~Reading("run", a)
    <3>1. R = I /\ One("camera", a) \in Nat /\ One("import", a) \in Nat /\ One("run", a) = 0
      BY <2>2 DEF One
    <3> HIDE DEF C, I, R
    <3> QED
      BY <1>4, <3>1 DEF Ones
  <2> QED
    BY <2>1, <2>2
<1> HIDE DEF S, R, I, C
<1>6. Cardinality(S) = Ones(a)
  BY <1>1, <1>5
<1> QED
  BY <1>6 DEF S

LEMMA ChecksQuota ==
  ASSUME QuotaInv, NEW slot \in Slots, Check(slot)
  PROVE  QuotaInv'
<1>0. PlaceInv /\ PlaceInv'
  BY Checks DEF QuotaInv
<1>1. PICK a \in Accounts : a = calls[slot].account
  BY <1>0, CallTaker DEF Check
<1>2. UNCHANGED <<receipts, premium>> /\ a # NoOne /\ calls[slot].pc = "sent"
  BY <1>1, CaptureAssumption DEF Check
<1>4. CASE \E answer \in Answers : calls' = Answer(slot, answer)
  <2>1. PICK answer \in Answers : calls' = Answer(slot, answer)
    BY <1>4
  <2>2. calls'[slot].pc = "answered" /\ \A t \in Slots \ {slot} : calls'[t] = calls[t]
    BY <1>0, <2>1, AnswerIs
  <2>3. UNCHANGED together
    BY <2>2 DEF Check
  <2>4. NoMore
    BY <2>2 DEF NoMore
  <2> QED
    BY <1>0, <1>2, <2>3, <2>4, SameReceipts, SpendsQuota
<1>5. CASE calls' = [calls EXCEPT ![slot].pc = "reading"] /\ ~OverQuota(a)
  <2>1. /\ \A s \in Slots \ {slot} : calls'[s] = calls[s]
        /\ calls'[slot].pc = "reading" /\ calls'[slot].account = a
    BY <1>0, <1>1, <1>5 DEF PlaceInv, TypeOK, Calls
  <2>2. together[a] \in Nat /\ together'[a] \in Nat /\ \A b \in Accounts : together[b] \in Nat /\ together'[b] \in Nat
    BY <1>0 DEF PlaceInv, TypeOK
  <2>3. ASSUME NEW b \in Accounts \ premium' PROVE Bound(b)' <= Quota + together'[b]
    <3>1. Bound(b) <= Quota + together[b] /\ together'[b] >= together[b]
      BY <1>0, <1>2, <2>3, TogetherIs DEF QuotaInv
    <3>2. Count(b)' = Count(b) /\ Count(b) \in Nat
      BY <1>0, <1>2, CountIs, CountNat
    <3>3. CASE b # a
      <4>1. \A s \in Slots : Reading(s, b)' <=> Reading(s, b)
        BY <1>1, <1>2, <2>1, <3>3 DEF Reading
      <4>2. Ones(b)' = Ones(b) /\ Ones(b) \in Nat
        BY <4>1, OnesAre DEF Ones, One, Slots
      <4> QED
        BY <2>2, <3>1, <3>2, <4>2, CaptureAssumption DEF Bound
    <3>4. CASE b = a
      <4>1. Count(b) < Quota
        BY <1>0, <1>2, <1>5, <2>3, <3>2, <3>4, CaptureAssumption DEF OverQuota
      <4>2. ~Reading(slot, a)
        BY <1>2 DEF Reading
      <4>3. together'[a] >= Ones(a)
        <5>1. together'[calls[slot].account]
                 >= Cardinality({s \in Slots \ {slot} : Reading(s, calls[slot].account)})
          BY <1>0, <2>1, TogetherIs
        <5>2. Ones(a) = Cardinality({s \in Slots \ {slot} : Reading(s, a)})
          BY <1>0, <4>2, OthersAre
        <5>3. {s \in Slots \ {slot} : Reading(s, a)} = {s \in Slots \ {slot} : Reading(s, calls[slot].account)}
          BY <1>1
        <5> QED
          BY <1>1, <5>1, <5>2, <5>3
      <4>4. \A s \in Slots \ {slot} : Reading(s, a)' <=> Reading(s, a)
        BY <2>1 DEF Reading
      <4>5. Ones(a)' = Ones(a) + 1 /\ Ones(a) \in Nat
        <5>1. One(slot, a)' = 1 /\ One(slot, a) = 0 /\ slot \in {"camera", "import", "run"}
          BY <2>1, <4>2 DEF One, Reading, Slots
        <5>2. \A s \in Slots \ {slot} : One(s, a)' = One(s, a)
          BY <4>4 DEF One
        <5> QED
          BY <5>1, <5>2, OnesAre DEF Ones, Slots
      <4> QED
        BY <2>2, <3>2, <3>4, <4>1, <4>3, <4>5, CaptureAssumption DEF Bound
    <3> QED
      BY <3>3, <3>4
  <2> QED
    BY <1>0, <2>3 DEF QuotaInv
<1> QED
  BY <1>1, <1>2, <1>4, <1>5 DEF Check, Answers

LEMMA ReadsSpend ==
  ASSUME PlaceInv, PlaceInv', NEW slot \in Slots, Read(slot) \/ Fails(slot)
  PROVE  Spends
<1>1. PICK a \in Accounts, p \in Photos : a = calls[slot].account /\ p = calls[slot].photo
  BY CallTaker DEF Read, Fails
<1>2. UNCHANGED <<premium, together>>
  BY DEF Read, Fails
<1>3. PICK answer \in Answers : calls' = Answer(slot, answer)
  BY DEF Read, Fails, Answers
<1>4. calls'[slot].pc = "answered" /\ \A t \in Slots \ {slot} : calls'[t] = calls[t]
  BY <1>3, AnswerIs
<1>5. NoMore
  BY <1>4 DEF NoMore
<1>6. CASE UNCHANGED receipts
  BY <1>2, <1>5, <1>6, SameReceipts
<1>7. CASE calls[slot].pc = "reading" /\ receipts' = [receipts EXCEPT ![a][p] = @ + 1]
  <2>1. Reading(slot, a) /\ receipts' \in [Accounts -> [Photos -> Nat]]
    BY <1>1, <1>7 DEF Reading, PlaceInv, TypeOK
  <2> QED
    BY <1>2, <1>4, <1>5, <1>7, <2>1, StoredInstead
<1> QED
  BY <1>1, <1>6, <1>7 DEF Read, Fails

(* Calls that end, that are sent, or that nobody hears of. *)
LEMMA EndsSpend ==
  ASSUME PlaceInv, Scanned \/ Imported \/ Uploaded
  PROVE  Spends
<1>1. UNCHANGED <<receipts, premium, together, takenBy>>
  BY DEF Scanned, Imported, importReceipt, QueueImport, Uploaded, server
<1>2. PICK slot \in Slots : calls' = [calls EXCEPT ![slot] = NoCall]
  BY DEF Scanned, Imported, importReceipt, QueueImport, Uploaded, Slots
<1>3. NoMore
  BY <1>1, <1>2, CallEnds, Records DEF NoMore
<1> QED
  BY <1>1, <1>3, SameReceipts

LEMMA SendsSpend ==
  ASSUME PlaceInv, NextPhoto \/ \E p \in Photos : Picked(p)
  PROVE  Spends
<1>b. "import" \in Slots /\ "run" \in Slots
  BY DEF Slots
<1>1. UNCHANGED <<receipts, premium, together>>
  BY DEF NextPhoto, Picked, server
<1>2. CASE UNCHANGED calls
  <2>1. NoMore
    BY <1>2 DEF NoMore
  <2> QED
    BY <1>1, <2>1, SameReceipts
<1>3. CASE \E slot \in Slots, p \in Photos, a \in Accounts : calls' = Send(slot, p, a)
  <2>1. NoMore
    BY <1>3, SendIs DEF NoMore
  <2> QED
    BY <1>1, <2>1, SameReceipts
<1>4. CASE \E p \in Photos : Picked(p)
  <2>1. user \in Accounts
    BY <1>4 DEF Picked, PlaceInv, ScreensFit
  <2> QED
    BY <1>3, <1>4, <1>b, <2>1 DEF Picked
<1>5. CASE NextPhoto /\ ~UNCHANGED calls
  <2>1. runs # <<>> /\ Run.todo # <<>> /\ user = Run.owner /\ calls' = Send("run", Head(Run.todo), user)
    BY <1>5 DEF NextPhoto, currentOwnerIs
  <2>2. Head(Run.todo) \in Photos /\ user \in Accounts
    <3>1. PICK run \in Runs : run = Run
      BY <2>1 DEF PlaceInv, RunsFit, Run
    <3>2. run.todo \in Seq(Photos) /\ run.todo # <<>> /\ run.owner \in Accounts
      BY <2>1, <3>1 DEF Runs
    <3> QED
      BY <2>1, <3>1, <3>2
  <2> QED
    BY <1>3, <1>b, <2>1, <2>2
<1> QED
  BY <1>2, <1>4, <1>5

LEMMA SubmitsSpend ==
  ASSUME PlaceInv, PlaceInv', NEW p \in Photos, Submit(p), user \in Accounts, UNCHANGED <<premium, together>>
  PROVE  Spends
<1>b. "camera" \in Slots
  BY DEF Slots
<1>1. CASE UNCHANGED <<calls, receipts>>
  <2>1. NoMore
    BY <1>1 DEF NoMore
  <2> QED
    BY <1>1, <2>1, SameReceipts
<1>2. CASE calls' = Send("camera", p, user)
  <2>1. NoMore /\ calls'["camera"].pc = "sent"
    BY <1>b, <1>2, SendIs DEF NoMore
  <2>2. CASE UNCHANGED receipts
    BY <2>1, <2>2, SameReceipts
  <2>3. CASE /\ calls["camera"].pc = "reading"
             /\ receipts' = [receipts EXCEPT ![calls["camera"].account][calls["camera"].photo] = @ + 1]
    <3>1. PICK a \in Accounts, k \in Photos : a = calls["camera"].account /\ k = calls["camera"].photo
      BY <1>b, <2>3, CallTaker
    <3>2. Reading("camera", a) /\ receipts' \in [Accounts -> [Photos -> Nat]]
          /\ receipts' = [receipts EXCEPT ![a][k] = @ + 1]
      BY <2>3, <3>1 DEF Reading, PlaceInv, TypeOK
    <3> QED
      BY <1>b, <2>1, <3>2, StoredInstead
  <2> QED
    BY <1>2, <2>2, <2>3 DEF Submit
<1> QED
  BY <1>1, <1>2 DEF Submit

LEMMA CapturesSpend ==
  ASSUME PlaceInv, PlaceInv', NEW p \in Photos, Captured(p)
  PROVE  Spends
<1>1. user \in Accounts /\ UNCHANGED <<premium, together>>
  BY DEF Captured, PlaceInv, ScreensFit
<1>2. CASE UNCHANGED <<calls, receipts>>
  <2>1. NoMore
    BY <1>2 DEF NoMore
  <2> QED
    BY <1>1, <1>2, <2>1, SameReceipts
<1>3. CASE Submit(p)
  BY <1>1, <1>3, SubmitsSpend
<1> QED
  BY <1>2, <1>3 DEF Captured

LEMMA UsesPageSpends ==
  ASSUME PlaceInv, PlaceInv', UsePage
  PROVE  Spends
<1>1. camera.page # NoPhoto /\ Submit(camera.page) /\ UNCHANGED <<premium, together>>
  BY DEF UsePage, HoldsPage
<1>2. Taker(camera.page, user)
  BY <1>1 DEF PlaceInv, ScreensFit
<1>3. camera.page \in Photos /\ user \in Accounts
  BY <1>2, TakersAre DEF Taker
<1> QED
  BY <1>1, <1>3, SubmitsSpend

(* The receipts of an account with the photos of some calls stored as well. *)
With(T, a) == [p \in Photos |-> receipts[a][p] +
                 Cardinality({s \in T : calls[s].account = a /\ calls[s].photo = p})]

(* One call more adds one at most, and none to another account. *)
LEMMA OneStored ==
  ASSUME PlaceInv, NEW a \in Accounts, NEW T \in SUBSET Slots, NEW s \in Slots, s \notin T,
         calls[s].pc = "reading"
  PROVE  /\ With(T, a) \in [Photos -> Nat] /\ Total(With(T, a)) \in Nat /\ Total(With(T \cup {s}, a)) \in Nat
         /\ Total(With(T \cup {s}, a)) <= Total(With(T, a)) + One(s, a)
<1> DEFINE More(U, p) == {t \in U : calls[t].account = a /\ calls[t].photo = p}
           f == With(T, a)
           g == With(T \cup {s}, a)
<1>1. receipts[a] \in [Photos -> Nat]
  BY DEF PlaceInv, TypeOK
<1>2. \A U \in SUBSET Slots : \A p : IsFiniteSet(More(U, p)) /\ Cardinality(More(U, p)) \in Nat
  BY SlotsFinite
<1>3. T \cup {s} \in SUBSET Slots
  OBVIOUS
<1>4. /\ f = [p \in Photos |-> receipts[a][p] + Cardinality(More(T, p))]
      /\ g = [p \in Photos |-> receipts[a][p] + Cardinality(More(T \cup {s}, p))]
  BY DEF With
<1>5. ASSUME NEW p \in Photos
      PROVE  Cardinality(More(T \cup {s}, p)) =
                IF calls[s].account = a /\ calls[s].photo = p
                THEN Cardinality(More(T, p)) + 1 ELSE Cardinality(More(T, p))
  <2>1. CASE calls[s].account = a /\ calls[s].photo = p
    <3>1. More(T \cup {s}, p) = More(T, p) \cup {s} /\ s \notin More(T, p)
      BY <2>1
    <3> HIDE DEF More
    <3> QED
      BY <1>2, <2>1, <3>1, FS_AddElement
  <2>2. CASE ~(calls[s].account = a /\ calls[s].photo = p)
    <3>1. More(T \cup {s}, p) = More(T, p)
      BY <2>2
    <3> QED
      BY <2>2, <3>1
  <2> QED
    BY <2>1, <2>2
<1> HIDE DEF More, f, g
<1>6. f \in [Photos -> Nat] /\ g \in [Photos -> Nat]
  BY <1>1, <1>2, <1>3, <1>4
<1>7. ASSUME NEW p \in Photos
      PROVE  g[p] = IF calls[s].account = a /\ calls[s].photo = p THEN f[p] + 1 ELSE f[p]
  <2>1. PICK m \in Nat, n \in Nat, k \in Nat :
           m = Cardinality(More(T, p)) /\ n = Cardinality(More(T \cup {s}, p)) /\ k = receipts[a][p]
    BY <1>1, <1>2, <1>3
  <2>2. f[p] = k + m /\ g[p] = k + n
    BY <1>4, <2>1
  <2>3. n = IF calls[s].account = a /\ calls[s].photo = p THEN m + 1 ELSE m
    BY <1>5, <2>1
  <2> QED
    BY <2>1, <2>2, <2>3
<1>8. CASE calls[s].account = a
  <2>1. PICK p \in Photos : p = calls[s].photo
    BY CallTaker
  <2>2. \A k \in Photos : g[k] = IF k = p THEN f[k] + 1 ELSE f[k]
    BY <1>7, <1>8, <2>1
  <2>3. p \in Nat
    BY DEF Photos
  <2>4. Total(f) \in Nat /\ Total(g) = Total(f) + 1
    BY <1>6, <2>2, <2>3, TotalMore
  <2>5. One(s, a) = 1
    BY <1>8 DEF One, Reading
  <2> QED
    BY <1>6, <2>4, <2>5 DEF f, g
<1>9. CASE calls[s].account # a
  <2>1. g = f
    BY <1>6, <1>7, <1>9
  <2>2. \A k \in Photos : g[k] = IF k = 0 THEN f[k] + 1 ELSE f[k]
    BY <2>1 DEF Photos
  <2>3. Total(f) \in Nat
    <3>1. 0 \in Nat
      OBVIOUS
    <3> QED
      BY <1>6, <2>2, <3>1, TotalMore
  <2>4. One(s, a) = 0
    BY <1>9 DEF One, Reading
  <2> QED
    BY <1>6, <2>1, <2>3, <2>4 DEF f, g
<1> QED
  BY <1>8, <1>9

LEMMA NoneStored ==
  ASSUME PlaceInv, NEW a \in Accounts
  PROVE  With({}, a) = receipts[a]
<1>1. receipts[a] \in [Photos -> Nat]
  BY DEF PlaceInv, TypeOK
<1>2. \A p \in Photos : Cardinality({s \in {} : calls[s].account = a /\ calls[s].photo = p}) = 0
  BY FS_EmptySet
<1> QED
  BY <1>1, <1>2 DEF With

(* Of the calls nobody hears of, one slot after the other. *)
LEMMA SomeStored ==
  ASSUME PlaceInv, NEW a \in Accounts, NEW stored \in SUBSET Slots,
         \A s \in stored : calls[s].pc = "reading"
  PROVE  /\ Total(With(stored, a)) \in Nat
         /\ Total(With(stored, a)) <= Count(a) + (IF "camera" \in stored THEN One("camera", a) ELSE 0)
                                               + (IF "import" \in stored THEN One("import", a) ELSE 0)
                                               + (IF "run" \in stored THEN One("run", a) ELSE 0)
<1> DEFINE C == stored \cap {"camera"}
           I == stored \cap {"camera", "import"}
           c == IF "camera" \in stored THEN One("camera", a) ELSE 0
           i == IF "import" \in stored THEN One("import", a) ELSE 0
           r == IF "run" \in stored THEN One("run", a) ELSE 0
<1>b. "camera" \in Slots /\ "import" \in Slots /\ "run" \in Slots /\ Slots = {"camera", "import", "run"}
  BY DEF Slots
<1>n. c \in Nat /\ i \in Nat /\ r \in Nat
  BY OnesAre
<1>1. Total(With({}, a)) = Count(a) /\ Count(a) \in Nat
  BY NoneStored, CountIs, CountNat
<1>2. Total(With(C, a)) \in Nat /\ Total(With(C, a)) <= Count(a) + c
  <2>1. CASE "camera" \in stored
    <3>1. C = {} \cup {"camera"} /\ {} \in SUBSET Slots /\ "camera" \notin {}
      BY <2>1
    <3> HIDE DEF C
    <3> QED
      BY <1>b, <1>1, <2>1, <3>1, OneStored
  <2>2. CASE "camera" \notin stored
    <3>1. C = {} /\ c = 0
      BY <2>2
    <3> HIDE DEF C, c
    <3> QED
      BY <1>1, <3>1
  <2> QED
    BY <2>1, <2>2
<1>3. Total(With(I, a)) \in Nat /\ Total(With(I, a)) <= Total(With(C, a)) + i
  <2>1. CASE "import" \in stored
    <3>1. I = C \cup {"import"} /\ C \in SUBSET Slots /\ "import" \notin C
      BY <1>b, <2>1
    <3> HIDE DEF C, I
    <3> QED
      BY <1>b, <2>1, <3>1, OneStored
  <2>2. CASE "import" \notin stored
    <3>1. I = C /\ i = 0
      BY <2>2
    <3> HIDE DEF C, I, i
    <3> QED
      BY <1>2, <3>1
  <2> QED
    BY <2>1, <2>2
<1>4. Total(With(stored, a)) \in Nat /\ Total(With(stored, a)) <= Total(With(I, a)) + r
  <2>1. CASE "run" \in stored
    <3>1. stored = I \cup {"run"} /\ I \in SUBSET Slots /\ "run" \notin I
      BY <1>b, <2>1
    <3> HIDE DEF I
    <3> QED
      BY <1>b, <2>1, <3>1, OneStored
  <2>2. CASE "run" \notin stored
    <3>1. stored = I /\ r = 0
      BY <1>b, <2>2
    <3> HIDE DEF I, r
    <3> QED
      BY <1>3, <3>1
  <2> QED
    BY <2>1, <2>2
<1>5. Total(With(stored, a)) <= Count(a) + c + i + r
  <2> HIDE DEF c, i, r, C, I
  <2> QED
    BY <1>n, <1>1, <1>2, <1>3, <1>4
<1> QED
  BY <1>4, <1>5

LEMMA LeavingSpends ==
  ASSUME PlaceInv, PlaceInv', SignOut \/ Relaunch
  PROVE  Spends
<1>1. UNCHANGED <<premium, together, takenBy>>
  BY DEF SignOut, Relaunch
<1>2. PICK slots \in SUBSET Slots : Unheard(slots)
  BY DEF SignOut, Relaunch, Slots
<1>3. (\A s \in slots : calls'[s] = NoCall) /\ \A s \in Slots \ slots : calls'[s] = calls[s]
  BY <1>1, <1>2, UnheardIs
<1>4. NoMore
  BY <1>3, Records DEF NoMore
<1>5. PICK stored \in SUBSET {s \in slots : calls[s].pc = "reading"} :
         receipts' = [a \in Accounts |-> [p \in Photos |-> receipts[a][p] + Cardinality(
                         {s \in stored : calls[s].account = a /\ calls[s].photo = p})]]
  BY <1>2 DEF Unheard
<1>6. ASSUME NEW a \in Accounts PROVE Bound(a)' <= Bound(a)
  <2>1. receipts'[a] = With(stored, a)
    BY <1>5 DEF With
  <2>2. stored \in SUBSET Slots /\ \A s \in stored : calls[s].pc = "reading"
    BY <1>5
  <2>3. /\ Count(a)' \in Nat /\ Count(a) \in Nat
        /\ Count(a)' <= Count(a) + (IF "camera" \in stored THEN One("camera", a) ELSE 0)
                                 + (IF "import" \in stored THEN One("import", a) ELSE 0)
                                 + (IF "run" \in stored THEN One("run", a) ELSE 0)
    BY <2>1, <2>2, SomeStored, CountIs, CountNat
  <2>4. \A s \in stored : ~Reading(s, a)'
    BY <1>3, <1>5, Records DEF Reading
  <2>5. \A s \in stored : One(s, a)' = 0
    BY <2>4 DEF One
  <2> DEFINE Freed(s) == IF s \in stored THEN One(s, a) ELSE 0
  <2>6. ASSUME NEW s \in {"camera", "import", "run"} PROVE One(s, a)' + Freed(s) <= One(s, a)
    <3>1. One(s, a)' <= One(s, a) /\ One(s, a) \in Nat /\ One(s, a)' \in Nat
      BY <1>4, FewerOnes DEF One
    <3> QED
      BY <2>5, <3>1
  <2>7. ASSUME NEW s PROVE Freed(s) \in Nat
    BY DEF One
  <2>8. Count(a)' <= Count(a) + Freed("camera") + Freed("import") + Freed("run")
    BY <2>3
  <2> HIDE DEF Freed
  <2> QED
    BY <2>3, <2>6, <2>7, <2>8, OnesAre DEF Bound, Ones
<1> QED
  BY <1>1, <1>6 DEF Spends

LEMMA CalmSpends ==
  ASSUME PlaceInv, Calm, premium \subseteq premium', UNCHANGED together
  PROVE  Spends
<1>1. NoMore /\ UNCHANGED receipts
  BY DEF Calm, Quiet, NoMore
<1> QED
  BY <1>1, SameReceipts

LEMMA QuotaSteps ==
  ASSUME QuotaInv, [Next]_vars
  PROVE  QuotaInv'
<1>p. PlaceInv /\ PlaceInv'
  BY PlaceSteps DEF QuotaInv
<1>1. CASE \E s \in Slots : Check(s)
  BY <1>1, ChecksQuota
<1>2. CASE \E s \in Slots : Read(s)
  BY <1>p, <1>2, ReadsSpend, SpendsQuota
<1>3. CASE \E s \in Slots : Fails(s)
  BY <1>p, <1>3, ReadsSpend, SpendsQuota
<1>4. CASE Scanned \/ Imported \/ Uploaded
  BY <1>p, <1>4, EndsSpend, SpendsQuota
<1>5. CASE NextPhoto \/ \E p \in Photos : Picked(p)
  BY <1>p, <1>5, SendsSpend, SpendsQuota
<1>6. CASE (\E p \in Photos : Captured(p)) \/ UsePage
  BY <1>p, <1>6, CapturesSpend, UsesPageSpends, SpendsQuota
<1>7. CASE SignOut \/ Relaunch
  BY <1>p, <1>7, LeavingSpends, SpendsQuota
<1>8. CASE Calm /\ premium \subseteq premium' /\ UNCHANGED together
  BY <1>p, <1>8, CalmSpends, SpendsQuota
<1>9. CASE RunEffect \/ Retry \/ Foreground \/ RetryNow
  BY <1>p, <1>8, <1>9, EffectRuns, Retries, Returns, RetriesNow
     DEF RunEffect, Retry, Foreground, RetryNow, server
<1>10. CASE Allow \/ Decline \/ (\E here \in BOOLEAN : Withdraw(here)) \/ FetchMe
  BY <1>p, <1>8, <1>10, Allows, Declines, Withdraws, Fetches DEF Allow, Decline, Withdraw, FetchMe, server
<1>11. CASE OpenScanner \/ NoCapture \/ CancelPage \/ Import \/ NothingPicked
  BY <1>p, <1>8, <1>11, Opens, CapturesNothing, Cancels, ImportBegins, PicksNothing
     DEF OpenScanner, NoCapture, CancelPage, Import, ensureConsent, NothingPicked, server
<1>12. CASE \E p \in Photos : UploadNow(p) \/ DropPending(p)
  BY <1>p, <1>8, <1>12, RowGoes, Drops DEF UploadNow, DropPending, server
<1>13. CASE Background \/ (\E on \in BOOLEAN : Connect(on)) \/ Upgrade
  BY <1>p, <1>8, <1>13, Leaves DEF Background, Connect, Upgrade, server
<1>14. CASE \E a \in Accounts : SignIn(a)
  BY <1>p, <1>8, <1>14, SignsIn DEF SignIn, server
<1>15. CASE UNCHANGED vars
  <2>1. NoMore /\ UNCHANGED <<receipts, premium, together>>
    BY <1>15 DEF NoMore, vars, server
  <2> QED
    BY <1>p, <2>1, SameReceipts, SpendsQuota
<1> QED
  BY <1>1, <1>2, <1>3, <1>4, <1>5, <1>6, <1>7, <1>9, <1>10, <1>11, <1>12, <1>13, <1>14, <1>15
     DEF Next, Continuing, Serving

LEMMA QuotaInit ==
  ASSUME Init
  PROVE  QuotaInv
<1>1. PlaceInv
  BY PlaceInit
<1>2. ASSUME NEW a \in Accounts PROVE Bound(a) <= Quota + together[a]
  <2>1. Count(a) = 0
    <3>1. PICK f \in [Photos -> Nat] : f = receipts[a] /\ \A k \in Photos : f[k] = 0
      BY DEF Init
    <3>2. Total(f) = 0
      BY <3>1, TotalNone
    <3> QED
      BY <3>1, <3>2, CountIs
  <2>2. Ones(a) = 0
    BY Records DEF Init, Reading, Ones, One, Slots
  <2>3. together[a] = 0
    BY DEF Init
  <2> QED
    BY <2>1, <2>2, <2>3, CaptureAssumption DEF Bound
<1> QED
  BY <1>1, <1>2 DEF QuotaInv

(* A free account goes over its quota only when several of its scans were past *)
(* the count at once, and by no more than the others that were.                *)
THEOREM WithinQuotaUnlessAtOnce == Spec => []OverQuotaOnlyAtOnce
<1>1. Init => QuotaInv
  BY QuotaInit
<1>2. QuotaInv /\ [Next]_vars => QuotaInv'
  BY QuotaSteps
<1>3. QuotaInv => OverQuotaOnlyAtOnce
  <2>1. ASSUME QuotaInv, NEW a \in Accounts \ premium PROVE Count(a) <= Quota + together[a]
    <3>1. Count(a) \in Nat /\ Ones(a) \in Nat /\ Bound(a) <= Quota + together[a] /\ together[a] \in Nat
      BY <2>1, CountNat, OnesAre DEF QuotaInv, PlaceInv, TypeOK
    <3> QED
      BY <3>1, CaptureAssumption DEF Bound
  <2> QED
    BY <2>1 DEF OverQuotaOnlyAtOnce
<1> QED
  BY <1>1, <1>2, <1>3, PTL DEF Spec

=============================================================================
