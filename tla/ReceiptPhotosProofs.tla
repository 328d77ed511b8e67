------------------------ MODULE ReceiptPhotosProofs -------------------------
(***************************************************************************)
(* What the row locks and the order of files, rows and commit give, for    *)
(* any receipts, requests and purge runs.                                  *)
(***************************************************************************)
EXTENDS ReceiptPhotos, TLAPS

\* A scan that has not committed has no row, and has written the files it says.
ScanInv ==
  /\ \A r \in Receipt :
       /\ row[r].state # "none" \/ r \in wiped => scan[r] = "done"
       /\ scan[r] \in {"photo", "stored"} => <<r, "photo">> \in files
       /\ scan[r] = "stored" => <<r, "thumb">> \in files
  /\ \A p \in files : scan[p[1]] # "new"

\* What a run holds is past its cutoff, nobody else holds it, and its files
\* still there are those it has still to remove.
RunInv(w) ==
  /\ purge[w].pc \in {"idle", "select"} => purge[w].batch = {}
  /\ purge[w].pc # "idle" => purge[w].cutoff <= restore_cutoff(day)
  /\ purge[w].pc = "rows" => purge[w].todo = {}
  /\ purge[w].todo \subseteq Paths(purge[w].batch)
  /\ files \cap Paths(purge[w].batch) \subseteq purge[w].todo
  /\ \A r \in purge[w].batch :
       /\ Expired(r, purge[w].cutoff) /\ ~EraseLocks(r)
       /\ \A q \in Editor : ~EditLocks(q, r)
       /\ \A v \in Worker \ {w} : ~PurgeLocks(v, r)

\* The row a request has updated is there, and the deletion does not hold it.
EditInv(q) ==
  edit[q].pc = "updated" =>
    /\ edit[q].rcpt \in Rows /\ ~EraseLocks(edit[q].rcpt)
    /\ \A o \in Editor \ {q} : ~EditLocks(o, edit[q].rcpt)

\* The deletion of the account removes files of receipts it listed, and all of
\* them before it deletes a row.
EraseInv ==
  /\ erase.todo \subseteq Paths(wiped)
  /\ erase.pc = "rows" => erase.todo = {}
  /\ erase.pc # "none" => \A p \in files : p[1] \in wiped \cap Rows => p \in erase.todo

PhotosInv ==
  /\ TypeOK /\ ScanInv /\ EraseInv
  /\ \A w \in Worker : RunInv(w)
  /\ \A q \in Editor : EditInv(q)
  /\ FilesHaveRows /\ RestorableHasPhoto

\* Rows that runs hold, and files still to remove, are those of stored receipts.
LEMMA HeldIsStored ==
  ASSUME PhotosInv
  PROVE  /\ \A w \in Worker : \A r \in purge[w].batch :
              r \in Rows /\ scan[r] = "done" /\ Expired(r, restore_cutoff(day))
         /\ \A w \in Worker : \A p \in purge[w].todo : p[1] \in purge[w].batch
         /\ \A p \in erase.todo : p[1] \in wiped
<1>1. ASSUME NEW w \in Worker, NEW r \in purge[w].batch
      PROVE  r \in Rows /\ scan[r] = "done" /\ Expired(r, restore_cutoff(day))
  <2>1. /\ r \in Receipt /\ row[r].at \in Int /\ purge[w].cutoff \in Int
        /\ restore_cutoff(day) \in Int
    BY <1>1, PhotosAssumption DEF PhotosInv, TypeOK, RunType, ReceiptRow, Day, restore_cutoff
  <2>2. Expired(r, purge[w].cutoff) /\ purge[w].cutoff <= restore_cutoff(day)
    BY <1>1 DEF PhotosInv, TypeOK, RunType, RunInv
  <2>3. row[r].state = "deleted" /\ row[r].at < restore_cutoff(day)
    BY <2>1, <2>2 DEF Expired
  <2>4. scan[r] = "done"
    BY <2>1, <2>3 DEF PhotosInv, ScanInv
  <2> QED
    BY <2>1, <2>3, <2>4 DEF Expired, Rows
<1> QED
  BY <1>1 DEF PhotosInv, RunInv, EraseInv, Paths

-----------------------------------------------------------------------------
(* Every action keeps the invariant.                                       *)

LEMMA FlushKeeps ==
  ASSUME PhotosInv, NEW r \in Receipt, FlushReceipt(r)
  PROVE  PhotosInv'
<1> USE DEF PhotosInv, FlushReceipt, InScan
<1>1. TypeOK'
  BY PhotosAssumption DEF TypeOK, Path, Paths, EditType, RunType, EraseType, ReceiptRow, Day, InScan, Rows
<1>2. ScanInv'
  BY DEF TypeOK, ScanInv, InScan, Paths, Path
<1>3. EraseInv'
  BY DEF TypeOK, EraseInv, ScanInv, Rows, Paths, Path
<1>4. ASSUME NEW v \in Worker  PROVE RunInv(v)'
  BY DEF TypeOK, RunInv, EditInv, ScanInv, Rows, Paths, Path, Expired, EditLocks, PurgeLocks, EraseLocks
<1>5. ASSUME NEW o \in Editor  PROVE EditInv(o)'
  BY DEF TypeOK, RunInv, EditInv, ScanInv, Rows, EditType, EditLocks, PurgeLocks, EraseLocks
<1>6. FilesHaveRows'
  BY DEF TypeOK, FilesHaveRows, ScanInv, Rows, Path
<1>7. RestorableHasPhoto'
  BY DEF TypeOK, RestorableHasPhoto, ScanInv, Rows, Expired, File
<1> QED
  BY <1>1, <1>2, <1>3, <1>4, <1>5, <1>6, <1>7

LEMMA SavePhotoKeeps ==
  ASSUME PhotosInv, NEW r \in Receipt, SaveFile(r, "flushed", "photo", "photo")
  PROVE  PhotosInv'
<1> USE DEF PhotosInv, SaveFile, InScan, File
<1>a. /\ r \notin Rows /\ r \notin wiped
      /\ \A w \in Worker : r \notin purge[w].batch
  BY HeldIsStored DEF ScanInv, Rows
<1>b. /\ \A p \in files' : p \in files \/ p[1] = r
      /\ \A w \in Worker : files' \cap Paths(purge[w].batch) = files \cap Paths(purge[w].batch)
  BY <1>a DEF Paths
<1>1. TypeOK'
  BY PhotosAssumption DEF TypeOK, Path, Paths, EditType, RunType, EraseType, ReceiptRow, Day, InScan, Rows
<1>2. ScanInv'
  BY DEF TypeOK, ScanInv, InScan, Paths, Path
<1>3. EraseInv'
  BY <1>a, <1>b DEF TypeOK, EraseInv, Rows
<1>4. ASSUME NEW v \in Worker  PROVE RunInv(v)'
  BY <1>b DEF RunInv, Expired, EditLocks, PurgeLocks, EraseLocks
<1>5. ASSUME NEW o \in Editor  PROVE EditInv(o)'
  BY DEF TypeOK, RunInv, EditInv, ScanInv, Rows, EditType, EditLocks, PurgeLocks, EraseLocks
<1>6. FilesHaveRows'
  BY DEF TypeOK, FilesHaveRows, ScanInv, Rows, Path
<1>7. RestorableHasPhoto'
  BY DEF TypeOK, RestorableHasPhoto, ScanInv, Rows, Expired, File
<1> QED
  BY <1>1, <1>2, <1>3, <1>4, <1>5, <1>6, <1>7

LEMMA SaveThumbKeeps ==
  ASSUME PhotosInv, NEW r \in Receipt, SaveFile(r, "photo", "thumb", "stored")
  PROVE  PhotosInv'
<1> USE DEF PhotosInv, SaveFile, InScan, File
<1>a. /\ r \notin Rows /\ r \notin wiped
      /\ \A w \in Worker : r \notin purge[w].batch
  BY HeldIsStored DEF ScanInv, Rows
<1>b. /\ \A p \in files' : p \in files \/ p[1] = r
      /\ \A w \in Worker : files' \cap Paths(purge[w].batch) = files \cap Paths(purge[w].batch)
  BY <1>a DEF Paths
<1>1. TypeOK'
  BY PhotosAssumption DEF TypeOK, Path, Paths, EditType, RunType, EraseType, ReceiptRow, Day, InScan, Rows
<1>2. ScanInv'
  BY DEF TypeOK, ScanInv, InScan, Paths, Path
<1>3. EraseInv'
  BY <1>a, <1>b DEF TypeOK, EraseInv, Rows
<1>4. ASSUME NEW v \in Worker  PROVE RunInv(v)'
  BY <1>b DEF RunInv, Expired, EditLocks, PurgeLocks, EraseLocks
<1>5. ASSUME NEW o \in Editor  PROVE EditInv(o)'
  BY DEF TypeOK, RunInv, EditInv, ScanInv, Rows, EditType, EditLocks, PurgeLocks, EraseLocks
<1>6. FilesHaveRows'
  BY DEF TypeOK, FilesHaveRows, ScanInv, Rows, Path
<1>7. RestorableHasPhoto'
  BY DEF TypeOK, RestorableHasPhoto, ScanInv, Rows, Expired, File
<1> QED
  BY <1>1, <1>2, <1>3, <1>4, <1>5, <1>6, <1>7

LEMMA CommitScanKeeps ==
  ASSUME PhotosInv, NEW r \in Receipt, CommitScan(r)
  PROVE  PhotosInv'
<1> USE DEF PhotosInv, CommitScan, InScan, Live, File
<1>1. TypeOK'
  BY PhotosAssumption DEF TypeOK, Path, Paths, EditType, RunType, EraseType, ReceiptRow, Day, InScan, Rows
<1>2. ScanInv'
  BY DEF TypeOK, ScanInv, InScan, Paths, Path
<1>3. EraseInv'
  BY DEF TypeOK, EraseInv, ScanInv, Rows, Paths, Path
<1>4. ASSUME NEW v \in Worker  PROVE RunInv(v)'
  <2>1. r \notin purge[v].batch
    BY HeldIsStored
  <2> QED
    BY <2>1 DEF TypeOK, RunType, RunInv, Expired, EditLocks, PurgeLocks, EraseLocks
<1>5. ASSUME NEW o \in Editor  PROVE EditInv(o)'
  BY DEF TypeOK, RunInv, EditInv, ScanInv, Rows, EditType, EditLocks, PurgeLocks, EraseLocks
<1>6. FilesHaveRows'
  BY DEF TypeOK, FilesHaveRows, ScanInv, Rows, Path
<1>7. RestorableHasPhoto'
  BY DEF TypeOK, RestorableHasPhoto, ScanInv, Rows, Expired, File
<1> QED
  BY <1>1, <1>2, <1>3, <1>4, <1>5, <1>6, <1>7

LEMMA FailScanKeeps ==
  ASSUME PhotosInv, NEW r \in Receipt, FailScan(r)
  PROVE  PhotosInv'
<1> USE DEF PhotosInv, FailScan, InScan
<1>1. TypeOK'
  BY PhotosAssumption DEF TypeOK, Path, Paths, EditType, RunType, EraseType, ReceiptRow, Day, InScan, Rows
<1>2. ScanInv'
  BY DEF TypeOK, ScanInv, InScan, Paths, Path
<1>3. EraseInv'
  BY DEF TypeOK, EraseInv, ScanInv, Rows, Paths, Path
<1>4. ASSUME NEW v \in Worker  PROVE RunInv(v)'
  BY DEF TypeOK, RunInv, EditInv, ScanInv, Rows, Paths, Path, Expired, EditLocks, PurgeLocks, EraseLocks
<1>5. ASSUME NEW o \in Editor  PROVE EditInv(o)'
  BY DEF TypeOK, RunInv, EditInv, ScanInv, Rows, EditType, EditLocks, PurgeLocks, EraseLocks
<1>6. FilesHaveRows'
  BY DEF TypeOK, FilesHaveRows, ScanInv, Rows, Path
<1>7. RestorableHasPhoto'
  BY DEF TypeOK, RestorableHasPhoto, ScanInv, Rows, Expired, File
<1> QED
  BY <1>1, <1>2, <1>3, <1>4, <1>5, <1>6, <1>7

LEMMA ReadKeeps ==
  ASSUME PhotosInv, NEW q \in Editor, NEW r \in Receipt, SoftDelete(q, r) \/ Restore(q, r)
  PROVE  PhotosInv'
<1> USE DEF PhotosInv, SoftDelete, Restore, Read, Deleted, Live
<1>1. TypeOK'
  BY PhotosAssumption DEF TypeOK, Path, Paths, EditType, RunType, EraseType, ReceiptRow, Day, InScan, Rows
<1>2. ScanInv'
  BY DEF TypeOK, ScanInv, InScan, Paths, Path
<1>3. EraseInv'
  BY DEF TypeOK, EraseInv, ScanInv, Rows, Paths, Path
<1>4. ASSUME NEW v \in Worker  PROVE RunInv(v)'
  BY DEF TypeOK, RunInv, EditInv, ScanInv, Rows, Paths, Path, Expired, EditLocks, PurgeLocks, EraseLocks
<1>5. ASSUME NEW o \in Editor  PROVE EditInv(o)'
  BY DEF TypeOK, RunInv, EditInv, ScanInv, Rows, EditType, EditLocks, PurgeLocks, EraseLocks
<1>6. FilesHaveRows'
  BY DEF TypeOK, FilesHaveRows, ScanInv, Rows, Path
<1>7. RestorableHasPhoto'
  BY DEF TypeOK, RestorableHasPhoto, ScanInv, Rows, Expired, File
<1> QED
  BY <1>1, <1>2, <1>3, <1>4, <1>5, <1>6, <1>7

LEMMA UpdateKeeps ==
  ASSUME PhotosInv, NEW q \in Editor, UpdateRow(q)
  PROVE  PhotosInv'
<1> USE DEF PhotosInv, UpdateRow, RowFree, NoEdit
<1>1. TypeOK'
  BY PhotosAssumption DEF TypeOK, Path, Paths, EditType, RunType, EraseType, ReceiptRow, Day, InScan, Rows
<1>2. ScanInv'
  BY DEF TypeOK, ScanInv, InScan, Paths, Path
<1>3. EraseInv'
  BY DEF TypeOK, EraseInv, ScanInv, Rows, Paths, Path
<1>4. ASSUME NEW v \in Worker  PROVE RunInv(v)'
  BY DEF TypeOK, RunInv, EditInv, ScanInv, Rows, Paths, Path, Expired, EditLocks, PurgeLocks, EraseLocks
<1>5. ASSUME NEW o \in Editor  PROVE EditInv(o)'
  BY DEF TypeOK, RunInv, EditInv, ScanInv, Rows, EditType, EditLocks, PurgeLocks, EraseLocks
<1>6. FilesHaveRows'
  BY DEF TypeOK, FilesHaveRows, ScanInv, Rows, Path
<1>7. RestorableHasPhoto'
  BY DEF TypeOK, RestorableHasPhoto, ScanInv, Rows, Expired, File
<1> QED
  BY <1>1, <1>2, <1>3, <1>4, <1>5, <1>6, <1>7

LEMMA CommitEditKeeps ==
  ASSUME PhotosInv, NEW q \in Editor, CommitEdit(q)
  PROVE  PhotosInv'
<1> USE DEF PhotosInv, CommitEdit, NoEdit
<1> DEFINE r == edit[q].rcpt
<1>a. /\ r \in Rows /\ scan[r] = "done" /\ ~EraseLocks(r)
      /\ edit[q].to \in ReceiptRow /\ edit[q].to.state # "none"
  <2>1. edit[q].to \in ReceiptRow /\ edit[q].to.state # "none"
    BY DEF TypeOK, EditType, ReceiptRow
  <2>2. r \in Rows /\ ~EraseLocks(r)
    BY DEF EditInv
  <2> QED
    BY <2>1, <2>2 DEF ScanInv, Rows
<1>b. /\ Rows' = Rows /\ row'[r] = edit[q].to
      /\ \A s \in Receipt \ {r} : row'[s] = row[s]
  BY <1>a DEF TypeOK, Rows
<1>1. TypeOK'
  BY PhotosAssumption DEF TypeOK, Path, Paths, EditType, RunType, EraseType, ReceiptRow, Day, InScan, Rows
<1>2. ScanInv'
  BY <1>a, <1>b DEF ScanInv
<1>3. EraseInv'
  BY <1>b DEF EraseInv
<1>4. ASSUME NEW v \in Worker  PROVE RunInv(v)'
  BY DEF TypeOK, RunInv, EditInv, ScanInv, Rows, Paths, Path, Expired, EditLocks, PurgeLocks, EraseLocks
<1>5. ASSUME NEW o \in Editor  PROVE EditInv(o)'
  BY DEF TypeOK, RunInv, EditInv, ScanInv, Rows, EditType, EditLocks, PurgeLocks, EraseLocks
<1>6. FilesHaveRows'
  BY <1>b DEF FilesHaveRows
<1>7. RestorableHasPhoto'
  <2> SUFFICES ASSUME NEW s \in Rows \ (wiped \cup late'), ~Expired(s, restore_cutoff(day))',
                      NEW f \in File
               PROVE  <<s, f>> \in files
    BY <1>b DEF RestorableHasPhoto
  <2>1. ~Expired(s, restore_cutoff(day))
    BY <1>b DEF Expired, Rows
  <2> QED
    BY <2>1 DEF RestorableHasPhoto
<1> QED
  BY <1>1, <1>2, <1>3, <1>4, <1>5, <1>6, <1>7

LEMMA FailEditKeeps ==
  ASSUME PhotosInv, NEW q \in Editor, FailEdit(q)
  PROVE  PhotosInv'
<1> USE DEF PhotosInv, FailEdit, NoEdit
<1>1. TypeOK'
  BY PhotosAssumption DEF TypeOK, Path, Paths, EditType, RunType, EraseType, ReceiptRow, Day, InScan, Rows
<1>2. ScanInv'
  BY DEF TypeOK, ScanInv, InScan, Paths, Path
<1>3. EraseInv'
  BY DEF TypeOK, EraseInv, ScanInv, Rows, Paths, Path
<1>4. ASSUME NEW v \in Worker  PROVE RunInv(v)'
  BY DEF TypeOK, RunInv, EditInv, ScanInv, Rows, Paths, Path, Expired, EditLocks, PurgeLocks, EraseLocks
<1>5. ASSUME NEW o \in Editor  PROVE EditInv(o)'
  BY DEF TypeOK, RunInv, EditInv, ScanInv, Rows, EditType, EditLocks, PurgeLocks, EraseLocks
<1>6. FilesHaveRows'
  BY DEF TypeOK, FilesHaveRows, ScanInv, Rows, Path
<1>7. RestorableHasPhoto'
  BY DEF TypeOK, RestorableHasPhoto, ScanInv, Rows, Expired, File
<1> QED
  BY <1>1, <1>2, <1>3, <1>4, <1>5, <1>6, <1>7

LEMMA StartRunKeeps ==
  ASSUME PhotosInv, NEW w \in Worker, StartRun(w)
  PROVE  PhotosInv'
<1> USE DEF PhotosInv, StartRun, NoRun
<1>a. restore_cutoff(day) \in Int
  BY PhotosAssumption DEF TypeOK, Day, restore_cutoff
<1>1. TypeOK'
  <2>1. [NoRun EXCEPT !.pc = "select", !.cutoff = restore_cutoff(day)] \in RunType
    BY <1>a DEF RunType
  <2> QED
    BY <2>1 DEF TypeOK
<1>2. ScanInv'
  BY DEF TypeOK, ScanInv, InScan, Paths, Path
<1>3. EraseInv'
  BY DEF TypeOK, EraseInv, ScanInv, Rows, Paths, Path
<1>4. ASSUME NEW v \in Worker  PROVE RunInv(v)'
  <2>1. CASE v = w
    BY <1>a, <2>1 DEF TypeOK, RunInv, Paths, PurgeLocks
  <2>2. CASE v # w
    BY <2>2 DEF TypeOK, RunInv, Expired, EditLocks, PurgeLocks, EraseLocks
  <2> QED
    BY <2>1, <2>2
<1>5. ASSUME NEW o \in Editor  PROVE EditInv(o)'
  BY DEF TypeOK, RunInv, EditInv, ScanInv, Rows, EditType, EditLocks, PurgeLocks, EraseLocks
<1>6. FilesHaveRows'
  BY DEF TypeOK, FilesHaveRows, ScanInv, Rows, Path
<1>7. RestorableHasPhoto'
  BY DEF TypeOK, RestorableHasPhoto, ScanInv, Rows, Expired, File
<1> QED
  BY <1>1, <1>2, <1>3, <1>4, <1>5, <1>6, <1>7

LEMMA SelectKeeps ==
  ASSUME PhotosInv, NEW w \in Worker, SelectBatch(w)
  PROVE  PhotosInv'
<1> USE DEF PhotosInv, SelectBatch, RowFree, NoRun
<1>1. TypeOK'
  <2>1. PICK batch \in SUBSET Receipt :
          purge' = [purge EXCEPT ![w] =
                      IF batch = {} THEN NoRun
                      ELSE [@ EXCEPT !.pc = "files", !.batch = batch, !.todo = Paths(batch)]]
    OBVIOUS
  <2>2. Paths(batch) \in SUBSET Path
    BY DEF Paths, Path
  <2>3. NoRun \in RunType
    BY DEF RunType
  <2>4. [purge[w] EXCEPT !.pc = "files", !.batch = batch, !.todo = Paths(batch)] \in RunType
    BY <2>2 DEF TypeOK, RunType
  <2> QED
    BY <2>1, <2>3, <2>4 DEF TypeOK
<1>2. ScanInv'
  BY DEF TypeOK, ScanInv, InScan, Paths, Path
<1>3. EraseInv'
  BY DEF TypeOK, EraseInv, ScanInv, Rows, Paths, Path
<1>4. ASSUME NEW v \in Worker  PROVE RunInv(v)'
  BY DEF TypeOK, RunInv, EditInv, ScanInv, Rows, Paths, Path, Expired, EditLocks, PurgeLocks, EraseLocks
<1>5. ASSUME NEW o \in Editor  PROVE EditInv(o)'
  BY DEF TypeOK, RunInv, EditInv, ScanInv, Rows, EditType, EditLocks, PurgeLocks, EraseLocks
<1>6. FilesHaveRows'
  BY DEF TypeOK, FilesHaveRows, ScanInv, Rows, Path
<1>7. RestorableHasPhoto'
  BY DEF TypeOK, RestorableHasPhoto, ScanInv, Rows, Expired, File
<1> QED
  BY <1>1, <1>2, <1>3, <1>4, <1>5, <1>6, <1>7

LEMMA RemoveKeeps ==
  ASSUME PhotosInv, NEW w \in Worker, NEW p \in Path, RemoveFile(w, p)
  PROVE  PhotosInv'
<1> USE DEF PhotosInv, RemoveFile, NextOf
<1>a. /\ p[1] \in purge[w].batch /\ scan[p[1]] = "done"
      /\ Expired(p[1], restore_cutoff(day))
  BY HeldIsStored
<1>1. TypeOK'
  <2>1. purge'[w] \in RunType
    BY DEF TypeOK, RunType
  <2> QED
    BY <2>1 DEF TypeOK
<1>2. ScanInv'
  BY <1>a DEF TypeOK, ScanInv
<1>3. EraseInv'
  BY DEF TypeOK, EraseInv, ScanInv, Rows, Paths, Path
<1>4. ASSUME NEW v \in Worker  PROVE RunInv(v)'
  BY DEF TypeOK, RunInv, EditInv, ScanInv, Rows, Paths, Path, Expired, EditLocks, PurgeLocks, EraseLocks
<1>5. ASSUME NEW o \in Editor  PROVE EditInv(o)'
  BY DEF TypeOK, RunInv, EditInv, ScanInv, Rows, EditType, EditLocks, PurgeLocks, EraseLocks
<1>6. FilesHaveRows'
  BY DEF TypeOK, FilesHaveRows, ScanInv, Rows, Path
<1>7. RestorableHasPhoto'
  BY <1>a DEF RestorableHasPhoto, Rows, Expired
<1> QED
  BY <1>1, <1>2, <1>3, <1>4, <1>5, <1>6, <1>7

LEMMA LinesKeeps ==
  ASSUME PhotosInv, NEW w \in Worker, DeleteBatchLines(w)
  PROVE  PhotosInv'
<1> USE DEF PhotosInv, DeleteBatchLines
<1>1. TypeOK'
  <2>1. purge'[w] \in RunType
    BY DEF TypeOK, RunType
  <2> QED
    BY <2>1 DEF TypeOK
<1>2. ScanInv'
  BY DEF TypeOK, ScanInv, InScan, Paths, Path
<1>3. EraseInv'
  BY DEF TypeOK, EraseInv, ScanInv, Rows, Paths, Path
<1>4. ASSUME NEW v \in Worker  PROVE RunInv(v)'
  BY DEF TypeOK, RunInv, EditInv, ScanInv, Rows, Paths, Path, Expired, EditLocks, PurgeLocks, EraseLocks
<1>5. ASSUME NEW o \in Editor  PROVE EditInv(o)'
  BY DEF TypeOK, RunInv, EditInv, ScanInv, Rows, EditType, EditLocks, PurgeLocks, EraseLocks
<1>6. FilesHaveRows'
  BY DEF TypeOK, FilesHaveRows, ScanInv, Rows, Path
<1>7. RestorableHasPhoto'
  BY DEF TypeOK, RestorableHasPhoto, ScanInv, Rows, Expired, File
<1> QED
  BY <1>1, <1>2, <1>3, <1>4, <1>5, <1>6, <1>7

LEMMA CommitBatchKeeps ==
  ASSUME PhotosInv, NEW w \in Worker, CommitBatch(w)
  PROVE  PhotosInv'
<1> USE DEF PhotosInv, CommitBatch, Gone
<1>a. /\ \A v \in Worker \ {w} : \A r \in purge[v].batch : row'[r] = row[r]
      /\ \A r \in Receipt \ purge[w].batch : row'[r] = row[r]
      /\ \A p \in files : p[1] \notin purge[w].batch
  BY DEF TypeOK, RunType, RunInv, PurgeLocks, Paths, Path
<1>1. TypeOK'
  <2>1. purge'[w] \in RunType
    BY DEF TypeOK, RunType
  <2>2. row' \in [Receipt -> ReceiptRow]
    BY PhotosAssumption DEF TypeOK, ReceiptRow, Day
  <2> QED
    BY <2>1, <2>2 DEF TypeOK
<1>2. ScanInv'
  BY DEF TypeOK, ScanInv, InScan, Paths, Path
<1>3. EraseInv'
  BY DEF TypeOK, EraseInv, ScanInv, Rows, Paths, Path
<1>4. ASSUME NEW v \in Worker  PROVE RunInv(v)'
  <2>1. CASE v = w
    BY <2>1 DEF TypeOK, RunType, RunInv, Paths
  <2>2. CASE v # w
    BY <1>a, <2>2 DEF TypeOK, RunInv, Expired, EditLocks, PurgeLocks, EraseLocks
  <2> QED
    BY <2>1, <2>2
<1>5. ASSUME NEW o \in Editor  PROVE EditInv(o)'
  BY DEF TypeOK, RunInv, EditInv, ScanInv, Rows, EditType, EditLocks, PurgeLocks, EraseLocks
<1>6. FilesHaveRows'
  BY <1>a DEF TypeOK, FilesHaveRows, Rows, Path
<1>7. RestorableHasPhoto'
  BY DEF TypeOK, RestorableHasPhoto, ScanInv, Rows, Expired, File
<1> QED
  BY <1>1, <1>2, <1>3, <1>4, <1>5, <1>6, <1>7

LEMMA EndRunKeeps ==
  ASSUME PhotosInv, NEW w \in Worker, purge' = [purge EXCEPT ![w] = NoRun], crashes' \in 0 .. MaxCrashes,
         UNCHANGED <<day, account, row, files, scan, edit, erase, tries, wiped, late>>
  PROVE  PhotosInv'
<1> USE DEF PhotosInv, NoRun
<1>1. TypeOK'
  BY PhotosAssumption DEF TypeOK, Path, Paths, EditType, RunType, EraseType, ReceiptRow, Day, InScan, Rows
<1>2. ScanInv'
  BY DEF TypeOK, ScanInv, InScan, Paths, Path
<1>3. EraseInv'
  BY DEF TypeOK, EraseInv, ScanInv, Rows, Paths, Path
<1>4. ASSUME NEW v \in Worker  PROVE RunInv(v)'
  BY DEF TypeOK, RunInv, EditInv, ScanInv, Rows, Paths, Path, Expired, EditLocks, PurgeLocks, EraseLocks
<1>5. ASSUME NEW o \in Editor  PROVE EditInv(o)'
  BY DEF TypeOK, RunInv, EditInv, ScanInv, Rows, EditType, EditLocks, PurgeLocks, EraseLocks
<1>6. FilesHaveRows'
  BY DEF TypeOK, FilesHaveRows, ScanInv, Rows, Path
<1>7. RestorableHasPhoto'
  BY DEF TypeOK, RestorableHasPhoto, ScanInv, Rows, Expired, File
<1> QED
  BY <1>1, <1>2, <1>3, <1>4, <1>5, <1>6, <1>7

LEMMA ListKeeps ==
  ASSUME PhotosInv, ListReceipts
  PROVE  PhotosInv'
<1> USE DEF PhotosInv, ListReceipts, NoErase
<1>1. TypeOK'
  <2>1. Paths(Rows) \in SUBSET Path /\ Rows \in SUBSET Receipt
    BY DEF Paths, Path, Rows
  <2>2. erase' \in EraseType
    BY <2>1 DEF EraseType
  <2> QED
    BY <2>1, <2>2, PhotosAssumption DEF TypeOK
<1>2. ScanInv'
  BY DEF ScanInv, Rows
<1>3. EraseInv'
  BY DEF TypeOK, EraseInv, ScanInv, Rows, Paths, Path
<1>4. ASSUME NEW v \in Worker  PROVE RunInv(v)'
  BY DEF TypeOK, RunInv, EditInv, ScanInv, Rows, Paths, Path, Expired, EditLocks, PurgeLocks, EraseLocks
<1>5. ASSUME NEW o \in Editor  PROVE EditInv(o)'
  BY DEF TypeOK, RunInv, EditInv, ScanInv, Rows, EditType, EditLocks, PurgeLocks, EraseLocks
<1>6. FilesHaveRows'
  BY DEF TypeOK, FilesHaveRows, ScanInv, Rows, Path
<1>7. RestorableHasPhoto'
  BY DEF TypeOK, RestorableHasPhoto, ScanInv, Rows, Expired, File
<1> QED
  BY <1>1, <1>2, <1>3, <1>4, <1>5, <1>6, <1>7

LEMMA EraseFileKeeps ==
  ASSUME PhotosInv, NEW p \in Path, EraseFile(p)
  PROVE  PhotosInv'
<1> USE DEF PhotosInv, EraseFile, NextOf
<1>a. p[1] \in wiped /\ scan[p[1]] = "done"
  BY HeldIsStored DEF TypeOK, ScanInv
<1>1. TypeOK'
  BY PhotosAssumption DEF TypeOK, Path, Paths, EditType, RunType, EraseType, ReceiptRow, Day, InScan, Rows
<1>2. ScanInv'
  BY <1>a DEF TypeOK, ScanInv
<1>3. EraseInv'
  BY DEF TypeOK, EraseInv, ScanInv, Rows, Paths, Path
<1>4. ASSUME NEW v \in Worker  PROVE RunInv(v)'
  BY DEF TypeOK, RunInv, EditInv, ScanInv, Rows, Paths, Path, Expired, EditLocks, PurgeLocks, EraseLocks
<1>5. ASSUME NEW o \in Editor  PROVE EditInv(o)'
  BY DEF TypeOK, RunInv, EditInv, ScanInv, Rows, EditType, EditLocks, PurgeLocks, EraseLocks
<1>6. FilesHaveRows'
  BY DEF TypeOK, FilesHaveRows, ScanInv, Rows, Path
<1>7. RestorableHasPhoto'
  BY <1>a DEF RestorableHasPhoto, Rows, Expired
<1> QED
  BY <1>1, <1>2, <1>3, <1>4, <1>5, <1>6, <1>7

LEMMA EraseLinesKeeps ==
  ASSUME PhotosInv, EraseLines
  PROVE  PhotosInv'
<1> USE DEF PhotosInv, EraseLines
<1>1. TypeOK'
  BY PhotosAssumption DEF TypeOK, Path, Paths, EditType, RunType, EraseType, ReceiptRow, Day, InScan, Rows
<1>2. ScanInv'
  BY DEF TypeOK, ScanInv, InScan, Paths, Path
<1>3. EraseInv'
  BY DEF TypeOK, EraseInv, ScanInv, Rows, Paths, Path
<1>4. ASSUME NEW v \in Worker  PROVE RunInv(v)'
  BY DEF TypeOK, RunInv, EditInv, ScanInv, Rows, Paths, Path, Expired, EditLocks, PurgeLocks, EraseLocks
<1>5. ASSUME NEW o \in Editor  PROVE EditInv(o)'
  BY DEF TypeOK, RunInv, EditInv, ScanInv, Rows, EditType, EditLocks, PurgeLocks, EraseLocks
<1>6. FilesHaveRows'
  BY DEF TypeOK, FilesHaveRows, ScanInv, Rows, Path
<1>7. RestorableHasPhoto'
  BY DEF TypeOK, RestorableHasPhoto, ScanInv, Rows, Expired, File
<1> QED
  BY <1>1, <1>2, <1>3, <1>4, <1>5, <1>6, <1>7

LEMMA EraseRowKeeps ==
  ASSUME PhotosInv, NEW r \in Receipt, EraseRow(r)
  PROVE  PhotosInv'
<1> USE DEF PhotosInv, EraseRow, RowFree
<1>1. TypeOK'
  BY PhotosAssumption DEF TypeOK, Path, Paths, EditType, RunType, EraseType, ReceiptRow, Day, InScan, Rows
<1>2. ScanInv'
  BY DEF TypeOK, ScanInv, InScan, Paths, Path
<1>3. EraseInv'
  BY DEF TypeOK, EraseInv, ScanInv, Rows, Paths, Path
<1>4. ASSUME NEW v \in Worker  PROVE RunInv(v)'
  BY DEF TypeOK, RunInv, EditInv, ScanInv, Rows, Paths, Path, Expired, EditLocks, PurgeLocks, EraseLocks
<1>5. ASSUME NEW o \in Editor  PROVE EditInv(o)'
  BY DEF TypeOK, RunInv, EditInv, ScanInv, Rows, EditType, EditLocks, PurgeLocks, EraseLocks
<1>6. FilesHaveRows'
  BY DEF TypeOK, FilesHaveRows, ScanInv, Rows, Path
<1>7. RestorableHasPhoto'
  BY DEF TypeOK, RestorableHasPhoto, ScanInv, Rows, Expired, File
<1> QED
  BY <1>1, <1>2, <1>3, <1>4, <1>5, <1>6, <1>7

LEMMA EndEraseKeeps ==
  ASSUME PhotosInv, erase' = NoErase,
         UNCHANGED <<day, account, row, files, scan, edit, purge, crashes, tries, wiped, late>>
  PROVE  PhotosInv'
<1> USE DEF PhotosInv, NoErase
<1>1. TypeOK'
  BY PhotosAssumption DEF TypeOK, Path, Paths, EditType, RunType, EraseType, ReceiptRow, Day, InScan, Rows
<1>2. ScanInv'
  BY DEF TypeOK, ScanInv, InScan, Paths, Path
<1>3. EraseInv'
  BY DEF TypeOK, EraseInv, ScanInv, Rows, Paths, Path
<1>4. ASSUME NEW v \in Worker  PROVE RunInv(v)'
  BY DEF TypeOK, RunInv, EditInv, ScanInv, Rows, Paths, Path, Expired, EditLocks, PurgeLocks, EraseLocks
<1>5. ASSUME NEW o \in Editor  PROVE EditInv(o)'
  BY DEF TypeOK, RunInv, EditInv, ScanInv, Rows, EditType, EditLocks, PurgeLocks, EraseLocks
<1>6. FilesHaveRows'
  BY DEF TypeOK, FilesHaveRows, ScanInv, Rows, Path
<1>7. RestorableHasPhoto'
  BY DEF TypeOK, RestorableHasPhoto, ScanInv, Rows, Expired, File
<1> QED
  BY <1>1, <1>2, <1>3, <1>4, <1>5, <1>6, <1>7

LEMMA EraseUserKeeps ==
  ASSUME PhotosInv, EraseUser
  PROVE  PhotosInv'
<1> USE DEF PhotosInv, EraseUser
<1>1. CASE ~(Rows \subseteq erase.gone)
  BY <1>1, EndEraseKeeps
<1>2. CASE Rows \subseteq erase.gone
  <2>1. /\ Rows' = {} /\ ~account' /\ row' = [r \in Receipt |-> Gone] /\ erase' = NoErase
        /\ \A w \in Worker : purge[w].batch = {}
        /\ \A q \in Editor : edit[q].pc # "updated"
    <3>1. ASSUME NEW w \in Worker, NEW r \in purge[w].batch  PROVE FALSE
      BY <1>2, HeldIsStored DEF RunInv, EraseLocks
    <3>2. ASSUME NEW q \in Editor, edit[q].pc = "updated"  PROVE FALSE
      BY <1>2, <3>2 DEF EditInv, EraseLocks
    <3> QED
      BY <1>2, <3>1, <3>2 DEF Rows, Gone
  <2>2. TypeOK'
    <3>1. erase' \in EraseType
      BY <2>1 DEF EraseType, NoErase
    <3>2. row' \in [Receipt -> ReceiptRow]
      BY <2>1, PhotosAssumption DEF ReceiptRow, Day, Gone
    <3> QED
      BY <2>1, <3>1, <3>2 DEF TypeOK
  <2>3. ScanInv'
    BY <2>1 DEF ScanInv, Gone
  <2>4. EraseInv'
    BY <2>1 DEF EraseInv, NoErase
  <2>5. ASSUME NEW v \in Worker  PROVE RunInv(v)'
    BY <2>1 DEF RunInv
  <2>6. ASSUME NEW o \in Editor  PROVE EditInv(o)'
    BY <2>1 DEF EditInv
  <2>7. FilesHaveRows'
    <3>1. \A p \in files : ~(p[1] \in wiped \cap Rows)
      BY DEF EraseInv
    <3> QED
      BY <2>1, <3>1 DEF FilesHaveRows
  <2>8. RestorableHasPhoto'
    BY <2>1 DEF RestorableHasPhoto
  <2> QED
    BY <2>2, <2>3, <2>4, <2>5, <2>6, <2>7, <2>8
<1> QED
  BY <1>1, <1>2

LEMMA NextDayKeeps ==
  ASSUME PhotosInv, NextDay
  PROVE  PhotosInv'
<1> USE DEF PhotosInv, NextDay, restore_cutoff
<1>1. TypeOK'
  BY PhotosAssumption DEF TypeOK, Path, Paths, EditType, RunType, EraseType, ReceiptRow, Day, InScan, Rows
<1>2. ScanInv'
  BY DEF TypeOK, ScanInv, InScan, Paths, Path
<1>3. EraseInv'
  BY DEF TypeOK, EraseInv, ScanInv, Rows, Paths, Path
<1>4. ASSUME NEW v \in Worker  PROVE RunInv(v)'
  <2>1. day \in Int /\ RESTORE_WINDOW \in Int /\ purge[v].cutoff \in Int
    BY PhotosAssumption DEF TypeOK, Day, RunType
  <2> QED
    BY <2>1 DEF RunInv, Expired, EditLocks, PurgeLocks, EraseLocks
<1>5. ASSUME NEW o \in Editor  PROVE EditInv(o)'
  BY DEF TypeOK, RunInv, EditInv, ScanInv, Rows, EditType, EditLocks, PurgeLocks, EraseLocks
<1>6. FilesHaveRows'
  BY DEF TypeOK, FilesHaveRows, ScanInv, Rows, Path
<1>7. RestorableHasPhoto'
  <2>1. ASSUME NEW r \in Receipt, Expired(r, restore_cutoff(day))
        PROVE  Expired(r, restore_cutoff(day))'
    <3>1. day \in Int /\ RESTORE_WINDOW \in Int /\ row[r].at \in Int
      BY PhotosAssumption DEF TypeOK, Day, ReceiptRow
    <3> QED
      BY <2>1, <3>1 DEF Expired
  <2> QED
    BY <2>1 DEF RestorableHasPhoto, Rows
<1> QED
  BY <1>1, <1>2, <1>3, <1>4, <1>5, <1>6, <1>7

-----------------------------------------------------------------------------
(* The theorems.                                                           *)

LEMMA InitHolds ==
  ASSUME Init  PROVE PhotosInv
<1> USE DEF Init, Live, Gone, NoEdit, NoRun, NoErase
<1>1. TypeOK
  <2>1. Paths(Stored) \subseteq Path
    BY PhotosAssumption DEF Paths, Path
  <2>2. /\ row \in [Receipt -> ReceiptRow]
        /\ scan \in [Receipt -> InScan \cup {"new", "done", "failed"}]
    BY PhotosAssumption DEF ReceiptRow, Day
  <2>3. /\ edit \in [Editor -> EditType] /\ purge \in [Worker -> RunType]
        /\ erase \in EraseType
    BY DEF EditType, RunType, EraseType
  <2> QED
    BY <2>1, <2>2, <2>3, PhotosAssumption DEF TypeOK, Day
<1>2. ScanInv
  BY PhotosAssumption DEF ScanInv, Paths, File
<1>3. EraseInv
  BY DEF EraseInv, Paths
<1>4. ASSUME NEW w \in Worker  PROVE RunInv(w)
  BY DEF RunInv, Paths
<1>5. ASSUME NEW q \in Editor  PROVE EditInv(q)
  BY DEF EditInv
<1>6. FilesHaveRows
  BY PhotosAssumption DEF FilesHaveRows, Paths, Rows
<1>7. RestorableHasPhoto
  BY PhotosAssumption DEF RestorableHasPhoto, Paths, Rows
<1> QED
  BY <1>1, <1>2, <1>3, <1>4, <1>5, <1>6, <1>7 DEF PhotosInv

LEMMA StutterKeeps ==
  ASSUME PhotosInv, UNCHANGED vars  PROVE PhotosInv'
<1> USE DEF vars, PhotosInv
<1>1. TypeOK' /\ ScanInv' /\ EraseInv' /\ FilesHaveRows' /\ RestorableHasPhoto'
  BY DEF TypeOK, ScanInv, EraseInv, Rows, FilesHaveRows, RestorableHasPhoto, Expired
<1>2. ASSUME NEW w \in Worker  PROVE RunInv(w)'
  BY DEF RunInv, Expired, EraseLocks, EditLocks, PurgeLocks
<1>3. ASSUME NEW q \in Editor  PROVE EditInv(q)'
  BY DEF EditInv, Rows, EraseLocks, EditLocks
<1> QED
  BY <1>1, <1>2, <1>3

LEMMA NextKeeps ==
  ASSUME PhotosInv, [Next]_vars  PROVE PhotosInv'
<1>1. ASSUME NEW r \in Receipt, Scan(r)  PROVE PhotosInv'
  BY <1>1, FlushKeeps, SavePhotoKeeps, SaveThumbKeeps, CommitScanKeeps, FailScanKeeps DEF Scan
<1>2. ASSUME NEW q \in Editor, Edit(q)  PROVE PhotosInv'
  BY <1>2, ReadKeeps, UpdateKeeps, CommitEditKeeps, FailEditKeeps DEF Edit
<1>3. ASSUME NEW w \in Worker, PurgeStep(w)  PROVE PhotosInv'
  BY <1>3, StartRunKeeps, SelectKeeps, RemoveKeeps, LinesKeeps, CommitBatchKeeps DEF PurgeStep
<1>4. ASSUME NEW w \in Worker, CrashRun(w)  PROVE PhotosInv'
  <2>1. crashes' \in 0 .. MaxCrashes
    BY <1>4, PhotosAssumption DEF CrashRun, PhotosInv, TypeOK
  <2> QED
    BY <1>4, <2>1, EndRunKeeps DEF CrashRun
<1>5. ASSUME NEW w \in Worker, BreakDeadlock(w)  PROVE PhotosInv'
  <2>1. crashes \in 0 .. MaxCrashes
    BY DEF PhotosInv, TypeOK
  <2>2. CASE purge' = [purge EXCEPT ![w] = NoRun] /\ UNCHANGED erase
    BY <1>5, <2>1, <2>2, EndRunKeeps DEF BreakDeadlock
  <2>3. CASE erase' = NoErase /\ UNCHANGED purge
    BY <1>5, <2>3, EndEraseKeeps DEF BreakDeadlock
  <2> QED
    BY <1>5, <2>2, <2>3 DEF BreakDeadlock
<1>6. ASSUME EraseStep  PROVE PhotosInv'
  BY <1>6, ListKeeps, EraseFileKeeps, EraseLinesKeeps, EraseRowKeeps, EraseUserKeeps DEF EraseStep
<1>7. ASSUME FailErase  PROVE PhotosInv'
  BY <1>7, EndEraseKeeps DEF FailErase
<1> QED
  BY <1>1, <1>2, <1>3, <1>4, <1>5, <1>6, <1>7, NextDayKeeps, StutterKeeps DEF Next

LEMMA AlwaysPhotosInv == Spec => []PhotosInv
<1>1. Init => PhotosInv
  BY InitHolds
<1>2. PhotosInv /\ [Next]_vars => PhotosInv'
  BY NextKeeps
<1> QED
  BY <1>1, <1>2, PTL DEF Spec

\* Rows, files and transactions keep their shape.
THEOREM TypesHold == Spec => []TypeOK
<1>1. PhotosInv => TypeOK
  BY DEF PhotosInv
<1> QED
  BY <1>1, AlwaysPhotosInv, PTL

\* No purge run, dead or alive, leaves a file without its row, and a deletion of
\* the account leaves none of the receipts it listed (purge_tasks, delete_account).
THEOREM NoFileLeftBehind == Spec => []FilesHaveRows
<1>1. PhotosInv => FilesHaveRows
  BY DEF PhotosInv
<1> QED
  BY <1>1, AlwaysPhotosInv, PTL

\* A receipt that can be seen or restored keeps its photo and thumbnail through
\* any purge runs and crashes (restore_cutoff read by both sides).
THEOREM PhotosStay == Spec => []RestorableHasPhoto
<1>1. PhotosInv => RestorableHasPhoto
  BY DEF PhotosInv
<1> QED
  BY <1>1, AlwaysPhotosInv, PTL

\* A row is in a purge's batch only while it is deleted and past its window, so
\* nothing that can be restored is erased (_purge_receipt_batch's row locks).
THEOREM OnlyExpiredAreErased == Spec => OnlyExpiredErased
<1> DEFINE Erased == \A r \in Receipt :
             row[r].state # "none" /\ row'[r].state = "none"
             => ~account' \/ Expired(r, restore_cutoff(day))
<1>1. ASSUME PhotosInv, [Next]_vars  PROVE [Erased]_vars
  <2> SUFFICES ASSUME NEW r \in Receipt, row[r].state # "none", row'[r].state = "none"
               PROVE  ~account' \/ Expired(r, restore_cutoff(day))
    OBVIOUS
  <2>1. ASSUME NEW s \in Receipt, CommitScan(s)  PROVE FALSE
    BY <2>1 DEF PhotosInv, TypeOK, CommitScan, Live
  <2>2. ASSUME NEW q \in Editor, CommitEdit(q)  PROVE FALSE
    <3>1. edit[q].to.state # "none" /\ edit[q].rcpt \in Receipt
      <4>1. edit[q] \in EditType /\ edit[q].pc = "updated"
        BY <1>1, <2>2 DEF PhotosInv, TypeOK, CommitEdit
      <4> QED
        BY <4>1 DEF EditType, NoEdit
    <3> QED
      BY <2>2, <3>1 DEF PhotosInv, TypeOK, CommitEdit
  <2>3. ASSUME NEW w \in Worker, CommitBatch(w)  PROVE Expired(r, restore_cutoff(day))
    <3>1. r \in purge[w].batch
      BY <2>3 DEF CommitBatch
    <3> QED
      BY <1>1, <3>1, HeldIsStored
  <2>4. CASE EraseUser
    BY <2>4 DEF EraseUser
  <2>5. CASE UNCHANGED row
    BY <2>5
  <2> QED
    BY <1>1, <2>1, <2>2, <2>3, <2>4, <2>5 DEF Next, vars, Scan, FlushReceipt, SaveFile,
       FailScan, Edit, SoftDelete, Restore, Read, UpdateRow, FailEdit, PurgeStep, StartRun,
       SelectBatch, RemoveFile, DeleteBatchLines, CrashRun, BreakDeadlock, EraseStep,
       ListReceipts, EraseFile, EraseLines, EraseRow, FailErase, NextDay
<1> QED
  BY <1>1, AlwaysPhotosInv, PTL DEF Spec, OnlyExpiredErased
=============================================================================
