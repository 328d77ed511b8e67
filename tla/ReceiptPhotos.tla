--------------------------- MODULE ReceiptPhotos ----------------------------
(***************************************************************************)
(* A user's receipts and the image files they have on disk: scans store    *)
(* them, requests delete and restore receipts, the daily purge erases the  *)
(* receipts whose restore window has passed, and account deletion erases   *)
(* all of them.  The files are in no transaction: whoever removes one and  *)
(* then dies or rolls back has removed it for good.                        *)
(*                                                                         *)
(* row holds the COMMITTED receipts.  A transaction that has updated,      *)
(* locked or deleted a row holds its lock until it ends.                   *)
(***************************************************************************)
EXTENDS Integers, FiniteSets

CONSTANTS
  Receipt,
  Stored,      \* the receipts that are stored at the start
  Editor,      \* requests that soft-delete or restore a receipt
  Worker,      \* Celery workers, each on a run of the purge
  RESTORE_WINDOW, BATCH_SIZE,
  LastDay,     \* bound on time
  MaxCrashes,  \* bound on the purge runs that die
  MaxTries     \* bound on the attempts to delete the account

File == {"photo", "thumb"}
Path == Receipt \X File
Day == 0 .. LastDay
ReceiptRow == [state : {"none", "live", "deleted"}, at : Day]

ASSUME PhotosAssumption ==
  /\ Stored \subseteq Receipt /\ IsFiniteSet(Receipt)
  /\ RESTORE_WINDOW \in Nat /\ BATCH_SIZE \in Nat \ {0} /\ LastDay \in Nat
  /\ MaxCrashes \in Nat /\ MaxTries \in Nat

VARIABLES
  day,
  account,  \* the users row exists
  row,      \* receipts rows, with the day of their deleted_at
  files,    \* the image files there are
  scan,     \* where the scan of each receipt stands
  edit,     \* the requests
  purge,    \* the purge runs
  erase,    \* the deletion of the account
  crashes, tries,
  wiped,    \* receipts whose files a deletion of the account set out to remove
  late      \* receipts restored by a request that read them within the window
            \* and committed after it

vars == <<day, account, row, files, scan, edit, purge, erase, crashes, tries, wiped, late>>

-----------------------------------------------------------------------------
Gone == [state |-> "none", at |-> 0]
Live == [state |-> "live", at |-> 0]
\* Variant: the row keeps the day it expires.
DeletedUntil == [state |-> "deleted", at |-> day + RESTORE_WINDOW]
Deleted == [state |-> "deleted", at |-> day]

restore_cutoff(now) == now - RESTORE_WINDOW
Expired(r, cutoff) == row[r].state = "deleted" /\ row[r].at < cutoff

Rows == {r \in Receipt : row[r].state # "none"}
\* Variant: the thumbnail is forgotten.
PhotosOf(rs) == rs \X {"photo"}
Paths(rs) == rs \X File
\* The photo goes before its thumbnail.
NextOf(paths) == {p \in paths : p[2] = "thumb" => <<p[1], "photo">> \notin paths}

NoEdit == [pc |-> "idle", to |-> Gone]
NoRun == [pc |-> "idle", cutoff |-> 0, batch |-> {}, todo |-> {}]
NoErase == [pc |-> "none", todo |-> {}, lined |-> {}, gone |-> {}]

EditLocks(q, r) == edit[q].pc = "updated" /\ edit[q].rcpt = r
PurgeLocks(w, r) == r \in purge[w].batch
EraseLocks(r) == r \in erase.gone
\* No transaction but editor q's own holds the row.
RowFree(r) == /\ \A q \in Editor : ~EditLocks(q, r)
              /\ \A w \in Worker : ~PurgeLocks(w, r)
              /\ ~EraseLocks(r)

-----------------------------------------------------------------------------
(* Scans (POST /receipts/scan).  The row is flushed, the files are written, *)
(* and the commit comes last.                                              *)

InScan == {"flushed", "photo", "stored"}

\* The new row shares a lock on the users row, so it needs the account.
FlushReceipt(r) ==
  /\ scan[r] = "new" /\ account
  /\ scan' = [scan EXCEPT ![r] = "flushed"]
  /\ UNCHANGED <<day, account, row, files, edit, purge, erase, crashes, tries, wiped, late>>

SaveFile(r, from, file, to) ==
  /\ scan[r] = from
  /\ files' = files \cup {<<r, file>>}
  /\ scan' = [scan EXCEPT ![r] = to]
  /\ UNCHANGED <<day, account, row, edit, purge, erase, crashes, tries, wiped, late>>

\* Variant: a scan whose thumbnail fails is stored without it.
CommitScanEarly(r) ==
  /\ scan[r] \in {"photo", "stored"}
  /\ row' = [row EXCEPT ![r] = Live]
  /\ scan' = [scan EXCEPT ![r] = "done"]
  /\ UNCHANGED <<day, account, files, edit, purge, erase, crashes, tries, wiped, late>>

CommitScan(r) ==
  /\ scan[r] = "stored"
  /\ row' = [row EXCEPT ![r] = Live]
  /\ scan' = [scan EXCEPT ![r] = "done"]
  /\ UNCHANGED <<day, account, files, edit, purge, erase, crashes, tries, wiped, late>>

\* A confidence below 0.3, an error or a death after the flush rolls the row
\* back and leaves the files there are.
FailScan(r) ==
  /\ scan[r] \in InScan
  /\ scan' = [scan EXCEPT ![r] = "failed"]
  /\ UNCHANGED <<day, account, row, files, edit, purge, erase, crashes, tries, wiped, late>>

Scan(r) == \/ FlushReceipt(r)
           \/ SaveFile(r, "flushed", "photo", "photo")
           \/ SaveFile(r, "photo", "thumb", "stored")
           \/ CommitScan(r)
           \/ FailScan(r)

-----------------------------------------------------------------------------
(* Recently Deleted (soft_delete_receipt, restore_receipt): the row is read *)
(* without a lock, and whether it may change is decided from that read.    *)

Read(q, r, to) ==
  /\ edit[q].pc = "idle" /\ account
  /\ edit' = [edit EXCEPT ![q] = [pc |-> "read", rcpt |-> r, to |-> to]]
  /\ UNCHANGED <<day, account, row, files, scan, purge, erase, crashes, tries, wiped, late>>

SoftDelete(q, r) == row[r].state = "live" /\ Read(q, r, Deleted)

Restore(q, r) ==
  /\ row[r].state = "deleted" /\ ~Expired(r, restore_cutoff(day))
  /\ Read(q, r, Live)

\* The UPDATE waits for the row; a row that is gone by then fails the request.
UpdateRow(q) ==
  /\ edit[q].pc = "read" /\ RowFree(edit[q].rcpt)
  /\ edit' = [edit EXCEPT ![q] = IF row[@.rcpt].state = "none" THEN NoEdit
                                 ELSE [@ EXCEPT !.pc = "updated"]]
  /\ UNCHANGED <<day, account, row, files, scan, purge, erase, crashes, tries, wiped, late>>

CommitEdit(q) ==
  /\ edit[q].pc = "updated"
  /\ row' = [row EXCEPT ![edit[q].rcpt] = edit[q].to]
  /\ late' = late \cup {r \in {edit[q].rcpt} : Expired(r, restore_cutoff(day))}
  /\ edit' = [edit EXCEPT ![q] = NoEdit]
  /\ UNCHANGED <<day, account, files, scan, purge, erase, crashes, tries, wiped>>

\* An error, or a death of the API, rolls back.
FailEdit(q) ==
  /\ edit[q].pc # "idle"
  /\ edit' = [edit EXCEPT ![q] = NoEdit]
  /\ UNCHANGED <<day, account, row, files, scan, purge, erase, crashes, tries, wiped, late>>

Edit(q) == \/ \E r \in Receipt : SoftDelete(q, r) \/ Restore(q, r)
           \/ UpdateRow(q) \/ CommitEdit(q) \/ FailEdit(q)

-----------------------------------------------------------------------------
(* The purge (purge_expired_deletions). *)

\* Variant: the last day of the window is past it already.
StartRunEarly(w) ==
  /\ purge[w].pc = "idle"
  /\ purge' = [purge EXCEPT ![w] = [NoRun EXCEPT !.pc = "select",
                                                 !.cutoff = restore_cutoff(day) + 1]]
  /\ UNCHANGED <<day, account, row, files, scan, edit, erase, crashes, tries, wiped, late>>

StartRun(w) ==
  /\ purge[w].pc = "idle"
  /\ purge' = [purge EXCEPT ![w] = [NoRun EXCEPT !.pc = "select",
                                                 !.cutoff = restore_cutoff(day)]]
  /\ UNCHANGED <<day, account, row, files, scan, edit, erase, crashes, tries, wiped, late>>

\* The oldest rows past the cutoff that nobody holds; with none, the run ends.
SelectBatch(w) ==
  /\ purge[w].pc = "select"
  /\ LET past == {r \in Receipt : Expired(r, purge[w].cutoff) /\ RowFree(r)} IN
     \E batch \in SUBSET past :
       /\ Cardinality(batch) <= BATCH_SIZE
       /\ Cardinality(batch) < BATCH_SIZE => batch = past
       /\ \A r \in batch, s \in past \ batch : row[r].at <= row[s].at
       /\ purge' = [purge EXCEPT ![w] =
                      IF batch = {} THEN NoRun
                      ELSE [@ EXCEPT !.pc = "files", !.batch = batch, !.todo = Paths(batch)]]
  /\ UNCHANGED <<day, account, row, files, scan, edit, erase, crashes, tries, wiped, late>>

\* Variant: a file that is missing stops the run.
RemoveFileThere(w, p) ==
  /\ purge[w].pc = "files" /\ p \in NextOf(purge[w].todo) \cap files
  /\ files' = files \ {p}
  /\ purge' = [purge EXCEPT ![w].todo = @ \ {p}]
  /\ UNCHANGED <<day, account, row, scan, edit, erase, crashes, tries, wiped, late>>

RemoveFile(w, p) ==
  /\ purge[w].pc = "files" /\ p \in NextOf(purge[w].todo)
  /\ files' = files \ {p}
  /\ purge' = [purge EXCEPT ![w].todo = @ \ {p}]
  /\ UNCHANGED <<day, account, row, scan, edit, erase, crashes, tries, wiped, late>>

\* The lines of its receipts are deleted by a deletion of the account that may
\* still roll back: the delete of the lines waits for it.
LinesHeld(w) == erase.pc = "rows" /\ erase.lined \cap purge[w].batch # {}

DeleteBatchLines(w) ==
  /\ purge[w].pc = "files" /\ purge[w].todo = {} /\ ~LinesHeld(w)
  /\ purge' = [purge EXCEPT ![w].pc = "rows"]
  /\ UNCHANGED <<day, account, row, files, scan, edit, erase, crashes, tries, wiped, late>>

CommitBatch(w) ==
  /\ purge[w].pc = "rows"
  /\ row' = [r \in Receipt |-> IF r \in purge[w].batch THEN Gone ELSE row[r]]
  /\ purge' = [purge EXCEPT ![w].pc = "select", ![w].batch = {}]
  /\ UNCHANGED <<day, account, files, scan, edit, erase, crashes, tries, wiped, late>>

\* The run dies: its rows roll back, the files it removed stay removed.
CrashRun(w) ==
  /\ purge[w].pc # "idle" /\ crashes < MaxCrashes
  /\ purge' = [purge EXCEPT ![w] = NoRun]
  /\ crashes' = crashes + 1
  /\ UNCHANGED <<day, account, row, files, scan, edit, erase, tries, wiped, late>>

PurgeStep(w) == \/ StartRun(w) \/ SelectBatch(w)
                \/ \E p \in Path : RemoveFile(w, p)
                \/ DeleteBatchLines(w) \/ CommitBatch(w)

-----------------------------------------------------------------------------
(* Account deletion (delete_account): files first, then every row in one    *)
(* transaction, children before parents.                                   *)

ListReceipts ==
  /\ erase.pc = "none" /\ account /\ tries < MaxTries
  /\ tries' = tries + 1
  /\ erase' = [NoErase EXCEPT !.pc = "files", !.todo = Paths(Rows)]
  /\ wiped' = wiped \cup Rows
  /\ UNCHANGED <<day, account, row, files, scan, edit, purge, crashes, late>>

EraseFile(p) ==
  /\ erase.pc = "files" /\ p \in NextOf(erase.todo)
  /\ files' = files \ {p}
  /\ erase' = [erase EXCEPT !.todo = @ \ {p}]
  /\ UNCHANGED <<day, account, row, scan, edit, purge, crashes, tries, wiped, late>>

\* The lines of the receipts there are by now; a purge that has deleted some is
\* waited for.
EraseLines ==
  /\ erase.pc = "files" /\ erase.todo = {}
  /\ \A w \in Worker : purge[w].pc # "rows"
  /\ erase' = [erase EXCEPT !.pc = "rows", !.lined = Rows]
  /\ UNCHANGED <<day, account, row, files, scan, edit, purge, crashes, tries, wiped, late>>

EraseRow(r) ==
  /\ erase.pc = "rows" /\ r \in erase.lined \ erase.gone /\ RowFree(r)
  /\ erase' = [erase EXCEPT !.gone = @ \cup {r}]
  /\ UNCHANGED <<day, account, row, files, scan, edit, purge, crashes, tries, wiped, late>>

\* The delete of the users row comes last and waits for the scans that share a
\* lock on it.  A receipt stored since its lines could be deleted fails the
\* deletion: its lines still name it, or it names the user.
EraseUser ==
  /\ erase.pc = "rows" /\ erase.gone = erase.lined
  /\ \A r \in Receipt : scan[r] \notin InScan
  /\ IF Rows \subseteq erase.gone
     THEN /\ account' = FALSE
          /\ row' = [r \in Receipt |-> Gone]
     ELSE UNCHANGED <<account, row>>
  /\ erase' = NoErase
  /\ UNCHANGED <<day, files, scan, edit, purge, crashes, tries, wiped, late>>

\* An error or a death rolls back; the files it removed stay removed.
FailErase ==
  /\ erase.pc # "none"
  /\ erase' = NoErase
  /\ UNCHANGED <<day, account, row, files, scan, edit, purge, crashes, tries, wiped, late>>

EraseStep == \/ ListReceipts \/ \E p \in Path : EraseFile(p)
             \/ EraseLines \/ (\E r \in Receipt : EraseRow(r)) \/ EraseUser

\* The deletion holds lines of a receipt whose row the purge holds, and each
\* waits for the other: PostgreSQL fails one of the two.
BreakDeadlock(w) ==
  /\ purge[w].pc = "files" /\ purge[w].todo = {} /\ LinesHeld(w)
  /\ \/ purge' = [purge EXCEPT ![w] = NoRun] /\ UNCHANGED erase
     \/ erase' = NoErase /\ UNCHANGED purge
  /\ UNCHANGED <<day, account, row, files, scan, edit, crashes, tries, wiped, late>>

-----------------------------------------------------------------------------
NextDay ==
  /\ day < LastDay
  /\ day' = day + 1
  /\ UNCHANGED <<account, row, files, scan, edit, purge, erase, crashes, tries, wiped, late>>

Init ==
  /\ day = 0 /\ account = TRUE
  /\ row = [r \in Receipt |-> IF r \in Stored THEN Live ELSE Gone]
  /\ files = Paths(Stored)
  /\ scan = [r \in Receipt |-> IF r \in Stored THEN "done" ELSE "new"]
  /\ edit = [q \in Editor |-> NoEdit]
  /\ purge = [w \in Worker |-> NoRun]
  /\ erase = NoErase
  /\ crashes = 0 /\ tries = 0 /\ wiped = {} /\ late = {}

Next == \/ \E r \in Receipt : Scan(r)
        \/ \E q \in Editor : Edit(q)
        \/ \E w \in Worker : PurgeStep(w) \/ CrashRun(w) \/ BreakDeadlock(w)
        \/ EraseStep \/ FailErase \/ NextDay

Spec == Init /\ [][Next]_vars

\* Beat starts a run every day and a run that lives goes on; a request that is
\* under way ends; the days pass.  Row locks are queued, so the deletion of the
\* account gets the rows it waits for (SF).
FairSpec == /\ Spec /\ WF_vars(NextDay)
            /\ \A w \in Worker : WF_vars(PurgeStep(w) \/ BreakDeadlock(w))
            /\ \A q \in Editor : WF_vars(UpdateRow(q) \/ CommitEdit(q))
            /\ WF_vars(EraseLines \/ EraseUser \/ \E p \in Path : EraseFile(p))
            /\ \A r \in Receipt : SF_vars(EraseRow(r))
            /\ \A r \in Receipt : WF_vars(Scan(r))

-----------------------------------------------------------------------------
EditType == {NoEdit} \cup [pc : {"read", "updated"}, rcpt : Receipt,
                          to : [state : {"live", "deleted"}, at : Day]]
RunType == [pc : {"idle", "select", "files", "rows"}, cutoff : Int,
            batch : SUBSET Receipt, todo : SUBSET Path]
EraseType == [pc : {"none", "files", "rows"}, todo : SUBSET Path,
              lined : SUBSET Receipt, gone : SUBSET Receipt]

\* Rows, files and transactions keep their shape.
TypeOK ==
  /\ day \in Day /\ account \in BOOLEAN
  /\ row \in [Receipt -> ReceiptRow] /\ files \subseteq Path
  /\ scan \in [Receipt -> InScan \cup {"new", "done", "failed"}]
  /\ edit \in [Editor -> EditType] /\ purge \in [Worker -> RunType] /\ erase \in EraseType
  /\ crashes \in 0 .. MaxCrashes /\ tries \in 0 .. MaxTries
  /\ wiped \subseteq Receipt /\ late \subseteq Receipt

\* The purge erases a receipt only while it is deleted and past its window, and
\* nothing else but the deletion of the account does (restore_receipt against
\* _purge_receipt_batch: both read one window).
OnlyExpiredErased ==
  [][\A r \in Receipt :
       row[r].state # "none" /\ row'[r].state = "none"
       => ~account' \/ Expired(r, restore_cutoff(day))]_vars

\* A receipt the user can see or restore has its photo and its thumbnail,
\* whatever purge runs, crashes and restores come between, unless the user asked
\* to delete the account or restored it in the moment its window closed.
RestorableHasPhoto ==
  \A r \in Rows \ (wiped \cup late) :
    ~Expired(r, restore_cutoff(day)) => \A f \in File : <<r, f>> \in files

\* No purge leaves a file without its row (the docstring of purge_tasks): a file
\* belongs to a row, to a scan under way or to one that failed, or to a receipt
\* a deletion of the account did not list.
FilesHaveRows ==
  \A p \in files : \/ p[1] \in Rows
                   \/ scan[p[1]] \in InScan \cup {"failed"}
                   \/ ~account /\ p[1] \notin wiped

\* Deleting the account erases the photos of its receipts (the docstrings of
\* delete_account and delete_me).
NoPhotoOutlivesAccount ==
  ~account => \A p \in files : scan[p[1]] # "done"

\* A receipt past its window is erased in the end, if it is not restored:
\* a run that died is made good by the next (the docstring of purge_tasks).
PurgedInTheEnd ==
  \A r \in Receipt :
    Expired(r, restore_cutoff(day)) ~> row[r].state # "deleted"
=============================================================================
