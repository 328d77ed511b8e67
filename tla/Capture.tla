------------------------------ MODULE Capture ------------------------------
(***************************************************************************)
(* What becomes of a photo once it is taken (mobile: the Scan tab,         *)
(* useScanSubmission, useReceiptImport, the offline queue and the hook     *)
(* that uploads it, the AI consent; backend: the consent and the monthly   *)
(* quota in front of a scan).                                              *)
(*                                                                         *)
(* A photo is a number, in the order they are taken.  A scan on the server *)
(* is two steps: the checks, with the count of this month's receipts, and  *)
(* then the reading and the commit.  Every error the app takes for one of  *)
(* the moment (no network, 401, 408, the hourly limit, 5xx) is "retry".    *)
(*                                                                         *)
(* The queue is written to disk in the step that changes it, and the copy  *)
(* of a photo is made in the step that queues it.                          *)
(***************************************************************************)
EXTENDS Integers, Sequences, FiniteSets, SequencesExt

CONSTANTS
    Accounts,       \* the accounts that sign in on this phone
    NoOne,          \* nobody
    Quota,          \* free_tier_receipts_per_month
    MaxPhotos,      \* bound: photos taken or picked
    MaxActs,        \* bound: what the user does besides taking photos
    MaxFaults       \* bound: calls that fail for a reason of the moment, and restarts

ASSUME CaptureAssumption ==
    /\ NoOne \notin Accounts /\ Accounts # {}
    /\ {Quota, MaxPhotos, MaxActs, MaxFaults} \subseteq Nat

Photos == 1 .. MaxPhotos
NoPhoto == 0
Slots == {"camera", "import", "run"}        \* who a scan call belongs to

VARIABLES
    \* the phone
    user,           \* the account signed in
    connected, active,
    known,          \* ai_consent of the cached profile
    queue,          \* offlineStore.pendingReceipts
    files,          \* the photos in pending-receipts/
    camera,         \* the Scan tab: useScanSubmission and the scanner or camera it shows
    import,         \* History's import
    runs,           \* the upload runs of offlineQueue; the last one is `inFlight`
    listening,      \* the account the effect of useSyncQueue runs for
    due,            \* a dependency of the effect changed since it ran
    awaiting,       \* the effect awaits the last run
    timer,          \* the retry timer is set
    \* the server, and the calls to it
    calls,
    granted, premium,
    receipts,       \* how often each photo was stored, by account
    \* the world, and what is remembered to state properties
    takenBy,        \* who took each photo
    told,           \* photos the user was told of, or let go
    cut,            \* photos whose flow a restart, a sign-out or the consent screen ended
    displaced,      \* photos whose upload was still under way when the scanner opened again
    unsure,         \* photos whose upload ended without an answer
    together,       \* the most scans of an account that were past its quota when one more passed
    acts, faults

device == <<connected, active>>
store == <<queue, files>>
flows == <<camera, import>>
sync == <<runs, listening, due, awaiting, timer>>
server == <<granted, premium, receipts, together>>
fate == <<told, cut, displaced, unsure>>
world == <<acts, faults>>
vars == <<user, device, known, store, flows, sync, calls, server, takenBy, fate, world>>

Ready == [flow |-> "ready", scanning |-> FALSE, page |-> NoPhoto]
NoImport == [pc |-> "idle", photo |-> NoPhoto, owner |-> NoOne]
NoCall == [pc |-> "none", photo |-> NoPhoto, account |-> NoOne, answer |-> "none"]
Answers == {"ok", "consent", "quota", "unreadable", "retry"}

PendingReceipts == [photo : Photos, owner : Accounts, status : {"pending", "syncing", "failed"},
                    tried : BOOLEAN, held : BOOLEAN, failure : {"none", "unreadable", "quota"}]
Cameras == [flow : {"ready", "processing", "low-quality", "queued"}, scanning : BOOLEAN, page : 0 .. MaxPhotos]
Imports == [pc : {"idle", "asking", "picking", "uploading", "asking again"},
            photo : 0 .. MaxPhotos, owner : Accounts \cup {NoOne}]
Runs == [owner : Accounts, todo : Seq(Photos), pc : {"behind", "next", "upload"}]
Calls == [pc : {"none", "sent", "reading", "answered"}, photo : 0 .. MaxPhotos,
          account : Accounts \cup {NoOne}, answer : Answers \cup {"none"}]

TypeOK ==
    /\ {user, listening} \subseteq Accounts \cup {NoOne}
    /\ {connected, active, due, awaiting, timer} \subseteq BOOLEAN
    /\ known \in {"yes", "no", "unknown"}
    /\ queue \in Seq(PendingReceipts)
    /\ \A i, j \in 1 .. Len(queue) : queue[i].photo = queue[j].photo => i = j
    /\ camera \in Cameras /\ import \in Imports
    /\ runs \in Seq(Runs)
    /\ calls \in [Slots -> Calls]
    /\ granted \subseteq Accounts /\ premium \subseteq Accounts /\ together \in [Accounts -> Nat]
    /\ receipts \in [Accounts -> [Photos -> Nat]]
    /\ takenBy \in Seq(Accounts) /\ Len(takenBy) <= MaxPhotos
    /\ {files, told, cut, displaced, unsure} \subseteq SUBSET Photos
    /\ acts \in 0 .. MaxActs /\ faults \in 0 .. MaxFaults

-----------------------------------------------------------------------------
(* offlineStore                                                             *)

Owned(a) == SelectSeq(queue, LAMBDA r : r.owner = a)
Queued(q, a) == Len(SelectSeq(q, LAMBDA r : r.status # "failed" /\ r.owner = a))

addPendingReceipt(p, a) ==
    Append(queue, [photo |-> p, owner |-> a, status |-> "pending",
                   tried |-> FALSE, held |-> FALSE, failure |-> "none"])

\* The row of a photo, changed; nothing when it is gone.
Row(p, change(_)) == [i \in 1 .. Len(queue) |-> IF queue[i].photo = p THEN change(queue[i]) ELSE queue[i]]

updateStatus(p, s) == Row(p, LAMBDA r : [r EXCEPT !.status = s])

\* A retry that queues the photo once more.
queueOnceMore(p) == Append(queue, [photo |-> p, owner |-> user, status |-> "pending",
                                   tried |-> TRUE, held |-> FALSE, failure |-> "none"])

markAttemptFailed(p) == Row(p, LAMBDA r : [r EXCEPT !.status = "pending", !.tried = TRUE])
holdForConsent(p) == Row(p, LAMBDA r : [r EXCEPT !.status = "pending", !.held = TRUE])
markFailed(p, f) == Row(p, LAMBDA r : [r EXCEPT !.status = "failed", !.failure = f])
requeue(p) == Row(p, LAMBDA r : [r EXCEPT !.status = "pending", !.failure = "none", !.tried = FALSE])
\* A photo has one row at most.
removePendingReceipt(p) == RemoveFirstMatch(queue, LAMBDA r : r.photo = p)

\* merge: what is read back from disk on launch.
Restored == [i \in 1 .. Len(queue) |->
                IF queue[i].status = "syncing" THEN [queue[i] EXCEPT !.status = "pending"] ELSE queue[i]]

\* A new queue, and the effect's count of the user's rows when it changes.
SetQueue(q) ==
    /\ queue' = q
    /\ due' = (due \/ Queued(q, user) # Queued(queue, user))

WaitingToRetry(q, a) == \E i \in 1 .. Len(q) :
    q[i].owner = a /\ q[i].status = "pending" /\ q[i].tried

-----------------------------------------------------------------------------
(* The server                                                               *)

Count(a) == LET n[k \in 0 .. MaxPhotos] == IF k = 0 THEN 0 ELSE n[k - 1] + receipts[a][k]
            IN n[MaxPhotos]

Send(slot, p, a) == [calls EXCEPT ![slot] = [pc |-> "sent", photo |-> p, account |-> a, answer |-> "none"]]
Answer(slot, answer) == [calls EXCEPT ![slot].pc = "answered", ![slot].answer = answer]
Heard(slot) == calls[slot].pc = "answered"

Reading(s, a) == calls[s].pc = "reading" /\ calls[s].account = a
Larger(m, n) == IF m >= n THEN m ELSE n

\* A quota check that lets one scan too many through.
OverQuotaLate(a) == a \notin premium /\ Count(a) > Quota

OverQuota(a) == a \notin premium /\ Count(a) >= Quota

\* require_ai_consent, then the count of this month's receipts.
Check(slot) ==
    LET a == calls[slot].account IN
    /\ calls[slot].pc = "sent"
    /\ CASE a = NoOne -> calls' = Answer(slot, "retry")
         [] a # NoOne /\ a \notin granted -> calls' = Answer(slot, "consent")
         [] a # NoOne /\ a \in granted /\ OverQuota(a) -> calls' = Answer(slot, "quota")
         [] OTHER -> calls' = [calls EXCEPT ![slot].pc = "reading"]
    /\ together' = IF calls'[slot].pc = "reading"
                   THEN [together EXCEPT ![a] = Larger(@, Cardinality({s \in Slots \ {slot} : Reading(s, a)}))]
                   ELSE together
    /\ UNCHANGED <<user, device, known, store, flows, sync, granted, premium, receipts, takenBy, fate, world>>

\* The photo is read and stored, or it is no receipt.
Read(slot) ==
    LET c == calls[slot] IN
    /\ c.pc = "reading"
    /\ \/ /\ receipts' = [receipts EXCEPT ![c.account][c.photo] = @ + 1]
          /\ calls' = Answer(slot, "ok")
       \/ /\ calls' = Answer(slot, "unreadable")
          /\ UNCHANGED receipts
    /\ UNCHANGED <<user, device, known, store, flows, sync, granted, premium, together, takenBy, fate, world>>

\* The call fails on the way there, in the reading, or on the way back.
Fails(slot) ==
    LET c == calls[slot] IN
    /\ c.pc \in {"sent", "reading"}
    /\ faults < MaxFaults /\ faults' = faults + 1
    /\ calls' = Answer(slot, "retry")
    /\ \/ UNCHANGED <<receipts, unsure>>
       \/ /\ c.pc = "reading"
          /\ receipts' = [receipts EXCEPT ![c.account][c.photo] = @ + 1]
          /\ unsure' = unsure \cup {c.photo}
    /\ UNCHANGED <<user, device, known, store, flows, sync, granted, premium, together,
                   takenBy, told, cut, displaced, acts>>

\* Nobody waits for these calls any more: the server stores their photos, or not.
Unheard(slots) ==
    LET busy == {s \in slots : calls[s].pc = "reading"}
        photos == {calls[s].photo : s \in {s \in slots : calls[s].pc # "none"}}
    IN
    /\ calls' = [s \in Slots |-> IF s \in slots THEN NoCall ELSE calls[s]]
    /\ unsure' = unsure \cup photos
    /\ \E stored \in SUBSET busy :
         receipts' = [a \in Accounts |-> [p \in Photos |-> receipts[a][p] + Cardinality(
                         {s \in stored : calls[s].account = a /\ calls[s].photo = p})]]

-----------------------------------------------------------------------------
(* AI consent                                                               *)

\* What the cached profile says changes: the effect runs again, and a page the
\* scanner held back goes when the consent screen takes the place of the camera.
Knows(k) ==
    /\ known' = k
    /\ due' = (due \/ k # known)

HoldsPage == camera.page # NoPhoto
ConsentScreen(k, flow) ==
    IF k = "no"
    THEN /\ camera' = [Ready EXCEPT !.flow = flow]
         /\ cut' = IF HoldsPage THEN cut \cup {camera.page} ELSE cut
    ELSE camera' = [camera EXCEPT !.flow = flow] /\ UNCHANGED cut

\* markRequired: withConsent changes a cached profile, and leaves an unknown one.
Refused == IF known = "unknown" THEN "unknown" ELSE "no"

Act == acts < MaxActs /\ acts' = acts + 1

\* The Scan tab asks in place of the camera; Settings and an import open the sheet.
ConsentOffers == user # NoOne /\ known = "no"

Allow ==
    /\ Act
    /\ ConsentOffers
    /\ granted' = granted \cup {user}
    /\ Knows("yes")
    /\ import' = IF import.pc = "asking" THEN [import EXCEPT !.pc = "picking"]
                 ELSE IF import.pc = "asking again" THEN NoImport ELSE import
    /\ UNCHANGED <<user, device, store, camera, runs, listening, awaiting, timer, calls, premium, receipts,
                   together, takenBy, fate, faults>>

\* The sheet is closed, or the receipt is typed in instead.
Decline ==
    /\ import.pc \in {"asking", "asking again"}
    /\ import' = NoImport
    /\ UNCHANGED <<user, device, known, store, camera, sync, calls, server, takenBy, fate, world>>

\* Settings here, or another phone of the account.
Withdraw(here) ==
    /\ Act
    /\ user \in granted
    /\ granted' = granted \ {user}
    /\ IF here THEN Knows("no") /\ ConsentScreen("no", camera.flow) ELSE UNCHANGED <<known, due, camera, cut>>
    /\ UNCHANGED <<user, device, store, import, runs, listening, awaiting, timer, calls, premium, receipts,
                   together, takenBy, told, displaced, unsure, faults>>

Truth == IF user \in granted THEN "yes" ELSE "no"

\* useMe fetches the profile again.
FetchMe ==
    /\ user # NoOne /\ connected /\ known # Truth
    /\ Knows(Truth) /\ ConsentScreen(Truth, camera.flow)
    /\ UNCHANGED <<user, device, store, import, runs, listening, awaiting, timer, calls, server, takenBy,
                   told, displaced, unsure, world>>

-----------------------------------------------------------------------------
(* The Scan tab                                                             *)

Taken(p) == p = Len(takenBy) + 1 /\ p <= MaxPhotos /\ takenBy' = Append(takenBy, user)

\* queuePhoto: the copy is made and the row added, or the copy fails and so does the scan.
QueuePhoto(p, shown) ==
    \/ /\ SetQueue(addPendingReceipt(p, user))
       /\ files' = files \cup {p}
       /\ camera' = [shown EXCEPT !.flow = "queued"]
       /\ UNCHANGED told
    \/ /\ camera' = [shown EXCEPT !.flow = "low-quality"]
       /\ told' = told \cup {p}
       /\ UNCHANGED <<queue, files, due>>

Uploading(slot) == calls[slot].pc # "none"

\* submit: the network is asked, and the photo is queued or sent.  The mutation
\* has callbacks for its last call only: an earlier upload goes on unheard.
Submit(p) ==
    \/ /\ ~connected
       /\ QueuePhoto(p, Ready)
       /\ UNCHANGED <<calls, receipts, displaced, unsure>>
    \/ /\ connected
       /\ camera' = [Ready EXCEPT !.flow = "processing"]
       /\ calls' = Send("camera", p, user)
       /\ LET before == calls["camera"] IN
          /\ displaced' = IF Uploading("camera") THEN displaced \cup {before.photo} ELSE displaced
          /\ unsure' = IF Uploading("camera") THEN unsure \cup {before.photo} ELSE unsure
          /\ \/ UNCHANGED receipts
             \/ before.pc = "reading" /\ receipts' = [receipts EXCEPT ![before.account][before.photo] = @ + 1]
       /\ UNCHANGED <<queue, files, due, told>>

\* The document scanner opens: on Scan, on Retake, and each time the tab comes
\* into focus again.  While an upload shows its overlay that takes a push tap
\* that opened another screen, and the way back from there.
CaptureOffers == user # NoOne /\ known # "no" /\ ~camera.scanning /\ Len(takenBy) < MaxPhotos

OpenScanner ==
    /\ CaptureOffers
    /\ camera' = [Ready EXCEPT !.scanning = TRUE]
    /\ told' = IF HoldsPage THEN told \cup {camera.page} ELSE told
    /\ IF camera.flow = "processing" THEN Act ELSE UNCHANGED acts
    /\ UNCHANGED <<user, device, known, store, import, sync, calls, server, takenBy, cut, displaced, unsure, faults>>

\* Canceled, or the scanner failed.
NoCapture ==
    /\ camera.scanning
    /\ \E flow \in {camera.flow, "low-quality"} : camera' = [camera EXCEPT !.scanning = FALSE, !.flow = flow]
    /\ UNCHANGED <<user, device, known, store, import, sync, calls, server, takenBy, fate, world>>

\* What the page may be found to be, light first, and nothing when no crop of it
\* can be read; and whether that, or pages left out, is a reason to ask the user.
Verdicts == {"dark", "bright", "blurry", "ok"}
scoreImage == Verdicts \cup {"unread"}
Hints(verdict, droppedPages) == verdict \in Verdicts \ {"ok"} \/ droppedPages

\* The page is good and is submitted, or it is held back for the user to see.
Captured(p) ==
    /\ camera.scanning
    /\ Taken(p)
    /\ \E held \in {Hints(v, d) : v \in scoreImage, d \in BOOLEAN} :
       \/ ~held /\ Submit(p)
       \/ /\ held
          /\ camera' = [camera EXCEPT !.scanning = FALSE, !.page = p]
          /\ UNCHANGED <<queue, files, due, told, calls, receipts, displaced, unsure>>
    /\ UNCHANGED <<user, device, known, import, runs, listening, awaiting, timer, granted, premium, together, cut, world>>

UsePage ==
    /\ HoldsPage
    /\ Submit(camera.page)
    /\ UNCHANGED <<user, device, known, import, runs, listening, awaiting, timer, granted, premium, together,
                   takenBy, cut, world>>

CancelPage ==
    /\ HoldsPage
    /\ camera' = [camera EXCEPT !.page = NoPhoto]
    /\ told' = told \cup {camera.page}
    /\ UNCHANGED <<user, device, known, store, import, sync, calls, server, takenBy, cut, displaced, unsure, world>>

\* The callbacks of the upload, wherever the scanner is by then.
Scanned ==
    LET p == calls["camera"].photo
        answer == calls["camera"].answer
        Flow(f) == camera' = [camera EXCEPT !.flow = f]
        Tell == told' = told \cup {p}
    IN
    /\ Heard("camera")
    /\ calls' = [calls EXCEPT !["camera"] = NoCall]
    /\ CASE answer = "retry" -> QueuePhoto(p, camera) /\ UNCHANGED <<known, cut>>
         [] answer = "consent" -> /\ Knows(Refused) /\ ConsentScreen(Refused, "ready")
                                  /\ Tell
                                  /\ UNCHANGED <<queue, files>>
         [] answer = "ok" -> Flow("ready") /\ UNCHANGED <<queue, files, due, told, known, cut>>
         [] answer = "quota" -> Flow("ready") /\ Tell /\ UNCHANGED <<queue, files, due, known, cut>>
         [] OTHER -> Flow("low-quality") /\ Tell /\ UNCHANGED <<queue, files, due, known, cut>>
    /\ UNCHANGED <<user, device, import, runs, listening, awaiting, timer, server, takenBy, displaced, unsure, world>>

-----------------------------------------------------------------------------
(* Import from the library or from Files                                    *)

\* A tap does nothing while one is busy, and takes the place of a pick that hangs.
ImportOffers == user # NoOne /\ import.pc \in {"idle", "picking", "asking again"}

\* Unknown lets the server decide.
ensureConsent == IF known = "no" THEN "asking" ELSE "picking"

Import ==
    /\ Act
    /\ ImportOffers
    /\ import' = [pc |-> ensureConsent, photo |-> NoPhoto, owner |-> user]
    /\ UNCHANGED <<user, device, known, store, camera, sync, calls, server, takenBy, fate, faults>>

\* Canceled, or refused for its size or type.
NothingPicked ==
    /\ import.pc = "picking"
    /\ import' = NoImport
    /\ UNCHANGED <<user, device, known, store, camera, sync, calls, server, takenBy, fate, world>>

Picked(p) ==
    /\ import.pc = "picking"
    /\ Taken(p)
    /\ import' = [import EXCEPT !.pc = "uploading", !.photo = p]
    /\ calls' = Send("import", p, user)
    /\ UNCHANGED <<user, device, known, store, camera, sync, server, fate, world>>

QueueImport(p) == SetQueue(addPendingReceipt(p, import.owner)) /\ files' = files \cup {p}

\* What becomes of the file when its upload ends: a queue that cannot be written
\* is told of as a failed upload.
importReceipt(p, answer) ==
    LET Tell == told' = told \cup {p} /\ UNCHANGED <<queue, files, due>> IN
    CASE answer = "ok" -> UNCHANGED <<queue, files, due, told>>
      [] answer = "retry" -> (QueueImport(p) /\ UNCHANGED told) \/ Tell
      [] OTHER -> Tell

\* importFrom goes on when its upload ends, signed out or not, for the account it
\* began with.
Imported ==
    LET p == import.photo
        answer == calls["import"].answer
    IN
    /\ import.pc = "uploading" /\ Heard("import")
    /\ calls' = [calls EXCEPT !["import"] = NoCall]
    /\ IF answer = "consent"
       THEN /\ Knows(Refused) /\ ConsentScreen(Refused, camera.flow)
            /\ import' = [import EXCEPT !.pc = "asking again", !.photo = NoPhoto]
            /\ told' = told \cup {p}
            /\ UNCHANGED <<queue, files>>
       ELSE /\ import' = NoImport
            /\ UNCHANGED <<known, camera, cut>>
            /\ importReceipt(p, answer)
    /\ UNCHANGED <<user, device, runs, listening, awaiting, timer, server, takenBy, displaced, unsure, world>>

-----------------------------------------------------------------------------
(* offlineQueue: the upload runs                                            *)

\* The photos of the account's pending rows, in the order of the queue q.
Snapshot(q, a) ==
    LET todo[i \in 0 .. Len(q)] ==
          IF i = 0 THEN <<>>
          ELSE IF q[i].status = "pending" /\ q[i].owner = a THEN Append(todo[i - 1], q[i].photo)
          ELSE todo[i - 1]
    IN todo[Len(q)]

\* syncPendingReceipts: a call shares the last run when it is its account's, and
\* else starts one behind it, or at once when there is none.
syncPendingReceipts(a) ==
    IF runs # <<>> /\ Last(runs).owner = a THEN runs
    ELSE Append(runs, IF runs = <<>> THEN [owner |-> a, todo |-> Snapshot(queue, a), pc |-> "next"]
                                     ELSE [owner |-> a, todo |-> <<>>, pc |-> "behind"])

Run == Head(runs)
SetRun(r) == runs' = <<r>> \o Tail(runs)

Wanted(q) == connected /\ user # NoOne /\ Queued(q, user) > 0 /\ known # "no"

LastRun == Tail(runs) = <<>>

\* `finally` with the queue q: inFlight is cleared, the run behind starts, and the
\* effect that awaited the last run sets its timer.
Settled(q) ==
    /\ runs' = IF LastRun THEN <<>>
               ELSE LET next == Head(Tail(runs))
                    IN <<[next EXCEPT !.pc = "next", !.todo = Snapshot(q, next.owner)]>> \o Tail(Tail(runs))
    /\ awaiting' = (awaiting /\ ~LastRun)
    /\ timer' = (timer \/ (awaiting /\ LastRun /\ WaitingToRetry(q, listening)))
    /\ UNCHANGED listening

\* A run ends.  React may run the effect again, for the row that has just left the
\* queue, before `finally`: its call then shares the run that has ended.
Finish(q) ==
    \/ SetQueue(q) /\ Settled(q)
    \/ /\ queue' = q
       /\ Queued(q, user) # Queued(queue, user)
       /\ Wanted(q) /\ LastRun /\ Run.owner = user
       /\ due' = FALSE /\ awaiting' = FALSE
       /\ runs' = <<>>
       /\ listening' = user
       /\ timer' = WaitingToRetry(q, user)

\* The run goes on to its next photo with the queue q, or ends after its last.
GoOn(q) ==
    \/ /\ Tail(Run.todo) # <<>>
       /\ SetQueue(q)
       /\ SetRun([Run EXCEPT !.pc = "next", !.todo = Tail(@)])
       /\ UNCHANGED <<listening, awaiting, timer>>
    \/ Tail(Run.todo) = <<>> /\ Finish(q)

\* A run that trusts the account it started with.
StaysForever(a) == TRUE

currentOwnerIs(a) == user = a

\* The next photo of the run, when its account is still the one signed in.
NextPhoto ==
    /\ runs # <<>> /\ Run.pc = "next"
    /\ IF Run.todo = <<>> \/ ~currentOwnerIs(Run.owner)
       THEN Finish(queue) /\ UNCHANGED calls
       ELSE /\ SetRun([Run EXCEPT !.pc = "upload"])
            /\ queue' = updateStatus(Head(Run.todo), "syncing")
            /\ calls' = Send("run", Head(Run.todo), user)
            /\ UNCHANGED <<listening, due, awaiting, timer>>
    /\ UNCHANGED <<user, device, known, files, flows, server, takenBy, fate, world>>

\* A run that lets go of a photo whatever the answer.
UploadedEagerly ==
    LET p == Head(Run.todo) IN
    /\ runs # <<>> /\ Run.pc = "upload" /\ Heard("run")
    /\ calls' = [calls EXCEPT !["run"] = NoCall]
    /\ GoOn(removePendingReceipt(p))
    /\ files' = files \ {p}
    /\ UNCHANGED <<user, device, known, flows, server, takenBy, fate, world>>

\* A run that leaves the row of an uploaded photo to be cleaned up later.
UploadedUnremoved ==
    LET p == Head(Run.todo) IN
    /\ runs # <<>> /\ Run.pc = "upload" /\ calls["run"].answer = "ok"
    /\ calls' = [calls EXCEPT !["run"] = NoCall]
    /\ GoOn(queue)
    /\ UNCHANGED <<user, device, known, files, flows, server, takenBy, fate, world>>

\* What a run does with the answer for a photo.
Uploaded ==
    LET p == Head(Run.todo)
        answer == calls["run"].answer
    IN
    /\ runs # <<>> /\ Run.pc = "upload" /\ Heard("run")
    /\ calls' = [calls EXCEPT !["run"] = NoCall]
    /\ IF answer = "consent"
       THEN /\ queue' = holdForConsent(p)
            /\ Settled(holdForConsent(p))
            /\ Knows(Refused) /\ ConsentScreen(Refused, camera.flow)
            /\ UNCHANGED files
       ELSE /\ CASE answer = "ok" -> GoOn(removePendingReceipt(p)) /\ files' = files \ {p}
                 [] answer \in {"quota", "unreadable"} -> GoOn(markFailed(p, answer)) /\ UNCHANGED files
                 [] OTHER -> Finish(markAttemptFailed(p)) /\ UNCHANGED files
            /\ UNCHANGED <<known, camera, cut>>
    /\ UNCHANGED <<user, device, import, server, takenBy, told, displaced, unsure, world>>

-----------------------------------------------------------------------------
(* useSyncQueue                                                             *)

\* The effect runs again: the old one's timer and listener go, and a sync starts.
RunEffect ==
    /\ due
    /\ due' = FALSE
    /\ timer' = FALSE
    /\ listening' = IF Wanted(queue) THEN user ELSE NoOne
    /\ awaiting' = Wanted(queue)
    /\ runs' = IF Wanted(queue) THEN syncPendingReceipts(user) ELSE runs
    /\ UNCHANGED <<user, device, known, store, flows, calls, server, takenBy, fate, world>>

\* The retry: an effect's sync, by its timer or because the app came back.
Sync ==
    /\ timer' = FALSE
    /\ awaiting' = TRUE
    /\ runs' = syncPendingReceipts(listening)

Retry ==
    /\ timer
    /\ IF active THEN Sync ELSE timer' = FALSE /\ UNCHANGED <<awaiting, runs>>
    /\ UNCHANGED <<user, device, known, store, flows, listening, due, calls, server, takenBy, fate, world>>

Background ==
    /\ active
    /\ active' = FALSE
    /\ UNCHANGED <<user, connected, known, store, flows, sync, calls, server, takenBy, fate, world>>

\* An app that does nothing when it comes back.
ForegroundOnly ==
    /\ ~active
    /\ active' = TRUE
    /\ UNCHANGED <<user, connected, known, store, flows, sync, calls, server, takenBy, fate, world>>

Foreground ==
    /\ ~active
    /\ active' = TRUE
    /\ IF listening # NoOne THEN Sync ELSE UNCHANGED <<timer, awaiting, runs>>
    /\ UNCHANGED <<user, connected, known, store, flows, listening, due, calls, server, takenBy, fate, world>>

Connect(on) ==
    /\ connected # on
    /\ Act
    /\ connected' = on
    /\ due' = TRUE
    /\ UNCHANGED <<user, active, known, store, flows, runs, listening, awaiting, timer, calls, server, takenBy, fate, faults>>

-----------------------------------------------------------------------------
(* History's Pending group                                                  *)

\* What the banner over the group says of the rows that are not failed.
bannerState ==
    LET rows == SelectSeq(Owned(user), LAMBDA r : r.status # "failed")
        Some(test(_)) == \E i \in 1 .. Len(rows) : test(rows[i])
        consentNeeded == known = "no" \/ (known = "unknown" /\ Some(LAMBDA r : r.held))
    IN CASE rows = <<>> -> "none"
         [] rows # <<>> /\ consentNeeded -> "review"
         [] rows # <<>> /\ ~consentNeeded /\ ~connected -> "offline"
         [] rows # <<>> /\ ~consentNeeded /\ connected /\ Some(LAMBDA r : r.tried)
                /\ ~Some(LAMBDA r : r.status = "syncing") -> "retry"
         [] OTHER -> "uploading"

\* Retry Now.
RetryNow ==
    /\ Act
    /\ user # NoOne /\ bannerState = "retry"
    /\ runs' = syncPendingReceipts(user)
    /\ UNCHANGED <<user, device, known, store, flows, listening, due, awaiting, timer, calls, server, takenBy, fate, faults>>

FailedRow(p) == \E i \in 1 .. Len(queue) :
    queue[i].photo = p /\ queue[i].owner = user /\ queue[i].status = "failed"
CappedRow(p) == \E i \in 1 .. Len(queue) : queue[i].photo = p /\ queue[i].failure = "quota"

\* A photo the cap stopped, after the upgrade.
UploadNow(p) ==
    /\ user \in premium /\ FailedRow(p) /\ CappedRow(p)
    /\ SetQueue(requeue(p))
    /\ runs' = IF connected /\ known # "no"
               THEN (IF runs # <<>> /\ Last(runs).owner = user THEN runs
                     ELSE Append(runs, IF runs = <<>>
                            THEN [owner |-> user, todo |-> <<p>>, pc |-> "next"]
                            ELSE [owner |-> user, todo |-> <<>>, pc |-> "behind"]))
               ELSE runs
    /\ UNCHANGED <<user, device, known, files, flows, listening, awaiting, timer, calls, server, takenBy, fate, world>>

\* Discard, or enter it by hand.
DropPending(p) ==
    /\ user # NoOne /\ FailedRow(p)
    /\ SetQueue(removePendingReceipt(p))
    /\ files' = files \ {p}
    /\ told' = told \cup {p}
    /\ UNCHANGED <<user, device, known, flows, runs, listening, awaiting, timer, calls, server, takenBy,
                   cut, displaced, unsure, world>>

Upgrade ==
    /\ Act
    /\ user # NoOne /\ user \notin premium
    /\ premium' = premium \cup {user}
    /\ UNCHANGED <<user, device, known, store, flows, sync, calls, granted, receipts, together, takenBy, fate, faults>>

-----------------------------------------------------------------------------
(* The session, and the app                                                 *)

SignIn(a) ==
    /\ Act
    /\ user = NoOne
    /\ user' = a
    /\ known' = "unknown"
    /\ due' = TRUE
    /\ UNCHANGED <<device, store, flows, runs, listening, awaiting, timer, calls, server, takenBy, fate, faults>>

Held == {camera.page, calls["camera"].photo} \ {NoPhoto}

\* The screens go with their callbacks; an import that uploads goes on.
SignOut ==
    /\ Act
    /\ user # NoOne
    /\ user' = NoOne
    /\ known' = "unknown"
    /\ due' = TRUE
    /\ camera' = Ready
    /\ cut' = cut \cup Held
    /\ Unheard({"camera"})
    /\ import' = IF import.pc = "uploading" THEN import ELSE NoImport
    /\ UNCHANGED <<device, store, runs, listening, awaiting, timer, granted, premium, together, takenBy,
                   told, displaced, faults>>

Relaunch ==
    /\ faults < MaxFaults /\ faults' = faults + 1
    /\ queue' = Restored
    /\ known' = "unknown"
    /\ camera' = Ready /\ import' = NoImport
    /\ cut' = cut \cup Held \cup (IF import.photo = NoPhoto THEN {} ELSE {import.photo})
    /\ Unheard(Slots)
    /\ runs' = <<>> /\ listening' = NoOne /\ awaiting' = FALSE /\ timer' = FALSE /\ due' = TRUE
    /\ active' = TRUE
    /\ UNCHANGED <<user, connected, files, granted, premium, together, takenBy, told, displaced, acts>>

-----------------------------------------------------------------------------
Init ==
    /\ user = CHOOSE a \in Accounts : TRUE
    /\ connected \in BOOLEAN /\ active = TRUE
    /\ granted = Accounts /\ known \in {"yes", "unknown"} /\ premium = {}
    /\ queue = <<>> /\ files = {}
    /\ camera = Ready /\ import = NoImport
    /\ runs = <<>> /\ listening = NoOne /\ due = FALSE /\ awaiting = FALSE /\ timer = FALSE
    /\ calls = [s \in Slots |-> NoCall]
    /\ receipts = [a \in Accounts |-> [p \in Photos |-> 0]]
    /\ takenBy = <<>>
    /\ told = {} /\ cut = {} /\ displaced = {} /\ unsure = {}
    /\ together = [a \in Accounts |-> 0]
    /\ acts = 0 /\ faults = 0

Serving(s) == Check(s) \/ Read(s)

\* What goes on by itself.
Continuing ==
    \/ \E s \in Slots : Serving(s)
    \/ Scanned \/ Imported
    \/ NextPhoto \/ Uploaded
    \/ RunEffect \/ Retry

Next ==
    \/ Continuing
    \/ \E s \in Slots : Fails(s)
    \/ Allow \/ Decline \/ (\E here \in BOOLEAN : Withdraw(here)) \/ FetchMe
    \/ OpenScanner \/ NoCapture \/ UsePage \/ CancelPage
    \/ \E p \in Photos : Captured(p) \/ Picked(p) \/ UploadNow(p) \/ DropPending(p)
    \/ Import \/ NothingPicked
    \/ Background \/ Foreground \/ (\E on \in BOOLEAN : Connect(on))
    \/ RetryNow \/ Upgrade
    \/ (\E a \in Accounts : SignIn(a)) \/ SignOut \/ Relaunch

Spec == Init /\ [][Next]_vars

\* The phone and the server go on, and the user keeps leaving the app and coming back.
FairSpec == Spec /\ WF_vars(Continuing) /\ WF_vars(Background) /\ WF_vars(Foreground)

-----------------------------------------------------------------------------
(* What becomes of a photo                                                  *)

\* No account receives a photo another account took.
OnlyOwnersReceive ==
    \A a \in Accounts, p \in 1 .. Len(takenBy) : receipts[a][p] > 0 => takenBy[p] = a

\* A photo is stored twice only when the answer to its first upload never came.
NoPhotoTwice ==
    \A a \in Accounts, p \in Photos : receipts[a][p] > 1 => p \in unsure

Stored(p) == \E a \in Accounts : receipts[a][p] > 0
InQueue(p) == p \in files /\ \E i \in 1 .. Len(queue) : queue[i].photo = p

\* A photo is stored, or queued with its file, or in a flow that goes on, unless
\* the user was told, or the flow was ended from outside.
PhotoKept ==
    \A p \in 1 .. Len(takenBy) :
        Stored(p) \/ InQueue(p) \/ p \in {camera.page, calls["camera"].photo, import.photo} \/ p \in told \cup cut \cup displaced

\* A free account goes over its quota only when several of its scans were past the
\* count at once, and then by no more than were with the one that passed last.  (A
\* scan nobody waits for any more is stored, or not, as it is given up.)
OverQuotaOnlyAtOnce ==
    \A a \in Accounts \ premium : Count(a) <= Quota + together[a]

\* Every photo of the queue is uploaded or refused in the end, unless it may not be.
QueuedUploads ==
    \A p \in Photos :
        (\E i \in 1 .. Len(queue) : queue[i].photo = p /\ queue[i].status # "failed") ~>
            \/ ~connected \/ known = "no" \/ user \notin granted
            \/ ~\E i \in 1 .. Len(queue) :
                 queue[i].photo = p /\ queue[i].status # "failed" /\ queue[i].owner = user

\* What the comments of useSyncQueue and of the banner say: a photo that is queued
\* and not tried yet is on its way while the app is open and online.
UploadsWhenQueued ==
    bannerState = "uploading" /\ active => runs # <<>> \/ due \/ timer

=============================================================================
