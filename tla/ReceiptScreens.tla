--------------------------- MODULE ReceiptScreens ---------------------------
(***************************************************************************)
(* The app's screens over the user's receipts: History, a receipt's        *)
(* detail, Review (of a scan, of a stored receipt, or to edit one),        *)
(* manual entry, Recently Deleted, and the "Same item?" prompt after a     *)
(* confirm.  The screens are a stack over the tabs, and every screen in it *)
(* stays mounted.  What they show is the query cache's copy of the server. *)
(*                                                                         *)
(* A receipt's content is one value per field; every value a user types is *)
(* a new number.  A receipt has one line, of an item all receipts share.   *)
(* Every call is three steps: sent, served, answered.                      *)
(***************************************************************************)
EXTENDS Integers, Sequences, FiniteSets, SequencesExt, Queries

CONSTANTS
    Receipts, NoReceipt,
    History, Bin,       \* the keys of the two lists
    Stored0,            \* the receipts confirmed before
    MaxReceiptActs,            \* bound: what the user does
    MaxReceiptFaults           \* bound: lost calls, and changes made on another device

Fields == {"store", "price", "category"}
LineFields == {"price", "category"}
Keys == Receipts \cup {History, Bin}
Values == 0 .. MaxReceiptActs

VARIABLES
    stored,     \* the server's receipts
    cache,      \* the query cache: ['receipt', id], ['receipts', ...], ['receipts', 'recently-deleted']
    stack,      \* the screens over the tabs, the tabs first
    scan,       \* receiptStore.activeScanResponse
    saving,     \* Review's confirm mutation
    moving,     \* deletes and restores, by receipt
    creating,   \* manual entry's mutation
    manual,     \* manual entry's line items, by id
    prompts,    \* promptMatchesAfterConfirm, under way
    prompted,   \* matchPromptStore.prompted
    untold,     \* keys the server changed without the app being told
    acts, faults

calls == <<saving, moving, creating>>
asking == <<prompts, prompted>>
world == <<acts, faults>>
receiptVars == <<stored, cache, stack, scan, calls, manual, asking, untold, world>>

Blank == [f \in Fields |-> 0]
NoScan == [receipt |-> NoReceipt, content |-> Blank]
NotSaving == [pc |-> "none", receipt |-> NoReceipt, param |-> NoReceipt, of |-> NoReceipt, fields |-> {},
              typed |-> {}, content |-> Blank, confirm |-> FALSE, scanned |-> FALSE, at |-> 0]
Still == [pc |-> "none", what |-> "delete", at |-> 0]
Row == [status : {"none", "pending_review", "confirmed"}, deleted : BOOLEAN, content : [Fields -> Values]]

Screen(kind, r) == [kind |-> kind, receipt |-> r, edit |-> FALSE, of |-> NoReceipt,
                    content |-> Blank, typed |-> {}]
Kinds == {"tabs", "detail", "review", "manual", "deleted", "match", "other"}
Top == Last(stack)

TypeOK ==
    /\ stored \in [Receipts -> Row]
    /\ \A r \in Receipts : cache[r] \in Entries(Row)
    /\ cache[History].call \in {"none", "asked", "read", "failed"}
    /\ cache[Bin].data = NoData \/ cache[Bin].data \subseteq Receipts
    /\ stack # <<>> /\ stack[1].kind = "tabs"
    /\ \A i \in 2 .. Len(stack) :
        stack[i] \in [kind : Kinds, receipt : Receipts \cup {NoReceipt}, edit : BOOLEAN,
                      of : Receipts \cup {NoReceipt}, content : [Fields -> Values], typed : SUBSET Fields]
    /\ scan \in [receipt : Receipts \cup {NoReceipt}, content : [Fields -> Values]]
    /\ saving.pc \in {"none", "sent", "saved", "failed"} /\ saving.at \in 0 .. Len(stack)
    /\ moving \in [Receipts -> [pc : {"none", "sent", "done", "failed"}, what : {"delete", "restore"}, at : 0 .. 4]]
    /\ \A r \in Receipts : moving[r].at <= Len(stack)
    /\ creating \in [pc : {"none", "sent", "done", "failed"}, receipt : Receipts \cup {NoReceipt}]
    /\ manual \in Seq(1 .. MaxReceiptActs)
    /\ prompted \subseteq Receipts /\ untold \subseteq Keys
    /\ acts \in 0 .. MaxReceiptActs /\ faults \in 0 .. MaxReceiptFaults

-----------------------------------------------------------------------------
(* The server                                                               *)

Live(r) == stored[r].status # "none" /\ ~stored[r].deleted
LiveNow == {r \in Receipts : Live(r)}
Truth(k) == CASE k = History -> [r \in LiveNow |-> stored[r]]
              [] k = Bin -> {r \in Receipts : stored[r].deleted}
              [] OTHER -> stored[k]

Act == acts < MaxReceiptActs /\ acts' = acts + 1 /\ UNCHANGED faults
Fault == acts < MaxReceiptActs /\ faults < MaxReceiptFaults /\ acts' = acts + 1 /\ faults' = faults + 1
NewValue == acts + 1

-----------------------------------------------------------------------------
(* Review: what it shows and would save                                     *)

IsFromHistory(s) == s.receipt # NoReceipt /\ scan.receipt = NoReceipt
Fetched(s) == IF s.receipt = NoReceipt THEN NoData ELSE cache[s.receipt].data
AlreadyConfirmed(s) == IsFromHistory(s) /\ Fetched(s) # NoData /\ Fetched(s).status = "confirmed"
IsReadOnly(s) ==
    /\ IsFromHistory(s) /\ ~s.edit
    /\ Fetched(s) = NoData \/ Fetched(s).status # "pending_review"
EditingReceipt(s) ==
    IF scan.receipt # NoReceipt THEN scan.receipt
    ELSE IF Fetched(s) # NoData THEN s.receipt ELSE NoReceipt
extractionFromReceipt(receipt) == receipt.content
Baseline(s) == IF scan.receipt # NoReceipt THEN scan.content ELSE extractionFromReceipt(Fetched(s))

\* The form of a review as it mounts, or as it starts over from `data`.
Filled(s, data) == IF data = NoData THEN s
                   ELSE [s EXCEPT !.of = s.receipt, !.content = extractionFromReceipt(data), !.typed = {}]

\* The fields that differ from the baseline, on edited lines.
Changed(s) ==
    {f \in Fields : /\ s.content[f] # Baseline(s)[f]
                    /\ f \in LineFields =>
                        /\ s.of = EditingReceipt(s)
                        /\ s.typed \cap LineFields # {}}

\* A PATCH that sends an edited line as a whole.
WholeLine(s) ==
    Changed(s) \cup (IF s.typed \cap LineFields # {} THEN LineFields ELSE {})

buildReceiptUpdate(s) == Changed(s)

\* The queries a screen holds, and those mounted in a stack while `s` is the scan session.
Shows(screen, s) ==
    CASE screen.kind = "tabs" -> {History}
      [] screen.kind = "deleted" -> {Bin}
      [] screen.kind = "detail" -> {screen.receipt}
      [] screen.kind = "review" /\ s.receipt = NoReceipt /\ screen.receipt # NoReceipt -> {screen.receipt}
      [] OTHER -> {}
Mounted(st, s) == UNION {Shows(st[i], s) : i \in 1 .. Len(st)}

\* A new stack (and scan session): what a screen newly shows is asked for,
\* though one below shows it too.
Mounting(st, s) == {k \in Keys : \E i \in 1 .. Len(st) :
    k \in Shows(st[i], s) /\ (i > Len(stack) \/ k \notin Shows(stack[i], scan))}
Navigate(st, s, c) ==
    /\ stack' = st /\ scan' = s
    /\ cache' = [k \in Keys |-> IF k \in Mounting(st, s) THEN Observe(c[k]) ELSE c[k]]

Refresh(keys, c) == [k \in Keys |-> IF k \in keys THEN Invalidate(c[k], k \in Mounted(stack, scan)) ELSE c[k]]

\* A call that has read already, and is not started over, misses the change.
Overtaken(keys) == {k \in keys : /\ cache[k].call = "read"
                                 /\ cache[k].data = NoData \/ k \notin Mounted(stack, scan)}

Push(screen) == Append(stack, screen)
Popped == IF Len(stack) = 1 THEN stack ELSE Front(stack)
Home == Append(Front(stack), Screen("tabs", NoReceipt))

\* The screen a call was made from is gone once it is popped; callbacks that
\* would outlive it.
OutlivesScreen(at, st) == at
StillAt(at, st) == IF at > Len(st) THEN 0 ELSE at

\* usePathname: two reviews are one path, and so are two other screens.
Path(screen) == <<screen.kind, IF screen.kind = "detail" THEN screen.receipt ELSE NoReceipt>>
Moved(ps, st) == [i \in 1 .. Len(ps) |->
    IF Path(Last(st)) = Path(Last(stack)) THEN ps[i] ELSE [ps[i] EXCEPT !.changes = @ + 1]]

\* What a change of the stack does to calls made from its screens, and to prompts under way.
Leaves(st) ==
    /\ saving' = [saving EXCEPT !.at = StillAt(@, st)]
    /\ moving' = [r \in Receipts |-> [moving[r] EXCEPT !.at = StillAt(@, st)]]
    /\ prompts' = Moved(prompts, st)

-----------------------------------------------------------------------------
(* The user moves between screens                                           *)

Go(st) ==
    /\ Act
    /\ Navigate(st, scan, cache) /\ Leaves(st)
    /\ UNCHANGED <<stored, creating, prompted, untold>>

\* What the screens offer: a row of History, a loaded detail, a row of Recently
\* Deleted, and the form of manual entry.
HistoryOffers(r) == Top.kind = "tabs" /\ cache[History].data # NoData /\ r \in DOMAIN cache[History].data
DetailOffers == Top.kind = "detail" /\ cache[Top.receipt].data # NoData
BinOffers(r) == Top.kind = "deleted" /\ cache[Bin].data # NoData /\ r \in cache[Bin].data
ManualOffers == Top.kind = "manual"

\* A receipt under review opens Review, a confirmed one its detail.
OpenReceipt(r) ==
    /\ HistoryOffers(r)
    /\ IF cache[History].data[r].status = "pending_review"
       THEN LET s == Screen("review", r) IN
            Go(Push(IF scan.receipt = NoReceipt THEN Filled(s, cache[r].data)
                    ELSE [s EXCEPT !.of = scan.receipt, !.content = scan.content]))
       ELSE Go(Push(Screen("detail", r)))
    /\ UNCHANGED manual

onEdit ==
    /\ DetailOffers
    /\ LET s == [Screen("review", Top.receipt) EXCEPT !.edit = TRUE] IN
       Go(Push(IF scan.receipt = NoReceipt THEN Filled(s, cache[s.receipt].data)
               ELSE [s EXCEPT !.of = scan.receipt, !.content = scan.content]))
    /\ UNCHANGED manual

OpenOther ==
    /\ Top.kind = "tabs"
    /\ \E kind \in {"manual", "deleted", "other"} :
        /\ Go(Push(Screen(kind, NoReceipt)))
        /\ manual' = IF kind = "manual" THEN <<>> ELSE manual

\* Cancel, Done, or the back gesture.
Back == Len(stack) > 1 /\ Go(Popped) /\ UNCHANGED manual

onRefresh ==
    /\ Act /\ Top.kind = "tabs"
    /\ cache' = [cache EXCEPT ![History] = Refetch(@)]
    /\ UNCHANGED <<stored, stack, scan, calls, manual, asking, untold>>

-----------------------------------------------------------------------------
(* A scan arrives                                                           *)

Scans(r) == stored' = [stored EXCEPT ![r] = [status |-> "pending_review", deleted |-> FALSE, content |-> Blank]]

\* The Scan tab's submission or an import succeeds, whatever screen is on top.
Scanned(r) ==
    /\ Act /\ stored[r].status = "none" /\ creating.receipt # r
    /\ Scans(r)
    /\ LET s == [receipt |-> r, content |-> Blank]
           st == Push([Screen("review", NoReceipt) EXCEPT !.of = r]) IN
       /\ Len(stack) < 4
       /\ Navigate(st, s, cache) /\ Leaves(st)
    /\ untold' = untold \cup {History}
    /\ UNCHANGED <<creating, manual, prompted>>

\* The offline queue uploads a photo.
Uploaded(r) ==
    /\ Act /\ stored[r].status = "none" /\ creating.receipt # r
    /\ Scans(r)
    /\ cache' = Refresh({History, Bin}, cache)
    /\ untold' = untold \cup Overtaken({History, Bin})
    /\ UNCHANGED <<stack, scan, calls, manual, asking>>

\* The user's other device corrects a receipt.
Elsewhere(r, f) ==
    /\ Fault /\ Live(r)
    /\ stored' = [stored EXCEPT ![r].content[f] = NewValue]
    /\ untold' = untold \cup {r, History}
    /\ UNCHANGED <<cache, stack, scan, calls, manual, asking>>

-----------------------------------------------------------------------------
(* Review                                                                   *)

\* The review has its receipt (else it says so); its editors and pickers; its Save.
HasReceipt(s) == s.of # NoReceipt
ReviewOffers == Top.kind = "review" /\ HasReceipt(Top) /\ ~IsReadOnly(Top)
SaveOffered == ReviewOffers /\ saving.pc = "none"

Type(f) ==
    /\ Act /\ ReviewOffers
    /\ stack' = [stack EXCEPT ![Len(stack)].content[f] = NewValue, ![Len(stack)].typed = @ \cup {f}]
    /\ UNCHANGED <<stored, cache, scan, calls, manual, asking, untold>>

handleSave ==
    /\ SaveOffered /\ EditingReceipt(Top) # NoReceipt
    /\ saving' = [pc |-> "sent", receipt |-> EditingReceipt(Top), param |-> Top.receipt, of |-> Top.of,
                  fields |-> buildReceiptUpdate(Top), typed |-> Top.typed, content |-> Top.content,
                  confirm |-> ~AlreadyConfirmed(Top), scanned |-> scan.receipt # NoReceipt,
                  at |-> Len(stack)]
    /\ Act
    /\ UNCHANGED <<stored, cache, stack, scan, moving, creating, manual, asking, untold>>

\* update_receipt; a new category goes to the same item on every receipt.
ServeSave ==
    /\ saving.pc = "sent"
    /\ IF Live(saving.receipt)
       THEN LET r == saving.receipt
                New(o) == IF o = r THEN [f \in Fields |-> IF f \in saving.fields THEN saving.content[f]
                                                          ELSE stored[r].content[f]]
                          ELSE IF "category" \in saving.fields /\ stored[o].status # "none"
                          THEN [stored[o].content EXCEPT !["category"] = saving.content["category"]]
                          ELSE stored[o].content
                Same(o) == New(o) = stored[o].content IN
            /\ stored' = [o \in Receipts |->
                            [stored[o] EXCEPT !.content = New(o),
                                !.status = IF o = r /\ saving.confirm THEN "confirmed" ELSE @]]
            /\ untold' = untold \cup {o \in Receipts \ {r} : ~Same(o)}
            /\ saving' = [saving EXCEPT !.pc = "saved"]
       ELSE /\ saving' = [saving EXCEPT !.pc = "failed"]
            /\ UNCHANGED <<stored, untold>>
    /\ UNCHANGED <<cache, stack, scan, moving, creating, manual, asking, world>>

\* What a save makes stale.
SaveRefreshes(r) == {r, History, Bin}

\* A review below starts over once no scan session is in its way.
Refilled(st, s) == [i \in 1 .. Len(st) |->
    IF st[i].kind = "review" /\ IsFromHistory(st[i]) # (st[i].receipt # NoReceipt /\ s.receipt = NoReceipt)
    THEN Filled(st[i], cache[st[i].receipt].data) ELSE st[i]]

\* A saved scan ends in new tabs in place of the screen on top, any other save goes back.
Saved ==
    /\ saving.pc = "saved"
    /\ LET c == Refresh(SaveRefreshes(saving.receipt), cache)
           s == IF saving.at > 0 /\ saving.scanned THEN NoScan ELSE scan
           st == IF saving.at > 0 THEN Refilled(IF saving.scanned THEN Home ELSE Popped, s) ELSE stack
           ps == IF saving.at > 0 /\ saving.confirm
                 THEN Append(prompts, [receipt |-> saving.receipt, pc |-> "asked", changes |-> 0, raised |-> FALSE])
                 ELSE prompts IN
       /\ Navigate(st, s, c)
       /\ moving' = [r \in Receipts |-> [moving[r] EXCEPT !.at = StillAt(@, st)]]
       /\ prompts' = Moved(ps, st)
    /\ saving' = NotSaving
    /\ untold' = untold \cup Overtaken(SaveRefreshes(saving.receipt))
    /\ UNCHANGED <<stored, creating, manual, prompted, world>>

SaveFailed ==
    /\ saving.pc = "failed" /\ saving' = NotSaving
    /\ UNCHANGED <<stored, cache, stack, scan, moving, creating, manual, asking, untold, world>>

-----------------------------------------------------------------------------
(* Delete and restore                                                       *)

\* From a row of History, or from the receipt's detail; after the alert's Delete.
onDelete(r) ==
    /\ Act /\ moving[r].pc = "none"
    /\ HistoryOffers(r) \/ (DetailOffers /\ Top.receipt = r)
    /\ moving' = [moving EXCEPT ![r] = [pc |-> "sent", what |-> "delete",
                                       at |-> IF Top.kind = "detail" THEN Len(stack) ELSE 0]]
    /\ UNCHANGED <<stored, cache, stack, scan, saving, creating, manual, asking, untold>>

onRestore(r) ==
    /\ Act /\ moving[r].pc = "none"
    /\ BinOffers(r)
    /\ moving' = [moving EXCEPT ![r] = [pc |-> "sent", what |-> "restore", at |-> 0]]
    /\ UNCHANGED <<stored, cache, stack, scan, saving, creating, manual, asking, untold>>

ServeMove(r) ==
    /\ moving[r].pc = "sent"
    /\ LET to == moving[r].what = "delete"
           can == stored[r].status # "none" /\ stored[r].deleted # to IN
       /\ moving' = [moving EXCEPT ![r].pc = IF can THEN "done" ELSE "failed"]
       /\ stored' = IF can THEN [stored EXCEPT ![r].deleted = to] ELSE stored
    /\ UNCHANGED <<cache, stack, scan, saving, creating, manual, asking, untold, world>>

MoveAnswered(r) ==
    /\ moving[r].pc \in {"done", "failed"}
    /\ IF moving[r].pc = "done"
       THEN LET st == IF moving[r].at > 0 THEN Popped ELSE stack IN
            /\ Navigate(st, scan, Refresh({History, Bin}, cache))
            /\ saving' = [saving EXCEPT !.at = StillAt(@, st)]
            /\ moving' = [o \in Receipts |-> IF o = r THEN Still ELSE [moving[o] EXCEPT !.at = StillAt(@, st)]]
            /\ prompts' = Moved(prompts, st)
            /\ untold' = untold \cup Overtaken({History, Bin})
       ELSE /\ moving' = [moving EXCEPT ![r] = Still]
            /\ UNCHANGED <<cache, stack, scan, saving, prompts, untold>>
    /\ UNCHANGED <<stored, creating, manual, prompted, world>>

-----------------------------------------------------------------------------
(* Manual entry                                                             *)

addLineItem ==
    /\ Act /\ ManualOffers
    /\ manual' = Append(manual, Len(manual) + 1)
    /\ UNCHANGED <<stored, cache, stack, scan, calls, asking, untold>>

removeItem(id) ==
    /\ Act /\ ManualOffers
    /\ manual' = SelectSeq(manual, LAMBDA i : i # id)
    /\ UNCHANGED <<stored, cache, stack, scan, calls, asking, untold>>

canSave == manual # <<>> /\ creating.pc = "none"

onSave(r) ==
    /\ Act /\ ManualOffers /\ canSave /\ stored[r].status = "none"
    /\ creating' = [pc |-> "sent", receipt |-> r]
    /\ UNCHANGED <<stored, cache, stack, scan, saving, moving, manual, asking, untold>>

ServeCreate ==
    /\ creating.pc = "sent"
    /\ stored' = [stored EXCEPT ![creating.receipt] =
                    [status |-> "confirmed", deleted |-> FALSE, content |-> Blank]]
    /\ creating' = [creating EXCEPT !.pc = "done"]
    /\ UNCHANGED <<cache, stack, scan, saving, moving, manual, asking, untold, world>>

\* onSave goes on after its await, whether or not its screen is still there.
Created ==
    /\ creating.pc = "done"
    /\ LET st == Popped
           ps == Append(prompts, [receipt |-> creating.receipt, pc |-> "asked", changes |-> 0, raised |-> FALSE]) IN
       /\ Navigate(st, scan, Refresh({History, Bin}, cache))
       /\ saving' = [saving EXCEPT !.at = StillAt(@, st)]
       /\ moving' = [r \in Receipts |-> [moving[r] EXCEPT !.at = StillAt(@, st)]]
       /\ prompts' = Moved(ps, st)
    /\ creating' = [pc |-> "none", receipt |-> NoReceipt]
    /\ untold' = untold \cup Overtaken({History, Bin})
    /\ UNCHANGED <<stored, manual, prompted, world>>

-----------------------------------------------------------------------------
(* The "Same item?" prompt                                                  *)

\* The suggestions a receipt raised are read; one stands for them all.
ReadSuggestions(i) ==
    /\ prompts[i].pc = "asked"
    /\ \E raised \in BOOLEAN :
        prompts' = [prompts EXCEPT ![i].pc = "read", ![i].raised = raised]
    /\ UNCHANGED <<stored, cache, stack, scan, calls, manual, prompted, untold, world>>

claim(r) == {r} \ prompted

StillThere(p) == p.changes <= 1

promptMatchesAfterConfirm(i) ==
    /\ prompts[i].pc = "read"
    /\ LET p == prompts[i]
           fresh == IF StillThere(p) /\ p.raised THEN claim(p.receipt) ELSE {}
           st == IF fresh = {} THEN stack ELSE Push(Screen("match", p.receipt))
           rest == RemoveAt(prompts, i) IN
       /\ prompted' = prompted \cup fresh
       /\ Navigate(st, scan, cache)
       /\ prompts' = Moved(rest, st)
    /\ UNCHANGED <<stored, calls, manual, untold, world>>

-----------------------------------------------------------------------------
(* Queries                                                                  *)

ServeRead(k) ==
    /\ cache[k].call = "asked"
    /\ cache' = [cache EXCEPT ![k] = IF k \in Receipts /\ ~Live(k) THEN Fail(@) ELSE Reads(@, Truth(k))]
    /\ untold' = untold \ {k}
    /\ UNCHANGED <<stored, stack, scan, calls, manual, asking, world>>

ReadLost(k) ==
    /\ Fault /\ InFlight(cache[k])
    /\ cache' = [cache EXCEPT ![k] = Fail(@)]
    /\ UNCHANGED <<stored, stack, scan, calls, manual, asking, untold>>

\* The answer arrives.  A receipt that changed starts the review of it over.
\* staleTime is 0 but for History, which never unmounts.
ReadAnswered(k) ==
    /\ cache[k].call = "read"
    /\ cache' = [cache EXCEPT ![k] = [Arrived(@) EXCEPT !.fresh = FALSE]]
    /\ stack' = [i \in 1 .. Len(stack) |->
                    IF /\ stack[i].kind = "review" /\ IsFromHistory(stack[i])
                       /\ stack[i].receipt = k /\ cache[k].data # cache[k].read
                    THEN Filled(stack[i], cache[k].read) ELSE stack[i]]
    /\ UNCHANGED <<stored, scan, calls, manual, asking, untold, world>>

-----------------------------------------------------------------------------

Init ==
    /\ \E review \in SUBSET (Receipts \ Stored0) :
        stored = [r \in Receipts |-> [deleted |-> FALSE, content |-> Blank,
                    status |-> CASE r \in Stored0 -> "confirmed" [] r \in review -> "pending_review"
                                 [] OTHER -> "none"]]
    /\ cache = [k \in Keys |-> IF k = History THEN Loaded(Truth(History)) ELSE Unloaded]
    /\ stack = <<Screen("tabs", NoReceipt)>> /\ scan = NoScan
    /\ saving = NotSaving /\ moving = [r \in Receipts |-> Still]
    /\ creating = [pc |-> "none", receipt |-> NoReceipt] /\ manual = <<>>
    /\ prompts = <<>> /\ prompted = {} /\ untold = {}
    /\ acts = 0 /\ faults = 0

Next ==
    \/ \E r \in Receipts :
        \/ OpenReceipt(r) \/ Scanned(r) \/ Uploaded(r) \/ (\E f \in Fields : Elsewhere(r, f))
        \/ onDelete(r) \/ onRestore(r) \/ ServeMove(r) \/ MoveAnswered(r) \/ onSave(r)
    \/ onEdit \/ OpenOther \/ Back \/ onRefresh
    \/ (\E f \in Fields : Type(f)) \/ handleSave \/ ServeSave \/ Saved \/ SaveFailed
    \/ addLineItem \/ (\E id \in ToSet(manual) : removeItem(id)) \/ ServeCreate \/ Created
    \/ \E i \in 1 .. Len(prompts) : ReadSuggestions(i) \/ promptMatchesAfterConfirm(i)
    \/ \E k \in Keys : ServeRead(k) \/ ReadLost(k) \/ ReadAnswered(k)

Spec == Init /\ [][Next]_receiptVars

-----------------------------------------------------------------------------
(* Properties                                                               *)

\* A save changes on its receipt only what the user typed into the form of that
\* receipt, whatever a refetch, another device or a correction elsewhere
\* changed in between (buildReceiptUpdate and the baseline of Review).
SavesOnlyWhatWasTyped ==
    [][\A r \in Receipts :
        saving.pc = "sent" /\ saving'.pc = "saved" /\ saving.receipt = r /\ saving.of = r =>
            \A f \in Fields \ saving.typed : stored'[r].content[f] = stored[r].content[f]]_receiptVars

\* Once no call is under way, what the screens show is what the server has, but
\* for changes the app was not told of, reads that failed, a first read, or one no
\* screen waits for, under way when the app's own change ended, and the detail of a
\* receipt deleted from History meanwhile
\* (the invalidations of useReceiptConfirm, useLifecycle and manual entry).
Quiet ==
    /\ saving.pc = "none" /\ creating.pc = "none"
    /\ \A r \in Receipts : moving[r].pc = "none"
ShownIsTrue ==
    Quiet => \A k \in Mounted(stack, scan) \ untold :
        cache[k].call = "none" /\ (k \in Receipts => Live(k)) => cache[k].data = Truth(k)

\* What a review opened for a stored receipt saves is that receipt
\* (review.tsx:65: "Opened from History: a stored receipt").
SavesTheReceiptOpened ==
    saving.pc # "none" /\ saving.param # NoReceipt => saving.receipt = saving.param

=============================================================================
