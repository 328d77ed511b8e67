---------------------------- MODULE ItemScreens ----------------------------
(***************************************************************************)
(* The app's screens over the items a user buys: the Items list, an item's *)
(* detail, Review Matches, the "Same item?" prompt, the Link items sheet   *)
(* and the split screen, over the server's items, names, lines and         *)
(* questions.  Items are numbered as they are made.  An item's detail and  *)
(* its prices are read by one query here.                                  *)
(*                                                                         *)
(* Every change is three steps: sent, served, answered.  The bound of one  *)
(* call of a kind at a time counts those of screens that were left.        *)
(***************************************************************************)
EXTENDS Integers, Sequences, FiniteSets, SequencesExt, Queries

CONSTANTS
    MaxItems,           \* bound: items ever made
    Lines,              \* purchases
    Owner0, Called,     \* the item a purchase began in, its receipt name
    Asked0,             \* the questions raised: [id -> [item, other]]
    MaxSplits,          \* MAX_SPLITS
    MaxItemActs, MaxItemFaults  \* bounds: what happens; the lost calls and other devices of it

\* The items begun with are numbered from one, and asked about in pairs.
ASSUME ItemsAssumption ==
    /\ MaxItems \in Nat /\ Owner0 \in [Lines -> 1 .. MaxItems]
    /\ \E n \in 1 .. MaxItems : {Owner0[l] : l \in Lines} = 1 .. n
    /\ \A q \in DOMAIN Asked0 : /\ {Asked0[q].item, Asked0[q].other} \subseteq {Owner0[l] : l \in Lines}
                                /\ Asked0[q].item # Asked0[q].other

Items == 1 .. MaxItems
Receiptnames == {Called[l] : l \in Lines}
Questions == DOMAIN Asked0
NoItem == 0

\* The keys under ITEMS_KEY.
ItemList == 0
Matches == 0 - 1
CandidatesFor(i) == MaxItems + i
ItemKeys == {ItemList, Matches} \cup Items \cup {CandidatesFor(i) : i \in Items}

VARIABLES
    catalogue,  \* the server's items
    itemCache,  \* the query cache under ['items']
    itemStack,  \* the list, and the screens over it
    prompt,     \* the "Same item?" prompt's state
    picked,     \* the Link items sheet's radio
    drafts,     \* the split screen's new items
    calls,      \* the mutations, by hook
    itemUntold, \* keys the server changed without the app being told
    itemActs, itemFaults

forms == <<prompt, picked, drafts>>
itemWorld == <<itemActs, itemFaults>>
itemVars == <<catalogue, itemCache, itemStack, forms, calls, itemUntold, itemWorld>>

Screen(kind, i) == [kind |-> kind, item |-> i]
Kinds == {"list", "detail", "matches", "match", "merge", "split"}
Top == Last(itemStack)

NoPrompt == [item |-> NoItem, start |-> 0, loaded |-> FALSE, queue |-> <<>>, at |-> 1, failed |-> FALSE, into |-> NoItem]
NoDraft == [name |-> "none", lines |-> {}]
ItemHooks == {"answer", "merge", "split", "rename", "alias"}
Idle == [pc |-> "none", what |-> "none", item |-> NoItem, with |-> 0, parts |-> <<>>,
         here |-> FALSE, alone |-> FALSE, fair |-> FALSE, result |-> NoItem]

ItemsTypeOK ==
    /\ catalogue.made \in Items /\ catalogue.alive \subseteq 1 .. catalogue.made
    /\ catalogue.line \in [Lines -> catalogue.alive] /\ catalogue.name \in [Receiptnames -> catalogue.alive]
    /\ \A q \in Questions : catalogue.asked[q].status = "pending" =>
        /\ {catalogue.asked[q].item, catalogue.asked[q].other} \subseteq catalogue.alive
        /\ catalogue.asked[q].item # catalogue.asked[q].other
    /\ itemStack[1].kind = "list" /\ \A n \in 1 .. Len(itemStack) : itemStack[n].kind \in Kinds
    /\ prompt.at \in 1 .. Len(prompt.queue) + 1 /\ picked \in Items \cup {NoItem}
    /\ \A k \in 1 .. Len(drafts) : drafts[k].lines \subseteq Lines
    /\ \A h \in ItemHooks : calls[h].pc \in {"none", "sent", "done", "refused", "lost"}
    /\ \A k \in ItemKeys : itemCache[k].call \in {"none", "asked", "read", "failed"}
    /\ itemUntold \subseteq ItemKeys

-----------------------------------------------------------------------------
(* The server                                                               *)

Open(c) == {q \in Questions : c.asked[q].status = "pending"}
LinesOf(c, i) == {l \in Lines : c.line[l] = i}
NamesOf(c, i) == {n \in Receiptnames : c.name[n] = i}

Truth(c, k) ==
    CASE k = ItemList -> [items |-> c.alive, pending |-> Cardinality(Open(c))]
      [] k = Matches -> [q \in Open(c) |-> c.asked[q].item]
      [] k \in Items -> [title |-> c.title[k], names |-> NamesOf(c, k), lines |-> LinesOf(c, k),
                         asked |-> {q \in Open(c) : c.asked[q].item = k}]
      [] OTHER -> c.alive \ {k - MaxItems}
Readable(c, k) == CASE k \in Items -> k \in c.alive [] k > MaxItems -> k - MaxItems \in c.alive [] OTHER -> TRUE

\* _move_suggestions: a question about the source is about the target now,
\* unless it would pair the target with itself or asks what is asked already.
MoveSuggestions(asked, x, y) ==
    LET To(i) == IF i = x THEN y ELSE i
        About(q, i) == asked[q].status # "gone" /\ i \in {asked[q].item, asked[q].other}
        Twin(q) == \E p \in Questions : About(p, y) /\ asked[p].item = To(asked[q].item)
                                        /\ asked[p].other = To(asked[q].other) IN
    [q \in Questions |->
        IF ~About(q, x) THEN asked[q]
        ELSE IF To(asked[q].item) = To(asked[q].other) \/ Twin(q)
        THEN [asked[q] EXCEPT !.status = "gone"]
        ELSE [asked[q] EXCEPT !.item = To(@), !.other = To(@)]]

Merge(c, x, y) ==
    [c EXCEPT !.alive = @ \ {x},
              !.line = [l \in Lines |-> IF @[l] = x THEN y ELSE @[l]],
              !.name = [n \in Receiptnames |-> IF @[n] = x THEN y ELSE @[n]],
              !.new = @ \ LinesOf(c, x),
              !.asked = MoveSuggestions(@, x, y)]

\* split_lines: a name goes with its lines when they all went to one new item,
\* and pending questions go with the line that raised them.
SplitLines(c, i, parts) ==
    LET To(l) == IF \E k \in 1 .. Len(parts) : l \in parts[k]
                 THEN c.made + CHOOSE k \in 1 .. Len(parts) : l \in parts[k] ELSE c.line[l]
        Went(n) == {To(l) : l \in {m \in LinesOf(c, i) : Called[m] = n}}
        raisers == {To(l) : l \in LinesOf(c, i) \cap c.new}
        Follows(q) == c.asked[q].item = i /\ c.asked[q].status = "pending"
                      /\ Cardinality(raisers) = 1 /\ i \notin raisers IN
    [c EXCEPT !.made = @ + Len(parts),
              !.alive = @ \cup (c.made + 1 .. c.made + Len(parts)),
              !.line = [l \in Lines |-> To(l)],
              !.name = [n \in Receiptnames |->
                            IF @[n] = i /\ Cardinality(Went(n)) = 1 THEN CHOOSE t \in Went(n) : TRUE ELSE @[n]],
              !.asked = [q \in Questions |->
                            IF Follows(q) THEN [@[q] EXCEPT !.item = CHOOSE t \in raisers : TRUE] ELSE @[q]]]

SplitAlias(c, i, n) ==
    LET moved == {l \in LinesOf(c, i) : Called[l] = n} IN
    [c EXCEPT !.made = @ + 1, !.alive = @ \cup {c.made + 1},
              !.name[n] = c.made + 1, !.new = @ \ moved,
              !.line = [l \in Lines |-> IF l \in moved THEN c.made + 1 ELSE @[l]]]

\* What a request of each kind needs, and what it makes of the items.
ItemAccepts(c, r) ==
    CASE r.what \in {"accept", "reject"} -> r.with \in Open(c)
      [] r.what = "merge" -> {r.item, r.with} \subseteq c.alive /\ r.item # r.with
      [] r.what = "split" -> LET chosen == UNION ToSet(r.parts) IN
            /\ r.item \in c.alive /\ \A k \in 1 .. Len(r.parts) : r.parts[k] # {}
            /\ chosen \subseteq LinesOf(c, r.item) /\ chosen # LinesOf(c, r.item)
      [] r.what = "rename" -> r.item \in c.alive
      [] OTHER -> r.item \in c.alive /\ c.name[r.with] = r.item /\ Cardinality(NamesOf(c, r.item)) > 1

After(c, r) ==
    CASE r.what = "accept" -> Merge(c, c.asked[r.with].item, c.asked[r.with].other)
      [] r.what = "reject" -> [c EXCEPT !.asked[r.with].status = "rejected"]
      [] r.what = "merge" -> Merge(c, r.item, r.with)
      [] r.what = "split" -> SplitLines(c, r.item, r.parts)
      [] r.what = "rename" -> [c EXCEPT !.title[r.item] = @ + 1]
      [] OTHER -> SplitAlias(c, r.item, r.with)

Result(c, r) ==
    CASE r.what = "accept" -> c.asked[r.with].other
      [] r.what \in {"split", "alias"} -> c.made + 1
      [] OTHER -> r.with

-----------------------------------------------------------------------------
(* The cache and the screens                                                *)

Act == itemActs < MaxItemActs /\ itemActs' = itemActs + 1 /\ UNCHANGED itemFaults
Fault == /\ itemActs < MaxItemActs /\ itemFaults < MaxItemFaults
         /\ itemActs' = itemActs + 1 /\ itemFaults' = itemFaults + 1

Shows(s) ==
    CASE s.kind = "list" -> {ItemList}
      [] s.kind \in {"matches", "match"} -> {Matches}
      [] s.kind = "merge" -> {s.item, CandidatesFor(s.item)}
      [] OTHER -> {s.item}
Mounted(st) == UNION {Shows(st[n]) : n \in 1 .. Len(st)}

\* What the screens over the old stack show is asked for, though one below shows it too.
Mounting(st) == Mounted(SubSeq(st, Len(itemStack) + 1, Len(st))) \cup (Mounted(st) \ Mounted(itemStack))
Navigate(st, c) ==
    /\ itemStack' = st
    /\ itemCache' = [k \in ItemKeys |-> IF k \in Mounting(st) THEN Observe(c[k]) ELSE c[k]]

\* useItems.ts invalidate: everything under ITEMS_KEY.
invalidate(c) == [k \in ItemKeys |-> Invalidate(c[k], k \in Mounted(itemStack))]
Overtaken == {k \in ItemKeys : itemCache[k].call = "read" /\ (itemCache[k].data = NoData \/ k \notin Mounted(itemStack))}

Data(k) == itemCache[k].data
Has(k) == Data(k) # NoData
Push(s) == Append(itemStack, s)
Popped == Front(itemStack)

\* A call of a screen that is left goes on, its callbacks do not.
Left(cs) == [h \in ItemHooks |-> IF h \in {"answer", "merge", "split"} THEN [cs[h] EXCEPT !.here = FALSE] ELSE cs[h]]
Start(h, r) ==
    calls' = [g \in ItemHooks |->
        IF g # h THEN [calls[g] EXCEPT !.alone = FALSE]
        ELSE [r EXCEPT !.pc = "sent", !.here = TRUE, !.alone = \A f \in ItemHooks : calls[f].pc = "none"]]
ItemCall(what, i, with) == [Idle EXCEPT !.what = what, !.item = i, !.with = with]

-----------------------------------------------------------------------------
(* The list, Review Matches and an item's detail                            *)

ListOffers(i) == Top.kind = "list" /\ Has(ItemList) /\ i \in Data(ItemList).items
DetailOffers == Top.kind = "detail" /\ Has(Top.item)
MatchesOffers(q) == Top.kind = "matches" /\ Has(Matches) /\ q \in DOMAIN Data(Matches)

OpenItem(i) ==
    /\ Act /\ ListOffers(i)
    /\ Navigate(Push(Screen("detail", i)), itemCache)
    /\ UNCHANGED <<catalogue, forms, calls, itemUntold>>

OpenMatches ==
    /\ Act /\ Top.kind = "list" /\ Has(ItemList) /\ Data(ItemList).pending > 0
    /\ Navigate(Push(Screen("matches", NoItem)), itemCache)
    /\ UNCHANGED <<catalogue, forms, calls, itemUntold>>

\* The way back, a form's Cancel, and the pull to refresh or Try again.
Back ==
    /\ Act /\ Len(itemStack) > 1 /\ Top.kind # "match"
    /\ Navigate(Popped, itemCache) /\ calls' = Left(calls)
    /\ picked' = NoItem /\ drafts' = <<>>
    /\ UNCHANGED <<catalogue, prompt, itemUntold>>

ItemRetry(k) ==
    /\ Act /\ k \in Shows(Top) /\ (k = ItemList \/ ~Has(k))
    /\ itemCache' = [itemCache EXCEPT ![k] = Refetch(@)]
    /\ UNCHANGED <<catalogue, itemStack, forms, calls, itemUntold>>

onRenameItem ==
    /\ Act /\ DetailOffers /\ calls["rename"].pc = "none"
    /\ Start("rename", [ItemCall("rename", Top.item, 0) EXCEPT !.fair = Data(Top.item) = Truth(catalogue, Top.item)])
    /\ UNCHANGED <<catalogue, itemCache, itemStack, forms, itemUntold>>

\* Split beside a name, where there are others.
NameOffersSplit(n) == DetailOffers /\ n \in Data(Top.item).names /\ Cardinality(Data(Top.item).names) > 1
onSplit(n) ==
    /\ Act /\ NameOffersSplit(n) /\ calls["alias"].pc = "none" /\ catalogue.made < MaxItems
    /\ Start("alias", [ItemCall("alias", Top.item, n) EXCEPT !.fair = Data(Top.item) = Truth(catalogue, Top.item)])
    /\ UNCHANGED <<catalogue, itemCache, itemStack, forms, itemUntold>>

-----------------------------------------------------------------------------
(* The "Same item?" prompt                                                  *)

\* The questions about the item (or all), newest first, from the one opened.
queueOf(data, i, start) ==
    LET wanted == {q \in DOMAIN data : i = NoItem \/ data[q] = i}
        list == SetToSortSeq(wanted, LAMBDA p, q : p > q)
        first == IF start \in wanted THEN CHOOSE n \in 1 .. Len(list) : list[n] = start ELSE 1 IN
    SubSeq(list, first, Len(list)) \o SubSeq(list, 1, first - 1)

Prompted(i, start, data) ==
    IF data = NoData THEN [NoPrompt EXCEPT !.item = i, !.start = start]
    ELSE [NoPrompt EXCEPT !.item = i, !.start = start, !.loaded = TRUE, !.queue = queueOf(data, i, start)]

onReview(q) ==
    /\ Act
    /\ MatchesOffers(q) \/ (DetailOffers /\ q \in Data(Top.item).asked)
    /\ LET i == IF Top.kind = "detail" THEN Top.item ELSE NoItem IN
       /\ prompt' = Prompted(i, q, Data(Matches))
       /\ Navigate(Push(Screen("match", i)), itemCache)
    /\ UNCHANGED <<catalogue, picked, drafts, calls, itemUntold>>

\* Back, then the item it became replaces the one under the prompt.
Closed(into) == IF into = NoItem THEN Popped ELSE Append(Front(Popped), Screen("detail", into))

Asking == Top.kind = "match" /\ prompt.loaded /\ prompt.at <= Len(prompt.queue)
Current == prompt.queue[prompt.at]
AnswerBusy == calls["answer"].pc # "none" /\ calls["answer"].here
LastOne == prompt.at + 1 > Len(prompt.queue)

\* The next question, or close after the last; an advance that forgets the item merged away.
advanceOnly(into, c, cs) ==
    IF LastOne THEN prompt' = NoPrompt /\ Navigate(Popped, c) /\ calls' = Left(cs)
    ELSE prompt' = [prompt EXCEPT !.at = @ + 1, !.failed = FALSE, !.into = into]
         /\ itemCache' = c /\ calls' = cs /\ UNCHANGED itemStack
advance(into, c, cs) ==
    IF LastOne THEN prompt' = NoPrompt /\ Navigate(Closed(into), c) /\ calls' = Left(cs)
    ELSE prompt' = [prompt EXCEPT !.at = @ + 1, !.failed = FALSE, !.into = into]
         /\ itemCache' = c /\ calls' = cs /\ UNCHANGED itemStack

Answer(what) ==
    /\ Act /\ Asking /\ calls["answer"].pc = "none"
    /\ Start("answer", [ItemCall(what, prompt.item, Current) EXCEPT !.fair = Current \in Open(catalogue)])
    /\ UNCHANGED <<catalogue, itemCache, itemStack, forms, itemUntold>>
onMergeItems == Answer("accept")
onKeep == Answer("reject")

Skip ==
    /\ Act /\ Asking /\ ~AnswerBusy
    /\ advance(prompt.into, itemCache, calls)
    /\ UNCHANGED <<catalogue, picked, drafts, itemUntold>>

Cancel ==
    /\ Act /\ Top.kind = "match"
    /\ prompt' = NoPrompt /\ Navigate(Closed(prompt.into), itemCache) /\ calls' = Left(calls)
    /\ UNCHANGED <<catalogue, picked, drafts, itemUntold>>

\* Nothing to ask: the effect closes it.
CloseEmpty ==
    /\ Top.kind = "match" /\ prompt.loaded /\ prompt.queue = <<>>
    /\ prompt' = NoPrompt /\ Navigate(Popped, itemCache) /\ calls' = Left(calls)
    /\ UNCHANGED <<catalogue, picked, drafts, itemUntold, itemWorld>>

-----------------------------------------------------------------------------
(* The Link items sheet                                                     *)

OpenLink ==
    /\ Act /\ DetailOffers
    /\ Navigate(Push(Screen("merge", Top.item)), itemCache) /\ picked' = NoItem
    /\ UNCHANGED <<catalogue, prompt, drafts, calls, itemUntold>>

Candidates == IF Has(CandidatesFor(Top.item)) THEN Data(CandidatesFor(Top.item)) \ {Top.item} ELSE {}
Pick(i) ==
    /\ Top.kind = "merge" /\ i \in Candidates /\ i # picked
    /\ picked' = i
    /\ UNCHANGED <<catalogue, itemCache, itemStack, prompt, drafts, calls, itemUntold, itemWorld>>

canLink == Top.kind = "merge" /\ picked \in Candidates /\ calls["merge"].pc = "none"
onLink ==
    /\ Act /\ canLink
    /\ Start("merge", [ItemCall("merge", Top.item, picked) EXCEPT
                        !.fair = Data(CandidatesFor(Top.item)) = Truth(catalogue, CandidatesFor(Top.item))
                                 /\ Top.item \in catalogue.alive])
    /\ UNCHANGED <<catalogue, itemCache, itemStack, forms, itemUntold>>

-----------------------------------------------------------------------------
(* The split screen                                                         *)

OpenSplit ==
    /\ Act /\ DetailOffers /\ Cardinality(Data(Top.item).lines) > 1
    /\ Navigate(Push(Screen("split", Top.item)), itemCache) /\ drafts' = <<NoDraft>>
    /\ UNCHANGED <<catalogue, prompt, picked, calls, itemUntold>>

SplitOffers == Top.kind = "split" /\ Has(Top.item)
EditDrafts(ds) ==
    /\ ds # drafts /\ drafts' = ds
    /\ UNCHANGED <<catalogue, itemCache, itemStack, prompt, picked, calls, itemUntold, itemWorld>>

\* To new item k, or back to the original (0); the first line names a draft nobody named.
move(l, k) ==
    EditDrafts([n \in 1 .. Len(drafts) |->
        LET without == drafts[n].lines \ {l} IN
        IF n # k THEN [drafts[n] EXCEPT !.lines = without]
        ELSE [name |-> IF drafts[n].name \in {"typed", "erased"} \/ without # {} THEN drafts[n].name ELSE "filled",
              lines |-> without \cup {l}]])

\* With one draft a tap moves the line in or out; with more, a sheet asks where.
onLine(l) ==
    /\ SplitOffers /\ l \in Data(Top.item).lines
    /\ IF Len(drafts) = 1 THEN move(l, IF l \in drafts[1].lines THEN 0 ELSE 1)
       ELSE \E k \in 0 .. Len(drafts) : move(l, k)

TypeName(k, name) == SplitOffers /\ EditDrafts([drafts EXCEPT ![k].name = name])
AddDraft == SplitOffers /\ Len(drafts) < MaxSplits /\ EditDrafts(Append(drafts, NoDraft))
RemoveDraft(k) == SplitOffers /\ k > 1 /\ EditDrafts(RemoveAt(drafts, k))

\* Every new item has a name and a line, and the original keeps one; or forgets to.
canSaveAll(lines, ds) == ds # <<>> /\ \A k \in 1 .. Len(ds) : ds[k].name \in {"filled", "typed"} /\ ds[k].lines # {}
canSaveSplit(lines, ds) ==
    /\ ds # <<>>
    /\ \A k \in 1 .. Len(ds) : ds[k].name \in {"filled", "typed"} /\ ds[k].lines # {}
    /\ lines \ UNION {ds[k].lines : k \in 1 .. Len(ds)} # {}

\* A draft keeps a line that a refetch took from the item: such a split is refused.
onSave ==
    /\ Act /\ SplitOffers /\ calls["split"].pc = "none"
    /\ canSaveSplit(Data(Top.item).lines, drafts) /\ catalogue.made + Len(drafts) <= MaxItems
    /\ Start("split", [ItemCall("split", Top.item, 0) EXCEPT
                        !.parts = [k \in 1 .. Len(drafts) |-> drafts[k].lines],
                        !.fair = Data(Top.item) = Truth(catalogue, Top.item)
                                 /\ \A k \in 1 .. Len(drafts) : drafts[k].lines \subseteq Data(Top.item).lines])
    /\ UNCHANGED <<catalogue, itemCache, itemStack, forms, itemUntold>>

-----------------------------------------------------------------------------
(* Calls are served and answered                                            *)

ChangedBy(c) == {k \in ItemKeys : Truth(c, k) # Truth(catalogue, k)}

Serve(h) ==
    /\ calls[h].pc = "sent"
    /\ catalogue.made + Len(calls[h].parts) <= MaxItems /\ (h = "alias" => catalogue.made < MaxItems)
    /\ IF ItemAccepts(catalogue, calls[h])
       THEN /\ catalogue' = After(catalogue, calls[h])
            /\ calls' = [calls EXCEPT ![h].pc = "done", ![h].result = Result(catalogue, calls[h])]
       ELSE calls' = [calls EXCEPT ![h].pc = "refused"] /\ UNCHANGED catalogue
    /\ UNCHANGED <<itemCache, itemStack, forms, itemUntold, itemWorld>>

CallLost(h) ==
    /\ Fault /\ calls[h].pc \in {"sent", "done"}
    /\ calls' = [calls EXCEPT ![h].pc = "lost"]
    /\ itemUntold' = IF calls[h].pc = "done" THEN ItemKeys ELSE itemUntold
    /\ UNCHANGED <<catalogue, itemCache, itemStack, forms>>

\* onSuccess of the hook refetches, wherever the user is; what follows is the screen's.
Told(h) == IF calls[h].pc = "done" THEN invalidate(itemCache) ELSE itemCache
Answered(h) ==
    /\ calls[h].pc \in {"done", "refused", "lost"}
    /\ itemUntold' = IF calls[h].pc = "done" THEN itemUntold \cup Overtaken ELSE itemUntold
    /\ UNCHANGED <<catalogue, itemWorld>>

ItemEnded(h) == [calls EXCEPT ![h] = Idle]

AnswerAnswered ==
    /\ Answered("answer")
    /\ LET r == calls["answer"]
           into == IF r.what = "accept" /\ r.pc = "done" /\ prompt.item # NoItem /\ r.item = prompt.item
                      /\ r.result # prompt.item THEN r.result ELSE prompt.into IN
       IF ~r.here THEN itemCache' = Told("answer") /\ calls' = ItemEnded("answer") /\ UNCHANGED <<itemStack, prompt>>
       ELSE IF r.pc = "lost"
       THEN /\ prompt' = [prompt EXCEPT !.failed = TRUE] /\ calls' = ItemEnded("answer")
            /\ UNCHANGED <<itemCache, itemStack>>
       ELSE advance(into, Told("answer"), ItemEnded("answer"))
    /\ UNCHANGED <<picked, drafts>>

Linked ==
    /\ Answered("merge")
    /\ IF calls["merge"].here /\ calls["merge"].pc = "done"
       THEN Navigate(Closed(calls["merge"].result), Told("merge")) /\ picked' = NoItem /\ calls' = Left(ItemEnded("merge"))
       ELSE itemCache' = Told("merge") /\ calls' = ItemEnded("merge") /\ UNCHANGED <<itemStack, picked>>
    /\ UNCHANGED <<prompt, drafts>>

SplitAnswered ==
    /\ Answered("split")
    /\ IF calls["split"].here /\ calls["split"].pc = "done"
       THEN /\ Navigate(Append(Popped, Screen("detail", calls["split"].result)), Told("split"))
            /\ drafts' = <<>> /\ calls' = Left(ItemEnded("split"))
       ELSE itemCache' = Told("split") /\ calls' = ItemEnded("split") /\ UNCHANGED <<itemStack, drafts>>
    /\ UNCHANGED <<prompt, picked>>

DetailAnswered(h) ==
    /\ h \in {"rename", "alias"} /\ Answered(h)
    /\ itemCache' = Told(h) /\ calls' = ItemEnded(h)
    /\ UNCHANGED <<itemStack, forms>>

-----------------------------------------------------------------------------
(* Reads, time, and the user's other device                                 *)

ServeRead(k) ==
    /\ itemCache[k].call = "asked"
    /\ itemCache' = [itemCache EXCEPT ![k] = IF Readable(catalogue, k) THEN Reads(@, Truth(catalogue, k)) ELSE Fail(@)]
    /\ itemUntold' = itemUntold \ {k}
    /\ UNCHANGED <<catalogue, itemStack, forms, calls, itemWorld>>

ReadLost(k) ==
    /\ Fault /\ InFlight(itemCache[k])
    /\ itemCache' = [itemCache EXCEPT ![k] = Fail(@)]
    /\ UNCHANGED <<catalogue, itemStack, forms, calls, itemUntold>>

\* The queue is derived once.  Only the list and the candidates have a staleTime.
ReadAnswered(k) ==
    /\ itemCache[k].call = "read"
    /\ itemCache' = [itemCache EXCEPT ![k] = [Arrived(@) EXCEPT !.fresh = k = ItemList \/ k > MaxItems]]
    /\ prompt' = IF Top.kind = "match" /\ ~prompt.loaded /\ k = Matches
                 THEN Prompted(prompt.item, prompt.start, itemCache[k].read) ELSE prompt
    /\ UNCHANGED <<catalogue, itemStack, picked, drafts, calls, itemUntold, itemWorld>>

Elapse ==
    /\ Act /\ \E k \in ItemKeys : itemCache[k].fresh
    /\ itemCache' = [k \in ItemKeys |-> [itemCache[k] EXCEPT !.fresh = FALSE]]
    /\ UNCHANGED <<catalogue, itemStack, forms, calls, itemUntold>>

\* Another device answers a question or renames an item.
Elsewhere(r) ==
    /\ Fault /\ ItemAccepts(catalogue, r)
    /\ catalogue' = After(catalogue, r)
    /\ itemUntold' = itemUntold \cup ChangedBy(catalogue')
    /\ calls' = [h \in ItemHooks |-> [calls[h] EXCEPT !.alone = FALSE]]
    /\ UNCHANGED <<itemCache, itemStack, forms>>
Elsewheres == {ItemCall(what, NoItem, q) : what \in {"accept", "reject"}, q \in Questions}
              \cup {ItemCall("rename", i, 0) : i \in Items}

-----------------------------------------------------------------------------

ItemInit ==
    /\ catalogue = [made |-> Cardinality({Owner0[l] : l \in Lines}), alive |-> {Owner0[l] : l \in Lines},
                    line |-> Owner0, new |-> {CHOOSE l \in Lines : Owner0[l] = i : i \in {Owner0[l] : l \in Lines}},
                    name |-> [n \in Receiptnames |-> Owner0[CHOOSE l \in Lines : Called[l] = n]],
                    title |-> [i \in Items |-> 0],
                    asked |-> [q \in Questions |-> [item |-> Asked0[q].item, other |-> Asked0[q].other,
                                                    status |-> "pending"]]]
    /\ itemCache = [k \in ItemKeys |-> IF k = ItemList THEN Loaded(Truth(catalogue, k)) ELSE Unloaded]
    /\ itemStack = <<Screen("list", NoItem)>>
    /\ prompt = NoPrompt /\ picked = NoItem /\ drafts = <<>>
    /\ calls = [h \in ItemHooks |-> Idle]
    /\ itemUntold = {} /\ itemActs = 0 /\ itemFaults = 0

ItemNext ==
    \/ \E i \in Items : OpenItem(i) \/ Pick(i)
    \/ OpenMatches \/ Back \/ onRenameItem \/ OpenLink \/ OpenSplit \/ onLink \/ onSave
    \/ \E n \in Receiptnames : onSplit(n)
    \/ \E q \in Questions : onReview(q)
    \/ onMergeItems \/ onKeep \/ Skip \/ Cancel \/ CloseEmpty
    \/ \E l \in Lines : onLine(l)
    \/ \E k \in 1 .. Len(drafts) : RemoveDraft(k) \/ (\E name \in {"typed", "erased"} : TypeName(k, name))
    \/ AddDraft
    \/ \E h \in ItemHooks : Serve(h) \/ CallLost(h) \/ DetailAnswered(h)
    \/ AnswerAnswered \/ Linked \/ SplitAnswered
    \/ \E k \in ItemKeys : ItemRetry(k) \/ ServeRead(k) \/ ReadLost(k) \/ ReadAnswered(k)
    \/ Elapse
    \/ \E r \in Elsewheres : Elsewhere(r)

ItemSpec == ItemInit /\ [][ItemNext]_itemVars

-----------------------------------------------------------------------------
(* Properties                                                               *)

\* Where a change that was made takes the user is an item that still is, unless
\* something else changed the items since it was sent, or the prompt was opened
\* for, or had moved to, an item that was gone (match.tsx close and advance,
\* merge.tsx doLink, split.tsx onSave).
LandsOnALiveItem ==
    [][\A h \in {"answer", "merge", "split"} :
        /\ calls[h].pc = "done" /\ calls'[h].pc = "none" /\ calls[h].alone
        /\ calls[h].what # "reject"
        /\ h = "answer" => prompt.into \in catalogue.alive \cup {NoItem}
        /\ itemStack' # itemStack /\ Last(itemStack').kind = "detail"
        => Last(itemStack').item \in catalogue.alive]_itemVars

\* What a screen offers, the server accepts: a request made from data that was
\* true then, with nothing else under way, is never refused (canSaveSplit and
\* split_lines, the prompt and _get_pending, the Link items sheet and merge).
OffersAreAccepted ==
    \A h \in ItemHooks : calls[h].pc = "refused" => ~(calls[h].alone /\ calls[h].fair)

\* Once no call is under way, what the screens show is what the server has, but
\* for what the app was not told, reads that failed, and a first read, or one no
\* screen waits for, under way when the app's own change ended (useItems.ts invalidate).
ItemsShownAreTrue ==
    (\A h \in ItemHooks : calls[h].pc = "none") =>
        \A k \in Mounted(itemStack) \ itemUntold :
            itemCache[k].call = "none" /\ Readable(catalogue, k) => itemCache[k].data = Truth(catalogue, k)

=============================================================================
