---------------------------- MODULE ScreensProofs ----------------------------
(***************************************************************************)
(* Proofs about what the screens leave in the server's rows, for any       *)
(* stores, categories, people and bounds: an area at a time.               *)
(***************************************************************************)
EXTENDS MCAreas, FoldProofs, SequenceTheorems

-----------------------------------------------------------------------------
(* Sequences of calls, whatever a call is.                                  *)

IsSeq(s) == s \in Seq({s[n] : n \in 1 .. Len(s)})
Without(s, k) == SubSeq(s, 1, k - 1) \o SubSeq(s, k + 1, Len(s))

LEMMA SeqIs ==
  ASSUME NEW S, NEW s \in Seq(S)
  PROVE  IsSeq(s) /\ Len(s) \in Nat
<1>1. s = [n \in 1 .. Len(s) |-> s[n]] /\ Len(s) \in Nat
  OBVIOUS
<1> DEFINE T == {s[n] : n \in 1 .. Len(s)}
<1>2. \A n \in 1 .. Len(s) : s[n] \in T
  OBVIOUS
<1> HIDE DEF T
<1>3. s \in Seq(T)
  BY <1>1, <1>2, IsASeq
<1> QED
  BY <1>1, <1>3 DEF IsSeq, T

LEMMA EmptyIsSeq == IsSeq(<<>>) /\ Len(<<>>) = 0
BY SeqIs, <<>> \in Seq({})

LEMMA IsSeqOf ==
  ASSUME NEW m \in Nat, NEW s, s = [n \in 1 .. m |-> s[n]]
  PROVE  IsSeq(s) /\ Len(s) = m
<1> DEFINE T == {s[n] : n \in 1 .. m}
<1>1. \A n \in 1 .. m : s[n] \in T
  OBVIOUS
<1> HIDE DEF T
<1>2. s \in Seq(T) /\ Len(s) = m
  BY <1>1, IsASeq
<1> QED
  BY <1>2, SeqIs

LEMMA LongerSeq ==
  ASSUME NEW s, IsSeq(s), NEW x
  PROVE  /\ IsSeq(Append(s, x)) /\ Len(Append(s, x)) = Len(s) + 1 /\ Len(s) \in Nat
         /\ \A n \in 1 .. Len(s) + 1 : Append(s, x)[n] = IF n <= Len(s) THEN s[n] ELSE x
<1> DEFINE T == {s[n] : n \in 1 .. Len(s)}
<1>1. s \in Seq(T)
  BY DEF IsSeq
<1> HIDE DEF T
<1>2. s \in Seq(T \cup {x})
  BY <1>1
<1>3. Append(s, x) \in Seq(T \cup {x})
  BY <1>2
<1>4. /\ Len(Append(s, x)) = Len(s) + 1 /\ Len(s) \in Nat
      /\ \A n \in 1 .. Len(s) + 1 : Append(s, x)[n] = IF n <= Len(s) THEN s[n] ELSE x
  BY <1>2, AppendProperties
<1>5. IsSeq(Append(s, x))
  BY <1>3, SeqIs
<1> QED
  BY <1>4, <1>5

LEMMA ShorterSeq ==
  ASSUME NEW s, IsSeq(s), NEW k \in 1 .. Len(s)
  PROVE  /\ IsSeq(Without(s, k)) /\ Len(Without(s, k)) = Len(s) - 1 /\ Len(s) \in Nat
         /\ \A i \in 1 .. Len(s) - 1 : Without(s, k)[i] = IF i < k THEN s[i] ELSE s[i + 1]
<1> DEFINE T == {s[n] : n \in 1 .. Len(s)}
           front == SubSeq(s, 1, k - 1)
           back == SubSeq(s, k + 1, Len(s))
<1>0. s \in Seq(T)
  BY DEF IsSeq
<1> HIDE DEF T
<1>1. Len(s) \in Nat /\ \A i \in 1 .. Len(s) : s[i] \in T
  BY <1>0
<1>2. front \in Seq(T) /\ Len(front) = k - 1 /\ \A i \in 1 .. k - 1 : front[i] = s[i]
  BY <1>1, SubSeqProperties
<1>3. back \in Seq(T) /\ Len(back) = Len(s) - k /\ \A i \in 1 .. Len(s) - k : back[i] = s[k + i]
  <2>1. \A i \in k + 1 .. Len(s) : s[i] \in T
    BY <1>1
  <2>2. /\ back \in Seq(T) /\ Len(back) = IF k + 1 <= Len(s) THEN Len(s) - (k + 1) + 1 ELSE 0
        /\ \A i \in 1 .. Len(s) - (k + 1) + 1 : back[i] = s[k + 1 + i - 1]
    BY <1>1, <2>1, SubSeqProperties
  <2> QED
    BY <1>1, <2>2
<1> HIDE DEF front, back
<1>4. /\ front \o back \in Seq(T) /\ Len(front \o back) = Len(front) + Len(back)
      /\ \A i \in 1 .. Len(front) + Len(back) :
           (front \o back)[i] = IF i <= Len(front) THEN front[i] ELSE back[i - Len(front)]
  BY <1>2, <1>3, ConcatProperties
<1>5. Without(s, k) = front \o back
  BY DEF Without, front, back
<1>6. Len(front \o back) = Len(s) - 1
  BY <1>1, <1>2, <1>3, <1>4
<1>7. ASSUME NEW i \in 1 .. Len(s) - 1 PROVE (front \o back)[i] = IF i < k THEN s[i] ELSE s[i + 1]
  <2>1. i \in 1 .. Len(front) + Len(back)
    BY <1>1, <1>2, <1>3
  <2>2. CASE i < k
    BY <1>1, <1>2, <1>4, <2>1, <2>2
  <2>3. CASE i >= k
    <3>1. i - (k - 1) \in 1 .. Len(s) - k /\ ~(i <= k - 1) /\ k + (i - (k - 1)) = i + 1
      BY <1>1, <2>3
    <3>2. (front \o back)[i] = back[i - (k - 1)]
      BY <1>2, <1>4, <2>1, <3>1
    <3> QED
      BY <1>3, <2>3, <3>1, <3>2
  <2>4. i < k \/ i >= k
    BY <1>1
  <2> QED
    BY <2>2, <2>3, <2>4
<1> QED
  BY <1>1, <1>4, <1>5, <1>6, <1>7, SeqIs

-----------------------------------------------------------------------------
(* Settings -> Stores: what the server holds, what a sheet shows of it, and *)
(* the merges under way.                                                    *)

Entering(Rows0) == Entries(Rows0)
CallFields == {"hook", "about", "to", "here", "pc", "answer", "ok", "waits"}
HeldFields == {"field", "muted", "premium", "into", "end"}

\* A merge ends at a store; a call keeps its shape.
IsMerge(c) == DOMAIN c = CallFields /\ (c.hook = "merge" => c.to \in Stores)

HeldInv == /\ held = [f \in HeldFields |-> held[f]] /\ held.into \in [Stores -> Stores]
           /\ StoreGroupsOneDeep
SentInv == IsSeq(sent) /\ \A n \in 1 .. Len(sent) : IsMerge(sent[n])
ShownInv == /\ alertCache = [k \in AlertKeys |-> alertCache[k]]
            /\ alertCache["stores"] \in Entering([Stores -> Stores])
GroupsInv == HeldInv /\ SentInv /\ ShownInv

\* Whatever becomes of an entry of the cache, it shows what a read brought.
LEMMA EntriesKept ==
  ASSUME NEW D, NEW e \in Entering(D), NEW d \in D, NEW mounted
  PROVE  /\ Ask(e) \in Entering(D) /\ Reads(e, d) \in Entering(D) /\ Fail(e) \in Entering(D)
         /\ Arrived(e) \in Entering(D) /\ [Arrived(e) EXCEPT !.fresh = FALSE] \in Entering(D)
         /\ Observe(e) \in Entering(D) /\ Refetch(e) \in Entering(D)
         /\ Invalidate(e, mounted) \in Entering(D)
<1> USE DEF Entering, Entries
<1>1. Ask(e) \in Entering(D) /\ Reads(e, d) \in Entering(D) /\ Fail(e) \in Entering(D)
  BY DEF Ask, Reads, Fail
<1>2. Arrived(e) \in Entering(D) /\ [Arrived(e) EXCEPT !.fresh = FALSE] \in Entering(D)
  BY DEF Arrived, Loaded
<1>3. Observe(e) \in Entering(D) /\ Refetch(e) \in Entering(D)
  BY <1>1 DEF Observe, Refetch
<1>4. [e EXCEPT !.fresh = FALSE] \in Entering(D)
  OBVIOUS
<1>5. Invalidate(e, mounted) \in Entering(D)
  <2> DEFINE stale == [e EXCEPT !.fresh = FALSE]
  <2>1. Ask(stale) \in Entering(D)
    BY <1>4 DEF Ask
  <2>2. Refetch(stale) \in Entering(D)
    BY <1>4, <2>1 DEF Refetch
  <2> QED
    BY <1>4, <2>2 DEF Invalidate
<1> QED
  BY <1>1, <1>2, <1>3, <1>5

LEMMA GroupsInit == AlertInit => GroupsInv
<1> SUFFICES ASSUME AlertInit PROVE GroupsInv
  BY DEF AlertInit
<1> USE DEF AlertInit
<1>1. held = [f \in HeldFields |-> held[f]] /\ held.into = [s \in Stores |-> s]
  BY DEF HeldFields
<1>2. HeldInv
  BY <1>1 DEF HeldInv, StoreGroupsOneDeep, Group
<1>3. SentInv
  BY EmptyIsSeq DEF SentInv
<1>4. ShownInv
  BY DEF ShownInv, AlertKeys, Unloaded, Entering, Entries
<1> QED
  BY <1>2, <1>3, <1>4 DEF GroupsInv

\* A merge takes the stores merged into its source along, and ends at a root.
LEMMA MergeStaysDeep ==
  ASSUME HeldInv, NEW s, NEW t \in Stores
  PROVE  LET into == Regroup(s, t).into IN
         /\ Regroup(s, t) = [f \in HeldFields |-> Regroup(s, t)[f]]
         /\ into \in [Stores -> Stores] /\ \A u \in Stores : into[into[u]] = into[u]
<1> DEFINE into == [u \in Stores |-> IF u = s \/ held.into[u] = s THEN held.into[t] ELSE held.into[u]]
<1>1. Regroup(s, t) = [held EXCEPT !.into = into]
  BY DEF Regroup, Group
<1>2. Regroup(s, t) = [f \in HeldFields |-> Regroup(s, t)[f]] /\ Regroup(s, t).into = into
  BY <1>1 DEF HeldInv, HeldFields
<1>3. /\ held.into \in [Stores -> Stores]
      /\ \A u \in Stores : held.into[held.into[u]] = held.into[u]
  BY DEF HeldInv, StoreGroupsOneDeep, Group
<1>4. into \in [Stores -> Stores] /\ \A u \in Stores : into[into[u]] = into[u]
  BY <1>3
<1> QED
  BY <1>2, <1>4

\* An unmerge sets a store on its own that no other is merged into.
LEMMA UnmergeStaysDeep ==
  ASSUME HeldInv, NEW s
  PROVE  LET h == [held EXCEPT !.into[s] = s] IN
         /\ h = [f \in HeldFields |-> h[f]]
         /\ h.into \in [Stores -> Stores] /\ \A u \in Stores : h.into[h.into[u]] = h.into[u]
<1> DEFINE h == [held EXCEPT !.into[s] = s]
           into == [held.into EXCEPT ![s] = s]
<1>1. h = [f \in HeldFields |-> h[f]] /\ h.into = into
  BY DEF HeldInv, HeldFields
<1>2. /\ held.into \in [Stores -> Stores]
      /\ \A u \in Stores : held.into[held.into[u]] = held.into[u]
  BY DEF HeldInv, StoreGroupsOneDeep, Group
<1>3. into \in [Stores -> Stores] /\ \A u \in Stores : into[into[u]] = into[u]
  BY <1>2
<1> QED
  BY <1>1, <1>3

\* Whatever call the server serves, its groups stay one deep.
LEMMA ServedStaysDeep ==
  ASSUME HeldInv, NEW c, IsMerge(c)
  PROVE  LET h == Served(c) IN
         /\ h = [f \in HeldFields |-> h[f]]
         /\ h.into \in [Stores -> Stores] /\ \A u \in Stores : h.into[h.into[u]] = h.into[u]
<1> DEFINE Deep(h) == /\ h = [f \in HeldFields |-> h[f]]
                      /\ h.into \in [Stores -> Stores] /\ \A u \in Stores : h.into[h.into[u]] = h.into[u]
<1>1. /\ held = [f \in HeldFields |-> held[f]] /\ held.into \in [Stores -> Stores]
      /\ \A u \in Stores : held.into[held.into[u]] = held.into[u]
  BY DEF HeldInv, StoreGroupsOneDeep, Group
<1>2. Deep([held EXCEPT !.end["item"] = c.to])
  BY <1>1 DEF HeldFields
<1>3. Deep(SetStoreEnd(c.about, c.to))
  BY <1>1 DEF HeldFields, SetStoreEnd
<1>4. c.hook = "merge" => Deep(Regroup(c.about, c.to))
  BY MergeStaysDeep DEF IsMerge
<1>5. Deep([held EXCEPT !.into[c.about] = c.about])
  BY UnmergeStaysDeep
<1>6. Deep([held EXCEPT !.muted = c.to])
  BY <1>1 DEF HeldFields
<1>7. Deep([held EXCEPT !.field = [f \in Fields |-> IF f \in DOMAIN c.to THEN c.to[f] ELSE @[f]]])
  BY <1>1 DEF HeldFields
<1> HIDE DEF Deep
<1>8. Deep(Served(c))
  <2>1. CASE c.hook = "muteItem"
    BY <1>2, <1>6, <2>1 DEF Served
  <2>2. CASE c.hook = "muteStore"
    BY <1>3, <1>6, <2>2 DEF Served
  <2>3. CASE c.hook = "merge"
    BY <1>4, <1>6, <2>3 DEF Served
  <2>4. CASE c.hook = "unmerge"
    BY <1>5, <1>6, <2>4 DEF Served
  <2>5. CASE c.hook \notin {"muteItem", "muteStore", "merge", "unmerge"}
    BY <1>6, <1>7, <2>5 DEF Served
  <2> QED
    BY <2>1, <2>2, <2>3, <2>4, <2>5
<1> QED
  BY <1>8 DEF Deep

\* A mutation of the screens adds a call that is no merge, or ends at a store.
LEMMA MutateKeeps ==
  ASSUME SentInv, NEW hook, NEW about, NEW to, hook = "merge" => to \in Stores,
         Mutate(hook, about, to)
  PROVE  SentInv'
<1> DEFINE was == [n \in 1 .. Len(sent) |-> [sent[n] EXCEPT !.here = @ /\ sent[n].hook # hook]]
           c == [hook |-> hook, about |-> about, to |-> to, here |-> TRUE, pc |-> "sent",
                 answer |-> NoData, ok |-> FALSE, waits |-> FALSE]
<1>1. Len(sent) \in Nat /\ \A n \in 1 .. Len(sent) : IsMerge(sent[n])
  BY SeqIs DEF SentInv, IsSeq
<1>2. IsSeq(was) /\ Len(was) = Len(sent)
  BY <1>1, IsSeqOf
<1>3. \A n \in 1 .. Len(was) : IsMerge(was[n])
  BY <1>1, <1>2 DEF IsMerge, CallFields
<1>4. IsMerge(c)
  BY DEF IsMerge, CallFields
<1>5. sent' = Append(was, c)
  BY DEF Mutate
<1> HIDE DEF was, c
<1>6. /\ IsSeq(sent') /\ Len(sent') = Len(was) + 1 /\ Len(was) \in Nat
      /\ \A n \in 1 .. Len(was) + 1 : sent'[n] = IF n <= Len(was) THEN was[n] ELSE c
  BY <1>2, <1>5, LongerSeq
<1>7. \A n \in 1 .. Len(sent') : IsMerge(sent'[n])
  BY <1>3, <1>4, <1>6
<1> QED
  BY <1>6, <1>7 DEF SentInv

\* So does a screen that is left, or a call whose state changes, or that ends.
LEMMA ChangesKeep ==
  ASSUME SentInv, sent' = [n \in 1 .. Len(sent) |-> sent'[n]],
         \A n \in 1 .. Len(sent) : IsMerge(sent'[n])
  PROVE  SentInv'
<1>1. Len(sent) \in Nat
  BY SeqIs DEF SentInv, IsSeq
<1> DEFINE s == sent'
<1>2. s = [n \in 1 .. Len(sent) |-> s[n]] /\ \A n \in 1 .. Len(sent) : IsMerge(s[n])
  OBVIOUS
<1> HIDE DEF s
<1>3. IsSeq(s) /\ Len(s) = Len(sent)
  BY <1>1, <1>2, IsSeqOf
<1>4. IsSeq(s) /\ \A n \in 1 .. Len(s) : IsMerge(s[n])
  BY <1>2, <1>3
<1> QED
  BY <1>4 DEF SentInv, s

LEMMA GoKeeps ==
  ASSUME SentInv, NEW kind, Go(kind)
  PROVE  SentInv'
<1>1. sent' = [n \in 1 .. Len(sent) |-> [sent[n] EXCEPT !.here = FALSE]]
  BY DEF Go
<1>2. \A n \in 1 .. Len(sent) : IsMerge(sent'[n])
  BY <1>1 DEF SentInv, IsMerge, CallFields
<1> QED
  BY <1>1, <1>2, ChangesKeep

LEMMA EndKeeps ==
  ASSUME SentInv, NEW k \in 1 .. Len(sent), sent' = RemoveAt(sent, k)
  PROVE  SentInv'
<1>1. sent' = Without(sent, k)
  BY DEF RemoveAt, Without
<1>2. /\ IsSeq(sent') /\ Len(sent') = Len(sent) - 1 /\ Len(sent) \in Nat
      /\ \A i \in 1 .. Len(sent) - 1 : sent'[i] = IF i < k THEN sent[i] ELSE sent[i + 1]
  BY <1>1, ShorterSeq DEF SentInv
<1>3. ASSUME NEW i \in 1 .. Len(sent') PROVE IsMerge(sent'[i])
  <2>1. i \in 1 .. Len(sent) /\ i + 1 \in 1 .. Len(sent)
    BY <1>2
  <2> QED
    BY <1>2, <2>1 DEF SentInv
<1> QED
  BY <1>2, <1>3 DEF SentInv

LEMMA StaleKeeps ==
  ASSUME ShownInv, NEW keys, alertCache' = Stale(keys)
  PROVE  ShownInv'
<1> DEFINE e == alertCache["stores"]
           shown == "stores" \in AlertShows(alertScreen)
<1>0. "stores" \in AlertKeys
  BY DEF AlertKeys
<1>1. alertCache' = [k \in AlertKeys |-> alertCache'[k]]
  BY DEF Stale
<1>2. alertCache'["stores"] = e \/ alertCache'["stores"] = Invalidate(e, shown)
  BY <1>0 DEF Stale
<1>3. e \in Entering([Stores -> Stores])
  BY DEF ShownInv
<1>4. [s \in Stores |-> s] \in [Stores -> Stores]
  OBVIOUS
<1>5. Invalidate(e, shown) \in Entering([Stores -> Stores])
  <2> HIDE DEF e, shown
  <2> QED
    BY <1>3, <1>4, EntriesKept
<1> QED
  BY <1>1, <1>2, <1>3, <1>5 DEF ShownInv

\* One entry changes in one of the ways of the cache.
LEMMA EntryKeeps ==
  ASSUME ShownInv, NEW k, NEW e, alertCache' = [alertCache EXCEPT ![k] = e],
         k = "stores" => e \in Entering([Stores -> Stores])
  PROVE  ShownInv'
BY DEF ShownInv, AlertKeys

LEMMA ScreenKeeps ==
  ASSUME ShownInv, NEW kind, Go(kind)
  PROVE  ShownInv'
<1> DEFINE e == alertCache["stores"]
<1>0. "stores" \in AlertKeys
  BY DEF AlertKeys
<1>1. alertCache' = [k \in AlertKeys |-> alertCache'[k]]
  BY DEF Go
<1>2. alertCache'["stores"] = e \/ alertCache'["stores"] = Observe(e)
  BY <1>0 DEF Go
<1>3. e \in Entering([Stores -> Stores]) /\ [s \in Stores |-> s] \in [Stores -> Stores]
  BY DEF ShownInv
<1>4. Observe(e) \in Entering([Stores -> Stores])
  <2> HIDE DEF e
  <2> QED
    BY <1>3, EntriesKept
<1> QED
  BY <1>1, <1>2, <1>3, <1>4 DEF ShownInv

\* A screen's rows are stores, once there are any.
LEMMA RowsAreStores ==
  ASSUME ShownInv, StoresOffer
  PROVE  StoreRows \subseteq Stores
<1>1. alertCache["stores"].data \in [Stores -> Stores]
  BY DEF ShownInv, StoresOffer, HasData, AlertData, Entering, Entries
<1> QED
  BY <1>1 DEF StoreRows, AlertData

\* What an action leaves alone keeps what is said of it.
LEMMA SameGroups ==
  /\ HeldInv /\ held' = held => HeldInv'
  /\ SentInv /\ sent' = sent => SentInv'
  /\ ShownInv /\ alertCache' = alertCache => ShownInv'
BY DEF HeldInv, SentInv, ShownInv, StoreGroupsOneDeep, Group, IsSeq

LEMMA ServeKeepsGroups ==
  ASSUME GroupsInv, NEW n \in 1 .. Len(sent), ServeSetting(n)
  PROVE  GroupsInv'
<1> USE DEF GroupsInv
<1>1. IsMerge(sent[n])
  BY DEF SentInv
<1>2. HeldInv'
  <2>1. CASE Allowed(sent[n])
    <3>1. held' = Served(sent[n])
      BY <2>1 DEF ServeSetting
    <3>2. /\ held' = [f \in HeldFields |-> held'[f]] /\ held'.into \in [Stores -> Stores]
          /\ \A u \in Stores : held'.into[held'.into[u]] = held'.into[u]
      BY <1>1, <3>1, ServedStaysDeep
    <3> QED
      BY <3>2 DEF HeldInv, StoreGroupsOneDeep, Group
  <2>2. CASE ~Allowed(sent[n])
    BY <2>2, SameGroups DEF ServeSetting
  <2> QED
    BY <2>1, <2>2
<1>3. SentInv'
  <2>1. sent' = [m \in 1 .. Len(sent) |-> sent'[m]] /\ \A m \in 1 .. Len(sent) : IsMerge(sent'[m])
    <3>1. \A m \in 1 .. Len(sent) : IsMerge(sent[m])
      BY DEF SentInv
    <3>2. sent = [m \in 1 .. Len(sent) |-> sent[m]]
      BY DEF SentInv, IsSeq
    <3> QED
      BY <3>1, <3>2 DEF ServeSetting, IsMerge, CallFields
  <2> QED
    BY <2>1, ChangesKeep
<1>4. ShownInv'
  BY SameGroups DEF ServeSetting
<1> QED
  BY <1>2, <1>3, <1>4

LEMMA CallsKeepGroups ==
  ASSUME GroupsInv, NEW n \in 1 .. Len(sent),
         \/ SettingLost(n) \/ SettingAnswered(n) \/ StoresAnswered(n)
         \/ MuteAnswered(n) \/ MuteSettled(n)
  PROVE  GroupsInv'
<1> USE DEF GroupsInv
<1>0. /\ \A m \in 1 .. Len(sent) : IsMerge(sent[m])
      /\ sent = [m \in 1 .. Len(sent) |-> sent[m]]
  BY DEF SentInv, IsSeq
<1>1. CASE SettingLost(n)
  <2>1. sent' = [m \in 1 .. Len(sent) |-> sent'[m]] /\ \A m \in 1 .. Len(sent) : IsMerge(sent'[m])
    BY <1>0, <1>1 DEF SettingLost, IsMerge, CallFields
  <2> QED
    BY <1>1, <2>1, ChangesKeep, SameGroups DEF SettingLost, alertForms
<1>2. CASE SettingAnswered(n)
  <2>1. ShownInv'
    <3>1. alertCache' = alertCache \/ \E k \in {"me", "prices"} :
            alertCache' = [alertCache EXCEPT ![k] = SetData(alertCache[k], sent[n].answer)]
      BY <1>2 DEF SettingAnswered
    <3> QED
      BY <3>1, EntryKeeps, SameGroups
  <2> QED
    BY <1>2, <2>1, EndKeeps, SameGroups DEF SettingAnswered, alertForms
<1>3. CASE StoresAnswered(n)
  BY <1>3, StaleKeeps, EndKeeps, SameGroups DEF StoresAnswered, alertForms
<1>4. CASE MuteAnswered(n)
  <2>1. sent' = [m \in 1 .. Len(sent) |-> sent'[m]] /\ \A m \in 1 .. Len(sent) : IsMerge(sent'[m])
    BY <1>0, <1>4 DEF MuteAnswered, IsMerge, CallFields
  <2> QED
    BY <1>4, <2>1, ChangesKeep, StaleKeeps, SameGroups DEF MuteAnswered, alertForms
<1>5. CASE MuteSettled(n)
  BY <1>5, EndKeeps, SameGroups DEF MuteSettled
<1> QED
  BY <1>1, <1>2, <1>3, <1>4, <1>5

\* A read brings what the server holds.
LEMMA ReadsKeepGroups ==
  ASSUME GroupsInv, NEW k \in AlertKeys,
         ServeAlertRead(k) \/ AlertReadLost(k) \/ AlertReadAnswered(k) \/ Retry(k)
  PROVE  GroupsInv'
<1> USE DEF GroupsInv
<1>1. HeldInv' /\ SentInv'
  BY SameGroups DEF ServeAlertRead, AlertReadLost, AlertReadAnswered, Retry
<1>2. k = "stores" => alertCache[k] \in Entering([Stores -> Stores])
  BY DEF ShownInv
<1>3. k = "stores" => AlertTruth(held, k) \in [Stores -> Stores]
  BY DEF HeldInv, AlertTruth
<1>4. [s \in Stores |-> s] \in [Stores -> Stores]
  OBVIOUS
<1>5. ShownInv'
  <2>1. CASE ServeAlertRead(k)
    <3>1. k = "stores" => Reads(alertCache[k], AlertTruth(held, k)) \in Entering([Stores -> Stores])
      BY <1>2, <1>3, EntriesKept
    <3> QED
      BY <2>1, <3>1, EntryKeeps DEF ServeAlertRead
  <2>2. CASE AlertReadLost(k)
    <3>1. k = "stores" => Fail(alertCache[k]) \in Entering([Stores -> Stores])
      BY <1>2, <1>4, EntriesKept
    <3> QED
      BY <2>2, <3>1, EntryKeeps DEF AlertReadLost
  <2>3. CASE AlertReadAnswered(k)
    <3>1. k = "stores" => [Arrived(alertCache[k]) EXCEPT !.fresh = FALSE] \in Entering([Stores -> Stores])
      BY <1>2, <1>4, EntriesKept
    <3> QED
      BY <2>3, <3>1, EntryKeeps DEF AlertReadAnswered
  <2>4. CASE Retry(k)
    <3>1. k = "stores" => Refetch(alertCache[k]) \in Entering([Stores -> Stores])
      BY <1>2, <1>4, EntriesKept
    <3> QED
      BY <2>4, <3>1, EntryKeeps DEF Retry
  <2> QED
    BY <2>1, <2>2, <2>3, <2>4
<1> QED
  BY <1>1, <1>5

\* What the user does sends a call, or goes to another screen.
LEMMA UserKeepsGroups ==
  ASSUME GroupsInv,
         \/ \E kind \in AlertKinds : OpenAlerts(kind)
         \/ LeaveAlerts \/ setItemAlerts \/ openItemUntil \/ onClose \/ CloseMerge
         \/ \E s \in Stores : setStoreAlerts(s) \/ onMerge(s) \/ onPick(s) \/ onUnmerge(s)
         \/ \E end \in Ends : choose(end)
         \/ (\E f \in Flags : setFlag(f)) \/ (\E f \in PriceFields : savePrice(f))
         \/ \E c \in Categories : setCategoryAlerts(c)
         \/ \E k \in Switches : startUnmute(k)
  PROVE  GroupsInv'
<1> USE DEF GroupsInv
<1>1. CASE (\E kind \in AlertKinds : OpenAlerts(kind)) \/ LeaveAlerts
  <2>1. held' = held /\ \E kind : Go(kind)
    BY <1>1 DEF OpenAlerts, LeaveAlerts
  <2> QED
    BY <2>1, GoKeeps, ScreenKeeps, SameGroups
<1>2. CASE openItemUntil \/ onClose \/ CloseMerge \/ \E s \in Stores : onMerge(s)
  BY <1>2, SameGroups DEF openItemUntil, onClose, CloseMerge, onMerge
<1>3. CASE \E s \in Stores : onPick(s)
  <2>1. PICK s \in Stores : onPick(s)
    BY <1>3
  <2>2. Mutate("merge", mergeSource, s) /\ held' = held /\ alertCache' = alertCache
    BY <2>1 DEF onPick
  <2> QED
    BY <2>2, MutateKeeps, SameGroups
<1>4. ASSUME held' = held, alertCache' = alertCache,
             \/ sent' = sent
             \/ \E about, to : \E hook \in {"muteItem", "muteStore", "prefs", "prices", "unmerge"} :
                  Mutate(hook, about, to)
      PROVE  GroupsInv'
  <2>1. SentInv'
    <3>1. CASE sent' = sent
      BY <3>1, SameGroups
    <3>2. ASSUME NEW about, NEW to, NEW hook \in {"muteItem", "muteStore", "prefs", "prices", "unmerge"},
                 Mutate(hook, about, to)
          PROVE  SentInv'
      BY <3>2, MutateKeeps
    <3> QED
      BY <1>4, <3>1, <3>2
  <2> QED
    BY <1>4, <2>1, SameGroups
<1> DEFINE Sends == \E about, to : \E hook \in {"muteItem", "muteStore", "prefs", "prices", "unmerge"} :
                      Mutate(hook, about, to)
<1>5. ASSUME NEW key, NEW end, Saves(key, end) PROVE Sends
  BY <1>5 DEF Saves
<1>6. CASE setItemAlerts
  <2>1. held' = held /\ alertCache' = alertCache /\ Sends
    <3>1. \E end : Saves("item", end)
      BY <1>6 DEF setItemAlerts
    <3> QED
      BY <1>5, <1>6, <3>1 DEF setItemAlerts
  <2> QED
    BY <1>4, <2>1
<1>7. CASE (\E s \in Stores : setStoreAlerts(s)) \/ \E end \in Ends : choose(end)
  <2>1. held' = held /\ alertCache' = alertCache
    BY <1>7 DEF setStoreAlerts, choose
  <2>2. sent' = sent \/ \E key, end : Saves(key, end)
    BY <1>7 DEF setStoreAlerts, choose
  <2> QED
    BY <1>4, <1>5, <2>1, <2>2
<1>8. CASE \/ (\E s \in Stores : onUnmerge(s)) \/ (\E f \in Flags : setFlag(f))
           \/ (\E f \in PriceFields : savePrice(f))
           \/ (\E c \in Categories : setCategoryAlerts(c)) \/ \E k \in Switches : startUnmute(k)
  <2>1. held' = held /\ alertCache' = alertCache
    BY <1>8 DEF onUnmerge, setFlag, savePrice, setCategoryAlerts, startUnmute
  <2>2. Sends
    BY <1>8 DEF onUnmerge, setFlag, savePrice, setCategoryAlerts, startUnmute
  <2> QED
    BY <1>4, <2>1, <2>2
<1> QED
  BY <1>1, <1>2, <1>3, <1>6, <1>7, <1>8

LEMMA GroupsStep == GroupsInv /\ [AlertNext]_alertVars => GroupsInv'
<1> SUFFICES ASSUME GroupsInv, [AlertNext]_alertVars PROVE GroupsInv'
  OBVIOUS
<1>1. CASE UNCHANGED alertVars
  BY <1>1, SameGroups DEF alertVars, GroupsInv
<1>2. ASSUME NEW n \in 1 .. Len(sent), ServeSetting(n) PROVE GroupsInv'
  BY <1>2, ServeKeepsGroups
<1>3. CASE Lapse
  <2>1. held' = [held EXCEPT !.premium = FALSE]
    BY <1>3 DEF Lapse
  <2>2. held' = [f \in HeldFields |-> held'[f]] /\ held'.into = held.into
    BY <2>1 DEF GroupsInv, HeldInv, HeldFields
  <2> QED
    BY <1>3, <2>2, SameGroups DEF Lapse, GroupsInv, HeldInv, StoreGroupsOneDeep, Group
<1> QED
  BY <1>1, <1>2, <1>3, CallsKeepGroups, ReadsKeepGroups, UserKeepsGroups DEF AlertNext

-----------------------------------------------------------------------------
(* What the user set, the calls that say so, and what the server holds.     *)

Settings == {"prefs", "prices"}
AlertHooks == Settings \cup {"muteItem", "muteStore", "merge", "unmerge"}
HookOf(k) == IF k \in PriceFields THEN "prices" ELSE "prefs"
Unserved(c) == c.hook \in Settings /\ c.pc = "sent"
Alike(c, d) == d.hook = c.hook /\ d.about = c.about /\ d.to = c.to

\* What a call sends: its field, or with a category the whole list.
Sends(c, k) == k = c.about \/ (k \in Categories /\ c.about \in Categories)
Meant(to, k) == IF k \in Categories THEN InList(to, k) ELSE to[k]

\* A call for a setting goes by the hook of it, and for a field sends that field.
Asks(c) ==
  /\ c.hook \in AlertHooks
  /\ c.hook \in Settings => /\ c.about \in Settable /\ c.hook = HookOf(c.about)
                            /\ c.about \in Fields => c.to = [g \in {c.about} |-> c.to[c.about]]

\* What is wanted is what every call yet to be served sends of it; and where none
\* was made for it that has yet to be served, the server holds it.
WantInv ==
  /\ held.field = [f \in Fields |-> held.field[f]] /\ wanted = [k \in Settable |-> wanted[k]]
  /\ \A n \in 1 .. Len(sent) : Asks(sent[n])
  /\ \A n \in 1 .. Len(sent) : Unserved(sent[n]) =>
       \A k \in Settable : Sends(sent[n], k) /\ wanted[k] # "any" => Meant(sent[n].to, k) = wanted[k]
  /\ \A k \in Settable :
       wanted[k] # "any" /\ (\A n \in 1 .. Len(sent) : sent[n].about = k => ~Unserved(sent[n]))
         => Setting(held, k) = wanted[k]

LEMMA NoneIsBoth ==
  /\ Flags \cap PriceFields = {} /\ Categories \cap Fields = {}
  /\ Flags \subseteq Fields /\ PriceFields \subseteq Fields /\ Settable = Fields \cup Categories
BY AlertsAssumption DEF Fields, PriceFields, Settable

LEMMA AlikeAsks ==
  ASSUME NEW c, NEW d, Asks(c), Alike(c, d)
  PROVE  Asks(d)
<1> DEFINE hook == c.hook
           about == c.about
           to == c.to
<1>1. d.hook = hook /\ d.about = about /\ d.to = to /\ c.hook = hook /\ c.about = about /\ c.to = to
  BY DEF Alike
<1> HIDE DEF hook, about, to
<1> QED
  BY <1>1 DEF Asks

LEMMA WantBegins == AlertInit => WantInv
<1> SUFFICES ASSUME AlertInit PROVE WantInv
  OBVIOUS
<1>1. /\ sent = <<>> /\ held.field = [f \in Fields |-> "on"] /\ held.muted = {}
      /\ wanted = [k \in Settable |-> "on"]
  BY DEF AlertInit
<1>2. Len(sent) = 0
  BY <1>1, EmptyIsSeq
<1>3. \A k \in Settable : Setting(held, k) = "on"
  BY <1>1 DEF Setting, InList, Settable
<1> QED
  BY <1>1, <1>2, <1>3 DEF WantInv

\* The same calls for settings, but for one given up with what it was to set.
LEMMA WantStays ==
  ASSUME WantInv, held'.field = held.field, held'.muted = held.muted,
         wanted' = [k \in Settable |-> wanted'[k]], \A k \in Settable : wanted'[k] \in {wanted[k], "any"},
         \A n \in 1 .. Len(sent') :
           /\ Asks(sent'[n])
           /\ Unserved(sent'[n]) => \E m \in 1 .. Len(sent) : Unserved(sent[m]) /\ Alike(sent[m], sent'[n]),
         \A m \in 1 .. Len(sent) :
           Unserved(sent[m]) => \/ wanted'[sent[m].about] = "any"
                                \/ \E n \in 1 .. Len(sent') : Unserved(sent'[n]) /\ Alike(sent[m], sent'[n])
  PROVE  WantInv'
<1>1. /\ held'.field = [f \in Fields |-> held'.field[f]] /\ wanted' = [k \in Settable |-> wanted'[k]]
      /\ \A n \in 1 .. Len(sent') : Asks(sent'[n])
  BY DEF WantInv
<1>2. ASSUME NEW n \in 1 .. Len(sent'), Unserved(sent'[n]), NEW k \in Settable, Sends(sent'[n], k),
             wanted'[k] # "any"
      PROVE  Meant(sent'[n].to, k) = wanted'[k]
  <2>1. PICK m \in 1 .. Len(sent) : Unserved(sent[m]) /\ Alike(sent[m], sent'[n])
    BY <1>2
  <2>2. Sends(sent[m], k) /\ sent'[n].to = sent[m].to
    BY <1>2, <2>1 DEF Sends, Alike
  <2>3. wanted'[k] = wanted[k] /\ wanted[k] # "any"
    BY <1>2
  <2> QED
    BY <2>1, <2>2, <2>3 DEF WantInv
<1>3. ASSUME NEW k \in Settable, wanted'[k] # "any",
             \A n \in 1 .. Len(sent') : sent'[n].about = k => ~Unserved(sent'[n])
      PROVE  Setting(held', k) = wanted'[k]
  <2>1. wanted'[k] = wanted[k]
    BY <1>3
  <2>2. \A m \in 1 .. Len(sent) : sent[m].about = k => ~Unserved(sent[m])
    BY <1>3 DEF Alike
  <2>3. Setting(held, k) = wanted[k]
    BY <1>3, <2>1, <2>2 DEF WantInv
  <2> QED
    BY <2>1, <2>3 DEF Setting
<1> QED
  BY <1>1, <1>2, <1>3 DEF WantInv, Setting

\* A setting changed on its screen: what else is wanted is what the call sends.
LEMMA WantAsked ==
  ASSUME WantInv, SentInv, NEW k \in Settable, NEW to, held' = held, Mutate(HookOf(k), k, to),
         k \in Fields => to = [g \in {k} |-> to[k]],
         wanted' = [j \in Settable |-> wanted'[j]],
         \A j \in Settable \ {k} : wanted'[j] \in {wanted[j], "any"},
         wanted'[k] # "any" => \A n \in 1 .. Len(sent) : Unserved(sent[n]) => ~Sends(sent[n], k),
         \A j \in Settable : (j = k \/ {j, k} \subseteq Categories) /\ wanted'[j] # "any" => Meant(to, j) = wanted'[j]
  PROVE  WantInv'
<1> DEFINE hook == HookOf(k)
           was == [n \in 1 .. Len(sent) |-> [sent[n] EXCEPT !.here = @ /\ sent[n].hook # hook]]
           c == [hook |-> hook, about |-> k, to |-> to, here |-> TRUE, pc |-> "sent",
                 answer |-> NoData, ok |-> FALSE, waits |-> FALSE]
<1>1. Len(sent) \in Nat /\ \A n \in 1 .. Len(sent) : IsMerge(sent[n])
  BY SeqIs DEF SentInv, IsSeq
<1>2. IsSeq(was) /\ Len(was) = Len(sent)
  BY <1>1, IsSeqOf
<1>3. \A n \in 1 .. Len(sent) : Alike(sent[n], was[n]) /\ was[n].pc = sent[n].pc
  BY <1>1 DEF IsMerge, CallFields, Alike
<1>4. hook \in Settings /\ hook = HookOf(k) /\ c.hook = hook /\ c.about = k /\ c.to = to /\ c.pc = "sent"
  BY DEF HookOf, Settings
<1>5. sent' = Append(was, c)
  BY DEF Mutate
<1> HIDE DEF was, c, hook
<1>7. /\ Len(sent') = Len(sent) + 1
      /\ \A n \in 1 .. Len(sent) + 1 : sent'[n] = IF n <= Len(sent) THEN was[n] ELSE c
  BY <1>2, <1>5, LongerSeq
<1>8. /\ \A n \in 1 .. Len(sent) : n \in 1 .. Len(sent') /\ Alike(sent[n], sent'[n]) /\ sent'[n].pc = sent[n].pc
      /\ \A n \in 1 .. Len(sent') : n \in 1 .. Len(sent) \/ sent'[n] = c
      /\ Len(sent') \in 1 .. Len(sent') /\ sent'[Len(sent')] = c
  BY <1>1, <1>3, <1>7
<1>10. Asks(c)
  BY <1>4 DEF Asks, AlertHooks
<1>11. ASSUME NEW n \in 1 .. Len(sent') PROVE Asks(sent'[n])
  <2>1. CASE n \in 1 .. Len(sent)
    BY <1>8, <2>1, AlikeAsks DEF WantInv
  <2> QED
    BY <1>8, <1>10, <2>1
<1>12. ASSUME NEW n \in 1 .. Len(sent'), Unserved(sent'[n]), NEW j \in Settable, Sends(sent'[n], j),
              wanted'[j] # "any"
       PROVE  Meant(sent'[n].to, j) = wanted'[j]
  <2>1. CASE n \in 1 .. Len(sent)
    <3>1. Unserved(sent[n]) /\ Sends(sent[n], j) /\ sent'[n].to = sent[n].to
      BY <1>8, <1>12, <2>1 DEF Unserved, Sends, Alike
    <3>2. j # k
      BY <1>12, <2>1, <3>1
    <3>3. wanted'[j] = wanted[j] /\ wanted[j] # "any"
      BY <1>12, <3>2
    <3> QED
      BY <2>1, <3>1, <3>3 DEF WantInv
  <2>2. CASE sent'[n] = c
    BY <1>4, <1>12, <2>2 DEF Sends
  <2> QED
    BY <1>8, <2>1, <2>2
<1>13. ASSUME NEW j \in Settable, wanted'[j] # "any",
              \A n \in 1 .. Len(sent') : sent'[n].about = j => ~Unserved(sent'[n])
       PROVE  Setting(held', j) = wanted'[j]
  <2>1. j # k
    BY <1>4, <1>8, <1>13 DEF Unserved
  <2>2. \A n \in 1 .. Len(sent) : sent[n].about = j => ~Unserved(sent[n])
    BY <1>8, <1>13 DEF Unserved, Alike
  <2>3. wanted'[j] = wanted[j]
    BY <1>13, <2>1
  <2> QED
    BY <1>13, <2>2, <2>3 DEF WantInv
<1>14. held'.field = [g \in Fields |-> held'.field[g]]
  BY DEF WantInv
<1> QED
  BY <1>11, <1>12, <1>13, <1>14 DEF WantInv, Setting

LEMMA FieldAsked ==
  ASSUME WantInv, SentInv, NEW f \in Fields, NEW v, NEW shown, held' = held,
         Wants(HookOf(f), f, v), Mutate(HookOf(f), f, OneField(f, v, shown))
  PROVE  WantInv'
<1> DEFINE to == OneField(f, v, shown)
<1>1. to = [g \in {f} |-> v] /\ to[f] = v /\ to = [g \in {f} |-> to[f]]
  BY DEF OneField
<1>2. /\ wanted' = [j \in Settable |-> wanted'[j]] /\ f \in Settable /\ f \notin Categories
      /\ wanted'[f] = IF UnderWay(HookOf(f), f) THEN "any" ELSE v
      /\ \A j \in Settable \ {f} : wanted'[j] \in {wanted[j], "any"}
  BY NoneIsBoth DEF Wants, WantInv
<1>3. \A n \in 1 .. Len(sent) : Unserved(sent[n]) /\ Sends(sent[n], f) => UnderWay(HookOf(f), f)
  BY <1>2 DEF UnderWay, Unserved, Sends, WantInv, Asks
<1>4. \A j \in Settable : (j = f \/ {j, f} \subseteq Categories) /\ wanted'[j] # "any" => Meant(to, j) = wanted'[j]
  BY <1>1, <1>2 DEF Meant
<1>5. Mutate(HookOf(f), f, to)
  OBVIOUS
<1> HIDE DEF to
<1> QED
  BY <1>1, <1>2, <1>3, <1>4, <1>5, WantAsked

LEMMA ListAsked ==
  ASSUME WantInv, SentInv, NEW c \in Categories, NEW muted, held' = held,
         WantsInList(c, muted), Mutate("prefs", c, WholeList(c, muted))
  PROVE  WantInv'
<1> DEFINE to == WholeList(c, muted)
<1>1. /\ InList(to, c) = Other(InList(muted, c))
      /\ \A j \in Categories \ {c} : InList(to, j) = InList(muted, j)
  BY DEF WholeList, InList, Other
<1>2. c \in Settable /\ c \notin Fields /\ HookOf(c) = "prefs" /\ Settable = Fields \cup Categories
      /\ Categories \cap Fields = {}
  BY NoneIsBoth DEF HookOf
<1>3. /\ wanted' = [k \in Settable |-> wanted'[k]]
      /\ \A k \in Settable : wanted'[k] =
           IF k \in Fields THEN wanted[k]
           ELSE IF \E d \in Categories : UnderWay("prefs", d) THEN "any"
           ELSE IF k = c THEN Other(InList(muted, c))
           ELSE IF wanted[k] = InList(muted, k) THEN wanted[k] ELSE "any"
  BY DEF WantsInList
<1>4. ASSUME wanted'[c] # "any", NEW n \in 1 .. Len(sent), Unserved(sent[n]) PROVE ~Sends(sent[n], c)
  <2>1. ~\E d \in Categories : UnderWay("prefs", d)
    BY <1>2, <1>3, <1>4
  <2>2. sent[n].about \in Categories => sent[n].hook = "prefs"
    BY <1>2, <1>4, NoneIsBoth DEF WantInv, Asks, Unserved, HookOf
  <2> QED
    BY <2>1, <2>2 DEF UnderWay, Sends
<1>5. \A j \in Settable \ {c} : wanted'[j] \in {wanted[j], "any"}
  BY <1>2, <1>3
<1>6. \A j \in Settable : (j = c \/ {j, c} \subseteq Categories) /\ wanted'[j] # "any" => Meant(to, j) = wanted'[j]
  BY <1>1, <1>2, <1>3 DEF Meant
<1>7. Mutate(HookOf(c), c, to)
  BY <1>2
<1>8. wanted'[c] # "any" => \A n \in 1 .. Len(sent) : Unserved(sent[n]) => ~Sends(sent[n], c)
  BY <1>4
<1>9. c \in Fields => to = [g \in {c} |-> to[c]]
  BY <1>2
<1>10. wanted' = [j \in Settable |-> wanted'[j]]
  BY <1>3
<1> HIDE DEF to
<1> QED
  BY <1>2, <1>5, <1>6, <1>7, <1>8, <1>9, <1>10, WantAsked

\* The server serves a call: what it sends is as it says.
LEMMA WantServed ==
  ASSUME WantInv, SentInv, HeldInv, NEW n \in 1 .. Len(sent), ServeSetting(n)
  PROVE  WantInv'
<1> DEFINE c == sent[n]
<1>1. /\ wanted' = wanted /\ c.pc = "sent" /\ Asks(c)
      /\ IF Allowed(c) THEN held' = Served(c) ELSE held' = held
  BY DEF ServeSetting, WantInv
<1>2. /\ Len(sent) \in Nat /\ sent = [m \in 1 .. Len(sent) |-> sent[m]]
      /\ \A m \in 1 .. Len(sent) : IsMerge(sent[m])
  BY SeqIs DEF SentInv, IsSeq
<1>3. /\ sent' = [m \in 1 .. Len(sent) |-> sent'[m]]
      /\ \A m \in 1 .. Len(sent) : Alike(sent[m], sent'[m])
      /\ \A m \in 1 .. Len(sent) : m # n => sent'[m].pc = sent[m].pc
      /\ sent'[n].pc = "done"
  BY <1>2 DEF ServeSetting, IsMerge, CallFields, Alike
<1>4. Len(sent') = Len(sent)
  <2> DEFINE s == sent'
  <2>1. s = [m \in 1 .. Len(sent) |-> s[m]]
    BY <1>3
  <2> HIDE DEF s
  <2>2. Len(s) = Len(sent)
    BY <1>2, <2>1, IsSeqOf
  <2> QED
    BY <2>2 DEF s
<1>5. /\ held = [f \in HeldFields |-> held[f]] /\ held.field = [f \in Fields |-> held.field[f]]
      /\ wanted = [k \in Settable |-> wanted[k]]
  BY DEF HeldInv, WantInv
<1>6. c.hook \notin Settings => held'.field = held.field /\ held'.muted = held.muted
  <2> SUFFICES ASSUME c.hook \notin Settings, Allowed(c)
               PROVE  Served(c).field = held.field /\ Served(c).muted = held.muted
    BY <1>1
  <2>1. c.hook \in {"muteItem", "muteStore", "merge", "unmerge"}
    BY <1>1 DEF Asks, AlertHooks, Settings
  <2>2. CASE c.hook = "muteItem"
    <3>1. Served(c) = [held EXCEPT !.end["item"] = c.to]
      BY <2>2 DEF Served
    <3> QED
      BY <1>5, <3>1 DEF HeldFields
  <2>3. CASE c.hook = "muteStore"
    <3>1. \E e : Served(c) = [held EXCEPT !.end = e]
      BY <2>3 DEF Served, SetStoreEnd
    <3> QED
      BY <1>5, <3>1 DEF HeldFields
  <2>4. CASE c.hook = "merge"
    <3>1. \E e : Served(c) = [held EXCEPT !.into = e]
      BY <2>4 DEF Served, Regroup
    <3> QED
      BY <1>5, <3>1 DEF HeldFields
  <2>5. CASE c.hook = "unmerge"
    <3>1. Served(c) = [held EXCEPT !.into[c.about] = c.about]
      BY <2>5 DEF Served
    <3> QED
      BY <1>5, <3>1 DEF HeldFields
  <2> QED
    BY <2>1, <2>2, <2>3, <2>4, <2>5
<1>7. ASSUME c.hook \in Settings
      PROVE  /\ held'.field = [f \in Fields |-> held'.field[f]]
             /\ \A k \in Settable : Setting(held', k) = IF Sends(c, k) THEN Meant(c.to, k) ELSE Setting(held, k)
  <2>1. Allowed(c) /\ c.hook \in {"prefs", "prices"} /\ c.about \in Settable
    BY <1>1, <1>7 DEF Asks, Settings, Allowed
  <2>2. CASE c.about \in Categories
    <3>1. c.hook = "prefs" /\ held' = [held EXCEPT !.muted = c.to]
      BY <1>1, <1>7, <2>1, <2>2, NoneIsBoth DEF Served, Asks, HookOf
    <3>2. held'.field = held.field /\ held'.muted = c.to
      BY <1>5, <3>1 DEF HeldFields
    <3> QED
      BY <1>5, <2>2, <3>2, NoneIsBoth DEF Setting, Sends, Meant
  <2>3. CASE c.about \notin Categories
    <3>1. c.about \in Fields /\ c.to = [g \in {c.about} |-> c.to[c.about]]
      BY <1>1, <1>7, <2>1, <2>3, NoneIsBoth DEF Asks
    <3>2. DOMAIN c.to = {c.about}
      BY <3>1
    <3>3. held' = [held EXCEPT !.field = [f \in Fields |-> IF f \in DOMAIN c.to THEN c.to[f] ELSE @[f]]]
      BY <1>1, <2>1, <2>3 DEF Served
    <3>4. /\ held'.field = [f \in Fields |-> IF f \in DOMAIN c.to THEN c.to[f] ELSE held.field[f]]
          /\ held'.muted = held.muted
      BY <1>5, <3>3 DEF HeldFields
    <3>5. \A f \in Fields : held'.field[f] = IF f = c.about THEN c.to[f] ELSE held.field[f]
      BY <3>2, <3>4
    <3> QED
      BY <2>3, <3>4, <3>5, NoneIsBoth DEF Setting, Sends, Meant
  <2> QED
    BY <2>2, <2>3
<1>8. \A m \in 1 .. Len(sent') : Asks(sent'[m])
  BY <1>3, <1>4, AlikeAsks DEF WantInv
<1>9. ASSUME NEW m \in 1 .. Len(sent'), Unserved(sent'[m]), NEW k \in Settable, Sends(sent'[m], k),
             wanted'[k] # "any"
      PROVE  Meant(sent'[m].to, k) = wanted'[k]
  <2>1. m # n /\ m \in 1 .. Len(sent) /\ Unserved(sent[m]) /\ Sends(sent[m], k) /\ sent'[m].to = sent[m].to
    BY <1>3, <1>4, <1>9 DEF Unserved, Sends, Alike
  <2> QED
    BY <1>1, <1>9, <2>1 DEF WantInv
<1>10. ASSUME NEW k \in Settable, wanted'[k] # "any",
              \A m \in 1 .. Len(sent') : sent'[m].about = k => ~Unserved(sent'[m])
       PROVE  Setting(held', k) = wanted'[k]
  <2>1. CASE c.hook \in Settings /\ Sends(c, k)
    <3>1. Setting(held', k) = Meant(c.to, k)
      BY <1>7, <2>1
    <3>2. Unserved(c) /\ wanted[k] # "any"
      BY <1>1, <1>10, <2>1 DEF Unserved
    <3> QED
      BY <1>1, <2>1, <3>1, <3>2 DEF WantInv
  <2>2. CASE ~(c.hook \in Settings /\ Sends(c, k))
    <3>1. Setting(held', k) = Setting(held, k)
      BY <1>6, <1>7, <2>2 DEF Setting
    <3>2. ASSUME NEW m \in 1 .. Len(sent), sent[m].about = k PROVE ~Unserved(sent[m])
      <4>1. CASE m = n
        BY <2>2, <3>2, <4>1 DEF Unserved, Sends
      <4>2. CASE m # n
        BY <1>3, <1>4, <1>10, <3>2, <4>2 DEF Unserved, Alike
      <4> QED
        BY <4>1, <4>2
    <3> QED
      BY <1>1, <1>10, <3>1, <3>2 DEF WantInv
  <2> QED
    BY <2>1, <2>2
<1>11. held'.field = [f \in Fields |-> held'.field[f]]
  BY <1>5, <1>6, <1>7
<1> QED
  BY <1>1, <1>5, <1>8, <1>9, <1>10, <1>11 DEF WantInv, Setting

\* A call for something else; the hook's earlier calls stay what they are.
LEMMA WantElse ==
  ASSUME WantInv, SentInv, NEW hook, NEW about, NEW to, held' = held, wanted' = wanted, Mutate(hook, about, to),
         hook \in AlertHooks \ Settings
  PROVE  WantInv'
<1> DEFINE was == [n \in 1 .. Len(sent) |-> [sent[n] EXCEPT !.here = @ /\ sent[n].hook # hook]]
           c == [hook |-> hook, about |-> about, to |-> to, here |-> TRUE, pc |-> "sent",
                 answer |-> NoData, ok |-> FALSE, waits |-> FALSE]
<1>1. Len(sent) \in Nat /\ \A n \in 1 .. Len(sent) : IsMerge(sent[n])
  BY SeqIs DEF SentInv, IsSeq
<1>2. IsSeq(was) /\ Len(was) = Len(sent)
  BY <1>1, IsSeqOf
<1>3. \A n \in 1 .. Len(sent) : Alike(sent[n], was[n]) /\ was[n].pc = sent[n].pc
  BY <1>1 DEF IsMerge, CallFields, Alike
<1>4. sent' = Append(was, c) /\ c.hook = hook /\ c.about = about
  BY DEF Mutate
<1> HIDE DEF was, c
<1>5. /\ Len(sent') = Len(sent) + 1
      /\ \A n \in 1 .. Len(sent) + 1 : sent'[n] = IF n <= Len(sent) THEN was[n] ELSE c
  BY <1>2, <1>4, LongerSeq
<1>6. /\ \A n \in 1 .. Len(sent) : n \in 1 .. Len(sent') /\ Alike(sent[n], sent'[n]) /\ sent'[n].pc = sent[n].pc
      /\ \A n \in 1 .. Len(sent') : n \in 1 .. Len(sent) \/ sent'[n] = c
  BY <1>1, <1>3, <1>5
<1>7. Asks(c) /\ c.hook \notin Settings
  BY <1>4 DEF Asks
<1>8. ASSUME NEW n \in 1 .. Len(sent')
      PROVE  /\ Asks(sent'[n])
             /\ Unserved(sent'[n]) => \E m \in 1 .. Len(sent) : Unserved(sent[m]) /\ Alike(sent[m], sent'[n])
  <2>1. CASE n \in 1 .. Len(sent)
    <3>1. Asks(sent'[n])
      BY <1>6, <2>1, AlikeAsks DEF WantInv
    <3>2. Unserved(sent'[n]) => Unserved(sent[n])
      BY <1>6, <2>1 DEF Unserved, Alike
    <3> QED
      BY <1>6, <2>1, <3>1, <3>2
  <2>2. CASE sent'[n] = c
    BY <1>7, <2>2 DEF Unserved
  <2> QED
    BY <1>6, <2>1, <2>2
<1>9. \A m \in 1 .. Len(sent) : Unserved(sent[m]) => Unserved(sent'[m])
  BY <1>6 DEF Unserved, Alike
<1>10. wanted' = [k \in Settable |-> wanted'[k]]
  BY DEF WantInv
<1> QED
  BY <1>6, <1>8, <1>9, <1>10, WantStays

\* Calls as they change, none of them served; one may be given up.
LEMMA WantChanges ==
  ASSUME WantInv, SentInv, held' = held, sent' = [m \in 1 .. Len(sent) |-> sent'[m]],
         wanted' = [k \in Settable |-> wanted'[k]], \A k \in Settable : wanted'[k] \in {wanted[k], "any"},
         \A m \in 1 .. Len(sent) : /\ Alike(sent[m], sent'[m]) /\ (sent'[m].pc = "sent" => sent[m].pc = "sent")
                                   /\ Unserved(sent[m]) => sent'[m].pc = "sent" \/ wanted'[sent[m].about] = "any"
  PROVE  WantInv'
<1>1. Len(sent') = Len(sent)
  <2> DEFINE s == sent'
  <2>1. s = [m \in 1 .. Len(sent) |-> s[m]] /\ Len(sent) \in Nat
    BY SeqIs DEF SentInv, IsSeq
  <2> HIDE DEF s
  <2>2. Len(s) = Len(sent)
    BY <2>1, IsSeqOf
  <2> QED
    BY <2>2 DEF s
<1>2. \A n \in 1 .. Len(sent') : Asks(sent'[n])
  BY <1>1, AlikeAsks DEF WantInv
<1>3. \A n \in 1 .. Len(sent') : Unserved(sent'[n]) => Unserved(sent[n]) /\ Alike(sent[n], sent'[n])
  BY <1>1 DEF Unserved, Alike
<1>4. \A m \in 1 .. Len(sent) :
        Unserved(sent[m]) => wanted'[sent[m].about] = "any" \/ (Unserved(sent'[m]) /\ Alike(sent[m], sent'[m]))
  BY DEF Unserved, Alike
<1> QED
  BY <1>1, <1>2, <1>3, <1>4, WantStays

LEMMA WantEnds ==
  ASSUME WantInv, SentInv, NEW k \in 1 .. Len(sent), sent[k].pc # "sent", sent' = RemoveAt(sent, k),
         held' = held, wanted' = wanted
  PROVE  WantInv'
<1>1. sent' = Without(sent, k)
  BY DEF RemoveAt, Without
<1>2. /\ Len(sent') = Len(sent) - 1 /\ Len(sent) \in Nat
      /\ \A i \in 1 .. Len(sent) - 1 : sent'[i] = IF i < k THEN sent[i] ELSE sent[i + 1]
  BY <1>1, ShorterSeq DEF SentInv
<1>3. ASSUME NEW n \in 1 .. Len(sent')
      PROVE  /\ Asks(sent'[n])
             /\ Unserved(sent'[n]) => \E m \in 1 .. Len(sent) : Unserved(sent[m]) /\ Alike(sent[m], sent'[n])
  <2>1. PICK m \in 1 .. Len(sent) : sent'[n] = sent[m]
    BY <1>2
  <2> QED
    BY <2>1 DEF WantInv, Alike
<1>4. ASSUME NEW m \in 1 .. Len(sent), Unserved(sent[m])
      PROVE  \E n \in 1 .. Len(sent') : Unserved(sent'[n]) /\ Alike(sent[m], sent'[n])
  <2>1. m # k
    BY <1>4 DEF Unserved
  <2>2. \E n \in 1 .. Len(sent') : sent'[n] = sent[m]
    <3>1. CASE m < k
      BY <1>2, <3>1
    <3>2. CASE m > k
      <4>1. m - 1 \in 1 .. Len(sent') /\ ~(m - 1 < k) /\ (m - 1) + 1 = m
        BY <1>2, <3>2
      <4> QED
        BY <1>2, <4>1
    <3> QED
      BY <1>2, <2>1, <3>1, <3>2
  <2> QED
    BY <1>4, <2>2 DEF Alike
<1>5. wanted' = [j \in Settable |-> wanted'[j]]
  BY DEF WantInv
<1> QED
  BY <1>3, <1>4, <1>5, WantStays

LEMMA WantSame ==
  ASSUME WantInv, held'.field = held.field, held'.muted = held.muted, sent' = sent, wanted' = wanted
  PROVE  WantInv'
BY DEF WantInv, Setting

LEMMA WantCalls ==
  ASSUME WantInv, GroupsInv, NEW n \in 1 .. Len(sent),
         \/ SettingLost(n) \/ SettingAnswered(n) \/ StoresAnswered(n)
         \/ MuteAnswered(n) \/ MuteSettled(n)
  PROVE  WantInv'
<1>0. /\ SentInv /\ \A m \in 1 .. Len(sent) : IsMerge(sent[m])
      /\ sent = [m \in 1 .. Len(sent) |-> sent[m]]
      /\ wanted = [k \in Settable |-> wanted[k]]
  BY DEF GroupsInv, SentInv, IsSeq, WantInv
<1>1. CASE SettingLost(n)
  <2>1. /\ held' = held /\ sent' = [sent EXCEPT ![n].pc = "done", ![n].ok = FALSE]
        /\ wanted' = IF sent[n].about \in Settable THEN [wanted EXCEPT ![sent[n].about] = "any"] ELSE wanted
    BY <1>0, <1>1 DEF SettingLost
  <2>2. /\ sent' = [m \in 1 .. Len(sent) |-> sent'[m]]
        /\ \A m \in 1 .. Len(sent) : Alike(sent[m], sent'[m]) /\ (m # n => sent'[m].pc = sent[m].pc)
        /\ sent'[n].pc = "done"
    BY <1>0, <2>1 DEF IsMerge, CallFields, Alike
  <2>3. wanted' = [k \in Settable |-> wanted'[k]] /\ \A k \in Settable : wanted'[k] \in {wanted[k], "any"}
    BY <1>0, <2>1
  <2>4. Unserved(sent[n]) => wanted'[sent[n].about] = "any"
    BY <1>0, <2>1 DEF Unserved, WantInv, Asks
  <2>5. \A m \in 1 .. Len(sent) :
          /\ Alike(sent[m], sent'[m]) /\ (sent'[m].pc = "sent" => sent[m].pc = "sent")
          /\ Unserved(sent[m]) => sent'[m].pc = "sent" \/ wanted'[sent[m].about] = "any"
    BY <2>2, <2>4 DEF Unserved
  <2> QED
    BY <1>0, <2>1, <2>2, <2>3, <2>5, WantChanges
<1>2. CASE SettingAnswered(n) \/ StoresAnswered(n) \/ MuteSettled(n)
  <2>1. sent[n].pc # "sent" /\ sent' = RemoveAt(sent, n) /\ held' = held /\ wanted' = wanted
    BY <1>2 DEF SettingAnswered, StoresAnswered, MuteSettled
  <2> QED
    BY <1>0, <2>1, WantEnds
<1>3. CASE MuteAnswered(n)
  <2>1. /\ held' = held /\ wanted' = wanted /\ sent[n].hook \notin Settings
        /\ sent' = [m \in 1 .. Len(sent) |-> IF m = n THEN [sent[n] EXCEPT !.pc = "refetching", !.waits = TRUE]
                                             ELSE [sent[m] EXCEPT !.waits = FALSE]]
    BY <1>3 DEF MuteAnswered, Settings
  <2>2. /\ sent' = [m \in 1 .. Len(sent) |-> sent'[m]]
        /\ \A m \in 1 .. Len(sent) : Alike(sent[m], sent'[m]) /\ (m # n => sent'[m].pc = sent[m].pc)
        /\ sent'[n].pc = "refetching"
    BY <1>0, <2>1 DEF IsMerge, CallFields, Alike
  <2>3. \A m \in 1 .. Len(sent) :
          /\ Alike(sent[m], sent'[m]) /\ (sent'[m].pc = "sent" => sent[m].pc = "sent")
          /\ Unserved(sent[m]) => sent'[m].pc = "sent" \/ wanted'[sent[m].about] = "any"
    BY <2>1, <2>2 DEF Unserved
  <2>4. wanted' = [k \in Settable |-> wanted'[k]] /\ \A k \in Settable : wanted'[k] \in {wanted[k], "any"}
    BY <1>0, <2>1
  <2> QED
    BY <1>0, <2>1, <2>2, <2>3, <2>4, WantChanges
<1> QED
  BY <1>1, <1>2, <1>3

LEMMA WantUser ==
  ASSUME WantInv, GroupsInv,
         \/ \E kind \in AlertKinds : OpenAlerts(kind)
         \/ LeaveAlerts \/ setItemAlerts \/ openItemUntil \/ onClose \/ CloseMerge
         \/ \E s \in Stores : setStoreAlerts(s) \/ onMerge(s) \/ onPick(s) \/ onUnmerge(s)
         \/ \E end \in Ends : choose(end)
         \/ (\E f \in Flags : setFlag(f)) \/ (\E f \in PriceFields : savePrice(f))
         \/ \E c \in Categories : setCategoryAlerts(c)
         \/ \E k \in Switches : startUnmute(k)
  PROVE  WantInv'
<1>0. /\ SentInv /\ \A m \in 1 .. Len(sent) : IsMerge(sent[m])
      /\ wanted = [k \in Settable |-> wanted[k]]
  BY DEF GroupsInv, SentInv, WantInv
<1>1. CASE (\E kind \in AlertKinds : OpenAlerts(kind)) \/ LeaveAlerts
  <2>1. /\ held' = held /\ wanted' = wanted
        /\ sent' = [m \in 1 .. Len(sent) |-> [sent[m] EXCEPT !.here = FALSE]]
    BY <1>1 DEF OpenAlerts, LeaveAlerts, Go
  <2>2. \A m \in 1 .. Len(sent) : Alike(sent[m], sent'[m]) /\ sent'[m].pc = sent[m].pc
    BY <1>0, <2>1 DEF IsMerge, CallFields, Alike
  <2>3. wanted' = [k \in Settable |-> wanted'[k]] /\ \A k \in Settable : wanted'[k] \in {wanted[k], "any"}
    BY <1>0, <2>1
  <2> QED
    BY <1>0, <2>1, <2>2, <2>3, WantChanges DEF Unserved
<1>2. CASE openItemUntil \/ onClose \/ CloseMerge \/ \E s \in Stores : onMerge(s)
  BY <1>2, WantSame DEF openItemUntil, onClose, CloseMerge, onMerge
<1> DEFINE Others == \E about, to : \E hook \in {"muteItem", "muteStore", "merge", "unmerge"} :
                       Mutate(hook, about, to)
<1>3. ASSUME held' = held, wanted' = wanted, sent' = sent \/ Others PROVE WantInv'
  <2>1. CASE sent' = sent
    BY <1>3, <2>1, WantSame
  <2>2. ASSUME NEW about, NEW to, NEW hook \in {"muteItem", "muteStore", "merge", "unmerge"},
               Mutate(hook, about, to)
        PROVE  WantInv'
    <3>1. hook \in AlertHooks /\ hook \notin Settings
      BY DEF AlertHooks, Settings
    <3> QED
      BY <1>0, <1>3, <2>2, <3>1, WantElse
  <2> QED
    BY <1>3, <2>1, <2>2
<1>4. ASSUME NEW key, NEW end, Saves(key, end) PROVE Others
  BY <1>4 DEF Saves
<1>5. CASE setItemAlerts
  <2>1. held' = held /\ wanted' = wanted /\ \E end : Saves("item", end)
    BY <1>5 DEF setItemAlerts
  <2> QED
    BY <1>3, <1>4, <2>1
<1>6. CASE (\E s \in Stores : setStoreAlerts(s)) \/ \E end \in Ends : choose(end)
  <2>1. held' = held /\ wanted' = wanted /\ (sent' = sent \/ \E key, end : Saves(key, end))
    BY <1>6 DEF setStoreAlerts, choose
  <2> QED
    BY <1>3, <1>4, <2>1
<1>7. CASE (\E s \in Stores : onPick(s) \/ onUnmerge(s)) \/ \E k \in Switches : startUnmute(k)
  <2>1. held' = held /\ wanted' = wanted /\ Others
    BY <1>7 DEF onPick, onUnmerge, startUnmute
  <2> QED
    BY <1>3, <2>1
<1>8. ASSUME NEW f \in Flags, setFlag(f) PROVE WantInv'
  <2>1. f \in Fields /\ HookOf(f) = "prefs"
    BY NoneIsBoth DEF HookOf
  <2>2. held' = held /\ \E v, shown : Wants("prefs", f, v) /\ Mutate("prefs", f, OneField(f, v, shown))
    BY <1>8 DEF setFlag
  <2> QED
    BY <1>0, <2>1, <2>2, FieldAsked
<1>9. ASSUME NEW f \in PriceFields, savePrice(f) PROVE WantInv'
  <2>1. f \in Fields /\ HookOf(f) = "prices"
    BY NoneIsBoth DEF HookOf
  <2>2. held' = held /\ \E v, shown : Wants("prices", f, v) /\ Mutate("prices", f, OneField(f, v, shown))
    BY <1>9 DEF savePrice
  <2> QED
    BY <1>0, <2>1, <2>2, FieldAsked
<1>10. ASSUME NEW c \in Categories, setCategoryAlerts(c) PROVE WantInv'
  <2>1. held' = held /\ \E muted : WantsInList(c, muted) /\ Mutate("prefs", c, WholeList(c, muted))
    BY <1>10 DEF setCategoryAlerts
  <2> QED
    BY <1>0, <2>1, ListAsked
<1> QED
  BY <1>1, <1>2, <1>5, <1>6, <1>7, <1>8, <1>9, <1>10

LEMMA WantStep == ASSUME WantInv, GroupsInv, [AlertNext]_alertVars PROVE WantInv'
<1>1. CASE UNCHANGED alertVars
  BY <1>1, WantSame DEF alertVars
<1>2. CASE Lapse
  <2>1. held'.field = held.field /\ held'.muted = held.muted /\ sent' = sent /\ wanted' = wanted
    BY <1>2 DEF Lapse, GroupsInv, HeldInv, HeldFields
  <2> QED
    BY <2>1, WantSame
<1>3. ASSUME NEW k \in AlertKeys,
             ServeAlertRead(k) \/ AlertReadLost(k) \/ AlertReadAnswered(k) \/ Retry(k)
      PROVE  WantInv'
  BY <1>3, WantSame DEF ServeAlertRead, AlertReadLost, AlertReadAnswered, Retry
<1>4. ASSUME NEW n \in 1 .. Len(sent), ServeSetting(n) PROVE WantInv'
  BY <1>4, WantServed DEF GroupsInv
<1> QED
  BY <1>1, <1>2, <1>3, <1>4, WantCalls, WantUser DEF AlertNext

\* With no call under way, what is wanted is held.
LEMMA WantedIsHeld == WantInv => FieldsAsSet
<1> SUFFICES ASSUME WantInv, sent = <<>>, NEW k \in Settable, wanted[k] # "any"
             PROVE  Setting(held, k) = wanted[k]
  BY DEF FieldsAsSet
<1>1. Len(sent) = 0
  BY EmptyIsSeq
<1> QED
  BY <1>1 DEF WantInv

-----------------------------------------------------------------------------
(* The free year: what stands behind each grant RevenueCat took.            *)

ServerFields == {"people", "mail", "expired", "claims", "redeemed", "grants", "today"}
PersonFields == {"state", "email", "verified", "password", "subject", "pending", "claim", "boarded", "link"}
Rows == [email : Listed, user : People \cup {NoOne}, status : {"pending", "granted", "failed"}, matched : Nat]
Grants == [email : Listed, user : People, end : Nat]

\* The person r, called p: whatever link works was mailed to p for what r is yet.
Holds(h, p, r) ==
  /\ r.link \in [Links -> Nat]
  /\ \A k \in Links : r.link[k] # 0 =>
       /\ r.link[k] <= Len(h.mail) /\ h.mail[r.link[k]].kind = k /\ h.mail[r.link[k]].user = p
       /\ k = "change" => h.mail[r.link[k]].says = r.pending
       /\ k = "verify" /\ ~r.verified => h.mail[r.link[k]].says = r.email

MailLinked(h) == /\ IsSeq(h.mail) /\ \A n \in 1 .. Len(h.mail) : h.mail[n].kind \in Links
                 /\ \A p \in People : Holds(h, p, h.people[p])

Shaped(h) ==
  /\ MailLinked(h) /\ h = [f \in ServerFields |-> h[f]] /\ h.people = [p \in People |-> h.people[p]]
  /\ \A p \in People : h.people[p] = [f \in PersonFields |-> h.people[p][f]]
  /\ h.redeemed \subseteq Rows /\ h.grants \subseteq Grants /\ h.today \in Nat

\* What the redeemed rows are: of accounts there are, one for an email and an account.
RowsOnce(h) ==
  /\ \A r \in h.redeemed : r.user # NoOne => r.user \in Live(h)
  /\ \A r, q \in h.redeemed : r.email = q.email \/ (r.user = q.user /\ r.user # NoOne) => r = q

\* Behind a grant is the row it was made from, with the end it was given; or its
\* account is gone, and of the row is left the email, or nothing after the window.
Backed(h, g) ==
  \/ \E r \in h.redeemed : r.email = g.email /\ r.user = g.user /\ r.matched = g.end
  \/ /\ h.people[g.user].state = "gone"
     /\ \/ \E r \in h.redeemed : r.email = g.email /\ r.user = NoOne
        \/ ~WindowOpen(h) /\ ~EmailRedeemed(h, g.email)

OneYear(h) == \A g1, g2 \in h.grants : g1.email = g2.email \/ g1.user = g2.user => g1 = g2
YearsInv(h) == Shaped(h) /\ RowsOnce(h) /\ OneYear(h) /\ \A g \in h.grants : Backed(h, g)

\* A change that leaves rows, grants, the day and who is or was there.
Leaves(h, g) ==
  /\ Shaped(g) /\ g.redeemed = h.redeemed /\ g.grants = h.grants /\ g.today = h.today
  /\ \A p \in People : h.people[p].state # "free" => g.people[p].state = h.people[p].state

LEMMA NobodyIsNoOne == NoOne \notin People
BY DEF NoOne, People

LEMMA LeavesYears ==
  ASSUME NEW h, NEW g, YearsInv(h), Leaves(h, g)
  PROVE  YearsInv(g)
<1> USE DEF Leaves, YearsInv
<1>1. RowsOnce(g)
  BY DEF RowsOnce, Live
<1>2. ASSUME NEW k \in g.grants PROVE Backed(g, k)
  <2>1. k \in h.grants /\ k.user \in People
    BY DEF Shaped, Grants
  <2>2. h.people[k.user].state = "gone" => g.people[k.user].state = "gone"
    BY <2>1
  <2> QED
    BY <2>1, <2>2 DEF Backed, WindowOpen, EmailRedeemed
<1>3. OneYear(g)
  BY DEF OneYear
<1> QED
  BY <1>1, <1>2, <1>3

LEMMA LeavesOn ==
  ASSUME NEW h, NEW g, NEW k, Leaves(h, g), Leaves(g, k)
  PROVE  Leaves(h, k)
BY DEF Leaves

\* Mails and people as they were keep what the links say.
LEMMA LinkedOn ==
  ASSUME NEW h, NEW g, MailLinked(h), g.mail = h.mail, g.people = h.people
  PROVE  MailLinked(g)
BY DEF MailLinked, Holds

\* A link less, or the address verified, is no word more to keep.
LEMMA HoldsOn ==
  ASSUME NEW h, NEW g, g.mail = h.mail, NEW p, NEW x, Holds(h, p, x), NEW r,
         r.link \in [Links -> Nat], \A k \in Links : r.link[k] # 0 => r.link[k] = x.link[k],
         r.pending = x.pending, r.verified = TRUE \/ (r.verified = x.verified /\ r.email = x.email)
  PROVE  Holds(g, p, r)
<1> SUFFICES ASSUME NEW k \in Links, r.link[k] # 0
             PROVE  /\ r.link[k] <= Len(h.mail) /\ h.mail[r.link[k]].kind = k /\ h.mail[r.link[k]].user = p
                    /\ k = "change" => h.mail[r.link[k]].says = r.pending
                    /\ k = "verify" /\ ~r.verified => h.mail[r.link[k]].says = r.email
  BY DEF Holds
<1>1. r.link[k] = x.link[k]
  OBVIOUS
<1>2. /\ x.link[k] <= Len(h.mail) /\ h.mail[x.link[k]].kind = k /\ h.mail[x.link[k]].user = p
      /\ k = "change" => h.mail[x.link[k]].says = x.pending
      /\ k = "verify" /\ ~x.verified => h.mail[x.link[k]].says = x.email
  BY <1>1 DEF Holds
<1>3. CASE r.verified = TRUE
  BY <1>1, <1>2, <1>3
<1>4. CASE r.verified = x.verified /\ r.email = x.email
  BY <1>1, <1>2, <1>4
<1> QED
  BY <1>3, <1>4

LEMMA KeyDropped ==
  ASSUME NEW S, NEW f \in [S -> Nat], NEW x
  PROVE  /\ [f EXCEPT ![x] = 0] \in [S -> Nat]
         /\ \A k \in S : [f EXCEPT ![x] = 0][k] # 0 => [f EXCEPT ![x] = 0][k] = f[k]
OBVIOUS

LEMMA LinkDropped ==
  ASSUME NEW h, NEW g, g.mail = h.mail, NEW p, NEW x, Holds(h, p, x), NEW r, NEW kind,
         r.link = [x.link EXCEPT ![kind] = 0], r.pending = x.pending,
         r.verified = TRUE \/ (r.verified = x.verified /\ r.email = x.email)
  PROVE  Holds(g, p, r)
<1>1. x.link \in [Links -> Nat]
  BY DEF Holds
<1>2. r.link \in [Links -> Nat] /\ \A k \in Links : r.link[k] # 0 => r.link[k] = x.link[k]
  BY <1>1, KeyDropped
<1> QED
  BY <1>2, HoldsOn

\* One person changes, of those there are not into another state.
LEMMA PersonChanges ==
  ASSUME NEW h, Shaped(h), NEW p \in People, NEW r, r = [f \in PersonFields |-> r[f]], Holds(h, p, r),
         h.people[p].state # "free" => r.state = h.people[p].state
  PROVE  Leaves(h, [h EXCEPT !.people[p] = r])
<1> DEFINE g == [h EXCEPT !.people[p] = r]
<1>1. /\ g.people = [h.people EXCEPT ![p] = r] /\ g.mail = h.mail /\ g.redeemed = h.redeemed
      /\ g.grants = h.grants /\ g.today = h.today /\ g = [f \in ServerFields |-> g[f]]
  BY DEF Shaped, ServerFields
<1> HIDE DEF g
<1>2. /\ g.people = [q \in People |-> g.people[q]] /\ g.people[p] = r
      /\ \A q \in People : q # p => g.people[q] = h.people[q]
  BY <1>1 DEF Shaped
<1>3. MailLinked(g)
  <2>1. \A q \in People : \A x : Holds(h, q, x) => Holds(g, q, x)
    BY <1>1 DEF Holds
  <2>2. \A q \in People : Holds(g, q, g.people[q])
    BY <1>2, <2>1 DEF Shaped, MailLinked
  <2> QED
    BY <1>1, <2>2 DEF Shaped, MailLinked
<1>4. Shaped(g)
  BY <1>1, <1>2, <1>3 DEF Shaped
<1> QED
  BY <1>1, <1>2, <1>4 DEF Leaves, g

LEMMA OthersChange ==
  ASSUME NEW h, Shaped(h), NEW expired, NEW claims
  PROVE  Leaves(h, [h EXCEPT !.expired = expired]) /\ Leaves(h, [h EXCEPT !.claims = claims])
<1>1. ASSUME NEW g, g.mail = h.mail, g.people = h.people, g.redeemed = h.redeemed,
             g.grants = h.grants, g.today = h.today, g = [f \in ServerFields |-> g[f]]
      PROVE  Leaves(h, g)
  <2>1. MailLinked(g)
    BY <1>1, LinkedOn DEF Shaped
  <2> QED
    BY <1>1, <2>1 DEF Leaves, Shaped
<1> DEFINE g1 == [h EXCEPT !.expired = expired]
           g2 == [h EXCEPT !.claims = claims]
<1>2. /\ g1.mail = h.mail /\ g1.people = h.people /\ g1.redeemed = h.redeemed
      /\ g1.grants = h.grants /\ g1.today = h.today /\ g1 = [f \in ServerFields |-> g1[f]]
      /\ g2.mail = h.mail /\ g2.people = h.people /\ g2.redeemed = h.redeemed
      /\ g2.grants = h.grants /\ g2.today = h.today /\ g2 = [f \in ServerFields |-> g2[f]]
  BY DEF Shaped, ServerFields
<1> HIDE DEF g1, g2
<1>3. Leaves(h, g1) /\ Leaves(h, g2)
  BY <1>1, <1>2
<1> QED
  BY <1>3 DEF g1, g2

\* One mail more leaves the links of the others.
LEMMA MailAdded ==
  ASSUME NEW h, Shaped(h), NEW m, m.kind \in Links
  PROVE  LET g == [h EXCEPT !.mail = Append(@, m)] IN
         /\ Leaves(h, g) /\ g.people = h.people /\ Len(g.mail) = Len(h.mail) + 1 /\ Len(h.mail) \in Nat
         /\ g.mail[Len(h.mail) + 1] = m
         /\ \A p \in People : \A r : Holds(h, p, r) => Holds(g, p, r)
<1> DEFINE g == [h EXCEPT !.mail = Append(@, m)]
<1>1. /\ g.mail = Append(h.mail, m) /\ g.people = h.people /\ g.redeemed = h.redeemed
      /\ g.grants = h.grants /\ g.today = h.today /\ g = [f \in ServerFields |-> g[f]]
  BY DEF Shaped, ServerFields
<1>2. IsSeq(h.mail)
  BY DEF Shaped, MailLinked
<1> HIDE DEF g
<1>3. /\ IsSeq(g.mail) /\ Len(g.mail) = Len(h.mail) + 1 /\ Len(h.mail) \in Nat
      /\ \A n \in 1 .. Len(h.mail) + 1 : g.mail[n] = IF n <= Len(h.mail) THEN h.mail[n] ELSE m
  BY <1>1, <1>2, LongerSeq
<1>4. ASSUME NEW p \in People, NEW r, Holds(h, p, r) PROVE Holds(g, p, r)
  <2>1. ASSUME NEW k \in Links, r.link[k] # 0
        PROVE  r.link[k] <= Len(g.mail) /\ g.mail[r.link[k]] = h.mail[r.link[k]]
    <3>1. r.link[k] \in Nat /\ r.link[k] <= Len(h.mail) /\ r.link[k] >= 1
      BY <1>4, <2>1 DEF Holds
    <3>2. r.link[k] \in 1 .. Len(h.mail) + 1
      BY <1>3, <3>1
    <3> QED
      BY <1>3, <3>1, <3>2
  <2> QED
    BY <1>4, <2>1 DEF Holds
<1>5. ASSUME NEW n \in 1 .. Len(g.mail) PROVE g.mail[n].kind \in Links
  <2>1. CASE n <= Len(h.mail)
    <3>1. n \in 1 .. Len(h.mail) /\ g.mail[n] = h.mail[n]
      BY <1>3, <2>1
    <3> QED
      BY <3>1 DEF Shaped, MailLinked
  <2>2. CASE n > Len(h.mail)
    BY <1>3, <2>2
  <2> QED
    BY <1>3, <2>1, <2>2
<1>6. Shaped(g)
  BY <1>1, <1>3, <1>4, <1>5 DEF Shaped, MailLinked
<1>7. g.mail[Len(h.mail) + 1] = m
  BY <1>3
<1> QED
  BY <1>1, <1>3, <1>4, <1>6, <1>7 DEF Leaves, g

\* A link is mailed for p as r is, with the link in the place of the one before.
LEMMA LinkAdded ==
  ASSUME NEW h, Shaped(h), NEW p \in People, NEW kind \in Links, NEW to, NEW says, NEW r,
         r = [f \in PersonFields |-> r[f]], r.state = h.people[p].state,
         r.link = [h.people[p].link EXCEPT ![kind] = Len(h.mail) + 1],
         r.email = h.people[p].email, r.verified = h.people[p].verified,
         kind = "verify" => says = r.email,
         IF kind = "change" THEN says = r.pending ELSE r.pending = h.people[p].pending
  PROVE  LET m == [kind |-> kind, user |-> p, to |-> to, says |-> says] IN
         Leaves(h, [[h EXCEPT !.mail = Append(@, m)] EXCEPT !.people[p] = r])
<1> DEFINE m == [kind |-> kind, user |-> p, to |-> to, says |-> says]
           g == [h EXCEPT !.mail = Append(@, m)]
<1>1. m.kind = kind /\ m.user = p /\ m.says = says
  OBVIOUS
<1> HIDE DEF m
<1>2. /\ Leaves(h, g) /\ g.people = h.people /\ Len(g.mail) = Len(h.mail) + 1 /\ Len(h.mail) \in Nat
      /\ g.mail[Len(h.mail) + 1] = m
      /\ \A q \in People : \A x : Holds(h, q, x) => Holds(g, q, x)
  BY <1>1, MailAdded
<1> HIDE DEF g
<1>3. Shaped(g)
  BY <1>2 DEF Leaves
<1>4. Holds(g, p, h.people[p]) /\ h.people[p].link \in [Links -> Nat]
  BY <1>2 DEF Shaped, MailLinked, Holds
<1>5. r.link \in [Links -> Nat] /\ r.link[kind] = Len(h.mail) + 1
      /\ \A k \in Links : k # kind => r.link[k] = h.people[p].link[k]
  <2>1. Len(h.mail) + 1 \in Nat
    BY <1>2
  <2> QED
    BY <1>4, <2>1
<1>6. Holds(g, p, r)
  <2> SUFFICES ASSUME NEW k \in Links, r.link[k] # 0
               PROVE  /\ r.link[k] <= Len(g.mail) /\ g.mail[r.link[k]].kind = k /\ g.mail[r.link[k]].user = p
                      /\ k = "change" => g.mail[r.link[k]].says = r.pending
                      /\ k = "verify" /\ ~r.verified => g.mail[r.link[k]].says = r.email
    BY <1>5 DEF Holds
  <2>1. CASE k = kind
    BY <1>1, <1>2, <1>5, <2>1
  <2>2. CASE k # kind
    BY <1>4, <1>5, <2>2 DEF Holds
  <2> QED
    BY <2>1, <2>2
<1>7. Leaves(g, [g EXCEPT !.people[p] = r])
  BY <1>2, <1>3, <1>6, PersonChanges
<1> QED
  BY <1>2, <1>7, LeavesOn DEF g, m

LEMMA MailedLeaves ==
  ASSUME NEW h, Shaped(h), NEW kind \in Links \ {"change"}, NEW p \in People, NEW to, NEW says,
         kind = "verify" => says = h.people[p].email
  PROVE  Leaves(h, Mailed(h, kind, p, to, says))
<1> DEFINE r == [h.people[p] EXCEPT !.link[kind] = Len(h.mail) + 1]
           m == [kind |-> kind, user |-> p, to |-> to, says |-> says]
<1>1. h.people[p] = [f \in PersonFields |-> h.people[p][f]]
  BY DEF Shaped
<1>2. /\ r = [f \in PersonFields |-> r[f]] /\ r.state = h.people[p].state
      /\ r.link = [h.people[p].link EXCEPT ![kind] = Len(h.mail) + 1]
      /\ r.email = h.people[p].email /\ r.verified = h.people[p].verified /\ r.pending = h.people[p].pending
  BY <1>1 DEF PersonFields
<1>3. Mailed(h, kind, p, to, says) = [[h EXCEPT !.mail = Append(@, m)] EXCEPT !.people[p] = r]
  BY DEF Mailed, Shaped, ServerFields
<1> HIDE DEF r
<1>4. Leaves(h, [[h EXCEPT !.mail = Append(@, m)] EXCEPT !.people[p] = r])
  BY <1>2, LinkAdded
<1> QED
  BY <1>3, <1>4

LEMMA SpentLeaves ==
  ASSUME NEW h, Shaped(h), NEW kind \in Links, NEW p \in People
  PROVE  Leaves(h, Spent(h, kind, p))
<1> DEFINE r == [h.people[p] EXCEPT !.link[kind] = 0]
<1>1. h.people[p] = [f \in PersonFields |-> h.people[p][f]] /\ Holds(h, p, h.people[p])
  BY DEF Shaped, MailLinked
<1>2. /\ r = [f \in PersonFields |-> r[f]] /\ r.state = h.people[p].state
      /\ r.link = [h.people[p].link EXCEPT ![kind] = 0] /\ r.email = h.people[p].email
      /\ r.verified = h.people[p].verified /\ r.pending = h.people[p].pending
  BY <1>1 DEF PersonFields
<1>3. Spent(h, kind, p) = [h EXCEPT !.people[p] = r]
  BY DEF Spent
<1> HIDE DEF r
<1>4. Holds(h, p, r)
  BY <1>1, <1>2, LinkDropped
<1> QED
  BY <1>2, <1>3, <1>4, PersonChanges

-----------------------------------------------------------------------------
(* A row is redeemed, and a grant is tried.                                 *)

LEMMA RedeemKeepsYears ==
  ASSUME NEW h, YearsInv(h), NEW p \in Live(h), NEW e, CanRedeem(h, p, e)
  PROVE  YearsInv(Redeem(h, p, e))
<1> DEFINE row == [email |-> e, user |-> p, status |-> "pending", matched |-> h.today]
           g == Redeem(h, p, e)
<1> USE DEF YearsInv
<1>1. row \in Rows /\ p \in People
  BY DEF Rows, Live, CanRedeem, Shaped
<1>2. /\ g.redeemed = h.redeemed \cup {row} /\ g.people = h.people /\ g.grants = h.grants
      /\ g.today = h.today /\ g = [f \in ServerFields |-> g[f]] /\ g.mail = h.mail
  BY DEF Redeem, Shaped, ServerFields
<1>3. Shaped(g)
  <2>1. MailLinked(g)
    BY <1>2, LinkedOn DEF Shaped
  <2> QED
    BY <1>1, <1>2, <2>1 DEF Shaped
<1>4. \A r \in h.redeemed : r.email # e /\ r.user # p
  BY DEF CanRedeem, Redemptions, EmailRedeemed
<1>5. Live(g) = Live(h)
  BY <1>2 DEF Live
<1> HIDE DEF g
<1>6. RowsOnce(g)
  BY <1>1, <1>2, <1>4, <1>5, NobodyIsNoOne DEF RowsOnce
<1>7. ASSUME NEW k \in g.grants PROVE Backed(g, k)
  <2>1. Backed(h, k) /\ WindowOpen(h)
    BY <1>2 DEF CanRedeem
  <2> QED
    BY <1>2, <2>1 DEF Backed
<1>8. OneYear(g)
  BY <1>2 DEF OneYear
<1> QED
  BY <1>3, <1>6, <1>7, <1>8 DEF g

LEMMA MatchKeepsYears ==
  ASSUME NEW h, YearsInv(h), NEW p \in Live(h)
  PROVE  YearsInv(Match(h, p))
BY RedeemKeepsYears DEF Match

LEMMA GrantKeepsYears ==
  ASSUME NEW h, YearsInv(h), NEW r \in Due(h), NEW outcome
  PROVE  YearsInv(GrantTried(h, r, outcome))
<1> DEFINE status == CASE GaveUp(h, r) \/ outcome = "refused" -> "failed"
                       [] outcome = "took" -> "granted"
                       [] OTHER -> "pending"
           row == [r EXCEPT !.status = status]
           grant == [email |-> r.email, user |-> r.user, end |-> r.matched]
           g == GrantTried(h, r, outcome)
<1> USE DEF YearsInv
<1>1. r \in h.redeemed /\ r \in Rows /\ r.user # NoOne /\ r.user \in Live(h) /\ r.user \in People
  BY DEF Due, Shaped, RowsOnce, Live
<1>2. status \in {"pending", "granted", "failed"}
  OBVIOUS
<1>3. /\ row \in Rows /\ row.email = r.email /\ row.user = r.user /\ row.matched = r.matched
      /\ grant \in Grants
  BY <1>1, <1>2 DEF Rows, Grants
<1>4. /\ g.redeemed = (h.redeemed \ {r}) \cup {row} /\ g.people = h.people
      /\ g.grants = h.grants \/ g.grants = h.grants \cup {grant}
      /\ g.today = h.today /\ g = [f \in ServerFields |-> g[f]] /\ g.mail = h.mail
  BY DEF GrantTried, Shaped, ServerFields, End
<1> HIDE DEF g, row, grant, status
<1>5. Shaped(g) /\ Live(g) = Live(h)
  <2>1. MailLinked(g)
    BY <1>4, LinkedOn DEF Shaped
  <2> QED
    BY <1>3, <1>4, <2>1 DEF Shaped, Live
<1>6. RowsOnce(g)
  BY <1>1, <1>3, <1>4, <1>5 DEF RowsOnce
<1>7. ASSUME NEW k \in h.grants PROVE Backed(g, k)
  <2>1. Backed(h, k)
    OBVIOUS
  <2>2. \A q \in h.redeemed : \E s \in g.redeemed : s.email = q.email /\ s.user = q.user /\ s.matched = q.matched
    BY <1>3, <1>4
  <2>3. \A s \in g.redeemed : \E q \in h.redeemed : s.email = q.email
    BY <1>1, <1>3, <1>4
  <2>4. EmailRedeemed(g, k.email) => EmailRedeemed(h, k.email)
    BY <2>3 DEF EmailRedeemed
  <2> QED
    BY <1>4, <2>1, <2>2, <2>4 DEF Backed, WindowOpen
<1>8. Backed(g, grant)
  BY <1>3, <1>4 DEF Backed, grant
<1>9. ASSUME NEW k \in h.grants, k.email = r.email \/ k.user = r.user PROVE k = grant
  <2>1. PICK q \in h.redeemed : q.email = k.email /\ q.user = k.user /\ q.matched = k.end
    <3>1. Backed(h, k) /\ k \in Grants
      BY DEF Shaped
    <3>2. CASE h.people[k.user].state = "gone"
      <4>1. k.user # r.user
        BY <1>1, <3>2 DEF Live
      <4>2. k.email = r.email /\ EmailRedeemed(h, k.email)
        BY <1>1, <1>9, <4>1 DEF EmailRedeemed
      <4>3. \A q \in h.redeemed : q.email = k.email => q = r
        BY <1>1, <4>2 DEF RowsOnce
      <4> QED
        BY <1>1, <3>1, <4>2, <4>3 DEF Backed
    <3> QED
      BY <3>1, <3>2 DEF Backed
  <2>2. q = r
    BY <1>1, <1>9, <2>1 DEF RowsOnce
  <2>3. k \in Grants /\ k.email = r.email /\ k.user = r.user /\ k.end = r.matched
    BY <2>1, <2>2 DEF Shaped
  <2> QED
    BY <2>3 DEF Grants, grant
<1>10. OneYear(g)
  BY <1>4, <1>9 DEF OneYear, grant
<1> QED
  BY <1>4, <1>5, <1>6, <1>7, <1>8, <1>10 DEF g

-----------------------------------------------------------------------------
(* The calls and the beats.                                                 *)

\* A field that no link is about is set, or the address is verified.
LEMMA FieldLeaves ==
  ASSUME NEW h, Shaped(h), NEW p \in People, NEW v
  PROVE  /\ Leaves(h, [h EXCEPT !.people[p].password = v]) /\ Leaves(h, [h EXCEPT !.people[p].subject = v])
         /\ Leaves(h, [h EXCEPT !.people[p].claim = v]) /\ Leaves(h, [h EXCEPT !.people[p].boarded = v])
         /\ Leaves(h, [h EXCEPT !.people[p].verified = TRUE])
<1> DEFINE Set(f, w) == [h.people[p] EXCEPT ![f] = w]
<1>0. h.people[p] = [x \in PersonFields |-> h.people[p][x]] /\ Holds(h, p, h.people[p])
  BY DEF Shaped, MailLinked
<1>1. ASSUME NEW f \in {"password", "subject", "claim", "boarded"}
      PROVE  Leaves(h, [h EXCEPT !.people[p] = Set(f, v)])
  <2>1. /\ Set(f, v) = [x \in PersonFields |-> Set(f, v)[x]] /\ Set(f, v).state = h.people[p].state
        /\ Set(f, v).link = h.people[p].link /\ Set(f, v).pending = h.people[p].pending
        /\ Set(f, v).email = h.people[p].email /\ Set(f, v).verified = h.people[p].verified
    BY <1>0 DEF PersonFields
  <2> HIDE DEF Set
  <2>2. Holds(h, p, Set(f, v))
    BY <1>0, <2>1 DEF Holds
  <2> QED
    BY <2>1, <2>2, PersonChanges
<1>2. Leaves(h, [h EXCEPT !.people[p] = Set("verified", TRUE)])
  <2>1. /\ Set("verified", TRUE) = [x \in PersonFields |-> Set("verified", TRUE)[x]]
        /\ Set("verified", TRUE).state = h.people[p].state
        /\ Set("verified", TRUE).link = h.people[p].link /\ Set("verified", TRUE).pending = h.people[p].pending
        /\ Set("verified", TRUE).verified = TRUE
    BY <1>0 DEF PersonFields
  <2> HIDE DEF Set
  <2>2. Holds(h, p, Set("verified", TRUE))
    <3>1. h.people[p].link \in [Links -> Nat]
      BY <1>0 DEF Holds
    <3> QED
      BY <1>0, <2>1, <3>1, HoldsOn
  <2> QED
    BY <2>1, <2>2, PersonChanges
<1> QED
  BY <1>1, <1>2

\* A new account takes the place of nobody.
LEMMA CreatedLeaves ==
  ASSUME NEW h, Shaped(h), NEW p \in Unused(h), NEW e, NEW verified, NEW password, NEW subject
  PROVE  /\ Leaves(h, Created(h, p, e, verified, password, subject))
         /\ p \in Live(Created(h, p, e, verified, password, subject))
<1> DEFINE r == [Stranger EXCEPT !.state = "live", !.email = e, !.verified = verified,
                                   !.password = password, !.subject = subject]
<1>1. p \in People /\ h.people[p].state = "free"
  BY DEF Unused
<1>2. /\ r = [f \in PersonFields |-> r[f]] /\ r.state = "live" /\ r.email = e
      /\ r.link = [k \in Links |-> 0]
  BY DEF Stranger, PersonFields
<1>3. Created(h, p, e, verified, password, subject) = [h EXCEPT !.people[p] = r]
  BY DEF Created
<1> HIDE DEF r
<1>4. Holds(h, p, r)
  BY <1>2 DEF Holds
<1>5. Leaves(h, [h EXCEPT !.people[p] = r])
  BY <1>1, <1>2, <1>4, PersonChanges
<1>6. [h EXCEPT !.people[p] = r].people[p].state = "live"
  BY <1>1, <1>2 DEF Shaped, ServerFields
<1> QED
  BY <1>1, <1>2, <1>3, <1>5, <1>6 DEF Live

\* Who is there after a change that leaves who was.
LEMMA StillLive ==
  ASSUME NEW h, NEW g, Leaves(h, g)
  PROVE  Live(h) \subseteq Live(g)
BY DEF Live, Leaves

LEMMA MatchedAfter ==
  ASSUME NEW h, YearsInv(h), NEW g, Leaves(h, g), NEW p \in Live(g)
  PROVE  YearsInv(Match(g, p))
BY LeavesYears, MatchKeepsYears

LEMMA TheIsIn == ASSUME NEW S, S # {} PROVE The(S) \in S
BY DEF The

LEMMA AppleKeepsYears ==
  ASSUME NEW h, YearsInv(h), NEW e, Unused(h) # {}
  PROVE  YearsInv(WithApple(h, e))
<1>0. Shaped(h) /\ Live(h) \subseteq People
  BY DEF YearsInv, Live
<1>1. CASE WithSubject(h, e) # {}
  <2>1. The(WithSubject(h, e)) \in Live(h)
    BY <1>1, TheIsIn DEF WithSubject
  <2> QED
    BY <1>1, <2>1, MatchKeepsYears DEF WithApple
<1>2. CASE WithSubject(h, e) = {} /\ WithEmail(h, e) # {}
  <2> DEFINE p == The(WithEmail(h, e))
             g == [h EXCEPT !.people[p].subject = e]
  <2>1. p \in Live(h)
    BY <1>2, TheIsIn DEF WithEmail
  <2>2. WithApple(h, e) = Match(g, p)
    BY <1>2 DEF WithApple
  <2> HIDE DEF p
  <2>3. Leaves(h, g)
    BY <1>0, <2>1, FieldLeaves
  <2> HIDE DEF g
  <2>4. p \in Live(g)
    BY <2>1, <2>3, StillLive
  <2> QED
    BY <2>2, <2>3, <2>4, MatchedAfter
<1>3. CASE WithSubject(h, e) = {} /\ WithEmail(h, e) = {}
  <2> DEFINE p == The(Unused(h))
             g == Created(h, p, e, TRUE, FALSE, e)
  <2>1. p \in Unused(h)
    BY TheIsIn
  <2>2. WithApple(h, e) = Match(g, p)
    BY <1>3 DEF WithApple
  <2> HIDE DEF p
  <2>3. Leaves(h, g) /\ p \in Live(g)
    BY <1>0, <2>1, CreatedLeaves
  <2> HIDE DEF g
  <2> QED
    BY <2>2, <2>3, MatchedAfter
<1> QED
  BY <1>1, <1>2, <1>3

LEMMA SignUpKeepsYears ==
  ASSUME NEW h, YearsInv(h), NEW e, Unused(h) # {}
  PROVE  YearsInv(SignedUp(h, e))
<1> DEFINE p == The(Unused(h))
           g == Created(h, p, e, FALSE, TRUE, NoEmail)
<1>1. p \in Unused(h)
  BY TheIsIn
<1>2. SignedUp(h, e) = Mailed(g, "verify", p, e, e)
  BY DEF SignedUp
<1> HIDE DEF p
<1>3. Leaves(h, g) /\ p \in People /\ g.people[p].email = e
  <2>1. Shaped(h) /\ p \in People
    BY <1>1 DEF YearsInv, Unused
  <2>2. Leaves(h, g)
    BY <1>1, <2>1, CreatedLeaves
  <2>3. g.people[p].email = e
    BY <2>1 DEF Created, Stranger, Shaped, ServerFields
  <2> QED
    BY <2>1, <2>2, <2>3
<1> HIDE DEF g
<1>4. Shaped(g)
  BY <1>3 DEF Leaves
<1>5. Leaves(g, Mailed(g, "verify", p, e, e))
  <2>1. "verify" \in Links \ {"change"}
    BY DEF Links
  <2> QED
    BY <1>3, <1>4, <2>1, MailedLeaves
<1> QED
  BY <1>2, <1>3, <1>5, LeavesOn, LeavesYears

\* What a deletion leaves of a row is its email.
LEMMA DeleteKeepsYears ==
  ASSUME NEW h, YearsInv(h), NEW p \in Live(h)
  PROVE  YearsInv(Deleted(h, p))
<1> DEFINE Bare(r) == IF r.user = p THEN [r EXCEPT !.user = NoOne, !.matched = 0] ELSE r
           gone == [Stranger EXCEPT !.state = "gone"]
           g == Deleted(h, p)
<1> USE DEF YearsInv
<1>1. p \in People
  BY DEF Live
<1>2. gone = [f \in PersonFields |-> gone[f]] /\ gone.state = "gone" /\ gone.link = [k \in Links |-> 0]
  BY DEF Stranger, PersonFields
<1>3. ASSUME NEW r \in h.redeemed
      PROVE  /\ Bare(r) \in Rows /\ Bare(r).email = r.email
             /\ r.user = p => Bare(r).user = NoOne
             /\ r.user # p => Bare(r) = r
  <2>1. r \in Rows
    BY DEF Shaped
  <2> QED
    BY <2>1 DEF Rows
<1>4. /\ g.redeemed = {Bare(r) : r \in h.redeemed} /\ g.people = [h.people EXCEPT ![p] = gone]
      /\ g.grants = h.grants /\ g.today = h.today /\ g = [f \in ServerFields |-> g[f]] /\ g.mail = h.mail
  BY DEF Deleted, Shaped, ServerFields
<1> HIDE DEF g, gone, Bare
<1>5. /\ g.people[p] = gone /\ g.people[p].state = "gone"
      /\ \A q \in People : q # p => g.people[q] = h.people[q]
  BY <1>1, <1>2, <1>4 DEF Shaped
<1>6. Shaped(g)
  <2>1. Holds(g, p, gone)
    BY <1>2 DEF Holds
  <2>2. \A q \in People : \A x : Holds(h, q, x) => Holds(g, q, x)
    BY <1>4 DEF Holds
  <2>3. MailLinked(g)
    BY <1>4, <1>5, <2>1, <2>2 DEF Shaped, MailLinked
  <2>4. g.redeemed \subseteq Rows
    BY <1>3, <1>4
  <2>5. /\ g.people = [q \in People |-> g.people[q]]
        /\ \A q \in People : g.people[q] = [f \in PersonFields |-> g.people[q][f]]
    BY <1>1, <1>2, <1>4 DEF Shaped
  <2>6. g.grants \subseteq Grants /\ g.today \in Nat
    BY <1>4 DEF Shaped
  <2> QED
    BY <1>4, <2>3, <2>4, <2>5, <2>6 DEF Shaped
<1>7. RowsOnce(g)
  <2>1. \A q \in Live(h) : q # p => q \in Live(g)
    BY <1>5 DEF Live
  <2>2. \A r \in h.redeemed : Bare(r).user # NoOne => r.user # p /\ Bare(r) = r
    BY <1>3
  <2>3. \A r \in g.redeemed : r.user # NoOne => r.user \in Live(g)
    BY <1>4, <2>1, <2>2 DEF RowsOnce
  <2>4. ASSUME NEW r \in h.redeemed, NEW q \in h.redeemed,
               Bare(r).email = Bare(q).email \/ (Bare(r).user = Bare(q).user /\ Bare(r).user # NoOne)
        PROVE  r = q
    BY <1>3, <2>2, <2>4 DEF RowsOnce
  <2> QED
    BY <1>4, <2>3, <2>4 DEF RowsOnce
<1>8. ASSUME NEW k \in h.grants PROVE Backed(g, k)
  <2>1. Backed(h, k) /\ k.user \in People
    BY DEF Shaped, Grants
  <2>2. h.people[k.user].state = "gone" => k.user # p /\ g.people[k.user].state = "gone"
    BY <1>5, <2>1 DEF Live
  <2>3. EmailRedeemed(g, k.email) => EmailRedeemed(h, k.email)
    BY <1>3, <1>4 DEF EmailRedeemed
  <2>4. ASSUME NEW r \in h.redeemed, r.email = k.email, r.user = k.user, r.matched = k.end
        PROVE  Backed(g, k)
    <3>1. CASE r.user = p
      BY <1>3, <1>4, <1>5, <2>4, <3>1 DEF Backed
    <3>2. CASE r.user # p
      BY <1>3, <1>4, <2>4, <3>2 DEF Backed
    <3> QED
      BY <3>1, <3>2
  <2>5. ASSUME NEW r \in h.redeemed, r.email = k.email, r.user = NoOne
        PROVE  r \in g.redeemed
    BY <1>1, <1>3, <1>4, <2>5, NobodyIsNoOne
  <2> QED
    BY <1>4, <2>1, <2>2, <2>3, <2>4, <2>5 DEF Backed, WindowOpen
<1>9. OneYear(g)
  BY <1>4 DEF OneYear
<1> QED
  BY <1>4, <1>6, <1>7, <1>8, <1>9 DEF g

\* After the window the rows of those who are gone go too.
LEMMA PurgeKeepsYears ==
  ASSUME NEW h, YearsInv(h), ~WindowOpen(h)
  PROVE  YearsInv(Purged(h))
<1> DEFINE people == [p \in People |-> [h.people[p] EXCEPT !.claim = NoEmail, !.link["claim"] = 0]]
           g == Purged(h)
<1> USE DEF YearsInv
<1>1. /\ g.redeemed = {r \in h.redeemed : r.user # NoOne} /\ g.people = people
      /\ g.grants = h.grants /\ g.today = h.today /\ g = [f \in ServerFields |-> g[f]] /\ g.mail = h.mail
  BY DEF Purged, Shaped, ServerFields
<1>2. ASSUME NEW p \in People
      PROVE  /\ people[p] = [f \in PersonFields |-> people[p][f]] /\ people[p].state = h.people[p].state
             /\ people[p].link = [h.people[p].link EXCEPT !["claim"] = 0]
             /\ people[p].email = h.people[p].email /\ people[p].verified = h.people[p].verified
             /\ people[p].pending = h.people[p].pending
  BY DEF Shaped, PersonFields
<1>3. people = [p \in People |-> people[p]]
  OBVIOUS
<1> HIDE DEF g, people
<1>4. Shaped(g) /\ Live(g) = Live(h)
  <2>1. ASSUME NEW p \in People PROVE Holds(g, p, people[p])
    <3>1. Holds(h, p, h.people[p])
      BY DEF Shaped, MailLinked
    <3>2. /\ people[p].link = [h.people[p].link EXCEPT !["claim"] = 0] /\ people[p].pending = h.people[p].pending
          /\ people[p].email = h.people[p].email /\ people[p].verified = h.people[p].verified
      BY <1>2
    <3>3. g.mail = h.mail
      BY <1>1
    <3> QED
      BY <3>1, <3>2, <3>3, LinkDropped
  <2>2. MailLinked(g)
    BY <1>1, <2>1 DEF Shaped, MailLinked
  <2> QED
    BY <1>1, <1>2, <1>3, <2>2 DEF Shaped, Live
<1>5. RowsOnce(g) /\ OneYear(g)
  BY <1>1, <1>4 DEF RowsOnce, OneYear
<1>6. ASSUME NEW k \in h.grants PROVE Backed(g, k)
  <2>1. Backed(h, k) /\ k.user \in People /\ k.user # NoOne
    BY NobodyIsNoOne DEF Shaped, Grants
  <2>2. \A r, q \in h.redeemed : r.email = q.email => r = q
    BY DEF RowsOnce
  <2>3. ~WindowOpen(g) /\ (EmailRedeemed(g, k.email) => EmailRedeemed(h, k.email))
    BY <1>1 DEF WindowOpen, EmailRedeemed
  <2>4. ASSUME NEW r \in h.redeemed, r.email = k.email, r.user = NoOne
        PROVE  ~EmailRedeemed(g, k.email)
    BY <1>1, <2>2, <2>4 DEF EmailRedeemed
  <2>5. h.people[k.user].state = "gone" => g.people[k.user].state = "gone"
    BY <1>1, <1>2, <2>1
  <2>6. ASSUME NEW r \in h.redeemed, r.user = k.user PROVE r \in g.redeemed
    BY <1>1, <2>1, <2>6
  <2> QED
    BY <2>1, <2>3, <2>4, <2>5, <2>6 DEF Backed
<1> QED
  BY <1>1, <1>4, <1>5, <1>6 DEF g

LEMMA ClaimKeepsYears ==
  ASSUME NEW h, YearsInv(h), NEW t
  PROVE  YearsInv(ClaimSent(h, t))
<1> DEFINE served == [h EXCEPT !.claims = @ \ {t}]
           mailed == Mailed(served, "claim", t.user, t.email, t.email)
<1>1. Leaves(h, served)
  BY OthersChange DEF YearsInv
<1>2. CASE t.user \in Live(h) /\ CanRedeem(h, t.user, t.email)
  <2>1. Shaped(served) /\ t.user \in People
    BY <1>1, <1>2 DEF Leaves, Live
  <2>2. ClaimSent(h, t) = [mailed EXCEPT !.people[t.user].claim = t.email]
    BY <1>2 DEF ClaimSent
  <2> HIDE DEF served
  <2>3. Leaves(served, mailed)
    <3>1. "claim" \in Links \ {"change"}
      BY DEF Links
    <3> QED
      BY <2>1, <3>1, MailedLeaves
  <2> HIDE DEF mailed
  <2>4. Shaped(mailed)
    BY <2>3 DEF Leaves
  <2>5. Leaves(mailed, [mailed EXCEPT !.people[t.user].claim = t.email])
    BY <2>1, <2>4, FieldLeaves
  <2> QED
    BY <1>1, <2>2, <2>3, <2>5, LeavesOn, LeavesYears
<1>3. CASE ~(t.user \in Live(h) /\ CanRedeem(h, t.user, t.email))
  <2>1. ClaimSent(h, t) = served
    BY <1>3 DEF ClaimSent
  <2> QED
    BY <1>1, <2>1, LeavesYears
<1> QED
  BY <1>2, <1>3

\* A day more: what was open may not be, what was closed is.
LEMMA DayKeepsYears ==
  ASSUME NEW h, YearsInv(h), NEW expired
  PROVE  YearsInv([h EXCEPT !.today = @ + 1, !.expired = expired])
<1> DEFINE g == [h EXCEPT !.today = @ + 1, !.expired = expired]
<1> USE DEF YearsInv
<1>1. /\ g.redeemed = h.redeemed /\ g.people = h.people /\ g.grants = h.grants
      /\ g.today = h.today + 1 /\ g = [f \in ServerFields |-> g[f]] /\ h.today \in Nat /\ g.mail = h.mail
  BY DEF Shaped, ServerFields
<1> HIDE DEF g
<1>2. Shaped(g)
  <2>1. MailLinked(g)
    BY <1>1, LinkedOn DEF Shaped
  <2> HIDE DEF MailLinked
  <2>2. Shaped(h) /\ g.today \in Nat
    BY <1>1
  <2> QED
    BY <1>1, <2>1, <2>2 DEF Shaped
<1> HIDE DEF YearsInv
<1>3. RowsOnce(g) /\ OneYear(g)
  BY <1>1 DEF YearsInv, RowsOnce, OneYear, Live
<1> USE DEF YearsInv
<1>4. WindowOpen(g) => WindowOpen(h)
  BY <1>1, AccountsAssumption DEF WindowOpen
<1>5. ASSUME NEW k \in g.grants PROVE Backed(g, k)
  BY <1>1, <1>4 DEF Backed, EmailRedeemed
<1> QED
  BY <1>2, <1>3, <1>5 DEF g

-----------------------------------------------------------------------------
(* The beat that matches every account: a fold over the people.             *)

\* The states that differ from h in their rows alone.
Matching(h) == {g \in {[h EXCEPT !.redeemed = rows] : rows \in SUBSET Rows} : YearsInv(g)}
MatchOne(g, p) == IF p \in Live(g) THEN Match(g, p) ELSE g

LEMMA MatchOneStays ==
  ASSUME NEW h, Shaped(h), NEW g \in Matching(h), NEW p \in People
  PROVE  MatchOne(g, p) \in Matching(h)
<1>1. YearsInv(g) /\ Shaped(g) /\ \E rows \in SUBSET Rows : g = [h EXCEPT !.redeemed = rows]
  BY DEF Matching, YearsInv
<1>2. CASE MatchOne(g, p) = g
  BY <1>2
<1>3. CASE MatchOne(g, p) # g
  <2> DEFINE e == g.people[p].email
             k == Redeem(g, p, e)
  <2>1. /\ MatchOne(g, p) = k /\ p \in Live(g) /\ CanRedeem(g, p, e)
    BY <1>3 DEF MatchOne, Match
  <2>2. YearsInv(k)
    BY <1>1, <2>1, RedeemKeepsYears
  <2>3. \E rows : k = [g EXCEPT !.redeemed = rows]
    BY DEF Redeem
  <2> HIDE DEF k, e
  <2>4. k.redeemed \in SUBSET Rows
    BY <2>2 DEF YearsInv, Shaped
  <2>5. k = [h EXCEPT !.redeemed = k.redeemed]
    BY <1>1, <2>3 DEF Shaped, ServerFields
  <2> QED
    BY <2>1, <2>2, <2>4, <2>5 DEF Matching
<1> QED
  BY <1>2, <1>3

LEMMA MatchAllMatches ==
  ASSUME NEW h, YearsInv(h)
  PROVE  MatchAll(h) \in Matching(h)
<1> DEFINE S == People
           V == Matching(h)
           seq == [p \in S |-> p]
           Is(g) == g = [s \in SUBSET S |->
                           IF s = {} THEN h
                           ELSE MatchOne(g[s \ {CHOOSE x \in s : TRUE}], seq[CHOOSE x \in s : TRUE])]
           f == CHOOSE g : Is(g)
           step == [p \in S |-> [v \in V |-> MatchOne(v, p)]]
           over == [p \in S |-> [v \in V \cup {f[s] : s \in SUBSET S} |-> MatchOne(v, p)]]
<1>0. IsFiniteSet(S)
  BY AccountsAssumption, FS_Interval DEF People
<1>1. MatchAll(h) = f[S]
  <2>1. DOMAIN seq = S
    OBVIOUS
  <2> QED
    BY <2>1 DEF MatchAll, FoldSeq, FoldFunction, FoldFunctionOnSet, MapThenFoldSet, MatchOne
<1>2. h \in V
  <2>1. h.redeemed \in SUBSET Rows /\ h = [h EXCEPT !.redeemed = h.redeemed]
    BY DEF YearsInv, Shaped, ServerFields
  <2> QED
    BY <2>1 DEF Matching
<1>3. \A p \in S, v \in V : MatchOne(v, p) \in V
  BY MatchOneStays DEF YearsInv
<1> HIDE DEF V, S
<1>4. Keeps(step, S, V) /\ \A p \in S, v \in V : step[p][v] = MatchOne(v, p)
  BY <1>3 DEF Keeps
<1> HIDE DEF step
<1>5. PICK g : g = [s \in SUBSET S |-> g[s]] /\ Solves(g, S, AnyOf(S), step, h)
  BY <1>0, AnyPicks, FiniteRecursion
<1>6. \A s \in SUBSET S : g[s] \in V
  BY <1>0, <1>2, <1>4, <1>5, AnyPicks, RecursionStays
<1>7. ASSUME NEW s \in SUBSET S, s # {}
      PROVE  LET x == CHOOSE x \in s : TRUE IN
             x = AnyOf(S)[s] /\ x \in S /\ seq[x] = x /\ s \ {x} \in SUBSET S
  BY <1>7, AnyPicks DEF AnyOf, Picks
<1>8. Is(g)
  <2>1. ASSUME NEW s \in SUBSET S, s # {}
        PROVE  g[s] = MatchOne(g[s \ {CHOOSE x \in s : TRUE}], seq[CHOOSE x \in s : TRUE])
    <3>1. g[s] = step[AnyOf(S)[s]][g[s \ {AnyOf(S)[s]}]]
      BY <1>5, <2>1 DEF Value, Solves
    <3>2. AnyOf(S)[s] \in S /\ s \ {AnyOf(S)[s]} \in SUBSET S
      BY <2>1, AnyPicks DEF Picks
    <3>3. g[s \ {AnyOf(S)[s]}] \in V
      BY <1>6, <3>2
    <3> QED
      BY <1>4, <1>7, <2>1, <3>1, <3>2, <3>3
  <2>2. g[{}] = h
    BY <1>5 DEF Value, Solves
  <2> QED
    BY <1>5, <2>1, <2>2
<1>9. Is(f)
  BY <1>8
<1>10. ASSUME NEW s \in SUBSET S, s # {}
       PROVE  f[s] = over[AnyOf(S)[s]][f[s \ {AnyOf(S)[s]}]]
  <2>1. AnyOf(S)[s] \in S /\ seq[AnyOf(S)[s]] = AnyOf(S)[s] /\ s \ {AnyOf(S)[s]} \in SUBSET S
    BY <1>7, <1>10
  <2>2. f[s] = MatchOne(f[s \ {AnyOf(S)[s]}], AnyOf(S)[s])
    BY <1>7, <1>9, <1>10, <2>1
  <2> HIDE DEF f
  <2> QED
    BY <2>1, <2>2
<1>11. f[{}] = h
  BY <1>9
<1> HIDE DEF f
<1>12. Solves(f, S, AnyOf(S), over, h)
  BY <1>10, <1>11 DEF Value, Solves
<1>13. Keeps(over, S, V)
  BY <1>3 DEF Keeps
<1> HIDE DEF over
<1>14. f[S] \in V
  BY <1>0, <1>2, <1>12, <1>13, AnyPicks, RecursionStays
<1> QED
  BY <1>1, <1>14 DEF V

LEMMA MatchAllKeepsYears ==
  ASSUME NEW h, YearsInv(h)
  PROVE  YearsInv(MatchAll(h))
BY MatchAllMatches DEF Matching

\* Who holds a link that works is whom it was mailed to.
LEMMA HolderIs ==
  ASSUME NEW h, Shaped(h), NEW n, NEW p \in Holder(h, n)
  PROVE  /\ p \in Live(h) /\ p \in People /\ n \in 1 .. Len(h.mail) /\ h.mail[n].kind \in Links
         /\ h.people[p].link[h.mail[n].kind] = n /\ h.mail[n].user = p
<1>1. /\ p \in Live(h) /\ p \in People /\ n \in DOMAIN h.mail
      /\ h.people[p].link[h.mail[n].kind] = n
  BY DEF Holder, Live
<1>2. DOMAIN h.mail = 1 .. Len(h.mail)
  BY DEF Shaped, MailLinked, IsSeq
<1>3. h.mail[n].kind \in Links /\ n # 0
  <2>1. n \in 1 .. Len(h.mail)
    BY <1>1, <1>2
  <2>2. \A i \in 1 .. Len(h.mail) : h.mail[i].kind \in Links
    BY DEF Shaped, MailLinked
  <2>3. h.mail[n].kind \in Links
    BY <2>1, <2>2
  <2>4. n # 0
    BY <2>1
  <2> QED
    BY <2>3, <2>4
<1>4. Holds(h, p, h.people[p])
  BY <1>1 DEF Shaped, MailLinked
<1>5. h.mail[n].user = p
  BY <1>1, <1>3, <1>4 DEF Holds
<1> QED
  BY <1>1, <1>2, <1>3, <1>5

\* A link's call acts on whom the link was mailed to, and on nobody else.
LEMMA OneHolder ==
  ASSUME NEW h, Shaped(h), NEW n, Holder(h, n) # {}
  PROVE  Holder(h, n) = {The(Holder(h, n))}
<1>1. \A p, q \in Holder(h, n) : p = q
  BY HolderIs
<1> QED
  BY <1>1, TheIsIn

\* The email changes to the one asked for, and counts as verified.
LEMMA ChangedLeaves ==
  ASSUME NEW h, Shaped(h), NEW p \in People
  PROVE  LET r == [h.people[p] EXCEPT !.email = h.people[p].pending, !.pending = NoEmail,
                                      !.verified = TRUE, !.link["change"] = 0] IN
         /\ Leaves(h, [h EXCEPT !.people[p] = r])
         /\ Changed(h, p) = Match([h EXCEPT !.people[p] = r], p)
<1> DEFINE was == h.people[p]
           r == [was EXCEPT !.email = was.pending, !.pending = NoEmail, !.verified = TRUE, !.link["change"] = 0]
<1>1. was = [f \in PersonFields |-> was[f]] /\ Holds(h, p, was)
  BY DEF Shaped, MailLinked
<1>2. /\ r = [f \in PersonFields |-> r[f]] /\ r.state = was.state /\ r.verified = TRUE
      /\ r.link = [was.link EXCEPT !["change"] = 0]
  BY <1>1 DEF PersonFields
<1>3. Changed(h, p) = Match([h EXCEPT !.people[p] = r], p)
  <2> DEFINE g == [h EXCEPT !.people[p].email = h.people[p].pending, !.people[p].pending = NoEmail,
                            !.people[p].verified = TRUE]
             x == [was EXCEPT !.email = was.pending, !.pending = NoEmail, !.verified = TRUE]
  <2>1. h = [f \in ServerFields |-> h[f]] /\ h.people = [q \in People |-> h.people[q]]
    BY DEF Shaped
  <2>2. g.people = [h.people EXCEPT ![p] = x]
    BY <1>1, <2>1 DEF ServerFields, PersonFields
  <2>3. g = [h EXCEPT !.people = g.people]
    BY <2>1 DEF ServerFields
  <2>4. r = [x EXCEPT !.link["change"] = 0]
    OBVIOUS
  <2>5. Spent(g, "change", p) = [g EXCEPT !.people = [g.people EXCEPT ![p] = [g.people[p] EXCEPT !.link["change"] = 0]]]
    <3> HIDE DEF g, x, r
    <3> QED
      BY DEF Spent
  <2> HIDE DEF g, x, r
  <2>6. Spent(g, "change", p) = [h EXCEPT !.people = [g.people EXCEPT ![p] = [g.people[p] EXCEPT !.link["change"] = 0]]]
    <3> DEFINE y == [g.people EXCEPT ![p] = [g.people[p] EXCEPT !.link["change"] = 0]]
    <3> HIDE DEF y
    <3>1. [g EXCEPT !.people = y] = [h EXCEPT !.people = y]
      BY <2>1, <2>3 DEF ServerFields
    <3> QED
      BY <2>5, <3>1 DEF y
  <2>7. [g.people EXCEPT ![p] = [g.people[p] EXCEPT !.link["change"] = 0]] = [h.people EXCEPT ![p] = r]
    BY <2>1, <2>2, <2>4
  <2> QED
    BY <2>6, <2>7 DEF Changed, g
<1> HIDE DEF r
<1>4. Holds(h, p, r)
  <2>1. was.link \in [Links -> Nat] /\ "change" \in Links
    BY <1>1 DEF Holds, Links
  <2>2. /\ r.link \in [Links -> Nat] /\ r.link["change"] = 0
        /\ \A k \in Links : r.link[k] # 0 => r.link[k] = was.link[k]
    BY <1>2, <2>1, KeyDropped
  <2>3. ASSUME NEW k \in Links, r.link[k] # 0
        PROVE  /\ r.link[k] <= Len(h.mail) /\ h.mail[r.link[k]].kind = k /\ h.mail[r.link[k]].user = p
               /\ k # "change" /\ r.verified = TRUE
    <3>1. r.link[k] = was.link[k] /\ k # "change" /\ r.verified = TRUE
      BY <1>2, <2>2, <2>3
    <3> HIDE DEF was
    <3>2. \A j \in Links : was.link[j] # 0 =>
            was.link[j] <= Len(h.mail) /\ h.mail[was.link[j]].kind = j /\ h.mail[was.link[j]].user = p
      BY <1>1 DEF Holds
    <3> QED
      BY <2>3, <3>1, <3>2
  <2> QED
    BY <2>2, <2>3 DEF Holds
<1>5. Leaves(h, [h EXCEPT !.people[p] = r])
  BY <1>1, <1>2, <1>4, PersonChanges
<1> QED
  BY <1>3, <1>5 DEF r

\* The mail that asks names the new address.
LEMMA RequestedLeaves ==
  ASSUME NEW h, Shaped(h), NEW p \in People, NEW e
  PROVE  Leaves(h, Requested(h, p, e))
<1> DEFINE was == h.people[p]
           r == [was EXCEPT !.link["change"] = Len(h.mail) + 1, !.pending = e]
           m == [kind |-> "change", user |-> p, to |-> was.email, says |-> e]
<1>1. was = [f \in PersonFields |-> was[f]] /\ "change" \in Links
  BY DEF Shaped, Links
<1>2. /\ r = [f \in PersonFields |-> r[f]] /\ r.state = was.state
      /\ r.link = [was.link EXCEPT !["change"] = Len(h.mail) + 1]
      /\ r.email = was.email /\ r.verified = was.verified /\ r.pending = e
  BY <1>1 DEF PersonFields
<1>3. Requested(h, p, e) = [[h EXCEPT !.mail = Append(@, m)] EXCEPT !.people[p] = r]
  BY DEF Requested, Mailed, Shaped, ServerFields
<1> HIDE DEF r
<1>4. Leaves(h, [[h EXCEPT !.mail = Append(@, m)] EXCEPT !.people[p] = r])
  BY <1>1, <1>2, LinkAdded
<1> QED
  BY <1>3, <1>4

\* Whatever call is served, accepted by the server.
LEMMA LinkKeepsYears ==
  ASSUME NEW h, YearsInv(h), NEW c, Accepts(h, c), c.op \in {"verify", "reset", "confirm", "redeem"}
  PROVE  YearsInv(Performed(h, c))
<1> DEFINE p == The(Holder(h, c.mail))
<1>0. Shaped(h) /\ Holder(h, c.mail) # {}
  BY DEF YearsInv, Accepts
<1>1. p \in Holder(h, c.mail) /\ Holder(h, c.mail) = {p}
  BY <1>0, OneHolder, TheIsIn
<1>2. p \in Live(h) /\ p \in People
  BY <1>0, <1>1, HolderIs
<1>3. /\ c.op = "verify" => Performed(h, c) = Verified(h, p)
      /\ c.op = "reset" => Performed(h, c) = Reset(h, p)
      /\ c.op = "confirm" => Performed(h, c) = Changed(h, p)
      /\ c.op = "redeem" => Performed(h, c) = Claimed(h, p) /\ CanRedeem(h, p, h.people[p].claim)
  <2>1. c.op = "redeem" => \E q \in Holder(h, c.mail) : CanRedeem(h, q, h.people[q].claim)
    BY DEF Accepts
  <2> QED
    BY <1>1, <2>1 DEF Performed
<1> HIDE DEF p
<1>4. {"verify", "reset", "change", "claim"} = Links
  BY DEF Links
<1>5. CASE c.op = "verify"
  <2> DEFINE g == [h EXCEPT !.people[p].verified = TRUE]
             k == Spent(g, "verify", p)
  <2>1. Leaves(h, g)
    BY <1>0, <1>2, FieldLeaves
  <2>2. Performed(h, c) = Match(k, p)
    BY <1>3, <1>5 DEF Verified
  <2> HIDE DEF g
  <2>3. Leaves(g, k)
    BY <1>2, <1>4, <2>1, SpentLeaves DEF Leaves
  <2> HIDE DEF k
  <2>4. Leaves(h, k)
    BY <2>1, <2>3, LeavesOn
  <2> QED
    BY <1>2, <2>2, <2>4, StillLive, MatchedAfter
<1>6. CASE c.op = "reset"
  <2> DEFINE g == [h EXCEPT !.people[p].password = TRUE]
             k == Spent(g, "reset", p)
  <2>1. Leaves(h, g)
    BY <1>0, <1>2, FieldLeaves
  <2>2. Performed(h, c) = k
    BY <1>3, <1>6 DEF Reset
  <2> HIDE DEF g
  <2>3. Leaves(g, k)
    BY <1>2, <1>4, <2>1, SpentLeaves DEF Leaves
  <2> HIDE DEF k
  <2> QED
    BY <2>1, <2>2, <2>3, LeavesOn, LeavesYears
<1>7. CASE c.op = "confirm"
  <2> DEFINE r == [h.people[p] EXCEPT !.email = h.people[p].pending, !.pending = NoEmail,
                                      !.verified = TRUE, !.link["change"] = 0]
             g == [h EXCEPT !.people[p] = r]
  <2>1. Leaves(h, g) /\ Changed(h, p) = Match(g, p)
    BY <1>0, <1>2, ChangedLeaves
  <2> HIDE DEF g
  <2> QED
    BY <1>2, <1>3, <1>7, <2>1, StillLive, MatchedAfter
<1>8. CASE c.op = "redeem"
  <2> DEFINE e == h.people[p].claim
             g == [h EXCEPT !.people[p].claim = NoEmail]
             k == Spent(g, "claim", p)
  <2>1. Leaves(h, g)
    BY <1>0, <1>2, FieldLeaves
  <2>2. Performed(h, c) = Redeem(k, p, e) /\ CanRedeem(h, p, e)
    BY <1>3, <1>8 DEF Claimed
  <2> HIDE DEF g, e
  <2>3. Leaves(g, k)
    BY <1>2, <1>4, <2>1, SpentLeaves DEF Leaves
  <2> HIDE DEF k
  <2>4. Leaves(h, k)
    BY <2>1, <2>3, LeavesOn
  <2>5. CanRedeem(k, p, e) /\ YearsInv(k) /\ p \in Live(k)
    <3>1. YearsInv(k) /\ p \in Live(k)
      BY <1>2, <2>4, LeavesYears, StillLive
    <3>2. k.today = h.today /\ k.redeemed = h.redeemed
      BY <2>4 DEF Leaves
    <3> QED
      BY <2>2, <3>1, <3>2 DEF CanRedeem, WindowOpen, Redemptions, EmailRedeemed
  <2> QED
    BY <2>2, <2>5, RedeemKeepsYears
<1> QED
  BY <1>5, <1>6, <1>7, <1>8

LEMMA PerformedKeepsYears ==
  ASSUME NEW h, YearsInv(h), NEW c, Accepts(h, c), c.op \in {"sign-up", "apple"} => Unused(h) # {}
  PROVE  YearsInv(Performed(h, c))
<1>0. Shaped(h) /\ Live(h) \subseteq People
  BY DEF YearsInv, Live
<1>1. CASE c.op = "sign-up"
  BY <1>1, SignUpKeepsYears DEF Performed
<1>2. CASE c.op = "apple"
  BY <1>2, AppleKeepsYears DEF Performed
<1>3. CASE c.op \in {"verify", "reset", "confirm", "redeem"}
  BY <1>3, LinkKeepsYears
<1>4. CASE c.op \in {"resend", "forgot"}
  <2> DEFINE p == The(WithEmail(h, c.email))
             kind == IF c.op = "resend" THEN "verify" ELSE "reset"
             g == Mailed(h, kind, p, h.people[p].email, h.people[p].email)
  <2>1. CASE Performed(h, c) = h
    BY <2>1
  <2>2. CASE Performed(h, c) # h
    <3>1. Performed(h, c) = g /\ WithEmail(h, c.email) # {}
      BY <1>4, <2>2 DEF Performed, Resent, Forgot
    <3>2. p \in People
      BY <1>0, <3>1, TheIsIn DEF WithEmail
    <3>3. kind \in Links \ {"change"}
      BY DEF Links
    <3> HIDE DEF kind, p
    <3>4. Leaves(h, g)
      BY <1>0, <3>2, <3>3, MailedLeaves
    <3> QED
      BY <3>1, <3>4, LeavesYears
  <2> QED
    BY <2>1, <2>2
<1>5. CASE c.op = "change"
  <2>1. c.user \in People /\ Performed(h, c) = Requested(h, c.user, c.email)
    BY <1>0, <1>5 DEF Accepts, Performed
  <2> QED
    BY <1>0, <2>1, RequestedLeaves, LeavesYears
<1>6. CASE c.op = "claim"
  <2>1. Performed(h, c) = [h EXCEPT !.claims = h.claims \cup {[user |-> c.user, email |-> c.email]}]
    BY <1>6 DEF Performed
  <2>2. \A x : Leaves(h, [h EXCEPT !.claims = x])
    BY <1>0, OthersChange
  <2> QED
    BY <2>1, <2>2, LeavesYears
<1>7. CASE c.op = "onboarded"
  <2> DEFINE u == c.user
             done == TRUE
  <2>1. u \in People /\ Performed(h, c) = [h EXCEPT !.people[u].boarded = done]
    BY <1>0, <1>7 DEF Accepts, Performed
  <2> HIDE DEF u, done
  <2>2. Leaves(h, [h EXCEPT !.people[u].boarded = done])
    BY <1>0, <2>1, FieldLeaves
  <2> QED
    BY <2>1, <2>2, LeavesYears
<1>8. CASE c.op = "delete"
  <2>1. c.user \in Live(h) /\ Performed(h, c) = Deleted(h, c.user)
    BY <1>8 DEF Accepts, Performed
  <2> QED
    BY <2>1, DeleteKeepsYears
<1>9. CASE c.op \notin {"sign-up", "apple", "verify", "reset", "confirm", "redeem", "resend", "forgot",
                        "change", "claim", "onboarded", "delete"}
  BY <1>9 DEF Performed
<1> QED
  BY <1>1, <1>2, <1>3, <1>4, <1>5, <1>6, <1>7, <1>8, <1>9

-----------------------------------------------------------------------------
(* The area of the account.                                                 *)

LEMMA NobodyYears == YearsInv(NoAccounts)
<1> DEFINE h == NoAccounts
<1>1. Stranger = [f \in PersonFields |-> Stranger[f]] /\ Stranger.link = [k \in Links |-> 0]
  BY DEF Stranger, PersonFields
<1>2. /\ h.people = [p \in People |-> Stranger] /\ h.mail = <<>> /\ h.redeemed = {} /\ h.grants = {}
      /\ h.today = 0 /\ h = [f \in ServerFields |-> h[f]]
  BY DEF NoAccounts, ServerFields
<1> HIDE DEF h
<1>3. IsSeq(h.mail) /\ Len(h.mail) = 0
  BY <1>2, EmptyIsSeq
<1>4. \A p \in People : Holds(h, p, h.people[p])
  BY <1>1, <1>2 DEF Holds
<1>5. Shaped(h)
  BY <1>1, <1>2, <1>3, <1>4 DEF Shaped, MailLinked
<1> QED
  BY <1>2, <1>5 DEF YearsInv, RowsOnce, OneYear, h

LEMMA BoardedKeepsYears ==
  ASSUME NEW h, YearsInv(h), NEW p \in People
  PROVE  YearsInv([h EXCEPT !.people[p].boarded = TRUE])
<1> DEFINE done == TRUE
<1> HIDE DEF done
<1>1. Shaped(h)
  BY DEF YearsInv
<1>2. Leaves(h, [h EXCEPT !.people[p].boarded = done])
  BY <1>1, FieldLeaves
<1>3. YearsInv([h EXCEPT !.people[p].boarded = done])
  BY <1>2, LeavesYears
<1> QED
  BY <1>3 DEF done

LEMMA AccountsBegin == AccountInit => YearsInv(accounts)
<1> SUFFICES ASSUME AccountInit PROVE YearsInv(accounts)
  OBVIOUS
<1>1. 1 \in People /\ Unused(NoAccounts) # {}
  <2>1. 1 \in People
    BY AccountsAssumption DEF People
  <2>2. 1 \in Unused(NoAccounts)
    BY <2>1 DEF Unused, NoAccounts, Stranger
  <2> QED
    BY <2>1, <2>2
<1>2. CASE accounts = NoAccounts
  BY <1>2, NobodyYears
<1>3. CASE accounts # NoAccounts
  <2>1. PICK h \in {WithApple(NoAccounts, e) : e \in Emails} \cup {SignedUp(NoAccounts, e) : e \in Listed} :
          accounts = [h EXCEPT !.people[1].boarded = TRUE]
    BY <1>3 DEF AccountInit
  <2>2. YearsInv(h)
    BY <1>1, NobodyYears, AppleKeepsYears, SignUpKeepsYears
  <2> QED
    BY <1>1, <2>1, <2>2, BoardedKeepsYears
<1> QED
  BY <1>2, <1>3

\* The server on its own: what the worker and the beats leave is in order.
LEMMA AloneKeepsYears ==
  ASSUME YearsInv(accounts), SendClaimLink \/ GrantTook \/ GrantFailed \/ NextDay
  PROVE  YearsInv(accounts')
<1>1. CASE SendClaimLink
  BY <1>1, ClaimKeepsYears DEF SendClaimLink, ServerAlone
<1>2. CASE GrantTook
  BY <1>2, GrantKeepsYears DEF GrantTook, ServerAlone
<1>3. CASE GrantFailed
  BY <1>3, GrantKeepsYears DEF GrantFailed, ServerAlone
<1>4. CASE NextDay
  <2> DEFINE h == [accounts EXCEPT !.today = @ + 1, !.expired = DOMAIN accounts.mail]
  <2>1. YearsInv(h)
    BY DayKeepsYears
  <2>2. \/ accounts' = h
        \/ accounts' = MatchAll(h)
        \/ ~WindowOpen(h) /\ accounts' = Purged(h)
    BY <1>4 DEF NextDay, ServerAlone
  <2> HIDE DEF h
  <2> QED
    BY <2>1, <2>2, MatchAllKeepsYears, PurgeKeepsYears
<1> QED
  BY <1>1, <1>2, <1>3, <1>4

LEMMA ServeKeepsYears ==
  ASSUME YearsInv(accounts), NEW n, ServeAccount(n)
  PROVE  YearsInv(accounts')
<1> DEFINE c == accountCalls[n]
<1>1. \/ accounts' = accounts
      \/ /\ Accepts(accounts, c) /\ accounts' = Performed(accounts, c)
         /\ c.op \in {"sign-up", "apple"} => Unused(accounts) # {}
  BY DEF ServeAccount
<1> HIDE DEF c
<1> QED
  BY <1>1, PerformedKeepsYears

LEMMA AccountsStep == YearsInv(accounts) /\ [AccountNext]_accountVars => YearsInv(accounts')
<1> SUFFICES ASSUME YearsInv(accounts), [AccountNext]_accountVars PROVE YearsInv(accounts')
  OBVIOUS
<1>1. CASE accounts' = accounts
  BY <1>1
<1>2. CASE SendClaimLink \/ GrantTook \/ GrantFailed \/ NextDay
  BY <1>2, AloneKeepsYears
<1>3. CASE \E n \in DOMAIN accountCalls : ServeAccount(n)
  BY <1>3, ServeKeepsYears
<1>4. CASE \/ (\E kind \in AccountKinds : OpenAccount(kind)) \/ BackAccount \/ ContinueFromLink
           \/ SendAgain \/ \E n \in DOMAIN accounts.mail : TapLink(n)
  BY <1>1, <1>4 DEF OpenAccount, BackAccount, ContinueFromLink, SendAgain, TapLink
<1>5. CASE \/ \E e \in Emails : \/ SignUp(e) \/ SignIn(e) \/ Apple(e) \/ ForgotPassword(e)
                                \/ ChangeEmail(e) \/ ClaimOffer(e)
           \/ ResendLink \/ ResetPassword \/ FinishOnboarding \/ DeleteAccount \/ SignOut
  <2>1. ASSUME NEW kind, NEW op, NEW e, SubmitFrom(kind, op, e) PROVE accounts' = accounts
    BY <2>1 DEF SubmitFrom
  <2>2. accounts' = accounts
    BY <1>5, <2>1 DEF SignUp, SignIn, Apple, ForgotPassword, ChangeEmail, ClaimOffer,
                      ResendLink, ResetPassword, FinishOnboarding, DeleteAccount, SignOut
  <2> QED
    BY <1>1, <2>2
<1>6. CASE \E n \in DOMAIN accountCalls : \/ AccountLost(n) \/ AccountAnswered(n) \/ SessionOver(n)
                                          \/ AccountFailed(n) \/ AppleReauth(n)
  BY <1>1, <1>6 DEF AccountLost, AccountAnswered, SessionOver, AccountFailed, AppleReauth
<1>7. CASE \E k \in AccountKeys : ServeAccountRead(k) \/ AccountReadLost(k) \/ AccountReadAnswered(k)
  BY <1>1, <1>7 DEF ServeAccountRead, AccountReadLost, AccountReadAnswered
<1>8. CASE UNCHANGED accountVars
  BY <1>1, <1>8 DEF accountVars
<1> QED
  BY <1>2, <1>3, <1>4, <1>5, <1>6, <1>7, <1>8 DEF AccountNext

-----------------------------------------------------------------------------
(* The links: an operation keeps the mails, and who has which address.      *)

Grew(h, g) == Len(h.mail) <= Len(g.mail) /\ \A n \in 1 .. Len(h.mail) : g.mail[n] = h.mail[n]
Kept(h, g) ==
  \A p \in People : h.people[p].state # "free" =>
    \/ g.people[p].state = "gone"
    \/ /\ g.people[p].state = h.people[p].state /\ g.people[p].email = h.people[p].email
       /\ g.people[p].verified = h.people[p].verified
Quiet(h, g) == Grew(h, g) /\ Kept(h, g)

LEMMA QuietOn ==
  ASSUME NEW h, NEW g, NEW k, Shaped(h), Shaped(g), Shaped(k), Quiet(h, g), Quiet(g, k)
  PROVE  Quiet(h, k)
<1>1. Len(h.mail) \in Nat /\ Len(g.mail) \in Nat /\ Len(k.mail) \in Nat
  BY LongerSeq DEF Shaped, MailLinked
<1>2. Grew(h, k)
  BY <1>1 DEF Quiet, Grew
<1>3. Kept(h, k)
  BY DEF Quiet, Kept
<1> QED
  BY <1>2, <1>3 DEF Quiet

LEMMA QuietRows ==
  ASSUME NEW h, Shaped(h), NEW g, g.people = h.people, g.mail = h.mail
  PROVE  Quiet(h, g)
<1>1. Len(h.mail) \in Nat
  BY LongerSeq DEF Shaped, MailLinked
<1> QED
  BY <1>1 DEF Quiet, Grew, Kept

LEMMA QuietPerson ==
  ASSUME NEW h, Shaped(h), NEW p \in People, NEW r,
         h.people[p].state # "free" =>
           \/ r.state = "gone"
           \/ r.state = h.people[p].state /\ r.email = h.people[p].email /\ r.verified = h.people[p].verified
  PROVE  Quiet(h, [h EXCEPT !.people[p] = r])
<1> DEFINE g == [h EXCEPT !.people[p] = r]
<1>1. g.people = [h.people EXCEPT ![p] = r] /\ g.mail = h.mail
  BY DEF Shaped, ServerFields
<1>2. Len(h.mail) \in Nat
  BY LongerSeq DEF Shaped, MailLinked
<1> HIDE DEF g
<1>3. Grew(h, g)
  BY <1>1, <1>2 DEF Grew
<1>4. \A q \in People : g.people[q] = IF q = p THEN r ELSE h.people[q]
  BY <1>1 DEF Shaped
<1>5. Kept(h, g)
  BY <1>4 DEF Kept
<1> QED
  BY <1>3, <1>5 DEF Quiet, g

LEMMA QuietFields ==
  ASSUME NEW h, Shaped(h), NEW p \in People, NEW v
  PROVE  /\ Quiet(h, [h EXCEPT !.people[p].password = v]) /\ Quiet(h, [h EXCEPT !.people[p].subject = v])
         /\ Quiet(h, [h EXCEPT !.people[p].claim = v]) /\ Quiet(h, [h EXCEPT !.people[p].boarded = v])
         /\ Quiet(h, [h EXCEPT !.people[p].pending = v])
<1> DEFINE Set(f) == [h.people[p] EXCEPT ![f] = v]
<1>1. ASSUME NEW f \in {"password", "subject", "claim", "boarded", "pending"}
      PROVE  Quiet(h, [h EXCEPT !.people[p] = Set(f)])
  <2>1. h.people[p] = [x \in PersonFields |-> h.people[p][x]]
    BY DEF Shaped
  <2>2. /\ Set(f).state = h.people[p].state /\ Set(f).email = h.people[p].email
        /\ Set(f).verified = h.people[p].verified
    BY <2>1 DEF PersonFields
  <2> HIDE DEF Set
  <2> QED
    BY <2>2, QuietPerson
<1> QED
  BY <1>1

LEMMA QuietSpent ==
  ASSUME NEW h, Shaped(h), NEW kind, NEW p \in People
  PROVE  Quiet(h, Spent(h, kind, p))
<1> DEFINE r == [h.people[p] EXCEPT !.link[kind] = 0]
<1>1. h.people[p] = [f \in PersonFields |-> h.people[p][f]]
  BY DEF Shaped
<1>2. r.state = h.people[p].state /\ r.email = h.people[p].email /\ r.verified = h.people[p].verified
  BY <1>1 DEF PersonFields
<1>3. Spent(h, kind, p) = [h EXCEPT !.people[p] = r]
  BY DEF Spent
<1> HIDE DEF r
<1> QED
  BY <1>2, <1>3, QuietPerson

LEMMA QuietMailed ==
  ASSUME NEW h, Shaped(h), NEW kind, NEW p \in People, NEW to, NEW says
  PROVE  Quiet(h, Mailed(h, kind, p, to, says))
<1> DEFINE r == [h.people[p] EXCEPT !.link[kind] = Len(h.mail) + 1]
           m == [kind |-> kind, user |-> p, to |-> to, says |-> says]
           g == [[h EXCEPT !.mail = Append(@, m)] EXCEPT !.people[p] = r]
<1>1. h.people[p] = [f \in PersonFields |-> h.people[p][f]] /\ IsSeq(h.mail)
  BY DEF Shaped, MailLinked
<1>2. r.state = h.people[p].state /\ r.email = h.people[p].email /\ r.verified = h.people[p].verified
  BY <1>1 DEF PersonFields
<1>3. Mailed(h, kind, p, to, says) = g
  BY DEF Mailed, Shaped, ServerFields
<1> HIDE DEF r, m
<1>4. g.people = [h.people EXCEPT ![p] = r] /\ g.mail = Append(h.mail, m)
  BY DEF Shaped, ServerFields
<1> HIDE DEF g
<1>5. Grew(h, g)
  BY <1>1, <1>4, LongerSeq DEF Grew
<1>6. \A q \in People : g.people[q] = IF q = p THEN r ELSE h.people[q]
  BY <1>4 DEF Shaped
<1>7. Kept(h, g)
  BY <1>2, <1>6 DEF Kept
<1> QED
  BY <1>3, <1>5, <1>7 DEF Quiet

LEMMA QuietMatch ==
  ASSUME NEW h, Shaped(h), NEW p, NEW e
  PROVE  Quiet(h, Redeem(h, p, e)) /\ Quiet(h, Match(h, p))
<1>1. \A x : Redeem(h, p, x).people = h.people /\ Redeem(h, p, x).mail = h.mail
  BY DEF Redeem, Shaped, ServerFields
<1>2. Match(h, p).people = h.people /\ Match(h, p).mail = h.mail
  BY <1>1 DEF Match
<1> QED
  BY <1>1, <1>2, QuietRows

LEMMA QuietCreated ==
  ASSUME NEW h, Shaped(h), NEW p \in Unused(h), NEW e, NEW verified, NEW password, NEW subject
  PROVE  Quiet(h, Created(h, p, e, verified, password, subject))
<1> DEFINE r == [Stranger EXCEPT !.state = "live", !.email = e, !.verified = verified,
                                   !.password = password, !.subject = subject]
<1>1. Created(h, p, e, verified, password, subject) = [h EXCEPT !.people[p] = r]
  BY DEF Created
<1>2. p \in People /\ h.people[p].state = "free"
  BY DEF Unused
<1> HIDE DEF r
<1> QED
  BY <1>1, <1>2, QuietPerson

LEMMA QuietSame ==
  ASSUME NEW h, NEW g, NEW k, Quiet(h, g), k.people = g.people, k.mail = g.mail
  PROVE  Quiet(h, k)
BY DEF Quiet, Grew, Kept

LEMMA MatchSame ==
  ASSUME NEW h, Shaped(h), NEW p
  PROVE  Match(h, p).people = h.people /\ Match(h, p).mail = h.mail
BY DEF Match, Redeem, Shaped, ServerFields

LEMMA ItselfQuiet == ASSUME NEW h, Shaped(h) PROVE Quiet(h, h)
BY QuietRows

LEMMA DeletedQuiet ==
  ASSUME NEW h, Shaped(h), NEW p \in People
  PROVE  Quiet(h, Deleted(h, p))
<1> DEFINE r == [Stranger EXCEPT !.state = "gone"]
           rows == {IF q.user = p THEN [q EXCEPT !.user = NoOne, !.matched = 0] ELSE q : q \in h.redeemed}
           g == [h EXCEPT !.people[p] = r]
           k == Deleted(h, p)
<1>1. r.state = "gone"
  BY DEF Stranger
<1>2. k = [h EXCEPT !.people[p] = r, !.redeemed = rows]
  BY DEF Deleted
<1> HIDE DEF r, rows, k
<1>3. Quiet(h, g)
  BY <1>1, QuietPerson
<1>4. k.people = g.people /\ k.mail = g.mail
  BY <1>2 DEF Shaped, ServerFields
<1> QED
  BY <1>3, <1>4, QuietSame DEF k

LEMMA AppleQuiet ==
  ASSUME NEW h, YearsInv(h), NEW e, Unused(h) # {}
  PROVE  Quiet(h, WithApple(h, e))
<1>0. Shaped(h) /\ Live(h) \subseteq People
  BY DEF YearsInv, Live
<1>1. CASE WithSubject(h, e) # {}
  BY <1>0, <1>1, QuietMatch DEF WithApple
<1>2. CASE WithSubject(h, e) = {} /\ WithEmail(h, e) # {}
  <2> DEFINE p == The(WithEmail(h, e))
             g == [h EXCEPT !.people[p].subject = e]
  <2>1. p \in People
    BY <1>0, <1>2, TheIsIn DEF WithEmail
  <2>2. WithApple(h, e) = Match(g, p)
    BY <1>2 DEF WithApple
  <2> HIDE DEF p
  <2>3. Leaves(h, g) /\ Quiet(h, g)
    BY <1>0, <2>1, FieldLeaves, QuietFields
  <2> HIDE DEF g
  <2>4. Match(g, p).people = g.people /\ Match(g, p).mail = g.mail
    BY <2>3, MatchSame DEF Leaves
  <2> QED
    BY <2>2, <2>3, <2>4, QuietSame
<1>3. CASE WithSubject(h, e) = {} /\ WithEmail(h, e) = {}
  <2> DEFINE p == The(Unused(h))
             g == Created(h, p, e, TRUE, FALSE, e)
  <2>1. p \in Unused(h)
    BY TheIsIn
  <2>2. WithApple(h, e) = Match(g, p)
    BY <1>3 DEF WithApple
  <2> HIDE DEF p
  <2>3. Leaves(h, g) /\ Quiet(h, g)
    BY <1>0, <2>1, CreatedLeaves, QuietCreated
  <2> HIDE DEF g
  <2>4. Match(g, p).people = g.people /\ Match(g, p).mail = g.mail
    BY <2>3, MatchSame DEF Leaves
  <2> QED
    BY <2>2, <2>3, <2>4, QuietSame
<1> QED
  BY <1>1, <1>2, <1>3

\* The calls that neither verify an address nor change it.
LEMMA PerformedQuiet ==
  ASSUME NEW h, YearsInv(h), NEW c, Accepts(h, c), c.op \notin {"verify", "confirm"},
         c.op \in {"sign-up", "apple"} => Unused(h) # {}
  PROVE  Quiet(h, Performed(h, c))
<1>0. Shaped(h) /\ Live(h) \subseteq People
  BY DEF YearsInv, Live
<1>a. Shaped(Performed(h, c))
  <2>1. YearsInv(Performed(h, c))
    BY PerformedKeepsYears
  <2> QED
    BY <2>1 DEF YearsInv
<1>1. CASE c.op = "sign-up"
  <2> DEFINE p == The(Unused(h))
             g == Created(h, p, c.email, FALSE, TRUE, NoEmail)
             k == Performed(h, c)
  <2>1. p \in Unused(h) /\ p \in People
    BY <1>1, TheIsIn DEF Unused
  <2>2. k = Mailed(g, "verify", p, c.email, c.email)
    BY <1>1 DEF Performed, SignedUp
  <2> HIDE DEF p, k
  <2>3. Leaves(h, g) /\ Quiet(h, g)
    BY <1>0, <2>1, CreatedLeaves, QuietCreated
  <2> HIDE DEF g
  <2>4. Shaped(g)
    BY <2>3 DEF Leaves
  <2>5. Quiet(g, k)
    BY <2>1, <2>2, <2>4, QuietMailed
  <2> QED
    BY <1>0, <1>a, <2>3, <2>4, <2>5, QuietOn DEF k
<1>2. CASE c.op = "apple"
  BY <1>2, AppleQuiet DEF Performed
<1>3. CASE c.op = "reset"
  <2> DEFINE p == The(Holder(h, c.mail))
             yes == TRUE
             g == [h EXCEPT !.people[p].password = yes]
             k == Performed(h, c)
  <2>1. p \in People
    <3>1. Holder(h, c.mail) # {}
      BY <1>3 DEF Accepts
    <3> QED
      BY <1>0, <3>1, TheIsIn DEF Holder
  <2>2. k = Spent(g, "reset", p)
    BY <1>3 DEF Performed, Reset
  <2> HIDE DEF p, yes, k
  <2>3. Leaves(h, g) /\ Quiet(h, g)
    BY <1>0, <2>1, FieldLeaves, QuietFields
  <2> HIDE DEF g
  <2>4. Shaped(g)
    BY <2>3 DEF Leaves
  <2>5. Quiet(g, k)
    BY <2>1, <2>2, <2>4, QuietSpent
  <2> QED
    BY <1>0, <1>a, <2>3, <2>4, <2>5, QuietOn DEF k
<1>4. CASE c.op = "redeem"
  <2> DEFINE p == The(Holder(h, c.mail))
             e == h.people[p].claim
             none == NoEmail
             g == [h EXCEPT !.people[p].claim = none]
             s == Spent(g, "claim", p)
             k == Performed(h, c)
  <2>1. p \in People
    <3>1. Holder(h, c.mail) # {}
      BY <1>4 DEF Accepts
    <3> QED
      BY <1>0, <3>1, TheIsIn DEF Holder
  <2>2. k = Redeem(s, p, e)
    BY <1>4 DEF Performed, Claimed
  <2> HIDE DEF p, e, none, k
  <2>3. Leaves(h, g) /\ Quiet(h, g)
    BY <1>0, <2>1, FieldLeaves, QuietFields
  <2> HIDE DEF g
  <2>4. Shaped(g) /\ "claim" \in Links
    BY <2>3 DEF Leaves, Links
  <2>5. Quiet(g, s) /\ Leaves(g, s)
    BY <2>1, <2>4, QuietSpent, SpentLeaves
  <2> HIDE DEF s
  <2>6. Shaped(s)
    BY <2>5 DEF Leaves
  <2>7. Quiet(s, k)
    BY <2>2, <2>6, QuietMatch
  <2>8. Quiet(h, s)
    BY <1>0, <2>3, <2>4, <2>5, <2>6, QuietOn
  <2> QED
    BY <1>0, <1>a, <2>6, <2>7, <2>8, QuietOn DEF k
<1>5. CASE c.op \in {"resend", "forgot"}
  <2> DEFINE p == The(WithEmail(h, c.email))
             kind == IF c.op = "resend" THEN "verify" ELSE "reset"
  <2>1. CASE Performed(h, c) = h
    BY <1>0, <2>1, ItselfQuiet
  <2>2. CASE Performed(h, c) # h
    <3>1. /\ Performed(h, c) = Mailed(h, kind, p, h.people[p].email, h.people[p].email)
          /\ WithEmail(h, c.email) # {}
      BY <1>5, <2>2 DEF Performed, Resent, Forgot
    <3>2. p \in People
      BY <1>0, <3>1, TheIsIn DEF WithEmail
    <3> HIDE DEF kind, p
    <3> QED
      BY <1>0, <3>1, <3>2, QuietMailed
  <2> QED
    BY <2>1, <2>2
<1>6. CASE c.op = "change"
  <2> DEFINE p == c.user
             e == c.email
             g == Mailed(h, "change", p, h.people[p].email, e)
             k == Performed(h, c)
  <2>1. p \in People
    BY <1>0, <1>6 DEF Accepts
  <2>2. k = [g EXCEPT !.people[p].pending = e]
    BY <1>6 DEF Performed, Requested
  <2> HIDE DEF p, e, k
  <2>3. Quiet(h, g)
    BY <1>0, <2>1, QuietMailed
  <2>4. /\ g.people = [q \in People |-> g.people[q]] /\ g = [f \in ServerFields |-> g[f]]
        /\ g.people[p] = [f \in PersonFields |-> g.people[p][f]]
    BY <1>0, <2>1 DEF Mailed, Shaped, ServerFields, PersonFields
  <2> HIDE DEF g
  <2>5. /\ k.mail = g.mail
        /\ \A q \in People : /\ k.people[q].state = g.people[q].state /\ k.people[q].email = g.people[q].email
                             /\ k.people[q].verified = g.people[q].verified
    BY <2>1, <2>2, <2>4 DEF ServerFields, PersonFields
  <2>6. Quiet(h, k)
    BY <2>3, <2>5 DEF Quiet, Grew, Kept
  <2> QED
    BY <2>6 DEF k
<1>7. CASE c.op = "claim"
  <2> DEFINE k == Performed(h, c)
  <2>1. k = [h EXCEPT !.claims = h.claims \cup {[user |-> c.user, email |-> c.email]}]
    BY <1>7 DEF Performed
  <2> HIDE DEF k
  <2>2. k.people = h.people /\ k.mail = h.mail
    BY <1>0, <2>1 DEF Shaped, ServerFields
  <2>3. Quiet(h, k)
    BY <1>0, <2>2, QuietRows
  <2> QED
    BY <2>3 DEF k
<1>8. CASE c.op = "onboarded"
  <2> DEFINE p == c.user
             done == TRUE
  <2>1. p \in People /\ Performed(h, c) = [h EXCEPT !.people[p].boarded = done]
    BY <1>0, <1>8 DEF Accepts, Performed
  <2> HIDE DEF p, done
  <2>2. Quiet(h, [h EXCEPT !.people[p].boarded = done])
    BY <1>0, <2>1, QuietFields
  <2> QED
    BY <2>1, <2>2
<1>9. CASE c.op = "delete"
  <2>1. c.user \in People /\ Performed(h, c) = Deleted(h, c.user)
    BY <1>0, <1>9 DEF Accepts, Performed
  <2> QED
    BY <1>0, <2>1, DeletedQuiet
<1>10. CASE c.op \notin {"sign-up", "apple", "reset", "redeem", "resend", "forgot", "change", "claim",
                         "onboarded", "delete"}
  <2>1. Performed(h, c) = h
    BY <1>10 DEF Performed
  <2> QED
    BY <1>0, <2>1, ItselfQuiet
<1> QED
  BY <1>1, <1>2, <1>3, <1>4, <1>5, <1>6, <1>7, <1>8, <1>9, <1>10

\* What the mail m says of a change from h to g: of an address, and of one that was not verified.
MailTold(h, g, m) ==
  \A p \in Live(h) : g.people[p].state = "live" =>
    /\ g.people[p].email # h.people[p].email =>
         m.kind = "change" /\ m.user = p /\ m.says = g.people[p].email
    /\ g.people[p].verified /\ ~h.people[p].verified =>
         m.kind \in {"verify", "change"} /\ m.user = p /\ m.says = g.people[p].email

LEMMA VerifiedTold ==
  ASSUME NEW h, Shaped(h), NEW n, NEW p \in Holder(h, n), h.mail[n].kind = "verify"
  PROVE  Grew(h, Verified(h, p)) /\ MailTold(h, Verified(h, p), h.mail[n])
<1> DEFINE was == h.people[p]
           r == [was EXCEPT !.verified = TRUE]
           g == [h EXCEPT !.people[p] = r]
           s == Spent(g, "verify", p)
           k == Match(s, p)
           m == h.mail[n]
<1>1. /\ p \in Live(h) /\ p \in People /\ m.user = p /\ was.link["verify"] = n /\ n # 0
      /\ "verify" \in Links
  <2>1. p \in Live(h) /\ p \in People /\ m.user = p /\ was.link["verify"] = n /\ n \in 1 .. Len(h.mail)
    BY HolderIs
  <2> QED
    BY <2>1 DEF Links
<1>2. Holds(h, p, was) /\ was = [f \in PersonFields |-> was[f]]
  BY <1>1 DEF Shaped, MailLinked
<1>3. ~was.verified => m.says = was.email
  BY <1>1, <1>2 DEF Holds
<1>4. Verified(h, p) = k
  BY DEF Verified
<1>5. r.email = was.email /\ r.state = "live"
  BY <1>1, <1>2 DEF PersonFields, Live
<1>6. Leaves(h, g)
  BY <1>1, FieldLeaves
<1>7. g.mail = h.mail /\ \A q \in People : g.people[q] = IF q = p THEN r ELSE h.people[q]
  BY <1>1 DEF Shaped, ServerFields
<1> HIDE DEF g, was, r, m
<1>8. Shaped(g) /\ Quiet(g, s) /\ Leaves(g, s)
  BY <1>1, <1>6, QuietSpent, SpentLeaves DEF Leaves
<1>9. Quiet(g, k)
  BY <1>8, MatchSame, QuietSame DEF Leaves
<1> HIDE DEF s, k
<1>10. Grew(h, k)
  BY <1>7, <1>9 DEF Quiet, Grew
<1>11. MailTold(h, k, m)
  <2> SUFFICES ASSUME NEW q \in Live(h), k.people[q].state = "live"
               PROVE  /\ k.people[q].email = h.people[q].email
                      /\ k.people[q].verified /\ ~h.people[q].verified =>
                           m.kind \in {"verify", "change"} /\ m.user = q /\ m.says = k.people[q].email
    BY DEF MailTold
  <2>1. q \in People /\ h.people[q].state = "live"
    BY DEF Live
  <2>2. g.people[q].state # "free"
    BY <1>5, <1>7, <2>1
  <2>3. k.people[q].email = g.people[q].email /\ k.people[q].verified = g.people[q].verified
    BY <1>9, <2>1, <2>2 DEF Quiet, Kept
  <2>4. CASE q = p
    BY <1>1, <1>3, <1>5, <1>7, <2>1, <2>3, <2>4 DEF m, was
  <2>5. CASE q # p
    BY <1>7, <2>1, <2>3, <2>5
  <2> QED
    BY <2>4, <2>5
<1> QED
  BY <1>4, <1>10, <1>11 DEF m

LEMMA ChangedTold ==
  ASSUME NEW h, Shaped(h), NEW n, NEW p \in Holder(h, n), h.mail[n].kind = "change"
  PROVE  Grew(h, Changed(h, p)) /\ MailTold(h, Changed(h, p), h.mail[n])
<1> DEFINE was == h.people[p]
           r == [was EXCEPT !.email = was.pending, !.pending = NoEmail, !.verified = TRUE, !.link["change"] = 0]
           g == [h EXCEPT !.people[p] = r]
           k == Match(g, p)
           m == h.mail[n]
<1>1. /\ p \in Live(h) /\ p \in People /\ m.user = p /\ was.link["change"] = n /\ n # 0
      /\ "change" \in Links
  <2>1. p \in Live(h) /\ p \in People /\ m.user = p /\ was.link["change"] = n /\ n \in 1 .. Len(h.mail)
    BY HolderIs
  <2> QED
    BY <2>1 DEF Links
<1>2. Holds(h, p, was) /\ was = [f \in PersonFields |-> was[f]]
  BY <1>1 DEF Shaped, MailLinked
<1>3. m.says = was.pending
  BY <1>1, <1>2 DEF Holds
<1>4. Changed(h, p) = k /\ Leaves(h, g)
  BY <1>1, ChangedLeaves
<1>5. r.email = was.pending
  BY <1>1, <1>2 DEF PersonFields
<1>6. g.mail = h.mail /\ \A q \in People : g.people[q] = IF q = p THEN r ELSE h.people[q]
  BY <1>1 DEF Shaped, ServerFields
<1> HIDE DEF g, was, r
<1>7. k.people = g.people /\ k.mail = g.mail
  BY <1>4, MatchSame DEF Leaves
<1> HIDE DEF k, m
<1>8. Len(h.mail) \in Nat
  BY LongerSeq DEF Shaped, MailLinked
<1>9. Grew(h, k)
  BY <1>6, <1>7, <1>8 DEF Grew
<1>10. ASSUME NEW q \in Live(h)
       PROVE  IF q = p THEN m.says = k.people[q].email ELSE k.people[q] = h.people[q]
  BY <1>3, <1>5, <1>6, <1>7 DEF Live
<1>11. MailTold(h, k, m)
  BY <1>1, <1>10 DEF MailTold, m
<1> QED
  BY <1>4, <1>9, <1>11 DEF m

LEMMA ClaimQuiet ==
  ASSUME NEW h, YearsInv(h), NEW t
  PROVE  Quiet(h, ClaimSent(h, t))
<1> DEFINE served == [h EXCEPT !.claims = @ \ {t}]
           p == t.user
           e == t.email
           mailed == Mailed(served, "claim", p, e, e)
           k == [mailed EXCEPT !.people[p].claim = e]
<1>0. Shaped(h)
  BY DEF YearsInv
<1>1. served.people = h.people /\ served.mail = h.mail
  BY <1>0 DEF Shaped, ServerFields
<1>2. Leaves(h, served)
  <2> DEFINE claims == h.claims \ {t}
  <2> HIDE DEF claims
  <2>1. Leaves(h, [h EXCEPT !.claims = claims])
    BY <1>0, OthersChange
  <2> QED
    BY <2>1 DEF claims
<1>3. \/ ClaimSent(h, t) = served
      \/ ClaimSent(h, t) = k /\ p \in People
  BY <1>1 DEF ClaimSent, Live
<1> HIDE DEF served, p, e
<1>4. Shaped(served) /\ Quiet(h, served)
  BY <1>0, <1>1, <1>2, QuietRows DEF Leaves
<1>5. CASE p \in People
  <2>1. Quiet(served, mailed) /\ Leaves(served, mailed)
    <3>1. "claim" \in Links \ {"change"}
      BY DEF Links
    <3> QED
      BY <1>4, <1>5, <3>1, QuietMailed, MailedLeaves
  <2> HIDE DEF mailed
  <2>2. Shaped(mailed)
    BY <2>1 DEF Leaves
  <2>3. Leaves(mailed, k) /\ Quiet(mailed, k)
    BY <1>5, <2>2, FieldLeaves, QuietFields
  <2> HIDE DEF k
  <2>4. Shaped(k)
    BY <2>3 DEF Leaves
  <2>5. Quiet(h, mailed)
    BY <1>0, <1>4, <2>1, <2>2, QuietOn
  <2>6. Quiet(h, k)
    BY <1>0, <2>2, <2>3, <2>4, <2>5, QuietOn
  <2> QED
    BY <1>3, <1>4, <2>6
<1> QED
  BY <1>3, <1>4, <1>5

LEMMA AloneQuiet ==
  ASSUME YearsInv(accounts), SendClaimLink \/ GrantTook \/ GrantFailed \/ NextDay
  PROVE  Quiet(accounts, accounts')
<1> DEFINE h == accounts
<1>0. Shaped(h)
  BY DEF YearsInv
<1>1. CASE SendClaimLink
  BY <1>1, ClaimQuiet DEF SendClaimLink, ServerAlone
<1>2. CASE GrantTook \/ GrantFailed
  <2>1. PICK r, outcome : accounts' = GrantTried(h, r, outcome)
    BY <1>2 DEF GrantTook, GrantFailed, ServerAlone
  <2>2. accounts'.people = h.people /\ accounts'.mail = h.mail
    BY <1>0, <2>1 DEF GrantTried, Shaped, ServerFields
  <2> QED
    BY <1>0, <2>2, QuietRows
<1>3. CASE NextDay
  <2> DEFINE g == [h EXCEPT !.today = @ + 1, !.expired = DOMAIN h.mail]
  <2>1. \/ accounts' = g
        \/ accounts' = MatchAll(g)
        \/ accounts' = Purged(g)
    BY <1>3 DEF NextDay, ServerAlone
  <2>2. g.people = h.people /\ g.mail = h.mail /\ YearsInv(g)
    BY <1>0, DayKeepsYears DEF Shaped, ServerFields
  <2> HIDE DEF g, h
  <2>3. Shaped(g) /\ Quiet(h, g)
    BY <1>0, <2>2, QuietRows DEF YearsInv
  <2>4. CASE accounts' = MatchAll(g)
    <3>1. PICK rows : accounts' = [g EXCEPT !.redeemed = rows]
      BY <2>2, <2>4, MatchAllMatches DEF Matching
    <3>2. accounts'.people = g.people /\ accounts'.mail = g.mail
      BY <2>3, <3>1 DEF Shaped, ServerFields
    <3> QED
      BY <2>3, <3>2, QuietSame DEF h
  <2>5. CASE accounts' = Purged(g)
    <3>1. /\ accounts'.mail = g.mail
          /\ accounts'.people = [p \in People |-> [g.people[p] EXCEPT !.claim = NoEmail, !.link["claim"] = 0]]
      BY <2>3, <2>5 DEF Purged, Shaped, ServerFields
    <3>2. \A p \in People : LET q == accounts'.people[p] IN
            q.state = g.people[p].state /\ q.email = g.people[p].email /\ q.verified = g.people[p].verified
      <4> SUFFICES ASSUME NEW p \in People
                   PROVE  LET q == accounts'.people[p] IN
                     q.state = g.people[p].state /\ q.email = g.people[p].email /\ q.verified = g.people[p].verified
        OBVIOUS
      <4>1. g.people[p] = [f \in PersonFields |-> g.people[p][f]]
        BY <2>3 DEF Shaped
      <4>2. accounts'.people[p] = [g.people[p] EXCEPT !.claim = NoEmail, !.link["claim"] = 0]
        BY <3>1
      <4> QED
        BY <4>1, <4>2 DEF PersonFields
    <3>3. Quiet(h, accounts')
      BY <2>3, <3>1, <3>2 DEF Quiet, Grew, Kept
    <3> QED
      BY <3>3 DEF h
  <2> QED
    BY <2>1, <2>3, <2>4, <2>5 DEF h
<1> QED
  BY <1>1, <1>2, <1>3

\* A quiet step changes nobody's address, and verifies none.
LEMMA QuietTold ==
  ASSUME Quiet(accounts, accounts') PROVE OnlyAsMailed
BY DEF Quiet, Kept, OnlyAsMailed, Live

-----------------------------------------------------------------------------
(* The calls: a link's call is for a mail of its kind.                      *)

LinkCallFields == {"op", "email", "mail", "user", "code", "for", "at", "pc"}
ForItsKind(h, c) ==
  /\ c = [f \in LinkCallFields |-> c[f]]
  /\ c.op = "verify" => c.mail \in 1 .. Len(h.mail) /\ h.mail[c.mail].kind = "verify"
  /\ c.op = "confirm" => c.mail \in 1 .. Len(h.mail) /\ h.mail[c.mail].kind = "change"
CallsOK(h, cs) == IsSeq(cs) /\ \A n \in 1 .. Len(cs) : ForItsKind(h, cs[n])

LEMMA CallsGrow ==
  ASSUME NEW h, Shaped(h), NEW g, Shaped(g), Grew(h, g), NEW cs, CallsOK(h, cs)
  PROVE  CallsOK(g, cs)
<1>1. Len(h.mail) \in Nat /\ Len(g.mail) \in Nat
  BY LongerSeq DEF Shaped, MailLinked
<1> QED
  BY <1>1 DEF CallsOK, ForItsKind, Grew

LEMMA CallSent ==
  ASSUME NEW h, NEW cs, CallsOK(h, cs), NEW c, ForItsKind(h, c)
  PROVE  CallsOK(h, Append(cs, c))
<1>1. /\ IsSeq(Append(cs, c)) /\ Len(Append(cs, c)) = Len(cs) + 1 /\ Len(cs) \in Nat
      /\ \A n \in 1 .. Len(cs) + 1 : Append(cs, c)[n] = IF n <= Len(cs) THEN cs[n] ELSE c
  BY LongerSeq DEF CallsOK
<1>2. \A n \in 1 .. Len(cs) + 1 : n <= Len(cs) => n \in 1 .. Len(cs)
  BY <1>1
<1> QED
  BY <1>1, <1>2 DEF CallsOK

LEMMA CallGone ==
  ASSUME NEW h, NEW cs, CallsOK(h, cs), NEW n \in 1 .. Len(cs)
  PROVE  CallsOK(h, RemoveAt(cs, n))
<1>1. RemoveAt(cs, n) = Without(cs, n)
  BY DEF RemoveAt, Without
<1>2. /\ IsSeq(Without(cs, n)) /\ Len(Without(cs, n)) = Len(cs) - 1 /\ Len(cs) \in Nat
      /\ \A i \in 1 .. Len(cs) - 1 : Without(cs, n)[i] = IF i < n THEN cs[i] ELSE cs[i + 1]
  BY ShorterSeq DEF CallsOK
<1>3. \A i \in 1 .. Len(cs) - 1 : i \in 1 .. Len(cs) /\ i + 1 \in 1 .. Len(cs)
  BY <1>2
<1> QED
  BY <1>1, <1>2, <1>3 DEF CallsOK

LEMMA CallChanged ==
  ASSUME NEW h, NEW cs, CallsOK(h, cs), NEW n \in 1 .. Len(cs), NEW c, ForItsKind(h, c)
  PROVE  CallsOK(h, [cs EXCEPT ![n] = c])
<1> DEFINE now == [cs EXCEPT ![n] = c]
<1>1. Len(cs) \in Nat /\ cs = [i \in 1 .. Len(cs) |-> cs[i]]
  BY LongerSeq DEF CallsOK, IsSeq
<1>2. now = [i \in 1 .. Len(cs) |-> now[i]] /\ \A i \in 1 .. Len(cs) : now[i] = IF i = n THEN c ELSE cs[i]
  BY <1>1
<1> HIDE DEF now
<1>3. IsSeq(now) /\ Len(now) = Len(cs)
  BY <1>1, <1>2, IsSeqOf
<1> QED
  BY <1>2, <1>3 DEF CallsOK, now

LEMMA CallsStay ==
  ASSUME NEW h, NEW cs, CallsOK(h, cs), NEW st
  PROVE  CallsOK(h, CallsAfter(cs, st))
<1> DEFINE now == CallsAfter(cs, st)
<1>1. Len(cs) \in Nat /\ DOMAIN cs = 1 .. Len(cs)
  BY LongerSeq DEF CallsOK, IsSeq
<1>2. /\ now = [n \in 1 .. Len(cs) |-> now[n]]
      /\ \A n \in 1 .. Len(cs) : now[n] = cs[n] \/ now[n] = [cs[n] EXCEPT !.at = 0]
  BY <1>1 DEF CallsAfter
<1> HIDE DEF now
<1>3. IsSeq(now) /\ Len(now) = Len(cs)
  BY <1>1, <1>2, IsSeqOf
<1>4. ASSUME NEW c, ForItsKind(h, c) PROVE ForItsKind(h, [c EXCEPT !.at = 0])
  <2> DEFINE d == [c EXCEPT !.at = 0]
  <2>1. d = [f \in LinkCallFields |-> d[f]] /\ d.op = c.op /\ d.mail = c.mail
    BY <1>4 DEF ForItsKind, LinkCallFields
  <2> HIDE DEF d
  <2>2. ForItsKind(h, d)
    BY <1>4, <2>1 DEF ForItsKind
  <2> QED
    BY <2>2 DEF d
<1>5. \A n \in 1 .. Len(cs) : ForItsKind(h, now[n])
  BY <1>2, <1>4 DEF CallsOK
<1> QED
  BY <1>3, <1>5 DEF CallsOK, now

\* A call served, lost or asked for a code is for the mail it was for.
LEMMA CallGoesOn ==
  ASSUME NEW h, NEW cs, CallsOK(h, cs), NEW n \in 1 .. Len(cs), NEW pc, NEW x
  PROVE  /\ CallsOK(h, [cs EXCEPT ![n].pc = pc]) /\ CallsOK(h, [cs EXCEPT ![n].pc = pc, ![n].code = x])
         /\ CallsOK(h, [cs EXCEPT ![n].pc = pc, ![n].for = x])
         /\ [cs EXCEPT ![n].pc = pc, ![n].for = x][n].pc = pc
<1> DEFINE c == cs[n]
           d1 == [c EXCEPT !.pc = pc]
           d2 == [c EXCEPT !.pc = pc, !.code = x]
           d3 == [c EXCEPT !.pc = pc, !.for = x]
<1>0. ForItsKind(h, c) /\ c = [f \in LinkCallFields |-> c[f]] /\ cs = [i \in 1 .. Len(cs) |-> cs[i]]
  <2>1. cs = [i \in 1 .. Len(cs) |-> cs[i]]
    BY LongerSeq DEF CallsOK, IsSeq
  <2> QED
    BY <2>1 DEF CallsOK, ForItsKind
<1>1. /\ [cs EXCEPT ![n].pc = pc] = [cs EXCEPT ![n] = d1]
      /\ [cs EXCEPT ![n].pc = pc, ![n].code = x] = [cs EXCEPT ![n] = d2]
      /\ [cs EXCEPT ![n].pc = pc, ![n].for = x] = [cs EXCEPT ![n] = d3]
  BY <1>0
<1>2. /\ d1 = [f \in LinkCallFields |-> d1[f]] /\ d1.op = c.op /\ d1.mail = c.mail
      /\ d2 = [f \in LinkCallFields |-> d2[f]] /\ d2.op = c.op /\ d2.mail = c.mail
      /\ d3 = [f \in LinkCallFields |-> d3[f]] /\ d3.op = c.op /\ d3.mail = c.mail /\ d3.pc = pc
  BY <1>0 DEF LinkCallFields
<1> HIDE DEF c, d1, d2, d3
<1>3. ForItsKind(h, d1) /\ ForItsKind(h, d2) /\ ForItsKind(h, d3)
  BY <1>0, <1>2 DEF ForItsKind
<1>4. CallsOK(h, [cs EXCEPT ![n] = d1]) /\ CallsOK(h, [cs EXCEPT ![n] = d2]) /\ CallsOK(h, [cs EXCEPT ![n] = d3])
  BY <1>3, CallChanged
<1>5. [cs EXCEPT ![n] = d3][n].pc = pc
  BY <1>0, <1>2
<1> QED
  BY <1>1, <1>4, <1>5

LEMMA NewCall ==
  ASSUME NEW h, NEW cs, CallsOK(h, cs), accountCalls = cs, NEW op, NEW e, NEW n, NEW at,
         op = "verify" => n \in 1 .. Len(h.mail) /\ h.mail[n].kind = "verify",
         op = "confirm" => n \in 1 .. Len(h.mail) /\ h.mail[n].kind = "change"
  PROVE  CallsOK(h, Sent(op, e, n, at))
<1> DEFINE c == [op |-> op, email |-> e, mail |-> n, user |-> who, code |-> FALSE, for |-> NoOne, at |-> at,
                 pc |-> "sent"]
<1>1. c = [f \in LinkCallFields |-> c[f]] /\ c.op = op /\ c.mail = n
  BY DEF LinkCallFields
<1>2. Sent(op, e, n, at) = Append(cs, c)
  BY DEF Sent
<1> HIDE DEF c
<1>3. ForItsKind(h, c)
  BY <1>1 DEF ForItsKind
<1> QED
  BY <1>2, <1>3, CallSent

AccountsInv == YearsInv(accounts) /\ CallsOK(accounts, accountCalls)

\* An answer, or a call of the server's, leaves the other calls as they are.
LEMMA AnswersKeepCalls ==
  ASSUME CallsOK(accounts, accountCalls), NEW n \in DOMAIN accountCalls,
         \/ AccountLost(n) \/ AccountAnswered(n) \/ SessionOver(n) \/ AccountFailed(n) \/ AppleReauth(n)
  PROVE  CallsOK(accounts, accountCalls')
<1> DEFINE h == accounts
           cs == accountCalls
<1>1. n \in 1 .. Len(cs)
  BY LongerSeq DEF CallsOK, IsSeq
<1>2. \/ \E pc : cs' = [cs EXCEPT ![n].pc = pc]
      \/ \E pc, code : cs' = [cs EXCEPT ![n].pc = pc, ![n].code = code]
      \/ cs' = RemoveAt(cs, n)
      \/ cs' = CallsAfter(RemoveAt(cs, n), accountStack')
  BY DEF AccountLost, AccountAnswered, SessionOver, AccountFailed, AppleReauth
<1>3. CallsOK(h, RemoveAt(cs, n))
  BY <1>1, CallGone
<1>4. CallsOK(h, CallsAfter(RemoveAt(cs, n), accountStack'))
  BY <1>3, CallsStay
<1> HIDE DEF cs, h
<1>5. CallsOK(h, cs) /\ cs = accountCalls /\ h = accounts
  BY DEF cs, h
<1>6. /\ \A pc : CallsOK(h, [cs EXCEPT ![n].pc = pc])
      /\ \A pc, code : CallsOK(h, [cs EXCEPT ![n].pc = pc, ![n].code = code])
  BY <1>1, <1>5, CallGoesOn
<1>7. CallsOK(h, cs')
  <2>1. ASSUME NEW pc, cs' = [cs EXCEPT ![n].pc = pc] PROVE CallsOK(h, cs')
    BY <1>6, <2>1
  <2>2. ASSUME NEW pc, NEW code, cs' = [cs EXCEPT ![n].pc = pc, ![n].code = code] PROVE CallsOK(h, cs')
    BY <1>6, <2>2
  <2>3. ASSUME cs' = RemoveAt(cs, n) \/ cs' = CallsAfter(RemoveAt(cs, n), accountStack') PROVE CallsOK(h, cs')
    BY <1>3, <1>4, <2>3
  <2> QED
    BY <1>2, <2>1, <2>2, <2>3
<1> QED
  BY <1>7 DEF cs, h

LEMMA UserKeepsCalls ==
  ASSUME CallsOK(accounts, accountCalls), Shaped(accounts),
         \/ (\E kind \in AccountKinds : OpenAccount(kind)) \/ BackAccount \/ ContinueFromLink \/ SendAgain
         \/ \E e \in Emails : SignUp(e) \/ SignIn(e) \/ Apple(e) \/ ForgotPassword(e) \/ ChangeEmail(e)
                              \/ ClaimOffer(e)
         \/ ResendLink \/ ResetPassword \/ FinishOnboarding \/ DeleteAccount \/ SignOut
         \/ \E n \in DOMAIN accounts.mail : TapLink(n)
  PROVE  CallsOK(accounts, accountCalls')
<1>1. CASE (\E kind \in AccountKinds : OpenAccount(kind)) \/ BackAccount \/ ContinueFromLink \/ SendAgain
  <2>1. accountCalls' = accountCalls \/ accountCalls' = CallsAfter(accountCalls, accountStack')
    BY <1>1 DEF OpenAccount, BackAccount, ContinueFromLink, SendAgain
  <2> QED
    BY <2>1, CallsStay
<1>2. CASE \/ \E e \in Emails : SignUp(e) \/ SignIn(e) \/ Apple(e) \/ ForgotPassword(e) \/ ChangeEmail(e)
                                \/ ClaimOffer(e)
           \/ ResendLink \/ ResetPassword \/ FinishOnboarding \/ DeleteAccount \/ SignOut
  <2>1. PICK kind, op, e : SubmitFrom(kind, op, e) /\ op \notin {"verify", "confirm"}
    BY <1>2 DEF SignUp, SignIn, Apple, ForgotPassword, ChangeEmail, ClaimOffer,
                ResendLink, ResetPassword, FinishOnboarding, DeleteAccount, SignOut
  <2>2. accountCalls' = Sent(op, e, AccTop.mail, Len(accountStack))
    BY <2>1 DEF SubmitFrom
  <2> QED
    BY <2>1, <2>2, NewCall
<1>3. ASSUME NEW n \in DOMAIN accounts.mail, TapLink(n) PROVE CallsOK(accounts, accountCalls')
  <2> DEFINE kind == LinkOpens[accounts.mail[n].kind]
  <2>1. n \in 1 .. Len(accounts.mail) /\ accounts.mail[n].kind \in Links
    <3>1. DOMAIN accounts.mail = 1 .. Len(accounts.mail)
      BY LongerSeq DEF Shaped, MailLinked, IsSeq
    <3> QED
      BY <1>3, <3>1 DEF Shaped, MailLinked
  <2>2. /\ kind = "verify" => accounts.mail[n].kind = "verify"
        /\ kind = "confirm" => accounts.mail[n].kind = "change"
    BY <2>1 DEF LinkOpens, Links
  <2>3. \/ accountCalls' = accountCalls
        \/ accountCalls' = Sent(kind, NoEmail, n, Len(accountStack) + 1)
    BY <1>3 DEF TapLink
  <2> HIDE DEF kind
  <2> QED
    BY <2>1, <2>2, <2>3, NewCall
<1> QED
  BY <1>1, <1>2, <1>3

\* A call is served: it does what it is for, and a link's what its mail said.
LEMMA ServeKeepsCalls ==
  ASSUME AccountsInv, NEW n \in DOMAIN accountCalls, ServeAccount(n)
  PROVE  CallsOK(accounts', accountCalls') /\ OnlyAsMailed
<1> DEFINE h == accounts
           cs == accountCalls
           c == cs[n]
           p == The(Holder(h, c.mail))
<1>1. /\ n \in 1 .. Len(cs) /\ CallsOK(h, cs) /\ YearsInv(h) /\ Shaped(h) /\ ForItsKind(h, c)
  <2>1. n \in 1 .. Len(cs)
    BY LongerSeq DEF AccountsInv, CallsOK, IsSeq
  <2> QED
    BY <2>1 DEF AccountsInv, YearsInv, CallsOK
<1>2. \/ accounts' = h /\ \E pc : cs' = [cs EXCEPT ![n].pc = pc]
      \/ /\ Accepts(h, c) /\ accounts' = Performed(h, c) /\ c.pc = "sent"
         /\ \E for : cs' = [cs EXCEPT ![n].pc = "done", ![n].for = for]
         /\ c.op \in {"sign-up", "apple"} => Unused(h) # {}
  BY DEF ServeAccount
<1>3. CASE accounts' = h /\ \E pc : cs' = [cs EXCEPT ![n].pc = pc]
  <2>0. PICK pc : cs' = [cs EXCEPT ![n].pc = pc]
    BY <1>3
  <2>1. CallsOK(h, cs')
    <3>1. CallsOK(h, [cs EXCEPT ![n].pc = pc])
      BY <1>1, CallGoesOn
    <3> QED
      BY <2>0, <3>1
  <2>2. OnlyAsMailed
    BY <1>3 DEF OnlyAsMailed
  <2> QED
    BY <1>3, <2>1, <2>2
<1>4. CASE /\ Accepts(h, c) /\ accounts' = Performed(h, c) /\ c.pc = "sent"
           /\ \E for : cs' = [cs EXCEPT ![n].pc = "done", ![n].for = for]
           /\ c.op \in {"sign-up", "apple"} => Unused(h) # {}
  <2>0. PICK for : cs' = [cs EXCEPT ![n].pc = "done", ![n].for = for]
    BY <1>4
  <2>1. CallsOK(h, cs') /\ cs'[n].pc = "done"
    <3> DEFINE pc == "done"
               now == [cs EXCEPT ![n].pc = pc, ![n].for = for]
    <3>1. cs' = now
      BY <2>0
    <3> HIDE DEF pc, cs, h
    <3>2. /\ CallsOK(h, [cs EXCEPT ![n].pc = pc, ![n].for = for])
          /\ [cs EXCEPT ![n].pc = pc, ![n].for = for][n].pc = pc
      <4>1. CallsOK(h, cs) /\ n \in 1 .. Len(cs)
        BY <1>1
      <4>2. \A x : CallsOK(h, [cs EXCEPT ![n].pc = pc, ![n].for = x])
        BY <4>1, CallGoesOn
      <4>3. \A x : [cs EXCEPT ![n].pc = pc, ![n].for = x][n].pc = pc
        BY <4>1, CallGoesOn
      <4> QED
        BY <4>2, <4>3
    <3> QED
      BY <3>1, <3>2 DEF pc
  <2>2. Shaped(accounts')
    <3>1. YearsInv(accounts')
      BY <1>1, <1>4, PerformedKeepsYears
    <3> QED
      BY <3>1 DEF YearsInv
  <2>3. Grew(h, accounts') /\ OnlyAsMailed
    <3>1. CASE c.op \in {"verify", "confirm"}
      <4>0. Holder(h, c.mail) # {}
        BY <1>4, <3>1 DEF Accepts
      <4>1. p \in Holder(h, c.mail)
        BY <4>0, TheIsIn
      <4>2. /\ c.op = "verify" => accounts' = Verified(h, p) /\ h.mail[c.mail].kind = "verify"
            /\ c.op = "confirm" => accounts' = Changed(h, p) /\ h.mail[c.mail].kind = "change"
        BY <1>1, <1>4, <3>1 DEF Performed, ForItsKind
      <4>9. c.mail # 0
        <5>1. c.mail \in 1 .. Len(h.mail)
          BY <1>1, <3>1 DEF ForItsKind
        <5> QED
          BY <5>1
      <4> HIDE DEF p
      <4>3. Grew(h, accounts') /\ MailTold(h, accounts', h.mail[c.mail])
        BY <1>1, <3>1, <4>1, <4>2, VerifiedTold, ChangedTold
      <4>4. ASSUME NEW q, NEW kind, NEW e, h.mail[c.mail].kind = kind, h.mail[c.mail].user = q, h.mail[c.mail].says = e
            PROVE  Tapped(q, kind, e)
        BY <1>4, <2>1, <4>9, <4>4 DEF Tapped
      <4>5. OnlyAsMailed
        BY <4>3, <4>4 DEF OnlyAsMailed, MailTold
      <4> QED
        BY <4>3, <4>5
    <3>2. CASE c.op \notin {"verify", "confirm"}
      <4>1. Quiet(h, accounts')
        BY <1>1, <1>4, <3>2, PerformedQuiet
      <4> QED
        BY <4>1, QuietTold DEF Quiet
    <3> QED
      BY <3>1, <3>2
  <2>4. CallsOK(accounts', cs')
    BY <1>1, <2>1, <2>2, <2>3, CallsGrow
  <2> QED
    BY <2>3, <2>4
<1> QED
  BY <1>2, <1>3, <1>4

LEMMA LinksStep ==
  ASSUME AccountsInv, [AccountNext]_accountVars
  PROVE  AccountsInv' /\ [OnlyAsMailed]_accountVars
<1>0. YearsInv(accounts) /\ Shaped(accounts) /\ CallsOK(accounts, accountCalls)
  BY DEF AccountsInv, YearsInv
<1>1. YearsInv(accounts') /\ Shaped(accounts')
  BY <1>0, AccountsStep DEF YearsInv
<1>2. ASSUME accounts' = accounts, CallsOK(accounts, accountCalls')
      PROVE  CallsOK(accounts', accountCalls') /\ OnlyAsMailed
  BY <1>2 DEF OnlyAsMailed
<1> SUFFICES CallsOK(accounts', accountCalls') /\ OnlyAsMailed
  BY <1>1 DEF AccountsInv
<1>3. CASE UNCHANGED accountVars
  BY <1>0, <1>2, <1>3 DEF accountVars
<1>4. CASE SendClaimLink \/ GrantTook \/ GrantFailed \/ NextDay
  <2>1. Quiet(accounts, accounts') /\ accountCalls' = accountCalls
    BY <1>0, <1>4, AloneQuiet DEF SendClaimLink, GrantTook, GrantFailed, NextDay, ServerAlone
  <2>2. CallsOK(accounts', accountCalls)
    BY <1>0, <1>1, <2>1, CallsGrow DEF Quiet
  <2> QED
    BY <2>1, <2>2, QuietTold
<1>5. ASSUME NEW n \in DOMAIN accountCalls, ServeAccount(n)
      PROVE  CallsOK(accounts', accountCalls') /\ OnlyAsMailed
  BY <1>5, ServeKeepsCalls
<1>6. ASSUME NEW n \in DOMAIN accountCalls,
             \/ AccountLost(n) \/ AccountAnswered(n) \/ SessionOver(n) \/ AccountFailed(n) \/ AppleReauth(n)
      PROVE  CallsOK(accounts', accountCalls') /\ OnlyAsMailed
  <2>1. accounts' = accounts
    BY <1>6 DEF AccountLost, AccountAnswered, SessionOver, AccountFailed, AppleReauth
  <2>2. CallsOK(accounts, accountCalls')
    BY <1>0, <1>6, AnswersKeepCalls
  <2> QED
    BY <1>2, <2>1, <2>2
<1> DEFINE Submits(e) == \/ SignUp(e) \/ SignIn(e) \/ Apple(e) \/ ForgotPassword(e) \/ ChangeEmail(e)
                         \/ ClaimOffer(e)
           Acts == \/ (\E kind \in AccountKinds : OpenAccount(kind)) \/ BackAccount \/ ContinueFromLink
                   \/ SendAgain
                   \/ \E e \in Emails : Submits(e)
                   \/ ResendLink \/ ResetPassword \/ FinishOnboarding \/ DeleteAccount \/ SignOut
                   \/ \E n \in DOMAIN accounts.mail : TapLink(n)
<1>7. CASE Acts
  <2>0. ASSUME NEW kind, NEW op, NEW e, SubmitFrom(kind, op, e) PROVE accounts' = accounts
    BY <2>0 DEF SubmitFrom
  <2>1. accounts' = accounts
    BY <1>7, <2>0 DEF OpenAccount, BackAccount, ContinueFromLink, SendAgain, TapLink,
                SignUp, SignIn, Apple, ForgotPassword, ChangeEmail, ClaimOffer,
                ResendLink, ResetPassword, FinishOnboarding, DeleteAccount, SignOut
  <2>2. CallsOK(accounts, accountCalls')
    BY <1>0, <1>7, UserKeepsCalls
  <2> QED
    BY <1>2, <2>1, <2>2
<1>8. CASE \E k \in AccountKeys : ServeAccountRead(k) \/ AccountReadLost(k) \/ AccountReadAnswered(k)
  <2>1. /\ accounts' = accounts
        /\ accountCalls' = accountCalls \/ accountCalls' = CallsAfter(accountCalls, accountStack')
    BY <1>8 DEF ServeAccountRead, AccountReadLost, AccountReadAnswered
  <2> QED
    BY <1>0, <1>2, <2>1, CallsStay
<1> QED
  BY <1>1, <1>3, <1>4, <1>5, <1>6, <1>7, <1>8 DEF AccountNext

-----------------------------------------------------------------------------
(* Budgets and categories: a limit is of a category there is.               *)

LedgerFields == {"amount", "rollover", "day", "premium", "custom"}
CategoryFields == {"name", "look"}
CategoryCallFields == {"hook", "id", "to", "fields", "typed", "here", "pc"}

\* A category that is has a name of its own.
Named(h, c) == /\ h.custom[c] = [f \in CategoryFields |-> h.custom[c][f]]
               /\ h.custom[c] # NoCategory => h.custom[c].name # "none"
LedgerInv(h) ==
  /\ h = [f \in LedgerFields |-> h[f]] /\ h.amount = [k \in Limits |-> h.amount[k]]
  /\ h.rollover = [k \in Limits |-> h.rollover[k]] /\ h.custom = [c \in Own |-> h.custom[c]]
  /\ \A c \in Own : Named(h, c) /\ (h.amount[c] # 0 => h.custom[c] # NoCategory)

\* A create or an update names its category, and sends what was typed.
NamesIt(c) ==
  /\ c = [f \in CategoryCallFields |-> c[f]]
  /\ c.hook \in {"create", "update"} => c.to = [f \in CategoryFields |-> c.to[f]] /\ c.to.name # "none"
  /\ c.hook = "update" => c.fields = c.typed
CategoriesInv == IsSeq(categoryCalls) /\ \A n \in 1 .. Len(categoryCalls) : NamesIt(categoryCalls[n])
BudgetsInv == LedgerInv(ledger) /\ CategoriesInv

LEMMA OwnAreLimits == Own \subseteq Limits /\ Overall \notin Own
BY BudgetsAssumption DEF Limits, Overall

LEMMA NoCategoryIs == NoCategory = [f \in CategoryFields |-> NoCategory[f]] /\ NoCategory.name = "none"
BY DEF NoCategory, CategoryFields

\* A limit is set where its category is, or is none.
LEMMA LimitSet ==
  ASSUME NEW h, LedgerInv(h), NEW k, NEW amount, k \in Own => amount = 0 \/ h.custom[k] # NoCategory
  PROVE  LedgerInv(SetLimit(h, k, amount)) /\ (k \in Own => SetLimit(h, k, amount).amount[k] = amount)
<1> DEFINE g == SetLimit(h, k, amount)
<1>1. /\ g.amount = [h.amount EXCEPT ![k] = amount] /\ g.custom = h.custom
      /\ g = [f \in LedgerFields |-> g[f]]
      /\ g.rollover = [j \in Limits |-> g.rollover[j]]
  BY DEF SetLimit, LedgerInv, LedgerFields
<1> HIDE DEF g
<1>2. /\ g.amount = [j \in Limits |-> g.amount[j]]
      /\ \A j \in Limits : g.amount[j] = IF j = k THEN amount ELSE h.amount[j]
  BY <1>1 DEF LedgerInv
<1>3. \A c \in Own : g.amount[c] # 0 => g.custom[c] # NoCategory
  BY <1>1, <1>2, OwnAreLimits DEF LedgerInv
<1>4. \A c \in Own : Named(g, c)
  BY <1>1 DEF LedgerInv, Named
<1>5. LedgerInv(g)
  BY <1>1, <1>2, <1>3, <1>4 DEF LedgerInv
<1> QED
  BY <1>2, <1>5, OwnAreLimits DEF g

\* What else changes of the budgets is no limit and no category.
LEMMA OthersKept ==
  ASSUME NEW h, LedgerInv(h), NEW g, g = [f \in LedgerFields |-> g[f]], g.amount = h.amount, g.custom = h.custom,
         g.rollover = [j \in Limits |-> g.rollover[j]]
  PROVE  LedgerInv(g)
BY DEF LedgerInv, Named

LEMMA LedgerChanges ==
  ASSUME NEW h, LedgerInv(h), NEW x
  PROVE  LedgerInv([h EXCEPT !.day = x]) /\ LedgerInv([h EXCEPT !.premium = x])
<1> DEFINE g1 == [h EXCEPT !.day = x]
           g2 == [h EXCEPT !.premium = x]
<1>1. /\ g1 = [f \in LedgerFields |-> g1[f]] /\ g1.amount = h.amount /\ g1.custom = h.custom /\ g1.rollover = h.rollover
      /\ g2 = [f \in LedgerFields |-> g2[f]] /\ g2.amount = h.amount /\ g2.custom = h.custom /\ g2.rollover = h.rollover
      /\ h.rollover = [j \in Limits |-> h.rollover[j]]
  BY DEF LedgerInv, LedgerFields
<1> HIDE DEF g1, g2
<1>2. LedgerInv(g1) /\ LedgerInv(g2)
  BY <1>1, OthersKept
<1> QED
  BY <1>2 DEF g1, g2

LEMMA RolloverChanges ==
  ASSUME NEW h, LedgerInv(h), NEW k, NEW on
  PROVE  LedgerInv([h EXCEPT !.rollover[k] = on])
<1> DEFINE g == [h EXCEPT !.rollover[k] = on]
<1>1. /\ g = [f \in LedgerFields |-> g[f]] /\ g.amount = h.amount /\ g.custom = h.custom
      /\ g.rollover = [j \in Limits |-> g.rollover[j]]
  BY DEF LedgerInv, LedgerFields
<1> HIDE DEF g
<1>2. LedgerInv(g)
  BY <1>1, OthersKept
<1> QED
  BY <1>2 DEF g

\* A category is made, renamed or recoloured; it keeps a name.
LEMMA CategorySet ==
  ASSUME NEW h, LedgerInv(h), NEW id, NEW x, x = [f \in CategoryFields |-> x[f]],
         x.name # "none" \/ (x = NoCategory /\ (id \in Own => h.amount[id] = 0))
  PROVE  LedgerInv([h EXCEPT !.custom[id] = x])
<1> DEFINE g == [h EXCEPT !.custom[id] = x]
<1>1. /\ g.custom = [h.custom EXCEPT ![id] = x] /\ g.amount = h.amount /\ g.rollover = h.rollover
      /\ g = [f \in LedgerFields |-> g[f]]
  BY DEF LedgerInv, LedgerFields
<1> HIDE DEF g
<1>2. /\ g.custom = [c \in Own |-> g.custom[c]]
      /\ \A c \in Own : g.custom[c] = IF c = id THEN x ELSE h.custom[c]
  BY <1>1 DEF LedgerInv
<1>3. ASSUME NEW c \in Own PROVE Named(g, c) /\ (g.amount[c] # 0 => g.custom[c] # NoCategory)
  <2>1. CASE c = id
    <3>1. g.custom[c] = x /\ g.amount[c] = h.amount[c]
      BY <1>1, <1>2, <2>1
    <3>2. x.name # "none" => x # NoCategory
      BY NoCategoryIs
    <3> QED
      BY <2>1, <3>1, <3>2 DEF Named
  <2>2. CASE c # id
    BY <1>1, <1>2, <2>2 DEF Named, LedgerInv
  <2> QED
    BY <2>1, <2>2
<1>4. LedgerInv(g)
  BY <1>1, <1>2, <1>3 DEF LedgerInv
<1> QED
  BY <1>4 DEF g

\* An accepted call of the form of limits is for a category there is.
LEMMA BudgetPerforms ==
  ASSUME NEW h, LedgerInv(h), NEW c, BudgetAccepts(h, c)
  PROVE  LedgerInv(BudgetPerformed(h, c))
<1>1. \A on : LedgerInv([h EXCEPT !.rollover[c.key] = on])
  BY RolloverChanges
<1>2. c.call # "rollover" => LedgerInv(SetLimit(h, c.key, 0)) /\ LedgerInv(SetLimit(h, c.key, c.amount))
  <2> SUFFICES ASSUME c.call # "rollover"
               PROVE  LedgerInv(SetLimit(h, c.key, 0)) /\ LedgerInv(SetLimit(h, c.key, c.amount))
    OBVIOUS
  <2>1. c.key \in Own => h.custom[c.key] # NoCategory
    BY DEF BudgetAccepts, Usable, Customs, HasLimit, LedgerInv
  <2> QED
    BY <2>1, LimitSet
<1>3. LedgerInv([SetLimit(h, Overall, c.amount) EXCEPT !.day = c.day])
  <2> DEFINE g == SetLimit(h, Overall, c.amount)
  <2>1. LedgerInv(g)
    BY OwnAreLimits, LimitSet
  <2> HIDE DEF g
  <2>2. LedgerInv([g EXCEPT !.day = c.day])
    BY <2>1, LedgerChanges
  <2> QED
    BY <2>2 DEF g
<1>4. CASE c.call = "rollover"
  <2> DEFINE on == c.on
             k == c.key
             switched == [h EXCEPT !.rollover[k] = on]
             moved == [SetLimit(h, Overall, c.amount) EXCEPT !.day = c.day]
  <2>1. LedgerInv(switched) /\ LedgerInv(moved)
    <3> HIDE DEF on, k
    <3> QED
      BY <1>1, <1>3 DEF k
  <2>2. /\ c.key = k /\ c.on = on /\ switched = [h EXCEPT !.rollover[k] = on]
        /\ moved = [SetLimit(h, Overall, c.amount) EXCEPT !.day = c.day]
    OBVIOUS
  <2> HIDE DEF on, k, switched, moved
  <2>3. BudgetPerformed(h, c) = switched \/ BudgetPerformed(h, c) = moved
    BY <1>4, <2>2 DEF BudgetPerformed
  <2> QED
    BY <2>1, <2>3
<1>5. CASE c.call # "rollover"
  <2>1. \/ BudgetPerformed(h, c) = SetLimit(h, c.key, 0) \/ BudgetPerformed(h, c) = SetLimit(h, c.key, c.amount)
        \/ /\ c.key = Overall
           /\ BudgetPerformed(h, c) = [SetLimit(h, Overall, c.amount) EXCEPT !.day = c.day]
    BY <1>5 DEF BudgetPerformed
  <2> QED
    BY <1>2, <1>3, <1>5, <2>1
<1> QED
  BY <1>4, <1>5

\* A category goes with its limit.
LEMMA CategoryChanged ==
  ASSUME NEW h, LedgerInv(h), NEW c, NamesIt(c), AcceptsCategory(h, c)
  PROVE  LedgerInv(ChangedCategory(h, c))
<1>1. CASE c.hook = "create"
  <2>1. c.to = [f \in CategoryFields |-> c.to[f]] /\ c.to.name # "none"
    BY <1>1 DEF NamesIt
  <2>2. LedgerInv([h EXCEPT !.custom[c.id] = c.to])
    BY <2>1, CategorySet
  <2> QED
    BY <1>1, <2>2 DEF ChangedCategory
<1>2. CASE c.hook = "update"
  <2> DEFINE was == h.custom[c.id]
             x == [f \in {"name", "look"} |-> IF f \in c.fields THEN c.to[f] ELSE was[f]]
  <2>1. c.to.name # "none" /\ was.name # "none"
    BY <1>2 DEF NamesIt, AcceptsCategory, Customs, LedgerInv, Named
  <2>2. x = [f \in CategoryFields |-> x[f]] /\ x.name # "none"
    BY <2>1 DEF CategoryFields
  <2>3. ChangedCategory(h, c) = [h EXCEPT !.custom[c.id] = x]
    BY <1>2 DEF ChangedCategory
  <2> HIDE DEF x
  <2>4. LedgerInv([h EXCEPT !.custom[c.id] = x])
    BY <2>2, CategorySet
  <2> QED
    BY <2>3, <2>4
<1>3. CASE c.hook \notin {"create", "update"}
  <2> DEFINE g == SetLimit(h, c.id, 0)
  <2>1. ChangedCategory(h, c) = [g EXCEPT !.custom[c.id] = NoCategory]
    BY <1>3 DEF ChangedCategory
  <2>2. LedgerInv(g) /\ (c.id \in Own => g.amount[c.id] = 0)
    BY LimitSet
  <2> HIDE DEF g
  <2>3. LedgerInv([g EXCEPT !.custom[c.id] = NoCategory])
    BY <2>2, NoCategoryIs, CategorySet
  <2> QED
    BY <2>1, <2>3
<1> QED
  BY <1>1, <1>2, <1>3

LEMMA BudgetsBegin == BudgetInit => BudgetsInv
<1> SUFFICES ASSUME BudgetInit PROVE BudgetsInv
  OBVIOUS
<1>1. PICK new \in BOOLEAN :
        ledger = [amount |-> [k \in Limits |-> IF new \/ k \notin ({Overall} \cup Own0) THEN 0 ELSE 1],
                  rollover |-> [k \in Limits |-> FALSE], day |-> IF new THEN 0 ELSE 1, premium |-> ~new,
                  custom |-> [c \in Own |-> IF new \/ c \notin Own0 THEN NoCategory
                                            ELSE [name |-> CHOOSE n \in CategoryNames : TRUE, look |-> 0]]]
  BY DEF BudgetInit
<1> DEFINE first == CHOOSE n \in CategoryNames : TRUE
           one == [name |-> first, look |-> 0]
<1>2. first # "none"
  BY BudgetsAssumption
<1>3. one = [f \in CategoryFields |-> one[f]] /\ one.name = first
  BY DEF CategoryFields
<1>4. /\ ledger = [f \in LedgerFields |-> ledger[f]]
      /\ ledger.amount = [k \in Limits |-> ledger.amount[k]]
      /\ ledger.rollover = [k \in Limits |-> ledger.rollover[k]]
      /\ ledger.custom = [c \in Own |-> ledger.custom[c]]
      /\ \A k \in Limits : ledger.amount[k] # 0 => ~new /\ k \in {Overall} \cup Own0
      /\ \A c \in Own : ledger.custom[c] = IF new \/ c \notin Own0 THEN NoCategory ELSE one
  BY <1>1 DEF LedgerFields
<1> HIDE DEF one, first
<1>5. one # NoCategory
  BY <1>2, <1>3, NoCategoryIs
<1>6. \A c \in Own : Named(ledger, c) /\ (ledger.amount[c] # 0 => ledger.custom[c] # NoCategory)
  BY <1>2, <1>3, <1>4, <1>5, NoCategoryIs, OwnAreLimits DEF Named
<1>7. CategoriesInv
  BY EmptyIsSeq DEF BudgetInit, CategoriesInv
<1> QED
  BY <1>4, <1>6, <1>7 DEF BudgetsInv, LedgerInv

\* The calls of Settings -> Categories, as they change.
LEMMA CategoriesChange ==
  ASSUME CategoriesInv, categoryCalls' = [n \in 1 .. Len(categoryCalls) |-> categoryCalls'[n]],
         \A n \in 1 .. Len(categoryCalls) : NamesIt(categoryCalls'[n])
  PROVE  CategoriesInv'
<1>1. Len(categoryCalls) \in Nat
  BY SeqIs DEF CategoriesInv, IsSeq
<1> DEFINE s == categoryCalls'
<1>2. s = [n \in 1 .. Len(categoryCalls) |-> s[n]] /\ \A n \in 1 .. Len(categoryCalls) : NamesIt(s[n])
  OBVIOUS
<1> HIDE DEF s
<1>3. IsSeq(s) /\ Len(s) = Len(categoryCalls)
  BY <1>1, <1>2, IsSeqOf
<1>4. IsSeq(s) /\ \A n \in 1 .. Len(s) : NamesIt(s[n])
  BY <1>2, <1>3
<1> QED
  BY <1>4 DEF CategoriesInv, s

LEMMA CategoryStays ==
  ASSUME NEW c, NamesIt(c), NEW x
  PROVE  NamesIt([c EXCEPT !.here = x]) /\ NamesIt([c EXCEPT !.pc = x])
<1> DEFINE d1 == [c EXCEPT !.here = x]
           d2 == [c EXCEPT !.pc = x]
<1>1. /\ d1 = [f \in CategoryCallFields |-> d1[f]] /\ d1.hook = c.hook /\ d1.to = c.to
      /\ d1.fields = c.fields /\ d1.typed = c.typed
      /\ d2 = [f \in CategoryCallFields |-> d2[f]] /\ d2.hook = c.hook /\ d2.to = c.to
      /\ d2.fields = c.fields /\ d2.typed = c.typed
  BY DEF NamesIt, CategoryCallFields
<1> HIDE DEF d1, d2
<1>2. NamesIt(d1) /\ NamesIt(d2)
  BY <1>1 DEF NamesIt
<1> QED
  BY <1>2 DEF d1, d2

LEMMA CategoryAsked ==
  ASSUME CategoriesInv, NEW hook, NEW id, NEW to, NEW fields, NEW typed, MutateCategory(hook, id, to, fields, typed),
         hook = "remove" \/ (to = [f \in CategoryFields |-> to[f]] /\ to.name # "none" /\ fields = typed)
  PROVE  CategoriesInv'
<1> DEFINE was == [n \in 1 .. Len(categoryCalls) |->
                     [categoryCalls[n] EXCEPT !.here = @ /\ categoryCalls[n].hook # hook]]
           c == [hook |-> hook, id |-> id, to |-> to, fields |-> fields, typed |-> typed, here |-> TRUE, pc |-> "sent"]
<1>1. Len(categoryCalls) \in Nat /\ \A n \in 1 .. Len(categoryCalls) : NamesIt(categoryCalls[n])
  BY SeqIs DEF CategoriesInv, IsSeq
<1>2. IsSeq(was) /\ Len(was) = Len(categoryCalls)
  BY <1>1, IsSeqOf
<1>3. \A n \in 1 .. Len(was) : NamesIt(was[n])
  BY <1>1, <1>2, CategoryStays
<1>4. NamesIt(c)
  BY DEF NamesIt, CategoryCallFields
<1>5. categoryCalls' = Append(was, c)
  BY DEF MutateCategory
<1> HIDE DEF was, c
<1>6. /\ IsSeq(categoryCalls') /\ Len(categoryCalls') = Len(was) + 1 /\ Len(was) \in Nat
      /\ \A n \in 1 .. Len(was) + 1 : categoryCalls'[n] = IF n <= Len(was) THEN was[n] ELSE c
  BY <1>2, <1>5, LongerSeq
<1>7. \A n \in 1 .. Len(categoryCalls') : NamesIt(categoryCalls'[n])
  BY <1>3, <1>4, <1>6
<1> QED
  BY <1>6, <1>7 DEF CategoriesInv

LEMMA CategoryEnds ==
  ASSUME CategoriesInv, NEW k \in 1 .. Len(categoryCalls), categoryCalls' = RemoveAt(categoryCalls, k)
  PROVE  CategoriesInv'
<1>1. categoryCalls' = Without(categoryCalls, k)
  BY DEF RemoveAt, Without
<1>2. /\ IsSeq(categoryCalls') /\ Len(categoryCalls') = Len(categoryCalls) - 1 /\ Len(categoryCalls) \in Nat
      /\ \A i \in 1 .. Len(categoryCalls) - 1 :
           categoryCalls'[i] = IF i < k THEN categoryCalls[i] ELSE categoryCalls[i + 1]
  BY <1>1, ShorterSeq DEF CategoriesInv
<1>3. ASSUME NEW i \in 1 .. Len(categoryCalls') PROVE NamesIt(categoryCalls'[i])
  <2>1. i \in 1 .. Len(categoryCalls) /\ i + 1 \in 1 .. Len(categoryCalls)
    BY <1>2
  <2> QED
    BY <1>2, <2>1 DEF CategoriesInv
<1> QED
  BY <1>2, <1>3 DEF CategoriesInv

\* A screen that is left, with what its calls know of it.
LEMMA ScreensLeft ==
  ASSUME CategoriesInv, NEW st, CategoriesAfter(st)
  PROVE  CategoriesInv'
<1>1. CASE categoryCalls' = categoryCalls
  BY <1>1 DEF CategoriesInv
<1>2. CASE categoryCalls' = [n \in 1 .. Len(categoryCalls) |-> [categoryCalls[n] EXCEPT !.here = FALSE]]
  <2>1. \A n \in 1 .. Len(categoryCalls) : NamesIt(categoryCalls'[n])
    BY <1>2, CategoryStays DEF CategoriesInv
  <2> QED
    BY <1>2, <2>1, CategoriesChange
<1> QED
  BY <1>1, <1>2 DEF CategoriesAfter

\* The editor sends a name of those there are.
LEMMA EditorAsks ==
  ASSUME CategoriesInv, NEW name \in CategoryNames, NEW look, NEW c,
         onEditorSave([name |-> name, look |-> look]) \/ onRename(c, name) \/ onDeleteCategory(c)
  PROVE  CategoriesInv' /\ ledger' = ledger
<1> DEFINE to == [name |-> name, look |-> look]
           plain == [name |-> name, look |-> 0]
<1>1. /\ to = [f \in CategoryFields |-> to[f]] /\ to.name = name
      /\ plain = [f \in CategoryFields |-> plain[f]] /\ plain.name = name /\ name # "none"
  BY BudgetsAssumption DEF CategoryFields
<1> HIDE DEF to, plain
<1>2. ledger' = ledger
  BY DEF onEditorSave, onRename, onDeleteCategory
<1>3. CASE onEditorSave(to)
  <2>1. \/ \E id : MutateCategory("create", id, to, {"name", "look"}, {"name", "look"})
        \/ categoryCalls' = categoryCalls
        \/ \E id : MutateCategory("update", id, to, Edited(to, editor.from),
                                    {f \in {"name", "look"} : to[f] # editor.from[f]})
    BY <1>3 DEF onEditorSave
  <2>2. Edited(to, editor.from) = {f \in {"name", "look"} : to[f] # editor.from[f]}
    BY DEF Edited
  <2>3. CASE categoryCalls' = categoryCalls
    BY <1>2, <2>3 DEF CategoriesInv
  <2> QED
    BY <1>1, <1>2, <2>1, <2>2, <2>3, CategoryAsked
<1>4. CASE onRename(c, name)
  <2>1. MutateCategory("update", c, plain, {"name"}, {"name"})
    BY <1>4 DEF onRename, plain
  <2> QED
    BY <1>1, <1>2, <2>1, CategoryAsked
<1>5. CASE onDeleteCategory(c)
  <2>1. MutateCategory("remove", c, NoCategory, {}, {})
    BY <1>5 DEF onDeleteCategory
  <2> QED
    BY <1>2, <2>1, CategoryAsked
<1> QED
  BY <1>3, <1>4, <1>5 DEF to

\* What the server does to budgets and categories on a call.
LEMMA BudgetsServed ==
  ASSUME BudgetsInv, NEW n, ServeBudget(n) \/ (n \in 1 .. Len(categoryCalls) /\ ServeCategory(n))
  PROVE  BudgetsInv'
<1> DEFINE h == ledger
<1>0. LedgerInv(h) /\ CategoriesInv
  BY DEF BudgetsInv
<1>1. CASE ServeBudget(n)
  <2> DEFINE c == Head(saves[n].plan)
  <2>1. ledger' = h \/ (BudgetAccepts(h, c) /\ ledger' = BudgetPerformed(h, c))
    BY <1>1 DEF ServeBudget
  <2>2. categoryCalls' = categoryCalls
    BY <1>1 DEF ServeBudget
  <2> HIDE DEF c, h
  <2>3. LedgerInv(ledger')
    BY <1>0, <2>1, BudgetPerforms
  <2> QED
    BY <1>0, <2>2, <2>3 DEF BudgetsInv, CategoriesInv
<1>2. CASE n \in 1 .. Len(categoryCalls) /\ ServeCategory(n)
  <2> DEFINE c == categoryCalls[n]
  <2>1. ledger' = h \/ (AcceptsCategory(h, c) /\ ledger' = ChangedCategory(h, c))
    BY <1>2 DEF ServeCategory
  <2>2. \E pc : categoryCalls' = [categoryCalls EXCEPT ![n].pc = pc]
    BY <1>2 DEF ServeCategory
  <2>3. NamesIt(c) /\ \A i \in 1 .. Len(categoryCalls) : NamesIt(categoryCalls[i])
    BY <1>0, <1>2 DEF CategoriesInv
  <2> HIDE DEF h
  <2>4. LedgerInv(ledger')
    <3> HIDE DEF c
    <3> QED
      BY <1>0, <2>1, <2>3, CategoryChanged
  <2>5. categoryCalls = [i \in 1 .. Len(categoryCalls) |-> categoryCalls[i]]
    BY <1>0, SeqIs DEF CategoriesInv, IsSeq
  <2>6. /\ categoryCalls' = [i \in 1 .. Len(categoryCalls) |-> categoryCalls'[i]]
        /\ \A i \in 1 .. Len(categoryCalls) :
             categoryCalls'[i] = categoryCalls[i] \/ \E pc : categoryCalls'[i] = [categoryCalls[i] EXCEPT !.pc = pc]
    BY <2>2, <2>5
  <2>7. ASSUME NEW i \in 1 .. Len(categoryCalls) PROVE NamesIt(categoryCalls'[i])
    <3> DEFINE d == categoryCalls[i]
    <3>1. NamesIt(d) /\ (categoryCalls'[i] = d \/ \E pc : categoryCalls'[i] = [d EXCEPT !.pc = pc])
      BY <2>3, <2>6
    <3> HIDE DEF d
    <3>2. \A pc : NamesIt([d EXCEPT !.pc = pc])
      BY <3>1, CategoryStays
    <3> QED
      BY <3>1, <3>2
  <2>8. CategoriesInv'
    BY <1>0, <2>6, <2>7, CategoriesChange
  <2> QED
    BY <2>4, <2>8 DEF BudgetsInv
<1> QED
  BY <1>1, <1>2

LEMMA ElsewhereKeeps ==
  ASSUME BudgetsInv, BudgetsElsewhere \/ Purchased
  PROVE  BudgetsInv'
<1> DEFINE h == ledger
           on == TRUE
           off == FALSE
<1>0. LedgerInv(h) /\ CategoriesInv
  BY DEF BudgetsInv
<1>1. categoryCalls' = categoryCalls
  BY DEF BudgetsElsewhere, Purchased
<1>2. \/ \E k, amount : Usable(h, k) /\ ledger' = SetLimit(h, k, amount)
      \/ \E c \in Customs(h) : \E look : ledger' = [h EXCEPT !.custom[c].look = look]
      \/ ledger' = [h EXCEPT !.premium = off] \/ ledger' = [h EXCEPT !.premium = on]
  BY DEF BudgetsElsewhere, Purchased
<1> HIDE DEF h, on, off
<1>3. ASSUME NEW k, NEW amount, Usable(h, k) PROVE LedgerInv(SetLimit(h, k, amount))
  <2>1. k \in Own => h.custom[k] # NoCategory
    BY <1>3 DEF Usable, Customs
  <2> QED
    BY <1>0, <2>1, LimitSet
<1>4. ASSUME NEW c \in Customs(h), NEW look PROVE LedgerInv([h EXCEPT !.custom[c].look = look])
  <2> DEFINE x == [h.custom[c] EXCEPT !.look = look]
  <2>1. h.custom[c] = [f \in CategoryFields |-> h.custom[c][f]] /\ h.custom[c].name # "none"
    BY <1>0, <1>4 DEF Customs, LedgerInv, Named
  <2>2. x = [f \in CategoryFields |-> x[f]] /\ x.name # "none"
    BY <2>1 DEF CategoryFields
  <2> HIDE DEF x
  <2>3. LedgerInv([h EXCEPT !.custom[c] = x])
    BY <1>0, <2>2, CategorySet
  <2> QED
    BY <2>3 DEF x
<1>5. LedgerInv([h EXCEPT !.premium = off]) /\ LedgerInv([h EXCEPT !.premium = on])
  BY <1>0, LedgerChanges
<1>6. LedgerInv(ledger')
  BY <1>2, <1>3, <1>4, <1>5
<1> QED
  BY <1>0, <1>1, <1>6 DEF BudgetsInv, CategoriesInv

\* What the screens do on their own leaves the ledger, and the calls but for a screen's that is left.
LEMMA ScreensKeepBudgets ==
  ASSUME BudgetsInv,
         \/ (\E kind \in BudgetKinds : OpenBudget(kind)) \/ BackBudget \/ setRange \/ PullBudget
         \/ (\E f \in FormFields : EditForm(f)) \/ handleSave \/ onContinue \/ Onboarded
         \/ \E n \in 1 .. Len(saves) : BudgetLost(n) \/ BudgetAnswered(n) \/ SaveFailed(n)
         \/ openEditor \/ closeEditor
         \/ \E k \in BudgetKeys : ServeBudgetRead(k) \/ BudgetReadLost(k) \/ BudgetReadAnswered(k)
         \/ RetryCategories
  PROVE  BudgetsInv' /\ ledger' = ledger
<1>1. ledger' = ledger /\ (categoryCalls' = categoryCalls \/ \E st : CategoriesAfter(st))
  <2>1. CASE \/ (\E kind \in BudgetKinds : OpenBudget(kind)) \/ BackBudget \/ handleSave
    BY <2>1 DEF OpenBudget, BackBudget, BGo, handleSave
  <2>2. CASE \E n \in 1 .. Len(saves) : BudgetLost(n) \/ BudgetAnswered(n) \/ SaveFailed(n)
    BY <2>2 DEF BudgetLost, BudgetAnswered, SaveFailed
  <2>3. CASE \/ setRange \/ PullBudget \/ (\E f \in FormFields : EditForm(f)) \/ onContinue \/ Onboarded
             \/ openEditor \/ closeEditor \/ RetryCategories
             \/ \E k \in BudgetKeys : ServeBudgetRead(k) \/ BudgetReadLost(k) \/ BudgetReadAnswered(k)
    BY <2>3 DEF setRange, PullBudget, EditForm, onContinue, Onboarded, openEditor, closeEditor,
                RetryCategories, ServeBudgetRead, BudgetReadLost, BudgetReadAnswered
  <2> QED
    BY <2>1, <2>2, <2>3
<1>2. CategoriesInv /\ LedgerInv(ledger)
  BY DEF BudgetsInv
<1>3. CASE categoryCalls' = categoryCalls
  BY <1>1, <1>2, <1>3 DEF BudgetsInv, CategoriesInv
<1>4. ASSUME NEW st, CategoriesAfter(st) PROVE CategoriesInv'
  BY <1>2, <1>4, ScreensLeft
<1> QED
  BY <1>1, <1>2, <1>3, <1>4 DEF BudgetsInv

LEMMA BudgetsStep ==
  ASSUME BudgetsInv, [BudgetNext]_budgetVars
  PROVE  BudgetsInv'
<1>1. CASE UNCHANGED budgetVars
  BY <1>1 DEF budgetVars, BudgetsInv, CategoriesInv
<1>2. CASE (\E n \in 1 .. Len(saves) : ServeBudget(n)) \/ \E n \in 1 .. Len(categoryCalls) : ServeCategory(n)
  BY <1>2, BudgetsServed
<1>3. CASE Purchased \/ BudgetsElsewhere
  BY <1>3, ElsewhereKeeps
<1>4. ASSUME NEW n \in 1 .. Len(categoryCalls), CategoryAnswered(n) PROVE BudgetsInv'
  <2>1. ledger' = ledger /\ categoryCalls' = RemoveAt(categoryCalls, n)
    BY <1>4 DEF CategoryAnswered
  <2>2. CategoriesInv'
    BY <2>1, CategoryEnds DEF BudgetsInv
  <2> QED
    BY <2>1, <2>2 DEF BudgetsInv
<1>5. ASSUME NEW name \in CategoryNames, NEW look, NEW c,
             onEditorSave([name |-> name, look |-> look]) \/ onRename(c, name) \/ onDeleteCategory(c)
      PROVE  BudgetsInv'
  BY <1>5, EditorAsks DEF BudgetsInv
<1>6. CASE \/ (\E kind \in BudgetKinds : OpenBudget(kind)) \/ BackBudget \/ setRange \/ PullBudget
           \/ (\E f \in FormFields : EditForm(f)) \/ handleSave \/ onContinue \/ Onboarded
           \/ (\E n \in 1 .. Len(saves) : BudgetLost(n) \/ BudgetAnswered(n) \/ SaveFailed(n))
           \/ openEditor \/ closeEditor
           \/ (\E k \in BudgetKeys : ServeBudgetRead(k) \/ BudgetReadLost(k) \/ BudgetReadAnswered(k))
           \/ RetryCategories
  BY <1>6, ScreensKeepBudgets
<1>7. CategoryNames # {}
  BY BudgetsAssumption
<1> QED
  BY <1>1, <1>2, <1>3, <1>4, <1>5, <1>6, <1>7 DEF BudgetNext

\* An update sends what was typed, and the server keeps the rest.
LEMMA UpdatesKeep ==
  ASSUME BudgetsInv
  PROVE  KeepsTheRest
<1> SUFFICES ASSUME NEW n \in 1 .. Len(categoryCalls), ServeCategory(n), categoryCalls[n].hook = "update",
                    NEW f \in {"name", "look"} \ categoryCalls[n].typed
             PROVE  ledger'.custom[categoryCalls[n].id][f] = ledger.custom[categoryCalls[n].id][f]
  BY DEF KeepsTheRest
<1> DEFINE c == categoryCalls[n]
           was == ledger.custom[c.id]
           x == [g \in {"name", "look"} |-> IF g \in c.fields THEN c.to[g] ELSE was[g]]
<1>1. c.fields = c.typed
  BY DEF BudgetsInv, CategoriesInv, NamesIt
<1>2. \/ ledger' = ledger
      \/ c.id \in Own /\ ledger' = [ledger EXCEPT !.custom[c.id] = x]
  BY DEF ServeCategory, AcceptsCategory, ChangedCategory, Customs
<1>3. x[f] = was[f]
  BY <1>1
<1> HIDE DEF x, was
<1>4. CASE c.id \in Own /\ ledger' = [ledger EXCEPT !.custom[c.id] = x]
  <2>1. ledger'.custom[c.id] = x
    BY <1>4 DEF BudgetsInv, LedgerInv, LedgerFields
  <2> QED
    BY <1>3, <2>1 DEF was
<1> QED
  BY <1>2, <1>4 DEF was

-----------------------------------------------------------------------------
(* The items: every item that is has a line or a name, what the screens of  *)
(* an item lie over, and what a call that is under way was sent with.       *)

HasRows(c, i) == LinesOf(c, i) # {} \/ NamesOf(c, i) # {}

CatalogueOK(c) ==
    /\ c = [made |-> c.made, alive |-> c.alive, line |-> c.line, new |-> c.new, name |-> c.name,
            title |-> c.title, asked |-> c.asked]
    /\ c.made \in Nat /\ c.made <= MaxItems /\ c.alive \subseteq 1 .. c.made
    /\ c.line \in [Lines -> c.alive] /\ c.name \in [Receiptnames -> c.alive]
    /\ DOMAIN c.asked = Questions
    /\ \A i \in c.alive : HasRows(c, i)
    /\ \A q \in Questions :
        /\ c.asked[q] = [item |-> c.asked[q].item, other |-> c.asked[q].other, status |-> c.asked[q].status]
        /\ c.asked[q].status = "pending" =>
            /\ c.asked[q].item \in c.alive /\ c.asked[q].other \in c.alive
            /\ c.asked[q].item # c.asked[q].other

Apart(parts) ==
    /\ \A k \in 1 .. Len(parts) : parts[k] \subseteq Lines
    /\ \A j, k \in 1 .. Len(parts) : j # k => parts[j] \cap parts[k] = {}

RequestOK(h, r) ==
    /\ IsSeq(r.parts) /\ Apart(r.parts)
    /\ h = "answer" => r.what \in {"accept", "reject"} /\ r.parts = <<>>
    /\ h = "merge" => r.what = "merge" /\ r.parts = <<>>
    /\ h = "split" => r.what = "split" /\ Len(r.parts) > 0
    /\ h = "rename" => r.what = "rename" /\ r.parts = <<>>
    /\ h = "alias" => r.what = "alias" /\ r.parts = <<>> /\ r.with \in Receiptnames

FairOK(c, r) == r.alone /\ r.fair => r.pc # "refused" /\ (r.pc = "sent" => ItemAccepts(c, r))
LandsOK(c, r) ==
    r.pc = "done" /\ r.what \in {"accept", "merge", "split"} =>
        r.result \in Items /\ (r.alone => r.result \in c.alive)

RequestsOK(c, cs) ==
    /\ DOMAIN cs = ItemHooks
    /\ \A h \in ItemHooks :
        /\ cs[h] = [pc |-> cs[h].pc, what |-> cs[h].what, item |-> cs[h].item, with |-> cs[h].with,
                    parts |-> cs[h].parts, here |-> cs[h].here, alone |-> cs[h].alone, fair |-> cs[h].fair,
                    result |-> cs[h].result]
        /\ cs[h].pc # "none" =>
            /\ RequestOK(h, cs[h]) /\ FairOK(c, cs[h]) /\ LandsOK(c, cs[h])
            /\ cs[h].alone => \A g \in ItemHooks \ {h} : cs[g].pc = "none"

AtTop(st) == st[Len(st)]
HereOK(cs, st, p) ==
    /\ \A h \in {"answer", "merge", "split"} : cs[h].pc # "none" /\ cs[h].here =>
        AtTop(st).kind = IF h = "answer" THEN "match" ELSE h
    /\ cs["answer"].pc # "none" /\ cs["answer"].here => cs["answer"].item = p.item

Forms == {"match", "merge", "split"}
Over(a, b) ==
    CASE a.kind = "match" -> \/ b = [kind |-> "detail", item |-> a.item] /\ a.item \in Items
                             \/ b.kind = "matches" /\ a.item = NoItem
      [] a.kind \in {"merge", "split"} -> b = [kind |-> "detail", item |-> a.item]
      [] OTHER -> TRUE
StackOK(st) ==
    /\ IsSeq(st) /\ Len(st) > 0 /\ st[1].kind = "list"
    /\ \A n \in 1 .. Len(st) :
        /\ st[n] = [kind |-> st[n].kind, item |-> st[n].item] /\ st[n].kind \in Kinds
        /\ st[n].kind \in {"detail", "merge", "split"} => st[n].item \in Items
        /\ n > 1 => st[n].kind # "list" /\ Over(st[n], st[n - 1])
        /\ n < Len(st) => st[n].kind \notin Forms

PromptOK(p, st) ==
    /\ p = [item |-> p.item, start |-> p.start, loaded |-> p.loaded, queue |-> p.queue, at |-> p.at,
            failed |-> p.failed, into |-> p.into]
    /\ p.into \in Items \cup {NoItem} /\ (p.into # NoItem => p.item \in Items)
    /\ AtTop(st).kind = "match" => p.item = AtTop(st).item

DraftsOK(ds) ==
    /\ IsSeq(ds) /\ \A k \in 1 .. Len(ds) : ds[k] = [name |-> ds[k].name, lines |-> ds[k].lines] /\ ds[k].lines \subseteq Lines
    /\ \A j, k \in 1 .. Len(ds) : j # k => ds[j].lines \cap ds[k].lines = {}

Read(k, d) == k \in Items /\ d # NoData => d.lines # {} \/ d.names # {}
EntryOK(k, e) ==
    /\ e = [data |-> e.data, fresh |-> e.fresh, call |-> e.call, read |-> e.read]
    /\ Read(k, e.data) /\ Read(k, e.read)
CacheOK(c) == DOMAIN c = ItemKeys /\ \A k \in ItemKeys : EntryOK(k, c[k])

ItemsInv ==
    /\ CatalogueOK(catalogue) /\ RequestsOK(catalogue, calls) /\ HereOK(calls, itemStack, prompt)
    /\ StackOK(itemStack) /\ PromptOK(prompt, itemStack) /\ DraftsOK(drafts) /\ CacheOK(itemCache)



-----------------------------------------------------------------------------
(* The server: what is asked for keeps every item with a line or a name.    *)

LEMMA MergeKeeps ==
  ASSUME NEW c, CatalogueOK(c), NEW x \in c.alive, NEW y \in c.alive, x # y
  PROVE  CatalogueOK(Merge(c, x, y)) /\ Merge(c, x, y).alive = c.alive \ {x} /\ Merge(c, x, y).made = c.made
<1> DEFINE n == Merge(c, x, y)
           line == [l \in Lines |-> IF c.line[l] = x THEN y ELSE c.line[l]]
           name == [a \in Receiptnames |-> IF c.name[a] = x THEN y ELSE c.name[a]]
           new == c.new \ LinesOf(c, x)
           asked == MoveSuggestions(c.asked, x, y)
<1>0. n = [made |-> c.made, alive |-> c.alive \ {x}, line |-> line, new |-> new, name |-> name,
           title |-> c.title, asked |-> asked]
  <2>1. n = [c EXCEPT !.alive = c.alive \ {x}, !.line = line, !.name = name, !.new = new, !.asked = asked]
    BY DEF Merge
  <2> HIDE DEF n, line, name, new, asked
  <2> QED
    BY <2>1 DEF CatalogueOK
<1>1. /\ n.made = c.made /\ n.alive = c.alive \ {x} /\ n.title = c.title
      /\ n.line = [l \in Lines |-> IF c.line[l] = x THEN y ELSE c.line[l]]
      /\ n.name = [a \in Receiptnames |-> IF c.name[a] = x THEN y ELSE c.name[a]]
      /\ n.asked = MoveSuggestions(c.asked, x, y)
      /\ n = [made |-> n.made, alive |-> n.alive, line |-> n.line, new |-> n.new, name |-> n.name,
              title |-> n.title, asked |-> n.asked]
  <2> HIDE DEF new, asked
  <2> QED
    BY <1>0 DEF asked
<1> HIDE DEF n, line, name, new, asked
<1>2. /\ n.made \in Nat /\ n.made <= MaxItems /\ n.alive \subseteq 1 .. n.made
      /\ n.line \in [Lines -> n.alive] /\ n.name \in [Receiptnames -> n.alive]
  BY <1>1 DEF CatalogueOK
<1>3. ASSUME NEW i \in n.alive PROVE HasRows(n, i)
  <2>1. i \in c.alive /\ i # x
    BY <1>1
  <2> QED
    <3>1. ASSUME NEW l \in Lines, c.line[l] = i PROVE n.line[l] = i
      BY <1>1, <2>1, <3>1
    <3>2. ASSUME NEW a \in Receiptnames, c.name[a] = i PROVE n.name[a] = i
      BY <1>1, <2>1, <3>2
    <3> QED
      BY <2>1, <3>1, <3>2 DEF HasRows, LinesOf, NamesOf, CatalogueOK
<1>4. ASSUME NEW q \in Questions
      PROVE  /\ n.asked[q] = [item |-> n.asked[q].item, other |-> n.asked[q].other, status |-> n.asked[q].status]
             /\ n.asked[q].status = "pending" =>
                  /\ n.asked[q].item \in n.alive /\ n.asked[q].other \in n.alive /\ n.asked[q].item # n.asked[q].other
  <2> DEFINE a == c.asked[q]
             To(i) == IF i = x THEN y ELSE i
  <2>1. /\ a = [item |-> a.item, other |-> a.other, status |-> a.status]
        /\ a.status = "pending" => a.item \in c.alive /\ a.other \in c.alive /\ a.item # a.other
    BY DEF CatalogueOK
  <2>2. \/ n.asked[q] = a /\ (a.status = "gone" \/ x \notin {a.item, a.other})
        \/ n.asked[q] = [a EXCEPT !.status = "gone"]
        \/ n.asked[q] = [a EXCEPT !.item = To(@), !.other = To(@)] /\ To(a.item) # To(a.other)
    BY <1>1 DEF MoveSuggestions
  <2> HIDE DEF a
  <2>3. CASE n.asked[q] = a /\ (a.status = "gone" \/ x \notin {a.item, a.other})
    BY <1>1, <2>1, <2>3
  <2>4. CASE n.asked[q] = [a EXCEPT !.status = "gone"]
    BY <2>1, <2>4
  <2>5. CASE n.asked[q] = [a EXCEPT !.item = To(@), !.other = To(@)] /\ To(a.item) # To(a.other)
    <3>1. n.asked[q] = [item |-> To(a.item), other |-> To(a.other), status |-> a.status]
      BY <2>1, <2>5
    <3> QED
      BY <1>1, <2>1, <2>5, <3>1
  <2> QED
    BY <2>2, <2>3, <2>4, <2>5
<1>5. DOMAIN n.asked = Questions
  BY <1>1 DEF MoveSuggestions
<1> QED
  BY <1>1, <1>2, <1>3, <1>4, <1>5 DEF CatalogueOK, n

\* A part's lines are a new item's, each new item has one, and the old one keeps one.
LEMMA SplitKeeps ==
  ASSUME NEW c, CatalogueOK(c), NEW i \in c.alive, NEW parts, IsSeq(parts), Apart(parts),
         Len(parts) > 0, \A k \in 1 .. Len(parts) : parts[k] # {},
         NEW l0 \in LinesOf(c, i), \A k \in 1 .. Len(parts) : parts[k] \subseteq LinesOf(c, i) \ {l0},
         c.made + Len(parts) <= MaxItems
  PROVE  CatalogueOK(SplitLines(c, i, parts)) /\ c.made + 1 \in SplitLines(c, i, parts).alive
<1> DEFINE n == SplitLines(c, i, parts)
           Chosen(l) == CHOOSE k \in 1 .. Len(parts) : l \in parts[k]
           To(l) == IF \E k \in 1 .. Len(parts) : l \in parts[k] THEN c.made + Chosen(l) ELSE c.line[l]
           Went(a) == {To(l) : l \in {m \in LinesOf(c, i) : Called[m] = a}}
           raisers == {To(l) : l \in LinesOf(c, i) \cap c.new}
           Follows(q) == c.asked[q].item = i /\ c.asked[q].status = "pending"
                         /\ Cardinality(raisers) = 1 /\ i \notin raisers
           alive == c.alive \cup (c.made + 1 .. c.made + Len(parts))
           line == [l \in Lines |-> To(l)]
           name == [a \in Receiptnames |->
                     IF c.name[a] = i /\ Cardinality(Went(a)) = 1 THEN CHOOSE t \in Went(a) : TRUE ELSE c.name[a]]
           asked == [q \in Questions |->
                     IF Follows(q) THEN [c.asked[q] EXCEPT !.item = CHOOSE t \in raisers : TRUE] ELSE c.asked[q]]
<1>0. n = [made |-> c.made + Len(parts), alive |-> alive, line |-> line, new |-> c.new, name |-> name,
           title |-> c.title, asked |-> asked]
  <2>1. n = [c EXCEPT !.made = c.made + Len(parts), !.alive = alive, !.line = line, !.name = name, !.asked = asked]
    BY Zenon DEF SplitLines, Cardinality, Cardinality
  <2> HIDE DEF n, alive, line, name, asked
  <2> QED
    BY <2>1 DEF CatalogueOK
<1>1. /\ n.made = c.made + Len(parts) /\ n.alive = c.alive \cup (c.made + 1 .. c.made + Len(parts))
      /\ n.line = [l \in Lines |-> To(l)]
      /\ n.name = [a \in Receiptnames |->
                     IF c.name[a] = i /\ Cardinality(Went(a)) = 1 THEN CHOOSE t \in Went(a) : TRUE ELSE c.name[a]]
      /\ n.asked = [q \in Questions |->
                     IF Follows(q) THEN [c.asked[q] EXCEPT !.item = CHOOSE t \in raisers : TRUE] ELSE c.asked[q]]
      /\ n = [made |-> n.made, alive |-> n.alive, line |-> n.line, new |-> n.new, name |-> n.name,
              title |-> n.title, asked |-> n.asked]
  <2> HIDE DEF n, line, name, asked, Went, raisers, Follows, To
  <2> QED
    BY <1>0 DEF line, name, asked
<1>2. Len(parts) \in Nat /\ c.made \in Nat /\ c.alive \subseteq 1 .. c.made
  BY SeqIs DEF CatalogueOK, IsSeq
<1>3. ASSUME NEW l \in Lines
      PROVE  /\ To(l) \in n.alive
             /\ \A k \in 1 .. Len(parts) : l \in parts[k] => To(l) = c.made + k
             /\ To(l) = c.line[l] \/ To(l) > c.made
  <2>1. ASSUME NEW k \in 1 .. Len(parts), l \in parts[k] PROVE To(l) = c.made + k /\ Chosen(l) = k
    <3>1. Chosen(l) \in 1 .. Len(parts) /\ l \in parts[Chosen(l)]
      BY <2>1
    <3>2. Chosen(l) = k
      BY <2>1, <3>1 DEF Apart
    <3> QED
      BY <2>1, <3>2
  <2>2. CASE \E k \in 1 .. Len(parts) : l \in parts[k]
    <3>1. PICK k \in 1 .. Len(parts) : l \in parts[k]
      BY <2>2
    <3>2. To(l) = c.made + k
      BY <2>1, <3>1
    <3>3. c.made + k \in c.made + 1 .. c.made + Len(parts) /\ c.made + k > c.made
      BY <1>2
    <3> QED
      BY <1>1, <2>1, <3>2, <3>3
  <2>3. CASE ~\E k \in 1 .. Len(parts) : l \in parts[k]
    BY <1>1, <2>3 DEF CatalogueOK
  <2> QED
    BY <2>2, <2>3
<1> HIDE DEF n, To, Chosen, line, name, asked, alive
<1>4. \A S : Cardinality(S) = 1 => S # {}
  <2>1. Cardinality({}) = 0
    BY FS_EmptySet
  <2>2. ASSUME NEW S, Cardinality(S) = 1, S = {} PROVE FALSE
    <3>1. Cardinality(S) = Cardinality({})
      BY <2>2, Zenon
    <3> QED
      BY <2>1, <2>2, <3>1
  <2> QED
    BY <2>2, Zenon
<1>5. n.made \in Nat /\ n.made <= MaxItems /\ n.alive \subseteq 1 .. n.made
  BY <1>1, <1>2
<1>6. n.line \in [Lines -> n.alive]
  BY <1>1, <1>3
<1>7. ASSUME NEW a \in Receiptnames PROVE n.name[a] \in n.alive
  <2>1. CASE c.name[a] = i /\ Cardinality(Went(a)) = 1
    <3>1. (CHOOSE t \in Went(a) : TRUE) \in Went(a)
      BY <1>4, <2>1
    <3>2. Went(a) \subseteq n.alive
      BY <1>3 DEF LinesOf
    <3> QED
      BY <1>1, <2>1, <3>1, <3>2
  <2>2. CASE ~(c.name[a] = i /\ Cardinality(Went(a)) = 1)
    BY <1>1, <2>2 DEF CatalogueOK
  <2> QED
    BY <2>1, <2>2
<1>8. n.name \in [Receiptnames -> n.alive]
  <2> HIDE DEF Went
  <2> QED
    BY <1>1, <1>7
<1>9. ASSUME NEW j \in n.alive PROVE HasRows(n, j)
  <2>1. CASE j \in c.made + 1 .. c.made + Len(parts)
    <3>1. PICK k \in 1 .. Len(parts) : j = c.made + k
      <4>1. j - c.made \in 1 .. Len(parts) /\ j = c.made + (j - c.made)
        BY <1>2, <2>1
      <4> QED
        BY <4>1
    <3>2. PICK l \in parts[k] : l \in Lines
      BY DEF LinesOf
    <3> QED
      BY <1>1, <1>3, <3>1, <3>2 DEF HasRows, LinesOf
  <2>2. CASE j = i
    <3>1. l0 \in Lines /\ c.line[l0] = i /\ To(l0) = i
      BY DEF LinesOf, To
    <3> QED
      BY <1>1, <2>2, <3>1 DEF HasRows, LinesOf
  <2>3. CASE j \in c.alive /\ j # i
    <3>1. ASSUME NEW l \in Lines, c.line[l] = j PROVE n.line[l] = j
      BY <1>1, <2>3, <3>1 DEF LinesOf, To
    <3>2. ASSUME NEW a \in Receiptnames, c.name[a] = j PROVE n.name[a] = j
      BY <1>1, <2>3, <3>2
    <3> QED
      BY <2>3, <3>1, <3>2 DEF HasRows, LinesOf, NamesOf, CatalogueOK
  <2> QED
    BY <1>1, <2>1, <2>2, <2>3
<1>10. ASSUME NEW q \in Questions
      PROVE  /\ n.asked[q] = [item |-> n.asked[q].item, other |-> n.asked[q].other, status |-> n.asked[q].status]
             /\ n.asked[q].status = "pending" =>
                  /\ n.asked[q].item \in n.alive /\ n.asked[q].other \in n.alive /\ n.asked[q].item # n.asked[q].other
  <2> DEFINE a == c.asked[q]
  <2>1. /\ a = [item |-> a.item, other |-> a.other, status |-> a.status]
        /\ a.status = "pending" => a.item \in c.alive /\ a.other \in c.alive /\ a.item # a.other
    BY DEF CatalogueOK
  <2>2. CASE ~Follows(q)
    BY <1>1, <2>1, <2>2
  <2>3. CASE Follows(q)
    <3> DEFINE t == CHOOSE u \in raisers : TRUE
    <3>1. t \in raisers
      BY <1>4, <2>3
    <3>2. t \in n.alive /\ t \notin c.alive
      <4>1. PICK l \in LinesOf(c, i) : t = To(l)
        BY <3>1
      <4>2. t # i
        BY <2>3, <3>1
      <4>3. t \in n.alive /\ t > c.made
        BY <1>3, <4>1, <4>2 DEF LinesOf
      <4> QED
        BY <1>2, <4>3
    <3>3. n.asked[q] = [a EXCEPT !.item = t]
      BY <1>1, <2>3
    <3> HIDE DEF t, raisers, a
    <3>4. n.asked[q] = [item |-> t, other |-> a.other, status |-> a.status]
      BY <2>1, <3>3
    <3>5. c.alive \subseteq n.alive
      BY <1>1
    <3> QED
      BY <2>1, <3>2, <3>4, <3>5
  <2> QED
    BY <2>2, <2>3
<1>11. c.made + 1 \in n.alive
  BY <1>1, <1>2
<1>12. DOMAIN n.asked = Questions
  BY <1>1
<1> QED
  BY <1>1, <1>5, <1>6, <1>8, <1>9, <1>10, <1>11, <1>12 DEF CatalogueOK, n

LEMMA AliasKeeps ==
  ASSUME NEW c, CatalogueOK(c), NEW i \in c.alive, NEW a \in Receiptnames, c.name[a] = i,
         NEW b \in NamesOf(c, i), b # a, c.made < MaxItems
  PROVE  CatalogueOK(SplitAlias(c, i, a)) /\ c.made + 1 \in SplitAlias(c, i, a).alive
<1> DEFINE n == SplitAlias(c, i, a)
           moved == {l \in LinesOf(c, i) : Called[l] = a}
           alive == c.alive \cup {c.made + 1}
           name == [c.name EXCEPT ![a] = c.made + 1]
           line == [l \in Lines |-> IF l \in moved THEN c.made + 1 ELSE c.line[l]]
           new == c.new \ moved
<1>0. n = [made |-> c.made + 1, alive |-> alive, line |-> line, new |-> new, name |-> name,
           title |-> c.title, asked |-> c.asked]
  <2>1. n = [c EXCEPT !.made = c.made + 1, !.alive = alive, !.name = name, !.new = new, !.line = line]
    <3>1. n = [c EXCEPT !.made = @ + 1, !.alive = @ \cup {c.made + 1},
                        !.name[a] = c.made + 1, !.new = @ \ moved,
                        !.line = [l \in Lines |-> IF l \in moved THEN c.made + 1 ELSE @[l]]]
      BY Zenon DEF SplitAlias
    <3> HIDE DEF n, moved
    <3> QED
      BY <3>1 DEF CatalogueOK
  <2> HIDE DEF n, alive, line, name, new
  <2> QED
    BY <2>1 DEF CatalogueOK
<1>1. c.made \in Nat /\ c.alive \subseteq 1 .. c.made
  BY DEF CatalogueOK
<1>2. /\ n.made = c.made + 1 /\ n.alive = c.alive \cup {c.made + 1} /\ n.asked = c.asked
      /\ n.line = line /\ n.name = name
      /\ n = [made |-> n.made, alive |-> n.alive, line |-> n.line, new |-> n.new, name |-> n.name,
              title |-> n.title, asked |-> n.asked]
  <2> HIDE DEF n, line, name, new
  <2> QED
    BY <1>0
<1> HIDE DEF n, moved
<1>3. n.made \in Nat /\ n.made <= MaxItems /\ n.alive \subseteq 1 .. n.made
  BY <1>1, <1>2, ItemsAssumption
<1>4. n.line \in [Lines -> n.alive] /\ n.name \in [Receiptnames -> n.alive]
  BY <1>2 DEF CatalogueOK
<1>5. ASSUME NEW j \in n.alive PROVE HasRows(n, j)
  <2>1. CASE j = c.made + 1
    <3>1. n.name[a] = j
      BY <1>2, <2>1 DEF CatalogueOK
    <3> QED
      BY <3>1 DEF HasRows, NamesOf
  <2>2. CASE j = i
    <3>1. b \in Receiptnames /\ n.name[b] = i
      BY <1>2 DEF CatalogueOK, NamesOf
    <3> QED
      BY <2>2, <3>1 DEF HasRows, NamesOf
  <2>3. CASE j \in c.alive /\ j # i
    <3>1. ASSUME NEW l \in Lines, c.line[l] = j PROVE n.line[l] = j
      BY <1>2, <2>3, <3>1 DEF moved, LinesOf
    <3>2. ASSUME NEW m \in Receiptnames, c.name[m] = j PROVE n.name[m] = j
      BY <1>2, <2>3, <3>2 DEF CatalogueOK
    <3> QED
      BY <2>3, <3>1, <3>2 DEF HasRows, LinesOf, NamesOf, CatalogueOK
  <2> QED
    BY <1>2, <2>1, <2>2, <2>3
<1>6. DOMAIN n.asked = Questions
  BY <1>2 DEF CatalogueOK
<1>7. \A q \in Questions :
        /\ n.asked[q] = [item |-> n.asked[q].item, other |-> n.asked[q].other, status |-> n.asked[q].status]
        /\ n.asked[q].status = "pending" =>
            /\ n.asked[q].item \in n.alive /\ n.asked[q].other \in n.alive
            /\ n.asked[q].item # n.asked[q].other
  BY <1>2 DEF CatalogueOK
<1> QED
  BY <1>2, <1>3, <1>4, <1>5, <1>6, <1>7 DEF CatalogueOK, n

\* A question answered, or an item renamed, leaves every row where it is.
LEMMA RowsStay ==
  ASSUME NEW c, CatalogueOK(c), NEW r, r.what \in {"reject", "rename"}, ItemAccepts(c, r)
  PROVE  CatalogueOK(After(c, r)) /\ After(c, r).made = c.made
<1>1. CASE r.what = "rename"
  <2> DEFINE n == After(c, r)
             title == [c.title EXCEPT ![r.item] = c.title[r.item] + 1]
  <2>1. n = [c EXCEPT !.title[r.item] = @ + 1]
    BY <1>1 DEF After
  <2>2. n = [c EXCEPT !.title = title]
    BY <2>1 DEF CatalogueOK
  <2> HIDE DEF n, title
  <2>3. n = [made |-> c.made, alive |-> c.alive, line |-> c.line, new |-> c.new, name |-> c.name,
             title |-> title, asked |-> c.asked]
    BY <2>2 DEF CatalogueOK
  <2>4. /\ n.made = c.made /\ n.alive = c.alive /\ n.line = c.line /\ n.name = c.name /\ n.asked = c.asked
        /\ n = [made |-> n.made, alive |-> n.alive, line |-> n.line, new |-> n.new, name |-> n.name,
                title |-> n.title, asked |-> n.asked]
    BY <2>3
  <2> QED
    BY <2>4 DEF CatalogueOK, HasRows, LinesOf, NamesOf, n
<1>2. CASE r.what = "reject"
  <2> DEFINE n == After(c, r)
             asked == [c.asked EXCEPT ![r.with] = [c.asked[r.with] EXCEPT !.status = "rejected"]]
  <2>1. r.with \in Questions
    BY <1>2 DEF ItemAccepts, Open
  <2>2. n = [c EXCEPT !.asked[r.with].status = "rejected"]
    BY <1>2 DEF After
  <2>3. n = [c EXCEPT !.asked = asked]
    BY <2>2 DEF CatalogueOK
  <2> HIDE DEF n, asked
  <2>4. n = [made |-> c.made, alive |-> c.alive, line |-> c.line, new |-> c.new, name |-> c.name,
             title |-> c.title, asked |-> asked]
    BY <2>3 DEF CatalogueOK
  <2>5. /\ n.made = c.made /\ n.alive = c.alive /\ n.line = c.line /\ n.name = c.name /\ n.asked = asked
        /\ n = [made |-> n.made, alive |-> n.alive, line |-> n.line, new |-> n.new, name |-> n.name,
                title |-> n.title, asked |-> n.asked]
    BY <2>4
  <2>6. DOMAIN asked = Questions
    BY DEF asked, CatalogueOK
  <2>7. ASSUME NEW q \in Questions
        PROVE  /\ asked[q] = [item |-> asked[q].item, other |-> asked[q].other, status |-> asked[q].status]
               /\ asked[q].status = "pending" =>
                    /\ asked[q].item \in c.alive /\ asked[q].other \in c.alive /\ asked[q].item # asked[q].other
    <3> DEFINE a == c.asked[q]
    <3>1. /\ a = [item |-> a.item, other |-> a.other, status |-> a.status]
          /\ a.status = "pending" => a.item \in c.alive /\ a.other \in c.alive /\ a.item # a.other
      BY DEF CatalogueOK
    <3>2. asked[q] = IF q = r.with THEN [a EXCEPT !.status = "rejected"] ELSE a
      BY DEF asked, CatalogueOK
    <3> HIDE DEF a
    <3>3. CASE q = r.with
      <4>1. asked[q] = [item |-> a.item, other |-> a.other, status |-> "rejected"]
        BY <3>1, <3>2, <3>3
      <4> QED
        BY <4>1
    <3>4. CASE q # r.with
      BY <3>1, <3>2, <3>4
    <3> QED
      BY <3>3, <3>4
  <2> QED
    BY <2>5, <2>6, <2>7 DEF CatalogueOK, HasRows, LinesOf, NamesOf, n
<1> QED
  BY <1>1, <1>2

LEMMA ServedKeeps ==
  ASSUME NEW c, CatalogueOK(c), NEW h \in ItemHooks, NEW r, RequestOK(h, r), ItemAccepts(c, r),
         c.made + Len(r.parts) <= MaxItems, h = "alias" => c.made < MaxItems
  PROVE  /\ CatalogueOK(After(c, r))
         /\ r.what \in {"accept", "merge", "split"} =>
                Result(c, r) \in Items /\ Result(c, r) \in After(c, r).alive
<1>1. c.alive \subseteq 1 .. c.made /\ c.made \in Nat /\ MaxItems \in Nat /\ c.made <= MaxItems /\ c.alive \subseteq Items
  BY ItemsAssumption DEF CatalogueOK, Items
<1>2. CASE r.what = "accept"
  <2> DEFINE x == c.asked[r.with].item
             y == c.asked[r.with].other
  <2>1. x \in c.alive /\ y \in c.alive /\ x # y
    BY <1>2 DEF ItemAccepts, Open, CatalogueOK
  <2>2. After(c, r) = Merge(c, x, y) /\ Result(c, r) = y
    BY <1>2 DEF After, Result
  <2> HIDE DEF x, y
  <2> QED
    BY <1>1, <2>1, <2>2, MergeKeeps
<1>3. CASE r.what = "merge"
  <2>1. r.item \in c.alive /\ r.with \in c.alive /\ r.item # r.with
    BY <1>3 DEF ItemAccepts
  <2>2. After(c, r) = Merge(c, r.item, r.with) /\ Result(c, r) = r.with
    BY <1>3 DEF After, Result
  <2> QED
    BY <1>1, <2>1, <2>2, MergeKeeps
<1>4. CASE r.what = "split"
  <2>1. h = "split" /\ IsSeq(r.parts) /\ Apart(r.parts) /\ Len(r.parts) > 0 /\ Len(r.parts) \in Nat
    BY <1>4, SeqIs DEF RequestOK, ItemHooks, IsSeq
  <2> DEFINE chosen == UNION ToSet(r.parts)
  <2>2. /\ r.item \in c.alive /\ \A k \in 1 .. Len(r.parts) : r.parts[k] # {}
        /\ chosen \subseteq LinesOf(c, r.item) /\ chosen # LinesOf(c, r.item)
    BY <1>4 DEF ItemAccepts
  <2>3. PICK l0 \in LinesOf(c, r.item) : l0 \notin chosen
    BY <2>2
  <2>4. ASSUME NEW k \in 1 .. Len(r.parts) PROVE r.parts[k] \subseteq chosen
    <3>1. k \in DOMAIN r.parts
      BY <2>1 DEF IsSeq
    <3> QED
      BY <3>1 DEF ToSet
  <2> HIDE DEF chosen
  <2>5. \A k \in 1 .. Len(r.parts) : r.parts[k] \subseteq LinesOf(c, r.item) \ {l0}
    BY <2>2, <2>3, <2>4
  <2>6. After(c, r) = SplitLines(c, r.item, r.parts) /\ Result(c, r) = c.made + 1
    BY <1>4 DEF After, Result
  <2>7. c.made + 1 \in Items
    BY <1>1, <2>1 DEF Items
  <2> DEFINE i == r.item
             parts == r.parts
  <2>8. /\ i \in c.alive /\ IsSeq(parts) /\ Apart(parts) /\ Len(parts) > 0 /\ \A k \in 1 .. Len(parts) : parts[k] # {}
        /\ l0 \in LinesOf(c, i) /\ \A k \in 1 .. Len(parts) : parts[k] \subseteq LinesOf(c, i) \ {l0}
        /\ c.made + Len(parts) <= MaxItems
    BY <2>1, <2>2, <2>5
  <2> HIDE DEF i, parts
  <2>9. CatalogueOK(SplitLines(c, i, parts)) /\ c.made + 1 \in SplitLines(c, i, parts).alive
    BY <2>8, SplitKeeps
  <2> QED
    BY <1>4, <2>6, <2>7, <2>9 DEF i, parts
<1>5. CASE r.what = "alias"
  <2>1. h = "alias" /\ r.with \in Receiptnames
    BY <1>5 DEF RequestOK, ItemHooks
  <2>2. r.item \in c.alive /\ c.name[r.with] = r.item /\ Cardinality(NamesOf(c, r.item)) > 1
    BY <1>5 DEF ItemAccepts
  <2>3. PICK b \in NamesOf(c, r.item) : b # r.with
    <3>1. SUFFICES ASSUME NamesOf(c, r.item) \subseteq {r.with} PROVE FALSE
      OBVIOUS
    <3>2. NamesOf(c, r.item) = {r.with}
      BY <2>1, <2>2, <3>1 DEF NamesOf
    <3>3. Cardinality({r.with}) = 1
      BY FS_Singleton
    <3> QED
      BY <2>2, <3>2, <3>3
  <2>4. After(c, r) = SplitAlias(c, r.item, r.with)
    BY <1>5 DEF After
  <2> QED
    BY <1>5, <2>1, <2>2, <2>3, <2>4, AliasKeeps
<1>6. CASE r.what \in {"reject", "rename"}
  BY <1>6, RowsStay
<1>7. r.what \in {"accept", "reject", "merge", "split", "rename", "alias"}
  BY DEF RequestOK, ItemHooks
<1> QED
  BY <1>2, <1>3, <1>4, <1>5, <1>6, <1>7

-----------------------------------------------------------------------------
(* The calls of the item screens.                                           *)

IsCall(r) == r = [pc |-> r.pc, what |-> r.what, item |-> r.item, with |-> r.with, parts |-> r.parts,
                  here |-> r.here, alone |-> r.alone, fair |-> r.fair, result |-> r.result]
AskSame(r, s) == s.what = r.what /\ s.item = r.item /\ s.with = r.with /\ s.parts = r.parts

LEMMA SameAsked ==
  ASSUME NEW c, NEW h, NEW r, NEW s, AskSame(r, s)
  PROVE  /\ ItemAccepts(c, s) <=> ItemAccepts(c, r)
         /\ RequestOK(h, s) <=> RequestOK(h, r)
BY DEF AskSame, ItemAccepts, RequestOK

\* One call changes; the items change only by a call that was under way.
LEMMA OneCall ==
  ASSUME NEW c, NEW cs, RequestsOK(c, cs), NEW d, NEW h \in ItemHooks, NEW r, d = c \/ cs[h].pc # "none",
         IsCall(r), r.pc # "none" => /\ cs[h].pc # "none" /\ RequestOK(h, r) /\ FairOK(d, r) /\ LandsOK(d, r)
                                     /\ r.alone => cs[h].alone
  PROVE  RequestsOK(d, [cs EXCEPT ![h] = r])
<1> DEFINE ds == [cs EXCEPT ![h] = r]
<1>1. DOMAIN ds = ItemHooks /\ ds[h] = r /\ \A g \in ItemHooks \ {h} : ds[g] = cs[g]
  BY DEF RequestsOK
<1> HIDE DEF ds
<1>2. ASSUME NEW g \in ItemHooks
      PROVE  /\ IsCall(ds[g])
             /\ ds[g].pc # "none" =>
                  /\ RequestOK(g, ds[g]) /\ FairOK(d, ds[g]) /\ LandsOK(d, ds[g])
                  /\ ds[g].alone => \A f \in ItemHooks \ {g} : ds[f].pc = "none"
  <2>1. CASE g = h
    BY <1>1, <2>1 DEF RequestsOK
  <2>2. CASE g # h
    <3>1. /\ IsCall(cs[g])
          /\ cs[g].pc # "none" =>
               /\ RequestOK(g, cs[g]) /\ FairOK(c, cs[g]) /\ LandsOK(c, cs[g])
               /\ cs[g].alone => \A f \in ItemHooks \ {g} : cs[f].pc = "none"
      BY DEF RequestsOK, IsCall
    <3>2. CASE cs[h].pc = "none"
      BY <1>1, <2>2, <3>1, <3>2
    <3>3. CASE cs[h].pc # "none"
      BY <1>1, <2>2, <3>1, <3>3 DEF FairOK, LandsOK
    <3> QED
      BY <3>2, <3>3
  <2> QED
    BY <2>1, <2>2
<1> QED
  BY <1>1, <1>2 DEF RequestsOK, IsCall, ds

\* Calls lose their screen, or that they are alone.
Faded(cs, ds) ==
    /\ DOMAIN ds = ItemHooks
    /\ \A h \in ItemHooks : /\ IsCall(ds[h]) /\ AskSame(cs[h], ds[h]) /\ ds[h].pc = cs[h].pc
                            /\ ds[h].fair = cs[h].fair /\ ds[h].result = cs[h].result
                            /\ ds[h].alone => cs[h].alone

LEMMA CallsFade ==
  ASSUME NEW c, NEW cs, RequestsOK(c, cs), NEW ds, Faded(cs, ds)
  PROVE  RequestsOK(c, ds)
<1> SUFFICES ASSUME NEW h \in ItemHooks
             PROVE  /\ IsCall(ds[h])
                    /\ ds[h].pc # "none" =>
                        /\ RequestOK(h, ds[h]) /\ FairOK(c, ds[h]) /\ LandsOK(c, ds[h])
                        /\ ds[h].alone => \A g \in ItemHooks \ {h} : ds[g].pc = "none"
  BY DEF RequestsOK, IsCall, Faded
<1>0. /\ IsCall(ds[h]) /\ AskSame(cs[h], ds[h]) /\ ds[h].pc = cs[h].pc
      /\ ds[h].fair = cs[h].fair /\ ds[h].result = cs[h].result /\ (ds[h].alone => cs[h].alone)
      /\ \A g \in ItemHooks : ds[g].pc = cs[g].pc
  BY DEF Faded
<1>1. /\ cs[h].pc # "none" =>
               /\ RequestOK(h, cs[h]) /\ FairOK(c, cs[h]) /\ LandsOK(c, cs[h])
               /\ cs[h].alone => \A f \in ItemHooks \ {h} : cs[f].pc = "none"
  BY DEF RequestsOK
<1>2. (ItemAccepts(c, ds[h]) <=> ItemAccepts(c, cs[h])) /\ (RequestOK(h, ds[h]) <=> RequestOK(h, cs[h]))
  BY <1>0, SameAsked
<1>3. ds[h].what = cs[h].what
  BY <1>0 DEF AskSame
<1>4. ds[h].pc # "none" => FairOK(c, ds[h])
  BY <1>0, <1>1, <1>2 DEF FairOK
<1>5. ds[h].pc # "none" => LandsOK(c, ds[h])
  BY <1>0, <1>1, <1>3 DEF LandsOK
<1> QED
  BY <1>0, <1>1, <1>2, <1>4, <1>5

LEMMA LeftFades ==
  ASSUME NEW c, NEW cs, RequestsOK(c, cs)
  PROVE  /\ RequestsOK(c, Left(cs))
         /\ \A h \in {"answer", "merge", "split"} : Left(cs)[h].here = FALSE
         /\ \A h \in ItemHooks : Left(cs)[h].pc = cs[h].pc /\ Left(cs)[h].item = cs[h].item
<1> DEFINE ds == Left(cs)
<1>1. DOMAIN ds = ItemHooks
  BY DEF Left
<1>2. ASSUME NEW h \in ItemHooks
      PROVE  /\ IsCall(ds[h]) /\ AskSame(cs[h], ds[h]) /\ ds[h].pc = cs[h].pc
             /\ ds[h].fair = cs[h].fair /\ ds[h].result = cs[h].result
             /\ ds[h].alone = cs[h].alone
             /\ h \in {"answer", "merge", "split"} => ds[h].here = FALSE
  <2> DEFINE r == cs[h]
  <2>1. IsCall(r)
    BY DEF RequestsOK, IsCall
  <2>2. ds[h] = IF h \in {"answer", "merge", "split"} THEN [r EXCEPT !.here = FALSE] ELSE r
    BY DEF Left
  <2> HIDE DEF r, ds
  <2>3. CASE h \in {"answer", "merge", "split"}
    <3>1. ds[h] = [pc |-> r.pc, what |-> r.what, item |-> r.item, with |-> r.with, parts |-> r.parts,
                   here |-> FALSE, alone |-> r.alone, fair |-> r.fair, result |-> r.result]
      BY <2>1, <2>2, <2>3 DEF IsCall
    <3> QED
      BY <3>1 DEF IsCall, AskSame, r
  <2>4. CASE h \notin {"answer", "merge", "split"}
    BY <2>1, <2>2, <2>4 DEF AskSame, r
  <2> QED
    BY <2>3, <2>4
<1> HIDE DEF ds
<1>3. RequestsOK(c, ds)
  <2>1. Faded(cs, ds)
    BY <1>1, <1>2 DEF Faded
  <2> QED
    BY <2>1, CallsFade
<1> QED
  BY <1>2, <1>3 DEF ds, AskSame, ItemHooks

\* A call is sent: alone if nothing else is under way.
LEMMA StartKeeps ==
  ASSUME RequestsOK(catalogue, calls), NEW h \in ItemHooks, calls[h].pc = "none", NEW r, Start(h, r), IsCall(r),
         RequestOK(h, r), r.fair => ItemAccepts(catalogue, r)
  PROVE  /\ RequestsOK(catalogue, calls') /\ calls'[h].here = TRUE /\ calls'[h].item = r.item /\ calls'[h].pc = "sent"
         /\ \A g \in ItemHooks \ {h} : calls'[g].pc = calls[g].pc /\ calls'[g].here = calls[g].here /\ calls'[g].item = calls[g].item
<1> DEFINE alone == \A f \in ItemHooks : calls[f].pc = "none"
           s == [pc |-> "sent", what |-> r.what, item |-> r.item, with |-> r.with, parts |-> r.parts,
                 here |-> TRUE, alone |-> alone, fair |-> r.fair, result |-> r.result]
<1>1. DOMAIN calls' = ItemHooks /\ \A g \in ItemHooks : calls'[g] = IF g # h THEN [calls[g] EXCEPT !.alone = FALSE]
                                 ELSE [r EXCEPT !.pc = "sent", !.here = TRUE, !.alone = alone]
  BY DEF Start
<1>2. calls'[h] = s
  <2>1. calls'[h] = [r EXCEPT !.pc = "sent", !.here = TRUE, !.alone = alone]
    BY <1>1
  <2> HIDE DEF alone
  <2> QED
    BY <2>1 DEF IsCall
<1>3. ASSUME NEW g \in ItemHooks \ {h}
      PROVE  /\ IsCall(calls'[g]) /\ AskSame(calls[g], calls'[g]) /\ calls'[g].pc = calls[g].pc
             /\ calls'[g].fair = calls[g].fair /\ calls'[g].result = calls[g].result
             /\ calls'[g].alone = FALSE /\ calls'[g].here = calls[g].here
  <2> DEFINE o == calls[g]
  <2>1. IsCall(o)
    BY DEF RequestsOK, IsCall
  <2>2. calls'[g] = [o EXCEPT !.alone = FALSE]
    BY <1>1
  <2> HIDE DEF o
  <2>3. calls'[g] = [pc |-> o.pc, what |-> o.what, item |-> o.item, with |-> o.with, parts |-> o.parts,
                     here |-> o.here, alone |-> FALSE, fair |-> o.fair, result |-> o.result]
    BY <2>1, <2>2 DEF IsCall
  <2> QED
    BY <2>3 DEF IsCall, AskSame, o
<1>4. s.pc = "sent" /\ IsCall(s) /\ AskSame(r, s) /\ s.fair = r.fair /\ s.here = TRUE
  BY DEF IsCall, AskSame
<1>5. s.alone => alone
  OBVIOUS
<1> HIDE DEF s
<1>6. RequestOK(h, s) /\ FairOK(catalogue, s) /\ LandsOK(catalogue, s)
  BY <1>4, SameAsked DEF FairOK, LandsOK
<1>7. ASSUME NEW g \in ItemHooks \ {h}, calls'[g].pc # "none"
      PROVE  RequestOK(g, calls'[g]) /\ FairOK(catalogue, calls'[g]) /\ LandsOK(catalogue, calls'[g])
  <2>1. RequestOK(g, calls[g]) /\ LandsOK(catalogue, calls[g])
    BY <1>3, <1>7 DEF RequestsOK
  <2>2. RequestOK(g, calls'[g])
    BY <1>3, <2>1, SameAsked
  <2>3. LandsOK(catalogue, calls'[g])
    BY <1>3, <2>1 DEF LandsOK, AskSame
  <2>4. FairOK(catalogue, calls'[g])
    BY <1>3 DEF FairOK
  <2> QED
    BY <2>2, <2>3, <2>4
<1>8. ASSUME NEW g \in ItemHooks, calls'[g].alone PROVE \A f \in ItemHooks \ {g} : calls'[f].pc = "none"
  <2>1. g = h /\ alone
    BY <1>2, <1>3, <1>5, <1>8
  <2> QED
    BY <1>3, <2>1
<1>9. RequestsOK(catalogue, calls')
  <2>1. \A g \in ItemHooks : IsCall(calls'[g])
    BY <1>2, <1>3, <1>4
  <2>2. \A g \in ItemHooks : calls'[g].pc # "none" =>
            RequestOK(g, calls'[g]) /\ FairOK(catalogue, calls'[g]) /\ LandsOK(catalogue, calls'[g])
    BY <1>2, <1>6, <1>7
  <2> QED
    BY <1>1, <1>8, <2>1, <2>2 DEF RequestsOK, IsCall
<1> QED
  BY <1>2, <1>3, <1>4, <1>9 DEF AskSame

-----------------------------------------------------------------------------
(* The stack of screens.                                                    *)

LEMMA LastIs == ASSUME NEW s PROVE Last(s) = s[Len(s)]
BY DEF Last

LEMMA FrontIs ==
  ASSUME NEW s, IsSeq(s), Len(s) > 0
  PROVE  /\ IsSeq(Front(s)) /\ Len(Front(s)) = Len(s) - 1 /\ Len(s) \in Nat
         /\ \A n \in 1 .. Len(s) - 1 : Front(s)[n] = s[n]
<1> DEFINE T == {s[n] : n \in 1 .. Len(s)}
           f == SubSeq(s, 1, Len(s) - 1)
<1>1. s \in Seq(T)
  BY DEF IsSeq
<1> HIDE DEF T
<1>2. Len(s) \in Nat /\ \A i \in 1 .. Len(s) : s[i] \in T
  BY <1>1
<1>3. f \in Seq(T) /\ Len(f) = Len(s) - 1 /\ \A i \in 1 .. Len(s) - 1 : f[i] = s[i]
  <2> DEFINE m == Len(s) - 1
  <2>1. m \in Nat /\ f = SubSeq(s, 1, m) /\ \A i \in 1 .. m : s[i] \in T
    BY <1>2
  <2> HIDE DEF m, f
  <2>2. /\ f \in Seq(T) /\ Len(f) = IF 1 <= m THEN m - 1 + 1 ELSE 0
        /\ \A i \in 1 .. m - 1 + 1 : f[i] = s[1 + i - 1]
    BY <1>1, <1>2, <2>1, SubSeqProperties
  <2>3. f \in Seq(T) /\ Len(f) = m /\ \A i \in 1 .. m : f[i] = s[i]
    BY <2>1, <2>2
  <2> QED
    BY <2>3 DEF m
<1>4. Front(s) = f
  BY DEF Front
<1> HIDE DEF f
<1> QED
  BY <1>2, <1>3, <1>4, SeqIs

IsScreen(s) == s = [kind |-> s.kind, item |-> s.item]

LEMMA PushKeeps ==
  ASSUME NEW st, StackOK(st), AtTop(st).kind \notin Forms, NEW s, IsScreen(s), s.kind \in Kinds \ {"list"},
         s.kind \in {"detail", "merge", "split"} => s.item \in Items, Over(s, AtTop(st))
  PROVE  StackOK(Append(st, s)) /\ AtTop(Append(st, s)) = s /\ Append(st, s) # st
<1> DEFINE t == Append(st, s)
<1>1. /\ IsSeq(t) /\ Len(t) = Len(st) + 1 /\ Len(st) \in Nat /\ Len(st) > 0
      /\ \A n \in 1 .. Len(st) + 1 : t[n] = IF n <= Len(st) THEN st[n] ELSE s
  BY LongerSeq DEF StackOK
<1> HIDE DEF t
<1>2. AtTop(t) = s /\ t[1] = st[1] /\ t # st
  BY <1>1 DEF AtTop
<1>3. ASSUME NEW n \in 1 .. Len(t)
      PROVE  /\ IsScreen(t[n]) /\ t[n].kind \in Kinds
             /\ t[n].kind \in {"detail", "merge", "split"} => t[n].item \in Items
             /\ n > 1 => t[n].kind # "list" /\ Over(t[n], t[n - 1])
             /\ n < Len(t) => t[n].kind \notin Forms
  <2>1. CASE n = Len(st) + 1
    <3>1. t[n] = s /\ t[n - 1] = AtTop(st)
      BY <1>1, <2>1 DEF AtTop
    <3> QED
      BY <1>1, <2>1, <3>1
  <2>2. CASE n <= Len(st)
    <3>1. n \in 1 .. Len(st) /\ t[n] = st[n] /\ (n > 1 => t[n - 1] = st[n - 1])
      BY <1>1, <2>2
    <3>2. /\ IsScreen(st[n]) /\ st[n].kind \in Kinds
          /\ st[n].kind \in {"detail", "merge", "split"} => st[n].item \in Items
          /\ n > 1 => st[n].kind # "list" /\ Over(st[n], st[n - 1])
          /\ n < Len(st) => st[n].kind \notin Forms
      BY <3>1 DEF StackOK, IsScreen
    <3>3. n = Len(st) => st[n] = AtTop(st)
      BY DEF AtTop
    <3> QED
      BY <1>1, <2>2, <3>1, <3>2, <3>3
  <2> QED
    BY <1>1, <2>1, <2>2
<1>4. StackOK(t)
  BY <1>1, <1>2, <1>3 DEF StackOK, IsScreen
<1> QED
  BY <1>2, <1>4 DEF t

LEMMA PopKeeps ==
  ASSUME NEW st, StackOK(st), Len(st) > 1
  PROVE  /\ StackOK(Front(st)) /\ AtTop(Front(st)) = st[Len(st) - 1] /\ AtTop(Front(st)).kind \notin Forms
         /\ Over(AtTop(st), AtTop(Front(st))) /\ Len(Front(st)) = Len(st) - 1 /\ Front(st) # st
<1> DEFINE t == Front(st)
<1>1. /\ IsSeq(t) /\ Len(t) = Len(st) - 1 /\ Len(st) \in Nat
      /\ \A n \in 1 .. Len(st) - 1 : t[n] = st[n]
  BY FrontIs DEF StackOK
<1> HIDE DEF t
<1>2. AtTop(t) = st[Len(st) - 1] /\ t[1] = st[1] /\ t # st /\ Len(t) > 0
  BY <1>1 DEF AtTop
<1>3. ASSUME NEW n \in 1 .. Len(t)
      PROVE  /\ IsScreen(t[n]) /\ t[n].kind \in Kinds
             /\ t[n].kind \in {"detail", "merge", "split"} => t[n].item \in Items
             /\ n > 1 => t[n].kind # "list" /\ Over(t[n], t[n - 1])
             /\ t[n].kind \notin Forms
  <2>1. n \in 1 .. Len(st) /\ n < Len(st) /\ t[n] = st[n] /\ (n > 1 => t[n - 1] = st[n - 1])
    BY <1>1
  <2> QED
    BY <2>1 DEF StackOK, IsScreen
<1>4. StackOK(t)
  BY <1>1, <1>2, <1>3 DEF StackOK, IsScreen
<1>5. AtTop(t).kind \notin Forms
  BY <1>2, <1>1, <1>3 DEF AtTop
<1>6. Over(AtTop(st), st[Len(st) - 1])
  <2> DEFINE m == Len(st)
  <2>1. m \in 1 .. Len(st) /\ m > 1
    BY <1>1
  <2>2. Over(st[m], st[m - 1])
    <3> HIDE DEF m
    <3> QED
      BY <2>1 DEF StackOK
  <2> QED
    BY <2>2 DEF AtTop
<1> QED
  BY <1>1, <1>2, <1>4, <1>5, <1>6 DEF t

Detail(i) == [kind |-> "detail", item |-> i]

\* A form closes: what it was over is shown, or an item in place of that one.
LEMMA ClosedKeeps ==
  ASSUME StackOK(itemStack), AtTop(itemStack).kind \in Forms, NEW into \in Items \cup {NoItem},
         into # NoItem => AtTop(itemStack).item \in Items
  PROVE  /\ StackOK(Closed(into)) /\ AtTop(Closed(into)).kind \notin Forms
         /\ into # NoItem => AtTop(Closed(into)) = Detail(into)
         /\ into = NoItem => Over(AtTop(itemStack), AtTop(Closed(into)))
<1> DEFINE p == Front(itemStack)
<1>1. Len(itemStack) > 1 /\ Len(itemStack) \in Nat
  <2>1. Len(itemStack) \in Nat /\ Len(itemStack) > 0 /\ itemStack[1].kind = "list"
    BY SeqIs DEF StackOK, IsSeq
  <2> QED
    BY <2>1 DEF AtTop, Forms
<1>2. /\ StackOK(p) /\ AtTop(p).kind \notin Forms /\ Over(AtTop(itemStack), AtTop(p))
      /\ Len(p) = Len(itemStack) - 1
  BY <1>1, PopKeeps
<1>3. CASE into = NoItem
  <2>1. Closed(into) = p
    BY <1>3 DEF Closed, Popped
  <2> QED
    BY <1>2, <1>3, <2>1
<1>4. CASE into # NoItem
  <2> DEFINE f == Front(p)
             d == Detail(into)
  <2>1. Closed(into) = Append(f, d)
    BY <1>4 DEF Closed, Popped, Screen, Detail
  <2> HIDE DEF p
  <2>2. AtTop(p).kind = "detail"
    BY <1>2, <1>4, ItemsAssumption DEF Over, Forms, NoItem, Items
  <2>3. Len(p) > 1
    <3>1. Len(p) > 0 /\ p[1].kind = "list"
      BY <1>2 DEF StackOK
    <3> QED
      BY <1>1, <1>2, <2>2, <3>1 DEF AtTop
  <2>4. StackOK(f) /\ AtTop(f).kind \notin Forms
    BY <1>2, <2>3, PopKeeps
  <2> HIDE DEF f
  <2>5. IsScreen(d) /\ d.kind = "detail" /\ d.item = into /\ d.kind \in Kinds \ {"list"} /\ Over(d, AtTop(f)) /\ d.kind \notin Forms
    BY DEF IsScreen, Detail, Kinds, Over, Forms
  <2> HIDE DEF d
  <2>6. StackOK(Append(f, d)) /\ AtTop(Append(f, d)) = d
    BY <1>4, <2>4, <2>5, PushKeeps
  <2> QED
    BY <1>4, <2>1, <2>5, <2>6 DEF d
<1> QED
  BY <1>3, <1>4

-----------------------------------------------------------------------------
(* The query cache.                                                         *)

IsEntry(e) == e = [data |-> e.data, fresh |-> e.fresh, call |-> e.call, read |-> e.read]

LEMMA EntryShapes ==
  ASSUME NEW e, IsEntry(e), NEW d
  PROVE  /\ Ask(e) = [data |-> e.data, fresh |-> e.fresh, call |-> "asked", read |-> NoData]
         /\ Fail(e) = [data |-> e.data, fresh |-> e.fresh, call |-> "failed", read |-> NoData]
         /\ [e EXCEPT !.fresh = FALSE] = [data |-> e.data, fresh |-> FALSE, call |-> e.call, read |-> e.read]
         /\ Reads(e, d) = [data |-> e.data, fresh |-> e.fresh, call |-> "read", read |-> d]
<1> DEFINE data == e.data
           fresh == e.fresh
           call == e.call
           read == e.read
           asked == "asked"
           failed == "failed"
           over == "read"
           stale == FALSE
<1>1. e = [data |-> data, fresh |-> fresh, call |-> call, read |-> read]
  BY DEF IsEntry
<1>2. /\ Ask(e) = [e EXCEPT !.call = asked, !.read = NoData]
      /\ Fail(e) = [e EXCEPT !.call = failed, !.read = NoData]
      /\ [e EXCEPT !.fresh = FALSE] = [e EXCEPT !.fresh = stale]
      /\ Reads(e, d) = [e EXCEPT !.call = over, !.read = d]
  BY Zenon DEF Ask, Fail, Reads
<1> HIDE DEF data, fresh, call, read, asked, failed, over, stale
<1>3. Ask(e) = [data |-> data, fresh |-> fresh, call |-> asked, read |-> NoData]
  <2> DEFINE f == [e EXCEPT !.call = asked]
  <2>1. Ask(e) = [f EXCEPT !.read = NoData]
    BY Zenon, <1>2
  <2>2. f = [data |-> data, fresh |-> fresh, call |-> asked, read |-> read]
    BY <1>1
  <2> HIDE DEF f
  <2>3. [f EXCEPT !.read = NoData] = [data |-> data, fresh |-> fresh, call |-> asked, read |-> NoData]
    BY <2>2
  <2> QED
    BY <2>1, <2>3
<1>4. Fail(e) = [data |-> data, fresh |-> fresh, call |-> failed, read |-> NoData]
  <2> DEFINE f == [e EXCEPT !.call = failed]
  <2>1. Fail(e) = [f EXCEPT !.read = NoData]
    BY Zenon, <1>2
  <2>2. f = [data |-> data, fresh |-> fresh, call |-> failed, read |-> read]
    BY <1>1
  <2> HIDE DEF f
  <2>3. [f EXCEPT !.read = NoData] = [data |-> data, fresh |-> fresh, call |-> failed, read |-> NoData]
    BY <2>2
  <2> QED
    BY <2>1, <2>3
<1>5. Reads(e, d) = [data |-> data, fresh |-> fresh, call |-> over, read |-> d]
  <2> DEFINE f == [e EXCEPT !.call = over]
  <2>1. Reads(e, d) = [f EXCEPT !.read = d]
    BY Zenon, <1>2
  <2>2. f = [data |-> data, fresh |-> fresh, call |-> over, read |-> read]
    BY <1>1
  <2> HIDE DEF f
  <2>3. [f EXCEPT !.read = d] = [data |-> data, fresh |-> fresh, call |-> over, read |-> d]
    BY <2>2
  <2> QED
    BY <2>1, <2>3
<1>6. [e EXCEPT !.fresh = stale] = [data |-> data, fresh |-> stale, call |-> call, read |-> read]
  BY <1>1
<1> QED
  BY Zenon, <1>2, <1>3, <1>4, <1>5, <1>6 DEF data, fresh, call, read, asked, failed, over, stale

LEMMA EntryOKs ==
  ASSUME NEW k, NEW e, EntryOK(k, e)
  PROVE  EntryOK(k, Ask(e)) /\ EntryOK(k, Fail(e)) /\ EntryOK(k, [e EXCEPT !.fresh = FALSE])
<1>1. IsEntry(e) /\ Read(k, e.data) /\ Read(k, e.read) /\ Read(k, NoData)
  BY DEF EntryOK, IsEntry, Read
<1>2. EntryOK(k, [data |-> e.data, fresh |-> e.fresh, call |-> "asked", read |-> NoData])
  BY <1>1 DEF EntryOK
<1>3. EntryOK(k, [data |-> e.data, fresh |-> e.fresh, call |-> "failed", read |-> NoData])
  BY <1>1 DEF EntryOK
<1>4. EntryOK(k, [data |-> e.data, fresh |-> FALSE, call |-> e.call, read |-> e.read])
  BY <1>1 DEF EntryOK
<1> QED
  BY <1>1, <1>2, <1>3, <1>4, EntryShapes

LEMMA EntryRead ==
  ASSUME NEW k, NEW e, EntryOK(k, e), NEW d, Read(k, d)
  PROVE  EntryOK(k, Reads(e, d))
<1>1. IsEntry(e) /\ Read(k, e.data)
  BY DEF EntryOK, IsEntry
<1>2. EntryOK(k, [data |-> e.data, fresh |-> e.fresh, call |-> "read", read |-> d])
  BY <1>1 DEF EntryOK
<1> QED
  BY <1>1, <1>2, EntryShapes

LEMMA RefetchKeeps ==
  ASSUME NEW k, NEW e, EntryOK(k, e)
  PROVE  EntryOK(k, Refetch(e)) /\ EntryOK(k, Observe(e))
BY EntryOKs DEF Refetch, Observe

LEMMA OneEntry ==
  ASSUME NEW c, CacheOK(c), NEW k \in ItemKeys, NEW e, EntryOK(k, e)
  PROVE  CacheOK([c EXCEPT ![k] = e])
BY DEF CacheOK

LEMMA NavigateKeeps ==
  ASSUME NEW c, CacheOK(c), NEW st, Navigate(st, c)
  PROVE  itemStack' = st /\ CacheOK(itemCache')
<1>1. itemStack' = st /\ itemCache' = [k \in ItemKeys |-> IF k \in Mounting(st) THEN Observe(c[k]) ELSE c[k]]
  BY DEF Navigate
<1>2. ASSUME NEW k \in ItemKeys PROVE EntryOK(k, itemCache'[k])
  <2>1. EntryOK(k, c[k])
    BY DEF CacheOK
  <2>2. EntryOK(k, Observe(c[k]))
    BY <2>1, RefetchKeeps
  <2> QED
    BY <1>1, <2>1, <2>2
<1> QED
  BY <1>1, <1>2 DEF CacheOK

LEMMA ToldKeeps ==
  ASSUME CacheOK(itemCache), NEW h
  PROVE  CacheOK(Told(h))
<1> DEFINE c == invalidate(itemCache)
<1>1. c = [k \in ItemKeys |-> Invalidate(itemCache[k], k \in Mounted(itemStack))]
  BY DEF invalidate
<1>2. ASSUME NEW k \in ItemKeys PROVE EntryOK(k, c[k])
  <2> DEFINE stale == [itemCache[k] EXCEPT !.fresh = FALSE]
  <2>1. c[k] = Refetch(stale) \/ c[k] = stale
    <3> DEFINE mounted == k \in Mounted(itemStack)
    <3>1. c[k] = IF mounted THEN Refetch(stale) ELSE stale
      <4>1. Invalidate(itemCache[k], mounted) = IF mounted THEN Refetch(stale) ELSE stale
        BY Zenon DEF Invalidate
      <4> QED
        BY <1>1, <4>1
    <3> QED
      BY <3>1
  <2>2. EntryOK(k, stale)
    BY EntryOKs DEF CacheOK
  <2> HIDE DEF stale, c
  <2> QED
    BY <2>1, <2>2, RefetchKeeps
<1>3. DOMAIN c = ItemKeys
  BY <1>1
<1> HIDE DEF c
<1>4. CacheOK(c)
  BY <1>2, <1>3 DEF CacheOK
<1> QED
  BY <1>4 DEF Told, c

-----------------------------------------------------------------------------
(* What a screen's answer changes.                                          *)

Screens(st, p, ds) == StackOK(st) /\ PromptOK(p, st) /\ DraftsOK(ds)

LEMMA NobodyHere ==
  ASSUME NEW cs, NEW st, NEW p, HereOK(cs, st, p), AtTop(st).kind \notin Forms
  PROVE  \A h \in {"answer", "merge", "split"} : ~(cs[h].pc # "none" /\ cs[h].here)
BY DEF HereOK, Forms

LEMMA LeftHere ==
  ASSUME NEW c, NEW cs, RequestsOK(c, cs), NEW st, NEW p
  PROVE  HereOK(Left(cs), st, p)
BY LeftFades DEF HereOK

LEMMA EndedKeeps ==
  ASSUME RequestsOK(catalogue, calls), HereOK(calls, itemStack, prompt), NEW h \in ItemHooks
  PROVE  /\ RequestsOK(catalogue, ItemEnded(h)) /\ HereOK(ItemEnded(h), itemStack, prompt)
         /\ \A g \in ItemHooks \ {h} : ItemEnded(h)[g] = calls[g]
         /\ ItemEnded(h)[h].pc = "none"
<1> DEFINE e == Idle
<1>1. IsCall(e) /\ e.pc = "none"
  BY DEF Idle, IsCall
<1> HIDE DEF e
<1>2. RequestsOK(catalogue, [calls EXCEPT ![h] = e])
  BY <1>1, OneCall
<1>3. ItemEnded(h) = [calls EXCEPT ![h] = e]
  BY DEF ItemEnded, e
<1>4. ItemEnded(h)[h] = e /\ \A g \in ItemHooks \ {h} : ItemEnded(h)[g] = calls[g]
  BY <1>3 DEF RequestsOK
<1>5. HereOK(ItemEnded(h), itemStack, prompt)
  BY <1>1, <1>4 DEF HereOK, ItemHooks
<1> QED
  BY <1>1, <1>2, <1>3, <1>4, <1>5

LEMMA NoDrafts == DraftsOK(<<>>) /\ DraftsOK(<<NoDraft>>)
<1>1. IsSeq(<<>>) /\ Len(<<>>) = 0
  BY EmptyIsSeq
<1>2. DraftsOK(<<>>)
  BY <1>1 DEF DraftsOK
<1> DEFINE s == <<NoDraft>>
<1>3. s \in Seq({NoDraft}) /\ Len(s) = 1 /\ s[1] = NoDraft
  OBVIOUS
<1> HIDE DEF s
<1>4. IsSeq(s)
  BY <1>3, SeqIs
<1>5. DraftsOK(s)
  BY <1>3, <1>4 DEF DraftsOK, NoDraft
<1> QED
  BY <1>2, <1>5 DEF s

LEMMA NoPromptKeeps == ASSUME NEW st, AtTop(st).kind \notin Forms PROVE PromptOK(NoPrompt, st)
BY DEF PromptOK, NoPrompt, Forms, NoItem

\* The prompt's next question, or the end of it.
LEMMA AdvanceKeeps ==
  ASSUME StackOK(itemStack), PromptOK(prompt, itemStack), AtTop(itemStack).kind = "match",
         NEW into \in Items \cup {NoItem}, into # NoItem => prompt.item \in Items,
         NEW c, CacheOK(c), NEW cs, RequestsOK(catalogue, cs), HereOK(cs, itemStack, prompt),
         advance(into, c, cs)
  PROVE  /\ StackOK(itemStack') /\ PromptOK(prompt', itemStack') /\ CacheOK(itemCache')
         /\ RequestsOK(catalogue, calls') /\ HereOK(calls', itemStack', prompt')
         /\ \A h \in ItemHooks : calls'[h].pc = cs[h].pc
         /\ itemStack' # itemStack => itemStack' = Closed(into)
<1>1. AtTop(itemStack).kind \in Forms /\ prompt.item = AtTop(itemStack).item
  BY DEF Forms, PromptOK
<1>2. StackOK(Closed(into)) /\ AtTop(Closed(into)).kind \notin Forms
  BY <1>1, ClosedKeeps
<1>3. CASE LastOne
  <2>1. prompt' = NoPrompt /\ Navigate(Closed(into), c) /\ calls' = Left(cs)
    BY <1>3 DEF advance
  <2>2. itemStack' = Closed(into) /\ CacheOK(itemCache')
    BY <2>1, NavigateKeeps
  <2>3. PromptOK(NoPrompt, Closed(into))
    BY <1>2, NoPromptKeeps
  <2>4. RequestsOK(catalogue, Left(cs)) /\ \A h \in ItemHooks : Left(cs)[h].pc = cs[h].pc
    BY LeftFades
  <2>5. HereOK(Left(cs), itemStack', prompt')
    BY LeftHere
  <2> QED
    BY <1>2, <2>1, <2>2, <2>3, <2>4, <2>5
<1>4. CASE ~LastOne
  <2> DEFINE at == prompt.at + 1
  <2>1. /\ prompt' = [prompt EXCEPT !.at = at, !.failed = FALSE, !.into = into]
        /\ itemCache' = c /\ calls' = cs /\ itemStack' = itemStack
    BY <1>4 DEF advance
  <2> HIDE DEF at
  <2>2. prompt' = [item |-> prompt.item, start |-> prompt.start, loaded |-> prompt.loaded, queue |-> prompt.queue,
                   at |-> at, failed |-> FALSE, into |-> into]
    BY <2>1 DEF PromptOK
  <2>3. PromptOK(prompt', itemStack)
    BY <1>1, <2>2 DEF PromptOK
  <2>4. HereOK(cs, itemStack, prompt')
    BY <2>2 DEF HereOK
  <2> QED
    BY <2>1, <2>3, <2>4
<1> QED
  BY <1>3, <1>4

-----------------------------------------------------------------------------
(* Screens are opened and left.                                             *)

LEMMA TopIs == Top = AtTop(itemStack) /\ Popped = Front(itemStack)
BY LastIs DEF Top, AtTop, Popped

LEMMA Pushed ==
  ASSUME ItemsInv, NEW s, IsScreen(s), s.kind \in Kinds \ {"list"},
         s.kind \in {"detail", "merge", "split"} => s.item \in Items, Over(s, AtTop(itemStack)),
         AtTop(itemStack).kind \notin Forms, Navigate(Push(s), itemCache),
         catalogue' = catalogue, calls' = calls, DraftsOK(drafts'), PromptOK(prompt', Append(itemStack, s))
  PROVE  ItemsInv'
<1>1. itemStack' = Append(itemStack, s) /\ CacheOK(itemCache')
  BY NavigateKeeps DEF ItemsInv, Push
<1>2. StackOK(itemStack')
  BY <1>1, PushKeeps DEF ItemsInv
<1>3. HereOK(calls, itemStack', prompt')
  BY NobodyHere DEF HereOK, ItemsInv
<1> QED
  BY <1>1, <1>2, <1>3 DEF ItemsInv

LEMMA SamePrompt ==
  ASSUME NEW p, NEW st, PromptOK(p, st), NEW t, AtTop(t).kind # "match"
  PROVE  PromptOK(p, t)
BY DEF PromptOK

LEMMA OpenItemKeeps ==
  ASSUME ItemsInv, NEW i \in Items, OpenItem(i)
  PROVE  ItemsInv'
<1> DEFINE s == Detail(i)
<1>1. /\ AtTop(itemStack).kind = "list" /\ Navigate(Push(s), itemCache)
      /\ catalogue' = catalogue /\ calls' = calls /\ drafts' = drafts /\ prompt' = prompt
  BY TopIs DEF OpenItem, ListOffers, forms, Screen, Detail
<1>2. IsScreen(s) /\ s.kind = "detail" /\ s.item = i
  BY DEF IsScreen, Detail
<1> HIDE DEF s
<1>3. Over(s, AtTop(itemStack)) /\ s.kind \in Kinds \ {"list"} /\ AtTop(itemStack).kind \notin Forms
  BY <1>1, <1>2 DEF Over, Kinds, Forms
<1>4. PromptOK(prompt, Append(itemStack, s))
  BY <1>1, <1>2, <1>3, PushKeeps, SamePrompt DEF ItemsInv
<1> QED
  BY <1>1, <1>2, <1>3, <1>4, Pushed DEF ItemsInv

LEMMA OpenMatchesKeeps ==
  ASSUME ItemsInv, OpenMatches
  PROVE  ItemsInv'
<1> DEFINE s == [kind |-> "matches", item |-> NoItem]
<1>1. /\ AtTop(itemStack).kind = "list" /\ Navigate(Push(s), itemCache)
      /\ catalogue' = catalogue /\ calls' = calls /\ drafts' = drafts /\ prompt' = prompt
  BY TopIs DEF OpenMatches, forms, Screen
<1>2. IsScreen(s) /\ s.kind = "matches"
  BY DEF IsScreen
<1> HIDE DEF s
<1>3. Over(s, AtTop(itemStack)) /\ s.kind \in Kinds \ {"list"} /\ AtTop(itemStack).kind \notin Forms
  BY <1>1, <1>2 DEF Over, Kinds, Forms
<1>4. PromptOK(prompt, Append(itemStack, s))
  BY <1>1, <1>2, <1>3, PushKeeps, SamePrompt DEF ItemsInv
<1> QED
  BY <1>1, <1>2, <1>3, <1>4, Pushed DEF ItemsInv

\* A detail is of an item.
LEMMA DetailIs ==
  ASSUME ItemsInv, AtTop(itemStack).kind \in {"detail", "merge", "split"}
  PROVE  AtTop(itemStack).item \in Items /\ AtTop(itemStack) = [kind |-> AtTop(itemStack).kind, item |-> AtTop(itemStack).item]
<1>1. Len(itemStack) \in 1 .. Len(itemStack)
  BY SeqIs DEF ItemsInv, StackOK, IsSeq
<1> QED
  BY <1>1 DEF ItemsInv, StackOK, AtTop

LEMMA OpenFormKeeps ==
  ASSUME ItemsInv, OpenLink \/ OpenSplit
  PROVE  ItemsInv'
<1>1. PICK kind \in {"merge", "split"} :
        /\ AtTop(itemStack).kind = "detail" /\ Navigate(Push([kind |-> kind, item |-> AtTop(itemStack).item]), itemCache)
        /\ catalogue' = catalogue /\ calls' = calls /\ prompt' = prompt /\ (drafts' = drafts \/ drafts' = <<NoDraft>>)
  BY TopIs DEF OpenLink, OpenSplit, DetailOffers, Screen
<1> DEFINE s == [kind |-> kind, item |-> AtTop(itemStack).item]
<1>2. IsScreen(s) /\ s.kind = kind /\ s.item = AtTop(itemStack).item
  BY DEF IsScreen
<1>3. s.item \in Items /\ AtTop(itemStack) = [kind |-> "detail", item |-> s.item]
  BY <1>1, <1>2, DetailIs
<1>4. Navigate(Push(s), itemCache)
  BY <1>1
<1> HIDE DEF s
<1>5. Over(s, AtTop(itemStack)) /\ s.kind \in Kinds \ {"list"} /\ AtTop(itemStack).kind \notin Forms /\ s.kind # "match"
  BY <1>1, <1>2, <1>3 DEF Over, Kinds, Forms
<1>6. PromptOK(prompt, Append(itemStack, s))
  BY <1>2, <1>3, <1>5, PushKeeps, SamePrompt DEF ItemsInv
<1>7. DraftsOK(drafts')
  BY <1>1, NoDrafts DEF ItemsInv
<1> QED
  BY <1>1, <1>2, <1>3, <1>4, <1>5, <1>6, <1>7, Pushed DEF ItemsInv

LEMMA PromptedIs ==
  ASSUME NEW i, NEW start, NEW data, NEW st, AtTop(st).kind = "match" => AtTop(st).item = i
  PROVE  PromptOK(Prompted(i, start, data), st) /\ Prompted(i, start, data).item = i
<1> DEFINE queue == queueOf(data, i, start)
           p == Prompted(i, start, data)
<1>1. p = IF data = NoData THEN [NoPrompt EXCEPT !.item = i, !.start = start]
          ELSE [NoPrompt EXCEPT !.item = i, !.start = start, !.loaded = TRUE, !.queue = queue]
  BY DEF Prompted
<1> HIDE DEF queue, p
<1>2. \/ p = [item |-> i, start |-> start, loaded |-> FALSE, queue |-> <<>>, at |-> 1, failed |-> FALSE, into |-> NoItem]
      \/ p = [item |-> i, start |-> start, loaded |-> TRUE, queue |-> queue, at |-> 1, failed |-> FALSE, into |-> NoItem]
  BY <1>1 DEF NoPrompt
<1>3. PromptOK(p, st) /\ p.item = i
  BY <1>2 DEF PromptOK
<1> QED
  BY <1>3 DEF p

LEMMA onReviewKeeps ==
  ASSUME ItemsInv, NEW q \in Questions, onReview(q)
  PROVE  ItemsInv'
<1> DEFINE i == IF AtTop(itemStack).kind = "detail" THEN AtTop(itemStack).item ELSE NoItem
           s == [kind |-> "match", item |-> i]
           d == Data(Matches)
<1>1. /\ AtTop(itemStack).kind \in {"matches", "detail"}
      /\ prompt' = Prompted(i, q, d) /\ Navigate(Push(s), itemCache)
      /\ catalogue' = catalogue /\ calls' = calls /\ drafts' = drafts
  BY TopIs DEF onReview, MatchesOffers, DetailOffers, Screen
<1>2. IsScreen(s) /\ s.kind = "match" /\ s.item = i
  BY DEF IsScreen
<1>3. Over(s, AtTop(itemStack))
  <2>1. CASE AtTop(itemStack).kind = "detail"
    <3>1. i \in Items /\ AtTop(itemStack) = [kind |-> "detail", item |-> i]
      BY <2>1, DetailIs
    <3> QED
      BY <1>2, <3>1 DEF Over
  <2>2. CASE AtTop(itemStack).kind = "matches"
    <3>1. i = NoItem
      BY <2>2
    <3> QED
      BY <1>2, <2>2, <3>1 DEF Over
  <2> QED
    BY <1>1, <2>1, <2>2
<1> HIDE DEF s, i, d
<1>4. s.kind \in Kinds \ {"list"} /\ AtTop(itemStack).kind \notin Forms
  BY <1>1, <1>2 DEF Kinds, Forms
<1>5. AtTop(Append(itemStack, s)) = s
  BY <1>2, <1>3, <1>4, PushKeeps DEF ItemsInv
<1>6. PromptOK(prompt', Append(itemStack, s))
  BY <1>1, <1>2, <1>5, PromptedIs
<1> QED
  BY <1>1, <1>2, <1>3, <1>4, <1>6, Pushed DEF ItemsInv

LEMMA BackKeeps ==
  ASSUME ItemsInv, Back
  PROVE  ItemsInv' /\ \A h \in ItemHooks : calls'[h].pc = calls[h].pc
<1> DEFINE st == Front(itemStack)
<1>1. /\ Len(itemStack) > 1 /\ Navigate(st, itemCache) /\ calls' = Left(calls) /\ drafts' = <<>>
      /\ catalogue' = catalogue /\ prompt' = prompt
  BY TopIs DEF Back
<1>2. StackOK(st) /\ AtTop(st).kind \notin Forms
  BY <1>1, PopKeeps DEF ItemsInv
<1> HIDE DEF st
<1>3. itemStack' = st /\ CacheOK(itemCache')
  BY <1>1, NavigateKeeps DEF ItemsInv
<1>4. RequestsOK(catalogue, calls') /\ \A h \in ItemHooks : calls'[h].pc = calls[h].pc
  BY <1>1, LeftFades DEF ItemsInv
<1>5. HereOK(calls', itemStack', prompt')
  BY <1>1, LeftHere DEF ItemsInv
<1>6. PromptOK(prompt, st)
  BY <1>2, SamePrompt DEF ItemsInv, Forms
<1> QED
  BY <1>1, <1>2, <1>3, <1>4, <1>5, <1>6, NoDrafts DEF ItemsInv

\* The prompt is left.
LEMMA PromptLeft ==
  ASSUME ItemsInv, AtTop(itemStack).kind = "match", NEW into \in {NoItem, prompt.into},
         prompt' = NoPrompt, Navigate(Closed(into), itemCache), calls' = Left(calls),
         catalogue' = catalogue, drafts' = drafts
  PROVE  ItemsInv' /\ \A h \in ItemHooks : calls'[h].pc = calls[h].pc
<1>1. into \in Items \cup {NoItem} /\ (into # NoItem => AtTop(itemStack).item \in Items)
  BY DEF ItemsInv, PromptOK
<1>2. StackOK(Closed(into)) /\ AtTop(Closed(into)).kind \notin Forms
  BY <1>1, ClosedKeeps DEF ItemsInv, Forms
<1>3. itemStack' = Closed(into) /\ CacheOK(itemCache')
  BY NavigateKeeps DEF ItemsInv
<1>4. RequestsOK(catalogue, calls') /\ \A h \in ItemHooks : calls'[h].pc = calls[h].pc
  BY LeftFades DEF ItemsInv
<1>5. HereOK(calls', itemStack', prompt')
  BY LeftHere DEF ItemsInv
<1>6. PromptOK(prompt', itemStack')
  BY <1>2, <1>3, NoPromptKeeps
<1> QED
  BY <1>2, <1>3, <1>4, <1>5, <1>6 DEF ItemsInv

LEMMA CancelKeeps ==
  ASSUME ItemsInv, Cancel \/ CloseEmpty
  PROVE  ItemsInv' /\ \A h \in ItemHooks : calls'[h].pc = calls[h].pc
<1>1. CASE Cancel
  BY <1>1, TopIs, PromptLeft DEF Cancel
<1>2. CASE CloseEmpty
  <2>1. Closed(NoItem) = Popped
    BY DEF Closed
  <2> QED
    BY <1>2, <2>1, TopIs, PromptLeft DEF CloseEmpty
<1> QED
  BY <1>1, <1>2

LEMMA SkipKeeps ==
  ASSUME ItemsInv, Skip
  PROVE  ItemsInv' /\ \A h \in ItemHooks : calls'[h].pc = calls[h].pc
<1>1. AtTop(itemStack).kind = "match" /\ advance(prompt.into, itemCache, calls) /\ catalogue' = catalogue /\ drafts' = drafts
  BY TopIs DEF Skip, Asking
<1>2. prompt.into \in Items \cup {NoItem} /\ (prompt.into # NoItem => prompt.item \in Items)
  BY DEF ItemsInv, PromptOK
<1> QED
  BY <1>1, <1>2, AdvanceKeeps DEF ItemsInv

-----------------------------------------------------------------------------
(* Reads.                                                                   *)

LEMMA TruthRead ==
  ASSUME NEW c, CatalogueOK(c), NEW k \in ItemKeys, Readable(c, k)
  PROVE  Read(k, Truth(c, k))
<1> SUFFICES ASSUME k \in Items PROVE Truth(c, k).lines # {} \/ Truth(c, k).names # {}
  BY DEF Read
<1>1. k # ItemList /\ k # Matches
  BY ItemsAssumption DEF Items, ItemList, Matches
<1>2. HasRows(c, k)
  <2>1. k \in c.alive
    BY ItemsAssumption DEF Readable, Items
  <2> QED
    BY <2>1 DEF CatalogueOK
<1>3. /\ Truth(c, k).lines = LinesOf(c, k) /\ Truth(c, k).names = NamesOf(c, k)
  BY <1>1 DEF Truth
<1> QED
  BY <1>2, <1>3 DEF HasRows

LEMMA CacheOnly ==
  ASSUME ItemsInv, NEW k \in ItemKeys, NEW e, EntryOK(k, e), itemCache' = [itemCache EXCEPT ![k] = e],
         catalogue' = catalogue, calls' = calls, itemStack' = itemStack, drafts' = drafts, prompt' = prompt
  PROVE  ItemsInv'
BY OneEntry DEF ItemsInv

LEMMA ReadKeeps ==
  ASSUME ItemsInv, NEW k \in ItemKeys, ItemRetry(k) \/ ServeRead(k) \/ ReadLost(k)
  PROVE  ItemsInv'
<1>1. EntryOK(k, itemCache[k])
  BY DEF ItemsInv, CacheOK
<1>2. catalogue' = catalogue /\ calls' = calls /\ itemStack' = itemStack /\ drafts' = drafts /\ prompt' = prompt
  BY DEF ItemRetry, ServeRead, ReadLost, forms
<1>3. CASE ItemRetry(k)
  <2> DEFINE e == Refetch(itemCache[k])
  <2>1. itemCache' = [itemCache EXCEPT ![k] = e] /\ EntryOK(k, e)
    BY <1>1, <1>3, RefetchKeeps DEF ItemRetry
  <2> QED
    BY <1>2, <2>1, CacheOnly
<1>4. CASE ServeRead(k)
  <2> DEFINE e == IF Readable(catalogue, k) THEN Reads(itemCache[k], Truth(catalogue, k)) ELSE Fail(itemCache[k])
  <2>1. itemCache' = [itemCache EXCEPT ![k] = e]
    BY <1>4 DEF ServeRead
  <2>2. EntryOK(k, e)
    BY <1>1, TruthRead, EntryRead, EntryOKs DEF ItemsInv
  <2> HIDE DEF e
  <2> QED
    BY <1>2, <2>1, <2>2, CacheOnly
<1>5. CASE ReadLost(k)
  <2> DEFINE e == Fail(itemCache[k])
  <2>1. itemCache' = [itemCache EXCEPT ![k] = e] /\ EntryOK(k, e)
    BY <1>1, <1>5, EntryOKs DEF ReadLost
  <2> QED
    BY <1>2, <2>1, CacheOnly
<1> QED
  BY <1>3, <1>4, <1>5

LEMMA ArrivedKeeps ==
  ASSUME NEW k, NEW e, EntryOK(k, e), NEW fresh
  PROVE  EntryOK(k, [Arrived(e) EXCEPT !.fresh = fresh])
<1> DEFINE data == e.read
           none == "none"
           yes == TRUE
           a == Arrived(e)
<1>1. a = [data |-> data, fresh |-> yes, call |-> none, read |-> NoData] /\ Read(k, data) /\ Read(k, NoData)
  BY DEF Arrived, Loaded, EntryOK, Read
<1> HIDE DEF data, none, yes, a
<1>2. [a EXCEPT !.fresh = fresh] = [data |-> data, fresh |-> fresh, call |-> none, read |-> NoData]
  BY <1>1
<1>3. EntryOK(k, [data |-> data, fresh |-> fresh, call |-> none, read |-> NoData])
  BY <1>1 DEF EntryOK
<1> QED
  BY <1>2, <1>3 DEF a

LEMMA ReadAnsweredKeeps ==
  ASSUME ItemsInv, NEW k \in ItemKeys, ReadAnswered(k)
  PROVE  ItemsInv'
<1> DEFINE fresh == k = ItemList \/ k > MaxItems
           e == [Arrived(itemCache[k]) EXCEPT !.fresh = fresh]
<1>1. itemCache' = [itemCache EXCEPT ![k] = e]
  BY DEF ReadAnswered
<1> HIDE DEF fresh
<1>2. EntryOK(k, e)
  BY ArrivedKeeps DEF ItemsInv, CacheOK
<1> HIDE DEF e
<1>3. CacheOK(itemCache')
  BY <1>1, <1>2, OneEntry DEF ItemsInv
<1>4. /\ catalogue' = catalogue /\ itemStack' = itemStack /\ drafts' = drafts /\ calls' = calls
      /\ prompt' = prompt \/ prompt' = Prompted(prompt.item, prompt.start, itemCache[k].read)
  BY DEF ReadAnswered
<1>5. AtTop(itemStack).kind = "match" => AtTop(itemStack).item = prompt.item
  BY DEF ItemsInv, PromptOK
<1>6. PromptOK(prompt', itemStack) /\ prompt'.item = prompt.item
  BY <1>4, <1>5, PromptedIs DEF ItemsInv
<1>7. HereOK(calls, itemStack, prompt')
  BY <1>6 DEF HereOK, ItemsInv
<1> QED
  BY <1>3, <1>4, <1>6, <1>7 DEF ItemsInv

LEMMA ElapseKeeps ==
  ASSUME ItemsInv, Elapse
  PROVE  ItemsInv'
<1>1. /\ itemCache' = [k \in ItemKeys |-> [itemCache[k] EXCEPT !.fresh = FALSE]]
      /\ catalogue' = catalogue /\ calls' = calls /\ itemStack' = itemStack /\ drafts' = drafts /\ prompt' = prompt
  BY DEF Elapse, forms
<1>2. ASSUME NEW k \in ItemKeys PROVE EntryOK(k, itemCache'[k])
  <2>1. EntryOK(k, itemCache[k])
    BY DEF ItemsInv, CacheOK
  <2> DEFINE e == itemCache[k]
             stale == [e EXCEPT !.fresh = FALSE]
  <2>2. itemCache'[k] = stale
    BY <1>1
  <2> HIDE DEF e
  <2>3. EntryOK(k, stale)
    BY <2>1, EntryOKs DEF e
  <2> HIDE DEF stale
  <2> QED
    BY <2>2, <2>3
<1>3. CacheOK(itemCache')
  BY <1>1, <1>2 DEF CacheOK
<1> QED
  BY <1>1, <1>3 DEF ItemsInv

-----------------------------------------------------------------------------
(* The forms.                                                               *)

LEMMA PickKeeps ==
  ASSUME ItemsInv, NEW i, Pick(i)
  PROVE  ItemsInv'
BY DEF Pick, ItemsInv

LEMMA DraftsOnly ==
  ASSUME ItemsInv, NEW ds, DraftsOK(ds), EditDrafts(ds)
  PROVE  ItemsInv'
BY DEF EditDrafts, ItemsInv

Draft(d) == d = [name |-> d.name, lines |-> d.lines] /\ d.lines \subseteq Lines

LEMMA MovedKeeps ==
  ASSUME ItemsInv, NEW l \in Lines, NEW k, move(l, k)
  PROVE  ItemsInv'
<1> DEFINE Moved(n) == LET without == drafts[n].lines \ {l} IN
               IF n # k THEN [drafts[n] EXCEPT !.lines = without]
               ELSE [name |-> IF drafts[n].name \in {"typed", "erased"} \/ without # {} THEN drafts[n].name ELSE "filled",
                     lines |-> without \cup {l}]
           es == [n \in 1 .. Len(drafts) |-> Moved(n)]
<1>1. EditDrafts(es)
  BY DEF move
<1>2. ASSUME NEW n \in 1 .. Len(drafts)
      PROVE  /\ Draft(es[n])
             /\ es[n].lines = IF n = k THEN (drafts[n].lines \ {l}) \cup {l} ELSE drafts[n].lines \ {l}
  <2> DEFINE name == drafts[n].name
             lines == drafts[n].lines
             without == lines \ {l}
             other == IF name \in {"typed", "erased"} \/ without # {} THEN name ELSE "filled"
  <2>1. drafts[n] = [name |-> name, lines |-> lines] /\ lines \subseteq Lines
    BY DEF ItemsInv, DraftsOK
  <2>2. es[n] = Moved(n)
    OBVIOUS
  <2>3. CASE n = k
    <3>1. es[n] = [name |-> other, lines |-> without \cup {l}]
      BY <2>2, <2>3
    <3> HIDE DEF es, Moved, name, other
    <3> QED
      BY <2>1, <2>3, <3>1 DEF Draft
  <2>4. CASE n # k
    <3>1. es[n] = [drafts[n] EXCEPT !.lines = without]
      BY <2>2, <2>4
    <3> HIDE DEF es, Moved, name, lines, without, other
    <3>2. es[n] = [name |-> name, lines |-> without]
      BY <2>1, <3>1
    <3> QED
      BY <2>1, <2>4, <3>2 DEF Draft, without, lines
  <2> QED
    BY <2>3, <2>4
<1>3. es = [n \in 1 .. Len(drafts) |-> es[n]]
  OBVIOUS
<1> HIDE DEF es, Moved
<1>4. DraftsOK(drafts) /\ Len(drafts) \in Nat
  BY SeqIs DEF ItemsInv, DraftsOK, IsSeq
<1>5. IsSeq(es) /\ Len(es) = Len(drafts)
  BY <1>3, <1>4, IsSeqOf
<1>6. ASSUME NEW n \in 1 .. Len(drafts), NEW m \in 1 .. Len(drafts), n # m
      PROVE  es[n].lines \cap es[m].lines = {}
  <2>1. drafts[n].lines \cap drafts[m].lines = {}
    BY <1>4, <1>6 DEF DraftsOK
  <2>2. es[n].lines = IF n = k THEN (drafts[n].lines \ {l}) \cup {l} ELSE drafts[n].lines \ {l}
    BY <1>2
  <2>3. es[m].lines = IF m = k THEN (drafts[m].lines \ {l}) \cup {l} ELSE drafts[m].lines \ {l}
    BY <1>2
  <2> QED
    BY <1>6, <2>1, <2>2, <2>3
<1>7. DraftsOK(es)
  BY <1>2, <1>5, <1>6 DEF DraftsOK, Draft
<1> QED
  BY <1>1, <1>7, DraftsOnly

LEMMA DraftKeeps ==
  ASSUME ItemsInv, \/ AddDraft
                   \/ \E k \in 1 .. Len(drafts) : RemoveDraft(k) \/ (\E name \in {"typed", "erased"} : TypeName(k, name))
                   \/ \E l \in Lines : onLine(l)
  PROVE  ItemsInv'
<1>1. DraftsOK(drafts) /\ IsSeq(drafts) /\ Len(drafts) \in Nat
  BY SeqIs DEF ItemsInv, DraftsOK, IsSeq
<1>2. CASE AddDraft
  <2> DEFINE es == Append(drafts, NoDraft)
  <2>1. /\ IsSeq(es) /\ Len(es) = Len(drafts) + 1
        /\ \A n \in 1 .. Len(drafts) + 1 : es[n] = IF n <= Len(drafts) THEN drafts[n] ELSE NoDraft
    BY <1>1, LongerSeq
  <2>2. EditDrafts(es)
    BY <1>2 DEF AddDraft
  <2> HIDE DEF es
  <2> DEFINE none == NoDraft
  <2>3. none = [name |-> none.name, lines |-> none.lines] /\ none.lines = {}
    BY DEF NoDraft
  <2>4. \A n \in 1 .. Len(drafts) + 1 : es[n] = IF n <= Len(drafts) THEN drafts[n] ELSE none
    BY <2>1
  <2> HIDE DEF none
  <2>5. \A n \in 1 .. Len(es) : (n \in 1 .. Len(drafts) /\ es[n] = drafts[n]) \/ es[n] = none
    BY <1>1, <2>1, <2>4
  <2>6. ASSUME NEW n \in 1 .. Len(es)
        PROVE  es[n] = [name |-> es[n].name, lines |-> es[n].lines] /\ es[n].lines \subseteq Lines
    BY <1>1, <2>3, <2>5 DEF DraftsOK
  <2>7. ASSUME NEW j \in 1 .. Len(es), NEW n \in 1 .. Len(es), j # n PROVE es[j].lines \cap es[n].lines = {}
    BY <1>1, <2>3, <2>5, <2>7 DEF DraftsOK
  <2>8. DraftsOK(es)
    BY <2>1, <2>6, <2>7 DEF DraftsOK
  <2> QED
    BY <2>2, <2>8, DraftsOnly
<1>3. ASSUME NEW k \in 1 .. Len(drafts), RemoveDraft(k) PROVE ItemsInv'
  <2> DEFINE es == Without(drafts, k)
  <2>1. /\ IsSeq(es) /\ Len(es) = Len(drafts) - 1
        /\ \A n \in 1 .. Len(drafts) - 1 : es[n] = IF n < k THEN drafts[n] ELSE drafts[n + 1]
    BY <1>1, ShorterSeq
  <2>2. EditDrafts(es)
    BY <1>3 DEF RemoveDraft, RemoveAt, Without
  <2> HIDE DEF es
  <2>3. DraftsOK(es)
    <3> DEFINE From(n) == IF n < k THEN n ELSE n + 1
    <3>1. \A n \in 1 .. Len(es) : From(n) \in 1 .. Len(drafts) /\ es[n] = drafts[From(n)]
      BY <1>1, <2>1
    <3>2. \A j, n \in 1 .. Len(es) : j # n => From(j) # From(n)
      BY <1>1, <2>1
    <3> HIDE DEF From
    <3>3. \A n \in 1 .. Len(es) : es[n] = [name |-> es[n].name, lines |-> es[n].lines] /\ es[n].lines \subseteq Lines
      BY <1>1, <3>1 DEF DraftsOK
    <3>4. \A j, n \in 1 .. Len(es) : j # n => es[j].lines \cap es[n].lines = {}
      BY <1>1, <3>1, <3>2 DEF DraftsOK
    <3> QED
      BY <2>1, <3>3, <3>4 DEF DraftsOK
  <2> QED
    BY <2>2, <2>3, DraftsOnly
<1>4. ASSUME NEW k \in 1 .. Len(drafts), NEW name \in {"typed", "erased"}, TypeName(k, name) PROVE ItemsInv'
  <2> DEFINE lines == drafts[k].lines
             d == [drafts[k] EXCEPT !.name = name]
             es == [drafts EXCEPT ![k] = d]
  <2>1. drafts[k] = [name |-> drafts[k].name, lines |-> lines] /\ lines \subseteq Lines
    BY <1>1 DEF DraftsOK
  <2>2. EditDrafts(es)
    BY <1>4 DEF TypeName
  <2>3. drafts = [n \in 1 .. Len(drafts) |-> drafts[n]]
    BY <1>1 DEF IsSeq
  <2>4. d = [name |-> name, lines |-> lines]
    <3> DEFINE was == drafts[k].name
               o == drafts[k]
    <3>1. o = [name |-> was, lines |-> lines]
      BY <2>1
    <3> HIDE DEF was, lines, o
    <3>2. [o EXCEPT !.name = name] = [name |-> name, lines |-> lines]
      BY <3>1
    <3> QED
      BY <3>2 DEF o
  <2> HIDE DEF d
  <2>5. es = [n \in 1 .. Len(drafts) |-> es[n]] /\ \A n \in 1 .. Len(drafts) : es[n] = IF n = k THEN d ELSE drafts[n]
    BY <2>3
  <2> HIDE DEF es, lines
  <2>6. IsSeq(es) /\ Len(es) = Len(drafts)
    BY <1>1, <2>5, IsSeqOf
  <2>7. d.lines = lines /\ d = [name |-> d.name, lines |-> d.lines]
    BY <2>4
  <2>8. \A n \in 1 .. Len(drafts) : es[n] = [name |-> es[n].name, lines |-> es[n].lines] /\ es[n].lines = drafts[n].lines
    <3> SUFFICES ASSUME NEW n \in 1 .. Len(drafts)
                 PROVE  es[n] = [name |-> es[n].name, lines |-> es[n].lines] /\ es[n].lines = drafts[n].lines
      OBVIOUS
    <3>1. CASE n = k
      BY <2>5, <2>7, <3>1 DEF lines
    <3>2. CASE n # k
      BY <1>1, <2>5, <3>2 DEF DraftsOK
    <3> QED
      BY <3>1, <3>2
  <2>9. DraftsOK(es)
    BY <1>1, <2>6, <2>8 DEF DraftsOK
  <2> QED
    BY <2>2, <2>9, DraftsOnly
<1>5. ASSUME NEW l \in Lines, onLine(l) PROVE ItemsInv'
  <2>1. PICK k : move(l, k)
    BY <1>5 DEF onLine
  <2> QED
    BY <2>1, MovedKeeps
<1> QED
  BY <1>2, <1>3, <1>4, <1>5

\* What is shown as the server has it is shown of an item that is.
LEMMA ShownAlive ==
  ASSUME ItemsInv, NEW i \in Items, Has(i), Data(i) = Truth(catalogue, i)
  PROVE  /\ i \in catalogue.alive /\ Data(i).names = NamesOf(catalogue, i)
         /\ Data(i).lines = LinesOf(catalogue, i)
<1>1. i # ItemList /\ i # Matches /\ i \in ItemKeys
  BY ItemsAssumption DEF Items, ItemList, Matches, ItemKeys
<1>2. Data(i).names = NamesOf(catalogue, i) /\ Data(i).lines = LinesOf(catalogue, i)
  BY <1>1 DEF Truth
<1>3. Data(i).lines # {} \/ Data(i).names # {}
  BY <1>1 DEF ItemsInv, CacheOK, EntryOK, Read, Data, Has
<1>4. CatalogueOK(catalogue)
  BY DEF ItemsInv
<1> QED
  BY <1>2, <1>3, <1>4 DEF CatalogueOK, LinesOf, NamesOf

-----------------------------------------------------------------------------
(* Calls are sent.                                                          *)

Plain(what) == what \in {"rename", "alias", "accept", "reject", "merge"}
Hook(what) == IF what \in {"accept", "reject"} THEN "answer" ELSE what

LEMMA CallIs ==
  ASSUME NEW what, NEW i, NEW with
  PROVE  ItemCall(what, i, with) =
            [pc |-> "none", what |-> what, item |-> i, with |-> with, parts |-> <<>>, here |-> FALSE,
             alone |-> FALSE, fair |-> FALSE, result |-> NoItem]
<1> DEFINE none == "none"
           no == FALSE
           parts == <<>>
           c == ItemCall(what, i, with)
<1>1. Idle = [pc |-> none, what |-> none, item |-> NoItem, with |-> 0, parts |-> parts, here |-> no,
                alone |-> no, fair |-> no, result |-> NoItem]
  BY DEF Idle
<1>2. c = [Idle EXCEPT !.what = what, !.item = i, !.with = with]
  BY DEF ItemCall
<1> HIDE DEF none, no, parts, c
<1>3. c = [pc |-> none, what |-> what, item |-> i, with |-> with, parts |-> parts, here |-> no,
           alone |-> no, fair |-> no, result |-> NoItem]
  BY <1>1, <1>2
<1> QED
  BY <1>3 DEF none, no, parts, c

LEMMA PlainRequest ==
  ASSUME NEW h, NEW r, r.parts = <<>>, Plain(r.what), h = Hook(r.what), h = "alias" => r.with \in Receiptnames
  PROVE  RequestOK(h, r)
<1>1. IsSeq(r.parts) /\ Len(r.parts) = 0
  BY EmptyIsSeq
<1>2. Apart(r.parts)
  BY <1>1 DEF Apart
<1> QED
  BY <1>1, <1>2 DEF RequestOK, Plain, Hook

LEMMA SentKeeps ==
  ASSUME ItemsInv, NEW h \in ItemHooks, calls[h].pc = "none", NEW r, Start(h, r), IsCall(r), RequestOK(h, r),
         r.fair => ItemAccepts(catalogue, r), h \in {"answer", "merge", "split"} => AtTop(itemStack).kind = IF h = "answer" THEN "match" ELSE h,
         h = "answer" => r.item = prompt.item,
         catalogue' = catalogue, itemCache' = itemCache, itemStack' = itemStack, drafts' = drafts, prompt' = prompt
  PROVE  ItemsInv'
<1>1. /\ RequestsOK(catalogue, calls') /\ calls'[h].item = r.item
      /\ \A g \in ItemHooks \ {h} : calls'[g].pc = calls[g].pc /\ calls'[g].here = calls[g].here /\ calls'[g].item = calls[g].item
  BY StartKeeps DEF ItemsInv
<1>2. HereOK(calls', itemStack, prompt)
  <2>1. HereOK(calls, itemStack, prompt)
    BY DEF ItemsInv
  <2>2. ASSUME NEW g \in {"answer", "merge", "split"}, calls'[g].pc # "none" /\ calls'[g].here
        PROVE  /\ AtTop(itemStack).kind = IF g = "answer" THEN "match" ELSE g
               /\ g = "answer" => calls'[g].item = prompt.item
    <3>1. CASE g = h
      BY <1>1, <3>1
    <3>2. CASE g # h
      BY <1>1, <2>1, <2>2, <3>2 DEF HereOK, ItemHooks
    <3> QED
      BY <3>1, <3>2
  <2> QED
    BY <2>2 DEF HereOK
<1> QED
  BY <1>1, <1>2 DEF ItemsInv

\* A call that names no lines.
LEMMA PlainSent ==
  ASSUME ItemsInv, NEW what, Plain(what), NEW i, NEW with, NEW fair,
         NEW h \in ItemHooks, h = Hook(what), calls[h].pc = "none",
         Start(h, [ItemCall(what, i, with) EXCEPT !.fair = fair]),
         what = "alias" => with \in Receiptnames,
         h \in {"answer", "merge", "split"} => AtTop(itemStack).kind = IF h = "answer" THEN "match" ELSE h,
         h = "answer" => i = prompt.item,
         catalogue' = catalogue, itemCache' = itemCache, itemStack' = itemStack, drafts' = drafts, prompt' = prompt,
         fair => CASE what \in {"accept", "reject"} -> with \in Open(catalogue)
                   [] what = "merge" -> i \in catalogue.alive /\ with \in catalogue.alive /\ i # with
                   [] what = "rename" -> i \in catalogue.alive
                   [] OTHER -> i \in catalogue.alive /\ catalogue.name[with] = i /\ Cardinality(NamesOf(catalogue, i)) > 1
  PROVE  ItemsInv'
<1> DEFINE r == [ItemCall(what, i, with) EXCEPT !.fair = fair]
<1>1. r = [pc |-> "none", what |-> what, item |-> i, with |-> with, parts |-> <<>>, here |-> FALSE,
           alone |-> FALSE, fair |-> fair, result |-> NoItem]
  <2> DEFINE none == "none"
             no == FALSE
             parts == <<>>
             c == ItemCall(what, i, with)
  <2>1. c = [pc |-> none, what |-> what, item |-> i, with |-> with, parts |-> parts, here |-> no,
             alone |-> no, fair |-> no, result |-> NoItem]
    BY CallIs
  <2>2. r = [c EXCEPT !.fair = fair]
    OBVIOUS
  <2> HIDE DEF none, no, parts, c, r
  <2>3. r = [pc |-> none, what |-> what, item |-> i, with |-> with, parts |-> parts, here |-> no,
             alone |-> no, fair |-> fair, result |-> NoItem]
    BY <2>1, <2>2
  <2> QED
    BY <2>3 DEF none, no, parts
<1> HIDE DEF r
<1>2. r.what = what /\ r.item = i /\ r.with = with /\ r.parts = <<>> /\ r.fair = fair /\ IsCall(r)
  BY <1>1 DEF IsCall
<1>3. RequestOK(h, r)
  BY <1>2, PlainRequest DEF Hook, Plain
<1>4. r.fair => ItemAccepts(catalogue, r)
  BY <1>2 DEF ItemAccepts, Plain
<1>5. Start(h, r)
  BY DEF r
<1> QED
  BY <1>2, <1>3, <1>4, <1>5, SentKeeps

LEMMA onRenameKeeps ==
  ASSUME ItemsInv, onRenameItem
  PROVE  ItemsInv'
<1> DEFINE i == AtTop(itemStack).item
           fair == Data(i) = Truth(catalogue, i)
<1>1. /\ AtTop(itemStack).kind = "detail" /\ Has(i) /\ calls["rename"].pc = "none"
      /\ Start("rename", [ItemCall("rename", i, 0) EXCEPT !.fair = fair])
      /\ catalogue' = catalogue /\ itemCache' = itemCache /\ itemStack' = itemStack /\ drafts' = drafts /\ prompt' = prompt
  BY TopIs DEF onRenameItem, DetailOffers, forms
<1>2. fair => i \in catalogue.alive
  BY <1>1, DetailIs, ShownAlive
<1> HIDE DEF i, fair
<1>3. "rename" \in ItemHooks /\ Plain("rename") /\ Hook("rename") = "rename"
  BY DEF ItemHooks, Plain, Hook
<1> QED
  BY <1>1, <1>2, <1>3, PlainSent

LEMMA onSplitKeeps ==
  ASSUME ItemsInv, NEW n \in Receiptnames, onSplit(n)
  PROVE  ItemsInv'
<1> DEFINE i == AtTop(itemStack).item
           fair == Data(i) = Truth(catalogue, i)
<1>1. /\ AtTop(itemStack).kind = "detail" /\ Has(i) /\ calls["alias"].pc = "none"
      /\ n \in Data(i).names /\ Cardinality(Data(i).names) > 1
      /\ Start("alias", [ItemCall("alias", i, n) EXCEPT !.fair = fair])
      /\ catalogue' = catalogue /\ itemCache' = itemCache /\ itemStack' = itemStack /\ drafts' = drafts /\ prompt' = prompt
  BY TopIs DEF onSplit, NameOffersSplit, DetailOffers, forms
<1>2. ASSUME fair PROVE i \in catalogue.alive /\ catalogue.name[n] = i /\ Cardinality(NamesOf(catalogue, i)) > 1
  <2>1. i \in catalogue.alive /\ Data(i).names = NamesOf(catalogue, i)
    BY <1>1, <1>2, DetailIs, ShownAlive
  <2> QED
    BY <1>1, <2>1 DEF NamesOf
<1> HIDE DEF i, fair
<1>3. "alias" \in ItemHooks /\ Plain("alias") /\ Hook("alias") = "alias"
  BY DEF ItemHooks, Plain, Hook
<1> QED
  BY <1>1, <1>2, <1>3, PlainSent

LEMMA AnswerKeeps ==
  ASSUME ItemsInv, NEW what \in {"accept", "reject"}, Answer(what)
  PROVE  ItemsInv'
<1> DEFINE q == Current
           fair == q \in Open(catalogue)
<1>1. /\ AtTop(itemStack).kind = "match" /\ calls["answer"].pc = "none"
      /\ Start("answer", [ItemCall(what, prompt.item, q) EXCEPT !.fair = fair])
      /\ catalogue' = catalogue /\ itemCache' = itemCache /\ itemStack' = itemStack /\ drafts' = drafts /\ prompt' = prompt
  BY TopIs DEF Answer, Asking, forms
<1>2. fair => q \in Open(catalogue)
  OBVIOUS
<1> HIDE DEF q, fair
<1>3. "answer" \in ItemHooks /\ Plain(what) /\ Hook(what) = "answer" /\ what # "alias"
  BY DEF ItemHooks, Plain, Hook
<1> QED
  BY <1>1, <1>2, <1>3, PlainSent

LEMMA onLinkKeeps ==
  ASSUME ItemsInv, onLink
  PROVE  ItemsInv'
<1> DEFINE i == AtTop(itemStack).item
           k == CandidatesFor(i)
           fair == Data(k) = Truth(catalogue, k) /\ i \in catalogue.alive
<1>1. /\ AtTop(itemStack).kind = "merge" /\ calls["merge"].pc = "none" /\ picked \in Candidates
      /\ Start("merge", [ItemCall("merge", i, picked) EXCEPT !.fair = fair])
      /\ catalogue' = catalogue /\ itemCache' = itemCache /\ itemStack' = itemStack /\ drafts' = drafts /\ prompt' = prompt
  BY TopIs DEF onLink, canLink, forms
<1>2. picked \in Data(k) /\ picked # i
  BY <1>1, TopIs DEF Candidates
<1>3. ASSUME fair PROVE i \in catalogue.alive /\ picked \in catalogue.alive /\ i # picked
  <2>1. i \in Items
    BY <1>1, DetailIs
  <2>2. Truth(catalogue, k) = catalogue.alive \ {i}
    <3>1. i \in Nat /\ i >= 1 /\ MaxItems \in Nat /\ k = MaxItems + i
      BY <2>1, ItemsAssumption DEF Items, CandidatesFor
    <3>2. k # ItemList /\ k # Matches /\ k \notin Items /\ k - MaxItems = i
      BY <3>1 DEF ItemList, Matches, Items
    <3> HIDE DEF k
    <3> QED
      BY <3>2 DEF Truth
  <2> QED
    BY <1>2, <1>3, <2>2
<1> HIDE DEF i, k, fair
<1>4. "merge" \in ItemHooks /\ Plain("merge") /\ Hook("merge") = "merge"
  BY DEF ItemHooks, Plain, Hook
<1> QED
  BY <1>1, <1>3, <1>4, PlainSent

LEMMA onSaveKeeps ==
  ASSUME ItemsInv, onSave
  PROVE  ItemsInv'
<1> DEFINE i == AtTop(itemStack).item
           parts == [k \in 1 .. Len(drafts) |-> drafts[k].lines]
           fair == /\ Data(i) = Truth(catalogue, i)
                   /\ \A k \in 1 .. Len(drafts) : drafts[k].lines \subseteq Data(i).lines
           r == [ItemCall("split", i, 0) EXCEPT !.parts = parts, !.fair = fair]
<1>1. /\ AtTop(itemStack).kind = "split" /\ Has(i) /\ calls["split"].pc = "none"
      /\ canSaveSplit(Data(i).lines, drafts) /\ Start("split", r)
      /\ catalogue' = catalogue /\ itemCache' = itemCache /\ itemStack' = itemStack /\ drafts' = drafts /\ prompt' = prompt
  BY TopIs DEF onSave, SplitOffers, forms
<1>2. r.what = "split" /\ r.item = i /\ r.parts = parts /\ r.fair = fair /\ IsCall(r)
  <2> DEFINE none == "none"
             split == "split"
             no == FALSE
             zero == 0
             empty == <<>>
             c == ItemCall(split, i, zero)
  <2>1. c = [pc |-> none, what |-> split, item |-> i, with |-> zero, parts |-> empty, here |-> no,
             alone |-> no, fair |-> no, result |-> NoItem]
    BY CallIs
  <2>2. r = [c EXCEPT !.parts = parts, !.fair = fair]
    OBVIOUS
  <2> HIDE DEF none, split, no, zero, empty, c, r, fair, parts
  <2>3. r = [pc |-> none, what |-> split, item |-> i, with |-> zero, parts |-> parts, here |-> no,
             alone |-> no, fair |-> fair, result |-> NoItem]
    BY <2>1, <2>2
  <2> QED
    BY <2>3 DEF split, IsCall
<1>3. DraftsOK(drafts) /\ Len(drafts) \in Nat
  BY SeqIs DEF ItemsInv, DraftsOK, IsSeq
<1>4. /\ IsSeq(parts) /\ Len(parts) = Len(drafts) /\ \A k \in 1 .. Len(drafts) : parts[k] = drafts[k].lines
  BY <1>3, IsSeqOf
<1>5. Len(drafts) > 0 /\ \A k \in 1 .. Len(drafts) : drafts[k].lines # {}
  <2>1. drafts # <<>> /\ \A k \in 1 .. Len(drafts) : drafts[k].lines # {}
    BY <1>1 DEF canSaveSplit
  <2>2. Len(drafts) = 0 => drafts = <<>>
    BY <1>3 DEF DraftsOK, IsSeq
  <2> QED
    BY <1>3, <2>1, <2>2
<1>6. PICK l0 \in Data(i).lines : \A k \in 1 .. Len(drafts) : l0 \notin drafts[k].lines
  BY <1>1 DEF canSaveSplit
<1>7. \A k \in 1 .. Len(drafts) : parts[k] \subseteq Lines
  BY <1>3, <1>4 DEF DraftsOK
<1>8. \A j, k \in 1 .. Len(drafts) : j # k => parts[j] \cap parts[k] = {}
  BY <1>3, <1>4 DEF DraftsOK
<1>9. ASSUME fair
      PROVE  /\ i \in catalogue.alive /\ UNION ToSet(parts) \subseteq LinesOf(catalogue, i)
             /\ UNION ToSet(parts) # LinesOf(catalogue, i)
  <2>1. i \in catalogue.alive /\ Data(i).lines = LinesOf(catalogue, i)
    BY <1>1, <1>9, DetailIs, ShownAlive
  <2>2. \A k \in 1 .. Len(drafts) : parts[k] \subseteq LinesOf(catalogue, i) \ {l0}
    BY <1>4, <1>6, <1>9, <2>1
  <2> HIDE DEF parts, fair
  <2>3. DOMAIN parts = 1 .. Len(drafts)
    BY <1>4 DEF IsSeq
  <2>4. UNION ToSet(parts) \subseteq LinesOf(catalogue, i) \ {l0}
    BY <2>2, <2>3 DEF ToSet
  <2> QED
    BY <1>6, <2>1, <2>4
<1> HIDE DEF r, fair, parts, i
<1>10. RequestOK("split", r)
  <2>1. Apart(r.parts)
    BY <1>2, <1>4, <1>7, <1>8 DEF Apart
  <2> QED
    BY <1>2, <1>4, <1>5, <2>1 DEF RequestOK
<1>11. r.fair => ItemAccepts(catalogue, r)
  <2> SUFFICES ASSUME fair PROVE ItemAccepts(catalogue, r)
    BY <1>2
  <2>1. \A k \in 1 .. Len(parts) : parts[k] # {}
    BY <1>4, <1>5
  <2> QED
    BY <1>2, <1>9, <2>1 DEF ItemAccepts
<1>12. "split" \in ItemHooks
  BY DEF ItemHooks
<1> QED
  BY <1>1, <1>2, <1>10, <1>11, <1>12, SentKeeps

-----------------------------------------------------------------------------
(* Calls are served.                                                        *)

LEMMA CallMoves ==
  ASSUME ItemsInv, NEW h \in ItemHooks, calls[h].pc # "none", NEW s, IsCall(s), s.pc # "none",
         AskSame(calls[h], s), s.here = calls[h].here, s.alone = calls[h].alone,
         CatalogueOK(catalogue'), FairOK(catalogue', s), LandsOK(catalogue', s),
         calls' = [calls EXCEPT ![h] = s],
         itemCache' = itemCache, itemStack' = itemStack, drafts' = drafts, prompt' = prompt
  PROVE  ItemsInv'
<1>1. RequestsOK(catalogue, calls) /\ HereOK(calls, itemStack, prompt)
  BY DEF ItemsInv
<1>2. RequestOK(h, s)
  BY <1>1, SameAsked DEF RequestsOK
<1>3. RequestsOK(catalogue', calls')
  BY <1>1, <1>2, OneCall
<1>4. calls'[h] = s /\ \A g \in ItemHooks \ {h} : calls'[g] = calls[g]
  BY <1>1 DEF RequestsOK
<1>5. HereOK(calls', itemStack, prompt)
  <2>1. ASSUME NEW g \in ItemHooks
        PROVE  (calls'[g].pc # "none" => calls[g].pc # "none") /\ calls'[g].here = calls[g].here /\ calls'[g].item = calls[g].item
    <3>1. CASE g = h
      BY <1>4, <3>1 DEF AskSame
    <3>2. CASE g # h
      BY <1>4, <3>2
    <3> QED
      BY <3>1, <3>2
  <2> QED
    BY <1>1, <2>1 DEF HereOK, ItemHooks
<1> QED
  BY <1>3, <1>5 DEF ItemsInv

LEMMA NewPc ==
  ASSUME NEW o, IsCall(o), NEW pc, NEW s, s = [o EXCEPT !.pc = pc]
  PROVE  /\ IsCall(s) /\ AskSame(o, s) /\ s.pc = pc
         /\ s.here = o.here /\ s.alone = o.alone /\ s.fair = o.fair /\ s.result = o.result
<1>1. s = [pc |-> pc, what |-> o.what, item |-> o.item, with |-> o.with, parts |-> o.parts, here |-> o.here,
           alone |-> o.alone, fair |-> o.fair, result |-> o.result]
  BY DEF IsCall
<1> QED
  BY <1>1 DEF IsCall, AskSame

LEMMA ServeKeeps ==
  ASSUME ItemsInv, NEW h \in ItemHooks, Serve(h)
  PROVE  ItemsInv'
<1> DEFINE r == calls[h]
<1>1. /\ r.pc = "sent" /\ IsCall(r) /\ RequestOK(h, r) /\ FairOK(catalogue, r) /\ DOMAIN calls = ItemHooks
      /\ CatalogueOK(catalogue)
  BY DEF Serve, ItemsInv, RequestsOK, IsCall
<1>2. /\ catalogue.made + Len(r.parts) <= MaxItems /\ (h = "alias" => catalogue.made < MaxItems)
      /\ itemCache' = itemCache /\ itemStack' = itemStack /\ drafts' = drafts /\ prompt' = prompt
  BY DEF Serve, forms
<1>3. CASE ItemAccepts(catalogue, r)
  <2> DEFINE done == "done"
             result == Result(catalogue, r)
  <2>1. catalogue' = After(catalogue, r) /\ calls' = [calls EXCEPT ![h].pc = done, ![h].result = result]
    BY <1>3 DEF Serve
  <2>2. /\ CatalogueOK(catalogue')
        /\ r.what \in {"accept", "merge", "split"} => result \in Items /\ result \in catalogue'.alive
    BY <1>1, <1>2, <1>3, <2>1, ServedKeeps
  <2>3. done # "none" /\ done # "sent" /\ done # "refused"
    OBVIOUS
  <2> HIDE DEF done, result
  <2> DEFINE a == [r EXCEPT !.pc = done]
             s == [a EXCEPT !.result = result]
             c == [calls EXCEPT ![h] = a]
  <2>4. calls' = [calls EXCEPT ![h] = s] /\ IsCall(s) /\ AskSame(r, s) /\ s.pc = done
        /\ s.here = r.here /\ s.alone = r.alone /\ s.fair = r.fair /\ s.result = result
    <3>1. calls' = [[calls EXCEPT ![h].pc = done] EXCEPT ![h].result = result]
      BY Zenon, <2>1
    <3>2. [calls EXCEPT ![h].pc = done] = c
      BY Zenon
    <3>3. c[h] = a /\ [c EXCEPT ![h].result = result] = [c EXCEPT ![h] = [c[h] EXCEPT !.result = result]]
      BY Zenon, <1>1
    <3>4. [c EXCEPT ![h] = s] = [calls EXCEPT ![h] = s]
      <4> HIDE DEF s, a
      <4> QED
        BY DEF c
    <3>5. calls' = [calls EXCEPT ![h] = s]
      BY Zenon, <3>1, <3>2, <3>3, <3>4
    <3> HIDE DEF r
    <3>6. a = [r EXCEPT !.pc = done] /\ s = [a EXCEPT !.result = result]
      OBVIOUS
    <3> HIDE DEF a, s
    <3>7. /\ IsCall(a) /\ AskSame(r, a) /\ a.pc = done
          /\ a.here = r.here /\ a.alone = r.alone /\ a.fair = r.fair /\ a.result = r.result
      BY <1>1, <3>6, NewPc
    <3>8. /\ IsCall(s) /\ AskSame(a, s) /\ s.result = result
          /\ s.here = a.here /\ s.alone = a.alone /\ s.fair = a.fair /\ s.pc = a.pc
      <4>1. s = [pc |-> a.pc, what |-> a.what, item |-> a.item, with |-> a.with, parts |-> a.parts, here |-> a.here,
                 alone |-> a.alone, fair |-> a.fair, result |-> result]
        BY <3>6, <3>7 DEF IsCall
      <4> QED
        BY <4>1 DEF IsCall, AskSame
    <3> QED
      BY <3>5, <3>7, <3>8 DEF AskSame
  <2> HIDE DEF a, s, c
  <2>5. FairOK(catalogue', s)
    BY <2>3, <2>4 DEF FairOK
  <2>6. LandsOK(catalogue', s)
    BY <2>2, <2>4 DEF LandsOK, AskSame
  <2>7. calls[h].pc # "none"
    BY <1>1
  <2> QED
    BY <1>2, <2>2, <2>3, <2>4, <2>5, <2>6, <2>7, CallMoves
<1>4. CASE ~ItemAccepts(catalogue, r)
  <2> DEFINE refused == "refused"
  <2>1. catalogue' = catalogue /\ calls' = [calls EXCEPT ![h].pc = refused]
    BY <1>4 DEF Serve
  <2>2. refused # "none" /\ refused # "sent" /\ refused # "done"
    OBVIOUS
  <2> HIDE DEF refused
  <2> DEFINE s == [r EXCEPT !.pc = refused]
  <2>3. calls' = [calls EXCEPT ![h] = s] /\ IsCall(s) /\ AskSame(r, s) /\ s.pc = refused
       /\ s.here = r.here /\ s.alone = r.alone /\ s.fair = r.fair /\ s.result = r.result
    <3>1. calls' = [calls EXCEPT ![h] = s]
      BY Zenon, <2>1
    <3> HIDE DEF r
    <3>2. s = [r EXCEPT !.pc = refused]
      OBVIOUS
    <3> HIDE DEF s
    <3>3. /\ IsCall(s) /\ AskSame(r, s) /\ s.pc = refused
          /\ s.here = r.here /\ s.alone = r.alone /\ s.fair = r.fair /\ s.result = r.result
      BY <1>1, <3>2, NewPc
    <3> QED
      BY <3>1, <3>3
  <2> HIDE DEF s
  <2>4. FairOK(catalogue', s)
    BY <1>1, <1>4, <2>3 DEF FairOK
  <2>5. LandsOK(catalogue', s)
    BY <2>2, <2>3 DEF LandsOK
  <2>6. calls[h].pc # "none"
    BY <1>1
  <2> QED
    BY <1>1, <1>2, <2>1, <2>2, <2>3, <2>4, <2>5, <2>6, CallMoves
<1> QED
  BY <1>3, <1>4

LEMMA CallLostKeeps ==
  ASSUME ItemsInv, NEW h \in ItemHooks, CallLost(h)
  PROVE  ItemsInv'
<1> DEFINE r == calls[h]
           lost == "lost"
<1>1. /\ r.pc \in {"sent", "done"} /\ IsCall(r) /\ DOMAIN calls = ItemHooks /\ CatalogueOK(catalogue)
  BY DEF CallLost, ItemsInv, RequestsOK, IsCall
<1>2. /\ calls' = [calls EXCEPT ![h].pc = lost]
      /\ catalogue' = catalogue /\ itemCache' = itemCache /\ itemStack' = itemStack /\ drafts' = drafts /\ prompt' = prompt
  BY DEF CallLost, forms
<1>3. lost # "none" /\ lost # "sent" /\ lost # "done" /\ lost # "refused"
  OBVIOUS
<1> HIDE DEF lost
<1> DEFINE s == [r EXCEPT !.pc = lost]
<1>4. calls' = [calls EXCEPT ![h] = s] /\ IsCall(s) /\ AskSame(r, s) /\ s.pc = lost
     /\ s.here = r.here /\ s.alone = r.alone /\ s.fair = r.fair /\ s.result = r.result
  <2>1. calls' = [calls EXCEPT ![h] = s]
    BY Zenon, <1>2
  <2> HIDE DEF r
  <2>2. s = [r EXCEPT !.pc = lost]
    OBVIOUS
  <2> HIDE DEF s
  <2>3. /\ IsCall(s) /\ AskSame(r, s) /\ s.pc = lost
        /\ s.here = r.here /\ s.alone = r.alone /\ s.fair = r.fair /\ s.result = r.result
    BY <1>1, <2>2, NewPc
  <2> QED
    BY <2>1, <2>3
<1> HIDE DEF s
<1>5. FairOK(catalogue', s) /\ LandsOK(catalogue', s)
  BY <1>3, <1>4 DEF FairOK, LandsOK
<1>6. calls[h].pc # "none"
  BY <1>1
<1> QED
  BY <1>1, <1>2, <1>3, <1>4, <1>5, <1>6, CallMoves

LEMMA ItemElsewhereKeeps ==
  ASSUME ItemsInv, NEW r \in Elsewheres, Elsewhere(r)
  PROVE  ItemsInv'
<1>1. /\ ItemAccepts(catalogue, r) /\ catalogue' = After(catalogue, r)
      /\ calls' = [h \in ItemHooks |-> [calls[h] EXCEPT !.alone = FALSE]]
      /\ itemCache' = itemCache /\ itemStack' = itemStack /\ drafts' = drafts /\ prompt' = prompt
  BY DEF Elsewhere, forms
<1>2. CatalogueOK(catalogue) /\ RequestsOK(catalogue, calls) /\ HereOK(calls, itemStack, prompt)
  BY DEF ItemsInv
<1>3. PICK what \in {"accept", "reject", "rename"} : \E i, with : r = ItemCall(what, i, with)
  BY DEF Elsewheres
<1>4. r.what = what /\ r.parts = <<>>
  <2>1. PICK i, with : r = ItemCall(what, i, with)
    BY <1>3
  <2> QED
    BY <2>1, CallIs
<1> DEFINE h == Hook(what)
<1>5. h \in ItemHooks /\ h # "alias" /\ RequestOK(h, r)
  <2>1. h \in ItemHooks /\ h # "alias" /\ Plain(r.what) /\ h = Hook(r.what)
    BY <1>4 DEF Hook, ItemHooks, Plain
  <2> HIDE DEF h
  <2> QED
    BY <1>4, <2>1, PlainRequest
<1>6. catalogue.made + Len(r.parts) <= MaxItems
  BY <1>2, <1>4, EmptyIsSeq DEF CatalogueOK
<1> HIDE DEF h
<1>7. CatalogueOK(catalogue')
  BY <1>1, <1>2, <1>5, <1>6, ServedKeeps
<1>8. ASSUME NEW g \in ItemHooks
      PROVE  /\ IsCall(calls'[g]) /\ AskSame(calls[g], calls'[g]) /\ calls'[g].pc = calls[g].pc
             /\ calls'[g].fair = calls[g].fair /\ calls'[g].result = calls[g].result
             /\ calls'[g].alone = FALSE /\ calls'[g].here = calls[g].here
  <2> DEFINE o == calls[g]
  <2>1. IsCall(o)
    BY <1>2 DEF RequestsOK, IsCall
  <2>2. calls'[g] = [o EXCEPT !.alone = FALSE]
    BY <1>1
  <2> HIDE DEF o
  <2>3. calls'[g] = [pc |-> o.pc, what |-> o.what, item |-> o.item, with |-> o.with, parts |-> o.parts,
                     here |-> o.here, alone |-> FALSE, fair |-> o.fair, result |-> o.result]
    BY <2>1, <2>2 DEF IsCall
  <2> QED
    BY <2>3 DEF IsCall, AskSame, o
<1>9. DOMAIN calls' = ItemHooks
  BY <1>1
<1>10. RequestsOK(catalogue', calls')
  <2>1. Faded(calls, calls')
    BY <1>8, <1>9 DEF Faded
  <2>2. RequestsOK(catalogue, calls')
    BY <1>2, <2>1, CallsFade
  <2>3. ASSUME NEW g \in ItemHooks
        PROVE  FairOK(catalogue', calls'[g]) /\ (LandsOK(catalogue, calls'[g]) => LandsOK(catalogue', calls'[g]))
    BY <1>8 DEF FairOK, LandsOK
  <2> QED
    BY <2>2, <2>3 DEF RequestsOK
<1>11. HereOK(calls', itemStack, prompt)
  BY <1>2, <1>8 DEF HereOK, ItemHooks, AskSame
<1> QED
  BY <1>1, <1>7, <1>10, <1>11 DEF ItemsInv

-----------------------------------------------------------------------------
(* Calls are answered.                                                      *)

\* What the answer to a call of hook h may do to the screens.
Lands(h) ==
    /\ calls[h].pc = "done" /\ calls'[h].pc = "none" /\ calls[h].alone
    /\ calls[h].what # "reject"
    /\ h = "answer" => prompt.into \in catalogue.alive \cup {NoItem}
    /\ itemStack' # itemStack /\ AtTop(itemStack').kind = "detail"
    => AtTop(itemStack').item \in catalogue.alive
LandsAll == \A h \in {"answer", "merge", "split"} : Lands(h)

LEMMA AnsweredIs ==
  ASSUME ItemsInv, NEW h \in ItemHooks, Answered(h)
  PROVE  /\ calls[h].pc # "none" /\ IsCall(calls[h]) /\ RequestOK(h, calls[h]) /\ LandsOK(catalogue, calls[h])
         /\ catalogue' = catalogue /\ CacheOK(Told(h))
         /\ RequestsOK(catalogue, ItemEnded(h)) /\ HereOK(ItemEnded(h), itemStack, prompt)
         /\ \A g \in ItemHooks \ {h} : ItemEnded(h)[g] = calls[g]
         /\ h \in {"answer", "merge", "split"} /\ calls[h].here => AtTop(itemStack).kind = IF h = "answer" THEN "match" ELSE h
         /\ h = "answer" /\ calls[h].here => calls[h].item = prompt.item
<1>1. calls[h].pc # "none" /\ catalogue' = catalogue
  BY DEF Answered
<1>2. RequestsOK(catalogue, calls) /\ HereOK(calls, itemStack, prompt) /\ CacheOK(itemCache)
  BY DEF ItemsInv
<1>3. IsCall(calls[h]) /\ RequestOK(h, calls[h]) /\ LandsOK(catalogue, calls[h])
  BY <1>1, <1>2 DEF RequestsOK, IsCall
<1>4. CacheOK(Told(h))
  BY <1>2, ToldKeeps
<1> QED
  BY <1>1, <1>2, <1>3, <1>4, EndedKeeps DEF HereOK

\* A call whose screen was left, or that failed.
LEMMA UnseenKeeps ==
  ASSUME ItemsInv, NEW h \in ItemHooks, Answered(h), itemCache' = Told(h), calls' = ItemEnded(h),
         itemStack' = itemStack, prompt' = prompt, drafts' = drafts
  PROVE  ItemsInv'
BY AnsweredIs DEF ItemsInv

LEMMA DetailAnsweredKeeps ==
  ASSUME ItemsInv, NEW h \in ItemHooks, DetailAnswered(h)
  PROVE  ItemsInv'
BY UnseenKeeps DEF DetailAnswered, forms

LEMMA IntoIs ==
  ASSUME ItemsInv, Answered("answer"), calls["answer"].here, NEW into,
         into = IF calls["answer"].what = "accept" /\ calls["answer"].pc = "done" /\ prompt.item # NoItem
                     /\ calls["answer"].item = prompt.item /\ calls["answer"].result # prompt.item
                  THEN calls["answer"].result ELSE prompt.into
  PROVE  /\ into \in Items \cup {NoItem} /\ (into # NoItem => prompt.item \in Items)
         /\ AtTop(itemStack).kind = "match" /\ prompt.item = AtTop(itemStack).item
         /\ \/ prompt.item = NoItem /\ into = NoItem
            \/ prompt.item \in Items
<1> DEFINE r == calls["answer"]
<1>1. "answer" \in ItemHooks
  BY DEF ItemHooks
<1>2. LandsOK(catalogue, r) /\ AtTop(itemStack).kind = "match"
  BY <1>1, AnsweredIs
<1>3. /\ prompt.into \in Items \cup {NoItem} /\ (prompt.into # NoItem => prompt.item \in Items)
      /\ prompt.item = AtTop(itemStack).item
  BY <1>2 DEF ItemsInv, PromptOK
<1>4. prompt.item \in Items \cup {NoItem}
  <2> DEFINE n == Len(itemStack)
  <2>1. n \in 1 .. Len(itemStack) /\ n > 1
    <3>1. StackOK(itemStack)
      BY DEF ItemsInv
    <3>2. n \in Nat /\ n > 0
      BY <3>1, SeqIs DEF StackOK, IsSeq
    <3> QED
      BY <1>2, <3>1, <3>2 DEF StackOK, AtTop
  <2> HIDE DEF n
  <2>2. Over(itemStack[n], itemStack[n - 1])
    BY <2>1 DEF ItemsInv, StackOK
  <2> QED
    BY <1>2, <1>3, <2>2 DEF Over, AtTop, n
<1>5. r.what = "accept" /\ r.pc = "done" => r.result \in Items
  BY <1>2 DEF LandsOK
<1> QED
  BY <1>2, <1>3, <1>4, <1>5

LEMMA AnswerAnsweredKeeps ==
  ASSUME ItemsInv, AnswerAnswered
  PROVE  ItemsInv' /\ LandsAll
<1> DEFINE h == "answer"
           r == calls[h]
           into == IF r.what = "accept" /\ r.pc = "done" /\ prompt.item # NoItem /\ r.item = prompt.item
                      /\ r.result # prompt.item THEN r.result ELSE prompt.into
<1>1. h \in ItemHooks /\ Answered(h) /\ drafts' = drafts
  BY DEF AnswerAnswered, ItemHooks
<1>2. /\ r.pc # "none" /\ IsCall(r) /\ LandsOK(catalogue, r) /\ catalogue' = catalogue /\ CacheOK(Told(h))
      /\ RequestOK(h, r) /\ RequestsOK(catalogue, ItemEnded(h)) /\ HereOK(ItemEnded(h), itemStack, prompt)
      /\ \A g \in ItemHooks \ {h} : ItemEnded(h)[g] = calls[g]
  BY <1>1, AnsweredIs
<1>3. CASE ~r.here
  <2>1. itemCache' = Told(h) /\ calls' = ItemEnded(h) /\ itemStack' = itemStack /\ prompt' = prompt
    BY <1>3 DEF AnswerAnswered
  <2> QED
    BY <1>1, <2>1, UnseenKeeps DEF LandsAll, Lands
<1>4. CASE r.here /\ r.pc = "lost"
  <2>1. /\ prompt' = [prompt EXCEPT !.failed = TRUE] /\ calls' = ItemEnded(h) /\ itemCache' = itemCache
        /\ itemStack' = itemStack
    BY <1>4 DEF AnswerAnswered
  <2>2. PromptOK(prompt, itemStack)
    BY DEF ItemsInv
  <2>3. prompt' = [item |-> prompt.item, start |-> prompt.start, loaded |-> prompt.loaded, queue |-> prompt.queue,
                   at |-> prompt.at, failed |-> TRUE, into |-> prompt.into]
    BY <2>1, <2>2 DEF PromptOK
  <2>4. PromptOK(prompt', itemStack) /\ prompt'.item = prompt.item
    BY <2>2, <2>3 DEF PromptOK
  <2>5. HereOK(calls', itemStack, prompt')
    BY <1>2, <2>1, <2>4 DEF HereOK
  <2> QED
    BY <1>1, <1>2, <2>1, <2>4, <2>5 DEF ItemsInv, LandsAll, Lands
<1>5. CASE r.here /\ r.pc # "lost"
  <2>1. advance(into, Told(h), ItemEnded(h))
    BY <1>5 DEF AnswerAnswered
  <2>2. /\ into \in Items \cup {NoItem} /\ (into # NoItem => prompt.item \in Items)
        /\ AtTop(itemStack).kind = "match" /\ prompt.item = AtTop(itemStack).item
        /\ (prompt.item = NoItem /\ into = NoItem) \/ prompt.item \in Items
    BY <1>1, <1>5, IntoIs
  <2>3. into = NoItem => prompt.into = NoItem \/ r.result = NoItem
    OBVIOUS
  <2>4. into = prompt.into \/ into = r.result
    OBVIOUS
  <2>5. r.pc = "done" /\ r.what = "accept" /\ prompt.item # NoItem /\ r.item = prompt.item =>
            into = r.result \/ (into = prompt.into /\ r.result = prompt.item)
    OBVIOUS
  <2> HIDE DEF into
  <2>6. StackOK(itemStack) /\ PromptOK(prompt, itemStack)
    BY DEF ItemsInv
  <2>7. /\ StackOK(itemStack') /\ PromptOK(prompt', itemStack') /\ CacheOK(itemCache')
        /\ RequestsOK(catalogue, calls') /\ HereOK(calls', itemStack', prompt')
        /\ \A g \in ItemHooks : calls'[g].pc = ItemEnded(h)[g].pc
        /\ itemStack' # itemStack => itemStack' = Closed(into)
    BY <1>2, <2>1, <2>2, <2>6, AdvanceKeeps
  <2>8. ItemsInv'
    BY <1>1, <1>2, <2>7 DEF ItemsInv
  <2>9. ASSUME NEW g \in {"merge", "split"} PROVE Lands(g)
    <3>1. g \in ItemHooks \ {h}
      BY DEF ItemHooks
    <3> QED
      BY <1>2, <2>7, <3>1 DEF Lands
  <2>10. Lands(h)
    <3> SUFFICES ASSUME r.pc = "done", r.alone, r.what # "reject", prompt.into \in catalogue.alive \cup {NoItem},
                        itemStack' # itemStack, AtTop(itemStack').kind = "detail"
                 PROVE  AtTop(itemStack').item \in catalogue.alive
      BY DEF Lands
    <3>1. r.what = "accept" /\ r.result \in Items /\ r.result \in catalogue.alive
      BY <1>2 DEF RequestOK, LandsOK
    <3>2. r.item = prompt.item
      BY <1>1, <1>5, AnsweredIs
    <3>3. AtTop(itemStack).kind \in Forms /\ itemStack' = Closed(into)
      BY <2>2, <2>7 DEF Forms
    <3>4. /\ into # NoItem => AtTop(itemStack') = Detail(into)
          /\ into = NoItem => Over(AtTop(itemStack), AtTop(itemStack'))
      BY <2>2, <2>6, <3>3, ClosedKeeps
    <3>5. CASE into # NoItem
      <4>1. into \in catalogue.alive
        BY <2>2, <2>4, <3>1, <3>5
      <4> QED
        BY <3>4, <3>5, <4>1 DEF Detail
    <3>6. CASE into = NoItem
      <4>1. NoItem \notin Items
        BY ItemsAssumption DEF NoItem, Items
      <4>2. AtTop(itemStack') = [kind |-> "detail", item |-> prompt.item] /\ prompt.item # NoItem
        BY <2>2, <3>4, <3>6, <4>1 DEF Over
      <4>3. r.result = prompt.item
        BY <2>5, <3>1, <3>2, <3>6, <4>1, <4>2
      <4> QED
        BY <3>1, <4>2, <4>3
    <3> QED
      BY <3>5, <3>6
  <2> QED
    BY <2>8, <2>9, <2>10 DEF LandsAll
<1> QED
  BY <1>3, <1>4, <1>5

LEMMA FormTop ==
  ASSUME ItemsInv, NEW h \in {"merge", "split"}, Answered(h), calls[h].here, calls[h].pc = "done"
  PROVE  /\ calls[h].result \in Items /\ (calls[h].alone => calls[h].result \in catalogue.alive)
         /\ AtTop(itemStack).kind \in Forms /\ AtTop(itemStack).kind \in {"merge", "split"}
         /\ AtTop(itemStack).item \in Items
<1>1. h \in ItemHooks
  BY DEF ItemHooks
<1>2. RequestOK(h, calls[h]) /\ LandsOK(catalogue, calls[h]) /\ AtTop(itemStack).kind = h
  BY <1>1, AnsweredIs
<1> QED
  BY <1>2, DetailIs DEF RequestOK, LandsOK, Forms

\* The other calls keep where they are when the screens of one are left.
LEMMA LeftAfter ==
  ASSUME ItemsInv, NEW h \in ItemHooks, Answered(h), calls' = Left(ItemEnded(h))
  PROVE  /\ RequestsOK(catalogue, calls') /\ \A g \in ItemHooks \ {h} : calls'[g].pc = calls[g].pc
<1> DEFINE cs == ItemEnded(h)
<1>1. RequestsOK(catalogue, cs) /\ \A g \in ItemHooks \ {h} : cs[g] = calls[g]
  BY AnsweredIs
<1> HIDE DEF cs
<1>2. RequestsOK(catalogue, Left(cs)) /\ \A g \in ItemHooks : Left(cs)[g].pc = cs[g].pc
  BY <1>1, LeftFades
<1> QED
  BY <1>1, <1>2 DEF cs

LEMMA LinkedKeeps ==
  ASSUME ItemsInv, Linked
  PROVE  ItemsInv' /\ LandsAll
<1> DEFINE h == "merge"
           r == calls[h]
<1>1. h \in ItemHooks /\ Answered(h) /\ prompt' = prompt /\ drafts' = drafts
  BY DEF Linked, ItemHooks
<1>2. CASE ~(r.here /\ r.pc = "done")
  <2>1. itemCache' = Told(h) /\ calls' = ItemEnded(h) /\ itemStack' = itemStack
    BY <1>2 DEF Linked
  <2> QED
    BY <1>1, <2>1, UnseenKeeps DEF LandsAll, Lands
<1>3. CASE r.here /\ r.pc = "done"
  <2> DEFINE into == r.result
  <2>1. Navigate(Closed(into), Told(h)) /\ calls' = Left(ItemEnded(h))
    BY <1>3 DEF Linked
  <2>2. /\ into \in Items /\ (r.alone => into \in catalogue.alive)
        /\ AtTop(itemStack).kind \in Forms /\ AtTop(itemStack).item \in Items
    BY <1>1, <1>3, FormTop
  <2>3. CacheOK(Told(h)) /\ catalogue' = catalogue
    BY <1>1, AnsweredIs
  <2>4. RequestsOK(catalogue, calls') /\ \A g \in ItemHooks \ {h} : calls'[g].pc = calls[g].pc
    BY <1>1, <2>1, LeftAfter
  <2>5. into # NoItem
    BY <2>2, ItemsAssumption DEF NoItem, Items
  <2> HIDE DEF into
  <2>6. itemStack' = Closed(into) /\ CacheOK(itemCache')
    BY <2>1, <2>3, NavigateKeeps
  <2>7. StackOK(Closed(into)) /\ AtTop(Closed(into)).kind \notin Forms /\ AtTop(Closed(into)) = Detail(into)
    <3>1. StackOK(itemStack)
      BY DEF ItemsInv
    <3> QED
      BY <2>2, <2>5, <3>1, ClosedKeeps
  <2>8. PromptOK(prompt, itemStack')
    <3>1. PromptOK(prompt, itemStack) /\ AtTop(itemStack').kind # "match"
      BY <2>6, <2>7 DEF ItemsInv, Forms
    <3> QED
      BY <3>1, SamePrompt
  <2>9. HereOK(calls', itemStack', prompt)
    <3>1. RequestsOK(catalogue, ItemEnded(h))
      BY <1>1, AnsweredIs
    <3> QED
      BY <2>1, <3>1, LeftHere
  <2>10. ItemsInv'
    BY <1>1, <2>3, <2>4, <2>6, <2>7, <2>8, <2>9 DEF ItemsInv
  <2>11. Lands(h)
    BY <2>2, <2>6, <2>7 DEF Lands, Detail, into
  <2>12. ASSUME NEW g \in {"answer", "split"} PROVE Lands(g)
    <3>1. g \in ItemHooks \ {h}
      BY DEF ItemHooks
    <3> QED
      BY <2>4, <3>1 DEF Lands
  <2> QED
    BY <2>10, <2>11, <2>12 DEF LandsAll
<1> QED
  BY <1>2, <1>3

LEMMA SplitAnsweredKeeps ==
  ASSUME ItemsInv, SplitAnswered
  PROVE  ItemsInv' /\ LandsAll
<1> DEFINE h == "split"
           r == calls[h]
<1>1. h \in ItemHooks /\ Answered(h) /\ prompt' = prompt
  BY DEF SplitAnswered, ItemHooks
<1>2. CASE ~(r.here /\ r.pc = "done")
  <2>1. itemCache' = Told(h) /\ calls' = ItemEnded(h) /\ itemStack' = itemStack /\ drafts' = drafts
    BY <1>2 DEF SplitAnswered
  <2> QED
    BY <1>1, <2>1, UnseenKeeps DEF LandsAll, Lands
<1>3. CASE r.here /\ r.pc = "done"
  <2> DEFINE into == r.result
             d == Detail(into)
             p == Front(itemStack)
             t == Append(p, d)
  <2>1. Navigate(t, Told(h)) /\ calls' = Left(ItemEnded(h)) /\ drafts' = <<>>
    BY <1>3 DEF SplitAnswered, Popped, Screen, Detail
  <2>2. /\ into \in Items /\ (r.alone => into \in catalogue.alive)
        /\ AtTop(itemStack).kind \in Forms /\ AtTop(itemStack).item \in Items
        /\ AtTop(itemStack).kind \in {"merge", "split"}
    BY <1>1, <1>3, FormTop
  <2>3. CacheOK(Told(h)) /\ catalogue' = catalogue
    BY <1>1, AnsweredIs
  <2>4. RequestsOK(catalogue, calls') /\ \A g \in ItemHooks \ {h} : calls'[g].pc = calls[g].pc
    BY <1>1, <2>1, LeftAfter
  <2> HIDE DEF into
  <2>5. d.kind = "detail" /\ d.item = into /\ IsScreen(d) /\ d.kind \in Kinds \ {"list"} /\ d.kind \notin Forms
    BY DEF Detail, IsScreen, Kinds, Forms
  <2>6. StackOK(p) /\ AtTop(p).kind \notin Forms
    <3>1. StackOK(itemStack) /\ Len(itemStack) > 1
      <4>1. Len(itemStack) \in Nat /\ Len(itemStack) > 0 /\ itemStack[1].kind = "list"
        BY SeqIs DEF ItemsInv, StackOK, IsSeq
      <4> QED
        BY <2>2, <4>1 DEF AtTop, Forms, ItemsInv
    <3> QED
      BY <3>1, PopKeeps
  <2> HIDE DEF d, p
  <2>7. StackOK(t) /\ AtTop(t) = d
    <3>1. Over(d, AtTop(p))
      BY <2>5 DEF Over
    <3> QED
      BY <2>2, <2>5, <2>6, <3>1, PushKeeps
  <2> HIDE DEF t
  <2>8. itemStack' = t /\ CacheOK(itemCache')
    BY <2>1, <2>3, NavigateKeeps
  <2>9. PromptOK(prompt, itemStack')
    <3>1. PromptOK(prompt, itemStack) /\ AtTop(itemStack').kind # "match"
      BY <2>5, <2>7, <2>8 DEF ItemsInv, Forms
    <3> QED
      BY <3>1, SamePrompt
  <2>10. HereOK(calls', itemStack', prompt)
    <3>1. RequestsOK(catalogue, ItemEnded(h))
      BY <1>1, AnsweredIs
    <3> QED
      BY <2>1, <3>1, LeftHere
  <2>11. ItemsInv'
    BY <1>1, <2>1, <2>3, <2>4, <2>7, <2>8, <2>9, <2>10, NoDrafts DEF ItemsInv
  <2>12. Lands(h)
    BY <2>2, <2>5, <2>7, <2>8 DEF Lands, into
  <2>13. ASSUME NEW g \in {"answer", "merge"} PROVE Lands(g)
    <3>1. g \in ItemHooks \ {h}
      BY DEF ItemHooks
    <3> QED
      BY <2>4, <3>1 DEF Lands
  <2> QED
    BY <2>11, <2>12, <2>13 DEF LandsAll
<1> QED
  BY <1>2, <1>3

-----------------------------------------------------------------------------
(* Every step.                                                              *)

\* No other step ends a call and leaves the screen it is on at once.
LEMMA LandsElse ==
  ASSUME itemStack' = itemStack \/ \A h \in ItemHooks : calls'[h].pc = calls[h].pc
  PROVE  LandsAll
BY DEF LandsAll, Lands, ItemHooks

LEMMA ItemsStep ==
  ASSUME ItemsInv, ItemNext
  PROVE  ItemsInv' /\ LandsAll
<1>1. CASE \E i \in Items : OpenItem(i) \/ Pick(i)
  <2>1. PICK i \in Items : OpenItem(i) \/ Pick(i)
    BY <1>1
  <2>2. CASE OpenItem(i)
    BY <2>2, OpenItemKeeps, LandsElse DEF OpenItem
  <2>3. CASE Pick(i)
    BY <2>3, PickKeeps, LandsElse DEF Pick
  <2> QED
    BY <2>1, <2>2, <2>3
<1>2. CASE OpenMatches
  BY <1>2, OpenMatchesKeeps, LandsElse DEF OpenMatches
<1>3. CASE Back
  BY <1>3, BackKeeps, LandsElse
<1>4. CASE onRenameItem
  BY <1>4, onRenameKeeps, LandsElse DEF onRenameItem
<1>5. CASE OpenLink \/ OpenSplit
  <2>1. calls' = calls
    BY <1>5 DEF OpenLink, OpenSplit
  <2> QED
    BY <1>5, <2>1, OpenFormKeeps, LandsElse
<1>6. CASE onLink
  BY <1>6, onLinkKeeps, LandsElse DEF onLink
<1>7. CASE onSave
  BY <1>7, onSaveKeeps, LandsElse DEF onSave
<1>8. CASE \E n \in Receiptnames : onSplit(n)
  <2>1. PICK n \in Receiptnames : onSplit(n)
    BY <1>8
  <2> QED
    BY <2>1, onSplitKeeps, LandsElse DEF onSplit
<1>9. CASE \E q \in Questions : onReview(q)
  <2>1. PICK q \in Questions : onReview(q)
    BY <1>9
  <2> QED
    BY <2>1, onReviewKeeps, LandsElse DEF onReview
<1>10. CASE onMergeItems \/ onKeep
  <2>1. PICK what \in {"accept", "reject"} : Answer(what)
    BY <1>10 DEF onMergeItems, onKeep
  <2> QED
    BY <2>1, AnswerKeeps, LandsElse DEF Answer
<1>11. CASE Skip
  BY <1>11, SkipKeeps, LandsElse
<1>12. CASE Cancel \/ CloseEmpty
  BY <1>12, CancelKeeps, LandsElse
<1>13. CASE \/ AddDraft
            \/ \E k \in 1 .. Len(drafts) : RemoveDraft(k) \/ (\E name \in {"typed", "erased"} : TypeName(k, name))
            \/ \E l \in Lines : onLine(l)
  <2>1. itemStack' = itemStack
    BY <1>13 DEF AddDraft, RemoveDraft, TypeName, onLine, move, EditDrafts
  <2> QED
    BY <1>13, <2>1, DraftKeeps, LandsElse
<1>14. CASE \E h \in ItemHooks : Serve(h) \/ CallLost(h) \/ DetailAnswered(h)
  <2>1. PICK h \in ItemHooks : Serve(h) \/ CallLost(h) \/ DetailAnswered(h)
    BY <1>14
  <2>2. CASE Serve(h)
    BY <2>2, ServeKeeps, LandsElse DEF Serve
  <2>3. CASE CallLost(h)
    BY <2>3, CallLostKeeps, LandsElse DEF CallLost
  <2>4. CASE DetailAnswered(h)
    BY <2>4, DetailAnsweredKeeps, LandsElse DEF DetailAnswered
  <2> QED
    BY <2>1, <2>2, <2>3, <2>4
<1>15. CASE AnswerAnswered
  BY <1>15, AnswerAnsweredKeeps
<1>16. CASE Linked
  BY <1>16, LinkedKeeps
<1>17. CASE SplitAnswered
  BY <1>17, SplitAnsweredKeeps
<1>18. CASE \E k \in ItemKeys : ItemRetry(k) \/ ServeRead(k) \/ ReadLost(k) \/ ReadAnswered(k)
  <2>1. PICK k \in ItemKeys : ItemRetry(k) \/ ServeRead(k) \/ ReadLost(k) \/ ReadAnswered(k)
    BY <1>18
  <2>2. itemStack' = itemStack
    BY <2>1 DEF ItemRetry, ServeRead, ReadLost, ReadAnswered
  <2> QED
    BY <2>1, <2>2, ReadKeeps, ReadAnsweredKeeps, LandsElse
<1>19. CASE Elapse
  BY <1>19, ElapseKeeps, LandsElse DEF Elapse
<1>20. CASE \E r \in Elsewheres : Elsewhere(r)
  <2>1. PICK r \in Elsewheres : Elsewhere(r)
    BY <1>20
  <2> QED
    BY <2>1, ItemElsewhereKeeps, LandsElse DEF Elsewhere
<1> QED
  BY <1>1, <1>2, <1>3, <1>4, <1>5, <1>6, <1>7, <1>8, <1>9, <1>10, <1>11, <1>12, <1>13, <1>14, <1>15, <1>16,
     <1>17, <1>18, <1>19, <1>20 DEF ItemNext

LEMMA ItemsBegin ==
  ASSUME ItemInit
  PROVE  ItemsInv
<1> DEFINE owned == {Owner0[l] : l \in Lines}
           asked == [q \in Questions |-> [item |-> Asked0[q].item, other |-> Asked0[q].other, status |-> "pending"]]
           news == {CHOOSE l \in Lines : Owner0[l] = i : i \in owned}
           title == [i \in Items |-> 0]
           name == [n \in Receiptnames |-> Owner0[CHOOSE l \in Lines : Called[l] = n]]
           idle == Idle
           c == catalogue
<1>1. /\ c = [made |-> Cardinality(owned), alive |-> owned, line |-> Owner0, new |-> news, name |-> name,
              title |-> title, asked |-> asked]
      /\ itemCache = [k \in ItemKeys |-> IF k = ItemList THEN Loaded(Truth(catalogue, k)) ELSE Unloaded]
      /\ itemStack = <<[kind |-> "list", item |-> NoItem]>> /\ prompt = NoPrompt /\ drafts = <<>>
      /\ calls = [h \in ItemHooks |-> idle]
  BY DEF ItemInit, Screen
<1>2. PICK n \in 1 .. MaxItems : owned = 1 .. n
  BY ItemsAssumption
<1>3. MaxItems \in Nat /\ n \in Nat
  BY ItemsAssumption
<1>4. Cardinality(owned) = n
  <2>1. Cardinality(1 .. n) = n
    <3>1. Cardinality(1 .. n) = IF 1 > n THEN 0 ELSE n - 1 + 1
      BY <1>3, FS_Interval
    <3> QED
      BY <1>3, <3>1
  <2> QED
    BY <1>2, <2>1
<1>5. ASSUME NEW m \in Receiptnames
      PROVE  name[m] \in owned
  <2>1. \E l \in Lines : Called[l] = m
    BY DEF Receiptnames
  <2>2. (CHOOSE l \in Lines : Called[l] = m) \in Lines
    BY <2>1
  <2> QED
    BY <2>2
<1>6. ASSUME NEW q \in Questions
      PROVE  /\ asked[q] = [item |-> Asked0[q].item, other |-> Asked0[q].other, status |-> "pending"]
             /\ Asked0[q].item \in owned /\ Asked0[q].other \in owned /\ Asked0[q].item # Asked0[q].other
  BY ItemsAssumption DEF Questions
<1>7. Owner0 \in [Lines -> owned] /\ \A i \in owned : \E l \in Lines : Owner0[l] = i
  BY ItemsAssumption
<1>8. name \in [Receiptnames -> owned] /\ DOMAIN asked = Questions
  BY <1>5
<1> HIDE DEF owned, asked, news, title, name, idle, c
<1>9. CatalogueOK(c)
  <2>1. /\ c.made = n /\ c.alive = owned /\ c.line = Owner0 /\ c.name = name /\ c.asked = asked
        /\ c = [made |-> c.made, alive |-> c.alive, line |-> c.line, new |-> c.new, name |-> c.name,
                title |-> c.title, asked |-> c.asked]
    BY <1>1, <1>4
  <2>2. ASSUME NEW i \in owned PROVE HasRows(c, i)
    BY <1>7, <2>1 DEF HasRows, LinesOf
  <2>3. c.made \in Nat /\ c.made <= MaxItems /\ c.alive \subseteq 1 .. c.made
    BY <1>2, <1>3, <2>1
  <2> QED
    BY <1>6, <1>7, <1>8, <2>1, <2>2, <2>3 DEF CatalogueOK
<1>10. RequestsOK(catalogue, calls) /\ HereOK(calls, itemStack, prompt)
  <2>1. IsCall(idle) /\ idle.pc = "none"
    BY DEF Idle, IsCall, idle
  <2>2. DOMAIN calls = ItemHooks /\ \A h \in ItemHooks : calls[h] = idle
    BY <1>1
  <2>3. RequestsOK(catalogue, calls)
    BY <2>1, <2>2 DEF RequestsOK, IsCall
  <2> QED
    BY <2>1, <2>2, <2>3 DEF HereOK, ItemHooks
<1>11. StackOK(itemStack) /\ AtTop(itemStack).kind \notin Forms
  <2> DEFINE s == [kind |-> "list", item |-> NoItem]
  <2>1. s.kind = "list" /\ s = [kind |-> s.kind, item |-> s.item]
    OBVIOUS
  <2> HIDE DEF s
  <2> DEFINE st == <<s>>
  <2>2. st \in Seq({s}) /\ Len(st) = 1 /\ st[1] = s
    OBVIOUS
  <2> HIDE DEF st
  <2>3. IsSeq(st)
    BY <2>2, SeqIs
  <2>4. StackOK(st) /\ AtTop(st) = s
    BY <2>1, <2>2, <2>3 DEF StackOK, AtTop, Kinds, Forms
  <2>5. itemStack = st
    BY <1>1 DEF st, s
  <2> QED
    BY <2>1, <2>4, <2>5 DEF Forms
<1>12. PromptOK(prompt, itemStack) /\ DraftsOK(drafts)
  BY <1>1, <1>11, NoPromptKeeps, NoDrafts
<1>13. CacheOK(itemCache)
  <2>1. ASSUME NEW k \in ItemKeys PROVE EntryOK(k, itemCache[k])
    <3>1. CASE k = ItemList
      <4>1. k \notin Items
        BY <1>3, <3>1 DEF ItemList, Items
      <4>2. itemCache[k] = Loaded(Truth(catalogue, k))
        BY <1>1, <3>1
      <4> QED
        BY <4>1, <4>2 DEF EntryOK, Read, Loaded
    <3>2. CASE k # ItemList
      <4>1. itemCache[k] = Unloaded
        BY <1>1, <3>2
      <4> QED
        BY <4>1 DEF EntryOK, Read, Unloaded
    <3> QED
      BY <3>1, <3>2
  <2> QED
    BY <1>1, <2>1 DEF CacheOK
<1> QED
  BY <1>9, <1>10, <1>11, <1>12, <1>13 DEF ItemsInv, c

\* A step of another area, or none.
LEMMA ItemsRest ==
  ASSUME ItemsInv, UNCHANGED itemVars
  PROVE  ItemsInv' /\ LandsAll
<1>1. UNCHANGED <<catalogue, itemCache, itemStack, prompt, picked, drafts, calls>>
  BY DEF itemVars, forms
<1>2. ItemsInv'
  BY <1>1 DEF ItemsInv
<1>3. LandsAll
  BY <1>1 DEF LandsAll, Lands
<1> QED
  BY <1>2, <1>3

-----------------------------------------------------------------------------
(* The areas together: a step of one leaves the others as they are.         *)

AreasInv == GroupsInv /\ WantInv /\ AccountsInv /\ BudgetsInv /\ ItemsInv

LEMMA AreasBegin == AreasInit => AreasInv
<1> SUFFICES ASSUME AreasInit PROVE AreasInv
  OBVIOUS
<1>1. CallsOK(accounts, accountCalls)
  <2>1. accountCalls = <<>>
    BY DEF AreasInit, AccountInit
  <2> QED
    BY <2>1, EmptyIsSeq DEF CallsOK
<1>2. YearsInv(accounts)
  BY AccountsBegin DEF AreasInit
<1>3. BudgetsInv
  BY BudgetsBegin DEF AreasInit
<1>4. WantInv
  BY WantBegins DEF AreasInit
<1>5. GroupsInv /\ ItemsInv
  BY GroupsInit, ItemsBegin DEF AreasInit
<1> QED
  BY <1>1, <1>2, <1>3, <1>4, <1>5 DEF AreasInv, AccountsInv

\* Whose area it is, or nothing of it changes.
LEMMA AreaSteps ==
  ASSUME [AreasNext]_areasVars
  PROVE  /\ [AlertNext]_alertVars /\ [BudgetNext]_budgetVars /\ [AccountNext]_accountVars
         /\ ItemNext \/ UNCHANGED itemVars
BY DEF AreasNext, areasVars

LEMMA AreasStep == AreasInv /\ [AreasNext]_areasVars => AreasInv'
<1> SUFFICES ASSUME AreasInv, [AreasNext]_areasVars PROVE AreasInv'
  OBVIOUS
<1>1. /\ [AlertNext]_alertVars /\ [BudgetNext]_budgetVars /\ [AccountNext]_accountVars
      /\ ItemNext \/ UNCHANGED itemVars
  BY AreaSteps
<1>2. ItemsInv'
  BY <1>1, ItemsStep, ItemsRest DEF AreasInv
<1> QED
  BY <1>1, <1>2, GroupsStep, WantStep, LinksStep, BudgetsStep DEF AreasInv

LEMMA AreasAlways == AreasSpec => []AreasInv
BY AreasBegin, AreasStep, PTL DEF AreasSpec

-----------------------------------------------------------------------------

\* A store's group is never itself merged away, whatever merges and unmerges are
\* called for, also by two at once (store_service.py merge: "groups stay one deep").
THEOREM GroupsStayOneDeep == AreasSpec => []StoreGroupsOneDeep
<1>1. AreasInv => StoreGroupsOneDeep
  BY DEF AreasInv, GroupsInv, HeldInv, StoreGroupsOneDeep
<1> QED
  BY <1>1, AreasAlways, PTL

\* One free year for an email and for an account, however many people and emails
\* there are and however long they try (waitlist_service.py redeem, _grant,
\* account_service.py delete_account).
THEOREM OneYearAlways == AreasSpec => []OneFreeYear
<1>1. AreasInv => OneFreeYear
  BY DEF AreasInv, AccountsInv, YearsInv, OneYear, OneFreeYear
<1> QED
  BY <1>1, AreasAlways, PTL

\* No budget outlives its category (category_service.py ensure_usable, delete).
THEOREM LimitsHaveCategories == AreasSpec => []BudgetsHaveCategories
<1>1. AreasInv => BudgetsHaveCategories
  BY DEF AreasInv, BudgetsInv, LedgerInv, BudgetsHaveCategories, HasLimit, Customs
<1> QED
  BY <1>1, AreasAlways, PTL

\* A link changes and verifies only the address its mail named, for the account it
\* was sent to (auth.py verify_email, confirm_email_change).
THEOREM LinksAreTrue == AreasSpec => LinksDoWhatTheySay
<1>1. ASSUME AreasInv, [AreasNext]_areasVars PROVE [OnlyAsMailed]_accountVars
  BY <1>1, AreaSteps, LinksStep DEF AreasInv
<1> QED
  BY <1>1, AreasAlways, PTL DEF AreasSpec, LinksDoWhatTheySay

\* An edit changes what it names and keeps the rest, also where another screen
\* or another device saves at the same time: with no call under way the server
\* holds what the user set last in each field of the alert settings, and an update
\* of a category changes what was typed (users.py update_me, price_alert_service.py
\* update_settings, categories.tsx onEditorSave, category_service.py update).
THEOREM EditsKeep == AreasSpec => EditsKeepTheRest
<1>1. AreasInv' => [FieldsAsSet']_alertVars
  <2>1. (WantInv => FieldsAsSet)'
    BY WantedIsHeld, PTL
  <2> QED
    BY <2>1 DEF AreasInv
<1>2. AreasInv => [KeepsTheRest]_budgetVars
  BY UpdatesKeep DEF AreasInv
<1> QED
  BY <1>1, <1>2, AreasAlways, PTL DEF EditsKeepTheRest, CategoriesKeepTheRest

\* What an item screen offers from data that was true, with nothing else under way,
\* the server accepts: answers, links, splits, renames, and taking a name apart
\* (canSaveSplit and split_lines, the prompt and _get_pending, merge, split_alias).
THEOREM OffersHold == AreasSpec => []OffersAreAccepted
<1>1. AreasInv => OffersAreAccepted
  BY DEF AreasInv, ItemsInv, RequestsOK, FairOK, OffersAreAccepted
<1> QED
  BY <1>1, AreasAlways, PTL

\* An answer, a link or a split that was made takes the user to an item that still
\* is, however the screens were left, reopened and refetched in between (match.tsx
\* close and advance, merge.tsx doLink, split.tsx onSave).
THEOREM LandsAlive == AreasSpec => LandsOnALiveItem
<1>1. ASSUME AreasInv, [AreasNext]_areasVars
      PROVE  LandsAll
  BY <1>1, AreaSteps, ItemsStep, ItemsRest DEF AreasInv
<1>2. LandsAll =>
        \A h \in {"answer", "merge", "split"} :
          /\ calls[h].pc = "done" /\ calls'[h].pc = "none" /\ calls[h].alone
          /\ calls[h].what # "reject"
          /\ h = "answer" => prompt.into \in catalogue.alive \cup {NoItem}
          /\ itemStack' # itemStack /\ Last(itemStack').kind = "detail"
          => Last(itemStack').item \in catalogue.alive
  BY DEF LandsAll, Lands, AtTop, Last
<1> QED
  BY <1>1, <1>2, AreasAlways, PTL DEF AreasSpec, LandsOnALiveItem
=============================================================================
