----------------------------- MODULE FoldProofs -----------------------------
(***************************************************************************)
(* Folds over finite sets, as the community modules define them: a fold is *)
(* a recursive function on the subsets of a set, and what is proved here   *)
(* is that there is such a function, and that its values stay in a set     *)
(* the fold's step keeps.                                                  *)
(***************************************************************************)
EXTENDS Integers, FiniteSets, Functions, FiniteSetTheorems, WellFoundedInduction, TLAPS

\* Induction over the natural numbers, for a set of them.
LEMMA SetInduction ==
  ASSUME NEW S, 0 \in S, \A n \in Nat : n \in S => n + 1 \in S
  PROVE  Nat \subseteq S
<1> SUFFICES ASSUME Nat \ S # {} PROVE FALSE
  OBVIOUS
<1> DEFINE R == OpToRel(<, Nat)
<1>0. IsWellFoundedOn(R, Nat)
  BY NatLessThanWellFounded
<1>1. \E n \in Nat \ S : \A m \in Nat \ S : <<m, n>> \notin R
  <2> HIDE DEF R
  <2> QED
    BY <1>0, WFMin
<1>2. PICK n \in Nat \ S : \A m \in Nat \ S : ~ (m < n)
  BY <1>1 DEF OpToRel
<1>3. n # 0 /\ n - 1 \in Nat /\ n - 1 \in S
  BY <1>2
<1> QED
  BY <1>2, <1>3

-----------------------------------------------------------------------------
(* A function on the subsets of S, defined by taking one element at a time. *)

Subs(S, n) == {s \in SUBSET S : Cardinality(s) <= n}
Picks(pick, S) == \A s \in SUBSET S : s # {} => pick[s] \in s
Value(g, pick, step, base, s) == IF s = {} THEN base ELSE step[pick[s]][g[s \ {pick[s]}]]
Solves(g, S, pick, step, base) == \A s \in SUBSET S : g[s] = Value(g, pick, step, base, s)
Keeps(step, S, V) == \A x \in S, v \in V : step[x][v] \in V
KeepBoth(step1, step2, S, R) ==
  \A v1, v2 : <<v1, v2>> \in R => \A x \in S : <<step1[x][v1], step2[x][v2]>> \in R

\* The library's folds take whichever element CHOOSE does.
AnyOf(S) == [s \in SUBSET S |-> CHOOSE x \in s : TRUE]

LEMMA AnyPicks == ASSUME NEW S PROVE Picks(AnyOf(S), S)
BY DEF AnyOf, Picks

\* Without the element picked, a set has one element less.
LEMMA OneLess ==
  ASSUME NEW S, IsFiniteSet(S), NEW s \in SUBSET S, NEW x \in s, NEW n \in Nat,
         Cardinality(s) <= n
  PROVE  n > 0 /\ s \ {x} \in Subs(S, n - 1)
<1>1. IsFiniteSet(s) /\ Cardinality(s) \in Nat /\ Cardinality(s \ {x}) \in Nat
  BY FS_Subset, FS_CardinalityType
<1>2. Cardinality(s \ {x}) = Cardinality(s) - 1
  BY <1>1, FS_RemoveElement
<1> QED
  BY <1>1, <1>2 DEF Subs

\* Only the empty set has no elements, and every set has its number.
LEMMA SubsOf ==
  ASSUME NEW S, IsFiniteSet(S)
  PROVE  /\ Subs(S, 0) = {{}}
         /\ Cardinality(S) \in Nat /\ Subs(S, Cardinality(S)) = SUBSET S
<1>1. Cardinality(S) \in Nat
  BY FS_CardinalityType
<1>2. ASSUME NEW s \in SUBSET S
      PROVE  Cardinality(s) \in Nat /\ Cardinality(s) <= Cardinality(S)
             /\ (Cardinality(s) = 0 <=> s = {})
  BY FS_Subset, FS_CardinalityType, FS_EmptySet
<1> QED
  BY <1>1, <1>2 DEF Subs

\* There is such a function, whatever the step.
LEMMA FiniteRecursion ==
  ASSUME NEW S, IsFiniteSet(S), NEW base,
         NEW pick, Picks(pick, S), NEW step
  PROVE  \E g : g = [s \in SUBSET S |-> g[s]] /\ Solves(g, S, pick, step, base)
<1> USE DEF Picks
<1> DEFINE Good == {n \in Nat : \E g : \A s \in Subs(S, n) : g[s] = Value(g, pick, step, base, s)}
<1>1. 0 \in Good
  <2> DEFINE g == [s \in Subs(S, 0) |-> base]
  <2>1. \A s \in Subs(S, 0) : g[s] = Value(g, pick, step, base, s)
    BY SubsOf DEF Value
  <2> QED
    BY <2>1
<1>2. ASSUME NEW n \in Nat, n \in Good PROVE n + 1 \in Good
  <2>1. PICK g : \A s \in Subs(S, n) : g[s] = Value(g, pick, step, base, s)
    BY <1>2
  <2> DEFINE h == [s \in Subs(S, n + 1) |-> Value(g, pick, step, base, s)]
  <2>2. ASSUME NEW s \in Subs(S, n + 1), s # {}
        PROVE  s \ {pick[s]} \in Subs(S, n) /\ pick[s] \in s
    <3>1. s \in SUBSET S /\ Cardinality(s) <= n + 1 /\ pick[s] \in s /\ n + 1 \in Nat
      BY <2>2 DEF Subs
    <3>2. s \ {pick[s]} \in Subs(S, (n + 1) - 1)
      BY <3>1, OneLess
    <3> QED
      BY <3>1, <3>2
  <2>3. ASSUME NEW s \in Subs(S, n) PROVE s \in Subs(S, n + 1) /\ h[s] = g[s]
    <3>1. s \in SUBSET S /\ Cardinality(s) \in Nat /\ Cardinality(s) <= n
      BY FS_Subset, FS_CardinalityType DEF Subs
    <3>2. s \in Subs(S, n + 1)
      BY <3>1 DEF Subs
    <3> QED
      BY <2>1, <3>2
  <2>4. ASSUME NEW s \in Subs(S, n + 1) PROVE h[s] = Value(h, pick, step, base, s)
    BY <2>2, <2>3 DEF Value
  <2> HIDE DEF h
  <2>5. \E f : \A s \in Subs(S, n + 1) : f[s] = Value(f, pick, step, base, s)
    BY <2>4
  <2> QED
    BY <2>5
<1>3. Nat \subseteq Good
  <2> HIDE DEF Good
  <2> QED
    BY <1>1, <1>2, SetInduction
<1>4. PICK g : \A s \in SUBSET S : g[s] = Value(g, pick, step, base, s)
  <2>1. Cardinality(S) \in Good
    BY <1>3, SubsOf
  <2>2. \E g : \A s \in Subs(S, Cardinality(S)) : g[s] = Value(g, pick, step, base, s)
    BY <2>1
  <2> QED
    BY <2>2, SubsOf
<1> DEFINE h == [s \in SUBSET S |-> g[s]]
<1>5. ASSUME NEW s \in SUBSET S PROVE h[s] = Value(h, pick, step, base, s)
  <2>1. CASE s = {}
    BY <1>4, <2>1 DEF Value
  <2>2. CASE s # {}
    <3>1. s \ {pick[s]} \in SUBSET S
      OBVIOUS
    <3> QED
      BY <1>4, <2>2, <3>1 DEF Value
  <2> QED
    BY <2>1, <2>2
<1>6. h = [s \in SUBSET S |-> h[s]]
  OBVIOUS
<1> HIDE DEF h
<1> QED
  BY <1>5, <1>6 DEF Solves

\* Its values are in every set that holds the base and that the step keeps.
LEMMA RecursionStays ==
  ASSUME NEW S, IsFiniteSet(S), NEW base,
         NEW pick, Picks(pick, S), NEW step, NEW V, base \in V, Keeps(step, S, V),
         NEW g, Solves(g, S, pick, step, base)
  PROVE  \A s \in SUBSET S : g[s] \in V
<1> USE DEF Picks, Keeps
<1>0. \A s \in SUBSET S : g[s] = Value(g, pick, step, base, s)
  BY DEF Solves
<1> DEFINE Good == {n \in Nat : \A s \in Subs(S, n) : g[s] \in V}
<1>1. 0 \in Good
  BY <1>0, SubsOf DEF Value
<1>2. ASSUME NEW n \in Nat, n \in Good PROVE n + 1 \in Good
  <2>1. ASSUME NEW s \in Subs(S, n + 1), s # {} PROVE g[s] \in V
    <3>1. s \in SUBSET S /\ Cardinality(s) <= n + 1 /\ pick[s] \in s /\ n + 1 \in Nat
      BY <2>1 DEF Subs
    <3>2. s \ {pick[s]} \in Subs(S, (n + 1) - 1) /\ (n + 1) - 1 = n
      BY <3>1, OneLess
    <3>3. g[s \ {pick[s]}] \in V
      BY <1>2, <3>2
    <3>4. g[s] = step[pick[s]][g[s \ {pick[s]}]]
      BY <1>0, <2>1, <3>1 DEF Value
    <3> QED
      BY <3>1, <3>3, <3>4
  <2>2. g[{}] \in V
    BY <1>0 DEF Value
  <2>3. \A s \in Subs(S, n + 1) : g[s] \in V
    BY <2>1, <2>2
  <2>4. n + 1 \in Nat
    OBVIOUS
  <2> QED
    BY <2>3, <2>4
<1>3. Nat \subseteq Good
  <2> HIDE DEF Good
  <2> QED
    BY <1>1, <1>2, SetInduction
<1> QED
  BY <1>3, SubsOf

\* Two of them over the same picks relate as their steps keep them related.
LEMMA RecursionsRelate ==
  ASSUME NEW S, IsFiniteSet(S), NEW base1, NEW base2,
         NEW pick, Picks(pick, S), NEW step1, NEW step2,
         NEW R, <<base1, base2>> \in R, KeepBoth(step1, step2, S, R),
         NEW g1, Solves(g1, S, pick, step1, base1),
         NEW g2, Solves(g2, S, pick, step2, base2)
  PROVE  \A s \in SUBSET S : <<g1[s], g2[s]>> \in R
<1> USE DEF Picks, KeepBoth
<1>0. \A s \in SUBSET S : /\ g1[s] = Value(g1, pick, step1, base1, s)
                          /\ g2[s] = Value(g2, pick, step2, base2, s)
  BY DEF Solves
<1> DEFINE Good == {n \in Nat : \A s \in Subs(S, n) : <<g1[s], g2[s]>> \in R}
<1>1. 0 \in Good
  <2>1. {} \in SUBSET S /\ <<g1[{}], g2[{}]>> \in R
    BY <1>0 DEF Value
  <2> QED
    BY <2>1, SubsOf
<1>2. ASSUME NEW n \in Nat, n \in Good PROVE n + 1 \in Good
  <2>1. ASSUME NEW s \in Subs(S, n + 1), s # {} PROVE <<g1[s], g2[s]>> \in R
    <3>1. s \in SUBSET S /\ Cardinality(s) <= n + 1 /\ pick[s] \in s /\ n + 1 \in Nat
      BY <2>1 DEF Subs
    <3>2. s \ {pick[s]} \in Subs(S, (n + 1) - 1) /\ (n + 1) - 1 = n
      BY <3>1, OneLess
    <3>3. <<g1[s \ {pick[s]}], g2[s \ {pick[s]}]>> \in R
      BY <1>2, <3>2
    <3>4. /\ g1[s] = step1[pick[s]][g1[s \ {pick[s]}]]
          /\ g2[s] = step2[pick[s]][g2[s \ {pick[s]}]]
      BY <1>0, <2>1, <3>1 DEF Value
    <3>5. pick[s] \in S
      BY <3>1
    <3>6. <<step1[pick[s]][g1[s \ {pick[s]}]], step2[pick[s]][g2[s \ {pick[s]}]]>> \in R
      BY <3>3, <3>5
    <3> QED
      BY <3>4, <3>6
  <2>2. {} \in SUBSET S /\ <<g1[{}], g2[{}]>> \in R
    BY <1>0 DEF Value
  <2>3. \A s \in Subs(S, n + 1) : <<g1[s], g2[s]>> \in R
    BY <2>1, <2>2
  <2>4. n + 1 \in Nat
    OBVIOUS
  <2> QED
    BY <2>3, <2>4
<1>3. Nat \subseteq Good
  <2> HIDE DEF Good
  <2> QED
    BY <1>1, <1>2, SetInduction
<1> QED
  BY <1>3, SubsOf
=============================================================================
