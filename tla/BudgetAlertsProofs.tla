------------------------- MODULE BudgetAlertsProofs -------------------------
(***************************************************************************)
(* Proofs about BudgetAlerts, for any number of receipts, budgets and      *)
(* requests: the rows keep their types, no threshold notifies twice, and,  *)
(* for requests about unrelated receipts, none is missed and none is false. *)
(***************************************************************************)
EXTENDS BudgetAlerts, FoldProofs

-----------------------------------------------------------------------------
(* Totals (SUM over the lines) and rollover (fold over the periods).        *)

Adding(f) == [x \in DOMAIN f |-> [v \in Nat |-> f[x] + v]]

LEMMA AddingAdds ==
  ASSUME NEW S, NEW f \in [S -> Nat]
  PROVE  Keeps(Adding(f), S, Nat) /\ \A x \in S, v \in Nat : Adding(f)[x][v] = f[x] + v
BY DEF Adding, Keeps

\* A total is the value of a function on the sets of its receipts.
LEMMA TotalIs ==
  ASSUME NEW S, IsFiniteSet(S), NEW f \in [S -> Nat]
  PROVE  \E g : /\ Total(f) = g[S]
                /\ \A s \in SUBSET S : g[s] \in Nat
                /\ Solves(g, S, AnyOf(S), Adding(f), 0)
<1> DEFINE Is(g) == g = [s \in SUBSET S |->
                           IF s = {} THEN 0
                           ELSE f[CHOOSE x \in s : TRUE] + g[s \ {CHOOSE x \in s : TRUE}]]
           h == CHOOSE g : Is(g)
           V == Nat \cup {h[s] : s \in SUBSET S}
           over == [x \in S |-> [v \in V |-> f[x] + v]]
<1>0. Keeps(Adding(f), S, Nat) /\ \A x \in S, v \in Nat : Adding(f)[x][v] = f[x] + v
  BY AddingAdds
<1>1. Total(f) = h[S]
  BY DEF Total, FoldFunction, FoldFunctionOnSet, MapThenFoldSet
<1>2. PICK g : g = [s \in SUBSET S |-> g[s]] /\ Solves(g, S, AnyOf(S), Adding(f), 0)
  BY AnyPicks, FiniteRecursion
<1>3. \A s \in SUBSET S : g[s] \in Nat
  BY <1>0, <1>2, AnyPicks, RecursionStays, 0 \in Nat
<1>4. ASSUME NEW s \in SUBSET S
      PROVE  g[s] = IF s = {} THEN 0
                    ELSE f[CHOOSE x \in s : TRUE] + g[s \ {CHOOSE x \in s : TRUE}]
  <2>1. AnyOf(S)[s] = CHOOSE x \in s : TRUE
    BY DEF AnyOf
  <2>2. CASE s # {}
    <3>1. AnyOf(S)[s] \in S /\ g[s \ {AnyOf(S)[s]}] \in Nat
      BY <1>3, <2>2, AnyPicks DEF Picks
    <3>2. g[s] = Adding(f)[AnyOf(S)[s]][g[s \ {AnyOf(S)[s]}]]
      BY <1>2, <2>2 DEF Value, Solves
    <3>3. g[s] = f[AnyOf(S)[s]] + g[s \ {AnyOf(S)[s]}]
      BY <1>0, <3>1, <3>2
    <3> QED
      BY <2>1, <2>2, <3>3
  <2> QED
    BY <1>2, <2>2 DEF Value, Solves
<1>5. Is(g)
  BY <1>2, <1>4
<1>6. Is(h)
  BY <1>5
<1>7. ASSUME NEW s \in SUBSET S, s # {}
      PROVE  /\ AnyOf(S)[s] \in S /\ h[s \ {AnyOf(S)[s]}] \in V
             /\ h[s] = f[AnyOf(S)[s]] + h[s \ {AnyOf(S)[s]}]
  <2>1. AnyOf(S)[s] \in S /\ AnyOf(S)[s] = CHOOSE x \in s : TRUE
    BY <1>7, AnyPicks DEF AnyOf, Picks
  <2> QED
    BY <1>6, <1>7, <2>1
<1>8. h[{}] = 0
  BY <1>6
<1> HIDE DEF h
<1>9. Solves(h, S, AnyOf(S), over, 0)
  BY <1>7, <1>8 DEF Value, Solves
<1>10. \A x \in S, v \in Nat : over[x][v] = f[x] + v
  OBVIOUS
<1> HIDE DEF over
<1>11. Keeps(over, S, Nat)
  BY <1>10 DEF Keeps
<1>12. \A s \in SUBSET S : h[s] \in Nat
  BY <1>9, <1>11, AnyPicks, RecursionStays, 0 \in Nat
<1>13. ASSUME NEW s \in SUBSET S, s # {}
       PROVE  h[s] = Adding(f)[AnyOf(S)[s]][h[s \ {AnyOf(S)[s]}]]
  <2>1. h[s \ {AnyOf(S)[s]}] \in Nat
    BY <1>12
  <2> QED
    BY <1>0, <1>7, <1>13, <2>1
<1>14. Solves(h, S, AnyOf(S), Adding(f), 0)
  BY <1>8, <1>13 DEF Value, Solves
<1> QED
  BY <1>1, <1>12, <1>14

\* A total of numbers is one, and no more than that of numbers as large.
LEMMA TotalMonotone ==
  ASSUME NEW S, IsFiniteSet(S), NEW f1 \in [S -> Nat], NEW f2 \in [S -> Nat],
         \A x \in S : f1[x] <= f2[x]
  PROVE  Total(f1) \in Nat /\ Total(f2) \in Nat /\ Total(f1) <= Total(f2)
<1> DEFINE R == {pair \in Nat \X Nat : pair[1] <= pair[2]}
<1>1. PICK g1 : /\ Total(f1) = g1[S]
                /\ \A s \in SUBSET S : g1[s] \in Nat
                /\ Solves(g1, S, AnyOf(S), Adding(f1), 0)
  BY TotalIs
<1>2. PICK g2 : /\ Total(f2) = g2[S]
                /\ \A s \in SUBSET S : g2[s] \in Nat
                /\ Solves(g2, S, AnyOf(S), Adding(f2), 0)
  BY TotalIs
<1>3. ASSUME NEW x \in S, NEW v1, NEW v2, <<v1, v2>> \in R
      PROVE  <<Adding(f1)[x][v1], Adding(f2)[x][v2]>> \in R
  <2>1. v1 \in Nat /\ v2 \in Nat /\ v1 <= v2
    BY <1>3
  <2>2. Adding(f1)[x][v1] = f1[x] + v1 /\ Adding(f2)[x][v2] = f2[x] + v2
    BY <2>1, AddingAdds
  <2> QED
    BY <2>1, <2>2
<1>4. <<0, 0>> \in R
  OBVIOUS
<1>5. \A s \in SUBSET S : <<g1[s], g2[s]>> \in R
  <2> HIDE DEF R
  <2>1. KeepBoth(Adding(f1), Adding(f2), S, R)
    BY <1>3 DEF KeepBoth
  <2> QED
    BY <1>1, <1>2, <1>4, <2>1, AnyPicks, RecursionsRelate
<1> QED
  BY <1>1, <1>2, <1>5

LEMMA MaxIn ==
  ASSUME NEW n \in Nat, NEW s \in SUBSET (1 .. n), s # {}
  PROVE  Max(s) \in s
<1> DEFINE Good == {k \in Nat : \A u \in SUBSET (1 .. k) : u # {} => \E x \in u : \A y \in u : x >= y}
<1>1. 0 \in Good
  <2>1. 1 .. 0 = {}
    OBVIOUS
  <2> QED
    BY <2>1
<1>2. ASSUME NEW k \in Nat, k \in Good PROVE k + 1 \in Good
  <2>1. ASSUME NEW u \in SUBSET (1 .. (k + 1)), u # {} PROVE \E x \in u : \A y \in u : x >= y
    <3>1. CASE k + 1 \in u
      BY <3>1
    <3>2. CASE k + 1 \notin u
      <4>1. u \in SUBSET (1 .. k)
        BY <3>2
      <4> QED
        BY <1>2, <2>1, <4>1
    <3> QED
      BY <3>1, <3>2
  <2>2. \A u \in SUBSET (1 .. (k + 1)) : u # {} => \E x \in u : \A y \in u : x >= y
    BY <2>1
  <2> QED
    BY <2>2
<1>3. Nat \subseteq Good
  <2> HIDE DEF Good
  <2> QED
    BY <1>1, <1>2, SetInduction
<1>4. \E x \in s : \A y \in s : x >= y
  BY <1>3
<1> QED
  BY <1>4 DEF Max

LastOf(S) == [s \in SUBSET S |-> Max(s)]
Rolling(amount, spent) ==
  [i \in DOMAIN spent |-> [v \in Nat |-> IF spent[i] < amount + v THEN amount + v - spent[i] ELSE 0]]

LEMMA LastPicks == ASSUME NEW n \in Nat PROVE Picks(LastOf(1 .. n), 1 .. n) /\ IsFiniteSet(1 .. n)
<1>1. ASSUME NEW s \in SUBSET (1 .. n), s # {} PROVE LastOf(1 .. n)[s] \in s
  BY <1>1, MaxIn DEF LastOf
<1>2. IsFiniteSet(1 .. n)
  BY FS_Interval
<1> QED
  BY <1>1, <1>2 DEF Picks

LEMMA RollingRolls ==
  ASSUME NEW n \in Nat, NEW spent \in [1 .. n -> Nat], NEW amount \in Nat
  PROVE  /\ Keeps(Rolling(amount, spent), 1 .. n, Nat)
         /\ \A i \in 1 .. n, v \in Nat :
              Rolling(amount, spent)[i][v] = IF spent[i] < amount + v THEN amount + v - spent[i] ELSE 0
BY DEF Rolling, Keeps

\* What rolls over is the value of a function on the sets of periods.
LEMMA RolledIs ==
  ASSUME NEW n \in Nat, NEW spent \in [1 .. n -> Nat], NEW amount \in Nat, NEW opening \in Nat
  PROVE  \E g : /\ Rolled(amount, opening, spent) = g[1 .. n]
                /\ \A s \in SUBSET (1 .. n) : g[s] \in Nat
                /\ Solves(g, 1 .. n, LastOf(1 .. n), Rolling(amount, spent), opening)
<1> DEFINE S == 1 .. n
           next(i, v) == IF spent[i] < amount + v THEN amount + v - spent[i] ELSE 0
           Is(g) == g = [s \in SUBSET S |-> IF s = {} THEN opening ELSE next(Max(s), g[s \ {Max(s)}])]
           h == CHOOSE g : Is(g)
           V == Nat \cup {h[s] : s \in SUBSET S}
           over == [i \in S |-> [v \in V |-> next(i, v)]]
<1>0. /\ Keeps(Rolling(amount, spent), S, Nat)
      /\ \A i \in S, v \in Nat : Rolling(amount, spent)[i][v] = next(i, v)
  BY RollingRolls
<1>1. Rolled(amount, opening, spent) = h[S]
  BY DEF Rolled, FoldLeft, MapThenFoldSet
<1>2. Picks(LastOf(S), S) /\ IsFiniteSet(S)
  BY LastPicks
<1>3. PICK g : g = [s \in SUBSET S |-> g[s]] /\ Solves(g, S, LastOf(S), Rolling(amount, spent), opening)
  <2> HIDE DEF S
  <2> QED
    BY <1>2, FiniteRecursion
<1>4. \A s \in SUBSET S : g[s] \in Nat
  <2> HIDE DEF S
  <2> QED
    BY <1>0, <1>2, <1>3, RecursionStays
<1>5. ASSUME NEW s \in SUBSET S
      PROVE  g[s] = IF s = {} THEN opening ELSE next(Max(s), g[s \ {Max(s)}])
  <2>1. LastOf(S)[s] = Max(s)
    BY DEF LastOf
  <2>2. CASE s # {}
    <3>1. LastOf(S)[s] \in S /\ g[s \ {LastOf(S)[s]}] \in Nat
      BY <1>2, <1>4, <2>2 DEF Picks
    <3>2. g[s] = Rolling(amount, spent)[LastOf(S)[s]][g[s \ {LastOf(S)[s]}]]
      BY <1>3, <2>2 DEF Value, Solves
    <3> HIDE DEF next, S
    <3>3. g[s] = next(LastOf(S)[s], g[s \ {LastOf(S)[s]}])
      BY <1>0, <3>1, <3>2
    <3> QED
      BY <2>1, <2>2, <3>3
  <2> QED
    BY <1>3, <2>2 DEF Value, Solves
<1>6. Is(g)
  <2> HIDE DEF next
  <2> QED
    BY <1>3, <1>5
<1>7. Is(h)
  BY <1>6
<1>8. ASSUME NEW s \in SUBSET S, s # {}
      PROVE  /\ LastOf(S)[s] \in S /\ h[s \ {LastOf(S)[s]}] \in V
             /\ h[s] = next(LastOf(S)[s], h[s \ {LastOf(S)[s]}])
  <2>1. LastOf(S)[s] \in S /\ LastOf(S)[s] = Max(s)
    BY <1>2, <1>8 DEF LastOf, Picks
  <2> HIDE DEF next
  <2> QED
    BY <1>7, <1>8, <2>1
<1>9. h[{}] = opening
  BY <1>7
<1> HIDE DEF h, next
<1>10. Solves(h, S, LastOf(S), over, opening)
  BY <1>8, <1>9 DEF Value, Solves
<1>11. \A i \in S, v \in Nat : over[i][v] = next(i, v)
  OBVIOUS
<1> HIDE DEF over
<1>12. Keeps(over, S, Nat)
  BY <1>0, <1>11 DEF Keeps
<1>13. \A s \in SUBSET S : h[s] \in Nat
  <2> HIDE DEF S
  <2> QED
    BY <1>2, <1>10, <1>12, RecursionStays
<1>14. ASSUME NEW s \in SUBSET S, s # {}
       PROVE  h[s] = Rolling(amount, spent)[LastOf(S)[s]][h[s \ {LastOf(S)[s]}]]
  <2>1. h[s \ {LastOf(S)[s]}] \in Nat
    BY <1>13
  <2> QED
    BY <1>0, <1>8, <1>14, <2>1
<1>15. Solves(h, S, LastOf(S), Rolling(amount, spent), opening)
  BY <1>9, <1>14 DEF Value, Solves
<1> QED
  BY <1>1, <1>13, <1>15

\* What rolls over is a number, and no less when no more was spent.
LEMMA RolledMonotone ==
  ASSUME NEW n \in Nat, NEW less \in [1 .. n -> Nat], NEW more \in [1 .. n -> Nat],
         \A i \in 1 .. n : less[i] <= more[i], NEW amount \in Nat, NEW opening \in Nat
  PROVE  /\ Rolled(amount, opening, more) \in Nat /\ Rolled(amount, opening, less) \in Nat
         /\ Rolled(amount, opening, more) <= Rolled(amount, opening, less)
<1> DEFINE R == {pair \in Nat \X Nat : pair[1] <= pair[2]}
<1>0. /\ \A i \in 1 .. n, v \in Nat :
           Rolling(amount, more)[i][v] = IF more[i] < amount + v THEN amount + v - more[i] ELSE 0
      /\ \A i \in 1 .. n, v \in Nat :
           Rolling(amount, less)[i][v] = IF less[i] < amount + v THEN amount + v - less[i] ELSE 0
  BY RollingRolls
<1>1. PICK g1 : /\ Rolled(amount, opening, more) = g1[1 .. n]
                /\ \A s \in SUBSET (1 .. n) : g1[s] \in Nat
                /\ Solves(g1, 1 .. n, LastOf(1 .. n), Rolling(amount, more), opening)
  BY RolledIs
<1>2. PICK g2 : /\ Rolled(amount, opening, less) = g2[1 .. n]
                /\ \A s \in SUBSET (1 .. n) : g2[s] \in Nat
                /\ Solves(g2, 1 .. n, LastOf(1 .. n), Rolling(amount, less), opening)
  BY RolledIs
<1>3. ASSUME NEW i \in 1 .. n, NEW v1, NEW v2, <<v1, v2>> \in R
      PROVE  <<Rolling(amount, more)[i][v1], Rolling(amount, less)[i][v2]>> \in R
  <2>1. v1 \in Nat /\ v2 \in Nat /\ v1 <= v2
    BY <1>3
  <2>2. /\ Rolling(amount, more)[i][v1] = IF more[i] < amount + v1 THEN amount + v1 - more[i] ELSE 0
        /\ Rolling(amount, less)[i][v2] = IF less[i] < amount + v2 THEN amount + v2 - less[i] ELSE 0
    BY <1>0, <2>1
  <2>3. more[i] \in Nat /\ less[i] \in Nat /\ less[i] <= more[i]
    OBVIOUS
  <2> DEFINE a == Rolling(amount, more)[i][v1]
             b == Rolling(amount, less)[i][v2]
  <2>4. a \in Nat /\ b \in Nat
    BY <2>1, <2>2, <2>3
  <2>5. a <= b
    <3>1. CASE more[i] < amount + v1
      <4>1. less[i] < amount + v2
        BY <2>1, <2>3, <3>1
      <4>2. a = amount + v1 - more[i] /\ b = amount + v2 - less[i]
        BY <2>2, <3>1, <4>1
      <4> HIDE DEF a, b
      <4> QED
        BY <2>1, <2>3, <4>2
    <3>2. CASE ~(more[i] < amount + v1)
      <4>1. a = 0
        BY <2>2, <3>2
      <4> HIDE DEF a, b
      <4> QED
        BY <2>4, <4>1
    <3> QED
      BY <3>1, <3>2
  <2> HIDE DEF a, b
  <2>6. <<a, b>> \in R
    BY <2>4, <2>5
  <2> QED
    BY <2>6 DEF a, b
<1>4. <<opening, opening>> \in R
  OBVIOUS
<1>5. \A s \in SUBSET (1 .. n) : <<g1[s], g2[s]>> \in R
  <2> HIDE DEF R
  <2> DEFINE S == 1 .. n
             pick == LastOf(S)
             roll1 == Rolling(amount, more)
             roll2 == Rolling(amount, less)
  <2>1. KeepBoth(Rolling(amount, more), Rolling(amount, less), S, R)
    BY <1>3 DEF KeepBoth
  <2>2. Picks(LastOf(S), S) /\ IsFiniteSet(S)
    BY LastPicks
  <2>3. /\ Solves(g1, S, LastOf(S), Rolling(amount, more), opening)
        /\ Solves(g2, S, LastOf(S), Rolling(amount, less), opening)
    BY <1>1, <1>2
  <2>4. \A s \in SUBSET S : <<g1[s], g2[s]>> \in R
    <3>1. Picks(pick, S) /\ IsFiniteSet(S) /\ KeepBoth(roll1, roll2, S, R)
      BY <2>1, <2>2
    <3>2. Solves(g1, S, pick, roll1, opening) /\ Solves(g2, S, pick, roll2, opening)
      BY <2>3
    <3> HIDE DEF S, pick, roll1, roll2
    <3> QED
      BY <1>4, <3>1, <3>2, RecursionsRelate
  <2> QED
    BY <2>4
<1> QED
  BY <1>1, <1>2, <1>5


-----------------------------------------------------------------------------
(* Spend, carries and breaches over two sets of rows.                      *)

\* In period p no receipt adds more over the rows rc1 and ln1.
Fewer(rc1, ln1, rc2, ln2, p) ==
  \A r \in Receipt, b \in Budget : Adds(rc1[r], ln1[r], b, p) <= Adds(rc2[r], ln2[r], b, p)

LEMMA AddsNat ==
  ASSUME NEW receipt, NEW item \in LineRow, NEW b, NEW p
  PROVE  Adds(receipt, item, b, p) \in Nat
BY DomainAssumption DEF Adds, LineRow

LEMMA SpendFewer ==
  ASSUME NEW rc1, NEW ln1 \in [Receipt -> LineRow], NEW rc2, NEW ln2 \in [Receipt -> LineRow],
         NEW b \in Budget, NEW p, Fewer(rc1, ln1, rc2, ln2, p)
  PROVE  /\ Spend(rc1, ln1, b, p) \in Nat /\ Spend(rc2, ln2, b, p) \in Nat
         /\ Spend(rc1, ln1, b, p) <= Spend(rc2, ln2, b, p)
<1> DEFINE f1 == [r \in Receipt |-> Adds(rc1[r], ln1[r], b, p)]
           f2 == [r \in Receipt |-> Adds(rc2[r], ln2[r], b, p)]
<1>1. f1 \in [Receipt -> Nat] /\ f2 \in [Receipt -> Nat]
  BY AddsNat
<1>2. \A r \in Receipt : f1[r] <= f2[r]
  BY DEF Fewer
<1>3. Spend(rc1, ln1, b, p) = Total(f1) /\ Spend(rc2, ln2, b, p) = Total(f2)
  BY DEF Spend
<1>4. IsFiniteSet(Receipt)
  BY RowAssumption
<1>5. Total(f1) \in Nat /\ Total(f2) \in Nat /\ Total(f1) <= Total(f2)
  <2> HIDE DEF f1, f2
  <2> QED
    BY <1>1, <1>2, <1>4, TotalMonotone
<1> QED
  BY <1>3, <1>5

LEMMA SpendNat ==
  ASSUME NEW rc, NEW ln \in [Receipt -> LineRow], NEW b \in Budget, NEW p
  PROVE  Spend(rc, ln, b, p) \in Nat
<1>1. Fewer(rc, ln, rc, ln, p)
  BY AddsNat DEF Fewer
<1> QED
  BY <1>1, SpendFewer

\* Where no more is spent before p, no less rolls over into p.
LEMMA CarryFewer ==
  ASSUME NEW rc1, NEW ln1 \in [Receipt -> LineRow], NEW rc2, NEW ln2 \in [Receipt -> LineRow],
         NEW b \in Budget, NEW row \in BudgetRow, NEW p \in Period,
         RolloverRunning(row) => \A d \in Period : d < p => Fewer(rc1, ln1, rc2, ln2, d)
  PROVE  /\ Carry(rc1, ln1, row, b, p) \in Nat /\ Carry(rc2, ln2, row, b, p) \in Nat
         /\ Carry(rc2, ln2, row, b, p) <= Carry(rc1, ln1, row, b, p)
<1>1. CASE ~(RolloverRunning(row) /\ p >= row.start)
  BY <1>1 DEF Carry
<1>2. CASE RolloverRunning(row) /\ p >= row.start
  <2> DEFINE n == p - row.start
             s1 == [i \in 1 .. n |-> Spend(rc1, ln1, b, row.start + i - 1)]
             s2 == [i \in 1 .. n |-> Spend(rc2, ln2, b, row.start + i - 1)]
  <2>1. /\ p \in Nat /\ row.start \in Nat \ {0} /\ n \in Nat
        /\ row.amount \in Nat /\ row.opening \in Nat
    <3>1. row.amount \in Nat /\ row.opening \in Nat /\ row.start \in Period
      BY <1>2, DomainAssumption DEF BudgetRow, RolloverRunning
    <3>2. \A d \in Period : d \in Nat \ {0}
      BY DomainAssumption DEF Period
    <3> QED
      BY <1>2, <3>1, <3>2
  <2>2. ASSUME NEW i \in 1 .. n
        PROVE  row.start + i - 1 \in Period /\ row.start + i - 1 < p
    BY <2>1, DomainAssumption DEF Period
  <2>3. ASSUME NEW i \in 1 .. n
        PROVE  s1[i] \in Nat /\ s2[i] \in Nat /\ s1[i] <= s2[i]
    <3>1. Fewer(rc1, ln1, rc2, ln2, row.start + i - 1)
      BY <1>2, <2>2
    <3> QED
      BY <3>1, SpendFewer
  <2>4. s1 \in [1 .. n -> Nat] /\ s2 \in [1 .. n -> Nat]
    BY <2>3
  <2>5. /\ Carry(rc1, ln1, row, b, p) = Rolled(row.amount, row.opening, s1)
        /\ Carry(rc2, ln2, row, b, p) = Rolled(row.amount, row.opening, s2)
    BY <1>2 DEF Carry
  <2>6. /\ Rolled(row.amount, row.opening, s1) \in Nat /\ Rolled(row.amount, row.opening, s2) \in Nat
        /\ Rolled(row.amount, row.opening, s2) <= Rolled(row.amount, row.opening, s1)
    <3>1. \A i \in 1 .. n : s1[i] <= s2[i]
      BY <2>3
    <3> HIDE DEF s1, s2, n
    <3> QED
      BY <2>1, <2>4, <3>1, RolledMonotone
  <2> QED
    BY <2>5, <2>6
<1> QED
  BY <1>1, <1>2

LEMMA CarryNat ==
  ASSUME NEW rc, NEW ln \in [Receipt -> LineRow], NEW b \in Budget,
         NEW row \in BudgetRow, NEW p \in Period
  PROVE  Carry(rc, ln, row, b, p) \in Nat
<1>1. \A d \in Period : Fewer(rc, ln, rc, ln, d)
  BY AddsNat DEF Fewer
<1> QED
  BY <1>1, CarryFewer

\* A receipt less cannot make a threshold be reached: it spends less in its
\* period and rolls more over into the later ones.
LEMMA FewerBreaches ==
  ASSUME NEW rc1, NEW ln1 \in [Receipt -> LineRow], NEW rc2, NEW ln2 \in [Receipt -> LineRow],
         NEW b \in Budget, budget[b] \in BudgetRow, NEW p \in Period,
         enabled \in SUBSET Threshold, Fewer(rc1, ln1, rc2, ln2, p),
         RolloverRunning(budget[b]) => \A d \in Period : d < p => Fewer(rc1, ln1, rc2, ln2, d)
  PROVE  PeriodBreaches(rc1, ln1, b, p) \subseteq PeriodBreaches(rc2, ln2, b, p)
<1> DEFINE spent1 == Spend(rc1, ln1, b, p)
           spent2 == Spend(rc2, ln2, b, p)
           limit1 == Limit(rc1, ln1, budget[b], b, p)
           limit2 == Limit(rc2, ln2, budget[b], b, p)
<1>1. spent1 \in Nat /\ spent2 \in Nat /\ spent1 <= spent2
  BY SpendFewer
<1>2. /\ Carry(rc1, ln1, budget[b], b, p) \in Nat /\ Carry(rc2, ln2, budget[b], b, p) \in Nat
      /\ Carry(rc2, ln2, budget[b], b, p) <= Carry(rc1, ln1, budget[b], b, p)
  BY CarryFewer
<1>3. budget[b].amount \in Nat
  BY DomainAssumption DEF BudgetRow
<1>4. limit1 \in Nat /\ limit2 \in Nat /\ limit2 <= limit1
  BY <1>2, <1>3 DEF Limit
<1>5. limit2 = 0 => limit1 = 0
  <2>1. CASE RolloverRunning(budget[b])
    BY <1>2, <1>3, <2>1 DEF Limit, RolloverRunning
  <2>2. CASE ~RolloverRunning(budget[b])
    BY <2>2 DEF Limit, Carry
  <2> QED
    BY <2>1, <2>2
<1>6. /\ PeriodBreaches(rc1, ln1, b, p) = IF limit1 = 0 THEN {t \in {100} : spent1 > 0}
                                         ELSE {t \in enabled : 100 * spent1 >= t * limit1}
      /\ PeriodBreaches(rc2, ln2, b, p) = IF limit2 = 0 THEN {t \in {100} : spent2 > 0}
                                         ELSE {t \in enabled : 100 * spent2 >= t * limit2}
  BY DEF PeriodBreaches
<1> HIDE DEF spent1, spent2, limit1, limit2
<1>7. CASE limit2 = 0
  BY <1>1, <1>5, <1>6, <1>7
<1>8. CASE limit2 # 0
  <2>1. CASE limit1 = 0
    BY <1>4, <1>8, <2>1
  <2>2. CASE limit1 # 0
    <3>1. ASSUME NEW t \in enabled, 100 * spent1 >= t * limit1
          PROVE  100 * spent2 >= t * limit2
      <4>1. t \in Nat
        BY DomainAssumption
      <4>2. t * limit2 <= t * limit1
        BY <1>4, <4>1
      <4>3. 100 * spent1 <= 100 * spent2
        BY <1>1
      <4> DEFINE a == t * limit1
                 c == t * limit2
      <4>4. a \in Nat /\ c \in Nat
        BY <1>4, <4>1
      <4>5. 100 * spent1 >= a
        BY <3>1
      <4>6. c <= a
        BY <4>2
      <4> HIDE DEF a, c
      <4>7. 100 * spent2 >= c
        BY <1>1, <4>3, <4>4, <4>5, <4>6
      <4> QED
        BY <4>7 DEF c
    <3> QED
      BY <1>6, <1>8, <2>2, <3>1
  <2> QED
    BY <2>1, <2>2
<1> QED
  BY <1>7, <1>8

-----------------------------------------------------------------------------
(* The operators the actions are built from. *)

\* What the rows call for is always a set of alerts.
LEMMA BreachesTyped ==
  ASSUME NEW rc, NEW ln, NEW periods \in SUBSET Period,
         budget \in [Budget -> BudgetRow],
         enabled \in SUBSET Threshold
  PROVE  Breaches(rc, ln, periods) \in SUBSET Alert
<1>1. ASSUME NEW b \in Budget, NEW p \in Period
      PROVE  PeriodBreaches(rc, ln, b, p) \subseteq Threshold
  BY DomainAssumption DEF PeriodBreaches
<1> QED
  BY <1>1 DEF Breaches, Live, Alert

\* The same of the state after a step.
LEMMA ReachedTyped ==
  ASSUME today' \in SUBSET Period,
         budget' \in [Budget -> BudgetRow],
         enabled' \in SUBSET Threshold
  PROVE  Reached' \in SUBSET Alert
<1>1. ASSUME NEW b \in Budget, NEW p \in Period
      PROVE  PeriodBreaches(rcpt, line, b, p)' \subseteq Threshold
  BY DomainAssumption DEF PeriodBreaches
<1> QED
  BY <1>1 DEF Reached, Breaches, Live, Alert

LEMMA NoRowsTyped == \A row : NoRows \in Written(row)
<1>1. ASSUME NEW row PROVE NoRows \in [{} -> row]
  BY DEF NoRows
<1> QED
  BY <1>1 DEF Written

LEMMA OneTyped ==
  ASSUME NEW rows, NEW r \in Receipt, NEW row \in rows
  PROVE  One(r, row) \in Written(rows)
<1>1. One(r, row) \in [{r} -> rows]
  BY DEF One
<1> QED
  BY <1>1 DEF Written

LEMMA PutTyped ==
  ASSUME NEW rows, NEW own \in Written(rows), NEW put \in Written(rows)
  PROVE  Put(own, put) \in Written(rows)
<1>1. PICK R \in SUBSET Receipt : own \in [R -> rows]
  BY DEF Written
<1>2. PICK S \in SUBSET Receipt : put \in [S -> rows]
  BY DEF Written
<1>3. Put(own, put) \in [R \cup S -> rows]
  BY <1>1, <1>2 DEF Put
<1> QED
  BY <1>3 DEF Written

\* A transaction's view of the rows is a set of rows.
LEMMA OverTyped ==
  ASSUME NEW rows, NEW table \in [Receipt -> rows], NEW own \in Written(rows)
  PROVE  Over(table, own) \in [Receipt -> rows]
<1>1. PICK R \in SUBSET Receipt : own \in [R -> rows]
  BY DEF Written
<1> QED
  BY <1>1 DEF Over

LEMMA IdleTyped ==
  ASSUME NEW pc \in {"new", "done"}
  PROVE  Idle(pc) \in RequestRow
BY NoRowsTyped DEF Idle, RequestRow

-----------------------------------------------------------------------------
(* The types.  A request that does not run holds nothing; one that runs has *)
(* a body and has read its receipt, and it moves other lines only to a      *)
(* category its body names.                                                 *)

Begun(row) ==
  IF row.pc \in {"new", "done"} THEN row = Idle(row.pc)
  ELSE /\ row.body \in Body /\ row.seen \in ReceiptRow
       /\ row.moved # {} => row.body.cat \in Category

TypeInv == TypeOK /\ \A q \in Request : Begun(req[q])

LEMMA InitTyped == Init => TypeInv
<1> SUFFICES ASSUME Init PROVE TypeInv
  OBVIOUS
<1> USE RowAssumption, DomainAssumption DEF Init
<1>1. /\ today \in SUBSET Period
      /\ rcpt \in [Receipt -> ReceiptRow] /\ line \in [Receipt -> LineRow]
      /\ enabled \in SUBSET Threshold /\ muted \in SUBSET Budget /\ premium \in BOOLEAN
      /\ alerts \in SUBSET Alert /\ notes \in [Alert -> Nat]
      /\ confirms \in [Receipt -> Nat] /\ changes \in 0 .. MaxChanges
      /\ atTurn \in SUBSET Alert
  OBVIOUS
<1>2. budget \in [Budget -> BudgetRow]
  BY DEF BudgetRow
<1>3. req \in [Request -> RequestRow]
  BY IdleTyped
<1>4. Reached \in SUBSET Alert
  BY <1>1, <1>2, BreachesTyped DEF Reached
<1>5. \A q \in Request : Begun(req[q])
  BY DEF Begun, Idle
<1> QED
  BY <1>1, <1>2, <1>3, <1>4, <1>5 DEF TypeInv, TypeOK

\* A step that only moves one request, to a well-typed state.
LEMMA OneMoves ==
  ASSUME TypeInv, NEW q \in Request, NEW row \in RequestRow, Begun(row),
         req' = [req EXCEPT ![q] = row],
         UNCHANGED <<today, dbVars, unchecked, atTurn, changes>>
  PROVE  TypeInv'
<1>1. req' \in [Request -> RequestRow]
  BY DEF TypeInv, TypeOK
<1>2. \A o \in Request : Begun(req'[o])
  BY DEF TypeInv, TypeOK
<1>3. TypeOK'
  BY <1>1 DEF TypeInv, TypeOK, dbVars
<1> QED
  BY <1>2, <1>3 DEF TypeInv, Begun

LEMMA BeginTyped ==
  ASSUME TypeInv, NEW q \in Request, NEW body \in Ask, Begin(q, body)
  PROVE  TypeInv'
<1> DEFINE row == [req[q] EXCEPT !.pc = "apply", !.body = body, !.seen = rcpt[Target[q]]]
<1>1. body \in Body /\ rcpt[Target[q]] \in ReceiptRow
  BY DomainAssumption DEF TypeInv, TypeOK
<1>2. req[q] \in RequestRow /\ req[q].moved = {}
  BY DEF TypeInv, TypeOK, Begin, Begun, Idle
<1>3. row \in RequestRow
  BY <1>1, <1>2 DEF RequestRow
<1>4. Begun(row)
  BY <1>1, <1>2 DEF Begun, RequestRow
<1>5. req' = [req EXCEPT ![q] = row]
  BY DEF Begin
<1> QED
  BY <1>3, <1>4, <1>5, OneMoves DEF Begin

LEMMA RestsTyped ==
  ASSUME TypeInv, NEW q \in Request, NotFound(q) \/ Rollback(q)
  PROVE  TypeInv'
<1>1. Begun(Idle("done"))
  BY DEF Begun, Idle
<1> QED
  BY <1>1, IdleTyped, OneMoves DEF NotFound, Rollback

LEMMA ApplyTyped ==
  ASSUME TypeInv, NEW q \in Request, Apply(q)
  PROVE  /\ TypeInv'
         /\ req'[q].claimed = req[q].claimed /\ req'[q].sent = req[q].sent
<1> DEFINE r == Target[q]
           body == req[q].body
           new == req[q].seen.status = "none"
           row == [cat |-> Asked(body.cat, line[r].cat), price |-> Asked(body.price, line[r].price)]
           date == Asked(body.period, req[q].seen.period)
           written == IF date = req[q].seen.period THEN rcpt[r].period ELSE date
<1>1. r \in Receipt /\ line[r] \in LineRow /\ rcpt[r] \in ReceiptRow /\ req[q] \in RequestRow
  BY DomainAssumption DEF TypeInv, TypeOK
<1>2. req[q].pc = "apply" /\ body \in Body /\ req[q].seen \in ReceiptRow
  BY DEF TypeInv, Begun, Apply
<1>3. row \in LineRow
  BY <1>1, <1>2 DEF LineRow, Body, Asked
<1>4. date \in Period /\ written \in Period
  BY <1>1, <1>2 DEF Body, Asked, ReceiptRow
<1> DEFINE lineMoves == new \/ row # line[r]
           rcptMoves == new \/ row.price # line[r].price \/ date # req[q].seen.period
           same == IF new \/ row.cat = line[r].cat THEN {}
                   ELSE {s \in Receipt \ {r} : /\ rcpt[s].status # "none" /\ Item[s] = Item[r]
                                               /\ line[s].cat # row.cat}
           dates == {rcpt[s].period : s \in {s \in same : rcpt[s].status = "confirmed"
                                                          /\ rcpt[s].live}}
           lineW == IF lineMoves THEN One(r, row) ELSE NoRows
           rcptW == IF new THEN One(r, [status |-> "confirmed", live |-> TRUE, period |-> date])
                    ELSE IF rcptMoves THEN One(r, [rcpt[r] EXCEPT !.period = written])
                    ELSE NoRows
           moved == [req[q] EXCEPT !.pc = "flush", !.lineW = lineW, !.rcptW = rcptW,
                                   !.moved = same, !.dates = dates]
<1>5. req' = [req EXCEPT ![q] = moved]
  BY DEF Apply
<1>6. lineW \in Written(LineRow)
  BY <1>1, <1>3, OneTyped, NoRowsTyped
<1>7. rcptW \in Written(ReceiptRow)
  <2>1. [status |-> "confirmed", live |-> TRUE, period |-> date] \in ReceiptRow
    BY <1>4 DEF ReceiptRow
  <2>2. [rcpt[r] EXCEPT !.period = written] \in ReceiptRow
    BY <1>1, <1>4 DEF ReceiptRow
  <2> QED
    BY <1>1, <2>1, <2>2, OneTyped, NoRowsTyped
<1>8. dates \in SUBSET Period
  BY DEF TypeInv, TypeOK, ReceiptRow
<1>9. moved \in RequestRow
  BY <1>1, <1>6, <1>7, <1>8 DEF RequestRow
<1>10. same # {} => body.cat \in Category
  BY <1>2 DEF Asked, Body
<1>11. Begun(moved)
  BY <1>1, <1>2, <1>10 DEF Begun, RequestRow
<1>12. TypeInv'
  BY <1>5, <1>9, <1>11, OneMoves DEF Apply
<1>13. moved.claimed = req[q].claimed /\ moved.sent = req[q].sent
  BY <1>1 DEF RequestRow
<1>14. req'[q] = moved
  BY <1>5 DEF TypeInv, TypeOK
<1> QED
  BY <1>12, <1>13, <1>14

LEMMA FlushTyped ==
  ASSUME TypeInv, NEW q \in Request, Flush(q)
  PROVE  /\ TypeInv'
         /\ req'[q].claimed = req[q].claimed /\ req'[q].sent = req[q].sent
<1> DEFINE r == Target[q]
           body == req[q].body
           already == req[q].seen.status = "confirmed"
           confirming == body.confirm /\ ~already
           date == Asked(body.period, req[q].seen.period)
           dates == req[q].dates \cup
                      IF confirming \/ (already /\ (Edits(body) \/ body.period # Keep))
                      THEN {date} ELSE {}
           recat == [s \in req[q].moved |-> [line[s] EXCEPT !.cat = body.cat]]
           lineW == Put(req[q].lineW, recat)
           rcptW == IF confirming
                    THEN Put(req[q].rcptW, One(r, [RcptView(q)[r] EXCEPT !.status = "confirmed"]))
                    ELSE req[q].rcptW
           flushed == [req[q] EXCEPT !.pc = IF dates = {} THEN "commit" ELSE "plan",
                                     !.dates = dates, !.confirmed = confirming,
                                     !.lineW = lineW, !.rcptW = rcptW]
<1>1. /\ r \in Receipt /\ req[q] \in RequestRow
      /\ line \in [Receipt -> LineRow] /\ rcpt \in [Receipt -> ReceiptRow]
  BY DomainAssumption DEF TypeInv, TypeOK
<1>2. /\ req[q].pc = "flush" /\ body \in Body /\ req[q].seen \in ReceiptRow
      /\ req[q].moved # {} => body.cat \in Category
  BY DEF TypeInv, Begun, Flush
<1>3. req' = [req EXCEPT ![q] = flushed]
  BY <1>1 DEF Flush, RequestRow
<1>4. dates \in SUBSET Period
  BY <1>1, <1>2 DEF Asked, Body, ReceiptRow, RequestRow
<1>5. lineW \in Written(LineRow)
  <2>1. req[q].moved \subseteq Receipt
    BY <1>1 DEF RequestRow
  <2>2. recat \in [req[q].moved -> LineRow]
    BY <1>1, <1>2, <2>1 DEF LineRow
  <2>3. recat \in Written(LineRow)
    BY <2>1, <2>2 DEF Written
  <2> QED
    BY <1>1, <2>3, PutTyped DEF RequestRow
<1>6. rcptW \in Written(ReceiptRow)
  <2>1. RcptView(q) \in [Receipt -> ReceiptRow]
    BY <1>1, OverTyped DEF RcptView, RequestRow
  <2>2. [RcptView(q)[r] EXCEPT !.status = "confirmed"] \in ReceiptRow
    BY <1>1, <2>1 DEF ReceiptRow
  <2> QED
    BY <1>1, <2>2, OneTyped, PutTyped DEF RequestRow
<1>7. confirming \in BOOLEAN
  BY <1>2 DEF Body
<1>8. flushed \in RequestRow
  <2> HIDE DEF dates, lineW, rcptW, confirming
  <2> QED
    BY <1>1, <1>4, <1>5, <1>6, <1>7 DEF RequestRow
<1>9. Begun(flushed)
  BY <1>1, <1>2 DEF Begun, RequestRow
<1>10. TypeInv'
  BY <1>3, <1>8, <1>9, OneMoves DEF Flush
<1>11. flushed.claimed = req[q].claimed /\ flushed.sent = req[q].sent
  BY <1>1 DEF RequestRow
<1>12. req'[q] = flushed
  BY <1>3 DEF TypeInv, TypeOK
<1> QED
  BY <1>10, <1>11, <1>12

LEMMA PlanTyped ==
  ASSUME TypeInv, NEW q \in Request, Plan(q)
  PROVE  TypeInv'
<1> DEFINE periods == req[q].dates \cap today
           past == {p \in req[q].dates : \A c \in today : p < c}
           planned == [req[q] EXCEPT
             !.pc = IF periods = {} /\ (past = {} \/ ~RolloverOn) THEN "commit" ELSE "lock",
             !.plan = periods, !.past = past, !.now = today]
<1>1. req[q] \in RequestRow /\ today \in SUBSET Period /\ req[q].pc = "plan" /\ Begun(req[q])
  BY DEF TypeInv, TypeOK, Plan
<1>2. planned \in RequestRow /\ Begun(planned)
  BY <1>1 DEF RequestRow, Begun
<1>3. req' = [req EXCEPT ![q] = planned]
  BY DEF Plan
<1> QED
  BY <1>2, <1>3, OneMoves DEF Plan

LEMMA CheckThresholdsTyped ==
  ASSUME TypeInv, NEW q \in Request, CheckThresholds(q)
  PROVE  TypeInv'
<1> DEFINE running == \E b \in Live : RolloverRunning(budget[b])
           periods == req[q].plan \cup
             IF running THEN {p \in req[q].now : \E d \in req[q].past : d < p} ELSE {}
           todo == Breaches(RcptView(q), LineView(q), periods)
           checked == [req[q] EXCEPT !.pc = "claim", !.locked = Live, !.todo = todo]
<1>1. req[q] \in RequestRow /\ req[q].pc = "lock" /\ Begun(req[q])
  BY DEF TypeInv, TypeOK, CheckThresholds
<1>2. periods \in SUBSET Period
  BY <1>1 DEF RequestRow
<1>3. todo \in SUBSET Alert
  BY <1>2, BreachesTyped DEF TypeInv, TypeOK
<1>4. Live \in SUBSET Budget
  BY DEF Live
<1>5. checked \in RequestRow /\ Begun(checked)
  BY <1>1, <1>3, <1>4 DEF RequestRow, Begun
<1>6. req' = [req EXCEPT ![q] = checked]
  BY DEF CheckThresholds
<1> QED
  BY <1>5, <1>6, OneMoves DEF CheckThresholds

LEMMA AlertingTyped ==
  ASSUME TypeInv, NEW q \in Request, Alerting(q)
  PROVE  TypeInv'
<1> DEFINE won == ClaimAlert(q)
           claiming == [req[q] EXCEPT !.pc = "commit", !.claimed = won, !.sent = won]
<1>1. req[q] \in RequestRow /\ req[q].pc = "claim" /\ Begun(req[q])
  BY DEF TypeInv, TypeOK, Alerting
<1>2. won \in SUBSET Alert
  BY <1>1 DEF ClaimAlert, RequestRow
<1>3. claiming \in RequestRow /\ Begun(claiming)
  BY <1>1, <1>2 DEF RequestRow, Begun
<1>4. req' = [req EXCEPT ![q] = claiming]
  BY DEF Alerting
<1> QED
  BY <1>3, <1>4, OneMoves DEF Alerting

LEMMA CommitTyped ==
  ASSUME TypeInv, NEW q \in Request, Commit(q)
  PROVE  TypeInv'
<1>1. req \in [Request -> RequestRow] /\ Target[q] \in Receipt
  BY DomainAssumption DEF TypeInv, TypeOK
<1>2. rcpt' \in [Receipt -> ReceiptRow] /\ line' \in [Receipt -> LineRow]
  BY <1>1, OverTyped DEF TypeInv, TypeOK, Commit, RcptView, LineView, RequestRow
<1>3. alerts' \in SUBSET Alert /\ notes' \in [Alert -> Nat] /\ confirms' \in [Receipt -> Nat]
  <2>1. alerts' \in SUBSET Alert
    BY <1>1 DEF TypeInv, TypeOK, Commit, RequestRow
  <2>2. notes' \in [Alert -> Nat]
    <3>1. notes' = [x \in Alert |-> notes[x] + IF x \in req[q].sent THEN 1 ELSE 0]
      BY DEF Commit
    <3>2. notes \in [Alert -> Nat]
      BY DEF TypeInv, TypeOK
    <3> QED
      BY <3>1, <3>2
  <2>3. confirms' \in [Receipt -> Nat]
    <3>1. confirms' = [confirms EXCEPT ![Target[q]] = @ + IF req[q].confirmed THEN 1 ELSE 0]
      BY DEF Commit
    <3>2. confirms \in [Receipt -> Nat]
      BY DEF TypeInv, TypeOK
    <3>3. confirms[Target[q]] + (IF req[q].confirmed THEN 1 ELSE 0) \in Nat
      BY <1>1, <3>2
    <3> QED
      BY <1>1, <3>1, <3>2, <3>3
  <2> QED
    BY <2>1, <2>2, <2>3
<1>4. \A o \in Request : req'[o] \in RequestRow /\ Begun(req'[o])
  <2> TAKE o \in Request
  <2>1. CASE o = q
    <3>1. req'[o] = Idle("done")
      BY <2>1 DEF Commit
    <3> QED
      BY <3>1, IdleTyped DEF Begun, Idle
  <2>2. CASE o # q
    <3> DEFINE shaken == [req[o] EXCEPT !.disturbed = @ \/ (Open(o) /\ req[q].disturbed),
                                        !.misled = @ \/ (Open(o) /\ MovesAway(q))]
    <3>1. req'[o] = shaken /\ req[o] \in RequestRow /\ req[q] \in RequestRow /\ Begun(req[o])
      BY <1>1, <2>2 DEF Commit, TypeInv
    <3> DEFINE upset == req[o].disturbed \/ (Open(o) /\ req[q].disturbed)
               astray == req[o].misled \/ (Open(o) /\ MovesAway(q))
    <3>2. upset \in BOOLEAN /\ astray \in BOOLEAN
      BY <3>1 DEF RequestRow, Open
    <3>3. shaken = [req[o] EXCEPT !.disturbed = upset, !.misled = astray]
      BY <3>1 DEF RequestRow
    <3>4. shaken \in RequestRow
      <4> HIDE DEF upset, astray
      <4>1. [req[o] EXCEPT !.disturbed = upset, !.misled = astray] \in RequestRow
        BY <3>1, <3>2 DEF RequestRow
      <4> QED
        BY <3>3, <4>1
    <3>5. CASE req[o].pc \in {"new", "done"}
      <4>1. req[o].disturbed = FALSE /\ req[o].misled = FALSE /\ ~Open(o)
        BY <3>1, <3>5 DEF Begun, Open, Idle
      <4>2. /\ (req[o].disturbed \/ (Open(o) /\ req[q].disturbed)) = req[o].disturbed
            /\ (req[o].misled \/ (Open(o) /\ MovesAway(q))) = req[o].misled
        BY <3>1, <4>1
      <4>3. shaken = req[o]
        BY <3>1, <4>2 DEF RequestRow
      <4> QED
        BY <3>1, <4>3
    <3>6. CASE req[o].pc \notin {"new", "done"}
      BY <3>1, <3>4, <3>6 DEF Begun, RequestRow
    <3> QED
      BY <3>1, <3>4, <3>5, <3>6
  <2> QED
    BY <2>1, <2>2
<1>5. req' \in [Request -> RequestRow]
  BY <1>4 DEF Commit
<1>6. /\ today' = today /\ budget' = budget /\ enabled' = enabled /\ muted' = muted
      /\ premium' = premium /\ changes' = changes
  BY DEF Commit
<1>7. Reached' \in SUBSET Alert
  BY <1>6, ReachedTyped DEF TypeInv, TypeOK
<1>8. unchecked' \in SUBSET Alert /\ atTurn' \in SUBSET Alert
  BY <1>7 DEF Commit, TypeInv, TypeOK
<1> QED
  BY <1>2, <1>3, <1>4, <1>5, <1>6, <1>8 DEF TypeInv, TypeOK

\* What every change that checks no threshold does to the requests.
LEMMA ChangingTyped ==
  ASSUME TypeInv, Changing,
         today' \in SUBSET Period, rcpt' \in [Receipt -> ReceiptRow],
         budget' \in [Budget -> BudgetRow],
         enabled' \in SUBSET Threshold, muted' \in SUBSET Budget, premium' \in BOOLEAN
  PROVE  TypeInv'
<1>1. \A o \in Request : req'[o] \in RequestRow /\ Begun(req'[o])
  <2> TAKE o \in Request
  <2> DEFINE shaken == [req[o] EXCEPT !.disturbed = Open(o)]
  <2>1. req'[o] = shaken /\ req[o] \in RequestRow /\ Begun(req[o])
    BY DEF Changing, TypeInv, TypeOK
  <2>2. shaken \in RequestRow
    BY <2>1 DEF RequestRow, Open
  <2>3. CASE req[o].pc \in {"new", "done"}
    <3>1. req[o].disturbed = FALSE /\ ~Open(o)
      BY <2>1, <2>3 DEF Begun, Open, Idle
    <3>2. Open(o) = req[o].disturbed
      BY <2>1, <3>1 DEF Open
    <3>3. shaken = req[o]
      BY <2>1, <3>2 DEF RequestRow
    <3> QED
      BY <2>1, <3>3
  <2>4. CASE req[o].pc \notin {"new", "done"}
    BY <2>1, <2>2, <2>4 DEF Begun, RequestRow
  <2> QED
    BY <2>1, <2>2, <2>3, <2>4
<1>2. req' \in [Request -> RequestRow]
  BY <1>1 DEF Changing
<1>3. Reached' \in SUBSET Alert
  BY ReachedTyped
<1>4. /\ changes' \in 0 .. MaxChanges
      /\ line' = line /\ alerts' = alerts /\ notes' = notes
      /\ confirms' = confirms /\ atTurn' = atTurn
      /\ unchecked' \in SUBSET Alert
  BY <1>3, DomainAssumption DEF Changing, TypeInv, TypeOK
<1> QED
  BY <1>1, <1>2, <1>4 DEF TypeInv, TypeOK

LEMMA ChangeTyped ==
  ASSUME TypeInv, Change
  PROVE  TypeInv'
<1> USE DEF TypeInv, TypeOK
<1>1. ASSUME NEW r \in Receipt, SoftDeleteReceipt(r) \/ RestoreReceipt(r)
      PROVE  TypeInv'
  <2>1. rcpt' \in [Receipt -> ReceiptRow]
    <3>1. PICK lives \in BOOLEAN : rcpt' = [rcpt EXCEPT ![r] = [rcpt[r] EXCEPT !.live = lives]]
      BY <1>1 DEF SoftDeleteReceipt, RestoreReceipt
    <3>2. [rcpt[r] EXCEPT !.live = lives] \in ReceiptRow
      BY DEF ReceiptRow
    <3> QED
      BY <3>1, <3>2
  <2> QED
    BY <1>1, <2>1, ChangingTyped DEF SoftDeleteReceipt, RestoreReceipt
<1>2. ASSUME NEW b \in Budget, NEW row \in BudgetRow, budget' = [budget EXCEPT ![b] = row]
      PROVE  budget' \in [Budget -> BudgetRow]
  BY <1>2
<1>3. ASSUME NEW b \in Budget, DeleteBudget(b)
      PROVE  TypeInv'
  <2>1. [budget[b] EXCEPT !.live = FALSE] \in BudgetRow
    BY DEF BudgetRow
  <2>2. budget' \in [Budget -> BudgetRow]
    BY <1>2, <1>3, <2>1 DEF DeleteBudget
  <2> QED
    BY <1>3, <2>2, ChangingTyped DEF DeleteBudget
<1>4. ASSUME NEW b \in Budget, NEW a \in Amount, SetAmount(b, a)
      PROVE  TypeInv'
  <2>1. PICK current \in today :
          budget' = [budget EXCEPT ![b] =
            IF @.start = Off THEN [@ EXCEPT !.amount = a]
            ELSE [@ EXCEPT !.amount = a, !.start = current,
                           !.opening = Carry(rcpt, line, budget[b], b, current)]]
    BY <1>4 DEF SetAmount
  <2> DEFINE carried == Carry(rcpt, line, budget[b], b, current)
             row == IF budget[b].start = Off THEN [budget[b] EXCEPT !.amount = a]
                    ELSE [budget[b] EXCEPT !.amount = a, !.start = current, !.opening = carried]
  <2>2. budget' = [budget EXCEPT ![b] = row]
    BY <2>1
  <2>3. carried \in Nat
    BY CarryNat
  <2>4. row \in BudgetRow
    <3> HIDE DEF carried
    <3> QED
      BY <2>3 DEF BudgetRow
  <2>5. budget' \in [Budget -> BudgetRow]
    BY <1>2, <2>2, <2>4
  <2> QED
    BY <1>4, <2>5, ChangingTyped DEF SetAmount
<1>5. ASSUME NEW b \in Budget, NEW a \in Amount, CreateBudget(b, a)
      PROVE  TypeInv'
  <2>1. [live |-> TRUE, amount |-> a, start |-> Off, opening |-> 0] \in BudgetRow
    BY DEF BudgetRow
  <2>2. budget' \in [Budget -> BudgetRow]
    BY <1>2, <1>5, <2>1 DEF CreateBudget
  <2> QED
    BY <1>5, <2>2, ChangingTyped DEF CreateBudget
<1>6. ASSUME NEW b \in Budget, SetRollover(b)
      PROVE  TypeInv'
  <2>1. PICK first \in Period \cup {Off} :
          budget' = [budget EXCEPT ![b].start = first, ![b].opening = 0]
    <3>1. CASE budget[b].start # Off
      BY <1>6, <3>1 DEF SetRollover
    <3>2. CASE budget[b].start = Off
      <4>1. PICK current \in today : \E first \in {current, current - 1} \cap Period :
              budget' = [budget EXCEPT ![b].start = first, ![b].opening = 0]
        BY <1>6, <3>2 DEF SetRollover
      <4> QED
        BY <4>1
    <3> QED
      BY <3>1, <3>2
  <2>2. [budget[b] EXCEPT !.start = first, !.opening = 0] \in BudgetRow
    BY DEF BudgetRow
  <2>3. budget' \in [Budget -> BudgetRow]
    BY <1>2, <2>1, <2>2
  <2> QED
    BY <1>6, <2>3, ChangingTyped DEF SetRollover
<1>7. ASSUME NEW b \in Budget, MuteCategory(b)
      PROVE  TypeInv'
  BY <1>7, ChangingTyped DEF MuteCategory, Toggle
<1>8. ASSUME NEW t \in Threshold, SetThreshold(t)
      PROVE  TypeInv'
  BY <1>8, ChangingTyped DEF SetThreshold, Toggle
<1>9. ASSUME SetPremium
      PROVE  TypeInv'
  BY <1>9, ChangingTyped DEF SetPremium
<1>10. ASSUME NextDay
       PROVE  TypeInv'
  <2>1. today' \in SUBSET Period
    BY <1>10, DomainAssumption DEF NextDay, Period
  <2> QED
    BY <1>10, <2>1, ChangingTyped DEF NextDay
<1> QED
  BY <1>1, <1>3, <1>4, <1>5, <1>6, <1>7, <1>8, <1>9, <1>10 DEF Change

LEMMA StutterTyped == TypeInv /\ UNCHANGED vars => TypeInv'
<1> SUFFICES ASSUME TypeInv, UNCHANGED vars PROVE TypeInv'
  OBVIOUS
<1> QED
  BY DEF vars, dbVars, TypeInv, TypeOK

\* Rows and requests keep their types (every handler of the alert path).
THEOREM TypesHold == Spec => []TypeOK
<1>1. TypeInv /\ [Next]_vars => TypeInv'
  <2> SUFFICES ASSUME TypeInv, [Next]_vars PROVE TypeInv'
    OBVIOUS
  <2> QED
    BY BeginTyped, RestsTyped, ApplyTyped, FlushTyped, PlanTyped, CheckThresholdsTyped,
       AlertingTyped, CommitTyped, ChangeTyped, StutterTyped DEF Next, Step
<1>2. TypeInv => TypeOK
  BY DEF TypeInv
<1> QED
  BY InitTyped, <1>1, <1>2, PTL DEF Spec

-----------------------------------------------------------------------------
(* Claims.  An alert a request has claimed is in nobody else's hands and    *)
(* not yet in the ledger, so that its commit is the first to notify it.     *)

Claims ==
  /\ NotifiedOnce
  /\ \A q \in Request : /\ req[q].sent = req[q].claimed
                        /\ req[q].claimed \cap alerts = {}
                        /\ \A o \in Request \ {q} : req[q].claimed \cap req[o].claimed = {}

LEMMA InitClaims == Init => Claims
<1> SUFFICES ASSUME Init PROVE Claims
  OBVIOUS
<1>1. alerts = {} /\ notes = [x \in Alert |-> 0] /\ req = [q \in Request |-> Idle("new")]
  BY DEF Init
<1>2. Idle("new").sent = {} /\ Idle("new").claimed = {}
  BY DEF Idle
<1> QED
  BY <1>1, <1>2 DEF Claims, NotifiedOnce

\* A step that leaves the ledger alone keeps the claims when no request gains one.
LEMMA NoNewClaim ==
  ASSUME Claims, UNCHANGED <<alerts, notes>>,
         \A q \in Request : /\ req'[q].claimed \in {req[q].claimed, {}}
                            /\ req'[q].sent = req'[q].claimed
  PROVE  Claims'
BY DEF Claims, NotifiedOnce

LEMMA AlertingClaims ==
  ASSUME TypeInv, Claims, NEW q \in Request, Alerting(q)
  PROVE  Claims'
<1>1. /\ req[q].claimed \in SUBSET Alert /\ req[q].todo \in SUBSET Alert
      /\ ClaimAlert(q) = req[q].todo \ alerts
      /\ UNCHANGED <<alerts, notes>>
      /\ req'[q].claimed = ClaimAlert(q) /\ req'[q].sent = ClaimAlert(q)
      /\ \A o \in Request \ {q} : req'[o] = req[o] /\ req[o].claimed \cap req[q].todo = {}
  BY DEF TypeInv, TypeOK, RequestRow, Alerting, ClaimAlert, dbVars
<1>2. NotifiedOnce'
  BY <1>1 DEF Claims, NotifiedOnce
<1>3. ASSUME NEW o \in Request
      PROVE  /\ req'[o].sent = req'[o].claimed
             /\ req'[o].claimed \cap alerts' = {}
  <2>1. CASE o = q
    BY <1>1, <2>1
  <2>2. CASE o # q
    BY <1>1, <2>2 DEF Claims
  <2> QED
    BY <2>1, <2>2
<1>4. ASSUME NEW o \in Request, NEW p \in Request \ {o}
      PROVE  req'[o].claimed \cap req'[p].claimed = {}
  <2>1. CASE o = q
    BY <1>1, <1>4, <2>1 DEF Claims
  <2>2. CASE p = q
    BY <1>1, <1>4, <2>2 DEF Claims
  <2>3. CASE o # q /\ p # q
    BY <1>1, <1>4, <2>3 DEF Claims
  <2> QED
    BY <2>1, <2>2, <2>3
<1> QED
  BY <1>2, <1>3, <1>4 DEF Claims

LEMMA CommitClaims ==
  ASSUME TypeInv, Claims, NEW q \in Request, Commit(q)
  PROVE  Claims'
<1>1. /\ alerts' = alerts \cup req[q].claimed
      /\ notes' = [x \in Alert |-> notes[x] + IF x \in req[q].sent THEN 1 ELSE 0]
      /\ req'[q].claimed = {} /\ req'[q].sent = {}
      /\ \A o \in Request \ {q} : /\ req'[o].claimed = req[o].claimed
                                  /\ req'[o].sent = req[o].sent
  BY DEF TypeInv, TypeOK, RequestRow, Commit, Idle
<1>2. NotifiedOnce'
  BY <1>1 DEF Claims, NotifiedOnce, TypeInv, TypeOK
<1> QED
  BY <1>1, <1>2 DEF Claims

\* No threshold ever notifies twice in a period, nor without its ledger row,
\* whatever the requests, budgets and interleavings (claim_alert).
THEOREM NeverNotifiedTwice == Spec => []NotifiedOnce
<1> DEFINE IInv == TypeInv /\ Claims
<1>1. IInv /\ [Next]_vars => IInv'
  <2> SUFFICES ASSUME TypeInv, Claims, [Next]_vars PROVE Claims'
    BY BeginTyped, RestsTyped, ApplyTyped, FlushTyped, PlanTyped, CheckThresholdsTyped,
       AlertingTyped, CommitTyped, ChangeTyped, StutterTyped DEF Next, Step
  <2>1. ASSUME NEW q \in Request, NEW body \in Ask, Begin(q, body)
        PROVE  Claims'
    BY <2>1, NoNewClaim DEF Begin, Claims, TypeInv, TypeOK, RequestRow, dbVars
  <2>2. ASSUME NEW q \in Request, NotFound(q) \/ Rollback(q)
        PROVE  Claims'
    <3>1. UNCHANGED <<alerts, notes>> /\ req' = [req EXCEPT ![q] = Idle("done")]
      BY <2>2 DEF NotFound, Rollback, dbVars
    <3>2. \A o \in Request : req'[o] = req[o] \/ req'[o] = Idle("done")
      BY <3>1 DEF TypeInv, TypeOK
    <3>3. Idle("done").claimed = {} /\ Idle("done").sent = {}
      BY DEF Idle
    <3> QED
      BY <3>1, <3>2, <3>3, NoNewClaim DEF Claims
  <2>3. ASSUME NEW q \in Request, Apply(q) \/ Flush(q) \/ Plan(q) \/ CheckThresholds(q)
        PROVE  Claims'
    <3>1. /\ UNCHANGED <<alerts, notes>>
          /\ \A o \in Request : req'[o].claimed = req[o].claimed /\ req'[o].sent = req[o].sent
      <4> HIDE DEF TypeInv, Claims
      <4>0. req \in [Request -> RequestRow]
        BY DEF TypeInv, TypeOK
      <4>1. CASE Apply(q)
        <5>1. UNCHANGED <<alerts, notes>>
          BY <4>1 DEF Apply, dbVars
        <5>2. \A o \in Request \ {q} : req'[o] = req[o]
          BY <4>0, <4>1 DEF Apply
        <5>3. req'[q].claimed = req[q].claimed /\ req'[q].sent = req[q].sent
          BY <4>1, ApplyTyped
        <5> QED
          BY <5>1, <5>2, <5>3
      <4>2. CASE Flush(q)
        <5>1. UNCHANGED <<alerts, notes>>
          BY <4>2 DEF Flush, dbVars
        <5>2. \A o \in Request \ {q} : req'[o] = req[o]
          BY <4>0, <4>2 DEF Flush
        <5>3. req'[q].claimed = req[q].claimed /\ req'[q].sent = req[q].sent
          BY <4>2, FlushTyped
        <5> QED
          BY <5>1, <5>2, <5>3
      <4>3. CASE Plan(q)
        BY <4>3 DEF Plan, TypeInv, TypeOK, RequestRow, dbVars
      <4>4. CASE CheckThresholds(q)
        BY <4>4 DEF CheckThresholds, TypeInv, TypeOK, RequestRow, dbVars
      <4> QED
        BY <2>3, <4>1, <4>2, <4>3, <4>4
    <3> QED
      BY <3>1, NoNewClaim DEF Claims
  <2>4. ASSUME Change PROVE Claims'
    <3>1. Changing
      BY <2>4 DEF Change, SoftDeleteReceipt, RestoreReceipt, SetAmount, CreateBudget,
                  DeleteBudget, SetRollover, MuteCategory, SetThreshold, SetPremium, NextDay
    <3>2. /\ UNCHANGED <<alerts, notes>>
          /\ \A o \in Request : req'[o].claimed = req[o].claimed /\ req'[o].sent = req[o].sent
      BY <3>1 DEF Changing, TypeInv, TypeOK, RequestRow
    <3> QED
      BY <3>2, NoNewClaim DEF Claims
  <2>5. CASE UNCHANGED vars
    BY <2>5, NoNewClaim DEF vars, dbVars, Claims
  <2> QED
    BY <2>1, <2>2, <2>3, <2>4, <2>5, AlertingClaims, CommitClaims DEF Next, Step
<1>2. IInv => NotifiedOnce
  BY DEF Claims
<1>3. Init => IInv
  BY InitTyped, InitClaims
<1> QED
  BY <1>1, <1>2, <1>3, PTL DEF Spec

-----------------------------------------------------------------------------
(* Coverage.  The invariant says what a request that no unchecked change    *)
(* disturbed knows at each of its steps: what it has written, which periods *)
(* that moves spend in, and, once it holds the budgets, that its list of    *)
(* breaches is the one its commit will make true.                           *)

\* The requests are about unrelated receipts: no line of one is renamed by,
\* or recategorised with, a line of another.
Apart == \A q1, q2 \in Request : q1 # q2 => Item[Target[q1]] # Item[Target[q2]]

Mine(q) == {r \in Receipt : Item[r] = Item[Target[q]]}

\* What check_thresholds looks at: the periods that can still alert and whose
\* spend moved, and those an earlier one may roll over into.
Periods(q) ==
  req[q].plan \cup IF \E b \in Live : RolloverRunning(budget[b])
                   THEN {p \in today : \E d \in req[q].past : d < p} ELSE {}

Days == \E p \in Period : today = {p} \/ today = {p, p + 1}
\* A budget is locked by one request at most.
Holds == \A q1, q2 \in Request : q1 # q2 => req[q1].locked \cap req[q2].locked = {}

\* A request writes its receipt and lines of its receipt's name.
Own(q) ==
  /\ DOMAIN req[q].rcptW \subseteq {Target[q]}
  /\ DOMAIN req[q].lineW \subseteq Mine(q)
  /\ req[q].moved \subseteq Mine(q) \ {Target[q]}

Asks(q) ==
  /\ req[q].seen = rcpt[Target[q]]
  /\ req[q].seen.status = "none" => req[q].body.confirm

Early(q) ==
  /\ req[q].pc = "apply" => req[q].rcptW = NoRows /\ req[q].lineW = NoRows
  /\ req[q].pc \in {"apply", "flush"} => req[q].plan = {} /\ req[q].past = {}
  /\ req[q].pc # "commit" => req[q].claimed = {}

\* The corrections are applied: the date is the one asked for, and the dates
\* hold those of every confirmed receipt whose line they move.
Applied(q) ==
  LET r == Target[q]
      seen == req[q].seen
      view == RcptView(q)[r]
  IN req[q].pc = "flush" =>
       /\ DOMAIN req[q].lineW \subseteq {r}
       /\ view.period = Asked(req[q].body.period, seen.period)
       /\ seen.status # "none" => view.status = seen.status /\ view.live = seen.live
       /\ seen.status # "none" /\ ~Edits(req[q].body)
            => req[q].lineW = NoRows /\ req[q].moved = {}
       /\ \A s \in req[q].moved :
            rcpt[s].status = "confirmed" /\ rcpt[s].live => rcpt[s].period \in req[q].dates

\* In a period that is not among its dates a request adds no spend, and takes
\* some away only where it moves a receipt's date.
Elsewhere(q) ==
  req[q].pc \in {"plan", "lock", "claim", "commit"} =>
    \A p \in Period \ req[q].dates :
      /\ Fewer(RcptView(q), LineView(q), rcpt, line, p)
      /\ ~MovesAway(q) => Fewer(rcpt, line, RcptView(q), LineView(q), p)

Planned(q) ==
  /\ req[q].pc \in {"lock", "claim", "commit"} =>
       /\ req[q].plan = req[q].dates \cap today
       /\ req[q].past = {p \in req[q].dates : \A c \in today : p < c}
  /\ req[q].pc = "lock" => req[q].now = today

\* Nothing to look at, so no budget is locked.
Skipped(q) == req[q].plan = {} /\ (req[q].past = {} \/ ~RolloverOn) /\ req[q].claimed = {}

\* Holding every budget, a request knows the breaches of its own view: all of
\* them, and no other unless a receipt's date was moved meanwhile.
Known(q) ==
  /\ req[q].locked = Live
  /\ Breaches(RcptView(q), LineView(q), Periods(q)) \subseteq req[q].todo
  /\ ~req[q].misled => req[q].todo \subseteq Breaches(RcptView(q), LineView(q), Periods(q))

Checked(q) ==
  /\ req[q].pc = "claim" => Known(q)
  /\ req[q].pc = "commit" =>
       \/ Skipped(q)
       \/ /\ Known(q)
          /\ req[q].todo \subseteq alerts \cup req[q].claimed
          /\ req[q].claimed \subseteq req[q].todo

Steady(q) ==
  Open(q) /\ ~req[q].disturbed =>
    Asks(q) /\ Early(q) /\ Applied(q) /\ Elsewhere(q) /\ Planned(q) /\ Checked(q)

Cover == /\ Days /\ Holds
         /\ \A q \in Request : Own(q) /\ Steady(q)

LEMMA ViewsTyped ==
  ASSUME TypeInv, NEW q \in Request
  PROVE  /\ RcptView(q) \in [Receipt -> ReceiptRow]
         /\ LineView(q) \in [Receipt -> LineRow]
BY OverTyped DEF TypeInv, TypeOK, RequestRow, RcptView, LineView

\* With the budgets and preferences as they are, only the rows decide.
LEMMA SameBreaches ==
  ASSUME UNCHANGED <<budget, enabled, muted, premium>>, NEW q,
         NEW rc, RcptView(q)' = rc, NEW ln, LineView(q)' = ln,
         NEW periods, Periods(q)' = periods
  PROVE  Breaches(RcptView(q), LineView(q), Periods(q))' = Breaches(rc, ln, periods)
BY DEF Breaches, PeriodBreaches, Limit, Live

LEMMA SameReached ==
  ASSUME UNCHANGED <<budget, enabled, muted, premium, today>>
  PROVE  Reached' = Breaches(rcpt', line', today)
BY DEF Reached, Breaches, PeriodBreaches, Limit, Live

LEMMA BreachesIn ==
  ASSUME NEW rc, NEW ln, NEW periods, NEW b \in Live \ muted, NEW p \in periods,
         NEW t \in PeriodBreaches(rc, ln, b, p), enabled # {}
  PROVE  <<b, p, t>> \in Breaches(rc, ln, periods)
<1> DEFINE mine == {<<b, p, u>> : u \in PeriodBreaches(rc, ln, b, p)}
<1>1. <<b, p, t>> \in mine
  OBVIOUS
<1>2. mine \in {{<<c, d, u>> : u \in PeriodBreaches(rc, ln, c, d)} : c \in Live \ muted, d \in periods}
  OBVIOUS
<1> HIDE DEF mine
<1> QED
  BY <1>1, <1>2 DEF Breaches

LEMMA BreachesAre ==
  ASSUME NEW rc, NEW ln, NEW periods, NEW x \in Breaches(rc, ln, periods)
  PROVE  /\ enabled # {}
         /\ \E b \in Live \ muted, p \in periods :
              \E t \in PeriodBreaches(rc, ln, b, p) : x = <<b, p, t>>
BY DEF Breaches

\* Over fewer additions in the periods that matter, no more is reached.
LEMMA BreachesFewer ==
  ASSUME TypeInv, NEW rc1, NEW ln1 \in [Receipt -> LineRow],
         NEW rc2, NEW ln2 \in [Receipt -> LineRow],
         NEW periods1, NEW periods2 \in SUBSET Period, NEW x \in Breaches(rc1, ln1, periods1),
         \A b \in Live \ muted, p \in periods1, t \in Threshold :
           x = <<b, p, t>> =>
             /\ p \in periods2 /\ Fewer(rc1, ln1, rc2, ln2, p)
             /\ RolloverRunning(budget[b]) =>
                  \A d \in Period : d < p => Fewer(rc1, ln1, rc2, ln2, d)
  PROVE  x \in Breaches(rc2, ln2, periods2)
<1>1. enabled # {} /\ enabled \in SUBSET Threshold
  BY BreachesAre DEF TypeInv, TypeOK
<1>2. PICK b \in Live \ muted, p \in periods1 :
        \E t \in PeriodBreaches(rc1, ln1, b, p) : x = <<b, p, t>>
  BY BreachesAre
<1>3. PICK t \in PeriodBreaches(rc1, ln1, b, p) : x = <<b, p, t>>
  BY <1>2
<1>4. t \in Threshold
  BY <1>1, DomainAssumption DEF PeriodBreaches
<1>5. /\ p \in periods2 /\ Fewer(rc1, ln1, rc2, ln2, p)
      /\ RolloverRunning(budget[b]) => \A d \in Period : d < p => Fewer(rc1, ln1, rc2, ln2, d)
  BY <1>3, <1>4
<1>6. b \in Budget /\ p \in Period /\ budget[b] \in BudgetRow
  BY <1>5 DEF Live, TypeInv, TypeOK
<1>7. PeriodBreaches(rc1, ln1, b, p) \subseteq PeriodBreaches(rc2, ln2, b, p)
  BY <1>1, <1>5, <1>6, FewerBreaches
<1> QED
  BY <1>1, <1>3, <1>5, <1>7, BreachesIn

LEMMA InitCover == Init => Cover
<1> SUFFICES ASSUME Init PROVE Cover
  OBVIOUS
<1>1. /\ \E p \in Period : today = {p}
      /\ \A q \in Request : req[q] = Idle("new")
  BY DEF Init
<1>2. /\ Idle("new").rcptW = NoRows /\ Idle("new").lineW = NoRows /\ Idle("new").moved = {}
      /\ Idle("new").locked = {} /\ Idle("new").pc = "new" /\ DOMAIN NoRows = {}
  BY DEF Idle, NoRows
<1>3. Holds
  BY <1>1, <1>2 DEF Holds
<1>4. \A q \in Request : Own(q) /\ Steady(q)
  BY <1>1, <1>2 DEF Own, Steady, Open
<1> QED
  BY <1>1, <1>3, <1>4 DEF Cover, Days

\* A request that does not move, while the rows stay, knows what it knew.
LEMMA StaysSteady ==
  ASSUME Cover, NEW o \in Request, req'[o] = req[o], UNCHANGED <<today, dbVars>>
  PROVE  Own(o)' /\ Steady(o)'
<1>1. UNCHANGED <<today, rcpt, line, budget, enabled, muted, premium, alerts>>
  BY DEF dbVars
<1>2. req'[o] = req[o] /\ Own(o) /\ Steady(o)
  BY DEF Cover
<1>3. Own(o)'
  BY <1>2 DEF Own, Mine
<1>4. /\ RcptView(o)' = RcptView(o) /\ LineView(o)' = LineView(o)
      /\ Periods(o)' = Periods(o) /\ Live' = Live
  BY <1>1, <1>2 DEF RcptView, LineView, Periods, Live
<1>5. Breaches(RcptView(o), LineView(o), Periods(o))' = Breaches(RcptView(o), LineView(o), Periods(o))
  BY <1>1, <1>4, SameBreaches
<1>6. Asks(o) => Asks(o)'
  BY <1>1, <1>2 DEF Asks
<1>7. Early(o) => Early(o)'
  BY <1>2 DEF Early
<1>8. Applied(o) => Applied(o)'
  BY <1>1, <1>2, <1>4 DEF Applied
<1>9. Elsewhere(o) => Elsewhere(o)'
  BY <1>1, <1>2, <1>4 DEF Elsewhere, MovesAway
<1>10. Planned(o) => Planned(o)'
  BY <1>1, <1>2 DEF Planned
<1>11. Checked(o) => Checked(o)'
  <2>1. Skipped(o) => Skipped(o)'
    BY <1>1, <1>2, <1>4 DEF Skipped, RolloverOn
  <2>2. Known(o) => Known(o)'
    BY <1>2, <1>4, <1>5 DEF Known
  <2> QED
    BY <1>1, <1>2, <2>1, <2>2 DEF Checked
<1>12. Open(o)' = Open(o)
  BY <1>2 DEF Open
<1> QED
  BY <1>2, <1>3, <1>6, <1>7, <1>8, <1>9, <1>10, <1>11, <1>12 DEF Steady

\* A step of one request that leaves the rows alone.
LEMMA OneWorks ==
  ASSUME TypeInv, Cover, NEW q \in Request, NEW row, req' = [req EXCEPT ![q] = row],
         UNCHANGED <<today, dbVars>>, Own(q)', Steady(q)',
         \A o \in Request \ {q} : row.locked \cap req[o].locked = {}
  PROVE  Cover'
<1>1. /\ UNCHANGED <<today, budget>>
      /\ \A o \in Request : req'[o] = IF o = q THEN row ELSE req[o]
  BY DEF dbVars, TypeInv, TypeOK
<1>2. Days' /\ Holds'
  BY <1>1 DEF Cover, Days, Holds
<1>3. \A o \in Request \ {q} : Own(o)' /\ Steady(o)'
  BY <1>1, StaysSteady
<1> QED
  BY <1>2, <1>3 DEF Cover

LEMMA StutterCover ==
  ASSUME Cover, UNCHANGED vars
  PROVE  Cover'
<1>1. UNCHANGED <<today, dbVars, budget, req>>
  BY DEF vars, dbVars
<1>2. Days' /\ Holds'
  BY <1>1 DEF Cover, Days, Holds
<1>3. \A o \in Request : Own(o)' /\ Steady(o)'
  BY <1>1, StaysSteady
<1> QED
  BY <1>2, <1>3 DEF Cover

\* A request that is not running, as it is put back, knows nothing.
LEMMA RestsCover ==
  ASSUME TypeInv, Cover, NEW q \in Request, NotFound(q) \/ Rollback(q)
  PROVE  Cover'
<1>1. req' = [req EXCEPT ![q] = Idle("done")] /\ UNCHANGED <<today, dbVars>>
  BY DEF NotFound, Rollback
<1>2. req'[q] = Idle("done")
  BY <1>1 DEF TypeInv, TypeOK
<1>3. /\ Idle("done").rcptW = NoRows /\ Idle("done").lineW = NoRows /\ Idle("done").moved = {}
      /\ Idle("done").locked = {} /\ Idle("done").pc = "done" /\ DOMAIN NoRows = {}
  BY DEF Idle, NoRows
<1>4. Own(q)' /\ Steady(q)'
  BY <1>2, <1>3 DEF Own, Steady, Open
<1>5. \A o \in Request \ {q} : Idle("done").locked \cap req[o].locked = {}
  BY <1>3
<1> QED
  BY <1>1, <1>4, <1>5, OneWorks

LEMMA BeginCover ==
  ASSUME TypeInv, Cover, NEW q \in Request, NEW body \in Ask, Begin(q, body)
  PROVE  Cover'
<1> DEFINE row == [req[q] EXCEPT !.pc = "apply", !.body = body, !.seen = rcpt[Target[q]]]
<1>1. /\ req' = [req EXCEPT ![q] = row] /\ UNCHANGED <<today, dbVars>> /\ req'[q] = row
      /\ rcpt' = rcpt
      /\ rcpt[Target[q]].status = "none" => body.confirm
  BY DEF Begin, TypeInv, TypeOK, dbVars
<1>2. req[q] = Idle("new")
  BY DEF TypeInv, Begun, Begin
<1>3. /\ row.pc = "apply" /\ row.body = body /\ row.seen = rcpt[Target[q]]
      /\ row.rcptW = NoRows /\ row.lineW = NoRows /\ row.moved = {} /\ row.locked = {}
      /\ row.plan = {} /\ row.past = {} /\ row.claimed = {} /\ DOMAIN NoRows = {}
  BY <1>2 DEF Idle, NoRows
<1> HIDE DEF row
<1>4. Own(q)'
  BY <1>1, <1>3 DEF Own
<1>5. Steady(q)'
  BY <1>1, <1>3 DEF Steady, Asks, Early, Applied, Elsewhere, Planned, Checked
<1>6. \A o \in Request \ {q} : row.locked \cap req[o].locked = {}
  BY <1>3
<1> QED
  BY <1>1, <1>4, <1>5, <1>6, OneWorks

LEMMA ApplyCover ==
  ASSUME TypeInv, Cover, NEW q \in Request, Apply(q)
  PROVE  Cover'
<1> DEFINE r == Target[q]
           body == req[q].body
           seen == req[q].seen
           new == seen.status = "none"
           row == [cat |-> Asked(body.cat, line[r].cat), price |-> Asked(body.price, line[r].price)]
           date == Asked(body.period, seen.period)
           written == IF date = seen.period THEN rcpt[r].period ELSE date
           lineMoves == new \/ row # line[r]
           rcptMoves == new \/ row.price # line[r].price \/ date # seen.period
           same == IF new \/ row.cat = line[r].cat THEN {}
                   ELSE {s \in Receipt \ {r} : /\ rcpt[s].status # "none" /\ Item[s] = Item[r]
                                               /\ line[s].cat # row.cat}
           dates == {rcpt[s].period : s \in {s \in same : rcpt[s].status = "confirmed"
                                                          /\ rcpt[s].live}}
           lineW == IF lineMoves THEN One(r, row) ELSE NoRows
           rcptW == IF new THEN One(r, [status |-> "confirmed", live |-> TRUE, period |-> date])
                    ELSE IF rcptMoves THEN One(r, [rcpt[r] EXCEPT !.period = written])
                    ELSE NoRows
           moved == [req[q] EXCEPT !.pc = "flush", !.lineW = lineW, !.rcptW = rcptW,
                                   !.moved = same, !.dates = dates]
<1>1. /\ r \in Receipt /\ line[r] \in LineRow /\ rcpt[r] \in ReceiptRow
      /\ req[q] \in RequestRow /\ req[q].pc = "apply" /\ Own(q) /\ Steady(q)
  BY DomainAssumption DEF TypeInv, TypeOK, Apply, Cover
<1>2. /\ req' = [req EXCEPT ![q] = moved] /\ req'[q] = moved
      /\ UNCHANGED <<today, dbVars>> /\ rcpt' = rcpt /\ line' = line
  <2>1. req' = [req EXCEPT ![q] = moved]
    BY Zenon DEF Apply
  <2>2. req'[q] = moved
    <3> HIDE DEF moved
    <3> QED
      BY <2>1 DEF TypeInv, TypeOK
  <2>3. UNCHANGED <<today, dbVars>> /\ rcpt' = rcpt /\ line' = line
    BY DEF Apply, dbVars
  <2> QED
    BY <2>1, <2>2, <2>3
<1>3. /\ moved.pc = "flush" /\ moved.lineW = lineW /\ moved.rcptW = rcptW /\ moved.moved = same
      /\ moved.dates = dates /\ moved.body = body /\ moved.seen = seen
      /\ moved.plan = req[q].plan /\ moved.past = req[q].past /\ moved.claimed = req[q].claimed
      /\ moved.locked = req[q].locked /\ moved.disturbed = req[q].disturbed
  BY <1>1 DEF RequestRow
<1> HIDE DEF moved
<1>4. DOMAIN rcptW \subseteq {r} /\ DOMAIN lineW \subseteq {r}
  BY DEF One, NoRows
<1>5. same \subseteq Mine(q) \ {r} /\ r \in Mine(q)
  BY <1>1 DEF Mine
<1>6. Own(q)'
  BY <1>2, <1>3, <1>4, <1>5 DEF Own, Mine
<1>7. Steady(q)'
  <2> SUFFICES ASSUME ~req[q].disturbed
               PROVE  Asks(q)' /\ Early(q)' /\ Applied(q)' /\ Elsewhere(q)' /\ Planned(q)' /\ Checked(q)'
    BY <1>2, <1>3 DEF Steady
  <2>1. Asks(q) /\ Early(q)
    BY <1>1 DEF Steady, Open
  <2>2. Asks(q)' /\ Early(q)'
    BY <1>1, <1>2, <1>3, <2>1 DEF Asks, Early
  <2>3. Applied(q)'
    <3>0. seen = rcpt[r]
      BY <2>1 DEF Asks
    <3> DEFINE view == IF r \in DOMAIN rcptW THEN rcptW[r] ELSE rcpt[r]
    <3>1. RcptView(q)'[r] = view
      BY <1>1, <1>2, <1>3 DEF RcptView, Over
    <3>2. /\ view.period = date
          /\ ~new => view.status = seen.status /\ view.live = seen.live
      <4>1. CASE new
        BY <4>1 DEF One
      <4>2. CASE ~new /\ rcptMoves
        BY <1>1, <3>0, <4>2 DEF One, ReceiptRow
      <4>3. CASE ~new /\ ~rcptMoves
        BY <3>0, <4>3 DEF NoRows
      <4> QED
        BY <4>1, <4>2, <4>3
    <3>3. ASSUME ~new, ~Edits(body) PROVE lineW = NoRows /\ same = {}
      <4>1. body.cat = Keep /\ body.price = Keep
        BY <3>3 DEF Edits
      <4>2. row = line[r]
        BY <1>1, <4>1 DEF Asked, LineRow
      <4> QED
        BY <3>3, <4>2
    <3>4. \A s \in same : rcpt[s].status = "confirmed" /\ rcpt[s].live => rcpt[s].period \in dates
      OBVIOUS
    <3> HIDE DEF view, rcptW, lineW, same, dates
    <3> QED
      BY <1>2, <1>3, <1>4, <3>1, <3>2, <3>3, <3>4 DEF Applied
  <2>4. Elsewhere(q)' /\ Planned(q)' /\ Checked(q)'
    BY <1>2, <1>3 DEF Elsewhere, Planned, Checked
  <2> QED
    BY <2>2, <2>3, <2>4
<1>8. \A o \in Request \ {q} : moved.locked \cap req[o].locked = {}
  BY <1>3 DEF Cover, Holds
<1> QED
  BY <1>2, <1>6, <1>7, <1>8, OneWorks

\* What a receipt adds is decided by these fields of it.
LEMMA AddsSame ==
  ASSUME NEW x, NEW y, NEW i, NEW j, NEW b, NEW p,
         x.status = y.status, x.live = y.live, x.period = y.period, i = j
  PROVE  Adds(x, i, b, p) = Adds(y, j, b, p)
BY DEF Adds

LEMMA AddsNothing ==
  ASSUME NEW x, NEW i, NEW b, NEW p, x.status # "confirmed" \/ ~x.live \/ x.period # p
  PROVE  Adds(x, i, b, p) = 0
BY DEF Adds

LEMMA FlushCover ==
  ASSUME TypeInv, Cover, NEW q \in Request, Flush(q)
  PROVE  Cover'
<1> DEFINE r == Target[q]
           body == req[q].body
           seen == req[q].seen
           already == seen.status = "confirmed"
           confirming == body.confirm /\ ~already
           date == Asked(body.period, seen.period)
           dates == req[q].dates \cup
                      IF confirming \/ (already /\ (Edits(body) \/ body.period # Keep))
                      THEN {date} ELSE {}
           recat == [s \in req[q].moved |-> [line[s] EXCEPT !.cat = body.cat]]
           lineW == Put(req[q].lineW, recat)
           before == RcptView(q)[r]
           after == [before EXCEPT !.status = "confirmed"]
           rcptW == IF confirming THEN Put(req[q].rcptW, One(r, after)) ELSE req[q].rcptW
           flushed == [req[q] EXCEPT !.pc = IF dates = {} THEN "commit" ELSE "plan",
                                     !.dates = dates, !.confirmed = confirming,
                                     !.lineW = lineW, !.rcptW = rcptW]
<1>1. /\ r \in Receipt /\ line \in [Receipt -> LineRow] /\ rcpt \in [Receipt -> ReceiptRow]
      /\ req[q] \in RequestRow /\ req[q].pc = "flush" /\ Own(q) /\ Steady(q)
      /\ before \in ReceiptRow
  BY DomainAssumption, ViewsTyped DEF TypeInv, TypeOK, Flush, Cover
<1>2. /\ req' = [req EXCEPT ![q] = flushed] /\ req'[q] = flushed
      /\ UNCHANGED <<today, dbVars>> /\ rcpt' = rcpt /\ line' = line
  <2>1. req' = [req EXCEPT ![q] = flushed]
    BY <1>1 DEF Flush, RequestRow
  <2> QED
    BY <2>1 DEF Flush, TypeInv, TypeOK, dbVars
<1>3. /\ flushed.pc = IF dates = {} THEN "commit" ELSE "plan"
      /\ flushed.lineW = lineW /\ flushed.rcptW = rcptW /\ flushed.moved = req[q].moved
      /\ flushed.dates = dates /\ flushed.body = body /\ flushed.seen = seen
      /\ flushed.plan = req[q].plan /\ flushed.past = req[q].past
      /\ flushed.claimed = req[q].claimed /\ flushed.locked = req[q].locked
      /\ flushed.disturbed = req[q].disturbed
  BY <1>1 DEF RequestRow
<1> HIDE DEF flushed
<1>4. DOMAIN rcptW \subseteq {r} /\ DOMAIN lineW = DOMAIN req[q].lineW \cup req[q].moved
  BY <1>1 DEF Own, Put, One
<1>5. Own(q)'
  <2> HIDE DEF rcptW, lineW
  <2> QED
    BY <1>1, <1>2, <1>3, <1>4 DEF Own, Mine
<1>6. Steady(q)'
  <2> SUFFICES ASSUME ~req[q].disturbed
               PROVE  Asks(q)' /\ Early(q)' /\ Applied(q)' /\ Elsewhere(q)' /\ Planned(q)' /\ Checked(q)'
    BY <1>2, <1>3 DEF Steady
  <2>1. Asks(q) /\ Early(q) /\ Applied(q)
    BY <1>1 DEF Steady, Open
  <2>2. Asks(q)' /\ Early(q)' /\ Applied(q)'
    BY <1>1, <1>2, <1>3, <2>1 DEF Asks, Early, Applied
  <2>3. seen = rcpt[r] /\ (seen.status = "none" => body.confirm)
    BY <2>1 DEF Asks
  <2>4. /\ before.period = date
        /\ seen.status # "none" => before.status = seen.status /\ before.live = seen.live
        /\ seen.status # "none" /\ ~Edits(body) => req[q].lineW = NoRows /\ req[q].moved = {}
        /\ \A s \in req[q].moved :
             rcpt[s].status = "confirmed" /\ rcpt[s].live => rcpt[s].period \in req[q].dates
        /\ DOMAIN req[q].lineW \subseteq {r}
    BY <1>1, <2>1 DEF Applied
  <2>5. /\ \A s \in Receipt \ {r} : RcptView(q)'[s] = rcpt[s]
        /\ RcptView(q)'[r] = IF confirming THEN after ELSE before
    <3>1. RcptView(q)' = Over(rcpt, rcptW)
      BY <1>2, <1>3 DEF RcptView
    <3>2. \A s \in Receipt \ {r} : Over(rcpt, rcptW)[s] = rcpt[s]
      BY <1>4 DEF Over
    <3>3. CASE confirming
      <4>1. r \in DOMAIN rcptW /\ rcptW[r] = after
        BY <3>3 DEF Put, One
      <4> QED
        BY <1>1, <3>1, <3>2, <3>3, <4>1 DEF Over
    <3>4. CASE ~confirming
      <4>1. Over(rcpt, rcptW) = RcptView(q)
        BY <3>4 DEF RcptView
      <4> QED
        BY <3>1, <3>2, <3>4, <4>1
    <3> QED
      BY <3>3, <3>4
  <2>6. \A s \in Receipt : s \notin DOMAIN lineW => LineView(q)'[s] = line[s]
    BY <1>2, <1>3 DEF LineView, Over
  <2>7. LineView(q)' \in [Receipt -> LineRow] /\ TypeInv'
    <3>1. TypeInv'
      BY FlushTyped
    <3>2. req' \in [Request -> RequestRow] /\ line' \in [Receipt -> LineRow]
      BY <3>1 DEF TypeInv, TypeOK
    <3> QED
      BY <3>1, <3>2, OverTyped DEF LineView, RequestRow
  <2>8. ASSUME NEW p \in Period \ dates, NEW s \in Receipt, NEW b \in Budget
        PROVE  /\ Adds(RcptView(q)'[s], LineView(q)'[s], b, p) <= Adds(rcpt[s], line[s], b, p)
               /\ ~MovesAway(q)' => Adds(RcptView(q)'[s], LineView(q)'[s], b, p) = Adds(rcpt[s], line[s], b, p)
    <3> DEFINE now == Adds(RcptView(q)'[s], LineView(q)'[s], b, p)
               old == Adds(rcpt[s], line[s], b, p)
    <3>0. now \in Nat /\ old \in Nat
      BY <1>1, <2>7, AddsNat
    <3>1. CASE s # r /\ s \notin req[q].moved
      <4>1. s \notin DOMAIN lineW
        BY <1>4, <2>4, <3>1
      <4> QED
        BY <2>5, <2>6, <3>0, <3>1, <4>1
    <3>2. CASE s # r /\ s \in req[q].moved
      <4>1. rcpt[s].status # "confirmed" \/ ~rcpt[s].live \/ rcpt[s].period # p
        BY <2>4, <2>8, <3>2
      <4>2. now = 0 /\ old = 0
        BY <2>5, <3>2, <4>1, AddsNothing
      <4> QED
        BY <4>2
    <3>3. CASE s = r
      <4>1. CASE confirming
        <5>1. after.period = date /\ p # date
          BY <1>1, <2>4, <2>8, <4>1 DEF ReceiptRow
        <5>2. now = 0
          <6>1. RcptView(q)'[s] = after
            BY <2>5, <3>3, <4>1
          <6> HIDE DEF after
          <6> QED
            BY <5>1, <6>1, AddsNothing
        <5>3. old = 0
          BY <2>3, <3>3, <4>1, AddsNothing
        <5> QED
          BY <5>2, <5>3
      <4>2. CASE ~already /\ ~confirming
        <5>1. seen.status # "none" /\ before.status # "confirmed"
          BY <2>3, <2>4, <4>2
        <5>2. now = 0
          BY <2>5, <3>3, <4>2, <5>1, AddsNothing
        <5>3. old = 0
          BY <2>3, <3>3, <4>2, AddsNothing
        <5> QED
          BY <5>2, <5>3
      <4>3. CASE already /\ (Edits(body) \/ body.period # Keep)
        <5>1. before.period = date /\ p # date
          BY <2>4, <2>8, <4>3
        <5>2. now = 0
          BY <2>5, <3>3, <4>3, <5>1, AddsNothing
        <5>3. ASSUME ~MovesAway(q)' PROVE old = 0
          <6>1. rcptW = req[q].rcptW
            BY <4>3
          <6>2. \/ rcpt[r].status # "confirmed" \/ ~rcpt[r].live
                \/ r \notin DOMAIN req[q].rcptW
                \/ req[q].rcptW[r].period = rcpt[r].period
            BY <1>2, <1>3, <5>3, <6>1 DEF MovesAway
          <6>3. before = IF r \in DOMAIN req[q].rcptW THEN req[q].rcptW[r] ELSE rcpt[r]
            BY <1>1 DEF RcptView, Over
          <6>4. \/ rcpt[r].status # "confirmed" \/ ~rcpt[r].live \/ rcpt[r].period # p
            BY <5>1, <6>2, <6>3
          <6> QED
            BY <3>3, <6>4, AddsNothing
        <5> QED
          BY <3>0, <5>2, <5>3
      <4>4. CASE already /\ ~Edits(body) /\ body.period = Keep
        <5>1. /\ before.period = rcpt[r].period /\ before.status = rcpt[r].status
              /\ before.live = rcpt[r].live
          BY <2>3, <2>4, <4>4 DEF Asked
        <5>2. DOMAIN lineW = {}
          BY <1>4, <2>4, <4>4 DEF NoRows
        <5>3. RcptView(q)'[s] = before /\ LineView(q)'[s] = line[s] /\ rcpt[s] = rcpt[r]
          BY <2>5, <2>6, <3>3, <4>4, <5>2
        <5>4. now = old
          <6> HIDE DEF before
          <6> QED
            BY <5>1, <5>3 DEF Adds
        <5> QED
          BY <3>0, <5>4
      <4> QED
        BY <4>1, <4>2, <4>3, <4>4
    <3> QED
      BY <3>1, <3>2, <3>3
  <2>9. Elsewhere(q)'
    <3>1. \A p \in Period \ dates, s \in Receipt, b \in Budget :
            /\ Adds(RcptView(q)'[s], LineView(q)'[s], b, p) \in Nat
            /\ Adds(rcpt[s], line[s], b, p) \in Nat
      BY <1>1, <2>7, AddsNat
    <3> HIDE DEF dates
    <3>2. \A p \in Period \ dates :
            /\ Fewer(RcptView(q)', LineView(q)', rcpt, line, p)
            /\ ~MovesAway(q)' => Fewer(rcpt, line, RcptView(q)', LineView(q)', p)
      BY <2>8, <3>1 DEF Fewer
    <3> QED
      BY <1>2, <1>3, <3>2 DEF Elsewhere
  <2>10. Planned(q)'
    BY <1>1, <1>2, <1>3, <2>1 DEF Planned, Early
  <2>11. Checked(q)'
    BY <1>1, <1>2, <1>3, <2>1 DEF Checked, Skipped, Early
  <2> QED
    BY <2>2, <2>9, <2>10, <2>11
<1>7. \A o \in Request \ {q} : flushed.locked \cap req[o].locked = {}
  BY <1>3 DEF Cover, Holds
<1> QED
  BY <1>2, <1>5, <1>6, <1>7, OneWorks

LEMMA PlanCover ==
  ASSUME TypeInv, Cover, NEW q \in Request, Plan(q)
  PROVE  Cover'
<1> DEFINE periods == req[q].dates \cap today
           past == {p \in req[q].dates : \A c \in today : p < c}
           none == periods = {} /\ (past = {} \/ ~RolloverOn)
           planned == [req[q] EXCEPT !.pc = IF none THEN "commit" ELSE "lock",
                                     !.plan = periods, !.past = past, !.now = today]
<1>1. req[q] \in RequestRow /\ req[q].pc = "plan" /\ Own(q) /\ Steady(q)
  BY DEF TypeInv, TypeOK, Plan, Cover
<1>2. /\ req' = [req EXCEPT ![q] = planned] /\ req'[q] = planned
      /\ UNCHANGED <<today, dbVars>> /\ UNCHANGED <<rcpt, line, budget>>
  BY DEF Plan, TypeInv, TypeOK, dbVars
<1>3. /\ planned.pc = IF none THEN "commit" ELSE "lock"
      /\ planned.plan = periods /\ planned.past = past /\ planned.now = today
      /\ planned.rcptW = req[q].rcptW /\ planned.lineW = req[q].lineW
      /\ planned.moved = req[q].moved /\ planned.dates = req[q].dates
      /\ planned.body = req[q].body /\ planned.seen = req[q].seen
      /\ planned.claimed = req[q].claimed /\ planned.locked = req[q].locked
      /\ planned.disturbed = req[q].disturbed
  BY <1>1 DEF RequestRow
<1> HIDE DEF planned, none
<1>4. Own(q)'
  BY <1>1, <1>2, <1>3 DEF Own, Mine
<1>5. Steady(q)'
  <2> SUFFICES ASSUME ~req[q].disturbed
               PROVE  Asks(q)' /\ Early(q)' /\ Applied(q)' /\ Elsewhere(q)' /\ Planned(q)' /\ Checked(q)'
    BY <1>2, <1>3 DEF Steady
  <2>1. Asks(q) /\ Early(q) /\ Elsewhere(q)
    BY <1>1 DEF Steady, Open
  <2>2. Asks(q)' /\ Early(q)' /\ Applied(q)'
    BY <1>1, <1>2, <1>3, <2>1 DEF Asks, Early, Applied
  <2>3. Elsewhere(q)'
    BY <1>1, <1>2, <1>3, <2>1 DEF Elsewhere, MovesAway, RcptView, LineView
  <2>4. Planned(q)'
    BY <1>2, <1>3 DEF Planned
  <2>5. Checked(q)'
    BY <1>1, <1>2, <1>3, <2>1 DEF Checked, Skipped, Early, RolloverOn, Live, none
  <2> QED
    BY <2>2, <2>3, <2>4, <2>5
<1>6. \A o \in Request \ {q} : planned.locked \cap req[o].locked = {}
  BY <1>3 DEF Cover, Holds
<1> QED
  BY <1>2, <1>4, <1>5, <1>6, OneWorks

LEMMA CheckThresholdsCover ==
  ASSUME TypeInv, Cover, NEW q \in Request, CheckThresholds(q)
  PROVE  Cover'
<1> DEFINE running == \E b \in Live : RolloverRunning(budget[b])
           periods == req[q].plan \cup
             IF running THEN {p \in req[q].now : \E d \in req[q].past : d < p} ELSE {}
           todo == Breaches(RcptView(q), LineView(q), periods)
           checked == [req[q] EXCEPT !.pc = "claim", !.locked = Live, !.todo = todo]
<1>1. req[q] \in RequestRow /\ req[q].pc = "lock" /\ Own(q) /\ Steady(q)
  BY DEF TypeInv, TypeOK, CheckThresholds, Cover
<1>2. /\ req' = [req EXCEPT ![q] = checked] /\ req'[q] = checked
      /\ UNCHANGED <<today, dbVars>>
      /\ UNCHANGED <<rcpt, line, budget, enabled, muted, premium>>
  BY DEF CheckThresholds, TypeInv, TypeOK, dbVars
<1>3. /\ checked.pc = "claim" /\ checked.locked = Live /\ checked.todo = todo
      /\ checked.plan = req[q].plan /\ checked.past = req[q].past
      /\ checked.rcptW = req[q].rcptW /\ checked.lineW = req[q].lineW
      /\ checked.moved = req[q].moved /\ checked.dates = req[q].dates
      /\ checked.body = req[q].body /\ checked.seen = req[q].seen
      /\ checked.claimed = req[q].claimed /\ checked.disturbed = req[q].disturbed
  BY <1>1 DEF RequestRow
<1> HIDE DEF checked
<1>4. Own(q)'
  BY <1>1, <1>2, <1>3 DEF Own, Mine
<1>5. Steady(q)'
  <2> SUFFICES ASSUME ~req[q].disturbed
               PROVE  Asks(q)' /\ Early(q)' /\ Applied(q)' /\ Elsewhere(q)' /\ Planned(q)' /\ Checked(q)'
    BY <1>2, <1>3 DEF Steady
  <2>1. Asks(q) /\ Early(q) /\ Elsewhere(q) /\ Planned(q)
    BY <1>1 DEF Steady, Open
  <2>2. Asks(q)' /\ Early(q)' /\ Applied(q)'
    BY <1>1, <1>2, <1>3, <2>1 DEF Asks, Early, Applied
  <2>3. Elsewhere(q)'
    BY <1>1, <1>2, <1>3, <2>1 DEF Elsewhere, MovesAway, RcptView, LineView
  <2>4. Planned(q)'
    BY <1>1, <1>2, <1>3, <2>1 DEF Planned
  <2>5. Known(q)'
    <3>1. req[q].now = today
      BY <1>1, <2>1 DEF Planned
    <3>2. Periods(q)' = periods /\ Live' = Live
      BY <1>2, <1>3, <3>1 DEF Periods, Live
    <3>3. RcptView(q)' = RcptView(q) /\ LineView(q)' = LineView(q)
      BY <1>2, <1>3 DEF RcptView, LineView
    <3> HIDE DEF periods
    <3>4. Breaches(RcptView(q), LineView(q), Periods(q))' = todo
      BY <1>2, <3>2, <3>3, SameBreaches
    <3> QED
      BY <1>2, <1>3, <3>2, <3>4 DEF Known
  <2>6. Checked(q)'
    BY <1>2, <1>3, <2>5 DEF Checked
  <2> QED
    BY <2>2, <2>3, <2>4, <2>6
<1>6. \A o \in Request \ {q} : checked.locked \cap req[o].locked = {}
  BY <1>3 DEF CheckThresholds, BudgetFree
<1> QED
  BY <1>2, <1>4, <1>5, <1>6, OneWorks

LEMMA AlertingCover ==
  ASSUME TypeInv, Cover, NEW q \in Request, Alerting(q)
  PROVE  Cover'
<1> DEFINE won == req[q].todo \ alerts
           claiming == [req[q] EXCEPT !.pc = "commit", !.claimed = won, !.sent = won]
<1>1. req[q] \in RequestRow /\ req[q].pc = "claim" /\ Own(q) /\ Steady(q)
  BY DEF TypeInv, TypeOK, Alerting, Cover
<1>2. /\ req' = [req EXCEPT ![q] = claiming] /\ req'[q] = claiming
      /\ UNCHANGED <<today, dbVars>>
      /\ UNCHANGED <<rcpt, line, budget, enabled, muted, premium, alerts>>
  BY DEF Alerting, ClaimAlert, TypeInv, TypeOK, dbVars
<1>3. /\ claiming.pc = "commit" /\ claiming.claimed = won
      /\ claiming.locked = req[q].locked /\ claiming.todo = req[q].todo
      /\ claiming.plan = req[q].plan /\ claiming.past = req[q].past
      /\ claiming.rcptW = req[q].rcptW /\ claiming.lineW = req[q].lineW
      /\ claiming.moved = req[q].moved /\ claiming.dates = req[q].dates
      /\ claiming.body = req[q].body /\ claiming.seen = req[q].seen
      /\ claiming.disturbed = req[q].disturbed /\ claiming.misled = req[q].misled
  BY <1>1 DEF RequestRow
<1> HIDE DEF claiming
<1>4. Own(q)'
  BY <1>1, <1>2, <1>3 DEF Own, Mine
<1>5. Steady(q)'
  <2> SUFFICES ASSUME ~req[q].disturbed
               PROVE  Asks(q)' /\ Early(q)' /\ Applied(q)' /\ Elsewhere(q)' /\ Planned(q)' /\ Checked(q)'
    BY <1>2, <1>3 DEF Steady
  <2>1. Asks(q) /\ Elsewhere(q) /\ Planned(q) /\ Known(q)
    BY <1>1 DEF Steady, Open, Checked
  <2>2. Asks(q)' /\ Early(q)' /\ Applied(q)'
    BY <1>1, <1>2, <1>3, <2>1 DEF Asks, Early, Applied
  <2>3. Elsewhere(q)'
    BY <1>1, <1>2, <1>3, <2>1 DEF Elsewhere, MovesAway, RcptView, LineView
  <2>4. Planned(q)'
    BY <1>1, <1>2, <1>3, <2>1 DEF Planned
  <2>5. Known(q)'
    <3>1. /\ RcptView(q)' = RcptView(q) /\ LineView(q)' = LineView(q)
          /\ Periods(q)' = Periods(q) /\ Live' = Live
      BY <1>2, <1>3 DEF RcptView, LineView, Periods, Live
    <3>2. Breaches(RcptView(q), LineView(q), Periods(q))' = Breaches(RcptView(q), LineView(q), Periods(q))
      BY <1>2, <3>1, SameBreaches
    <3> QED
      BY <1>2, <1>3, <2>1, <3>1, <3>2 DEF Known
  <2>6. Checked(q)'
    BY <1>2, <1>3, <2>5 DEF Checked
  <2> QED
    BY <2>2, <2>3, <2>4, <2>6
<1>6. \A o \in Request \ {q} : claiming.locked \cap req[o].locked = {}
  BY <1>3 DEF Cover, Holds
<1> QED
  BY <1>2, <1>4, <1>5, <1>6, OneWorks

\* Where a request has nothing to look at, it moved no spend that counts today.
LEMMA SkippedDates ==
  ASSUME TypeInv, Days, NEW q \in Request, req[q].pc = "commit", Planned(q),
         req[q].plan = {}, req[q].past = {} \/ ~RolloverOn,
         NEW p \in today, NEW b \in Live
  PROVE  /\ p \in Period \ req[q].dates
         /\ RolloverRunning(budget[b]) =>
              \A d \in Period : d < p => d \in Period \ req[q].dates
<1>1. /\ req[q].dates \cap today = {} /\ today \in SUBSET Period
      /\ req[q].past = {d \in req[q].dates : \A c \in today : d < c}
  BY DEF Planned, TypeInv, TypeOK
<1>2. ASSUME RolloverRunning(budget[b]), NEW d \in Period, d < p, d \in req[q].dates
      PROVE  FALSE
  <2>1. RolloverOn
    BY <1>2 DEF RolloverOn, RolloverRunning
  <2>2. d \notin today
    BY <1>1, <1>2
  <2>3. \A c \in today : d < c
    <3>1. PICK first \in Period : today = {first} \/ today = {first, first + 1}
      BY DEF Days
    <3>2. first \in Int /\ d \in Int
      BY DomainAssumption DEF Period
    <3> QED
      BY <1>2, <2>2, <3>1, <3>2
  <2> QED
    BY <1>1, <1>2, <2>1, <2>3
<1> QED
  BY <1>1, <1>2

\* What a commit changes, and what it leaves to the other requests.
LEMMA CommitRows ==
  ASSUME TypeInv, Cover, Apart, NEW q \in Request, Commit(q), NEW o \in Request \ {q}
  PROVE  /\ rcpt' = RcptView(q) /\ line' = LineView(q)
         /\ UNCHANGED <<today, budget, enabled, muted, premium>>
         /\ \A s \in Mine(o) : rcpt'[s] = rcpt[s] /\ line'[s] = line[s]
         /\ \A s \in Mine(o) : RcptView(o)'[s] = RcptView(o)[s] /\ LineView(o)'[s] = LineView(o)[s]
         /\ \A s \in Receipt \ Mine(o) :
              /\ RcptView(o)[s] = rcpt[s] /\ RcptView(o)'[s] = rcpt'[s]
              /\ LineView(o)[s] = line[s] /\ LineView(o)'[s] = line'[s]
         /\ req'[o] = [req[o] EXCEPT !.disturbed = req'[o].disturbed, !.misled = req'[o].misled]
         /\ req'[o].disturbed = (req[o].disturbed \/ (Open(o) /\ req[q].disturbed))
         /\ req'[o].misled = (req[o].misled \/ (Open(o) /\ MovesAway(q)))
         /\ Open(o)' = Open(o)
<1>1. /\ rcpt' = RcptView(q) /\ line' = LineView(q)
      /\ UNCHANGED <<today, budget, enabled, muted, premium>>
  BY DEF Commit
<1>2. /\ req[o] \in RequestRow /\ req[q] \in RequestRow
      /\ rcpt \in [Receipt -> ReceiptRow] /\ line \in [Receipt -> LineRow]
      /\ Target[o] \in Receipt /\ Target[q] \in Receipt /\ Own(o) /\ Own(q)
  BY DomainAssumption DEF TypeInv, TypeOK, Cover
<1>3. /\ req'[o] = [req[o] EXCEPT !.disturbed = req'[o].disturbed, !.misled = req'[o].misled]
      /\ req'[o].disturbed = (req[o].disturbed \/ (Open(o) /\ req[q].disturbed))
      /\ req'[o].misled = (req[o].misled \/ (Open(o) /\ MovesAway(q)))
  <2> DEFINE upset == req[o].disturbed \/ (Open(o) /\ req[q].disturbed)
             astray == req[o].misled \/ (Open(o) /\ MovesAway(q))
  <2>1. req'[o] = [req[o] EXCEPT !.disturbed = upset, !.misled = astray]
    BY <1>2 DEF Commit, RequestRow
  <2> HIDE DEF upset, astray
  <2>2. req'[o].disturbed = upset /\ req'[o].misled = astray
    BY <1>2, <2>1 DEF RequestRow
  <2>3. req'[o] = [req[o] EXCEPT !.disturbed = req'[o].disturbed, !.misled = req'[o].misled]
    BY <2>1, <2>2
  <2> QED
    BY <2>2, <2>3 DEF upset, astray
<1>4. /\ req'[o].rcptW = req[o].rcptW /\ req'[o].lineW = req[o].lineW
  BY <1>2, <1>3 DEF RequestRow
<1>5. \A s \in Mine(o) : s \in Receipt /\ s # Target[q] /\ s \notin Mine(q)
  BY DEF Apart, Mine
<1>6. \A s \in Mine(o) : rcpt'[s] = rcpt[s] /\ line'[s] = line[s]
  BY <1>1, <1>2, <1>5 DEF Own, RcptView, LineView, Over
<1>7. \A s \in Receipt : /\ RcptView(o)[s] = IF s \in DOMAIN req[o].rcptW THEN req[o].rcptW[s] ELSE rcpt[s]
                         /\ LineView(o)[s] = IF s \in DOMAIN req[o].lineW THEN req[o].lineW[s] ELSE line[s]
  BY DEF RcptView, LineView, Over
<1>8. \A s \in Receipt : /\ RcptView(o)'[s] = IF s \in DOMAIN req[o].rcptW THEN req[o].rcptW[s] ELSE rcpt'[s]
                         /\ LineView(o)'[s] = IF s \in DOMAIN req[o].lineW THEN req[o].lineW[s] ELSE line'[s]
  BY <1>4 DEF RcptView, LineView, Over
<1>9. \A s \in Receipt \ Mine(o) : s \notin DOMAIN req[o].rcptW /\ s \notin DOMAIN req[o].lineW
  BY <1>2 DEF Own, Mine
<1>10. \A s \in Mine(o) : RcptView(o)'[s] = RcptView(o)[s] /\ LineView(o)'[s] = LineView(o)[s]
  BY <1>5, <1>6, <1>7, <1>8
<1>11. \A s \in Receipt \ Mine(o) :
              /\ RcptView(o)[s] = rcpt[s] /\ RcptView(o)'[s] = rcpt'[s]
              /\ LineView(o)[s] = line[s] /\ LineView(o)'[s] = line'[s]
  BY <1>7, <1>8, <1>9
<1>12. Open(o)' = Open(o)
  BY <1>2, <1>3 DEF Open, RequestRow
<1> QED
  BY <1>1, <1>3, <1>6, <1>10, <1>11, <1>12

\* A request that holds every budget keeps knowing its breaches while another
\* commits: that one held none, so it moved no spend that counts.
LEMMA CommitKnown ==
  ASSUME TypeInv, TypeInv', Cover, Apart, NEW q \in Request, Commit(q), NEW o \in Request \ {q},
         req[o].pc \in {"claim", "commit"}, ~req[o].disturbed, ~req[q].disturbed,
         Known(o), Planned(o)
  PROVE  Known(o)'
<1> USE DEF Fewer
<1>1. /\ rcpt' = RcptView(q) /\ line' = LineView(q)
      /\ UNCHANGED <<today, budget, enabled, muted, premium>>
      /\ \A s \in Mine(o) : RcptView(o)'[s] = RcptView(o)[s] /\ LineView(o)'[s] = LineView(o)[s]
      /\ \A s \in Receipt \ Mine(o) :
              /\ RcptView(o)[s] = rcpt[s] /\ RcptView(o)'[s] = rcpt'[s]
              /\ LineView(o)[s] = line[s] /\ LineView(o)'[s] = line'[s]
      /\ req'[o] = [req[o] EXCEPT !.disturbed = req'[o].disturbed, !.misled = req'[o].misled]
      /\ req'[o].misled = (req[o].misled \/ (Open(o) /\ MovesAway(q))) /\ Open(o)
  BY CommitRows DEF Open
<1>2. req[o] \in RequestRow /\ Days /\ today \in SUBSET Period
  BY DEF TypeInv, TypeOK, Cover
<1>3. /\ req'[o].locked = req[o].locked /\ req'[o].todo = req[o].todo
      /\ req'[o].plan = req[o].plan /\ req'[o].past = req[o].past
  BY <1>1, <1>2 DEF RequestRow
<1>4. Live' = Live /\ Periods(o)' = Periods(o)
  BY <1>1, <1>3 DEF Live, Periods
<1> DEFINE rc1 == RcptView(o)
           ln1 == LineView(o)
           rc2 == RcptView(o)'
           ln2 == LineView(o)'
           periods == Periods(o)
<1>5. Breaches(RcptView(o), LineView(o), Periods(o))' = Breaches(rc2, ln2, periods)
  BY <1>1, <1>4, SameBreaches
<1>6. ln1 \in [Receipt -> LineRow] /\ ln2 \in [Receipt -> LineRow]
  <2>1. req'[o] \in RequestRow /\ line' \in [Receipt -> LineRow]
    BY DEF TypeInv, TypeOK
  <2>2. ln2 = Over(line', req'[o].lineW)
    BY DEF LineView
  <2>3. ln2 \in [Receipt -> LineRow]
    BY <2>1, <2>2, OverTyped DEF RequestRow
  <2> QED
    BY <2>3, ViewsTyped
<1>7. periods \in SUBSET today
  BY DEF Periods, Planned
<1>8. CASE Live = {}
  <2>1. Breaches(rc1, ln1, periods) = {} /\ Breaches(rc2, ln2, periods) = {}
    BY <1>8 DEF Breaches
  <2> QED
    BY <1>1, <1>3, <1>4, <1>5, <2>1 DEF Known
<1>9. CASE Live # {}
  <2>1. req[q].pc = "commit" /\ Steady(q) /\ Open(q)
    BY DEF Commit, Cover, Open
  <2>2. Elsewhere(q) /\ Planned(q) /\ Skipped(q)
    <3>1. req[q].locked \cap Live = {}
      BY DEF Cover, Holds, Known
    <3> QED
      BY <1>9, <2>1, <3>1 DEF Steady, Checked, Known
  <2>3. ASSUME NEW p \in today, NEW b \in Live
        PROVE  /\ p \in Period \ req[q].dates
               /\ RolloverRunning(budget[b]) =>
                    \A d \in Period : d < p => d \in Period \ req[q].dates
    BY <1>2, <2>1, <2>2, SkippedDates DEF Skipped
  <2>4. ASSUME NEW p \in Period \ req[q].dates
        PROVE  /\ Fewer(rc2, ln2, rc1, ln1, p)
               /\ ~MovesAway(q) => Fewer(rc1, ln1, rc2, ln2, p)
    <3>1. /\ Fewer(rcpt', line', rcpt, line, p)
          /\ ~MovesAway(q) => Fewer(rcpt, line, rcpt', line', p)
      BY <1>1, <2>1, <2>2 DEF Elsewhere
    <3>2. ASSUME NEW s \in Receipt, NEW b \in Budget
          PROVE  /\ Adds(rc2[s], ln2[s], b, p) <= Adds(rc1[s], ln1[s], b, p)
                 /\ ~MovesAway(q) => Adds(rc1[s], ln1[s], b, p) <= Adds(rc2[s], ln2[s], b, p)
      <4>1. CASE s \in Mine(o)
        <5>1. rc1[s] = rc2[s] /\ ln1[s] = ln2[s] /\ ln1[s] \in LineRow
          BY <1>1, <1>6, <4>1
        <5>2. Adds(rc1[s], ln1[s], b, p) \in Nat
          BY <5>1, AddsNat
        <5> QED
          BY <5>1, <5>2
      <4>2. CASE s \notin Mine(o)
        <5>1. /\ rc1[s] = rcpt[s] /\ ln1[s] = line[s]
              /\ rc2[s] = rcpt'[s] /\ ln2[s] = line'[s]
          BY <1>1, <4>2
        <5> QED
          BY <3>1, <5>1
      <4> QED
        BY <4>1, <4>2
    <3> QED
      BY <3>2
  <2> HIDE DEF rc1, ln1, rc2, ln2, periods, Fewer
  <2>5. ASSUME NEW x \in Breaches(rc2, ln2, periods) PROVE x \in Breaches(rc1, ln1, periods)
    BY <1>2, <1>6, <1>7, <2>3, <2>4, BreachesFewer
  <2>6. ASSUME ~MovesAway(q), NEW x \in Breaches(rc1, ln1, periods)
        PROVE  x \in Breaches(rc2, ln2, periods)
    BY <1>2, <1>6, <1>7, <2>3, <2>4, <2>6, BreachesFewer
  <2>7. /\ Breaches(rc1, ln1, periods) \subseteq req[o].todo
        /\ ~req[o].misled => req[o].todo \subseteq Breaches(rc1, ln1, periods)
        /\ req[o].locked = Live
    BY DEF Known, rc1, ln1, periods
  <2>8. /\ Breaches(rc2, ln2, periods) \subseteq req[o].todo
        /\ ~req'[o].misled => req[o].todo \subseteq Breaches(rc2, ln2, periods)
    BY <1>1, <2>5, <2>6, <2>7
  <2> QED
    BY <1>3, <1>4, <1>5, <2>7, <2>8 DEF Known
<1> QED
  BY <1>8, <1>9

\* A commit leaves the other requests what they know.
LEMMA CommitCover ==
  ASSUME TypeInv, Cover, Apart, NEW q \in Request, Commit(q)
  PROVE  Cover'
<1>0. TypeInv'
  BY CommitTyped
<1>1. UNCHANGED <<today, budget, enabled, muted, premium>> /\ req'[q] = Idle("done")
  BY DEF Commit
<1>2. /\ Idle("done").rcptW = NoRows /\ Idle("done").lineW = NoRows /\ Idle("done").moved = {}
      /\ Idle("done").locked = {} /\ Idle("done").pc = "done" /\ DOMAIN NoRows = {}
  BY DEF Idle, NoRows
<1>3. Own(q)' /\ Steady(q)'
  BY <1>1, <1>2 DEF Own, Steady, Open
<1>4. ASSUME NEW o \in Request \ {q}
      PROVE  Own(o)' /\ Steady(o)' /\ req'[o].locked = req[o].locked
  <2>1. /\ \A s \in Mine(o) : rcpt'[s] = rcpt[s] /\ line'[s] = line[s]
        /\ \A s \in Mine(o) : RcptView(o)'[s] = RcptView(o)[s] /\ LineView(o)'[s] = LineView(o)[s]
        /\ \A s \in Receipt \ Mine(o) : RcptView(o)'[s] = rcpt'[s] /\ LineView(o)'[s] = line'[s]
        /\ req'[o] = [req[o] EXCEPT !.disturbed = req'[o].disturbed, !.misled = req'[o].misled]
        /\ req'[o].disturbed = (req[o].disturbed \/ (Open(o) /\ req[q].disturbed))
        /\ Open(o)' = Open(o)
    BY CommitRows
  <2>2. req[o] \in RequestRow /\ Target[o] \in Receipt /\ Own(o) /\ Steady(o)
    BY DomainAssumption DEF TypeInv, TypeOK, Cover
  <2>3. /\ req'[o].pc = req[o].pc /\ req'[o].body = req[o].body /\ req'[o].seen = req[o].seen
        /\ req'[o].rcptW = req[o].rcptW /\ req'[o].lineW = req[o].lineW
        /\ req'[o].moved = req[o].moved /\ req'[o].dates = req[o].dates
        /\ req'[o].plan = req[o].plan /\ req'[o].past = req[o].past /\ req'[o].now = req[o].now
        /\ req'[o].locked = req[o].locked /\ req'[o].todo = req[o].todo
        /\ req'[o].claimed = req[o].claimed
    BY <2>1, <2>2 DEF RequestRow
  <2>4. Own(o)'
    BY <2>2, <2>3 DEF Own, Mine
  <2>5. Steady(o)'
    <3> SUFFICES ASSUME Open(o), ~req[o].disturbed, ~req[q].disturbed
                 PROVE  Asks(o)' /\ Early(o)' /\ Applied(o)' /\ Elsewhere(o)' /\ Planned(o)' /\ Checked(o)'
      BY <2>1 DEF Steady
    <3>1. Asks(o) /\ Early(o) /\ Applied(o) /\ Elsewhere(o) /\ Planned(o) /\ Checked(o)
      BY <2>2 DEF Steady
    <3>2. Target[o] \in Mine(o)
      BY <2>2 DEF Mine
    <3>3. Asks(o)' /\ Early(o)'
      BY <2>1, <2>3, <3>1, <3>2 DEF Asks, Early
    <3>4. Applied(o)'
      <4>1. \A s \in req[o].moved : s \in Mine(o)
        BY <2>2 DEF Own
      <4> QED
        BY <2>1, <2>3, <3>1, <3>2, <4>1 DEF Applied
    <3>5. Planned(o)'
      BY <1>1, <2>3, <3>1 DEF Planned
    <3>6. Elsewhere(o)'
      <4> SUFFICES ASSUME req[o].pc \in {"plan", "lock", "claim", "commit"},
                          NEW p \in Period \ req[o].dates
                   PROVE  /\ Fewer(RcptView(o)', LineView(o)', rcpt', line', p)
                          /\ ~MovesAway(o)' => Fewer(rcpt', line', RcptView(o)', LineView(o)', p)
        BY <2>3 DEF Elsewhere
      <4>1. /\ Fewer(RcptView(o), LineView(o), rcpt, line, p)
            /\ ~MovesAway(o) => Fewer(rcpt, line, RcptView(o), LineView(o), p)
        BY <3>1 DEF Elsewhere
      <4>2. MovesAway(o)' <=> MovesAway(o)
        BY <2>1, <2>2, <2>3, <3>2 DEF MovesAway, Own
      <4>3. ASSUME NEW s \in Receipt, NEW b \in Budget
            PROVE  /\ Adds(RcptView(o)'[s], LineView(o)'[s], b, p) <= Adds(rcpt'[s], line'[s], b, p)
                   /\ ~MovesAway(o) =>
                        Adds(rcpt'[s], line'[s], b, p) <= Adds(RcptView(o)'[s], LineView(o)'[s], b, p)
        <5>1. CASE s \in Mine(o)
          BY <2>1, <4>1, <5>1 DEF Fewer
        <5>2. CASE s \notin Mine(o)
          <6>1. line'[s] \in LineRow
            BY <1>0 DEF TypeInv, TypeOK
          <6>2. Adds(rcpt'[s], line'[s], b, p) \in Nat
            BY <6>1, AddsNat
          <6>3. RcptView(o)'[s] = rcpt'[s] /\ LineView(o)'[s] = line'[s]
            BY <2>1, <5>2
          <6> QED
            BY <6>2, <6>3
        <5> QED
          BY <5>1, <5>2
      <4> QED
        BY <4>2, <4>3 DEF Fewer
    <3>7. Checked(o)'
      <4>1. alerts \subseteq alerts'
        BY DEF Commit
      <4>2. Skipped(o) => Skipped(o)'
        BY <1>1, <2>3 DEF Skipped, RolloverOn, Live
      <4>3. req[o].pc \in {"claim", "commit"} /\ Known(o) => Known(o)'
        BY <1>0, <3>1, CommitKnown
      <4> QED
        BY <2>3, <3>1, <4>1, <4>2, <4>3 DEF Checked
    <3> QED
      BY <3>3, <3>4, <3>5, <3>6, <3>7
  <2> QED
    BY <2>3, <2>4, <2>5
<1>5. Days'
  BY <1>1 DEF Cover, Days
<1>6. Holds'
  BY <1>1, <1>2, <1>4 DEF Cover, Holds
<1> QED
  BY <1>3, <1>4, <1>5, <1>6 DEF Cover

\* A change that checks no threshold disturbs every request that runs.
LEMMA ChangeCover ==
  ASSUME TypeInv, Cover, Change
  PROVE  Cover'
<1>1. Changing
  BY DEF Change, SoftDeleteReceipt, RestoreReceipt, SetAmount, CreateBudget,
         DeleteBudget, SetRollover, MuteCategory, SetThreshold, SetPremium, NextDay
<1>2. ASSUME NEW q \in Request
      PROVE  Own(q)' /\ Steady(q)' /\ req'[q].locked = req[q].locked
  <2>1. req[q] \in RequestRow /\ req'[q] = [req[q] EXCEPT !.disturbed = Open(q)] /\ Own(q)
    BY <1>1 DEF Changing, TypeInv, TypeOK, Cover
  <2>2. /\ req'[q].pc = req[q].pc /\ req'[q].disturbed = Open(q)
        /\ req'[q].locked = req[q].locked /\ req'[q].moved = req[q].moved
        /\ req'[q].rcptW = req[q].rcptW /\ req'[q].lineW = req[q].lineW
    BY <2>1 DEF RequestRow
  <2>3. Own(q)'
    BY <2>1, <2>2 DEF Own, Mine
  <2>4. Steady(q)'
    BY <2>2 DEF Steady, Open
  <2> QED
    BY <2>2, <2>3, <2>4
<1>3. Holds'
  BY <1>2 DEF Cover, Holds
<1>4. Days'
  <2>1. CASE UNCHANGED today
    BY <2>1 DEF Cover, Days
  <2>2. CASE NextDay
    <3>1. CASE Cardinality(today) = 2 /\ today' = today \ {CHOOSE p \in today : p + 1 \in today}
      <4>1. PICK p \in Period : today = {p} \/ today = {p, p + 1}
        BY DEF Cover, Days
      <4>2. p \in Nat /\ today # {p}
        BY <3>1, DomainAssumption, FS_Singleton DEF Period
      <4>3. today = {p, p + 1}
        BY <4>1, <4>2
      <4>4. (CHOOSE d \in today : d + 1 \in today) = p
        BY <4>2, <4>3
      <4>5. today' = {p + 1} /\ p + 1 \in Period
        <5>1. today' = {p + 1}
          BY <3>1, <4>2, <4>3, <4>4
        <5>2. today' \in SUBSET Period
          BY <3>1 DEF TypeInv, TypeOK
        <5> QED
          BY <5>1, <5>2
      <4> QED
        BY <4>5 DEF Days
    <3>2. CASE \E p \in today : today = {p} /\ p < LastPeriod /\ today' = {p, p + 1}
      BY <3>2 DEF Days, TypeInv, TypeOK
    <3> QED
      BY <2>2, <3>1, <3>2 DEF NextDay
  <2> QED
    BY <2>1, <2>2 DEF Change, SoftDeleteReceipt, RestoreReceipt, SetAmount, CreateBudget,
         DeleteBudget, SetRollover, MuteCategory, SetThreshold, SetPremium
<1> QED
  BY <1>2, <1>3, <1>4 DEF Cover

\* What a commit makes due is alerted, was due before, or is due to the turn.
LEMMA CommitCovers ==
  ASSUME TypeInv, Cover, NoMissedAlertButAtTurn, NEW q \in Request, Commit(q)
  PROVE  NoMissedAlertButAtTurn'
<1>0. TypeInv'
  BY CommitTyped
<1>1. /\ rcpt' = RcptView(q) /\ line' = LineView(q) /\ alerts' = alerts \cup req[q].claimed
      /\ unchecked' = IF req[q].disturbed THEN unchecked \cup Reached' ELSE unchecked
      /\ atTurn' = IF \E d \in req[q].plan, p \in today : d < p
                   THEN atTurn \cup {x \in Reached' : RolloverRunning(budget[x[1]])}
                   ELSE atTurn
      /\ UNCHANGED <<today, budget, enabled, muted, premium>>
      /\ req[q].pc = "commit"
  BY DEF Commit
<1>2. Reached' = Breaches(rcpt', line', today)
  BY <1>1, SameReached
<1>3. /\ line \in [Receipt -> LineRow] /\ line' \in [Receipt -> LineRow]
      /\ today \in SUBSET Period /\ Days
  BY <1>0 DEF TypeInv, TypeOK, Cover
<1>4. CASE req[q].disturbed
  BY <1>1, <1>4 DEF NoMissedAlertButAtTurn
<1>5. CASE ~req[q].disturbed
  <2>1. Elsewhere(q) /\ Planned(q) /\ Checked(q)
    BY <1>1, <1>5 DEF Cover, Steady, Open
  <2>2. \A p \in Period \ req[q].dates : Fewer(rcpt', line', rcpt, line, p)
    BY <1>1, <2>1 DEF Elsewhere
  <2>3. SUFFICES ASSUME NEW x \in Breaches(rcpt', line', today), x \notin alerts', x \notin atTurn'
                 PROVE  x \in Reached
    BY <1>1, <1>2, <1>5 DEF NoMissedAlertButAtTurn
  <2>4. CASE Skipped(q)
    <3>1. ASSUME NEW b \in Live \ muted, NEW p \in today
          PROVE  /\ Fewer(rcpt', line', rcpt, line, p)
                 /\ RolloverRunning(budget[b]) =>
                      \A d \in Period : d < p => Fewer(rcpt', line', rcpt, line, d)
      <4>1. /\ p \in Period \ req[q].dates
            /\ RolloverRunning(budget[b]) =>
                 \A d \in Period : d < p => d \in Period \ req[q].dates
        BY <1>1, <1>3, <2>1, <2>4, SkippedDates DEF Skipped
      <4> QED
        BY <2>2, <4>1
    <3>2. x \in Breaches(rcpt, line, today)
      BY <1>3, <2>3, <3>1, BreachesFewer
    <3> QED
      BY <3>2 DEF Reached
  <2>5. CASE Known(q) /\ req[q].todo \subseteq alerts \cup req[q].claimed
    <3>1. x \notin Breaches(rcpt', line', Periods(q))
      BY <1>1, <2>3, <2>5 DEF Known
    <3>2. /\ enabled # {}
          /\ \E b \in Live \ muted, p \in today :
               \E t \in PeriodBreaches(rcpt', line', b, p) : x = <<b, p, t>>
      BY <2>3, BreachesAre
    <3>3. PICK b \in Live \ muted, p \in today :
            \E t \in PeriodBreaches(rcpt', line', b, p) : x = <<b, p, t>>
      BY <3>2
    <3>4. PICK t \in PeriodBreaches(rcpt', line', b, p) : x = <<b, p, t>>
      BY <3>3
    <3>5. p \notin Periods(q)
      BY <3>1, <3>2, <3>4, BreachesIn
    <3>6. /\ req[q].plan = req[q].dates \cap today
          /\ req[q].past = {d \in req[q].dates : \A c \in today : d < c}
      BY <1>1, <2>1 DEF Planned
    <3>7. p \in Period \ req[q].dates
      BY <1>3, <3>5, <3>6 DEF Periods
    <3>8. ASSUME RolloverRunning(budget[b]), NEW d \in Period, d < p
          PROVE  d \notin req[q].dates
      <4>1. x[1] = b /\ x \in Reached'
        BY <1>2, <2>3, <3>4
      <4>2. ~ \E c \in req[q].plan : c < p
        BY <1>1, <2>3, <3>8, <4>1
      <4>3. d \notin req[q].past
        BY <3>5, <3>8 DEF Periods
      <4>4. d \notin today => \A c \in today : d < c
        <5>1. PICK first \in Period : today = {first} \/ today = {first, first + 1}
          BY <1>3 DEF Days
        <5>2. first \in Int /\ d \in Int
          BY DomainAssumption DEF Period
        <5> QED
          BY <3>8, <5>1, <5>2
      <4> QED
        BY <3>6, <3>8, <4>2, <4>3, <4>4
    <3>9. \A c \in Live \ muted, d \in today, u \in Threshold :
            x = <<c, d, u>> =>
              /\ d \in today /\ Fewer(rcpt', line', rcpt, line, d)
              /\ RolloverRunning(budget[c]) =>
                   \A e \in Period : e < d => Fewer(rcpt', line', rcpt, line, e)
      BY <2>2, <3>4, <3>7, <3>8
    <3>10. x \in Breaches(rcpt, line, today)
      BY <1>3, <2>3, <3>9, BreachesFewer
    <3> QED
      BY <3>10 DEF Reached
  <2> QED
    BY <1>1, <2>1, <2>4, <2>5 DEF Checked
<1> QED
  BY <1>4, <1>5

\* Every step keeps the invariant, when the requests are about unrelated receipts.
LEMMA CoverKept == ASSUME Apart PROVE TypeInv /\ Cover /\ [Next]_vars => TypeInv' /\ Cover'
<1> SUFFICES ASSUME TypeInv, Cover, [Next]_vars PROVE TypeInv' /\ Cover'
  OBVIOUS
<1>1. TypeInv'
  BY BeginTyped, RestsTyped, ApplyTyped, FlushTyped, PlanTyped, CheckThresholdsTyped,
     AlertingTyped, CommitTyped, ChangeTyped, StutterTyped DEF Next, Step
<1>2. ASSUME UNCHANGED vars PROVE Cover'
  BY <1>2, StutterCover
<1>3. ASSUME NEW q \in Request, NEW body \in Ask, Begin(q, body) PROVE Cover'
  BY <1>3, BeginCover
<1>4. ASSUME NEW q \in Request, NotFound(q) \/ Rollback(q) PROVE Cover'
  BY <1>4, RestsCover
<1>5. ASSUME NEW q \in Request, Step(q) PROVE Cover'
  BY <1>5, ApplyCover, FlushCover, PlanCover, CheckThresholdsCover, AlertingCover, CommitCover
     DEF Step
<1>6. ASSUME Change PROVE Cover'
  BY <1>6, ChangeCover
<1> QED
  BY <1>1, <1>2, <1>3, <1>4, <1>5, <1>6 DEF Next

\* Only a commit and an unchecked change touch the rows.
LEMMA RowsStay ==
  ASSUME [Next]_vars
  PROVE  \/ \E q \in Request : Commit(q)
         \/ Change /\ Changing
         \/ UNCHANGED <<today, dbVars, unchecked, atTurn>>
<1>1. ASSUME NEW q \in Request, NEW body \in Ask, Begin(q, body)
      PROVE  UNCHANGED <<today, dbVars, unchecked, atTurn>>
  BY <1>1 DEF Begin
<1>2. ASSUME NEW q \in Request, NotFound(q) \/ Rollback(q)
      PROVE  UNCHANGED <<today, dbVars, unchecked, atTurn>>
  BY <1>2 DEF NotFound, Rollback
<1>3. ASSUME NEW q \in Request, Step(q), ~Commit(q)
      PROVE  UNCHANGED <<today, dbVars, unchecked, atTurn>>
  <2>1. CASE Apply(q)
    BY <2>1 DEF Apply
  <2>2. CASE Flush(q)
    BY <2>2 DEF Flush
  <2>3. CASE Plan(q) \/ CheckThresholds(q) \/ Alerting(q)
    BY <2>3 DEF Plan, CheckThresholds, Alerting
  <2> QED
    BY <1>3, <2>1, <2>2, <2>3 DEF Step
<1>4. ASSUME Change PROVE Changing
  BY <1>4 DEF Change, SoftDeleteReceipt, RestoreReceipt, SetAmount, CreateBudget,
         DeleteBudget, SetRollover, MuteCategory, SetThreshold, SetPremium, NextDay
<1>5. CASE UNCHANGED vars
  BY <1>5 DEF vars
<1> QED
  BY <1>1, <1>2, <1>3, <1>4, <1>5 DEF Next

\* However many requests about unrelated receipts confirm and edit at once, and
\* whatever they roll back, every threshold their spend has reached in a period
\* that can alert was alerted, but for what the code does not check: changes of
\* budgets and preferences, and the turn of a period (check_thresholds).
THEOREM NoAlertMissed == ASSUME Apart PROVE Spec => []NoMissedAlertButAtTurn
<1> DEFINE IInv == TypeInv /\ Cover /\ NoMissedAlertButAtTurn
<1>1. Init => IInv
  BY InitTyped, InitCover DEF Init, NoMissedAlertButAtTurn
<1>2. IInv /\ [Next]_vars => IInv'
  <2> SUFFICES ASSUME TypeInv, Cover, NoMissedAlertButAtTurn, [Next]_vars
               PROVE  NoMissedAlertButAtTurn'
    BY CoverKept
  <2>1. CASE Changing
    BY <2>1 DEF Changing, NoMissedAlertButAtTurn
  <2>2. ASSUME NEW q \in Request, Commit(q) PROVE NoMissedAlertButAtTurn'
    BY <2>2, CommitCovers
  <2>3. CASE UNCHANGED <<today, dbVars, unchecked, atTurn>>
    <3>1. UNCHANGED <<today, rcpt, line, budget, enabled, muted, premium, alerts, unchecked, atTurn>>
      BY <2>3 DEF dbVars
    <3>2. Reached' = Reached
      BY <3>1, SameReached DEF Reached
    <3> QED
      BY <3>1, <3>2 DEF NoMissedAlertButAtTurn
  <2> QED
    BY <2>1, <2>2, <2>3, RowsStay
<1>3. IInv => NoMissedAlertButAtTurn
  OBVIOUS
<1> QED
  BY <1>1, <1>2, <1>3, PTL DEF Spec

\* An alert is true of the spend it is committed with, whatever the requests
\* about other receipts did since that spend was read under the budgets' locks.
THEOREM NoAlertFalse == ASSUME Apart PROVE Spec => NoFalseAlert
<1> DEFINE IInv == TypeInv /\ Cover
           True == \A q \in Request :
             req[q].pc = "commit" /\ ~req[q].disturbed /\ ~req[q].misled /\ req'[q].pc = "done"
             /\ alerts' # alerts
             => alerts' \ alerts \subseteq Reached'
<1>1. Init => IInv
  BY InitTyped, InitCover
<1>2. IInv /\ [Next]_vars => IInv'
  BY CoverKept
<1>3. IInv /\ [Next]_vars => [True]_vars
  <2> SUFFICES ASSUME TypeInv, Cover, Next, NEW q \in Request, req[q].pc = "commit",
                      ~req[q].disturbed, ~req[q].misled, req'[q].pc = "done", alerts' # alerts
               PROVE  alerts' \ alerts \subseteq Reached'
    BY DEF vars, dbVars
  <2>1. Commit(q)
    <3>1. PICK o \in Request : Commit(o)
      <4>1. ~Changing /\ ~UNCHANGED <<today, dbVars, unchecked, atTurn>>
        BY DEF Changing, dbVars
      <4> QED
        BY <4>1, RowsStay
    <3>2. ASSUME o # q PROVE FALSE
      <4>1. req[q] \in RequestRow
        BY DEF TypeInv, TypeOK
      <4>2. req'[q].pc = req[q].pc
        BY <3>1, <3>2, <4>1 DEF Commit, RequestRow
      <4> QED
        BY <4>2
    <3> QED
      BY <3>1, <3>2
  <2>2. /\ rcpt' = RcptView(q) /\ line' = LineView(q) /\ alerts' = alerts \cup req[q].claimed
        /\ UNCHANGED <<today, budget, enabled, muted, premium>>
    BY <2>1 DEF Commit
  <2>3. Reached' = Breaches(RcptView(q), LineView(q), today)
    BY <2>2, SameReached
  <2>4. Planned(q) /\ Checked(q)
    BY DEF Cover, Steady, Open
  <2>5. Known(q) /\ req[q].claimed \subseteq req[q].todo
    BY <2>2, <2>4 DEF Checked, Skipped
  <2>6. req[q].claimed \subseteq Breaches(RcptView(q), LineView(q), Periods(q))
    BY <2>5 DEF Known
  <2>7. Periods(q) \subseteq today
    BY <2>4 DEF Planned, Periods
  <2>8. Breaches(RcptView(q), LineView(q), Periods(q)) \subseteq Breaches(RcptView(q), LineView(q), today)
    BY <2>7 DEF Breaches
  <2> QED
    BY <2>2, <2>3, <2>6, <2>8
<1> QED
  BY <1>1, <1>2, <1>3, PTL DEF Spec, NoFalseAlert

=============================================================================
