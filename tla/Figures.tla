------------------------------- MODULE Figures -------------------------------
(***************************************************************************)
(* What the screens compute of prices and spending: an item's headline,    *)
(* chart ranges and store comparison, the averages of the split screen,    *)
(* the Trend screen and its highlights, the days and the pace of a budget  *)
(* period; beside what the server computes of the same purchases.          *)
(*                                                                         *)
(* Days are numbers, in a calendar of short months; prices are in cents,   *)
(* and sums of floats are exact.  One item and one currency.  What is      *)
(* computed is drawn with every answer; how late those come is the other   *)
(* modules' matter.                                                        *)
(***************************************************************************)
EXTENDS Integers, FiniteSets, SequencesExt

CONSTANTS
    NoData,
    Months, LONG, SHORT,    \* the calendar's months, and their days by turns
    START_DAY,      \* the budget's reset day
    WINDOW_DAYS,    \* thirty, in this calendar
    Offered,        \* what a purchase may be: its price, unit and store
    BuyDays,        \* the days receipts are dated
    FirstDay, LastDay,
    MaxPurchases,   \* bound: receipts that count
    Cap             \* the overall budget

VARIABLES
    purchases,      \* confirmed, oldest first, of one day in the order they were confirmed
    day,            \* today
    item,           \* what Item detail shows; NoData without a timeline
    groups,         \* what the split screen tells of every group of purchases
    trend,          \* what the Trend screen shows, for every range
    summary         \* the overall budget's card

figureVars == <<purchases, day, item, groups, trend, summary>>

-----------------------------------------------------------------------------
(* The calendar                                                             *)

IsLong(m) == m % 2 = 1
FirstOf(m) == (LONG + SHORT) * ((m - 1) \div 2) + (IF IsLong(m) THEN 1 ELSE LONG + 1)
MonthOf(d) == 2 * ((d - 1) \div (LONG + SHORT)) + (IF (d - 1) % (LONG + SHORT) < LONG THEN 1 ELSE 2)
DateIn(m, date) == FirstOf(m) + Min({date, IF IsLong(m) THEN LONG ELSE SHORT}) - 1

\* Halves are rounded up by the app and in the server's decimals, to even by its floats.
RoundUp(n, d) == (2 * n + d) \div (2 * d)
RoundEven(n, d) == LET q == n \div d
                       r == 2 * (n % d) IN
                   IF r > d \/ (r = d /\ q % 2 = 1) THEN q + 1 ELSE q

Total(s) == FoldLeft(LAMBDA sum, p : sum + p.of.price, 0, s)

\* The change from b to a, each <<sum, count>>, in whole percent; none from nothing.
percentChange(a, b) == IF b[1] <= 0 THEN NoData ELSE RoundUp(100 * (a[1] * b[2] - b[1] * a[2]), b[1] * a[2])

-----------------------------------------------------------------------------
(* An item's prices, on the server                                          *)

CountOf(s, unit) == Cardinality({i \in DOMAIN s : s[i].of.unit = unit})
UnitsOf(s) == {s[i].of.unit : i \in DOMAIN s}
FirstAt(s, unit) == Min({i \in DOMAIN s : s[i].of.unit = unit})
Alike(s, unit) == SelectSeq(s, LAMBDA p : p.of.unit = unit)

\* _series: the unit most are in, of a tie the one met first.
Series(s) == CHOOSE u \in UnitsOf(s) : \A v \in UnitsOf(s) \ {u} :
    CountOf(s, u) > CountOf(s, v) \/ (CountOf(s, u) = CountOf(s, v) /\ FirstAt(s, u) < FirstAt(s, v))
Average(s) == LET like == Alike(s, Series(s)) IN RoundUp(Total(like), Len(like))
Timeline(s) == IF s = <<>> THEN <<>> ELSE Alike(s, Series(s))
MIN_POINTS == 2

\* compare_stores: the stores with enough like prices.
StorePrice(s, store) == LET own == SelectSeq(Timeline(s), LAMBDA p : p.of.store = store) IN
    [store |-> store, count |-> Len(own), latest |-> IF own = <<>> THEN 0 ELSE Last(own).of.price,
     average |-> IF own = <<>> THEN 0 ELSE RoundUp(Total(own), Len(own))]
Compared(s) == {c \in {StorePrice(s, o.store) : o \in Offered} : c.count >= MIN_POINTS}

-----------------------------------------------------------------------------
(* An item's prices, in the app                                             *)

\* The mean of the last thirty days up to the latest price, and the change from the thirty before.
thirtyDayAverage(points) ==
    LET latest == Max({points[i].day : i \in DOMAIN points})
        recent == SelectSeq(points, LAMBDA p : latest - p.day < WINDOW_DAYS)
        before == SelectSeq(points, LAMBDA p : latest - p.day >= WINDOW_DAYS /\ latest - p.day < 2 * WINDOW_DAYS) IN
    [of |-> <<Total(recent), Len(recent)>>,
     percent |-> percentChange(<<Total(recent), Len(recent)>>, <<Total(before), Len(before)>>)]

PRICE_RANGES == <<"1M", "3M", "6M", "1Y", "All">>
RANGE_MONTHS == [r \in {"1M", "3M", "6M", "1Y"} |-> CASE r = "1M" -> 1 [] r = "3M" -> 3 [] r = "6M" -> 6 [] OTHER -> 12]

\* As many months back, on a day of the month that may not exist there.
rangeFromPastTheEnd(range, now) ==
    LET m == MonthOf(now) - RANGE_MONTHS[range] IN IF m < 1 THEN 0 ELSE FirstOf(m) + now - FirstOf(MonthOf(now))

\* The first day of a range, clamped to the last one of a shorter month.
rangeFrom(range, now) ==
    LET m == MonthOf(now) - RANGE_MONTHS[range] IN IF m < 1 THEN 0 ELSE DateIn(m, now - FirstOf(MonthOf(now)) + 1)
pointsInRange(points, range, now) ==
    IF range = "All" THEN points ELSE SelectSeq(points, LAMBDA p : p.day >= rangeFrom(range, now))
openingRange(points, now) ==
    LET holds == {i \in 2 .. 4 : Len(pointsInRange(points, PRICE_RANGES[i], now)) >= MIN_POINTS} IN
    IF holds = {} THEN "All" ELSE PRICE_RANGES[Min(holds)]

\* A latest price that the headline dates, and the headline itself.
isStale(d, now) == now - d > WINDOW_DAYS
Headline(points, now) == [average |-> thirtyDayAverage(points), asOf |-> isStale(Last(points).day, now)]

\* The warning that one item may be several products.
Low(points) == Min({points[i].of.price : i \in DOMAIN points})
High(points) == Max({points[i].of.price : i \in DOMAIN points})
unitPriceVaries(points) == Len(points) >= 2 /\ 2 * High(points) >= 3 * Low(points)

\* Where the chart puts each price, as shares of its width and height.
chartGeometry(points) ==
    LET start == points[1].day
        span == Last(points).day - start
        height == High(points) - Low(points) IN
    [i \in DOMAIN points |->
        [x |-> IF span > 0 THEN <<points[i].day - start, span>>
               ELSE IF Len(points) > 1 THEN <<i - 1, Len(points) - 1>> ELSE <<1, 2>>,
         y |-> IF height > 0 THEN <<points[i].of.price - Low(points), height>> ELSE <<1, 2>>]]
RangeChart(points) == IF Len(points) >= MIN_POINTS THEN chartGeometry(points) ELSE NoData

\* The months labelled under the chart: at most six, and one at least.
CeilDiv(n, d) == (n + d - 1) \div d
monthTicks(points) ==
    LET days == {points[i].day : i \in DOMAIN points}
        within == {m \in 1 .. Months : Min(days) <= FirstOf(m) /\ FirstOf(m) <= Max(days)}
        step == CeilDiv(Cardinality(within), 6) IN
    IF within = {} THEN {MonthOf(Min(days))} ELSE {m \in within : (m - Min(within)) % step = 0}

\* groupStats of the split screen: the unit most are in, of a tie the one met first.
groupStats(points) ==
    LET met == SetToSortSeq(UnitsOf(points), LAMBDA u, v : FirstAt(points, u) < FirstAt(points, v))
        best == FoldLeft(LAMBDA b, u : IF CountOf(points, u) > CountOf(points, b) THEN u ELSE b, Head(met), met)
        like == Alike(points, best) IN
    [count |-> Len(points), average |-> RoundUp(Total(like), Len(like))]

orderStoresByLatest(stores) ==
    SetToSortSeq(stores, LAMBDA a, b : \/ a.latest < b.latest
                                       \/ a.latest = b.latest /\ a.average < b.average
                                       \/ a.latest = b.latest /\ a.average = b.average /\ a.store < b.store)
switchSavings(ordered) == IF Len(ordered) < 2 THEN 0 ELSE Last(ordered).latest - ordered[1].latest
priceBarShare(store, stores) == <<store.latest, Max({s.latest : s \in stores})>>
StoreComparison(stores) == LET ordered == orderStoresByLatest(stores) IN
    [savings |-> switchSavings(ordered),
     rows |-> [i \in DOMAIN ordered |-> [store |-> ordered[i], cheapest |-> Len(ordered) > 1 /\ i = 1,
                                          share |-> priceBarShare(ordered[i], stores)]]]

-----------------------------------------------------------------------------
(* Budget periods, and spending in them                                     *)

\* The period of month m starts on the reset day, or on the month's last one.
PeriodStart(m) == DateIn(m, START_DAY)
PeriodEnd(m) == PeriodStart(m + 1) - 1
PeriodOf(d) == IF d < PeriodStart(MonthOf(d)) THEN MonthOf(d) - 1 ELSE MonthOf(d)
SpentIn(bought, m) == Total(SelectSeq(bought, LAMBDA p : PeriodOf(p.day) = m))

\* The Trend screen's ranges, in months; 0 is All, from the first receipt on.
TrendRanges == {0, 1, 3, 6, 12}
MonthsIn(bought, now, range) ==
    IF range # 0 THEN range ELSE IF bought = <<>> THEN 1 ELSE PeriodOf(now) - PeriodOf(bought[1].day) + 1
SpendingTrend(bought, now, range) ==
    LET first == PeriodOf(now) - MonthsIn(bought, now, range) IN
    [i \in 1 .. MonthsIn(bought, now, range) |-> [period |-> first + i, total |-> SpentIn(bought, first + i)]]
Sum(months) == FoldLeft(LAMBDA sum, m : sum + m.total, 0, months)

\* get_prior_average: none unless the first receipt is as old as the window before.
PriorAverage(bought, now, range) ==
    LET first == PeriodOf(now) - 2 * range + 1
        spent == Sum([i \in 1 .. range |-> [total |-> SpentIn(bought, first + i - 1)]]) IN
    IF range = 0 \/ bought = <<>> \/ first < 1 THEN 0
    ELSE IF bought[1].day > PeriodStart(first) THEN 0 ELSE RoundEven(spent, range)

\* The headline's change, and the highlights under it.
PriorChange(months, range, average) ==
    IF range = 0 THEN NoData ELSE percentChange(<<Sum(months), Len(months)>>, <<average, 1>>)
STEADY_PERCENT == 5
LastOf(s, n) == SubSeq(s, Len(s) - n + 1, Len(s))
HalvesChange(months) == LET half == Len(months) \div 2 IN
    IF half = 0 THEN NoData
    ELSE percentChange(<<Sum(LastOf(months, half)), half>>, <<Sum(SubSeq(months, 1, half)), half>>)
EarliestOf(months, total) == CHOOSE m \in months :
    m.total = total /\ \A n \in months : n.total = total => m.period <= n.period
buildTrendHighlights(months, change, current, halves) ==
    LET moved == IF halves THEN HalvesChange(months) ELSE change
        highest == Max({m.total : m \in ToSet(months)})
        over == {m \in ToSet(months) : m.total > 0 /\ m.period # current}
        lowest == Min({m.total : m \in over}) IN
    [highest |-> EarliestOf(ToSet(months), highest), change |-> moved,
     lowest |-> IF over = {} THEN NoData ELSE EarliestOf(over, lowest),
     direction |-> IF moved = NoData \/ moved \in 1 - STEADY_PERCENT .. STEADY_PERCENT - 1 THEN "steady"
                   ELSE IF moved > 0 THEN "rising" ELSE "falling"]

\* What the Trend screen tells of a range, and its bars as shares of the highest.
Bars(months) == LET top == Max({m.total : m \in ToSet(months)} \cup {1}) IN
    [i \in DOMAIN months |-> <<months[i].total, top>>]
TrendScreen(bought, now, range) ==
    LET months == SpendingTrend(bought, now, range)
        change == PriorChange(months, range, PriorAverage(bought, now, range)) IN
    [months |-> months, change |-> change, bars |-> Bars(months),
     highlights |-> buildTrendHighlights(months, change, PeriodOf(now), range = 0)]

\* The heading's day, the days left and the pace of the period that holds today.
periodDay(m, now) == now - PeriodStart(m) + 1
periodLength(m) == PeriodEnd(m) - PeriodStart(m) + 1
periodDaysLeft(m, now) == Min({periodLength(m), Max({0, PeriodEnd(m) - now})})
budgetPace(spent, m, now) ==
    LET even == Cap * periodDay(m, now)
        gap == spent * periodLength(m) - even
        percent == RoundUp(100 * (IF gap < 0 THEN -gap ELSE gap), even) IN
    [ahead |-> gap > 0 /\ percent > 0, percent |-> percent]
SummaryCard(bought, now) == LET m == PeriodOf(now) IN
    [day |-> periodDay(m, now), left |-> periodDaysLeft(m, now), pace |-> budgetPace(SpentIn(bought, m), m, now)]

-----------------------------------------------------------------------------
(* The screens                                                              *)

\* Item detail: the headline, every range and the one it opens on, the warning, the comparison.
ItemDetail(bought, now) ==
    LET points == Timeline(bought)
        ranges == [range \in ToSet(PRICE_RANGES) |-> pointsInRange(points, range, now)]
        opening == openingRange(points, now) IN
    IF points = <<>> THEN NoData
    ELSE [headline |-> Headline(points, now), range |-> opening, ranges |-> ranges,
          chart |-> RangeChart(ranges[opening]), ticks |-> monthTicks(points),
          varies |-> unitPriceVaries(points), stores |-> StoreComparison(Compared(bought))]

\* A group of the split screen: some of the lines, newest first.
Group(bought, lines) == LET in == SetToSortSeq(lines, LAMBDA i, j : i > j) IN [i \in DOMAIN in |-> bought[in[i]]]

\* Every screen is drawn of what was bought until now.
Draw(bought, now) ==
    /\ item' = ItemDetail(bought, now)
    /\ groups' = [lines \in (SUBSET DOMAIN bought) \ {{}} |-> groupStats(Group(bought, lines))]
    /\ trend' = [range \in TrendRanges |-> TrendScreen(bought, now, range)]
    /\ summary' = SummaryCard(bought, now)

-----------------------------------------------------------------------------

\* A receipt is confirmed, dated today or before: the history is sorted by date.
Confirm(p) ==
    LET before == SelectSeq(purchases, LAMBDA q : q.day <= p.day)
        bought == before \o <<p>> \o SubSeq(purchases, Len(before) + 1, Len(purchases)) IN
    /\ Len(purchases) < MaxPurchases /\ p.day <= day
    /\ purchases' = bought
    /\ UNCHANGED day /\ Draw(bought, day)

NextDay == day < LastDay /\ day' = day + 1 /\ UNCHANGED purchases /\ Draw(purchases, day + 1)

Init ==
    /\ purchases = <<>> /\ day = FirstDay
    /\ item = NoData /\ groups = [lines \in {} |-> NoData]
    /\ trend = [range \in TrendRanges |-> TrendScreen(<<>>, FirstDay, range)]
    /\ summary = SummaryCard(<<>>, FirstDay)
Next == (\E p \in [day : BuyDays, of : Offered] : Confirm(p)) \/ NextDay
Spec == Init /\ [][Next]_figureVars

-----------------------------------------------------------------------------
(* Properties                                                               *)

Percents == Int \cup {NoData}

\* What was bought, and what is drawn of it, have their types.
TypeOK ==
    /\ purchases \in Seq([day : BuyDays, of : Offered]) /\ Len(purchases) <= MaxPurchases
    /\ day \in FirstDay .. LastDay
    /\ item # NoData => /\ item.range \in DOMAIN item.ranges /\ item.headline.average.percent \in Percents
                        /\ item.ticks \subseteq 1 .. Months
    /\ DOMAIN groups = (SUBSET DOMAIN purchases) \ {{}}
    /\ \A range \in TrendRanges : trend[range].change \in Percents /\ Len(trend[range].bars) = Len(trend[range].months)
    /\ summary \in [day : 1 .. LONG, left : 0 .. LONG, pace : [ahead : BOOLEAN, percent : Nat]]

\* Item detail never opens on "Not enough prices in this range" when there is a
\* timeline, nor on a wider range than it must, and a range holds every month it
\* names, also on a day of the month the first one lacks (priceTrend.ts
\* openingRange, rangeFrom).
RangesHold ==
    LET points == Timeline(purchases)
        Held(range) == ToSet(item.ranges[range]) IN
    points # <<>> =>
        /\ Len(points) >= MIN_POINTS => item.chart # NoData
        /\ \A i \in 2 .. 4 : PRICE_RANGES[i] # item.range /\ Len(item.ranges[PRICE_RANGES[i]]) >= MIN_POINTS =>
                Held(item.range) \subseteq Held(PRICE_RANGES[i])
        /\ \A range \in DOMAIN RANGE_MONTHS, p \in ToSet(points) :
                MonthOf(p.day) > MonthOf(day) - RANGE_MONTHS[range] => p \in Held(range)

\* The headline is the mean of the prices of the days it names and of no others,
\* dated when they are not the last thirty; a chart's line never runs back in time,
\* and its labels are one to six months of its own span (priceTrend.ts).
HeadlineIsOfItsDays ==
    LET points == Timeline(purchases)
        named == {i \in DOMAIN points : points[i].day \in Last(points).day - WINDOW_DAYS + 1 .. Last(points).day} IN
    points # <<>> =>
        /\ item.headline.average.of = <<Total(LastOf(points, Cardinality(named))), Cardinality(named)>>
        /\ ~item.headline.asOf => Last(points).day \in day - WINDOW_DAYS .. day
        /\ item.chart # NoData =>
                \A i \in 2 .. Len(item.chart) : item.chart[i - 1].x[1] <= item.chart[i].x[1]
        /\ Cardinality(item.ticks) \in 1 .. 6
        /\ \A m \in item.ticks : points[1].day < FirstOf(m + 1) /\ FirstOf(m) <= Last(points).day

\* The lines of a group as the server reads them, oldest first; two units most are in.
Server(lines) == Reverse(Group(purchases, lines))
UnitsTie(s) == \E u \in UnitsOf(s) \ {Series(s)} : CountOf(s, u) = CountOf(s, Series(s))

\* However the lines are split, the app and the server average a group alike where
\* one unit leads; the store that wears the badge is the cheapest of those compared,
\* the saving is its gap to the dearest, whose bar is full, and stores that differ by
\* half come with the warning of several products (split.ts, storeComparison.ts).
ComparesLikeTheServer ==
    /\ \A lines \in DOMAIN groups :
        /\ groups[lines].count = Cardinality(lines)
        /\ ~UnitsTie(Server(lines)) => groups[lines].average = Average(Server(lines))
    /\ item # NoData =>
        \A row \in ToSet(item.stores.rows), c \in Compared(purchases) :
            /\ row.cheapest => row.store.latest <= c.latest /\ Cardinality(Compared(purchases)) > 1
            /\ c.latest - row.store.latest <= item.stores.savings
            /\ row.share[1] = row.share[2] => c.latest <= row.store.latest
            /\ 2 * c.latest >= 3 * row.store.latest => item.varies

\* The highlights agree with the headline and with every bar: a month still in
\* progress is never the lowest, All begins with the first receipt, and Rising and
\* Falling are never told of an average that moved the other way
\* (trendHighlights.ts "so the two always agree").
HighlightsAgree ==
    \A range \in TrendRanges :
        LET months == trend[range].months
            told == trend[range].highlights
            bars == trend[range].bars
            half == Len(months) \div 2
            was == IF range = 0 THEN <<Sum(SubSeq(months, 1, half)), half>> ELSE <<PriorAverage(purchases, day, range), 1>>
            is == IF range = 0 THEN <<Sum(LastOf(months, half)), half>> ELSE <<Sum(months), range>> IN
        /\ range = 0 => Sum(months) = Total(purchases)
        /\ \A i \in DOMAIN bars : /\ bars[i][1] <= bars[i][2]
                                  /\ months[i] = told.highest /\ bars[i][1] > 0 => bars[i][1] = bars[i][2]
        /\ told.lowest # NoData => told.lowest.period < PeriodOf(day) /\ told.lowest.total > 0
        /\ told.direction = "rising" => is[1] * was[2] > was[1] * is[2]
        /\ told.direction = "falling" => is[1] * was[2] < was[1] * is[2]
        /\ told.direction = "steady" /\ told.change # NoData => told.change \in -4 .. 4

\* Today's day in the period and the days left make up the period, whatever the
\* reset day and the month's length, and a budget is told to be on pace only when
\* spending keeps up with the days, to half a percent (period.ts, pace.ts).
DaysAddUp ==
    LET this == PeriodOf(day)
        length == periodLength(this)
        spent == SpentIn(purchases, this) * length IN
    /\ PeriodStart(this) <= day /\ day <= PeriodEnd(this)
    /\ summary.day + summary.left = length
    /\ ~summary.pace.ahead => 200 * spent <= 201 * Cap * summary.day
    /\ summary.pace.ahead => spent > Cap * summary.day

\* What the screens compute on their own agrees with the server's figures and
\* with each other, for all that was bought and on every day.
FiguresAgree == RangesHold /\ HeadlineIsOfItsDays /\ ComparesLikeTheServer /\ HighlightsAgree /\ DaysAddUp

=============================================================================
