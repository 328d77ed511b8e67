---------------------------- MODULE PlanScreens ----------------------------
(***************************************************************************)
(* Premium in the app: the paywall with its purchase and restore, and      *)
(* Settings -> Export data, which is Premium only.                         *)
(*                                                                         *)
(* RevenueCat says who is entitled; the server learns it from a webhook,   *)
(* or when the app asks it to.  Months are numbers; This year ends in the  *)
(* month after Now.  The export's format, and which of the plans on offer   *)
(* is chosen, are left out.                                                *)
(***************************************************************************)
EXTENDS Queries, FiniteSets, Sequences, SequencesExt

CONSTANTS
    Now,            \* this month; Last 12 months begin with month 1
    Bought,         \* months with receipts
    MaxPlanActs,    \* bound: what the user does but for going back, and a plan that ends
    MaxPlanFaults   \* bound: calls lost

Included == {"receipts", "prices", "budgets", "images"}
Periods == {"last12", "all", "thisYear", "custom"}
AllTime == <<0, 0>>
Ranges == {AllTime} \cup {<<m, n>> : m \in 1 .. Now, n \in 1 .. Now + 1}
Me == <<"me">>
Offer == <<"offer">>
PlanKeys == {Me, Offer} \cup Ranges
OfferAnswers == {"plans", "no plans"}

\* The months of the picker up to this one.
Pickable == 1 .. Now

VARIABLES
    plan,           \* entitled, with RevenueCat; premium, with the server
    planCache,      \* ME_QUERY_KEY, the offer, the count of each range
    planStack,      \* the screens
    planCalls,      \* purchases, restores and exports under way
    planUntold,     \* keys the server changed without the app being told
    planActs, planFaults

planWorld == <<planActs, planFaults>>
planVars == <<plan, planCache, planStack, planCalls, planUntold, planWorld>>

PlanScreen(kind) == [kind |-> kind, period |-> "last12", custom |-> <<1, Now>>, includes |-> Included \ {"images"},
                     error |-> "no", notice |-> "no"]
PlanTop == Last(planStack)
SetTop(screen) == planStack' = Append(Front(planStack), screen)

PlanTypeOK ==
    /\ plan \in [entitled : BOOLEAN, premium : BOOLEAN] /\ planUntold \subseteq PlanKeys
    /\ \A k \in PlanKeys : planCache[k].call \in {"none", "asked", "read", "failed", "refused"}
    /\ \A i \in DOMAIN planStack : LET s == planStack[i] IN
        /\ s.kind \in {"settings", "export", "paywall"} /\ s.period \in Periods /\ s.custom \in Ranges \ {AllTime}
        /\ s.includes \in SUBSET Included \ {{}}
        /\ s.error \in {"no", "refused", "busy", "failed"}
        /\ s.notice \in {"no", "pending", "nothing", "unchecked", "failed"}
    /\ \A n \in DOMAIN planCalls :
        /\ planCalls[n].op \in {"buy", "restore", "export"} /\ planCalls[n].at \in 0 .. Len(planStack)
        /\ planCalls[n].pc \in {"sheet", "paid", "synced", "refetching", "over",
                                "checking", "downloading", "sharing", "refused", "busy", "failed"}

-----------------------------------------------------------------------------
(* The screens and the cache                                                *)

PlanAct == planActs < MaxPlanActs /\ planActs' = planActs + 1 /\ UNCHANGED planFaults
PlanFault == /\ planActs < MaxPlanActs /\ planFaults < MaxPlanFaults
             /\ planActs' = planActs + 1 /\ planFaults' = planFaults + 1

\* The months a period covers: Custom keeps the months picked.
MonthsOf(s) == CASE s.period = "last12" -> <<1, Now>>
                 [] s.period = "thisYear" -> <<Now, Now + 1>>
                 [] s.period = "all" -> AllTime
                 [] OTHER -> s.custom
Valid(range) == range[1] <= range[2]
Count(range) == IF \E m \in Bought : range = AllTime \/ (range[1] <= m /\ m <= range[2]) THEN "some" ELSE "none"
Server == IF plan.premium THEN "premium" ELSE "free"
PlanTruth(k) == IF k = Me THEN Server ELSE IF plan.premium THEN Count(k) ELSE "refused"

\* The count is read for Premium and a valid range, the offer on the paywall.
PlanMounted(st, cache) ==
    {Me} \cup {Offer : i \in {j \in DOMAIN st : st[j].kind = "paywall"}}
           \cup {MonthsOf(st[i]) : i \in {j \in DOMAIN st : st[j].kind = "export" /\ cache[Me].data = "premium" /\ Valid(MonthsOf(st[j]))}}

\* What newly shows is asked for; a count each time, and what was refused.
Asks(k, e) == IF k \in Ranges \/ e.call = "refused" THEN Observe([e EXCEPT !.fresh = FALSE]) ELSE Observe(e)
PlanGo(st, cache) ==
    /\ planStack' = st
    /\ planCache' = [k \in PlanKeys |->
        IF k \in PlanMounted(st, cache) \ PlanMounted(planStack, planCache) THEN Asks(k, cache[k]) ELSE cache[k]]

Under(op) == \E n \in DOMAIN planCalls : planCalls[n].at = Len(planStack) /\ planCalls[n].op = op
Paying == Under("buy") \/ Under("restore")
Begin(op, pc) == Append(planCalls, [op |-> op, pc |-> pc, at |-> Len(planStack), said |-> "unknown", awaits |-> {}])
Without(n, st) == LET Left == RemoveAt(planCalls, n) IN
    [i \in DOMAIN Left |-> IF Left[i].at > Len(st) THEN [Left[i] EXCEPT !.at = 0] ELSE Left[i]]

\* export-data.tsx `refused`, `free`, `nothing` and `disabled`.
Refused(s) == s.error = "refused" \/ planCache[MonthsOf(s)].call = "refused"
Free(s) == planCache[Me].data = "free" \/ Refused(s)
Nothing(s) == planCache[MonthsOf(s)].data = "none" /\ ("receipts" \in s.includes \/ "budgets" \notin s.includes)
MayExport(s) == /\ ~Under("export") /\ Valid(MonthsOf(s)) /\ ~Nothing(s)
                /\ planCache[MonthsOf(s)].data # NoData \/ planCache[MonthsOf(s)].call = "failed"

-----------------------------------------------------------------------------
(* What the user does                                                       *)

\* The ranges, what to include and the button, but for who is known not to be Premium.
ExportOffers == PlanTop.kind = "export" /\ ~Free(PlanTop)

OpenExport ==
    /\ PlanAct /\ PlanTop.kind = "settings"
    /\ PlanGo(Append(planStack, PlanScreen("export")), planCache)
    /\ UNCHANGED <<plan, planCalls, planUntold>>

\* From Settings, or from the prompt in place of the export.
OpenPaywall ==
    /\ PlanAct /\ (PlanTop.kind = "settings" \/ (PlanTop.kind = "export" /\ Free(PlanTop)))
    /\ PlanGo(Append(planStack, PlanScreen("paywall")), planCache)
    /\ UNCHANGED <<plan, planCalls, planUntold>>

BackPlan ==
    /\ Len(planStack) > 1
    /\ PlanGo(Front(planStack), planCache)
    /\ planCalls' = [i \in DOMAIN planCalls |->
                        IF planCalls[i].at = Len(planStack) THEN [planCalls[i] EXCEPT !.at = 0] ELSE planCalls[i]]
    /\ UNCHANGED <<plan, planUntold, planWorld>>

\* Custom starts from the months on screen, where there are any.
PickPeriod(period) ==
    /\ PlanAct /\ ExportOffers
    /\ LET shown == MonthsOf(PlanTop)
           kept == IF period = "custom" /\ shown # AllTime THEN shown ELSE PlanTop.custom IN
       PlanGo(Append(Front(planStack), [PlanTop EXCEPT !.period = period, !.custom = kept]), planCache)
    /\ UNCHANGED <<plan, planCalls, planUntold>>

PickMonth(which, m) ==
    /\ PlanAct /\ ExportOffers
    /\ LET base == IF MonthsOf(PlanTop) = AllTime THEN PlanTop.custom ELSE MonthsOf(PlanTop) IN
       PlanGo(Append(Front(planStack), [PlanTop EXCEPT !.period = "custom", !.custom = [base EXCEPT ![which] = m]]), planCache)
    /\ UNCHANGED <<plan, planCalls, planUntold>>

\* At least one stays on.
ToggleInclude(key) ==
    /\ PlanAct /\ ExportOffers /\ ~Under("export") /\ PlanTop.includes # {key}
    /\ SetTop([PlanTop EXCEPT !.includes = IF key \in @ THEN @ \ {key} ELSE @ \cup {key}])
    /\ UNCHANGED <<plan, planCache, planCalls, planUntold>>

StartExport ==
    /\ PlanAct /\ ExportOffers /\ MayExport(PlanTop)
    /\ SetTop([PlanTop EXCEPT !.error = "no"]) /\ planCalls' = Begin("export", "checking")
    /\ UNCHANGED <<plan, planCache, planUntold>>

\* Subscribe, with a plan on offer; Restore.
PayOn(op) ==
    /\ PlanAct /\ PlanTop.kind = "paywall" /\ planCache[Me].data # "premium" /\ ~Paying
    /\ op = "buy" => planCache[Offer].data = "plans"
    /\ SetTop([PlanTop EXCEPT !.notice = "no"]) /\ planCalls' = Begin(op, "sheet")
    /\ UNCHANGED <<plan, planCache, planUntold>>

RetryOffer ==
    /\ PlanAct /\ PlanTop.kind = "paywall" /\ planCache[Me].data # "premium" /\ planCache[Offer].data = "no plans"
    /\ planCache' = [planCache EXCEPT ![Offer] = Refetch(@)]
    /\ UNCHANGED <<plan, planStack, planCalls, planUntold>>

-----------------------------------------------------------------------------
(* RevenueCat, and the server                                               *)

Pc(n, pc) == planCalls' = [planCalls EXCEPT ![n].pc = pc]

\* Apple's sheet: paid, given up or failed; a restore may find nothing.
SheetCloses(n) ==
    /\ planCalls[n].pc = "sheet"
    /\ \/ plan' = [plan EXCEPT !.entitled = TRUE] /\ Pc(n, "paid")
       \/ planCalls[n].op = "restore" /\ Pc(n, "paid") /\ UNCHANGED plan
       \/ planCalls[n].op = "buy" /\ Pc(n, "over") /\ UNCHANGED plan
       \/ Pc(n, "failed") /\ UNCHANGED plan
    /\ UNCHANGED <<planCache, planStack, planUntold, planWorld>>

\* POST premium/refresh: the server asks RevenueCat.
ServeRefresh(n) ==
    /\ planCalls[n].pc = "paid"
    /\ plan' = [plan EXCEPT !.premium = plan.entitled]
    /\ planCalls' = [planCalls EXCEPT ![n].pc = "synced", ![n].said = Server']
    /\ UNCHANGED <<planCache, planStack, planUntold, planWorld>>

RefreshLost(n) ==
    /\ PlanFault /\ planCalls[n].pc \in {"paid", "synced"}
    /\ planCalls' = [planCalls EXCEPT ![n].pc = "synced", ![n].said = "unknown"]
    /\ UNCHANGED <<plan, planCache, planStack, planUntold>>

PlanEnds == /\ PlanAct /\ plan.entitled /\ plan' = [plan EXCEPT !.entitled = FALSE]
            /\ UNCHANGED <<planCache, planStack, planCalls, planUntold>>

\* The webhook, or the day the plan was known to end.
Webhook ==
    /\ plan.premium # plan.entitled
    /\ plan' = [plan EXCEPT !.premium = plan.entitled] /\ planUntold' = planUntold \cup ({Me} \cup Ranges)
    /\ UNCHANGED <<planCache, planStack, planCalls, planWorld>>

\* downloadExport: the profile is asked for first, then the file.  Busy: another
\* export is being prepared, or there were too many this hour.
ServeExport(n) ==
    /\ \/ planCalls[n].pc = "checking" /\ Pc(n, IF plan.premium THEN "downloading" ELSE "refused")
       \/ /\ planCalls[n].pc = "downloading"
          /\ \E answer \in IF plan.premium THEN {"sharing", "busy"} ELSE {"refused"} : Pc(n, answer)
    /\ UNCHANGED <<plan, planCache, planStack, planUntold, planWorld>>

ExportLost(n) ==
    /\ PlanFault /\ planCalls[n].pc \in {"checking", "downloading"} /\ Pc(n, "failed")
    /\ UNCHANGED <<plan, planCache, planStack, planUntold>>

-----------------------------------------------------------------------------
(* The answers                                                              *)

\* syncPremium: the profile it was given is stored, and what the screens then show
\* is refetched, before they are drawn again.
SyncPremium(n) ==
    /\ planCalls[n].pc = "synced"
    /\ LET said == planCalls[n].said
           known == said # "unknown"
           told == IF known THEN [planCache EXCEPT ![Me] = SetData(@, said)] ELSE planCache
           keys == Ranges \cup {k \in {Me} : ~known}
           shown == keys \cap PlanMounted(planStack, planCache) IN
       /\ PlanGo(planStack, [k \in PlanKeys |-> IF k \in keys THEN Invalidate(told[k], k \in shown) ELSE told[k]])
       /\ planCalls' = [planCalls EXCEPT ![n].pc = "refetching", ![n].awaits = shown]
       /\ planUntold' = (planUntold \ {k \in {Me} : said = Server})
                        \cup {k \in {Me} : known /\ (InFlight(planCache[k]) \/ said # Server)}
                        \cup {k \in keys : planCache[k].call = "read" /\ (planCache[k].data = NoData \/ k \notin shown)}
    /\ UNCHANGED <<plan, planWorld>>

Notice(c) ==
    CASE c.pc = "failed" -> "failed"
      [] c.pc = "over" \/ c.said = "premium" -> "no"
      [] c.op = "buy" -> "pending"
      [] OTHER -> IF c.said = "free" THEN "nothing" ELSE "unchecked"

\* The refetches are awaited, and then the user is told.
PaidFor(n) ==
    /\ LET c == planCalls[n] IN
       /\ c.op \in {"buy", "restore"} /\ c.pc \in {"over", "failed", "refetching"}
       /\ \A k \in c.awaits : ~InFlight(planCache[k])
       /\ planStack' = IF c.at = 0 THEN planStack ELSE [planStack EXCEPT ![c.at].notice = Notice(c)]
       /\ planCalls' = Without(n, planStack')
    /\ UNCHANGED <<plan, planCache, planUntold, planWorld>>

\* The file is shared, or that fails; or the screen says what went wrong, and a
\* refusal is told to all.
ExportOver(n) ==
    /\ LET c == planCalls[n] IN
       /\ c.op = "export" /\ c.pc \in {"sharing", "refused", "busy", "failed"}
       /\ \E error \in IF c.pc = "sharing" THEN {"no", "failed"} ELSE {c.pc} :
            planStack' = IF c.at = 0 THEN planStack ELSE [planStack EXCEPT ![c.at].error = error]
       /\ planCalls' = Without(n, planStack')
       /\ planCache' = IF c.pc = "refused" THEN [planCache EXCEPT ![Me] = Invalidate(@, TRUE)] ELSE planCache
    /\ UNCHANGED <<plan, planUntold, planWorld>>

ServePlanRead(k) ==
    /\ planCache[k].call = "asked"
    /\ \E answer \in IF k = Offer THEN OfferAnswers ELSE {PlanTruth(k)} :
        planCache' = [planCache EXCEPT ![k] = Reads(@, answer)]
    /\ planUntold' = planUntold \ {k}
    /\ UNCHANGED <<plan, planStack, planCalls, planWorld>>

PlanReadLost(k) ==
    /\ PlanFault /\ k # Offer /\ InFlight(planCache[k])
    /\ planCache' = [planCache EXCEPT ![k] = Fail(@)]
    /\ UNCHANGED <<plan, planStack, planCalls, planUntold>>

PlanReadAnswered(k) ==
    /\ planCache[k].call = "read"
    /\ LET e == planCache[k] IN
       PlanGo(planStack, [planCache EXCEPT ![k] = IF e.read = "refused" THEN [Fail(e) EXCEPT !.call = "refused"] ELSE Arrived(e)])
    /\ UNCHANGED <<plan, planCalls, planUntold, planWorld>>

-----------------------------------------------------------------------------

PlanInit ==
    /\ \E premium \in BOOLEAN : plan = [entitled |-> premium, premium |-> premium]
    /\ planCache = [[k \in PlanKeys |-> Unloaded] EXCEPT ![Me] = Loaded(Server)]
    /\ planStack = <<PlanScreen("settings")>> /\ planCalls = <<>> /\ planUntold = {} /\ planActs = 0 /\ planFaults = 0

PlanNext ==
    \/ OpenExport \/ OpenPaywall \/ BackPlan \/ StartExport \/ RetryOffer \/ PlanEnds \/ Webhook
    \/ \E period \in Periods : PickPeriod(period)
    \/ \E which \in {1, 2}, m \in Pickable : PickMonth(which, m)
    \/ \E key \in Included : ToggleInclude(key)
    \/ \E op \in {"buy", "restore"} : PayOn(op)
    \/ \E n \in DOMAIN planCalls : \/ SheetCloses(n) \/ ServeRefresh(n) \/ RefreshLost(n) \/ ServeExport(n)
                                   \/ ExportLost(n) \/ SyncPremium(n) \/ PaidFor(n) \/ ExportOver(n)
    \/ \E k \in PlanKeys : ServePlanRead(k) \/ PlanReadLost(k) \/ PlanReadAnswered(k)

PlanSpec == PlanInit /\ [][PlanNext]_planVars

-----------------------------------------------------------------------------
(* Properties                                                               *)

\* Once no call is under way, whether the user is Premium and how many receipts
\* an export holds are shown as the server has them, but for changes the app was
\* not told of, reads that failed or were refused, and a first read, or one no
\* screen waits for, under way when the purchase was told of.
PlanShownIsTrue ==
    planCalls = <<>> =>
        \A k \in PlanMounted(planStack, planCache) \ ({Offer} \cup planUntold) :
            planCache[k].call = "none" => planCache[k].data = PlanTruth(k)

=============================================================================
