---------------------------- MODULE BudgetAlerts ----------------------------
(***************************************************************************)
(* Budget threshold alerts (BC-03): what happens when several requests of  *)
(* one user confirm or edit receipts at once.                              *)
(*                                                                         *)
(* Every request is one PostgreSQL transaction at READ COMMITTED: it sees  *)
(* the rows committed so far overlaid with its own writes, a written or    *)
(* locked row stays locked until it commits, and an exception rolls all of *)
(* it back (get_db).  The variables below hold the COMMITTED rows; req[q]  *)
(* holds what request q has written and locked.                            *)
(*                                                                         *)
(* A receipt has one line here, in the budget currency, and a date is the  *)
(* budget period that holds it.                                            *)
(***************************************************************************)
EXTENDS Integers, FiniteSets, Functions, SequencesExt

CONSTANTS
  Receipt, Category, Budget, Request,
  Overall,     \* the category of an overall budget (SQL NULL)
  BudgetCat,   \* [Budget -> Category \cup {Overall}]
  Item,        \* Item[r]: the name printed on the line of receipt r
  Threshold,   \* the configured alert thresholds, in percent
  Price, Amount, LastPeriod,
  Keep,        \* a field the request body leaves out
  Target,      \* Target[q]: the receipt request q is about
  Ask,         \* the bodies a request may carry
  Receipt0,    \* the receipts there may be at the start
  Line0, Budget0,             \* the other rows there are at the start
  MaxChanges   \* bound on the changes that check no threshold

Period == 1 .. LastPeriod
Off == 0                      \* a budget row without a rollover run
Alert == Budget \X Period \X Threshold

Body == [confirm : BOOLEAN, cat : Category \cup {Keep},
         price : Price \cup {Keep}, period : Period \cup {Keep}]
ReceiptRow == [status : {"none", "pending_review", "confirmed"},
               live : BOOLEAN, period : Period]
LineRow == [cat : Category, price : Price]
BudgetRow == [live : BOOLEAN, amount : Amount, start : Period \cup {Off}, opening : Nat]

ASSUME DomainAssumption ==
  /\ BudgetCat \in [Budget -> Category \cup {Overall}]
  /\ Overall \notin Category /\ Keep \notin Category \cup Price \cup Period
  /\ Threshold \subseteq Nat \ {0} /\ 100 \in Threshold
  /\ Price \subseteq Nat /\ Amount \subseteq Nat
  /\ LastPeriod \in Nat \ {0} /\ MaxChanges \in Nat
  /\ Target \in [Request -> Receipt] /\ Ask \subseteq Body
ASSUME RowAssumption ==
  /\ IsFiniteSet(Receipt) /\ Receipt0 \subseteq [Receipt -> ReceiptRow]
  /\ Line0 \in [Receipt -> LineRow]
  /\ Budget0 \in [Budget -> BudgetRow]
  /\ \A q1, q2 \in Request, rows \in Receipt0 :
        q1 # q2 /\ Target[q1] = Target[q2] => rows[Target[q1]].status # "none"

VARIABLES
  today,     \* the periods that hold yesterday, today or tomorrow
  rcpt,      \* receipts rows
  line,      \* line_items rows
  budget,    \* budgets rows
  enabled,   \* the thresholds the user has turned on
  muted,     \* budgets whose category the user muted
  premium,   \* the user is Premium, so carries apply
  alerts,    \* budget_alerts_sent rows
  notes,     \* how many notifications rows name each alert
  confirms,  \* how often each receipt's confirmation was committed
  req,       \* the requests
  unchecked, \* alerts due to a change that checks no threshold
  atTurn,    \* alerts of a period due to receipts of the period before, while
             \* both periods can alert
  changes    \* how many such changes there were

dbVars == <<rcpt, line, budget, enabled, muted, premium, alerts, notes, confirms>>
vars == <<today, dbVars, req, unchecked, atTurn, changes>>

-----------------------------------------------------------------------------
(* Spend, carries and limits. *)

Total(f) == FoldFunction(+, 0, f)

\* What a receipt adds to a budget's spend in a period: the price of its line,
\* when it is confirmed, live and dated there, and the budget counts the line.
Adds(receipt, item, b, p) ==
  IF /\ receipt.status = "confirmed" /\ receipt.live /\ receipt.period = p
     /\ BudgetCat[b] \in {Overall, item.cat}
  THEN item.price ELSE 0

Spend(rc, ln, b, p) == Total([r \in Receipt |-> Adds(rc[r], ln[r], b, p)])

RolloverRunning(row) == row.start # Off /\ row.amount > 0

\* A period's unspent amount carries into the next, and overspend carries nothing.
Rolled(amount, opening, spent) ==
  FoldLeft(LAMBDA carry, s : IF s < amount + carry THEN amount + carry - s ELSE 0,
           opening, spent)

\* What has rolled into period p since the run's first period.
Carry(rc, ln, row, b, p) ==
  IF RolloverRunning(row) /\ p >= row.start
  THEN Rolled(row.amount, row.opening,
              [i \in 1 .. p - row.start |-> Spend(rc, ln, b, row.start + i - 1)])
  ELSE 0

Limit(rc, ln, row, b, p) ==
  row.amount + IF premium THEN Carry(rc, ln, row, b, p) ELSE 0

\* The thresholds budget b has reached in period p.
PeriodBreaches(rc, ln, b, p) ==
  LET spent == Spend(rc, ln, b, p)
      limit == Limit(rc, ln, budget[b], b, p)
  IN IF limit = 0 THEN {t \in {100} : spent > 0}
     ELSE {t \in enabled : 100 * spent >= t * limit}

Live == {b \in Budget : budget[b].live}

Breaches(rc, ln, periods) ==
  IF enabled = {} THEN {}
  ELSE UNION {{<<b, p, t>> : t \in PeriodBreaches(rc, ln, b, p)} :
                b \in Live \ muted, p \in periods}

\* What the committed rows call for, in the periods that can still alert.
Reached == Breaches(rcpt, line, today)

-----------------------------------------------------------------------------
(* Transactions. *)

NoRows == [r \in {} |-> r]
Idle(pc) == [pc |-> pc, body |-> Keep, seen |-> Keep, rcptW |-> NoRows, lineW |-> NoRows,
             moved |-> {}, dates |-> {}, plan |-> {}, past |-> {}, now |-> {}, locked |-> {},
             todo |-> {}, claimed |-> {}, sent |-> {}, confirmed |-> FALSE, disturbed |-> FALSE,
             misled |-> FALSE]

Over(rows, own) == [r \in Receipt |-> IF r \in DOMAIN own THEN own[r] ELSE rows[r]]
RcptView(q) == Over(rcpt, req[q].rcptW)
LineView(q) == Over(line, req[q].lineW)
Put(own, rows) == [r \in DOMAIN own \cup DOMAIN rows |->
                     IF r \in DOMAIN rows THEN rows[r] ELSE own[r]]
One(r, row) == [s \in {r} |-> row]

\* No other transaction has written the row.
RcptFree(q, r) == \A o \in Request \ {q} : r \notin DOMAIN req[o].rcptW
LineFree(q, r) == \A o \in Request \ {q} : r \notin DOMAIN req[o].lineW

Open(q) == req[q].pc \notin {"new", "done"}
\* Variant: a field left out is written as it came.
AskedAnyway(field, old) == field
Asked(field, old) == IF field = Keep THEN old ELSE field
Edits(body) == body.cat # Keep \/ body.price # Keep

-----------------------------------------------------------------------------
(* One request: PATCH /receipts/{id}, or POST /receipts for a receipt that  *)
(* is not there yet (a manual entry, saved as confirmed).                   *)

\* The row is read without a lock; "already confirmed" is decided from it.
\* A corrected date is at most tomorrow; the date of a manual entry is any.
Begin(q, body) ==
  LET r == Target[q] IN
  /\ req[q].pc = "new"
  /\ IF rcpt[r].status = "none"
     THEN body.confirm /\ Keep \notin {body.cat, body.price, body.period}
     ELSE rcpt[r].live /\ (body.period # Keep => \E p \in today : body.period <= p)
  /\ req' = [req EXCEPT ![q].pc = "apply", ![q].body = body, ![q].seen = rcpt[r]]
  /\ UNCHANGED <<today, dbVars, unchecked, atTurn, changes>>

\* A receipt in Recently Deleted is not found.
NotFound(q) ==
  /\ req[q].pc = "new" /\ rcpt[Target[q]].status # "none" /\ ~rcpt[Target[q]].live
  /\ req' = [req EXCEPT ![q] = Idle("done")]
  /\ UNCHANGED <<today, dbVars, unchecked, atTurn, changes>>

\* The corrections to the request's own rows.  A price change also moves the
\* receipt's total.  A category change asks which other lines of the user carry
\* the same name: those on live, confirmed receipts move spend in their periods.
Apply(q) ==
  LET r == Target[q]
      body == req[q].body
      new == req[q].seen.status = "none"
      row == [cat |-> Asked(body.cat, line[r].cat), price |-> Asked(body.price, line[r].price)]
      date == Asked(body.period, req[q].seen.period)
      written == IF date = req[q].seen.period THEN rcpt[r].period ELSE date
      lineMoves == new \/ row # line[r]
      rcptMoves == new \/ row.price # line[r].price \/ date # req[q].seen.period
      same == IF new \/ row.cat = line[r].cat THEN {}
              ELSE {s \in Receipt \ {r} : /\ rcpt[s].status # "none" /\ Item[s] = Item[r]
                                          /\ line[s].cat # row.cat}
  IN /\ req[q].pc = "apply"
     /\ lineMoves => LineFree(q, r)
     /\ rcptMoves => RcptFree(q, r)
     /\ req' = [req EXCEPT
          ![q].pc = "flush",
          ![q].lineW = IF lineMoves THEN One(r, row) ELSE NoRows,
          ![q].rcptW = IF new THEN One(r, [status |-> "confirmed", live |-> TRUE, period |-> date])
                       ELSE IF rcptMoves THEN One(r, [rcpt[r] EXCEPT !.period = written])
                       ELSE NoRows,
          ![q].moved = same,
          ![q].dates = {rcpt[s].period : s \in {s \in same : rcpt[s].status = "confirmed"
                                                             /\ rcpt[s].live}}]
     /\ UNCHANGED <<today, dbVars, unchecked, atTurn, changes>>

\* The status and the same-named lines are flushed; then the dates whose spend
\* this request moved are known.
Flush(q) ==
  LET r == Target[q]
      body == req[q].body
      already == req[q].seen.status = "confirmed"
      confirming == body.confirm /\ ~already
      date == Asked(body.period, req[q].seen.period)
      dates == req[q].dates \cup
                 IF confirming \/ (already /\ (Edits(body) \/ body.period # Keep))
                 THEN {date} ELSE {}
  IN /\ req[q].pc = "flush"
     /\ confirming => RcptFree(q, r)
     /\ \A s \in req[q].moved : LineFree(q, s)
     /\ req' = [req EXCEPT
          ![q].pc = IF dates = {} THEN "commit" ELSE "plan",
          ![q].dates = dates,
          ![q].confirmed = confirming,
          ![q].lineW = Put(@, [s \in req[q].moved |-> [line[s] EXCEPT !.cat = body.cat]]),
          ![q].rcptW = IF confirming
                       THEN Put(@, One(r, [RcptView(q)[r] EXCEPT !.status = "confirmed"]))
                       ELSE @]
     /\ UNCHANGED <<today, dbVars, unchecked, atTurn, changes>>

RolloverOn == \E b \in Live : budget[b].start # Off

\* check_thresholds up to its first return: only a period that can still alert
\* counts, and an earlier one only while a rollover run may carry it forward.
Plan(q) ==
  LET periods == req[q].dates \cap today
      past == {p \in req[q].dates : \A c \in today : p < c}
  IN /\ req[q].pc = "plan"
     /\ req' = [req EXCEPT
          ![q].pc = IF periods = {} /\ (past = {} \/ ~RolloverOn) THEN "commit" ELSE "lock",
          ![q].plan = periods, ![q].past = past, ![q].now = today]
     /\ UNCHANGED <<today, dbVars, unchecked, atTurn, changes>>

BudgetFree(q, b) == \A o \in Request \ {q} : b \notin req[o].locked

\* Variant: the spend is read without locking the budgets.
CheckThresholdsUnlocked(q) ==
  /\ req[q].pc = "lock"
  /\ req' = [req EXCEPT ![q].pc = "claim",
                        ![q].todo = Breaches(RcptView(q), LineView(q), req[q].plan)]
  /\ UNCHANGED <<today, dbVars, unchecked, atTurn, changes>>

\* SELECT ... FOR UPDATE of every active budget, then the spend read under it.
CheckThresholds(q) ==
  LET running == \E b \in Live : RolloverRunning(budget[b])
      periods == req[q].plan \cup
        IF running THEN {p \in req[q].now : \E d \in req[q].past : d < p} ELSE {}
  IN /\ req[q].pc = "lock"
     /\ \A b \in Live : BudgetFree(q, b)
     /\ req' = [req EXCEPT
          ![q].pc = "claim",
          ![q].locked = Live,
          ![q].todo = Breaches(RcptView(q), LineView(q), periods)]
     /\ UNCHANGED <<today, dbVars, unchecked, atTurn, changes>>

\* Variant: a claim that found its row already there counts as won.
ClaimAlways(q) == req[q].todo

\* INSERT ... ON CONFLICT DO NOTHING waits for an uncommitted row with its key,
\* and returns a row only to the one insert that made it.
ClaimAlert(q) == req[q].todo \ alerts

\* Each breach is claimed; only a claim that won makes a notification.
Alerting(q) ==
  LET won == ClaimAlert(q) IN
  /\ req[q].pc = "claim"
  /\ \A o \in Request \ {q} : req[o].claimed \cap req[q].todo = {}
  /\ req' = [req EXCEPT ![q].pc = "commit", ![q].claimed = won, ![q].sent = won]
  /\ UNCHANGED <<today, dbVars, unchecked, atTurn, changes>>

\* An edit of the date takes a confirmed receipt out of the period it was in,
\* where nothing is checked or locked for it: what others read of that is old.
MovesAway(q) ==
  \E r \in DOMAIN req[q].rcptW : /\ rcpt[r].status = "confirmed" /\ rcpt[r].live
                                 /\ req[q].rcptW[r].period # rcpt[r].period

Commit(q) ==
  /\ req[q].pc = "commit"
  /\ rcpt' = RcptView(q)
  /\ line' = LineView(q)
  /\ alerts' = alerts \cup req[q].claimed
  /\ notes' = [x \in Alert |-> notes[x] + IF x \in req[q].sent THEN 1 ELSE 0]
  /\ confirms' = [confirms EXCEPT ![Target[q]] = @ + IF req[q].confirmed THEN 1 ELSE 0]
  /\ req' = [o \in Request |->
                IF o = q THEN Idle("done")
                ELSE [req[o] EXCEPT !.disturbed = @ \/ (Open(o) /\ req[q].disturbed),
                                    !.misled = @ \/ (Open(o) /\ MovesAway(q))]]
  /\ UNCHANGED <<today, budget, enabled, muted, premium, changes>>
  /\ unchecked' = IF req[q].disturbed THEN unchecked \cup Reached' ELSE unchecked
  /\ atTurn' = IF \E d \in req[q].plan, p \in today : d < p
               THEN atTurn \cup {x \in Reached' : RolloverRunning(budget[x[1]])}
               ELSE atTurn

\* An exception anywhere: get_db rolls everything back.
Rollback(q) ==
  /\ Open(q)
  /\ req' = [req EXCEPT ![q] = Idle("done")]
  /\ UNCHANGED <<today, dbVars, unchecked, atTurn, changes>>

-----------------------------------------------------------------------------
(* Changes that move spend, limits or preferences and check no threshold.   *)
(* What they make due is remembered in unchecked; a request they overlap is *)
(* disturbed, and so is one that a disturbed request's commit overlaps.     *)

Changing ==
  /\ changes < MaxChanges
  /\ changes' = changes + 1
  /\ req' = [q \in Request |-> [req[q] EXCEPT !.disturbed = Open(q)]]
  /\ UNCHANGED <<line, alerts, notes, confirms, atTurn>>
  /\ unchecked' = unchecked \cup Reached'

RowUnlocked(r) == \A q \in Request : r \notin DOMAIN req[q].rcptW
BudgetUnlocked(b) == \A q \in Request : b \notin req[q].locked

SoftDeleteReceipt(r) ==
  /\ rcpt[r].status # "none" /\ rcpt[r].live /\ RowUnlocked(r)
  /\ rcpt' = [rcpt EXCEPT ![r].live = FALSE]
  /\ UNCHANGED <<today, budget, enabled, muted, premium>>
  /\ Changing

RestoreReceipt(r) ==
  /\ rcpt[r].status # "none" /\ ~rcpt[r].live /\ RowUnlocked(r)
  /\ rcpt' = [rcpt EXCEPT ![r].live = TRUE]
  /\ UNCHANGED <<today, budget, enabled, muted, premium>>
  /\ Changing

\* save_budget and update_budget on an active budget.  A new amount restarts a
\* run in the current period, carrying what it had reached.
SetAmount(b, a) ==
  /\ budget[b].live /\ a # budget[b].amount /\ BudgetUnlocked(b)
  /\ \E current \in today :
       budget' = [budget EXCEPT ![b] =
         IF @.start = Off THEN [@ EXCEPT !.amount = a]
         ELSE [@ EXCEPT !.amount = a, !.start = current,
                        !.opening = Carry(rcpt, line, budget[b], b, current)]]
  /\ UNCHANGED <<today, rcpt, enabled, muted, premium>>
  /\ Changing

\* save_budget without an active budget: a new row, or the deleted one revived.
CreateBudget(b, a) ==
  /\ ~budget[b].live
  /\ budget' = [budget EXCEPT ![b] = [live |-> TRUE, amount |-> a, start |-> Off, opening |-> 0]]
  /\ UNCHANGED <<today, rcpt, enabled, muted, premium>>
  /\ Changing

DeleteBudget(b) ==
  /\ budget[b].live /\ BudgetUnlocked(b)
  /\ budget' = [budget EXCEPT ![b].live = FALSE]
  /\ UNCHANGED <<today, rcpt, enabled, muted, premium>>
  /\ Changing

\* A new run starts in the previous period when the budget existed then.
SetRollover(b) ==
  /\ budget[b].live /\ BudgetUnlocked(b)
  /\ IF budget[b].start # Off
     THEN budget' = [budget EXCEPT ![b].start = Off, ![b].opening = 0]
     ELSE \E current \in today : \E first \in {current, current - 1} \cap Period :
            budget' = [budget EXCEPT ![b].start = first, ![b].opening = 0]
  /\ UNCHANGED <<today, rcpt, enabled, muted, premium>>
  /\ Changing

Toggle(set, x) == IF x \in set THEN set \ {x} ELSE set \cup {x}

\* Settings -> Alerts, and Premium bought or lapsed.
SetThreshold(t) ==
  /\ enabled' = Toggle(enabled, t)
  /\ UNCHANGED <<today, rcpt, budget, muted, premium>>
  /\ Changing

MuteCategory(b) ==
  /\ BudgetCat[b] # Overall /\ muted' = Toggle(muted, b)
  /\ UNCHANGED <<today, rcpt, budget, enabled, premium>>
  /\ Changing

SetPremium ==
  /\ premium' = ~premium
  /\ UNCHANGED <<today, rcpt, budget, enabled, muted>>
  /\ Changing

\* Midnight: the last day of a period and the first of the next share a window.
NextDay ==
  /\ \/ Cardinality(today) = 2 /\ today' = today \ {CHOOSE p \in today : p + 1 \in today}
     \/ \E p \in today : today = {p} /\ p < LastPeriod /\ today' = {p, p + 1}
  /\ UNCHANGED <<rcpt, budget, enabled, muted, premium>>
  /\ Changing

-----------------------------------------------------------------------------
Init ==
  /\ today \in {{p} : p \in Period} /\ premium \in BOOLEAN
  /\ rcpt \in Receipt0 /\ line = Line0 /\ budget = Budget0
  /\ enabled = Threshold /\ muted = {}
  /\ alerts = {} /\ notes = [x \in Alert |-> 0]
  /\ confirms = [r \in Receipt |-> 0]
  /\ req = [q \in Request |-> Idle("new")]
  /\ unchecked = Reached /\ atTurn = {} /\ changes = 0

Step(q) == \/ Apply(q) \/ Flush(q) \/ Plan(q) \/ CheckThresholds(q)
           \/ Alerting(q) \/ Commit(q)

Change ==
  \/ \E r \in Receipt : SoftDeleteReceipt(r) \/ RestoreReceipt(r)
  \/ \E b \in Budget : \/ DeleteBudget(b) \/ SetRollover(b) \/ MuteCategory(b)
                       \/ \E a \in Amount : SetAmount(b, a) \/ CreateBudget(b, a)
  \/ \E t \in Threshold : SetThreshold(t)
  \/ SetPremium \/ NextDay

Next ==
  \/ \E q \in Request : \E body \in Ask : Begin(q, body)
  \/ \E q \in Request : NotFound(q) \/ Step(q) \/ Rollback(q)
  \/ Change
  \/ /\ \A q \in Request : req[q].pc = "done"
     /\ UNCHANGED vars

Spec == Init /\ [][Next]_vars

-----------------------------------------------------------------------------
(* Properties. *)

Written(row) == UNION {[R -> row] : R \in SUBSET Receipt}
RequestRow ==
  [pc : {"new", "apply", "flush", "plan", "lock", "claim", "commit", "done"},
   body : Body \cup {Keep}, seen : ReceiptRow \cup {Keep},
   rcptW : Written(ReceiptRow), lineW : Written(LineRow),
   moved : SUBSET Receipt, dates : SUBSET Period, plan : SUBSET Period,
   past : SUBSET Period, now : SUBSET Period, locked : SUBSET Budget,
   todo : SUBSET Alert, claimed : SUBSET Alert, sent : SUBSET Alert,
   confirmed : BOOLEAN, disturbed : BOOLEAN, misled : BOOLEAN]

\* The shape of the rows and of the requests' state (get_db, models/database.py),
\* and that an opening carry is a number, whatever rolled over into it.
TypeOK ==
  /\ today \in SUBSET Period
  /\ rcpt \in [Receipt -> ReceiptRow]
  /\ line \in [Receipt -> LineRow]
  /\ budget \in [Budget -> BudgetRow]
  /\ enabled \in SUBSET Threshold /\ muted \in SUBSET Budget /\ premium \in BOOLEAN
  /\ alerts \in SUBSET Alert /\ notes \in [Alert -> Nat]
  /\ confirms \in [Receipt -> Nat]
  /\ req \in [Request -> RequestRow]
  /\ unchecked \in SUBSET Alert /\ atTurn \in SUBSET Alert /\ changes \in 0 .. MaxChanges

\* Each threshold notifies once per budget and period, and never without its
\* ledger row, however requests interleave (claim_alert, _alert_on_thresholds).
NotifiedOnce == \A x \in Alert : notes[x] = IF x \in alerts THEN 1 ELSE 0

\* Once the requests that move spend have committed, every threshold the spend
\* has reached in a period that can alert was alerted: the sum of two receipts
\* confirmed at once is never lost (the budget lock of check_thresholds).
NoMissedAlert == Reached \subseteq alerts \cup unchecked

\* The same, but for what the code does not check: on the last and the first day
\* of a period, a receipt dated in the earlier one shrinks what rolls over into
\* the later one, whose thresholds are not looked at.
NoMissedAlertButAtTurn == Reached \subseteq alerts \cup unchecked \cup atTurn

\* An alert a request commits is true of the spend it commits with: nothing a
\* concurrent request did between its spend read and its commit made it false,
\* but for a receipt whose date it moved away.
NoFalseAlert ==
  [][\A q \in Request :
       req[q].pc = "commit" /\ ~req[q].disturbed /\ ~req[q].misled /\ req'[q].pc = "done"
       /\ alerts' # alerts
       => alerts' \ alerts \subseteq Reached']_vars

=============================================================================
