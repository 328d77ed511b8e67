--------------------------- MODULE MCBudgetAlerts ---------------------------
(* Instances of BudgetAlerts for TLC.                                      *)
EXTENDS BudgetAlerts, TLC

CONSTANTS r1, r2, r3, r4, food, other, all, foodOnly, old, q1, q2, keep

MCBudgetCat == all :> Overall @@ foodOnly :> food @@ old :> other
MCItem == r1 :> "milk" @@ r2 :> "bread" @@ r3 :> "milk" @@ r4 :> "eggs"
MCTarget == q1 :> r1 @@ q2 :> r2

MCTargetShared == q1 :> r1 @@ q2 :> r1

Row(status, p) == [status |-> status, live |-> TRUE, period |-> p]
MCRows == r1 :> Row("pending_review", 1) @@ r2 :> Row("none", 1) @@ r3 :> Row("confirmed", 1)
          @@ r4 :> [Row("confirmed", 1) EXCEPT !.live = FALSE]
MCReceipt0 == {MCRows}

\* Or the first receipt is confirmed already, and may be moved to another period.
MCReceiptEither == {MCRows, [MCRows EXCEPT ![r1] = Row("confirmed", 2)]}

MCLine0 == [r \in Receipt |-> [cat |-> food, price |-> 30]]
MCBudget0 == all :> [live |-> TRUE, amount |-> 60, start |-> 0, opening |-> 0]
          @@ foodOnly :> [live |-> TRUE, amount |-> 60, start |-> 1, opening |-> 0]
          @@ old :> [live |-> FALSE, amount |-> 60, start |-> 0, opening |-> 0]

MCBudgetLarge == [MCBudget0 EXCEPT ![all].amount = 90]

Says(confirm, cat, price, period) ==
  [confirm |-> confirm, cat |-> cat, price |-> price, period |-> period]

\* Confirm as it is, confirm with corrections, edit, and a manual entry.
MCAsk == {Says(TRUE, keep, keep, keep), Says(TRUE, other, keep, keep),
          Says(FALSE, keep, 60, keep), Says(TRUE, food, 30, 1), Says(TRUE, food, 30, 2)}
=============================================================================
