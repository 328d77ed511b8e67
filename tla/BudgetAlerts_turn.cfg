\* The turn of a period, with rollover on.
SPECIFICATION Spec
CONSTANTS
  r1 = r1  r2 = r2  r3 = r3  r4 = r4  food = food  other = other
  all = all  foodOnly = foodOnly  old = old  q1 = q1  q2 = q2  keep = keep
  Receipt = {r1, r2, r3, r4}
  Category = {food, other}
  Budget = {all, foodOnly, old}
  Request = {q1, q2}
  Overall = Overall
  Keep = keep
  BudgetCat <- MCBudgetCat
  Item <- MCItem
  Target <- MCTarget
  Threshold = {50, 100}
  Price = {30, 60}
  Amount = {0, 60}
  LastPeriod = 2
  Ask <- MCAsk
  Receipt0 <- MCReceipt0
  Line0 <- MCLine0
  Budget0 <- MCBudget0
  MaxChanges = 1
INVARIANTS NoMissedAlert
