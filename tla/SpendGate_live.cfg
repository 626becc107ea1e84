\* One run with each kind of budget, two concurrent calls.
CONSTANTS
  r1 = r1
  r2 = r2
  c1 = c1
  c2 = c2
  c3 = c3
  Runs = {r1}
  Calls = {c1, c2}
  Owner <- OneOwner
  Budgets <- OneBudgets
  Costs = {1, 2}
  MaxAmount = 5
  Carried = 1
  LastDay = 0
  NoCall = NoCall
SPECIFICATION FairSpec
INVARIANTS NoFreeResult ReportedOnce
PROPERTIES KeepsPromise ChargeReturns KillFollowsTrip
