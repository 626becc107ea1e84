\* Two runs of one DID on one ledger, across a midnight.
CONSTANTS
  r1 = r1
  r2 = r2
  c1 = c1
  c2 = c2
  c3 = c3
  Runs = {r1, r2}
  Calls = {c1, c3}
  Owner <- TwoOwner
  Budgets <- TwoBudgets
  Costs = {1, 2}
  MaxAmount = 5
  Carried = 1
  LastDay = 1
  NoCall = NoCall
SPECIFICATION Spec
INVARIANTS LedgerAgrees DayCapNoticed
