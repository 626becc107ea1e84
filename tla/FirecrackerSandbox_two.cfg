CONSTANTS
  r1 = r1
  r2 = r2
  Runs = {r1, r2}
  Operator = Operator
  NoRun = NoRun
  Pids = {1, 2, 3, 4}
  Limited = {r1}
  Troubled = {r1}
  MaxTroubles = 1
SPECIFICATION Spec
INVARIANTS NothingLeft TeardownSparesOthers RunningUndisturbed ReportIsTrue
PROPERTY KillEndsRun
