CONSTANTS
  r1 = r1
  r2 = r2
  Runs = {r1, r2}
  Operator = Operator
  NoRun = NoRun
  Alarms <- OneAlarmed
  MaxTroubles = 1
SPECIFICATION Spec
INVARIANTS NothingLeft SweepIsThorough SweepSparesRunning KilledIsReported LogsBeforeRemoval
