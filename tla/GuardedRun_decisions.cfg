SPECIFICATION Spec
CONSTANTS
  PerSecond = 4
  DurationRange = 2048
  Files <- MCFiles
  Hosts <- MCHosts
  Requests <- MCRequests
  Approver = "approver"
  MaxSigned = 1
  MaxEdits = 2
INVARIANT DeclaredIsEnforced
INVARIANT NoWayRoundTheGate
INVARIANT PathStaysInside
INVARIANT InspectedIsExecuted
INVARIANT LogTellsTheTruth
CHECK_DEADLOCK FALSE
