CONSTANTS
  u = u
  s = s
  Procs = {u, s}
  Sudo = {s}
  Trees <- MCTrees
  Leftovers <- MCLeftovers
  MaxCommands = 3
  MaxChanges = 2
SPECIFICATION Spec
CHECK_DEADLOCK FALSE
INVARIANTS OnePair HandedBack
PROPERTY KeepsWhatItFinds
