\* Two runs of one identity, replays of one envelope and a later one.
CONSTANTS
  p1 = p1
  p2 = p2
  e1 = e1
  e2 = e2
  k1 = k1
  k2 = k2
  k3 = k3
  k4 = k4
  Procs = {p1, p2}
  Copies = {k1, k2, k3, k4}
  Envelopes = {e1, e2}
  Carries <- CarriesE1
  At <- TwoRuns
  Stamps <- SomeStamps
  Window = 1
  Hour = 2
  MaxTime = 6
  Stall = 1
SPECIFICATION GuardSpec
SYMMETRY CopySymmetry
INVARIANTS AdmittedOnce FirstCopyIsNoReplay
