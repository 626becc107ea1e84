\* Two runs of one agent in one day, one after the other or together.
CONSTANTS
  r1 = r1
  r2 = r2
  Runs = {r1, r2}
  MaxEvents = 2
  MaxNet = 1
SPECIFICATION Spec
SYMMETRY RunSymmetry
INVARIANTS ChainVerifies SuccessIsComplete TamperingIsLocated
