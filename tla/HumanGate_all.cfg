\* Two gates under each configuration, one line typed.
CONSTANTS
  g1 = g1
  g2 = g2
  Gates = {g1, g2}
  Configs <- AllConfigs
  Unshowable = {g2}
  MaxLines = 1
  NoGate = NoGate
SPECIFICATION FairSpec
INVARIANTS FirstDecisionWins LogMatchesOutcome UnseenNotApprovedHere
PROPERTY GatesResolve
