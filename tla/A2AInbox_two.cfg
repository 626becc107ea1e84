\* A quota of one, three calls of two peers, two polls and two replies at once.
CONSTANTS
  a = a
  b = b
  c1 = c1
  c2 = c2
  c3 = c3
  q1 = q1
  q2 = q2
  h1 = h1
  h2 = h2
  Calls = {c1, c2, c3}
  Peers = {a, b}
  From <- FromTwo
  Capacity = 1
  Polls = {q1, q2}
  Replies = {h1, h2}
  NoCall = NoCall
SPECIFICATION FairSpec
INVARIANTS QuotaExact OnePlace
PROPERTY EveryoneEnds
