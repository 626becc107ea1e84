CONSTANTS
  a = a
  b = b
  c1 = c1
  c2 = c2
  Agents = {a, b}
  Calls = {c1, c2}
  From <- CallFrom
  To <- CallTo
  MaxTroubles = 2
SPECIFICATION TripSpec
CHECK_DEADLOCK FALSE
INVARIANTS AnswersMatch StoriesAgree
PROPERTY RoundTripsEnd
