SPECIFICATION Spec
CONSTANTS
  d1 = d1
  d2 = d2
  d3 = d3
  d4 = d4
  d5 = d5
  google = google
  star = star
  None = None
  Domain <- MCDomain
  Rule = {google, star}
  Wildcard = star
  Contains <- MCContains
  Base = 4
  fake_ip_start = 8
  fake_ip_end = 15
INVARIANTS
  TypeOK
  MapsInverse
  AnswerLeadsBack
  LiveBindings
PROPERTY PoolSpec
