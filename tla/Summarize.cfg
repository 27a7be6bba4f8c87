CONSTANTS
  s1 = s1
  s2 = s2
  f = f
  p = p
  Asks <- MCAsks
  Clients = {c1, c2}
  Calls = {i1, i2, i3}
  CACHE_ENTRIES = 1
  BREAKER_SCOPES = 1
  MAX_CONSECUTIVE_FAILURES = 2
SPECIFICATION Spec
INVARIANTS TypeOK OneCallPerKey AnswersItsQuestion BreakerIsExact
