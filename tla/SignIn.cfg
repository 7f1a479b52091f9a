\* Two requests in flight, two logins, three tokens, one request may die; two
\* login attempts at a time, the second failure locks, two codes of a kind.
CONSTANTS
  Calls = {c1, c2}
  SessionIds = {s1, s2}
  MaxConcurrent = 1
  MaxTokens = 3
  MaxRequests = 5
  MaxCrashes = 1
  Visitors = {v1, v2}
  Threshold = 2
  SendMax = 1
  MaxSent = 2
  MaxLogins = 4
  MaxLoginCrashes = 1
SYMMETRY Symmetry
SPECIFICATION MCSpec
\* No more requests after the bounds: the run may stop.
CHECK_DEADLOCK FALSE
INVARIANTS TokensMatchSessions GuessingIsBounded
PROPERTIES AlarmMeansExchanged LockIsStable
