SPECIFICATION LimiterSpec
CONSTANTS
  Requests = {r1, r2, r3}
  IPs = {a, p}
  TrustedProxies = {p}
  Burst = 1
  Idle = 2
  Interval = 1
  MaxPause = 1
  MaxTime = 5
INVARIANT LimiterTypeOK
INVARIANT WindowBound
INVARIANT ForgottenInTime
INVARIANT LimiterInv
SYMMETRY RequestSymmetry
CHECK_DEADLOCK FALSE
