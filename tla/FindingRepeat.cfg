SPECIFICATION PlatformSpec
CONSTANTS
  q1 = q1
  q2 = q2
  q3 = q3
  c1 = c1
  c2 = c2
  c3 = c3
  k1 = k1
  k2 = k2
  t1 = t1
  t2 = t2
  t3 = t3
  t4 = t4
  h1 = h1
  h2 = h2
  h3 = h3
  d1 = d1
  d2 = d2
  d3 = d3
  m1 = m1
  m2 = m2
  m3 = m3
  m4 = m4
  m5 = m5
  Request <- ThreeRequests
  NoRequest = NoRequest
  CreateFaults = TRUE
  MaxRestarts = 0
  Caller <- ThreeCalls
  ApiKey <- TwoKeys
  NoKey = NoKey
  KeyLimit = 1
  LeaseTtl = 3
  CallTime = 2
  Cooldown = 1
  DisableTime = 2
  FailThreshold = 2
  Handler <- Handlers
  MemberOf <- Members
  Renewing <- Reviews
  SlotLimit = 1
  SlotTtl = 2
  RenewEvery = 1
  Taker <- FourTakers
  Interval = 2
  QpmWait = 3
  QpmTtl = 5
INVARIANTS
  RepeatIsServed
CHECK_DEADLOCK FALSE
