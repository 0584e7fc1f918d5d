CONSTANTS
    None = None
    p1 = p1  p2 = p2  p3 = p3  c1 = c1  r1 = r1  d1 = d1  d2 = d2
    h1 = h1  h2 = h2  g1 = g1  g2 = g2  a1 = a1  a2 = a2
    Cooldown <- MCCooldown  PerHour <- MCPerHour  TwoHours = 1
    Traffic <- MCTraffic
    Near <- MCNear
    Cover <- MCCover
    FiveMinutes = 1  TenMinutes = 1  HalfHour = 1  Hour = 1  SixHours = 2
    WindowAge = 2
    Banners = 1  Anomalies = 1  Outages = 1  Censorships = 1  Detections = 2
    MinAircraft = 2  FewSnapshots = 2  BaselineHours = 3
    MaxRestarts = 1
SPECIFICATION AlertsSpec
INVARIANTS WindowConsistent OnePerCooldown AlertsLimited
PROPERTY PatternsReported
CHECK_DEADLOCK FALSE
