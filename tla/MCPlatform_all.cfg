SPECIFICATION PlatformFairSpec
CONSTANTS
  Foci = {"relay", "page", "fleet", "jobs", "refund"}
  ChangeCount = 2
  Relays = {w1, w2}
  BatchSize = 2
  RelayAttempts = 2
  StreamBound = 3
  WireBound = 2
  ReconnectDelay = 1
  PollInterval = 2
  Deliveries = {d1, d2}
  MaxTries = 2
  Residents = {i1, i2}
  StaleAfter = 1
  s1 = s1
  s2 = s2
  Seats = {s1, s2}
  Price <- EqualPrices
  Refunds = {r1}
  NoRefund = NoRefund
  Events = {e1}
  Reports <- AnyReport
INVARIANTS StreamTellsTheOutbox AcceptedIsAccountedFor
PROPERTIES FallbackCatchesUp AcceptedRefundIsFound LostWorkersAreReported
CHECK_DEADLOCK FALSE
