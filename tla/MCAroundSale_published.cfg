SPECIFICATION AroundSaleSpec
CONSTANTS
  Foci = {"maps"}
  MaxEdits = 1
  PreviousSecretWindow = 1
  Horizon = 3
  MaxMapVersions = 3
  SectionCodes = {a, b}
  RowCount = 2
  LabelCount = 2
  SeatKinds = {"STANDARD", "COMPANION"}
  Editors = {x1}
  MaximumSections = 2
  MaximumRowsPerSection = 2
  MaximumSeatsPerRow = 2
  MaximumSeatsPerMap = 2
  MaximumCoordinate = 1
  MaximumSpacing = 1
  cs1 = cs1
  cs2 = cs2
  ca = ca
  cb = cb
  cc = cc
  MapIds = {1, 2}
  SectionsOf <- SectionsOfMaps
  SellableIn <- OneSeatEach
  SessionIds = {cs1, cs2}
  TimeSlots = {1}
  TierIds = {t1, t2}
  PriceOptions = {1, 2}
  Currencies = {"EUR", "USD"}
  WebProcesses = {p1, p2}
  LimitedCalls = {1, 2, 3}
  BudgetLimit = 1
  MaxWindows = 2
  BookedSeats = {s1, s2}
  Scans = {k1, k2}
  Issuers = {w1, w2}
  MaxVersion = 2
  MaximumAttempts = 2
  BackoffBase = 1
  BackoffMaximum = 1
  OpensAt = 1
  ClosesAt = 1
  MaxTime = 2
  DisputeIds = {d1}
  DisputeEvents = {e1, e2, e3}
  CapturedAmount = 2
  TicketIds = {t1}
  NoticeCount = 2
  MailDispatchers = {m1, m2}
  Downloads = {g1, g2}
  MaxDeliveries = 2
INVARIANT PublishedLayoutIsValid
CHECK_DEADLOCK FALSE
