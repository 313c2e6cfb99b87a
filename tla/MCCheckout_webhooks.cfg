CONSTANTS
  u1 = u1
  u2 = u2
  ss1 = ss1
  ss2 = ss2
  s1 = s1
  s2 = s2
  h1 = h1
  h2 = h2
  r1 = r1
  k1 = k1
  i1 = i1
  i2 = i2
  e1 = e1
  e2 = e2
  c1 = c1
  c2 = c2
  NoHold = NoHold
  NoIntent = NoIntent
  SalesStartAt <- Opens
  SalesEndAt <- Closes
  StartAt <- Starts
  Sessions = {ss1}
  Seats = {s1}
  SessionOf <- OneSession
  Keys = {k1}
  Requests = {r1}
  MaxSeatsPerHold = 1
  SweepBatchSize = 1
  OrderBatchSize = 1
  Users = {u1, u2}
  Holds = {h1, h2}
  Intents = {i1, i2}
  Events = {e1, e2}
  Callers = {c1, c2}
  HoldDuration = 1
  StaffOps = {"cancelEvent"}
  MaxLag = 1
  MaxTime = 2
SPECIFICATION BuyersAndEventsSpec
SYMMETRY Symmetry
INVARIANTS
  EverySaleIsPaid
  MoneyAndSeatsAgree
  SuccessIsNeverSilent
  OneIntentPerOrder
  ExpiredOrderHoldsNothing
PROPERTIES
  FirstOutcomeStands
  ImplementsSeatHolds
CHECK_DEADLOCK FALSE
