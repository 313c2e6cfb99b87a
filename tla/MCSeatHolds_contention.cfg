CONSTANTS
  u1 = u1
  u2 = u2
  ss1 = ss1
  s1 = s1
  s2 = s2
  h1 = h1
  h2 = h2
  r1 = r1
  r2 = r2
  k1 = k1
  NoHold = NoHold
  SalesStartAt <- Opens
  SalesEndAt <- Closes
  StartAt <- Starts
  Users = {u1, u2}
  Sessions = {ss1}
  Seats = {s1, s2}
  SessionOf <- OneSession
  Holds = {h1, h2}
  Keys = {k1}
  Requests = {r1, r2}
  HoldDuration = 1
  MaxSeatsPerHold = 2
  SweepBatchSize = 1
  StaffOps = {"pause", "resume", "cancelSession", "cancelEvent", "archive", "restore"}
  MaxLag = 1
  MaxTime = 2
SPECIFICATION Spec
SYMMETRY Symmetry
INVARIANTS
  HoldOwnsItsSeats
  HeldSeatHasLiveHold
  SoldOnce
  ActiveHoldsAreLegal
  OverdueHoldsDoNotBlock
  ExitAnnouncedOnce
PROPERTIES
  TerminalIsForever
  ImplementsAllocation
