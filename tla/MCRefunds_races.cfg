SPECIFICATION RefundsOrReportsSpec
CONSTANTS
  s1 = s1
  s2 = s2
  Seats = {s1, s2}
  Price <- EqualPrices
  Refunds = {r1, r2}
  NoRefund = NoRefund
  Events = {e1, e2}
  Reports <- AnyReport
SYMMETRY Symmetric
INVARIANTS SeatRefundedOnce RefundedTotalIsHonest  LedgerTellsTheOutcome
PROPERTIES WriteOnce ImplementsRefundAllocation
CHECK_DEADLOCK FALSE
