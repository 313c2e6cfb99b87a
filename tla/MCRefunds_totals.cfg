SPECIFICATION Spec
CONSTANTS
  s1 = s1
  s2 = s2
  Seats = {s1, s2}
  Price <- EqualPrices
  Refunds = {r1, r2}
  NoRefund = NoRefund
  Events = {e1}
  Reports <- Outcomes
INVARIANT TotalsMatchRefunds
CHECK_DEADLOCK FALSE
