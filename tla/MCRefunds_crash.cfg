SPECIFICATION FairSpec
CONSTANTS
  s1 = s1
  s2 = s2
  Seats = {s1, s2}
  Price <- EqualPrices
  Refunds = {r1}
  NoRefund = NoRefund
  Events = {e1}
  Reports <- Success
PROPERTY SubmissionConverges
CHECK_DEADLOCK FALSE
