------------------------------- MODULE MCRefunds ------------------------------
(* Instances of Refunds for TLC: two seats of equal price and what the     *)
(* provider may report.                                                    *)
EXTENDS Refunds, TLC

CONSTANTS s1, s2

\* Seats of equal price, refunds and events have no identity of their own.
Symmetric == Permutations(Seats) \cup Permutations(Refunds) \cup Permutations(Events)

EqualPrices == s1 :> 1 @@ s2 :> 1

Outcomes == {[status |-> "SUCCEEDED", agrees |-> TRUE], [status |-> "FAILED", agrees |-> TRUE]}
Success  == {[status |-> "SUCCEEDED", agrees |-> TRUE]}

\* A wrong amount or currency goes to review whatever status comes with it.
AnyReport ==
  [status : {"PROCESSING", "SUCCEEDED", "FAILED", "CANCELLED", "REQUIRES_REVIEW"}, agrees : {TRUE}]
    \cup {[status |-> "SUCCEEDED", agrees |-> FALSE]}

\* One refund, about which two events may say anything, in any order.
OneRefund == Cardinality(asking \cup {r \in Refunds : refund[r] # NoRefundRow}) <= 1
\* Two refunds and one event that tells an outcome, and nobody at the door yet.
OneOutcome ==
  /\ \A s \in Seats : ticket[s] # "USED"
  /\ Cardinality({e \in Events : sent[e] # Unsent}) <= 1
  /\ \A e \in Events : sent[e] # Unsent => sent[e].report \in Outcomes

\* Every behaviour stays one or the other; either alone is a smaller Refunds.
RefundsOrReportsSpec == Init /\ [][Next /\ (OneRefund \/ OneOutcome)']_vars
=============================================================================
