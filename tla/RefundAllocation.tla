--------------------------- MODULE RefundAllocation ---------------------------
(***************************************************************************)
(* What SeatFlow promises about paying a booking back, without rows,       *)
(* totals, workers, events or a provider: the price of a seat is kept,     *)
(* claimed by one refund, or returned by one refund; a refund claims its   *)
(* seats together, gives them up together or returns them together; and    *)
(* what is returned is returned for ever.                                  *)
(***************************************************************************)
CONSTANTS Refunds, Seats

VARIABLE share   \* of each seat: what becomes of its price, and by which refunds

Kept        == [state |-> "KEPT", by |-> {}]
Claimed(r)  == [state |-> "CLAIMED", by |-> {r}]
Returned(r) == [state |-> "RETURNED", by |-> {r}]

Init == share = [s \in Seats |-> Kept]

\* A refund that has no seats claims all of S.
Claim(r, S) ==
  /\ \A s \in Seats : r \notin share[s].by
  /\ \A s \in S : share[s] = Kept
  /\ share' = [s \in Seats |-> IF s \in S THEN Claimed(r) ELSE share[s]]

\* It fails, and others may claim its seats.
GiveUp(r) == share' = [s \in Seats |-> IF share[s] = Claimed(r) THEN Kept ELSE share[s]]

\* It succeeds.
Return(r) == share' = [s \in Seats |-> IF share[s] = Claimed(r) THEN Returned(r) ELSE share[s]]

Next ==
  \E r \in Refunds :
    \/ GiveUp(r)
    \/ Return(r)
    \/ \E S \in SUBSET Seats : Claim(r, S)

Spec == Init /\ [][Next]_share
=============================================================================
