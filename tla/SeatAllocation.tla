---------------------------- MODULE SeatAllocation ----------------------------
(***************************************************************************)
(* What SeatFlow promises about the seats of a session, without holds,     *)
(* requests, clocks or tables: a seat is free, reserved for one customer   *)
(* or sold to one customer; a selection is reserved and sold as a whole; a *)
(* sale is made only to the customer the seat was reserved for, and is for *)
(* ever.                                                                   *)
(***************************************************************************)
CONSTANTS Users, Seats

VARIABLE seat   \* the state of each seat and the customers with a claim to it

Free        == [state |-> "AVAILABLE", by |-> {}]
Reserved(u) == [state |-> "HELD", by |-> {u}]
Sold(u)     == [state |-> "BOOKED", by |-> {u}]

Init == seat = [s \in Seats |-> Free]

\* Reservations lapse or are given up, on the seats in F.
GiveUp(F) ==
  /\ \A s \in F : \E u \in Users : seat[s] = Reserved(u)
  /\ seat' = [s \in Seats |-> IF s \in F THEN Free ELSE seat[s]]

\* Customer u reserves all of S, some of it freed by the reservations that lapse.
Reserve(u, S, F) ==
  /\ \A s \in F : \E v \in Users : seat[s] = Reserved(v)
  /\ \A s \in S \ F : seat[s] = Free
  /\ seat' = [s \in Seats |-> IF s \in S THEN Reserved(u)
                              ELSE IF s \in F THEN Free ELSE seat[s]]

\* All of S, reserved for u, is sold to u.
Sell(u, S) ==
  /\ \A s \in S : seat[s] = Reserved(u)
  /\ seat' = [s \in Seats |-> IF s \in S THEN Sold(u) ELSE seat[s]]

Next ==
  \/ \E F \in SUBSET Seats : GiveUp(F)
  \/ \E u \in Users, S \in SUBSET Seats, F \in SUBSET Seats : Reserve(u, S, F)
  \/ \E u \in Users, S \in SUBSET Seats : Sell(u, S)

Spec == Init /\ [][Next]_seat
=============================================================================
