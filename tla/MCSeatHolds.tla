----------------------------- MODULE MCSeatHolds -----------------------------
(* Instances of SeatHolds for TLC.                                         *)
EXTENDS SeatHolds, TLC

CONSTANTS u1, u2, ss1, s1, s2, h1, h2, r1, r2, k1

\* One session with two seats: contention between customers.
OneSession == [s \in Seats |-> ss1]

Opens  == [ss \in Sessions |-> 0]
Closes == [ss \in Sessions |-> 2]
Starts == [ss \in Sessions |-> 3]

Symmetry == Permutations(Holds) \cup Permutations(Requests)
=============================================================================
