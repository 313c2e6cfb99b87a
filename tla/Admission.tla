------------------------------ MODULE Admission ------------------------------
(***************************************************************************)
(* What SeatFlow promises about the entry to a session, without locks,     *)
(* rows, scanners, issuers or refunds: a seat of a booking has one pass,   *)
(* which at any time answers to one key.  All the passes are handed out    *)
(* together; a pass may get a newer key, it opens the door once, with the  *)
(* key it answers to at that moment, or it is voided; and one that was     *)
(* used or voided stays so.                                                *)
(***************************************************************************)
EXTENDS Naturals

CONSTANTS Seats, Keys

VARIABLE pass   \* of each seat: the state of its pass and the keys it answers to

Missing  == [ticket |-> "NONE", keys |-> {}]
Good(K)  == [ticket |-> "ACTIVE", keys |-> K]
Used(v)  == [ticket |-> "USED", keys |-> {v}]
Voided   == [ticket |-> "REVOKED", keys |-> {}]

\* A pass that opens no door yet: there is none, or it has no key.
Blank == {Missing, Good({})}

\* Before the passes are handed out, or after.
Init == pass \in [Seats -> Blank \cup {Good({v}) : v \in Keys}]

HandOut ==
  \E key \in [Seats -> Keys] :
    pass' = [s \in Seats |-> IF pass[s] \in Blank THEN Good({key[s]}) ELSE pass[s]]

Renew(s, v, w) == pass[s] = Good({v}) /\ v < w /\ pass' = [pass EXCEPT ![s] = Good({w})]

Enter(s, v) == pass[s] = Good({v}) /\ pass' = [pass EXCEPT ![s] = Used(v)]

\* Seats that are refunded together lose their passes together.
Revoke(S) ==
  /\ \A s \in S : pass[s].ticket = "ACTIVE"
  /\ pass' = [s \in Seats |-> IF s \in S THEN Voided ELSE pass[s]]

Next ==
  \/ HandOut
  \/ \E s \in Seats, v, w \in Keys : Renew(s, v, w)
  \/ \E s \in Seats, v \in Keys : Enter(s, v)
  \/ \E S \in SUBSET Seats : Revoke(S)

Spec == Init /\ [][Next]_pass
=============================================================================
