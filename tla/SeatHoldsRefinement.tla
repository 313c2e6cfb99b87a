-------------------------- MODULE SeatHoldsRefinement --------------------------
(***************************************************************************)
(* SeatHolds implements SeatAllocation, for every value of the constants:  *)
(* what a customer sees of a seat changes only as the abstract allocation  *)
(* of seats allows.                                                        *)
(***************************************************************************)
EXTENDS SeatHoldsProofs

\* A seat of an active hold points at it.
LEMMA OwnedRow ==
  ASSUME IndInv
  PROVE  \A h \in Holds, s \in Seats : Active(h) /\ Claims(h, s) => inv[s].hold = h /\ inv[s].state = "HELD"
<1>1. HoldOwnsItsSeats
  BY DEF IndInv, Safe
<1>2. ASSUME NEW h \in Holds, NEW s \in Seats, Active(h), Claims(h, s)
      PROVE  inv[s].hold = h /\ inv[s].state = "HELD"
  <2>1. s \in hold[h].seats
    BY <1>2 DEF Claims
  <2>2. inv[s] = HeldRow(h, hold[h].expiresAt)
    BY <1>1, <1>2, <2>1 DEF HoldOwnsItsSeats
  <2>. QED  BY <2>2 DEF HeldRow
<1>. QED  BY <1>2

\* What the seat map shows of a row, read off the row and the hold it belongs to.
ViewsAgree ==
  \A s \in Seats :
    /\ inv[s].state \in {"AVAILABLE", "HELD", "BOOKED"}
    /\ inv[s].state = "AVAILABLE" => SeatView[s] = Allocation!Free
    /\ inv[s].state = "HELD" =>
         \E h \in Holds : /\ inv[s].hold = h /\ Claims(h, s) /\ hold[h].user \in Users
                          /\ SeatView[s] = Allocation!Reserved(hold[h].user)
    /\ \A h \in Holds : Claims(h, s) /\ hold[h].status = "CONVERTED" =>
         SeatView[s] = Allocation!Sold(hold[h].user)

\* In a state of the invariant a seat has the one customer its row or its sale names.
LEMMA ViewLemma == IndInv => ViewsAgree
<1>. SUFFICES ASSUME IndInv, NEW s \in Seats
              PROVE  /\ inv[s].state \in {"AVAILABLE", "HELD", "BOOKED"}
                     /\ inv[s].state = "AVAILABLE" => SeatView[s] = Allocation!Free
                     /\ inv[s].state = "HELD" =>
                          \E h \in Holds : /\ inv[s].hold = h /\ Claims(h, s) /\ hold[h].user \in Users
                                           /\ SeatView[s] = Allocation!Reserved(hold[h].user)
                     /\ \A h \in Holds : Claims(h, s) /\ hold[h].status = "CONVERTED" =>
                          SeatView[s] = Allocation!Sold(hold[h].user)
  BY DEF ViewsAgree
<1>. DEFINE by == {hold[h].user : h \in {g \in Holds : Claims(g, s)}}
<1>1. SeatView[s] = [state |-> inv[s].state, by |-> by]
  BY DEF SeatView
<1>2. inv[s].state \in {"AVAILABLE", "HELD", "BOOKED"}
  BY DEF IndInv, TypeOK, InvRow, BookedRow
<1>3. /\ \A g, h \in Holds : Claims(g, s) /\ Claims(h, s) => g = h
      /\ inv[s].state = "BOOKED" <=> \E h \in Holds : Claims(h, s) /\ hold[h].status = "CONVERTED"
  BY DEF IndInv, Safe, SoldOnce
<1>4. \A h \in Holds : Claims(h, s) => by = {hold[h].user}
  BY <1>3
<1>5. \A h \in Holds : Claims(h, s) /\ Active(h) => inv[s].state = "HELD"
  BY OwnedRow
<1>6. inv[s].state = "AVAILABLE" => by = {}
  BY <1>3, <1>5 DEF Claims, Active
<1>7. ASSUME inv[s].state = "HELD"
      PROVE  \E h \in Holds : inv[s].hold = h /\ Claims(h, s) /\ hold[h].user \in Users
  <2>1. PICK h \in Holds : inv[s].hold = h /\ Active(h) /\ s \in hold[h].seats
    BY <1>7 DEF IndInv, Safe, HeldSeatHasLiveHold
  <2>2. hold[h].user \in Users
    BY <2>1, RowTypes DEF IndInv, Active, HoldRow
  <2>. QED  BY <2>1, <2>2 DEF Claims, Active
<1>. HIDE DEF by
<1>. QED  BY <1>1, <1>2, <1>3, <1>4, <1>6, <1>7
          DEF Allocation!Free, Allocation!Reserved, Allocation!Sold

\* Ending active holds gives up the seats that were reserved by them.
LEMMA EndRefines ==
  ASSUME IndInv, IndInv', ViewsAgree, ViewsAgree',
         NEW H \in SUBSET Holds, NEW st \in {"RELEASED", "EXPIRED"},
         \A h \in H : Active(h), hold' = EndHolds(H, st), inv' = FreeSeats(H)
  PROVE  \E F \in SUBSET Seats : Allocation!GiveUp(F)
<1>. DEFINE F == {s \in Seats : inv[s].hold \in H}
<1>1. \A s \in F : \E u \in Users : SeatView[s] = Allocation!Reserved(u)
  BY RowTypes DEF IndInv, ViewsAgree
<1>2. \A s \in F : SeatView'[s] = Allocation!Free
  BY DEF FreeSeats, AvailableRow, ViewsAgree, Allocation!Free
<1>3. ASSUME NEW s \in Seats, s \notin F
      PROVE  SeatView'[s] = SeatView[s]
  <2>1. inv'[s] = inv[s]
    BY <1>3 DEF FreeSeats
  <2>2. \A h \in Holds : Claims(h, s)' <=> Claims(h, s) /\ h \notin H
    BY EndFields DEF IndInv, Claims, TerminalHoldStatus
  <2>3. \A h \in H : ~Claims(h, s)
    BY <1>3, OwnedRow
  <2>4. \A h \in Holds : Claims(h, s) => hold'[h] = hold[h]
    BY <2>3, EndFields DEF IndInv, TerminalHoldStatus
  <2>5. {hold'[h].user : h \in {g \in Holds : Claims(g, s)'}} = {hold[h].user : h \in {g \in Holds : Claims(g, s)}}
    BY <2>2, <2>3, <2>4
  <2>. QED  BY <2>1, <2>5 DEF SeatView
<1>4. SeatView' = [s \in Seats |-> IF s \in F THEN Allocation!Free ELSE SeatView[s]]
  <2>1. SeatView' = [s \in Seats |-> SeatView'[s]]
    BY DEF SeatView
  <2>. QED  BY <1>2, <1>3, <2>1
<1>5. Allocation!GiveUp(F)
  BY <1>1, <1>4 DEF Allocation!GiveUp
<1>. QED  BY <1>5

\* An acquisition reserves its whole selection, part of which may just have lapsed.
LEMMA AcquireRefines ==
  ASSUME IndInv, IndInv', ViewsAgree, ViewsAgree',
         NEW r \in Requests, NEW n \in Holds, CommitAcquire(r, n)
  PROVE  \E u \in Users, S \in SUBSET Seats, F \in SUBSET Seats : Allocation!Reserve(u, S, F)
<1>. DEFINE q == pending[r]
            H == OverdueHolds(q.session, q.now)
            S == q.seats
            F == {s \in Seats : inv[s].hold \in H}
<1>. TypeOK /\ TypeOK'
  BY DEF IndInv
<1>1. H \in SUBSET Holds /\ \A h \in H : Active(h)
  BY OverdueActive
<1>2. S \in SUBSET Seats /\ q.user \in Users
  BY DEF CommitAcquire, TypeOK, Request, Idle, AcquireRequest, ReleaseRequest, SessionRequest, EventRequest
<1>3. \A s \in S : inv[s].state = "AVAILABLE" \/ inv[s].hold \in H
  BY DEF CommitAcquire, CanAcquire
<1>4. \A s \in Seats : inv'[s] = IF s \in S THEN HeldRow(n, q.now + HoldDuration)
                                 ELSE IF inv[s].hold \in H THEN AvailableRow ELSE inv[s]
  BY DEF CommitAcquire, FreeSeats
<1>5. hold'[n].user = q.user /\ hold'[n].seats = S /\ hold[n] = AbsentHold
  BY DEF CommitAcquire, EndHolds
<1>6. \A h \in Holds : h \notin H /\ h # n => hold'[h] = hold[h]
  BY DEF CommitAcquire, EndHolds
<1>7. \A h \in H : hold'[h].status = "EXPIRED"
  <2>. SUFFICES ASSUME NEW h \in H PROVE hold'[h].status = "EXPIRED"
    OBVIOUS
  <2>1. h # n /\ h \in Holds /\ hold[h] \in HoldRow
    BY <1>1, <1>5, RowTypes DEF Active, AbsentHold
  <2>2. hold'[h] = [hold[h] EXCEPT !.status = "EXPIRED"]
    BY <2>1 DEF CommitAcquire, EndHolds
  <2>. QED  BY <2>1, <2>2 DEF HoldRow
<1>. HIDE DEF H, S
<1>8. \A s \in F : \E u \in Users : SeatView[s] = Allocation!Reserved(u)
  BY <1>1, RowTypes DEF ViewsAgree
<1>9. \A s \in S \ F : SeatView[s] = Allocation!Free
  BY <1>2, <1>3 DEF ViewsAgree
<1>10. \A s \in S : SeatView'[s] = Allocation!Reserved(q.user)
  BY <1>2, <1>4, <1>5 DEF ViewsAgree, HeldRow
<1>11. \A s \in F \ S : SeatView'[s] = Allocation!Free
  BY <1>4 DEF ViewsAgree, AvailableRow
<1>12. ASSUME NEW s \in Seats, s \notin S, s \notin F
       PROVE  SeatView'[s] = SeatView[s]
  <2>1. inv'[s] = inv[s]
    BY <1>4, <1>12
  <2>2. \A h \in H : ~Claims(h, s) /\ ~Claims(h, s)'
    <3>1. \A h \in H : ~Claims(h, s)
      BY <1>1, <1>12, OwnedRow
    <3>2. \A h \in H : ~Claims(h, s)'
      BY <1>7 DEF Claims
    <3>. QED  BY <3>1, <3>2
  <2>3. ~Claims(n, s) /\ ~Claims(n, s)'
    BY <1>5, <1>12 DEF Claims, AbsentHold
  <2>4. \A h \in Holds : (Claims(h, s)' <=> Claims(h, s)) /\ (Claims(h, s) => hold'[h] = hold[h])
    BY <1>6, <2>2, <2>3 DEF Claims
  <2>5. {hold'[h].user : h \in {g \in Holds : Claims(g, s)'}} = {hold[h].user : h \in {g \in Holds : Claims(g, s)}}
    BY <2>4
  <2>. QED  BY <2>1, <2>5 DEF SeatView
<1>13. SeatView' = [s \in Seats |-> IF s \in S THEN Allocation!Reserved(q.user)
                                    ELSE IF s \in F THEN Allocation!Free ELSE SeatView[s]]
  <2>1. SeatView' = [s \in Seats |-> SeatView'[s]]
    BY DEF SeatView
  <2>. QED  BY <1>10, <1>11, <1>12, <2>1
<1>14. Allocation!Reserve(q.user, S, F)
  BY <1>8, <1>9, <1>13 DEF Allocation!Reserve
<1>. QED  BY <1>2, <1>14

\* A conversion sells the seats of the hold to the customer they were reserved for.
LEMMA ConvertRefines ==
  ASSUME IndInv, IndInv', ViewsAgree, ViewsAgree', NEW c \in Holds, NEW now, ConvertHold(c, now)
  PROVE  \E u \in Users, S \in SUBSET Seats : Allocation!Sell(u, S)
<1>. DEFINE S == hold[c].seats
            u == hold[c].user
<1>. TypeOK /\ Active(c)
  BY DEF IndInv, ConvertHold, CanConvert
<1>1. S \in SUBSET Seats /\ u \in Users
  BY RowTypes DEF Active, HoldRow
<1>2. \A s \in S : inv[s] = HeldRow(c, hold[c].expiresAt)
  BY DEF ConvertHold, CanConvert
<1>3. /\ hold'[c].status = "CONVERTED" /\ hold'[c].seats = S /\ hold'[c].user = u
      /\ \A h \in Holds \ {c} : hold'[h] = hold[h]
  <2>1. hold' = EndHolds({c}, "CONVERTED")
    BY DEF ConvertHold
  <2>2. {c} \in SUBSET Holds /\ "CONVERTED" \in TerminalHoldStatus
    BY DEF TerminalHoldStatus
  <2>. HIDE DEF S, u
  <2>3. /\ \A h \in {c} : /\ hold'[h].status = "CONVERTED"
                           /\ hold'[h].user = hold[h].user
                           /\ hold'[h].seats = hold[h].seats
        /\ \A h \in Holds \ {c} : hold'[h] = hold[h]
    BY <2>1, <2>2, EndFields
  <2>. QED  BY <2>3 DEF S, u
<1>4. \A s \in S : SeatView[s] = Allocation!Reserved(u)
  BY <1>1, <1>2 DEF ViewsAgree, HeldRow
<1>5. \A s \in S : SeatView'[s] = Allocation!Sold(u)
  BY <1>1, <1>3 DEF ViewsAgree, Claims
<1>6. ASSUME NEW s \in Seats, s \notin S
      PROVE  SeatView'[s] = SeatView[s]
  <2>1. inv'[s] = inv[s]
    BY <1>6 DEF ConvertHold
  <2>2. \A h \in Holds : (Claims(h, s)' <=> Claims(h, s)) /\ (Claims(h, s) => hold'[h] = hold[h])
    BY <1>3, <1>6 DEF Claims
  <2>3. {hold'[h].user : h \in {g \in Holds : Claims(g, s)'}} = {hold[h].user : h \in {g \in Holds : Claims(g, s)}}
    BY <2>2
  <2>. QED  BY <2>1, <2>3 DEF SeatView
<1>7. SeatView' = [s \in Seats |-> IF s \in S THEN Allocation!Sold(u) ELSE SeatView[s]]
  <2>1. SeatView' = [s \in Seats |-> SeatView'[s]]
    BY DEF SeatView
  <2>. QED  BY <1>5, <1>6, <2>1
<1>8. Allocation!Sell(u, S)
  BY <1>4, <1>7 DEF Allocation!Sell
<1>. QED  BY <1>1, <1>8

\* The tables implement the abstract allocation of seats: seats are reserved and sold
\* as whole selections, to one customer each, and a sale is never undone.
THEOREM Refinement == Spec => ImplementsAllocation
<1>1. Init => Allocation!Init
  <2>. SUFFICES ASSUME Init PROVE SeatView = [s \in Seats |-> Allocation!Free]
    BY DEF Allocation!Init
  <2>1. ASSUME NEW s \in Seats
        PROVE  [state |-> inv[s].state, by |-> {hold[h].user : h \in {g \in Holds : Claims(g, s)}}] = Allocation!Free
    <3>1. \A g \in Holds : ~Claims(g, s)
      BY DEF Init, Claims, AbsentHold
    <3>2. inv[s].state = "AVAILABLE"
      BY DEF Init, AvailableRow
    <3>. QED  BY <3>1, <3>2 DEF Allocation!Free
  <2>. QED  BY <2>1 DEF SeatView
<1>2. IndInv /\ IndInv' /\ ViewsAgree /\ ViewsAgree' /\ [Next]_vars => [Allocation!Next]_SeatView
  <2>. SUFFICES ASSUME IndInv, IndInv', ViewsAgree, ViewsAgree', [Next]_vars
                PROVE  Allocation!Next \/ SeatView' = SeatView
    OBVIOUS
  <2>1. CASE UNCHANGED vars
    BY <2>1 DEF vars, SeatView, Claims
  <2>2. CASE Next
    <3>1. ASSUME NEW H \in SUBSET Holds, NEW st \in {"RELEASED", "EXPIRED"},
                 \A h \in H : Active(h), EndsOnly(H, st)
          PROVE  \E F \in SUBSET Seats : Allocation!GiveUp(F)
      BY <3>1, EndRefines DEF EndsOnly
    <3>. QED  BY <2>2, <3>1, StepKinds, AcquireRefines, ConvertRefines DEF Allocation!Next, IndInv
  <2>. QED  BY <2>1, <2>2
<1>. QED  BY <1>1, <1>2, ViewLemma, Invariant, PTL DEF Spec, ImplementsAllocation, Allocation!Spec
=============================================================================
