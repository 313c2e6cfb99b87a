--------------------------- MODULE SeatHoldsProofs ---------------------------
(***************************************************************************)
(* Proofs about SeatHolds, for any number of customers, sessions, seats,   *)
(* holds and requests in flight and for every schedule of the clock.       *)
(***************************************************************************)
EXTENDS SeatHolds, TLAPS

\* The inductive invariant.  None of the four parts is inductive without the others:
\* an acquisition decides on the rows alone, a release or an expiry on the holds alone.
Safe == HoldOwnsItsSeats /\ HeldSeatHasLiveHold /\ SoldOnce /\ ActiveHoldsAreLegal

IndInv == TypeOK /\ Safe

-----------------------------------------------------------------------------
\* What the type invariant says of one hold and of one row.
LEMMA RowTypes ==
  ASSUME TypeOK
  PROVE  /\ \A h \in Holds : hold[h] # AbsentHold => hold[h] \in HoldRow
         /\ \A h \in Holds : hold[h].status # "ABSENT" => hold[h] \in HoldRow
         /\ \A h \in Holds : hold[h].status = "ABSENT" => hold[h] = AbsentHold
         /\ \A s \in Seats : inv[s].state = "AVAILABLE" => inv[s] = AvailableRow
         /\ \A s \in Seats : inv[s].state = "BOOKED" => inv[s] = BookedRow
         /\ \A s \in Seats : inv[s].hold \in Holds => inv[s].state = "HELD"
         /\ \A s \in Seats : inv[s].state = "HELD" =>
              inv[s].hold \in Holds /\ inv[s].expiresAt \in Nat
  BY NoHoldAssumption DEF TypeOK, HoldRow, AbsentHold, InvRow, AvailableRow, BookedRow, TerminalHoldStatus

\* EndHolds and FreeSeats keep the types.
LEMMA EndTypes ==
  ASSUME TypeOK,
         NEW H \in SUBSET Holds, \A h \in H : Active(h),
         NEW st \in TerminalHoldStatus
  PROVE  /\ EndHolds(H, st) \in [Holds -> HoldRow \cup {AbsentHold}]
         /\ FreeSeats(H) \in [Seats -> InvRow]
<1>1. ASSUME NEW h \in Holds
      PROVE  (IF h \in H THEN [hold[h] EXCEPT !.status = st] ELSE hold[h])
                \in HoldRow \cup {AbsentHold}
  <2>1. CASE h \in H
    <3>1. hold[h] \in HoldRow
      BY <2>1, RowTypes DEF Active
    <3>. QED  BY <2>1, <3>1 DEF HoldRow, TerminalHoldStatus
  <2>2. CASE h \notin H
    BY <2>2 DEF TypeOK
  <2>. QED  BY <2>1, <2>2
<1>2. ASSUME NEW s \in Seats
      PROVE  (IF inv[s].hold \in H THEN AvailableRow ELSE inv[s]) \in InvRow
  BY DEF TypeOK, AvailableRow, InvRow
<1>. QED  BY <1>1, <1>2 DEF EndHolds, FreeSeats

\* What EndHolds does to one hold.
LEMMA EndFields ==
  ASSUME TypeOK,
         NEW H \in SUBSET Holds, \A h \in H : Active(h),
         NEW st \in TerminalHoldStatus,
         hold' = EndHolds(H, st)
  PROVE  /\ \A h \in H : /\ hold'[h].status = st
                         /\ hold'[h].session = hold[h].session
                         /\ hold'[h].user = hold[h].user
                         /\ hold'[h].seats = hold[h].seats
                         /\ hold'[h].expiresAt = hold[h].expiresAt
         /\ \A h \in Holds \ H : hold'[h] = hold[h]
<1>1. ASSUME NEW h \in H
      PROVE  /\ hold'[h].status = st
             /\ hold'[h].session = hold[h].session
             /\ hold'[h].user = hold[h].user
             /\ hold'[h].seats = hold[h].seats
             /\ hold'[h].expiresAt = hold[h].expiresAt
  <2>1. hold[h] \in HoldRow
    BY RowTypes DEF Active
  <2>2. hold'[h] = [hold[h] EXCEPT !.status = st]
    BY DEF EndHolds
  <2>. QED  BY <2>1, <2>2 DEF HoldRow
<1>2. \A h \in Holds \ H : hold'[h] = hold[h]
  BY DEF EndHolds
<1>. QED  BY <1>1, <1>2

-----------------------------------------------------------------------------
\* Ending active holds without a sale and freeing the rows that point at them
\* (release, expiry, cancellation) keeps rows and holds in agreement, provided the
\* holds of every session that is cancelled on the way are among them.
LEMMA EndStep ==
  ASSUME IndInv, session' \in [Sessions -> SessionStatus],
         NEW H \in SUBSET Holds, \A h \in H : Active(h),
         NEW st \in {"RELEASED", "EXPIRED"},
         hold' = EndHolds(H, st), inv' = FreeSeats(H),
         \A ss \in Sessions : session'[ss] = "CANCELLED" /\ session[ss] # "CANCELLED"
                                => ActiveHolds(ss) \subseteq H
  PROVE  Safe'
<1>. st \in TerminalHoldStatus
  BY DEF TerminalHoldStatus
<1>. TypeOK
  BY DEF IndInv
<1>1. /\ \A h \in H : hold'[h].status = st
      /\ \A h \in Holds \ H : hold'[h] = hold[h]
  BY EndFields
<1>2. \A h \in Holds : hold'[h].status \in {"ACTIVE", "CONVERTED"} => h \notin H /\ hold'[h] = hold[h]
  BY <1>1
<1>3. \A s \in Seats : inv'[s] = IF inv[s].hold \in H THEN AvailableRow ELSE inv[s]
  BY DEF FreeSeats
<1>4. HoldOwnsItsSeats'
  <2>. SUFFICES ASSUME NEW h \in Holds, Active(h)', NEW s \in hold'[h].seats
                PROVE  SessionOf[s] = hold'[h].session /\ inv'[s] = HeldRow(h, hold'[h].expiresAt)
    BY DEF HoldOwnsItsSeats
  <2>1. h \notin H /\ hold'[h] = hold[h] /\ Active(h)
    BY <1>2 DEF Active
  <2>2. s \in Seats
    BY <2>1, RowTypes DEF Active, HoldRow
  <2>3. SessionOf[s] = hold[h].session /\ inv[s] = HeldRow(h, hold[h].expiresAt)
    BY <2>1 DEF IndInv, Safe, HoldOwnsItsSeats
  <2>. QED  BY <1>3, <2>1, <2>2, <2>3 DEF HeldRow
<1>5. HeldSeatHasLiveHold'
  <2>. SUFFICES ASSUME NEW s \in Seats, inv'[s].state = "HELD"
                PROVE  \E h \in Holds : inv'[s].hold = h /\ Active(h)' /\ s \in hold'[h].seats
    BY DEF HeldSeatHasLiveHold
  <2>1. inv'[s] = inv[s] /\ inv[s].hold \notin H
    BY <1>3 DEF AvailableRow
  <2>2. PICK h \in Holds : inv[s].hold = h /\ Active(h) /\ s \in hold[h].seats
    BY <2>1 DEF IndInv, Safe, HeldSeatHasLiveHold
  <2>. QED  BY <1>1, <2>1, <2>2 DEF Active
<1>6. SoldOnce'
  <2>. SUFFICES ASSUME NEW s \in Seats
                PROVE  /\ \A g, h \in Holds : Claims(g, s)' /\ Claims(h, s)' => g = h
                       /\ inv'[s].state = "BOOKED" <=> \E h \in Holds : Claims(h, s)' /\ hold'[h].status = "CONVERTED"
    BY DEF SoldOnce
  <2>1. /\ \A g, h \in Holds : Claims(g, s) /\ Claims(h, s) => g = h
        /\ inv[s].state = "BOOKED" <=> \E h \in Holds : Claims(h, s) /\ hold[h].status = "CONVERTED"
    BY DEF IndInv, Safe, SoldOnce
  <2>2. \A h \in Holds : Claims(h, s)' => Claims(h, s) /\ hold'[h] = hold[h]
    BY <1>2 DEF Claims
  <2>3. \A h \in Holds : hold[h].status = "CONVERTED" => hold'[h] = hold[h]
    BY <1>1 DEF Active
  <2>4. inv'[s].state = "BOOKED" <=> inv[s].state = "BOOKED"
    BY <1>3, RowTypes DEF AvailableRow
  <2>. QED  BY <2>1, <2>2, <2>3, <2>4 DEF Claims
<1>7. ActiveHoldsAreLegal'
  <2>. SUFFICES ASSUME NEW g \in Holds, NEW h \in Holds, Active(g)'
                PROVE  /\ session'[hold'[g].session] # "CANCELLED"
                       /\ Active(h)' /\ hold'[g].user = hold'[h].user
                            /\ hold'[g].session = hold'[h].session => g = h
    BY DEF ActiveHoldsAreLegal
  <2>1. g \notin H /\ hold'[g] = hold[g] /\ Active(g)
    BY <1>2 DEF Active
  <2>2. hold[g].session \in Sessions
    BY <2>1, RowTypes DEF Active, HoldRow
  <2>3. session[hold[g].session] # "CANCELLED"
    BY <2>1 DEF IndInv, Safe, ActiveHoldsAreLegal
  <2>4. g \in ActiveHolds(hold[g].session)
    BY <2>1 DEF ActiveHolds
  <2>5. Active(h)' => hold'[h] = hold[h] /\ Active(h)
    BY <1>2 DEF Active
  <2>. QED  BY <2>1, <2>2, <2>3, <2>4, <2>5 DEF IndInv, Safe, ActiveHoldsAreLegal
<1>. QED  BY <1>4, <1>5, <1>6, <1>7 DEF Safe

\* Converting a hold books exactly the rows that point at it.
LEMMA ConvertStep ==
  ASSUME IndInv, NEW c \in Holds, NEW now, ConvertHold(c, now)
  PROVE  Safe'
<1>. TypeOK /\ Active(c)
  BY DEF IndInv, ConvertHold, CanConvert
<1>. DEFINE C == hold[c].seats
<1>1. /\ hold'[c].status = "CONVERTED" /\ hold'[c].seats = C
      /\ \A h \in Holds \ {c} : hold'[h] = hold[h]
  <2>1. hold' = EndHolds({c}, "CONVERTED")
    BY DEF ConvertHold
  <2>. QED  BY <2>1, EndFields DEF TerminalHoldStatus
<1>2. \A s \in Seats : inv'[s] = IF s \in C THEN BookedRow ELSE inv[s]
  BY DEF ConvertHold
<1>3. \A s \in C : s \in Seats /\ inv[s] = HeldRow(c, hold[c].expiresAt)
  BY RowTypes DEF IndInv, Safe, HoldOwnsItsSeats, Active, HoldRow
<1>4. \A h \in Holds : Active(h)' => h # c /\ hold'[h] = hold[h] /\ Active(h)
  BY <1>1 DEF Active
<1>5. session' = session
  BY DEF ConvertHold
<1>6. HoldOwnsItsSeats'
  <2>. SUFFICES ASSUME NEW h \in Holds, Active(h)', NEW s \in hold'[h].seats
                PROVE  SessionOf[s] = hold'[h].session /\ inv'[s] = HeldRow(h, hold'[h].expiresAt)
    BY DEF HoldOwnsItsSeats
  <2>1. h # c /\ hold'[h] = hold[h] /\ Active(h)
    BY <1>4
  <2>2. s \in Seats
    BY <2>1, RowTypes DEF Active, HoldRow
  <2>3. SessionOf[s] = hold[h].session /\ inv[s] = HeldRow(h, hold[h].expiresAt)
    BY <2>1 DEF IndInv, Safe, HoldOwnsItsSeats
  <2>4. s \notin C
    BY <1>3, <2>1, <2>3 DEF HeldRow
  <2>. QED  BY <1>2, <2>1, <2>2, <2>3, <2>4
<1>7. HeldSeatHasLiveHold'
  <2>. SUFFICES ASSUME NEW s \in Seats, inv'[s].state = "HELD"
                PROVE  \E h \in Holds : inv'[s].hold = h /\ Active(h)' /\ s \in hold'[h].seats
    BY DEF HeldSeatHasLiveHold
  <2>1. s \notin C /\ inv'[s] = inv[s]
    BY <1>2 DEF BookedRow
  <2>2. PICK h \in Holds : inv[s].hold = h /\ Active(h) /\ s \in hold[h].seats
    BY <2>1 DEF IndInv, Safe, HeldSeatHasLiveHold
  <2>. QED  BY <1>1, <2>1, <2>2 DEF Active
<1>8. SoldOnce'
  <2>. SUFFICES ASSUME NEW s \in Seats
                PROVE  /\ \A g, h \in Holds : Claims(g, s)' /\ Claims(h, s)' => g = h
                       /\ inv'[s].state = "BOOKED" <=> \E h \in Holds : Claims(h, s)' /\ hold'[h].status = "CONVERTED"
    BY DEF SoldOnce
  <2>1. /\ \A g, h \in Holds : Claims(g, s) /\ Claims(h, s) => g = h
        /\ inv[s].state = "BOOKED" <=> \E h \in Holds : Claims(h, s) /\ hold[h].status = "CONVERTED"
    BY DEF IndInv, Safe, SoldOnce
  <2>2. \A h \in Holds : Claims(h, s)' <=> Claims(h, s)
    BY <1>1 DEF Claims, Active
  <2>3. CASE s \in C
    <3>1. inv'[s].state = "BOOKED" /\ Claims(c, s)' /\ hold'[c].status = "CONVERTED"
      BY <1>1, <1>2, <2>3 DEF BookedRow, Claims
    <3>. QED  BY <2>1, <2>2, <3>1
  <2>4. CASE s \notin C
    <3>1. ~Claims(c, s) /\ inv'[s] = inv[s]
      BY <1>2, <2>4 DEF Claims
    <3>. QED  BY <1>1, <2>1, <2>2, <3>1
  <2>. QED  BY <2>3, <2>4
<1>9. ActiveHoldsAreLegal'
  BY <1>4, <1>5 DEF IndInv, Safe, ActiveHoldsAreLegal
<1>. QED  BY <1>6, <1>7, <1>8, <1>9 DEF Safe

-----------------------------------------------------------------------------
\* The overdue holds of a session are active holds of it.
LEMMA OverdueActive ==
  ASSUME NEW ss, NEW t
  PROVE  OverdueHolds(ss, t) \in SUBSET Holds /\ \A h \in OverdueHolds(ss, t) : Active(h)
  BY DEF OverdueHolds, ActiveHolds

\* An acquisition that commits keeps rows and holds in agreement: the rows it claims
\* were free, or under holds it ends in the same transaction.
LEMMA AcquireStep ==
  ASSUME IndInv, NEW r \in Requests, NEW n \in Holds, CommitAcquire(r, n)
  PROVE  Safe'
<1>. DEFINE q == pending[r]
            H == OverdueHolds(q.session, q.now)
            expiry == q.now + HoldDuration
            new == [status |-> "ACTIVE", session |-> q.session, user |-> q.user, key |-> q.key,
                    seats |-> q.seats, expiresAt |-> expiry]
<1>. TypeOK
  BY DEF IndInv
<1>1. q.op = "acquire" /\ hold[n] = AbsentHold /\ CanAcquire(q) /\ session' = session
  BY DEF CommitAcquire
<1>2. hold' = [EndHolds(H, "EXPIRED") EXCEPT ![n] = new]
  BY DEF CommitAcquire
<1>3. \A s \in Seats : inv'[s] = IF s \in q.seats THEN HeldRow(n, expiry)
                                 ELSE IF inv[s].hold \in H THEN AvailableRow ELSE inv[s]
  BY DEF CommitAcquire, FreeSeats
<1>4. H \in SUBSET Holds /\ \A h \in H : Active(h)
  BY OverdueActive
<1>5. q.seats \in SUBSET Seats /\ \A s \in q.seats : SessionOf[s] = q.session
  <2>1. q.seats \subseteq SeatsOf(q.session)
    BY <1>1 DEF CanAcquire
  <2>. QED  BY <2>1 DEF SeatsOf
<1>6. hold'[n] = new /\ ~Active(n)
  BY <1>1, <1>2 DEF EndHolds, Active, AbsentHold
<1>7. \A h \in H : hold'[h].status = "EXPIRED"
  <2>. SUFFICES ASSUME NEW h \in H PROVE hold'[h].status = "EXPIRED"
    OBVIOUS
  <2>1. h # n /\ h \in Holds /\ hold[h] \in HoldRow
    BY <1>4, <1>6, RowTypes DEF Active
  <2>2. hold'[h] = [hold[h] EXCEPT !.status = "EXPIRED"]
    BY <1>2, <2>1 DEF EndHolds
  <2>. QED  BY <2>1, <2>2 DEF HoldRow
<1>8. \A h \in Holds : h \notin H /\ h # n => hold'[h] = hold[h]
  BY <1>2 DEF EndHolds
<1>9. \A h \in Holds : h # n /\ hold'[h].status \in {"ACTIVE", "CONVERTED"}
                          => h \notin H /\ hold'[h] = hold[h]
  BY <1>7, <1>8
\* Nothing else has a claim to the rows the acquisition takes.
<1>10. ASSUME NEW s \in q.seats, NEW h \in Holds, h # n, Claims(h, s)'
       PROVE  FALSE
  <2>1. h \notin H /\ hold'[h] = hold[h] /\ Claims(h, s) /\ s \in Seats
    BY <1>5, <1>9, <1>10 DEF Claims
  <2>2. inv[s].state = "AVAILABLE" \/ inv[s].hold \in H
    BY <1>1 DEF CanAcquire
  <2>3. CASE hold[h].status = "CONVERTED"
    <3>1. inv[s].state = "BOOKED"
      BY <2>1, <2>3 DEF IndInv, Safe, SoldOnce
    <3>. QED  BY <1>4, <2>1, <2>2, <3>1, RowTypes
  <2>4. CASE Active(h)
    <3>1. inv[s] = HeldRow(h, hold[h].expiresAt)
      BY <2>1, <2>4 DEF IndInv, Safe, HoldOwnsItsSeats, Claims
    <3>. QED  BY <2>1, <2>2, <3>1 DEF HeldRow
  <2>. QED  BY <2>1, <2>3, <2>4 DEF Claims, Active
<1>11. HoldOwnsItsSeats'
  <2>. SUFFICES ASSUME NEW h \in Holds, Active(h)', NEW s \in hold'[h].seats
                PROVE  SessionOf[s] = hold'[h].session /\ inv'[s] = HeldRow(h, hold'[h].expiresAt)
    BY DEF HoldOwnsItsSeats
  <2>1. CASE h = n
    <3>1. s \in q.seats /\ s \in Seats
      BY <1>5, <1>6, <2>1
    <3>. QED  BY <1>3, <1>5, <1>6, <2>1, <3>1
  <2>2. CASE h # n
    <3>1. h \notin H /\ hold'[h] = hold[h] /\ Active(h)
      BY <1>9, <2>2 DEF Active
    <3>2. s \in Seats
      BY <3>1, RowTypes DEF Active, HoldRow
    <3>3. SessionOf[s] = hold[h].session /\ inv[s] = HeldRow(h, hold[h].expiresAt)
      BY <3>1 DEF IndInv, Safe, HoldOwnsItsSeats
    <3>4. s \notin q.seats
      BY <1>10, <2>2 DEF Claims, Active
    <3>. QED  BY <1>3, <3>1, <3>2, <3>3, <3>4 DEF HeldRow
  <2>. QED  BY <2>1, <2>2
<1>12. HeldSeatHasLiveHold'
  <2>. SUFFICES ASSUME NEW s \in Seats, inv'[s].state = "HELD"
                PROVE  \E h \in Holds : inv'[s].hold = h /\ Active(h)' /\ s \in hold'[h].seats
    BY DEF HeldSeatHasLiveHold
  <2>1. CASE s \in q.seats
    <3>1. inv'[s].hold = n /\ Active(n)' /\ s \in hold'[n].seats
      BY <1>3, <1>6, <2>1 DEF HeldRow, Active
    <3>. QED  BY <3>1
  <2>2. CASE s \notin q.seats
    <3>1. inv'[s] = inv[s] /\ inv[s].hold \notin H
      BY <1>3, <2>2 DEF AvailableRow
    <3>2. PICK h \in Holds : inv[s].hold = h /\ Active(h) /\ s \in hold[h].seats
      BY <3>1 DEF IndInv, Safe, HeldSeatHasLiveHold
    <3>3. hold'[h] = hold[h]
      BY <1>6, <1>8, <3>1, <3>2
    <3>. QED  BY <3>1, <3>2, <3>3 DEF Active
  <2>. QED  BY <2>1, <2>2
<1>13. SoldOnce'
  <2>. SUFFICES ASSUME NEW s \in Seats
                PROVE  /\ \A g, h \in Holds : Claims(g, s)' /\ Claims(h, s)' => g = h
                       /\ inv'[s].state = "BOOKED" <=> \E h \in Holds : Claims(h, s)' /\ hold'[h].status = "CONVERTED"
    BY DEF SoldOnce
  <2>1. CASE s \in q.seats
    <3>1. \A h \in Holds : Claims(h, s)' => h = n
      BY <1>10, <2>1
    <3>2. inv'[s].state # "BOOKED" /\ hold'[n].status # "CONVERTED"
      BY <1>3, <1>6, <2>1 DEF HeldRow
    <3>. QED  BY <3>1, <3>2
  <2>2. CASE s \notin q.seats
    <3>1. /\ \A g, h \in Holds : Claims(g, s) /\ Claims(h, s) => g = h
          /\ inv[s].state = "BOOKED" <=> \E h \in Holds : Claims(h, s) /\ hold[h].status = "CONVERTED"
      BY DEF IndInv, Safe, SoldOnce
    <3>2. ~Claims(n, s)'
      BY <1>6, <2>2 DEF Claims
    <3>3. \A h \in Holds : Claims(h, s)' => Claims(h, s) /\ hold'[h] = hold[h]
      BY <1>9, <3>2 DEF Claims
    <3>4. \A h \in Holds : hold[h].status = "CONVERTED" => hold'[h] = hold[h]
      BY <1>1, <1>4, <1>8 DEF Active, AbsentHold
    <3>5. inv'[s].state = "BOOKED" <=> inv[s].state = "BOOKED"
      BY <1>3, <1>4, <2>2, RowTypes DEF AvailableRow
    <3>. QED  BY <3>1, <3>3, <3>4, <3>5 DEF Claims
  <2>. QED  BY <2>1, <2>2
<1>14. ActiveHoldsAreLegal'
  <2>. SUFFICES ASSUME NEW g \in Holds, NEW h \in Holds, Active(g)'
                PROVE  /\ session'[hold'[g].session] # "CANCELLED"
                       /\ Active(h)' /\ hold'[g].user = hold'[h].user
                            /\ hold'[g].session = hold'[h].session => g = h
    BY DEF ActiveHoldsAreLegal
  <2>1. \A f \in Holds : f # n /\ Active(f)' => f \notin H /\ hold'[f] = hold[f] /\ Active(f)
    BY <1>9 DEF Active
  <2>2. session[q.session] = "ON_SALE"
    BY <1>1 DEF CanAcquire, Sellable
  <2>3. \A f \in Holds : f # n /\ Active(f)' /\ hold'[f].session = q.session => hold'[f].user # q.user
    <3>1. \A f \in ActiveHolds(q.session) \ H : hold[f].user # q.user
      BY <1>1 DEF CanAcquire
    <3>. QED  BY <2>1, <3>1 DEF ActiveHolds
  <2>4. session'[hold'[g].session] # "CANCELLED"
    <3>1. CASE g = n
      BY <1>1, <1>6, <2>2, <3>1
    <3>2. CASE g # n
      BY <1>1, <2>1, <3>2 DEF IndInv, Safe, ActiveHoldsAreLegal
    <3>. QED  BY <3>1, <3>2
  <2>5. ASSUME Active(h)', hold'[g].user = hold'[h].user, hold'[g].session = hold'[h].session
        PROVE  g = h
    <3>1. CASE g # n /\ h # n
      BY <2>1, <2>5, <3>1 DEF IndInv, Safe, ActiveHoldsAreLegal
    <3>2. CASE g = n \/ h = n
      BY <1>6, <2>3, <2>5, <3>2
    <3>. QED  BY <3>1, <3>2
  <2>. QED  BY <2>4, <2>5
<1>. QED  BY <1>11, <1>12, <1>13, <1>14 DEF Safe

-----------------------------------------------------------------------------
\* Every action keeps the types.
LEMMA TypeStep ==
  ASSUME TypeOK, Next
  PROVE  TypeOK'
<1>. USE DEF TypeOK
<1>idle. ASSUME NEW r \in Requests, Finish(r)
         PROVE  pending' \in [Requests -> Request]
  BY <1>idle DEF Finish, Request
<1>tell. ASSUME NEW type \in {"HOLD_CREATED", "HOLD_RELEASED", "HOLD_EXPIRED", "INVENTORY_BOOKED"},
                NEW H \in SUBSET Holds
         PROVE  Announce(type, H) \in SUBSET OutboxRow
  BY DEF Announce, OutboxRow
<1>row. ASSUME NEW R \in SUBSET OutboxRow, Enqueue(R)
        PROVE  outbox' \in SUBSET OutboxRow
  BY <1>row DEF Enqueue
<1>end. ASSUME NEW H \in SUBSET Holds, \A h \in H : Active(h), NEW st \in TerminalHoldStatus,
               hold' = EndHolds(H, st), inv' = FreeSeats(H)
        PROVE  hold' \in [Holds -> HoldRow \cup {AbsentHold}] /\ inv' \in [Seats -> InvRow]
  BY <1>end, EndTypes
<1>1. ASSUME NEW r \in Requests, NEW u \in Users, NEW ss \in Sessions, NEW S \in SUBSET Seats,
             NEW k \in Keys, StartAcquire(r, u, ss, S, k)
      PROVE  TypeOK'
  BY <1>1 DEF StartAcquire, Request, AcquireRequest
<1>2. ASSUME NEW r \in Requests, NEW n \in Holds, CommitAcquire(r, n)
      PROVE  TypeOK'
  <2>. DEFINE q == pending[r]
              H == OverdueHolds(q.session, q.now)
              expiry == q.now + HoldDuration
              new == [status |-> "ACTIVE", session |-> q.session, user |-> q.user, key |-> q.key,
                      seats |-> q.seats, expiresAt |-> expiry]
  <2>1. q \in AcquireRequest
    BY <1>2 DEF CommitAcquire, Request, Idle, ReleaseRequest, SessionRequest, EventRequest
  <2>2. expiry \in Nat
    BY <2>1, LimitAssumption DEF AcquireRequest
  <2>3. new \in HoldRow
    BY <2>1, <2>2 DEF AcquireRequest, HoldRow
  <2>4. H \in SUBSET Holds /\ \A h \in H : Active(h)
    BY OverdueActive
  <2>5. EndHolds(H, "EXPIRED") \in [Holds -> HoldRow \cup {AbsentHold}] /\ FreeSeats(H) \in [Seats -> InvRow]
    BY <2>4, EndTypes DEF TerminalHoldStatus
  <2>6. hold' \in [Holds -> HoldRow \cup {AbsentHold}]
    <3>1. hold' = [EndHolds(H, "EXPIRED") EXCEPT ![n] = new]
      BY <1>2 DEF CommitAcquire
    <3>. QED  BY <2>3, <2>5, <3>1
  <2>7. inv' \in [Seats -> InvRow]
    <3>1. inv' = [s \in Seats |-> IF s \in q.seats THEN HeldRow(n, expiry) ELSE FreeSeats(H)[s]]
      BY <1>2 DEF CommitAcquire
    <3>2. HeldRow(n, expiry) \in InvRow
      BY <2>2 DEF HeldRow, InvRow
    <3>. QED  BY <2>5, <3>1, <3>2
  <2>8. outbox' \in SUBSET OutboxRow
    <3>1. Announce("HOLD_EXPIRED", H) \cup Announce("HOLD_CREATED", {n}) \in SUBSET OutboxRow
      BY <1>tell, <2>4
    <3>. QED  BY <1>2, <1>row, <3>1 DEF CommitAcquire
  <2>. QED  BY <1>2, <1>idle, <2>6, <2>7, <2>8 DEF CommitAcquire
<1>3. ASSUME NEW r \in Requests, NEW u \in Users, NEW h \in Holds, StartRelease(r, u, h)
      PROVE  TypeOK'
  BY <1>3 DEF StartRelease, Request, ReleaseRequest
<1>4. ASSUME NEW r \in Requests, CommitRelease(r)
      PROVE  TypeOK'
  <2>. DEFINE h == pending[r].hold
  <2>1. h \in Holds /\ Active(h)
    BY <1>4 DEF CommitRelease, Request, Idle, AcquireRequest, ReleaseRequest, SessionRequest, EventRequest
  <2>2. hold' \in [Holds -> HoldRow \cup {AbsentHold}] /\ inv' \in [Seats -> InvRow]
    <3>1. hold' = EndHolds({h}, "RELEASED") /\ inv' = FreeSeats({h})
      BY <1>4 DEF CommitRelease
    <3>. QED  BY <1>end, <2>1, <3>1 DEF TerminalHoldStatus
  <2>3. outbox' \in SUBSET OutboxRow
    <3>1. Announce("HOLD_RELEASED", {h}) \in SUBSET OutboxRow
      BY <1>tell, <2>1
    <3>. QED  BY <1>4, <1>row, <3>1 DEF CommitRelease
  <2>. QED  BY <1>4, <1>idle, <2>2, <2>3 DEF CommitRelease
<1>5. ASSUME NEW r \in Requests, Abandon(r)
      PROVE  TypeOK'
  BY <1>5, <1>idle DEF Abandon
<1>6. ASSUME NEW B \in SUBSET Holds, SweepExpiredHolds(B)
      PROVE  TypeOK'
  <2>1. hold' \in [Holds -> HoldRow \cup {AbsentHold}] /\ inv' \in [Seats -> InvRow]
    BY <1>6, <1>end DEF SweepExpiredHolds, TerminalHoldStatus
  <2>2. outbox' \in SUBSET OutboxRow
    <3>1. Announce("HOLD_EXPIRED", B) \in SUBSET OutboxRow
      BY <1>tell
    <3>. QED  BY <1>6, <1>row, <3>1 DEF SweepExpiredHolds
  <2>. QED  BY <1>6, <2>1, <2>2 DEF SweepExpiredHolds
<1>7. ASSUME NEW r \in Requests, NEW op \in {"pause", "resume", "cancelSession"}, NEW ss \in Sessions,
             StartSessionOp(r, op, ss)
      PROVE  TypeOK'
  BY <1>7 DEF StartSessionOp, Request, SessionRequest
<1>8. ASSUME NEW r \in Requests, CommitPauseOrResume(r)
      PROVE  TypeOK'
  <2>1. pending[r].session \in Sessions
    BY <1>8 DEF CommitPauseOrResume, Request, Idle, AcquireRequest, ReleaseRequest, SessionRequest, EventRequest
  <2>. QED  BY <1>8, <1>idle, <2>1 DEF CommitPauseOrResume, SessionStatus
<1>close. ASSUME NEW SS \in SUBSET Sessions, EndSessions(SS)
          PROVE  /\ session' \in [Sessions -> SessionStatus]
                 /\ hold' \in [Holds -> HoldRow \cup {AbsentHold}] /\ inv' \in [Seats -> InvRow]
                 /\ outbox' \in SUBSET OutboxRow
  <2>. DEFINE H == UNION {ActiveHolds(ss) : ss \in SS}
  <2>1. H \in SUBSET Holds /\ \A h \in H : Active(h)
    BY DEF ActiveHolds
  <2>2. hold' \in [Holds -> HoldRow \cup {AbsentHold}] /\ inv' \in [Seats -> InvRow]
    <3>1. hold' = EndHolds(H, "RELEASED") /\ inv' = FreeSeats(H)
      BY <1>close DEF EndSessions
    <3>. QED  BY <1>end, <2>1, <3>1 DEF TerminalHoldStatus
  <2>3. outbox' \in SUBSET OutboxRow
    <3>1. Announce("SESSION_CANCELLED", SS) \in SUBSET OutboxRow
      BY DEF Announce, OutboxRow
    <3>. QED  BY <1>close, <1>row, <3>1 DEF EndSessions
  <2>. QED  BY <1>close, <2>2, <2>3 DEF EndSessions, SessionStatus
<1>9. ASSUME NEW r \in Requests, CommitCancelSession(r)
      PROVE  TypeOK'
  <2>1. {pending[r].session} \in SUBSET Sessions
    BY <1>9 DEF CommitCancelSession, Request, Idle, AcquireRequest, ReleaseRequest, SessionRequest, EventRequest
  <2>. QED  BY <1>9, <1>idle, <1>close, <2>1 DEF CommitCancelSession
<1>10. CASE CancelEvent
  <2>1. {ss \in Sessions : session[ss] # "CANCELLED"} \in SUBSET Sessions
    OBVIOUS
  <2>. QED  BY <1>10, <1>close, <2>1 DEF CancelEvent, EventStatus
<1>11. ASSUME NEW r \in Requests, StartArchiveEvent(r) \/ StartRestoreEvent(r)
       PROVE  TypeOK'
  BY <1>11 DEF StartArchiveEvent, StartRestoreEvent, Request, EventRequest
<1>12. ASSUME NEW r \in Requests, CommitArchiveOrRestore(r)
       PROVE  TypeOK'
  <2>1. pending[r].seen \in EventStatus
    BY <1>12 DEF CommitArchiveOrRestore, Request, Idle, AcquireRequest, ReleaseRequest, SessionRequest, EventRequest
  <2>. QED  BY <1>12, <1>idle, <2>1 DEF CommitArchiveOrRestore, EventStatus
<1>13. CASE Tick
  BY <1>13 DEF Tick
<1>14. ASSUME NEW SS \in SUBSET Sessions, NEW now \in RecentTimes, ReleaseExpired(SS, now)
       PROVE  TypeOK'
  <2>. DEFINE H == UNION {OverdueHolds(ss, now) : ss \in SS}
  <2>1. H \in SUBSET Holds /\ \A h \in H : Active(h)
    BY OverdueActive
  <2>2. hold' \in [Holds -> HoldRow \cup {AbsentHold}] /\ inv' \in [Seats -> InvRow]
    <3>1. hold' = EndHolds(H, "EXPIRED") /\ inv' = FreeSeats(H)
      BY <1>14 DEF ReleaseExpired
    <3>. QED  BY <1>end, <2>1, <3>1 DEF TerminalHoldStatus
  <2>3. outbox' \in SUBSET OutboxRow
    <3>1. Announce("HOLD_EXPIRED", H) \in SUBSET OutboxRow
      BY <1>tell, <2>1
    <3>. QED  BY <1>14, <1>row, <3>1 DEF ReleaseExpired
  <2>. QED  BY <1>14, <2>2, <2>3 DEF ReleaseExpired
<1>15. ASSUME NEW h \in Holds, NEW now \in RecentTimes, ConvertHold(h, now)
       PROVE  TypeOK'
  <2>1. Active(h)
    BY <1>15 DEF ConvertHold, CanConvert
  <2>2. hold' \in [Holds -> HoldRow \cup {AbsentHold}]
    <3>1. hold' = EndHolds({h}, "CONVERTED")
      BY <1>15 DEF ConvertHold
    <3>. QED  BY <2>1, <3>1, EndTypes DEF TerminalHoldStatus
  <2>3. inv' \in [Seats -> InvRow]
    BY <1>15 DEF ConvertHold, InvRow
  <2>4. outbox' \in SUBSET OutboxRow
    <3>1. Announce("INVENTORY_BOOKED", {h}) \in SUBSET OutboxRow
      BY <1>tell
    <3>. QED  BY <1>15, <1>row, <3>1 DEF ConvertHold
  <2>. QED  BY <1>15, <2>2, <2>3, <2>4 DEF ConvertHold
<1>. QED
  BY <1>1, <1>2, <1>3, <1>4, <1>5, <1>6, <1>7, <1>8, <1>9, <1>10, <1>11, <1>12, <1>13, <1>14, <1>15
     DEF Next, HoldStep

\* In every reachable state the tables have the columns and values the schema gives them
\* (the status and state CHECKs of SeatHold and SessionSeatInventory).
THEOREM TypeInvariant == Spec => []TypeOK
<1>1. Init => TypeOK
  BY DEF Init, TypeOK, EventStatus, SessionStatus, InvRow, AvailableRow, Request
<1>2. TypeOK /\ [Next]_vars => TypeOK'
  <2>1. TypeOK /\ UNCHANGED vars => TypeOK'
    BY DEF TypeOK, vars
  <2>. QED  BY <2>1, TypeStep
<1>. QED  BY <1>1, <1>2, PTL DEF Spec

-----------------------------------------------------------------------------
\* What an action does that neither acquires nor converts: it ends some active
\* holds, possibly none, frees their rows, and leaves no active hold in a session
\* that it cancels.
EndsOnly(H, st) ==
  /\ hold' = EndHolds(H, st) /\ inv' = FreeSeats(H)
  /\ \A ss \in Sessions : session'[ss] = "CANCELLED" /\ session[ss] # "CANCELLED"
                            => ActiveHolds(ss) \subseteq H

\* Every action acquires, converts, or only ends active holds.
LEMMA StepKinds ==
  ASSUME TypeOK, Next
  PROVE  \/ \E r \in Requests, h \in Holds : CommitAcquire(r, h)
         \/ \E h \in Holds, now \in RecentTimes : ConvertHold(h, now)
         \/ \E H \in SUBSET Holds, st \in {"RELEASED", "EXPIRED"} :
              (\A h \in H : Active(h)) /\ EndsOnly(H, st)
<1>. DEFINE Goal == \E H \in SUBSET Holds, st \in {"RELEASED", "EXPIRED"} :
                      (\A h \in H : Active(h)) /\ EndsOnly(H, st)
<1>same. ASSUME UNCHANGED <<hold, inv>>,
                \A ss \in Sessions : session'[ss] = "CANCELLED" => session[ss] = "CANCELLED"
         PROVE  Goal
  <2>1. EndHolds({}, "EXPIRED") = hold /\ FreeSeats({}) = inv
    BY DEF EndHolds, FreeSeats, TypeOK
  <2>2. EndsOnly({}, "EXPIRED")
    BY <1>same, <2>1 DEF EndsOnly
  <2>. QED  BY <2>2
<1>close. ASSUME NEW SS \in SUBSET Sessions, EndSessions(SS)
          PROVE  Goal
  <2>. DEFINE H == UNION {ActiveHolds(ss) : ss \in SS}
  <2>1. H \in SUBSET Holds /\ \A h \in H : Active(h)
    BY DEF ActiveHolds
  <2>2. \A ss \in Sessions : session'[ss] = "CANCELLED" /\ session[ss] # "CANCELLED" => ss \in SS
    BY <1>close DEF EndSessions
  <2>3. EndsOnly(H, "RELEASED")
    BY <1>close, <2>2 DEF EndsOnly, EndSessions
  <2>. QED  BY <2>1, <2>3
<1>1. ASSUME NEW r \in Requests, CommitRelease(r)
      PROVE  Goal
  <2>. DEFINE h == pending[r].hold
  <2>1. h \in Holds /\ Active(h)
    BY <1>1 DEF CommitRelease, TypeOK, Request, Idle, AcquireRequest, ReleaseRequest, SessionRequest, EventRequest
  <2>2. EndsOnly({h}, "RELEASED")
    BY <1>1 DEF CommitRelease, EndsOnly
  <2>. QED  BY <2>1, <2>2
<1>2. ASSUME NEW B \in SUBSET Holds, SweepExpiredHolds(B)
      PROVE  Goal
  <2>1. EndsOnly(B, "EXPIRED") /\ \A h \in B : Active(h)
    BY <1>2 DEF SweepExpiredHolds, EndsOnly
  <2>. QED  BY <2>1
<1>3. ASSUME NEW SS \in SUBSET Sessions, NEW now \in RecentTimes, ReleaseExpired(SS, now)
      PROVE  Goal
  <2>. DEFINE H == UNION {OverdueHolds(ss, now) : ss \in SS}
  <2>1. H \in SUBSET Holds /\ \A h \in H : Active(h)
    BY OverdueActive
  <2>2. EndsOnly(H, "EXPIRED")
    BY <1>3 DEF ReleaseExpired, EndsOnly
  <2>. QED  BY <2>1, <2>2
<1>4. ASSUME NEW r \in Requests, CommitPauseOrResume(r)
      PROVE  Goal
  BY <1>4, <1>same DEF CommitPauseOrResume, TypeOK
<1>5. ASSUME NEW r \in Requests, CommitCancelSession(r)
      PROVE  Goal
  <2>1. {pending[r].session} \in SUBSET Sessions
    BY <1>5 DEF CommitCancelSession, TypeOK, Request, Idle, AcquireRequest, ReleaseRequest, SessionRequest, EventRequest
  <2>. QED  BY <1>5, <1>close, <2>1 DEF CommitCancelSession
<1>6. ASSUME CancelEvent
      PROVE  Goal
  <2>1. {ss \in Sessions : session[ss] # "CANCELLED"} \in SUBSET Sessions
    OBVIOUS
  <2>. QED  BY <1>6, <1>close, <2>1 DEF CancelEvent
<1>7. ASSUME NEW r \in Requests, Abandon(r) \/ CommitArchiveOrRestore(r)
                                 \/ StartArchiveEvent(r) \/ StartRestoreEvent(r)
      PROVE  Goal
  BY <1>7, <1>same DEF Abandon, CommitArchiveOrRestore, StartArchiveEvent, StartRestoreEvent
<1>8. ASSUME Tick
      PROVE  Goal
  BY <1>8, <1>same DEF Tick
<1>9. ASSUME NEW r \in Requests, NEW u \in Users, NEW ss \in Sessions, NEW S \in SUBSET Seats,
             NEW k \in Keys, StartAcquire(r, u, ss, S, k)
      PROVE  Goal
  BY <1>9, <1>same DEF StartAcquire
<1>10. ASSUME NEW r \in Requests, NEW u \in Users, NEW h \in Holds, StartRelease(r, u, h)
       PROVE  Goal
  BY <1>10, <1>same DEF StartRelease
<1>11. ASSUME NEW r \in Requests, NEW op, NEW ss \in Sessions, StartSessionOp(r, op, ss)
       PROVE  Goal
  BY <1>11, <1>same DEF StartSessionOp
<1>. HIDE DEF Goal
<1>12. (\E r \in Requests, h \in Holds : CommitAcquire(r, h))
       \/ (\E h \in Holds, now \in RecentTimes : ConvertHold(h, now)) \/ Goal
  BY <1>1, <1>2, <1>3, <1>4, <1>5, <1>6, <1>7, <1>8, <1>9, <1>10, <1>11 DEF Next, HoldStep
<1>. QED  BY <1>12 DEF Goal

\* The inductive invariant holds in every reachable state.
LEMMA Invariant == Spec => []IndInv
<1>1. Init => IndInv
  <2>. SUFFICES ASSUME Init PROVE IndInv
    OBVIOUS
  <2>1. TypeOK
    BY DEF Init, TypeOK, EventStatus, SessionStatus, InvRow, AvailableRow, Request
  <2>. QED  BY <2>1 DEF Init, IndInv, Safe, HoldOwnsItsSeats, HeldSeatHasLiveHold, SoldOnce,
                        ActiveHoldsAreLegal, Claims, Active, AbsentHold, AvailableRow
<1>2. IndInv /\ [Next]_vars => IndInv'
  <2>. SUFFICES ASSUME IndInv, [Next]_vars PROVE IndInv'
    OBVIOUS
  <2>1. CASE UNCHANGED vars
    BY <2>1 DEF vars, IndInv, TypeOK, Safe, HoldOwnsItsSeats, HeldSeatHasLiveHold, SoldOnce,
                ActiveHoldsAreLegal, Claims, Active
  <2>2. CASE Next
    <3>1. TypeOK /\ TypeOK'
      BY <2>2, TypeStep DEF IndInv
    <3>2. Safe'
      <4>1. ASSUME NEW H \in SUBSET Holds, NEW st \in {"RELEASED", "EXPIRED"},
                   \A h \in H : Active(h), EndsOnly(H, st)
            PROVE  Safe'
        BY <3>1, <4>1, EndStep DEF EndsOnly, TypeOK
      <4>. QED  BY <2>2, <3>1, <4>1, StepKinds, AcquireStep, ConvertStep
    <3>. QED  BY <3>1, <3>2 DEF IndInv
  <2>. QED  BY <2>1, <2>2
<1>. QED  BY <1>1, <1>2, PTL DEF Spec

-----------------------------------------------------------------------------
\* While a hold is ACTIVE all of its seats are rows of its session, HELD by it with
\* its expiry, however acquisition, release, expiry, cancellation and fulfilment
\* interleave.
THEOREM HoldsAreWhole == Spec => []HoldOwnsItsSeats
<1>1. IndInv => HoldOwnsItsSeats
  BY DEF IndInv, Safe
<1>. QED  BY <1>1, Invariant, PTL

\* No row stays HELD for a hold that has ended or does not have it as an item.
THEOREM NoSeatIsTrapped == Spec => []HeldSeatHasLiveHold
<1>1. IndInv => HeldSeatHasLiveHold
  BY DEF IndInv, Safe
<1>. QED  BY <1>1, Invariant, PTL

\* No seat is ever sold twice, or sold while another hold still claims it.
THEOREM NoDoubleSale == Spec => []SoldOnce
<1>1. IndInv => SoldOnce
  BY DEF IndInv, Safe
<1>. QED  BY <1>1, Invariant, PTL

\* A customer has at most one ACTIVE hold in a session and none in a cancelled one.
THEOREM HoldsAreLegal == Spec => []ActiveHoldsAreLegal
<1>1. IndInv => ActiveHoldsAreLegal
  BY DEF IndInv, Safe
<1>. QED  BY <1>1, Invariant, PTL

\* An acquisition is never refused because of a hold that is overdue at its time.
THEOREM LazyExpiry == Spec => []OverdueHoldsDoNotBlock
<1>1. IndInv => OverdueHoldsDoNotBlock
  <2>. SUFFICES
         ASSUME IndInv, NEW r \in Requests, pending[r].op = "acquire",
                Sellable(pending[r].session, pending[r].now),
                pending[r].seats \subseteq SeatsOf(pending[r].session),
                \A s \in pending[r].seats : inv[s].state # "BOOKED" /\ inv[s].expiresAt <= pending[r].now,
                ~KeyUsed(pending[r].session, pending[r].user, pending[r].key),
                \A h \in Holds : Active(h) /\ hold[h].user = pending[r].user => hold[h].expiresAt <= pending[r].now,
                pending[r].now + HoldDuration > clock
         PROVE  CanAcquire(pending[r])
    BY DEF OverdueHoldsDoNotBlock
  <2>. DEFINE q == pending[r]
              H == OverdueHolds(q.session, q.now)
  <2>1. ASSUME NEW s \in q.seats
        PROVE  inv[s].state = "AVAILABLE" \/ inv[s].hold \in H
    <3>1. s \in Seats /\ SessionOf[s] = q.session
      BY DEF SeatsOf
    <3>2. inv[s].state \in {"AVAILABLE", "BOOKED", "HELD"}
      BY <3>1 DEF IndInv, TypeOK, InvRow, BookedRow
    <3>3. CASE inv[s].state = "HELD"
      <4>1. PICK h \in Holds : inv[s].hold = h /\ Active(h) /\ s \in hold[h].seats
        BY <3>1, <3>3 DEF IndInv, Safe, HeldSeatHasLiveHold
      <4>2. SessionOf[s] = hold[h].session /\ inv[s] = HeldRow(h, hold[h].expiresAt)
        BY <4>1 DEF IndInv, Safe, HoldOwnsItsSeats
      <4>3. hold[h].expiresAt <= q.now
        BY <4>2 DEF HeldRow
      <4>. QED  BY <3>1, <4>1, <4>2, <4>3 DEF OverdueHolds, ActiveHolds
    <3>. QED  BY <3>2, <3>3
  <2>2. \A h \in ActiveHolds(q.session) \ H : hold[h].user # q.user
    BY DEF OverdueHolds, ActiveHolds
  <2>. QED  BY <2>1, <2>2 DEF CanAcquire
<1>. QED  BY <1>1, Invariant, PTL

-----------------------------------------------------------------------------
\* An event that was cancelled is not PUBLISHED, before or after an archival.
CancelledIsNotPublished == event.cancelledAt => event.status # "PUBLISHED"

\* A step changes the event only by a cancellation, or by an archival or restoration
\* that the lifecycle CHECK let through.
LEMMA EventWrites ==
  ASSUME TypeOK, Next, event.cancelledAt
  PROVE  event' = event \/ event'.status # "PUBLISHED"
<1>1. ASSUME NEW r \in Requests, CommitArchiveOrRestore(r)
      PROVE  event'.status # "PUBLISHED"
  <2>1. pending[r].seen = "CANCELLED"
    BY <1>1 DEF CommitArchiveOrRestore, EventWriteAllowed
  <2>2. event' = [event EXCEPT !.status = "ARCHIVED", !.preArchive = pending[r].seen]
        \/ event' = [event EXCEPT !.status = pending[r].seen]
    BY <1>1 DEF CommitArchiveOrRestore
  <2>. QED  BY <2>1, <2>2 DEF TypeOK
<1>2. ASSUME CancelEvent
      PROVE  event'.status # "PUBLISHED"
  BY <1>2 DEF CancelEvent, TypeOK
<1>. QED
  BY <1>1, <1>2
     DEF Next, HoldStep, StartAcquire, CommitAcquire, StartRelease, CommitRelease, Abandon,
         SweepExpiredHolds, StartSessionOp, CommitPauseOrResume, CommitCancelSession,
         StartArchiveEvent, StartRestoreEvent, Tick, ReleaseExpired, ConvertHold

\* Nothing publishes a cancelled event again.
LEMMA EventInvariant == Spec => []CancelledIsNotPublished
<1>1. Init => CancelledIsNotPublished
  BY DEF Init, CancelledIsNotPublished
<1>2. TypeOK /\ CancelledIsNotPublished /\ [Next]_vars => CancelledIsNotPublished'
  <2>. SUFFICES ASSUME TypeOK, CancelledIsNotPublished, Next, event'.cancelledAt
                PROVE  event'.status # "PUBLISHED"
    BY DEF CancelledIsNotPublished, vars
  <2>1. CASE event.cancelledAt
    BY <2>1, EventWrites DEF CancelledIsNotPublished
  <2>2. CASE ~event.cancelledAt
    <3>1. ASSUME NEW r \in Requests, CommitArchiveOrRestore(r)
          PROVE  event'.cancelledAt = event.cancelledAt
      BY <3>1 DEF CommitArchiveOrRestore, TypeOK
    <3>2. CancelEvent
      BY <2>2, <3>1
         DEF Next, HoldStep, StartAcquire, CommitAcquire, StartRelease, CommitRelease, Abandon,
             SweepExpiredHolds, StartSessionOp, CommitPauseOrResume, CommitCancelSession,
             StartArchiveEvent, StartRestoreEvent, Tick, ReleaseExpired, ConvertHold
    <3>. QED  BY <3>2 DEF CancelEvent, TypeOK
  <2>. QED  BY <2>1, <2>2
<1>. QED  BY <1>1, <1>2, TypeInvariant, PTL DEF Spec

\* A cancelled session stays cancelled whatever staff operations read before.
LEMMA SessionWrites ==
  ASSUME TypeOK, Next, NEW ss \in Sessions, session[ss] = "CANCELLED"
  PROVE  session'[ss] = "CANCELLED"
<1>1. ASSUME NEW r \in Requests, CommitPauseOrResume(r)
      PROVE  session'[ss] = "CANCELLED"
  BY <1>1 DEF CommitPauseOrResume, SessionWriteAllowed, TypeOK
<1>2. ASSUME NEW SS, EndSessions(SS)
      PROVE  session'[ss] = "CANCELLED"
  BY <1>2 DEF EndSessions
<1>. QED
  BY <1>1, <1>2
     DEF Next, HoldStep, StartAcquire, CommitAcquire, StartRelease, CommitRelease, Abandon,
         SweepExpiredHolds, StartSessionOp, CommitCancelSession, CancelEvent, CommitArchiveOrRestore,
         StartArchiveEvent, StartRestoreEvent, Tick, ReleaseExpired, ConvertHold

\* A cancelled session or event, a BOOKED seat and an ended hold keep their status for
\* ever: status-guarded updates and lifecycle CHECKs stop every stale writer.
THEOREM Terminal == Spec => TerminalIsForever
<1>1. IndInv /\ CancelledIsNotPublished /\ [Next]_vars => [TerminalStep]_vars
  <2>. SUFFICES ASSUME IndInv, CancelledIsNotPublished, Next PROVE TerminalStep
    OBVIOUS
  <2>. TypeOK
    BY DEF IndInv
  <2>1. \A ss \in Sessions : session[ss] = "CANCELLED" => session'[ss] = "CANCELLED"
    BY SessionWrites
  <2>2. event.cancelledAt => event'.status # "PUBLISHED"
    BY EventWrites DEF CancelledIsNotPublished
  <2>3. /\ \A s \in Seats : inv[s].state = "BOOKED" => inv'[s] = inv[s]
        /\ \A h \in Holds : hold[h] # AbsentHold /\ ~Active(h) => hold'[h] = hold[h]
    <3>1. ASSUME NEW H \in SUBSET Holds, NEW st \in {"RELEASED", "EXPIRED"},
                 \A h \in H : Active(h), EndsOnly(H, st)
          PROVE  /\ \A s \in Seats : inv[s].state = "BOOKED" => inv'[s] = inv[s]
                 /\ \A h \in Holds : hold[h] # AbsentHold /\ ~Active(h) => hold'[h] = hold[h]
      BY <3>1, RowTypes DEF EndsOnly, EndHolds, FreeSeats
    <3>2. ASSUME NEW r \in Requests, NEW n \in Holds, CommitAcquire(r, n)
          PROVE  /\ \A s \in Seats : inv[s].state = "BOOKED" => inv'[s] = inv[s]
                 /\ \A h \in Holds : hold[h] # AbsentHold /\ ~Active(h) => hold'[h] = hold[h]
      <4>. DEFINE q == pending[r]
                  H == OverdueHolds(q.session, q.now)
      <4>1. H \in SUBSET Holds /\ \A h \in H : Active(h)
        BY OverdueActive
      <4>2. \A s \in q.seats : inv[s].state = "AVAILABLE" \/ inv[s].hold \in H
        BY <3>2 DEF CommitAcquire, CanAcquire
      <4>3. \A s \in Seats : inv[s].state = "BOOKED" => s \notin q.seats /\ inv[s].hold \notin H
        BY <4>1, <4>2, RowTypes
      <4>4. \A s \in Seats : s \notin q.seats /\ inv[s].hold \notin H => inv'[s] = inv[s]
        BY <3>2 DEF CommitAcquire, FreeSeats
      <4>5. \A h \in Holds : h \notin H /\ h # n => hold'[h] = hold[h]
        BY <3>2 DEF CommitAcquire, EndHolds
      <4>6. hold[n] = AbsentHold
        BY <3>2 DEF CommitAcquire
      <4>. QED  BY <4>1, <4>3, <4>4, <4>5, <4>6
    <3>3. ASSUME NEW c \in Holds, NEW now, ConvertHold(c, now)
          PROVE  /\ \A s \in Seats : inv[s].state = "BOOKED" => inv'[s] = inv[s]
                 /\ \A h \in Holds : hold[h] # AbsentHold /\ ~Active(h) => hold'[h] = hold[h]
      <4>1. Active(c) /\ \A s \in hold[c].seats : inv[s].state = "HELD"
        BY <3>3 DEF ConvertHold, CanConvert, HeldRow
      <4>. QED  BY <3>3, <4>1 DEF ConvertHold, EndHolds
    <3>. QED  BY <3>1, <3>2, <3>3, StepKinds
  <2>. QED  BY <2>1, <2>2, <2>3 DEF TerminalStep
<1>. QED  BY <1>1, Invariant, EventInvariant, PTL DEF Spec, TerminalIsForever

-----------------------------------------------------------------------------
\* Ending active holds and announcing how they ended, in one transaction.
LEMMA AnnouncedEnd ==
  ASSUME TypeOK, ExitAnnouncedOnce,
         NEW H \in SUBSET Holds, \A h \in H : Active(h),
         NEW st \in TerminalHoldStatus, NEW type,
         \/ st = "EXPIRED" /\ type = "HOLD_EXPIRED"
         \/ st = "RELEASED" /\ type = "HOLD_RELEASED"
         \/ st = "CONVERTED" /\ type = "INVENTORY_BOOKED",
         hold' = EndHolds(H, st), outbox' = outbox \cup Announce(type, H)
  PROVE  ExitAnnouncedOnce'
<1>1. /\ \A h \in H : hold'[h].status = st
      /\ \A h \in Holds \ H : hold'[h] = hold[h]
  BY EndFields
<1>2. \A t, i : Told(t, i)' <=> Told(t, i) \/ (t = type /\ i \in H)
  BY DEF Announce, Told
<1>3. ASSUME NEW h \in H
      PROVE  hold[h].status = "ACTIVE"
  BY DEF Active
<1>4. \A h \in Holds \ H : CancellationTold(h) => CancellationTold(h)'
  BY <1>1 DEF CancellationTold
<1>. QED  BY <1>1, <1>2, <1>3, <1>4 DEF ExitAnnouncedOnce, TerminalHoldStatus

\* Every hold's creation and end are announced exactly once: the outbox rows are
\* written in the transaction that changes the hold, and never without it.
THEOREM OutboxIsComplete == Spec => []ExitAnnouncedOnce
<1>1. Init => ExitAnnouncedOnce
  BY DEF Init, ExitAnnouncedOnce, Told, CancellationTold, AbsentHold
<1>2. TypeOK /\ ExitAnnouncedOnce /\ [Next]_vars => ExitAnnouncedOnce'
  <2>. SUFFICES ASSUME TypeOK, ExitAnnouncedOnce, [Next]_vars PROVE ExitAnnouncedOnce'
    OBVIOUS
  <2>same. ASSUME UNCHANGED <<hold, outbox>>
           PROVE  ExitAnnouncedOnce'
    BY <2>same DEF ExitAnnouncedOnce, Told, CancellationTold
  <2>1. ASSUME NEW r \in Requests, NEW n \in Holds, CommitAcquire(r, n)
        PROVE  ExitAnnouncedOnce'
    <3>. DEFINE H == OverdueHolds(pending[r].session, pending[r].now)
    <3>1. H \in SUBSET Holds /\ \A h \in H : Active(h)
      BY OverdueActive
    <3>2. hold[n] = AbsentHold /\ n \notin H
      BY <2>1, <3>1 DEF CommitAcquire, AbsentHold, Active
    <3>3. hold'[n].status = "ACTIVE" /\ \A h \in Holds \ {n} : hold'[h] = EndHolds(H, "EXPIRED")[h]
      BY <2>1 DEF CommitAcquire, EndHolds
    <3>4. \A h \in H : hold'[h].status = "EXPIRED"
      <4>. SUFFICES ASSUME NEW h \in H PROVE hold'[h].status = "EXPIRED"
        OBVIOUS
      <4>1. h \in Holds /\ h # n /\ hold[h] \in HoldRow
        BY <3>1, <3>2, RowTypes DEF Active
      <4>2. hold'[h] = [hold[h] EXCEPT !.status = "EXPIRED"]
        BY <3>3, <4>1 DEF EndHolds
      <4>. QED  BY <4>1, <4>2 DEF HoldRow
    <3>5. \A h \in Holds : h \notin H /\ h # n => hold'[h] = hold[h]
      BY <3>3 DEF EndHolds
    <3>6. \A t, i : Told(t, i)' <=> \/ Told(t, i)
                                    \/ t = "HOLD_EXPIRED" /\ i \in H
                                    \/ t = "HOLD_CREATED" /\ i = n
      <4>1. outbox' = outbox \cup (Announce("HOLD_EXPIRED", H) \cup Announce("HOLD_CREATED", {n}))
        BY <2>1 DEF CommitAcquire, Enqueue
      <4>. HIDE DEF H
      <4>2. \A t, i : <<t, i>> \in Announce("HOLD_EXPIRED", H) <=> t = "HOLD_EXPIRED" /\ i \in H
        BY DEF Announce
      <4>3. \A t, i : <<t, i>> \in Announce("HOLD_CREATED", {n}) <=> t = "HOLD_CREATED" /\ i = n
        BY DEF Announce
      <4>. QED  BY <4>1, <4>2, <4>3 DEF Told
    <3>7. \A h \in H : hold[h].status = "ACTIVE"
      BY <3>1 DEF Active
    <3>. HIDE DEF H
    <3>8. ASSUME NEW h \in Holds
          PROVE  /\ Told("HOLD_CREATED", h)' <=> hold'[h].status # "ABSENT"
                 /\ Told("HOLD_EXPIRED", h)' <=> hold'[h].status = "EXPIRED"
                 /\ Told("INVENTORY_BOOKED", h)' <=> hold'[h].status = "CONVERTED"
                 /\ Told("HOLD_RELEASED", h)' => hold'[h].status = "RELEASED"
                 /\ hold'[h].status = "RELEASED" =>
                      Told("HOLD_RELEASED", h)' \/ CancellationTold(h)'
      <4>1. CASE h = n
        BY <3>2, <3>3, <3>6, <4>1 DEF ExitAnnouncedOnce, AbsentHold
      <4>2. CASE h \in H
        BY <3>2, <3>4, <3>6, <3>7, <4>2 DEF ExitAnnouncedOnce
      <4>3. CASE h # n /\ h \notin H
        <5>1. CancellationTold(h) => CancellationTold(h)'
          BY <2>1, <3>5, <4>3 DEF CancellationTold, CommitAcquire, Enqueue
        <5>. QED  BY <3>5, <3>6, <4>3, <5>1 DEF ExitAnnouncedOnce
      <4>. QED  BY <4>1, <4>2, <4>3
    <3>. QED  BY <3>8 DEF ExitAnnouncedOnce
  <2>2. ASSUME NEW r \in Requests, CommitRelease(r)
        PROVE  ExitAnnouncedOnce'
    <3>1. {pending[r].hold} \in SUBSET Holds /\ Active(pending[r].hold)
      BY <2>2 DEF CommitRelease, TypeOK, Request, Idle, AcquireRequest, ReleaseRequest, SessionRequest, EventRequest
    <3>. QED  BY <2>2, <3>1, AnnouncedEnd DEF CommitRelease, Enqueue, TerminalHoldStatus
  <2>3. ASSUME NEW B \in SUBSET Holds, SweepExpiredHolds(B)
        PROVE  ExitAnnouncedOnce'
    BY <2>3, AnnouncedEnd DEF SweepExpiredHolds, Enqueue, TerminalHoldStatus
  <2>4. ASSUME NEW SS \in SUBSET Sessions, NEW now, ReleaseExpired(SS, now)
        PROVE  ExitAnnouncedOnce'
    <3>. DEFINE H == UNION {OverdueHolds(ss, now) : ss \in SS}
    <3>1. H \in SUBSET Holds /\ \A h \in H : Active(h)
      BY OverdueActive
    <3>2. hold' = EndHolds(H, "EXPIRED") /\ outbox' = outbox \cup Announce("HOLD_EXPIRED", H)
      BY <2>4 DEF ReleaseExpired, Enqueue
    <3>. HIDE DEF H
    <3>. QED  BY <3>1, <3>2, AnnouncedEnd DEF TerminalHoldStatus
  <2>5. ASSUME NEW h \in Holds, NEW now, ConvertHold(h, now)
        PROVE  ExitAnnouncedOnce'
    <3>1. {h} \in SUBSET Holds /\ Active(h)
      BY <2>5 DEF ConvertHold, CanConvert
    <3>. QED  BY <2>5, <3>1, AnnouncedEnd DEF ConvertHold, Enqueue, TerminalHoldStatus
  <2>6. ASSUME NEW SS \in SUBSET Sessions, EndSessions(SS)
        PROVE  ExitAnnouncedOnce'
    <3>. DEFINE H == UNION {ActiveHolds(ss) : ss \in SS}
    <3>1. H \in SUBSET Holds /\ \A h \in H : Active(h) /\ hold[h].session \in SS
      BY DEF ActiveHolds
    <3>2. hold' = EndHolds(H, "RELEASED")
      BY <2>6 DEF EndSessions
    <3>3. \A t, i : Told(t, i)' <=> Told(t, i) \/ (t = "SESSION_CANCELLED" /\ i \in SS)
      BY <2>6 DEF EndSessions, Enqueue, Announce, Told
    <3>. HIDE DEF H
    <3>4. /\ \A h \in H : hold'[h].status = "RELEASED" /\ hold'[h].session = hold[h].session
          /\ \A h \in Holds \ H : hold'[h] = hold[h]
      BY <3>1, <3>2, EndFields DEF TerminalHoldStatus
    <3>5. \A h \in H : hold[h].status = "ACTIVE"
      BY <3>1 DEF Active
    <3>6. \A h \in Holds : h \in H \/ CancellationTold(h) => CancellationTold(h)'
      BY <2>6, <3>1, <3>4 DEF CancellationTold, EndSessions, Enqueue, Announce
    <3>. QED  BY <3>1, <3>3, <3>4, <3>5, <3>6 DEF ExitAnnouncedOnce
  <2>7. ASSUME NEW r \in Requests, CommitCancelSession(r)
        PROVE  ExitAnnouncedOnce'
    <3>1. {pending[r].session} \in SUBSET Sessions
      BY <2>7 DEF CommitCancelSession, TypeOK, Request, Idle, AcquireRequest, ReleaseRequest, SessionRequest, EventRequest
    <3>. QED  BY <2>6, <2>7, <3>1 DEF CommitCancelSession
  <2>8. CASE CancelEvent
    <3>1. {ss \in Sessions : session[ss] # "CANCELLED"} \in SUBSET Sessions
      OBVIOUS
    <3>. QED  BY <2>6, <2>8, <3>1 DEF CancelEvent
  <2>. QED
    BY <2>same, <2>1, <2>2, <2>3, <2>4, <2>5, <2>7, <2>8
       DEF Next, HoldStep, vars, StartAcquire, StartRelease, Abandon, StartSessionOp,
           CommitPauseOrResume, CommitArchiveOrRestore, StartArchiveEvent, StartRestoreEvent, Tick
<1>. QED  BY <1>1, <1>2, TypeInvariant, PTL DEF Spec
=============================================================================
