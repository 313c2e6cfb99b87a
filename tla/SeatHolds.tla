------------------------------ MODULE SeatHolds ------------------------------
(***************************************************************************)
(* Seat inventory and seat holds of the sessions of one published event:   *)
(* the tables SessionSeatInventory, SeatHold and InventoryEventOutbox, the *)
(* status of the sessions and of their event, and every request, job and   *)
(* staff operation that changes them.                                      *)
(*                                                                         *)
(* A database transaction is one step: each takes the row locks it needs   *)
(* before the reads it decides on.  What a request reads outside its       *)
(* transaction (an idempotency lookup, a status check, the clock) is a     *)
(* separate, earlier step and is kept, possibly stale, in "pending".       *)
(***************************************************************************)
EXTENDS Naturals, FiniteSets

CONSTANTS
  Users,            \* customers
  Sessions,         \* sessions of the event
  Seats,            \* rows of SessionSeatInventory
  SessionOf,        \* the session of each inventory row
  Holds,            \* identifiers SeatHold rows can take
  NoHold,           \* NULL in SessionSeatInventory.currentHoldId
  Keys,             \* client-chosen idempotency keys
  Requests,         \* slots for requests in flight
  SalesStartAt, SalesEndAt, StartAt,   \* the sales window of each session
  HoldDuration,     \* server-owned time to live of a hold
  MaxSeatsPerHold,  \* ceiling on the seats of one hold
  SweepBatchSize,   \* holds one sweeper transaction claims
  StaffOps,         \* staff operations that are carried out
  MaxLag,           \* how old the time a transaction works with may be
  MaxTime           \* bound on the clock

ASSUME SessionAssumption == SessionOf \in [Seats -> Sessions]
ASSUME NoHoldAssumption  == NoHold \notin Holds
ASSUME WindowAssumption  ==
  /\ SalesStartAt \in [Sessions -> Nat]
  /\ SalesEndAt \in [Sessions -> Nat]
  /\ StartAt \in [Sessions -> Nat]
  /\ \A s \in Sessions : SalesStartAt[s] < SalesEndAt[s] /\ SalesEndAt[s] <= StartAt[s]
ASSUME LimitAssumption ==
  /\ HoldDuration \in Nat \ {0}
  /\ MaxSeatsPerHold \in Nat \ {0}
  /\ SweepBatchSize \in Nat \ {0}
  /\ MaxLag \in Nat
  /\ MaxTime \in Nat

VARIABLES
  clock,    \* server time
  event,    \* status of the event, status it had when archived, whether cancelledAt is set
  session,  \* status of each session
  hold,     \* SeatHold rows, with the inventory rows of their SeatHoldItems
  inv,      \* SessionSeatInventory rows
  outbox,   \* InventoryEventOutbox rows <<eventType, aggregate>>; the pair is the deduplication key
  pending   \* what each request in flight has read and not yet acted on

vars == <<clock, event, session, hold, inv, outbox, pending>>

-----------------------------------------------------------------------------
EventStatus   == {"PUBLISHED", "CANCELLED", "ARCHIVED"}
SessionStatus == {"SCHEDULED", "ON_SALE", "SALES_PAUSED", "CANCELLED"}
TerminalHoldStatus == {"RELEASED", "EXPIRED", "CONVERTED"}

HoldRow == [status : {"ACTIVE"} \cup TerminalHoldStatus, session : Sessions,
            user : Users, key : Keys, seats : SUBSET Seats, expiresAt : Nat]
AbsentHold == [status |-> "ABSENT"]

\* currentHoldId and holdExpiresAt are NULL (NoHold and 0) except in a HELD row.
AvailableRow  == [state |-> "AVAILABLE", hold |-> NoHold, expiresAt |-> 0]
BookedRow     == [state |-> "BOOKED", hold |-> NoHold, expiresAt |-> 0]
HeldRow(h, t) == [state |-> "HELD", hold |-> h, expiresAt |-> t]
InvRow == {[state |-> "AVAILABLE", hold |-> NoHold, expiresAt |-> 0], BookedRow}
          \cup [state : {"HELD"}, hold : Holds, expiresAt : Nat]

Idle == [op |-> "idle"]
AcquireRequest == [op : {"acquire"}, user : Users, session : Sessions,
                   seats : SUBSET Seats, key : Keys, now : Nat]
ReleaseRequest == [op : {"release"}, hold : Holds]
SessionRequest == [op : {"pause", "resume", "cancelSession"}, session : Sessions]
EventRequest   == [op : {"archive", "restore"}, seen : EventStatus]
Request == {Idle} \cup AcquireRequest \cup ReleaseRequest \cup SessionRequest \cup EventRequest

OutboxRow == ({"HOLD_CREATED", "HOLD_RELEASED", "HOLD_EXPIRED", "INVENTORY_BOOKED"} \X Holds)
             \cup ({"SESSION_CANCELLED"} \X Sessions)

TypeOK ==
  /\ clock \in Nat
  /\ event \in [status : EventStatus, preArchive : EventStatus, cancelledAt : BOOLEAN]
  /\ session \in [Sessions -> SessionStatus]
  /\ hold \in [Holds -> HoldRow \cup {AbsentHold}]
  /\ inv \in [Seats -> InvRow]
  /\ outbox \in SUBSET OutboxRow
  /\ pending \in [Requests -> Request]

\* Sessions are published with their inventory materialised, all of it AVAILABLE.
Init ==
  /\ clock = 0
  /\ event = [status |-> "PUBLISHED", preArchive |-> "PUBLISHED", cancelledAt |-> FALSE]
  /\ session \in [Sessions -> {"SCHEDULED", "ON_SALE"}]
  /\ hold = [h \in Holds |-> AbsentHold]
  /\ inv = [s \in Seats |-> AvailableRow]
  /\ outbox = {}
  /\ pending = [r \in Requests |-> Idle]

-----------------------------------------------------------------------------
(* Reads and effects shared by the operations.                             *)

\* A transaction works with the time its request took before it began to wait.
RecentTimes == {t \in 0..clock : clock <= t + MaxLag}

SeatsOf(ss) == {s \in Seats : SessionOf[s] = ss}

Active(h) == hold[h].status = "ACTIVE"

\* Active holds of a session; those that are overdue at time t.
ActiveHolds(ss) == {h \in Holds : Active(h) /\ hold[h].session = ss}
\* Mutant: a hold is not yet overdue at its expiry.
MutantOverdueHolds(ss, t) == {h \in ActiveHolds(ss) : hold[h].expiresAt < t}

OverdueHolds(ss, t) == {h \in ActiveHolds(ss) : hold[h].expiresAt <= t}

\* Mutant: only the event and the window are checked, not the session.
MutantSellable(ss, now) ==
  event.status = "PUBLISHED" /\ SalesStartAt[ss] <= now /\ now < SalesEndAt[ss]

\* evaluateSessionSalesEligibility
Sellable(ss, now) ==
  /\ event.status = "PUBLISHED"
  /\ session[ss] = "ON_SALE"
  /\ now < StartAt[ss]
  /\ now < SalesEndAt[ss]
  /\ SalesStartAt[ss] <= now
  /\ SeatsOf(ss) # {}

\* The holds in H take a terminal status; identity, items and expiry stay.
EndHolds(H, status) ==
  [h \in Holds |-> IF h \in H THEN [hold[h] EXCEPT !.status = status] ELSE hold[h]]

\* The rows that point at a hold in H become AVAILABLE again.
FreeSeats(H) == [s \in Seats |-> IF inv[s].hold \in H THEN AvailableRow ELSE inv[s]]

Announce(type, ids) == {<<type, i>> : i \in ids}

\* Inserting rows whose deduplication key exists aborts the transaction.
Enqueue(rows) == rows \cap outbox = {} /\ outbox' = outbox \cup rows

Finish(r) == pending' = [pending EXCEPT ![r] = Idle]

-----------------------------------------------------------------------------
(* acquireSeatHold                                                         *)

\* The hold an idempotency key of a customer already names in a session.
KeyUsed(ss, u, k) ==
  \E h \in Holds : hold[h] # AbsentHold /\ hold[h].session = ss /\ hold[h].user = u /\ hold[h].key = k

\* The input is parsed, the time is taken and tryIdempotentReplay finds no hold
\* for the key (when it finds one the request ends there and changes nothing).
StartAcquire(r, u, ss, S, k) ==
  /\ pending[r] = Idle
  /\ S # {} /\ Cardinality(S) <= MaxSeatsPerHold
  /\ ~KeyUsed(ss, u, k)
  /\ pending' = [pending EXCEPT ![r] =
       [op |-> "acquire", user |-> u, session |-> ss, seats |-> S, key |-> k, now |-> clock]]
  /\ UNCHANGED <<clock, event, session, hold, inv, outbox>>

\* Mutant: one free seat of the selection is enough.
MutantCanAcquire(q) ==
  LET overdue == OverdueHolds(q.session, q.now) IN
  /\ Sellable(q.session, q.now)
  /\ q.seats \subseteq SeatsOf(q.session)
  /\ \E s \in q.seats : inv[s].state = "AVAILABLE" \/ inv[s].hold \in overdue
  /\ ~KeyUsed(q.session, q.user, q.key)
  /\ \A h \in ActiveHolds(q.session) \ overdue : hold[h].user # q.user
  /\ q.now + HoldDuration > clock

\* Whether the transaction of an acquisition commits: the session is sellable,
\* every seat is a row of the session that is AVAILABLE once the overdue holds
\* are gone, and neither unique index nor the expiry CHECK is violated.
CanAcquire(q) ==
  LET overdue == OverdueHolds(q.session, q.now) IN
  /\ Sellable(q.session, q.now)
  /\ q.seats \subseteq SeatsOf(q.session)
  /\ \A s \in q.seats : inv[s].state = "AVAILABLE" \/ inv[s].hold \in overdue
  /\ ~KeyUsed(q.session, q.user, q.key)
  /\ \A h \in ActiveHolds(q.session) \ overdue : hold[h].user # q.user
  /\ q.now + HoldDuration > clock

\* One transaction: expire the session's overdue holds, claim the seats, create
\* the hold with its items, enqueue the outbox rows.
CommitAcquire(r, h) ==
  LET q == pending[r]
      overdue == OverdueHolds(q.session, q.now)
      expiry == q.now + HoldDuration IN
  /\ q.op = "acquire"
  /\ hold[h] = AbsentHold
  /\ CanAcquire(q)
  /\ hold' = [EndHolds(overdue, "EXPIRED") EXCEPT ![h] =
       [status |-> "ACTIVE", session |-> q.session, user |-> q.user, key |-> q.key,
        seats |-> q.seats, expiresAt |-> expiry]]
  /\ inv' = [s \in Seats |-> IF s \in q.seats THEN HeldRow(h, expiry) ELSE FreeSeats(overdue)[s]]
  /\ Enqueue(Announce("HOLD_EXPIRED", overdue) \cup Announce("HOLD_CREATED", {h}))
  /\ Finish(r)
  /\ UNCHANGED <<clock, event, session>>

(* releaseSeatHold: the status is read before the transaction and guarded  *)
(* again by the conditional update inside it.                              *)
StartRelease(r, u, h) ==
  /\ pending[r] = Idle
  /\ hold[h] # AbsentHold /\ hold[h].user = u
  /\ Active(h)
  /\ pending' = [pending EXCEPT ![r] = [op |-> "release", hold |-> h]]
  /\ UNCHANGED <<clock, event, session, hold, inv, outbox>>

\* Mutant: the update inside the transaction is not guarded by the status.
MutantCommitRelease(r) ==
  LET h == pending[r].hold IN
  /\ pending[r].op = "release"
  /\ hold' = EndHolds({h}, "RELEASED")
  /\ inv' = FreeSeats({h})
  /\ Enqueue(Announce("HOLD_RELEASED", {h}))
  /\ Finish(r)
  /\ UNCHANGED <<clock, event, session>>

CommitRelease(r) ==
  LET h == pending[r].hold IN
  /\ pending[r].op = "release"
  /\ Active(h)
  /\ hold' = EndHolds({h}, "RELEASED")
  /\ inv' = FreeSeats({h})
  /\ Enqueue(Announce("HOLD_RELEASED", {h}))
  /\ Finish(r)
  /\ UNCHANGED <<clock, event, session>>

\* A request ends without effect: its transaction is refused, rolled back or out
\* of deadlock retries, its conditional update matches no row, or its process dies.
Abandon(r) ==
  /\ pending[r] # Idle
  /\ Finish(r)
  /\ UNCHANGED <<clock, event, session, hold, inv, outbox>>

-----------------------------------------------------------------------------
(* Expiry.                                                                 *)

\* Mutant: the expiry is not announced.
MutantReleaseExpired(SS, now) ==
  LET overdue == UNION {OverdueHolds(ss, now) : ss \in SS} IN
  /\ hold' = EndHolds(overdue, "EXPIRED")
  /\ inv' = FreeSeats(overdue)
  /\ UNCHANGED <<clock, event, session, outbox, pending>>

\* releaseExpiredHoldsForSession, for the sessions in SS, in a caller's transaction.
ReleaseExpired(SS, now) ==
  LET overdue == UNION {OverdueHolds(ss, now) : ss \in SS} IN
  /\ hold' = EndHolds(overdue, "EXPIRED")
  /\ inv' = FreeSeats(overdue)
  /\ Enqueue(Announce("HOLD_EXPIRED", overdue))
  /\ UNCHANGED <<clock, event, session, pending>>

\* Mutant: the sweeper leaves the holds that are due this very moment.
MutantSweepExpiredHolds(B) ==
  /\ B # {} /\ Cardinality(B) <= SweepBatchSize
  /\ \A h \in B : Active(h) /\ hold[h].expiresAt < clock
  /\ hold' = EndHolds(B, "EXPIRED")
  /\ inv' = FreeSeats(B)
  /\ Enqueue(Announce("HOLD_EXPIRED", B))
  /\ UNCHANGED <<clock, event, session, pending>>

\* One batch of sweepExpiredHolds.  Rows locked elsewhere are skipped and the
\* sweeper's clock may be old, so a batch is any few of the overdue holds.
SweepExpiredHolds(B) ==
  /\ B # {} /\ Cardinality(B) <= SweepBatchSize
  /\ \A h \in B : Active(h) /\ hold[h].expiresAt <= clock
  /\ hold' = EndHolds(B, "EXPIRED")
  /\ inv' = FreeSeats(B)
  /\ Enqueue(Announce("HOLD_EXPIRED", B))
  /\ UNCHANGED <<clock, event, session, pending>>

-----------------------------------------------------------------------------
(* Fulfilment of a paid order, as far as inventory and holds are concerned *)
(* (decidePaidFulfillment, snapshotsMatch, HELD -> BOOKED, CONVERTED).     *)

CanConvert(h, now) ==
  /\ Active(h) /\ now < hold[h].expiresAt
  /\ event.status = "PUBLISHED"
  /\ session[hold[h].session] # "CANCELLED"
  /\ hold[h].seats # {}
  /\ \A s \in hold[h].seats : inv[s] = HeldRow(h, hold[h].expiresAt)

ConvertHold(h, now) ==
  /\ CanConvert(h, now)
  /\ hold' = EndHolds({h}, "CONVERTED")
  /\ inv' = [s \in Seats |-> IF s \in hold[h].seats THEN BookedRow ELSE inv[s]]
  /\ Enqueue(Announce("INVENTORY_BOOKED", {h}))
  /\ UNCHANGED <<clock, event, session, pending>>

-----------------------------------------------------------------------------
(* Staff operations on sessions and on the event.  Pause, resume, archive  *)
(* and restore check the status in one statement and write in another; the *)
(* lifecycle CHECKs are all that refuses a write on a stale check.         *)

ManageableEvent == event.status = "PUBLISHED"

StartSessionOp(r, op, ss) ==
  /\ op \in StaffOps
  /\ pending[r] = Idle
  /\ ManageableEvent
  /\ \/ op = "pause" /\ session[ss] = "ON_SALE"
     \/ op = "resume" /\ session[ss] \in {"SCHEDULED", "SALES_PAUSED"}
                      /\ SalesStartAt[ss] <= clock /\ clock < SalesEndAt[ss]
     \/ op = "cancelSession" /\ session[ss] # "CANCELLED"
  /\ pending' = [pending EXCEPT ![r] = [op |-> op, session |-> ss]]
  /\ UNCHANGED <<clock, event, session, hold, inv, outbox>>

\* Mutant: the lifecycle CHECK is missing.
MutantSessionWriteAllowed(ss, status) == TRUE

\* EventSession_lifecycle_check: only CANCELLED goes with a cancelledAt, which
\* nothing clears.
SessionWriteAllowed(ss, status) == session[ss] = "CANCELLED" => status = "CANCELLED"

CommitPauseOrResume(r) ==
  LET ss == pending[r].session
      status == IF pending[r].op = "pause" THEN "SALES_PAUSED" ELSE "ON_SALE" IN
  /\ pending[r].op \in {"pause", "resume"}
  /\ SessionWriteAllowed(ss, status)
  /\ session' = [session EXCEPT ![ss] = status]
  /\ Finish(r)
  /\ UNCHANGED <<clock, event, hold, inv, outbox>>

\* Mutant: the seats of the released holds are not freed.
MutantEndSessions(SS) ==
  LET H == UNION {ActiveHolds(ss) : ss \in SS} IN
  /\ session' = [ss \in Sessions |-> IF ss \in SS THEN "CANCELLED" ELSE session[ss]]
  /\ hold' = EndHolds(H, "RELEASED")
  /\ inv' = inv
  /\ Enqueue(Announce("SESSION_CANCELLED", SS))

\* The sessions SS end, their active holds are released and their seats freed.
EndSessions(SS) ==
  LET H == UNION {ActiveHolds(ss) : ss \in SS} IN
  /\ session' = [ss \in Sessions |-> IF ss \in SS THEN "CANCELLED" ELSE session[ss]]
  /\ hold' = EndHolds(H, "RELEASED")
  /\ inv' = FreeSeats(H)
  /\ Enqueue(Announce("SESSION_CANCELLED", SS))

CommitCancelSession(r) ==
  /\ pending[r].op = "cancelSession"
  /\ EndSessions({pending[r].session})
  /\ Finish(r)
  /\ UNCHANGED <<clock, event>>

\* cancelEvent reads and writes in one serializable transaction.
CancelEvent ==
  /\ "cancelEvent" \in StaffOps
  /\ event.status = "PUBLISHED"
  /\ EndSessions({ss \in Sessions : session[ss] # "CANCELLED"})
  /\ event' = [event EXCEPT !.status = "CANCELLED", !.cancelledAt = TRUE]
  /\ UNCHANGED <<clock, pending>>

StartArchiveEvent(r) ==
  /\ "archive" \in StaffOps
  /\ pending[r] = Idle
  /\ event.status # "ARCHIVED"
  /\ pending' = [pending EXCEPT ![r] = [op |-> "archive", seen |-> event.status]]
  /\ UNCHANGED <<clock, event, session, hold, inv, outbox>>

StartRestoreEvent(r) ==
  /\ "restore" \in StaffOps
  /\ pending[r] = Idle
  /\ event.status = "ARCHIVED" /\ event.preArchive = "PUBLISHED"
  /\ pending' = [pending EXCEPT ![r] = [op |-> "restore", seen |-> event.preArchive]]
  /\ UNCHANGED <<clock, event, session, hold, inv, outbox>>

\* Event_lifecycle_check: PUBLISHED, now or before an archival, goes with no
\* cancelledAt; CANCELLED goes with one.
EventWriteAllowed(seen) == seen = "CANCELLED" <=> event.cancelledAt

CommitArchiveOrRestore(r) ==
  LET seen == pending[r].seen IN
  /\ pending[r].op \in {"archive", "restore"}
  /\ EventWriteAllowed(seen)
  /\ event' = IF pending[r].op = "archive"
              THEN [event EXCEPT !.status = "ARCHIVED", !.preArchive = seen]
              ELSE [event EXCEPT !.status = seen]
  /\ Finish(r)
  /\ UNCHANGED <<clock, session, hold, inv, outbox>>

-----------------------------------------------------------------------------
Tick ==
  /\ clock < MaxTime
  /\ clock' = clock + 1
  /\ UNCHANGED <<event, session, hold, inv, outbox, pending>>

\* Everything but the two effects that the payment side drives.
HoldStep ==
  \/ \E r \in Requests, u \in Users, ss \in Sessions, S \in SUBSET Seats, k \in Keys :
       StartAcquire(r, u, ss, S, k)
  \/ \E r \in Requests, h \in Holds : CommitAcquire(r, h)
  \/ \E r \in Requests, u \in Users, h \in Holds : StartRelease(r, u, h)
  \/ \E r \in Requests : CommitRelease(r)
  \/ \E r \in Requests : Abandon(r)
  \/ \E B \in SUBSET Holds : SweepExpiredHolds(B)
  \/ \E r \in Requests, op \in {"pause", "resume", "cancelSession"}, ss \in Sessions :
       StartSessionOp(r, op, ss)
  \/ \E r \in Requests : CommitPauseOrResume(r)
  \/ \E r \in Requests : CommitCancelSession(r)
  \/ CancelEvent
  \/ \E r \in Requests : StartArchiveEvent(r)
  \/ \E r \in Requests : StartRestoreEvent(r)
  \/ \E r \in Requests : CommitArchiveOrRestore(r)
  \/ Tick

Next ==
  \/ HoldStep
  \/ \E SS \in SUBSET Sessions, now \in RecentTimes : ReleaseExpired(SS, now)
  \/ \E h \in Holds, now \in RecentTimes : ConvertHold(h, now)

Spec == Init /\ [][Next]_vars

-----------------------------------------------------------------------------
(* Properties.                                                             *)

\* A hold is all or nothing for its whole life: while it is ACTIVE every seat
\* it was created for is a row of its session and HELD by it, with its expiry
\* (acquireSeatHold against release, expiry, cancellation and fulfilment).
HoldOwnsItsSeats ==
  \A h \in Holds : Active(h) =>
    \A s \in hold[h].seats : SessionOf[s] = hold[h].session /\ inv[s] = HeldRow(h, hold[h].expiresAt)

\* No seat is trapped: a HELD row points at an ACTIVE hold that has it as an item,
\* so whatever ends the hold frees the seat.
HeldSeatHasLiveHold ==
  \A s \in Seats : inv[s].state = "HELD" =>
    \E h \in Holds : inv[s].hold = h /\ Active(h) /\ s \in hold[h].seats

\* A seat is sold once: at most one hold that is ACTIVE or CONVERTED has it, and
\* it is BOOKED exactly when that hold is CONVERTED.
Claims(h, s) == hold[h].status \in {"ACTIVE", "CONVERTED"} /\ s \in hold[h].seats

SoldOnce ==
  \A s \in Seats :
    /\ \A g, h \in Holds : Claims(g, s) /\ Claims(h, s) => g = h
    /\ inv[s].state = "BOOKED" <=> \E h \in Holds : Claims(h, s) /\ hold[h].status = "CONVERTED"

\* A customer never has two ACTIVE holds in one session, and no hold is ACTIVE
\* in a cancelled session (cancelEventSession and cancelEvent against
\* acquisitions that read the session before).
ActiveHoldsAreLegal ==
  \A g, h \in Holds : Active(g) =>
    /\ session[hold[g].session] # "CANCELLED"
    /\ Active(h) /\ hold[g].user = hold[h].user /\ hold[g].session = hold[h].session => g = h

\* An overdue hold is never in the way of another customer, even if no sweeper
\* runs: an acquisition whose seats are free or under holds overdue at its own
\* time is not refused because of them.
OverdueHoldsDoNotBlock ==
  \A r \in Requests : pending[r].op = "acquire" =>
    LET q == pending[r] IN
    (/\ Sellable(q.session, q.now)
     /\ q.seats \subseteq SeatsOf(q.session)
     /\ \A s \in q.seats : inv[s].state # "BOOKED" /\ inv[s].expiresAt <= q.now
     /\ ~KeyUsed(q.session, q.user, q.key)
     /\ \A h \in Holds : Active(h) /\ hold[h].user = q.user => hold[h].expiresAt <= q.now
     /\ q.now + HoldDuration > clock)
    => CanAcquire(q)

\* The outbox tells the whole story of every hold, for the dispatcher to pass on: its
\* creation, and how it ended, which a session's cancellation tells for its holds.
Told(type, h) == <<type, h>> \in outbox
CancellationTold(h) == <<"SESSION_CANCELLED", hold[h].session>> \in outbox

ExitAnnouncedOnce ==
  \A h \in Holds :
    /\ Told("HOLD_CREATED", h) <=> hold[h].status # "ABSENT"
    /\ Told("HOLD_EXPIRED", h) <=> hold[h].status = "EXPIRED"
    /\ Told("INVENTORY_BOOKED", h) <=> hold[h].status = "CONVERTED"
    /\ Told("HOLD_RELEASED", h) => hold[h].status = "RELEASED"
    /\ hold[h].status = "RELEASED" =>
         Told("HOLD_RELEASED", h) \/ CancellationTold(h)

\* Terminal is terminal: a cancelled session or event, a BOOKED seat and an
\* ended hold keep that status whatever a request decided on an earlier read.
TerminalStep ==
  /\ \A ss \in Sessions : session[ss] = "CANCELLED" => session'[ss] = "CANCELLED"
  /\ event.cancelledAt => event'.status # "PUBLISHED"
  /\ \A s \in Seats : inv[s].state = "BOOKED" => inv'[s] = inv[s]
  /\ \A h \in Holds : hold[h] # AbsentHold /\ ~Active(h) => hold'[h] = hold[h]
TerminalIsForever == [][TerminalStep]_vars

\* Every hold due within the modelled time ends (swept, if nothing ended it before).
HoldsEnd ==
  \A h \in Holds : (Active(h) /\ hold[h].expiresAt <= MaxTime) ~> ~Active(h)

\* The seat map a customer is shown, read off the tables: the state of the row
\* and the customers whose ACTIVE or CONVERTED holds have the seat.
SeatView ==
  [s \in Seats |-> [state |-> inv[s].state,
                    by |-> {hold[h].user : h \in {g \in Holds : Claims(g, s)}}]]

Allocation == INSTANCE SeatAllocation WITH seat <- SeatView

\* The tables implement the abstract allocation of seats.
ImplementsAllocation == Allocation!Spec
=============================================================================
