------------------------------- MODULE Tickets -------------------------------
(***************************************************************************)
(* The tickets of one booking: issuance after payment, credentials, scans  *)
(* at the door, rotation and revocation by staff, and revocation by the    *)
(* settlement of a refund.                                                 *)
(*                                                                         *)
(* The operations take row locks in different orders: a scan the           *)
(* credential first and then the ticket, staff the ticket first, the       *)
(* settlement the credentials without reading them under a lock, issuance  *)
(* neither.  So a transaction is a step for each lock it may wait for, and *)
(* its writes appear with the last one.  A credential goes by its ticket's *)
(* seat and its version; the bytes shown at the door are a keyed hash of   *)
(* both, so they name one credential.                                      *)
(***************************************************************************)
EXTENDS Integers, FiniteSets, FiniteSetsExt

CONSTANTS
  BookedSeats,    \* BookingSeats of the booking
  Scans,          \* scan requests, each with its own idempotency key
  Issuers,        \* processes that issue tickets
  MaxVersion,     \* bound: versions of a credential
  MaximumAttempts, BackoffBase, BackoffMaximum,
  OpensAt, ClosesAt, \* the entry window around the session
  MaxTime         \* bound: the clock

ASSUME TicketConstants ==
  /\ MaxVersion \in Nat \ {0} /\ MaximumAttempts \in Nat \ {0}
  /\ BackoffBase \in Nat \ {0} /\ BackoffMaximum \in Nat
  /\ OpensAt \in Nat /\ ClosesAt \in Nat /\ MaxTime \in Nat

VARIABLES
  bookingStatus,    \* Booking.status
  refundedSeats,    \* seats of succeeded refunds
  sessionStatus,    \* EventSession.status
  request,          \* TicketIssuanceRequest
  issuer,           \* what each issuing process has in hand
  ticketStatus,     \* Ticket.status of each seat
  credential,       \* TicketCredential.status of each version
  redemption,       \* TicketRedemptionEvent of each scan
  scan,             \* scans that have locked a credential
  staff,            \* the rotation or revocation in flight
  settling,         \* the settlement of a refund in flight
  notices,          \* deduplication keys of NotificationOutbox
  audit,            \* TicketAuditEvent
  time

ticketRows == <<bookingStatus, refundedSeats, ticketStatus, credential, redemption, notices, audit>>
ticketVars == <<ticketRows, sessionStatus, request, issuer, scan, staff, settling, time>>

-----------------------------------------------------------------------------
Versions == 1..MaxVersion
EntryOutcomes == {"ACCEPTED", "ALREADY_USED", "REVOKED", "INVALID", "WRONG_SESSION",
                  "TOO_EARLY", "TOO_LATE", "SESSION_CANCELLED", "UNAUTHORIZED_SCANNER"}
NotScanned == [outcome |-> "NONE"]
NoScan     == [phase |-> "idle"]
NoStaff    == [phase |-> "idle"]
NoSettle   == [phase |-> "idle"]
NoIssue    == [phase |-> "idle"]

Active(s) == {v \in Versions : credential[s][v] = "ACTIVE"}

TicketsTypeOK ==
  /\ bookingStatus \in {"CONFIRMED", "REFUNDED"}
  /\ refundedSeats \subseteq BookedSeats
  /\ sessionStatus \in {"PUBLISHED", "CANCELLED"}
  /\ request \in [status : {"PENDING", "COMPLETED", "DEAD_LETTER"}, attemptCount : 0..MaximumAttempts,
                  availableAt : Nat]
  /\ \A w \in Issuers : issuer[w].phase \in {"idle", "issuing", "failed"}
  /\ ticketStatus \in [BookedSeats -> {"NONE", "ACTIVE", "REVOKED", "USED"}]
  /\ credential \in [BookedSeats -> [Versions -> {"NONE", "ACTIVE", "REVOKED", "REPLACED", "USED"}]]
  /\ \A k \in Scans : redemption[k].outcome \in EntryOutcomes \cup {"NONE"}
  /\ \A k \in Scans : scan[k].phase \in {"idle", "locked"}
  /\ staff.phase \in {"idle", "ticket", "both"}
  /\ settling.phase \in {"idle", "read", "waiting", "revoking"}
  /\ time \in 0..MaxTime

\* Row locks held by the transactions in flight.
CredentialLocked(s, v) ==
  \/ \E k \in Scans : scan[k] # NoScan /\ scan[k].seat = s /\ scan[k].version = v
  \/ staff.phase = "both" /\ <<staff.seat, staff.version>> = <<s, v>>
  \/ settling.phase = "revoking" /\ <<s, v>> \in settling.credentials
TicketLocked(s) == staff.phase \in {"ticket", "both"} /\ staff.seat = s
RequestLocked == \E w \in Issuers : issuer[w].phase = "issuing"

\* Ticket_protect_history: a terminal ticket keeps its status.
TriggerAllows(S) == \A s \in S : ticketStatus[s] = "ACTIVE"

-----------------------------------------------------------------------------
(* Issuance *)

\* What issueBookingTicketsInTransaction creates, and its final count of the
\* active credentials.
MissingTickets == {s \in BookedSeats : ticketStatus[s] = "NONE"}
Unarmed == {s \in BookedSeats : Active(s) = {} /\ ticketStatus[s] \in {"NONE", "ACTIVE"}}
NextVersion(s) == 1 + Max({0} \cup {v \in Versions : credential[s][v] # "NONE"})
IssuanceIsComplete ==
  Cardinality(Unarmed) + Cardinality({s \in BookedSeats : Active(s) # {}}) = Cardinality(BookedSeats)
CanIssue == bookingStatus = "CONFIRMED" /\ IssuanceIsComplete

\* The transaction has locked the request and done its inserts; Ticket_enforce_ancestry
\* has seen a confirmed booking.  An immediate attempt ignores availableAt and records
\* no failure.
ClaimRequest(w, immediate) ==
  /\ issuer[w] = NoIssue /\ ~RequestLocked
  /\ request.status = "PENDING" /\ (immediate \/ request.availableAt <= time)
  /\ \A s \in Unarmed : NextVersion(s) <= MaxVersion
  /\ issuer' = [issuer EXCEPT ![w] =
       IF CanIssue THEN [phase |-> "issuing", immediate |-> immediate, now |-> time,
                         creates |-> MissingTickets, arms |-> Unarmed]
       ELSE IF immediate THEN NoIssue ELSE [phase |-> "failed", now |-> time]]
  /\ UNCHANGED <<ticketRows, sessionStatus, request, scan, staff, settling, time>>

\* A mutant: the new credential is not stored.
UnarmedStill(w, s) == credential[s]
Armed(w, s) == IF s \in issuer[w].arms THEN [credential[s] EXCEPT ![NextVersion(s)] = "ACTIVE"] ELSE credential[s]

CommitIssue(w) ==
  /\ issuer[w].phase = "issuing"
  /\ ticketStatus' = [s \in BookedSeats |-> IF s \in issuer[w].creates THEN "ACTIVE" ELSE ticketStatus[s]]
  /\ credential' = [s \in BookedSeats |-> Armed(w, s)]
  /\ request' = [request EXCEPT !.status = "COMPLETED"]
  /\ notices' = notices \cup {<<"BOOKING_TICKETS_READY", "booking", 1>>}
  /\ audit' = audit \cup {<<"ISSUED", s, 1>> : s \in issuer[w].creates}
  /\ issuer' = [issuer EXCEPT ![w] = NoIssue]
  /\ UNCHANGED <<bookingStatus, refundedSeats, redemption, sessionStatus, scan, staff, settling, time>>

\* The transaction is rolled back: a time-out, a lost connection, a conflict.
AbortIssue(w) ==
  /\ issuer[w].phase = "issuing"
  /\ issuer' = [issuer EXCEPT ![w] = IF @.immediate THEN NoIssue ELSE [phase |-> "failed", now |-> @.now]]
  /\ UNCHANGED <<ticketRows, sessionStatus, request, scan, staff, settling, time>>

\* The powers of two up to the largest exponent below; the provers have no theory of
\* exponentiation, so this finite fact is left to TLC.
ASSUME PowersOfTwo == \A n \in 0..30 : 2^n \in Nat

calculateBackoff(attempt) == Min({BackoffMaximum, BackoffBase * 2^Min({attempt - 1, 30})})

\* The second transaction of a failed attempt.  Another process may have completed,
\* failed or requeued the request in between.
StillDue(w) == request.status = "PENDING" /\ request.availableAt <= issuer[w].now

RecordFailure(w) ==
  /\ issuer[w].phase = "failed" /\ ~RequestLocked
  /\ issuer' = [issuer EXCEPT ![w] = NoIssue]
  /\ LET attempt == request.attemptCount + 1 IN
       request' = IF ~StillDue(w) THEN request
                  ELSE [status |-> IF attempt >= MaximumAttempts THEN "DEAD_LETTER" ELSE "PENDING",
                        attemptCount |-> attempt, availableAt |-> issuer[w].now + calculateBackoff(attempt)]
  /\ UNCHANGED <<ticketRows, sessionStatus, scan, staff, settling, time>>

RetryDeadLetter ==
  /\ request.status = "DEAD_LETTER"
  /\ request' = [status |-> "PENDING", attemptCount |-> 0, availableAt |-> time]
  /\ UNCHANGED <<ticketRows, sessionStatus, issuer, scan, staff, settling, time>>

-----------------------------------------------------------------------------
(* Entry *)

\* A scanner without a role at the session, or bytes that name no credential.
RejectScan(k, outcome) ==
  /\ scan[k] = NoScan /\ redemption[k] = NotScanned
  /\ redemption' = [redemption EXCEPT ![k] = [outcome |-> outcome]]
  /\ UNCHANGED <<bookingStatus, refundedSeats, ticketStatus, credential, notices, audit, sessionStatus,
                 request, issuer, scan, staff, settling, time>>

\* No event has the request's key yet (otherwise its outcome is the answer).  The time is
\* that of the transaction's start, before it waited for the credential.
LockCredential(k, s, v, here, now) ==
  /\ scan[k] = NoScan /\ redemption[k] = NotScanned
  /\ credential[s][v] # "NONE" /\ ~CredentialLocked(s, v)
  /\ scan' = [scan EXCEPT ![k] = [phase |-> "locked", seat |-> s, version |-> v, here |-> here, now |-> now]]
  /\ UNCHANGED <<ticketRows, sessionStatus, request, issuer, staff, settling, time>>

decideEntryWindow(now) ==
  IF sessionStatus = "CANCELLED" THEN "SESSION_CANCELLED"
  ELSE IF now < OpensAt THEN "TOO_EARLY"
  ELSE IF now > ClosesAt THEN "TOO_LATE" ELSE "ACCEPTED"

\* A mutant: the status of a replaced credential is not looked at.
OutcomeByTicket(s, v, here, now) ==
  IF ~here THEN "WRONG_SESSION"
  ELSE IF credential[s][v] = "USED" \/ ticketStatus[s] = "USED" THEN "ALREADY_USED"
  ELSE IF ticketStatus[s] = "REVOKED" \/ bookingStatus # "CONFIRMED" THEN "REVOKED"
  ELSE decideEntryWindow(now)
ScanOutcome(s, v, here, now) ==
  IF ~here THEN "WRONG_SESSION"
  ELSE IF credential[s][v] = "USED" \/ ticketStatus[s] = "USED" THEN "ALREADY_USED"
  ELSE IF credential[s][v] \in {"REVOKED", "REPLACED"} \/ ticketStatus[s] = "REVOKED" THEN "REVOKED"
  ELSE IF bookingStatus # "CONFIRMED" THEN "REVOKED"
  ELSE decideEntryWindow(now)

\* A mutant: entry marks only the credential.
StatusBefore(s, outcome) == ticketStatus[s]
StatusAfter(s, outcome) == IF outcome = "ACCEPTED" THEN "USED" ELSE ticketStatus[s]

\* The ticket is locked and read; TicketRedemptionEvent_first_success_per_ticket_key lets
\* one accepted event of a ticket through.
CommitScan(k) ==
  LET s == scan[k].seat  v == scan[k].version  outcome == ScanOutcome(s, v, scan[k].here, scan[k].now) IN
  /\ scan[k].phase = "locked" /\ ~TicketLocked(s)
  /\ outcome = "ACCEPTED" =>
       \A j \in Scans : redemption[j].outcome = "ACCEPTED" => redemption[j].seat # s
  /\ redemption' = [redemption EXCEPT ![k] = [outcome |-> outcome, seat |-> s, version |-> v]]
  /\ credential' = [credential EXCEPT ![s][v] = IF outcome = "ACCEPTED" THEN "USED" ELSE @]
  /\ ticketStatus' = [ticketStatus EXCEPT ![s] = StatusAfter(s, outcome)]
  /\ scan' = [scan EXCEPT ![k] = NoScan]
  /\ UNCHANGED <<bookingStatus, refundedSeats, notices, audit, sessionStatus, request, issuer,
                 staff, settling, time>>

\* A deadlock victim, a time-out or a dead process; the scanner may ask again.
AbortScan(k) ==
  /\ scan[k].phase = "locked"
  /\ scan' = [scan EXCEPT ![k] = NoScan]
  /\ UNCHANGED <<ticketRows, sessionStatus, request, issuer, staff, settling, time>>

-----------------------------------------------------------------------------
(* Management by an administrator of the organization *)

\* The ticket is locked, its status checked and its active credential read.
\* version 0: there is none.
StartStaff(op, s) ==
  /\ staff = NoStaff /\ ~TicketLocked(s)
  /\ ticketStatus[s] = "ACTIVE"
  /\ op = "ROTATE" => Active(s) # {}
  /\ staff' = [phase |-> "ticket", op |-> op, seat |-> s, version |-> Max({0} \cup Active(s))]
  /\ UNCHANGED <<ticketRows, sessionStatus, request, issuer, scan, settling, time>>

StaffLocksCredential ==
  /\ staff.phase = "ticket" /\ staff.version # 0 /\ ~CredentialLocked(staff.seat, staff.version)
  /\ staff' = [staff EXCEPT !.phase = "both"]
  /\ UNCHANGED <<ticketRows, sessionStatus, request, issuer, scan, settling, time>>

CommitRotate ==
  LET s == staff.seat  v == staff.version IN
  /\ staff.phase = "both" /\ staff.op = "ROTATE" /\ v < MaxVersion
  /\ credential' = [credential EXCEPT ![s][v] = "REPLACED", ![s][v + 1] = "ACTIVE"]
  /\ notices' = notices \cup {<<"CREDENTIAL_ROTATED", s, v + 1>>}
  /\ audit' = audit \cup {<<"CREDENTIAL_ROTATED", s, v + 1>>}
  /\ staff' = NoStaff
  /\ UNCHANGED <<bookingStatus, refundedSeats, ticketStatus, redemption, sessionStatus, request, issuer,
                 scan, settling, time>>

CommitRevoke ==
  LET s == staff.seat  v == staff.version IN
  /\ staff # NoStaff /\ staff.op = "REVOKE" /\ (staff.phase = "both" \/ v = 0)
  /\ TriggerAllows({s})
  /\ credential' = [credential EXCEPT ![s] = [u \in Versions |-> IF u = v THEN "REVOKED" ELSE @[u]]]
  /\ ticketStatus' = [ticketStatus EXCEPT ![s] = "REVOKED"]
  /\ notices' = notices \cup {<<"TICKET_REVOKED", s, 1>>}
  /\ audit' = audit \cup {<<"REVOKED", s, 1>>}
  /\ staff' = NoStaff
  /\ UNCHANGED <<bookingStatus, refundedSeats, redemption, sessionStatus, request, issuer, scan, settling, time>>

AbortStaff ==
  /\ staff # NoStaff
  /\ staff' = NoStaff
  /\ UNCHANGED <<ticketRows, sessionStatus, request, issuer, scan, settling, time>>

-----------------------------------------------------------------------------
(* Settlement of a refund: applyTicketConsequences, maybeMarkBookingFullyRefunded *)

\* The statuses of the tickets are read without a lock.
StartSettle(S) ==
  /\ settling = NoSettle /\ bookingStatus = "CONFIRMED" /\ S \cap refundedSeats = {}
  /\ settling' = [phase |-> "read", seats |-> S, tickets |-> {s \in S : ticketStatus[s] = "ACTIVE"},
                  credentials |-> {}]
  /\ UNCHANGED <<ticketRows, sessionStatus, request, issuer, scan, staff, time>>

\* The UPDATE of the credentials sees those that are active when it begins.  Where one
\* is locked it waits and then leaves out the ones that are no longer active.
SettleCredentials ==
  LET seen == {sv \in settling.tickets \X Versions : credential[sv[1]][sv[2]] = "ACTIVE"} IN
  /\ settling.phase = "read"
  /\ settling' = [settling EXCEPT !.credentials = seen,
       !.phase = IF \E sv \in seen : CredentialLocked(sv[1], sv[2]) THEN "waiting" ELSE "revoking"]
  /\ UNCHANGED <<ticketRows, sessionStatus, request, issuer, scan, staff, time>>

SettleAfterWait ==
  /\ settling.phase = "waiting"
  /\ \A sv \in settling.credentials : ~CredentialLocked(sv[1], sv[2])
  /\ settling' = [settling EXCEPT !.phase = "revoking",
       !.credentials = {sv \in @ : credential[sv[1]][sv[2]] = "ACTIVE"}]
  /\ UNCHANGED <<ticketRows, sessionStatus, request, issuer, scan, staff, time>>

CommitSettle ==
  LET S == settling.tickets IN
  /\ settling.phase = "revoking"
  /\ \A s \in S : ~TicketLocked(s)
  /\ TriggerAllows(S)
  /\ credential' = [s \in BookedSeats |-> [v \in Versions |->
       IF <<s, v>> \in settling.credentials THEN "REVOKED" ELSE credential[s][v]]]
  /\ ticketStatus' = [s \in BookedSeats |-> IF s \in S THEN "REVOKED" ELSE ticketStatus[s]]
  /\ audit' = audit \cup {<<"REVOKED", s, 1>> : s \in S}
  /\ refundedSeats' = refundedSeats \cup settling.seats
  /\ bookingStatus' = IF refundedSeats' = BookedSeats THEN "REFUNDED" ELSE bookingStatus
  /\ settling' = NoSettle
  /\ UNCHANGED <<redemption, notices, sessionStatus, request, issuer, scan, staff, time>>

\* A rollback, by the trigger among others; the provider delivers the event again.
AbortSettle ==
  /\ settling # NoSettle
  /\ settling' = NoSettle
  /\ UNCHANGED <<ticketRows, sessionStatus, request, issuer, scan, staff, time>>

-----------------------------------------------------------------------------
\* cancelEventSession, as far as the entry window looks at it.
CancelSessionOfTickets ==
  /\ sessionStatus = "PUBLISHED"
  /\ sessionStatus' = "CANCELLED"
  /\ UNCHANGED <<ticketRows, request, issuer, scan, staff, settling, time>>

TicketTime ==
  /\ time < MaxTime
  /\ time' = time + 1
  /\ UNCHANGED <<ticketRows, sessionStatus, request, issuer, scan, staff, settling>>

\* A booking made after the migration, or one that it gave tickets and no credentials.
TicketsInit ==
  /\ bookingStatus = "CONFIRMED" /\ refundedSeats = {} /\ sessionStatus = "PUBLISHED"
  /\ request = [status |-> "PENDING", attemptCount |-> 0, availableAt |-> 0]
  /\ issuer = [w \in Issuers |-> NoIssue]
  /\ \E backfilled \in BOOLEAN : ticketStatus = [s \in BookedSeats |-> IF backfilled THEN "ACTIVE" ELSE "NONE"]
  /\ credential = [s \in BookedSeats |-> [v \in Versions |-> "NONE"]]
  /\ redemption = [k \in Scans |-> NotScanned] /\ scan = [k \in Scans |-> NoScan]
  /\ staff = NoStaff /\ settling = NoSettle
  /\ notices = {} /\ audit = {} /\ time = 0

Issue(w) ==
  \/ \E immediate \in BOOLEAN : ClaimRequest(w, immediate)
  \/ CommitIssue(w) \/ AbortIssue(w) \/ RecordFailure(w)

ScanTicket(k) ==
  \/ \E outcome \in {"INVALID", "UNAUTHORIZED_SCANNER"} : RejectScan(k, outcome)
  \/ \E s \in BookedSeats, v \in Versions, here \in BOOLEAN, now \in 0..time :
       LockCredential(k, s, v, here, now)
  \/ CommitScan(k) \/ AbortScan(k)

Manage ==
  \/ \E op \in {"ROTATE", "REVOKE"}, s \in BookedSeats : StartStaff(op, s)
  \/ StaffLocksCredential \/ CommitRotate \/ CommitRevoke \/ AbortStaff

Settle ==
  \/ \E S \in SUBSET BookedSeats \ {{}} : StartSettle(S)
  \/ SettleCredentials \/ SettleAfterWait \/ CommitSettle \/ AbortSettle

TicketsNext ==
  \/ \E w \in Issuers : Issue(w)
  \/ RetryDeadLetter
  \/ \E k \in Scans : ScanTicket(k)
  \/ Manage \/ Settle \/ CancelSessionOfTickets \/ TicketTime

TicketsSpec == TicketsInit /\ [][TicketsNext]_ticketVars

-----------------------------------------------------------------------------
\* A ticket is used exactly when one scan of it was accepted, and then no credential of
\* it is active: a second scan, a rotation in flight or a refund does not open the door
\* again (validateTicketEntry against rotateTicketCredential and applyTicketConsequences).
AdmittedOnce ==
  \A s \in BookedSeats :
    LET accepted == {k \in Scans : redemption[k].outcome = "ACCEPTED" /\ redemption[k].seat = s} IN
    /\ Cardinality(accepted) = (IF ticketStatus[s] = "USED" THEN 1 ELSE 0)
    /\ ticketStatus[s] = "USED" => Active(s) = {}

\* Only the newest credential of a ticket admits: one that was replaced while its scan
\* waited for the ticket does not (validateTicketEntry, rotateTicketCredential).
OnlyNewestCredentialAdmits ==
  [][\A k \in Scans :
       redemption[k] = NotScanned /\ redemption'[k].outcome = "ACCEPTED" =>
         LET s == redemption'[k].seat IN
         \A v \in Versions : credential[s][v] # "NONE" => v <= redemption'[k].version]_ticketVars

\* When issuance is complete every seat has its ticket, every ticket that is good for
\* entry has exactly one credential, and the owner is told (issueBookingTicketsInTransaction).
CompletedIssuanceIsWhole ==
  /\ request.status = "COMPLETED" <=> <<"BOOKING_TICKETS_READY", "booking", 1>> \in notices
  /\ request.status = "COMPLETED" =>
       \A s \in BookedSeats :
         /\ ticketStatus[s] # "NONE"
         /\ ticketStatus[s] = "ACTIVE" => Cardinality(Active(s)) = 1

\* The door as its visitors see it: a seat's pass answers to its active credential, and
\* once used to the one that was accepted; a revoked one to none.
Pass(s) ==
  [ticket |-> ticketStatus[s],
   keys   |-> CASE ticketStatus[s] = "ACTIVE" -> Active(s)
                [] ticketStatus[s] = "USED" -> {redemption[k].version : k \in
                     {j \in Scans : redemption[j].outcome = "ACCEPTED" /\ redemption[j].seat = s}}
                [] OTHER -> {}]
PassView == [s \in BookedSeats |-> Pass(s)]
Passes == INSTANCE Admission WITH Seats <- BookedSeats, Keys <- Versions, pass <- PassView

\* Whatever order issuers, scans, staff and settlements take their locks in, what they
\* commit is a sequence of whole steps on the passes: all are handed out together, a pass
\* has one key at a time and opens once, with the newest, and ends used or void
\* (issueBookingTicketsInTransaction, validateTicketEntry, rotateTicketCredential,
\* revokeTicket, applyTicketConsequences).
ImplementsAdmission == Passes!Spec

\* What the architecture guide says of a partial refund: it revokes the tickets of the
\* refunded seats.  Issuance looks at the booking's status only, so a seat that was
\* refunded before its ticket existed gets one that is good for entry
\* (issueBookingTicketsInTransaction, applyTicketConsequences).
RefundedSeatHasNoLiveTicket == \A s \in refundedSeats : ticketStatus[s] # "ACTIVE"
=============================================================================
