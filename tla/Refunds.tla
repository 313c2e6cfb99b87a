------------------------------- MODULE Refunds -------------------------------
(***************************************************************************)
(* The refunds of one captured payment and its booking: Refund rows with   *)
(* their RefundSeats, the totals on PaymentAttempt, the ledger and the     *)
(* financial outbox, the provider's refunds and events, and the tickets as *)
(* far as refunds touch them.  A refund goes by the idempotency key of its *)
(* request; the key of the provider call is derived from it, so a refund   *)
(* at the provider goes by the same name.                                  *)
(*                                                                         *)
(* Every write of a Refund's status fires a trigger that recounts the      *)
(* totals.  Under READ COMMITTED the recount sees the other refunds as     *)
(* they were when its statement began, even if it then waits for the row   *)
(* of the payment.  So a write is two steps: Start takes the refund's row  *)
(* and the snapshot, and the step of the operation commits.                *)
(***************************************************************************)
EXTENDS Integers, FiniteSets, FiniteSetsExt

CONSTANTS
  Seats,          \* BookingSeats of the booking
  Price,          \* their prices in minor units
  Refunds,        \* idempotency keys of refund requests
  NoRefund,
  Events,         \* provider event identifiers
  Reports         \* what an event may say: status, and whether amount and currency agree

ASSUME NoRefundAssumption == NoRefund \notin Refunds
ASSUME PriceAssumption == IsFiniteSet(Seats) /\ Price \in [Seats -> Nat]
ASSUME DistinctNamesAssumption ==
  /\ Events \cap {"nobody", "claim", "attach", "timeout", "reject", "adopt"} = {}
  /\ Reports \subseteq [status : {"PROCESSING", "SUCCEEDED", "FAILED", "CANCELLED", "REQUIRES_REVIEW"},
                        agrees : BOOLEAN]

VARIABLES
  refund,    \* Refund rows with their seats
  totals,    \* PaymentAttempt.refundedMinor and .inFlightRefundMinor
  booking,   \* Booking.status
  underReview, \* CheckoutOrder.financialReviewState is not NONE
  ticket,    \* Ticket.status of each seat
  ledger,    \* FinancialLedgerEntry <<entryType, refund, cause>>
  outbox,    \* FinancialOutbox <<eventType, refund>>
  asking,    \* requests that have read booking and order and wait for the payment's row
  work,      \* where submitRefund is with a refund
  found,     \* what reconcileAmbiguousRefunds has found for a refund and not yet written
  pending,   \* the write transaction that has a refund's row
  made,      \* refunds the provider has made
  sent       \* what each provider event says and how its processing ended

tables == <<refund, totals, booking, underReview, ticket, ledger, outbox>>
vars == <<tables, asking, work, found, pending, made, sent>>

-----------------------------------------------------------------------------
TerminalStatus == {"SUCCEEDED", "FAILED", "CANCELLED"}
InFlightStatus == {"REQUESTED", "SUBMITTING", "PROCESSING", "REQUIRES_REVIEW"}
Scopes == {"FULL_BOOKING", "SELECTED_SEATS"}

\* outcome stands for succeededAt and failedAt, which are never both set.
Row == [status : InFlightStatus \cup {"ABSENT", "SUCCEEDED", "FAILED"},
        outcome : {"NONE", "SUCCEEDED", "FAILED"}, seats : SUBSET Seats, scope : Scopes,
        external : Refunds \cup {NoRefund}]
NoRefundRow == [status |-> "ABSENT", outcome |-> "NONE", seats |-> {}, scope |-> "FULL_BOOKING",
          external |-> NoRefund]
Idle == [by |-> "nobody"]
Unsent == [processing |-> "UNSENT"]

\* Sums over sets of seats and of refunds.
AmountOf(S) == MapThenSumSet(LAMBDA s : Price[s], S)
TotalOf(R)  == MapThenSumSet(LAMBDA r : AmountOf(refund[r].seats), R)
Captured    == AmountOf(Seats)

Succeeded == {r \in Refunds : refund[r].outcome = "SUCCEEDED"}
InFlight  == {r \in Refunds : refund[r].outcome # "SUCCEEDED" /\ refund[r].status \in InFlightStatus}

RefundsTypeOK ==
  /\ refund \in [Refunds -> Row]
  /\ totals \in [refunded : Nat, inFlight : Nat]
  /\ booking \in {"CONFIRMED", "REFUNDED"}
  /\ underReview \in BOOLEAN
  /\ ticket \in [Seats -> {"NONE", "ACTIVE", "USED", "REVOKED"}]
  /\ ledger \in SUBSET ({"REFUND_REQUESTED", "REFUND_PROCESSING", "REFUND_SUCCEEDED", "REFUND_FAILED"}
                          \X Refunds \X (Refunds \cup Events))
  /\ outbox \in SUBSET ({"REFUND_REQUESTED", "REFUND_SUBMITTED", "REFUND_SUCCEEDED", "REFUND_FAILED",
                         "REFUND_REQUIRES_REVIEW", "TICKET_REVOCATION_REQUESTED",
                         "FINANCIAL_RECONCILIATION_REQUIRED"} \X Refunds)
  /\ asking \in SUBSET Refunds
  /\ work \in [Refunds -> {"none", "claimed", "accepted", "timeout", "rejected"}]
  /\ found \in [Refunds -> Refunds \cup {NoRefund}]
  /\ pending \in [Refunds -> [by : {"claim", "attach", "timeout", "reject", "adopt"} \cup Events,
                              refunded : SUBSET Refunds, inFlight : SUBSET Refunds] \cup {Idle}]
  /\ made \in SUBSET Refunds
  /\ sent \in [Events -> [external : Refunds, report : Reports, late : BOOLEAN,
                          processing : {"RECEIVED", "PROCESSED", "REQUIRES_REVIEW"}] \cup {Unsent}]

Init ==
  /\ refund = [r \in Refunds |-> NoRefundRow]
  /\ totals = [refunded |-> 0, inFlight |-> 0]
  /\ booking = "CONFIRMED"
  /\ underReview = FALSE
  /\ ticket = [s \in Seats |-> "NONE"]
  /\ ledger = {}
  /\ outbox = {}
  /\ asking = {}
  /\ work = [r \in Refunds |-> "none"]
  /\ found = [r \in Refunds |-> NoRefund]
  /\ pending = [r \in Refunds |-> Idle]
  /\ made = {}
  /\ sent = [e \in Events |-> Unsent]

-----------------------------------------------------------------------------
(* requestRefund.  Booking and order are read before the payment's row is  *)
(* locked, the totals and the seats after.  A replay finds its refund and  *)
(* changes nothing.                                                        *)
StartRequest(r) ==
  /\ refund[r] = NoRefundRow /\ r \notin asking
  /\ booking = "CONFIRMED" /\ ~underReview
  /\ asking' = asking \cup {r}
  /\ UNCHANGED <<tables, work, found, pending, made, sent>>

Remaining == Captured - totals.refunded - totals.inFlight

\* Mutant: only refunds that succeeded are excluded.
MutantCovered == UNION {refund[r].seats : r \in Succeeded}

\* Seats of refunds that are live or have succeeded; RefundSeat_enforce_snapshot
\* refuses them once more.
Covered == UNION {refund[r].seats : r \in Succeeded \cup InFlight}

\* A full refund is of the open seats; one that had to be cut down to Remaining is
\* undone by Refund_verify_seat_total, because it names seats of a higher total.
CommitRequest(r, S, scope) ==
  /\ r \in asking
  /\ S # {} /\ S \cap Covered = {}
  /\ scope = "FULL_BOOKING" => S = Seats \ Covered
  /\ AmountOf(S) > 0 /\ AmountOf(S) <= Remaining
  /\ refund' = [refund EXCEPT ![r] = [status |-> "REQUESTED", outcome |-> "NONE", seats |-> S,
                                      scope |-> scope, external |-> NoRefund]]
  /\ totals' = [refunded |-> TotalOf(Succeeded), inFlight |-> TotalOf(InFlight) + AmountOf(S)]
  /\ totals'.refunded + totals'.inFlight <= Captured
  /\ ledger' = ledger \cup {<<"REFUND_REQUESTED", r, r>>}
  /\ outbox' = outbox \cup {<<"REFUND_REQUESTED", r>>}
  /\ asking' = asking \ {r}
  /\ UNCHANGED <<booking, underReview, ticket, work, found, pending, made, sent>>

\* The request is refused, or its transaction rolled back.
RefuseRequest(r) ==
  /\ r \in asking
  /\ asking' = asking \ {r}
  /\ UNCHANGED <<tables, work, found, pending, made, sent>>

-----------------------------------------------------------------------------
(* Writing a Refund row.                                                   *)

\* The row is locked, and the recount's statement has its snapshot.
Start(r, by) ==
  /\ pending[r] = Idle
  /\ pending' = [pending EXCEPT ![r] = [by |-> by, refunded |-> Succeeded \ {r},
                                        inFlight |-> InFlight \ {r}]]
  /\ UNCHANGED <<tables, asking, work, found, made, sent>>

\* Mutant: the trigger is missing.
MutantRefundWriteAllowed(old, new) == TRUE

\* Refund_protect_identity.
RefundWriteAllowed(old, new) ==
  /\ old.external # NoRefund => new.external = old.external
  /\ old.outcome # "NONE" => new.outcome = old.outcome
  /\ old.status = "REQUIRES_REVIEW" => new.status = "REQUIRES_REVIEW"
  /\ old.status \in TerminalStatus => new.status \in {old.status, "REQUIRES_REVIEW"}

\* Mutant: a refund counts as refunded once it is submitted.
MutantRecount(r, row) ==
  LET succeeded == pending[r].refunded \cup {q \in {r} : row.status \in {"SUBMITTING", "PROCESSING", "SUCCEEDED"}}
      inFlight == pending[r].inFlight \cup {q \in {r} : row.status \in {"REQUESTED", "REQUIRES_REVIEW"}} IN
  [refunded |-> TotalOf(succeeded), inFlight |-> TotalOf(inFlight)]

\* Refund_maintain_payment_aggregate, after r has become row.
Recount(r, row) ==
  LET succeeded == pending[r].refunded \cup {q \in {r} : row.outcome = "SUCCEEDED"}
      inFlight == pending[r].inFlight
                    \cup {q \in {r} : row.outcome # "SUCCEEDED" /\ row.status \in InFlightStatus} IN
  [refunded |-> TotalOf(succeeded), inFlight |-> TotalOf(inFlight)]

WriteRow(r, row) ==
  /\ RefundWriteAllowed(refund[r], row)
  /\ row.external # NoRefund => \A q \in Refunds \ {r} : refund[q].external # row.external
  /\ refund' = [refund EXCEPT ![r] = row]
  /\ totals' = Recount(r, row)
  /\ totals'.refunded + totals'.inFlight <= Captured

Done(r) == pending' = [pending EXCEPT ![r] = Idle]

\* The transaction is rolled back, by a constraint or a fault.  A worker or a
\* reconciliation gives up with it; a provider delivers its event again.
Abort(r) ==
  /\ pending[r] # Idle
  /\ Done(r)
  /\ work' = [work EXCEPT ![r] = IF pending[r].by \in {"claim", "attach", "timeout", "reject"}
                                 THEN "none" ELSE @]
  /\ found' = [found EXCEPT ![r] = IF pending[r].by = "adopt" THEN NoRefund ELSE @]
  /\ UNCHANGED <<tables, asking, made, sent>>

-----------------------------------------------------------------------------
(* submitRefund.                                                           *)

\* Mutant: a refund that is with the provider already is submitted again.
MutantStartClaim(r) == refund[r].status \in {"REQUESTED", "PROCESSING"} /\ Start(r, "claim")

StartClaim(r) == refund[r].status = "REQUESTED" /\ Start(r, "claim")

CommitClaim(r) ==
  /\ pending[r].by = "claim"
  /\ WriteRow(r, [refund[r] EXCEPT !.status = "SUBMITTING"])
  /\ work' = [work EXCEPT ![r] = "claimed"]
  /\ Done(r)
  /\ UNCHANGED <<booking, underReview, ticket, ledger, outbox, asking, found, made, sent>>

\* The provider (external) is called under the refund's key and makes at most one
\* refund for it.  An error is "timeout" when isAmbiguousFailure knows its message and
\* "rejected" otherwise, so after either the provider may have made the refund: a
\* broken connection can be worded otherwise, and toProviderRefund throws on a status
\* it does not know when the refund is already made.
ProviderAnswers(r, answer, makes) ==
  /\ work[r] = "claimed" /\ pending[r] = Idle
  /\ answer = "accepted" => makes
  /\ made' = IF makes THEN made \cup {r} ELSE made
  /\ work' = [work EXCEPT ![r] = answer]
  /\ UNCHANGED <<tables, asking, found, pending, sent>>

\* The process dies with the refund in hand.
WorkerDies(r) ==
  /\ work[r] # "none" /\ pending[r] = Idle
  /\ work' = [work EXCEPT ![r] = "none"]
  /\ UNCHANGED <<tables, asking, found, pending, made, sent>>

StartRecording(r) ==
  \/ work[r] = "accepted" /\ Start(r, "attach")
  \/ work[r] = "timeout"  /\ Start(r, "timeout")
  \/ work[r] = "rejected" /\ Start(r, "reject")

\* The update names the statuses it expects; the ledger and the outbox are written anyway.
CommitAttach(r) ==
  /\ pending[r].by = "attach"
  /\ IF refund[r].status \in {"SUBMITTING", "PROCESSING"}
     THEN WriteRow(r, [refund[r] EXCEPT !.status = "PROCESSING", !.external = r])
     ELSE UNCHANGED <<refund, totals>>
  /\ ledger' = ledger \cup {<<"REFUND_PROCESSING", r, r>>}
  /\ outbox' = outbox \cup {<<"REFUND_SUBMITTED", r>>}
  /\ work' = [work EXCEPT ![r] = "none"]
  /\ Done(r)
  /\ UNCHANGED <<booking, underReview, ticket, asking, found, made, sent>>

\* The outcome is unknown: the refund stays in flight for reconciliation.
CommitTimeout(r) ==
  /\ pending[r].by = "timeout"
  /\ IF refund[r].status = "SUBMITTING"
     THEN WriteRow(r, [refund[r] EXCEPT !.status = "PROCESSING"])
     ELSE UNCHANGED <<refund, totals>>
  /\ outbox' = outbox \cup {<<"FINANCIAL_RECONCILIATION_REQUIRED", r>>}
  /\ work' = [work EXCEPT ![r] = "none"]
  /\ Done(r)
  /\ UNCHANGED <<booking, underReview, ticket, ledger, asking, found, made, sent>>

\* failRefund, after an error that counts as a clean rejection.
CommitReject(r) ==
  /\ pending[r].by = "reject"
  /\ IF refund[r].status \in TerminalStatus \cup {"REQUIRES_REVIEW"}
     THEN UNCHANGED <<refund, totals, ledger, outbox>>
     ELSE /\ WriteRow(r, [refund[r] EXCEPT !.status = "FAILED", !.outcome = "FAILED"])
          /\ ledger' = ledger \cup {<<"REFUND_FAILED", r, r>>}
          /\ outbox' = outbox \cup {<<"REFUND_FAILED", r>>}
  /\ work' = [work EXCEPT ![r] = "none"]
  /\ Done(r)
  /\ UNCHANGED <<booking, underReview, ticket, asking, found, made, sent>>

-----------------------------------------------------------------------------
(* reconcileAmbiguousRefunds.                                              *)

\* Mutant: a refund left PROCESSING by a timeout is not looked for.
MutantFindExternal(r, x) ==
  /\ found[r] = NoRefund
  /\ refund[r].status = "SUBMITTING" /\ refund[r].external = NoRefund
  /\ x \in made
  /\ AmountOf(refund[x].seats) = AmountOf(refund[r].seats)
  /\ \A q \in Refunds : refund[q].external # x
  /\ found' = [found EXCEPT ![r] = x]
  /\ UNCHANGED <<tables, asking, work, pending, made, sent>>

\* The provider lists its refunds of the payment; the first of the same amount that
\* no row has yet is taken to be the one.
FindExternal(r, x) ==
  /\ found[r] = NoRefund
  /\ refund[r].status \in {"SUBMITTING", "PROCESSING"} /\ refund[r].external = NoRefund
  /\ x \in made
  /\ AmountOf(refund[x].seats) = AmountOf(refund[r].seats)
  /\ \A q \in Refunds : refund[q].external # x
  /\ found' = [found EXCEPT ![r] = x]
  /\ UNCHANGED <<tables, asking, work, pending, made, sent>>

StartAdopt(r) == found[r] # NoRefund /\ Start(r, "adopt")

CommitAdopt(r) ==
  /\ pending[r].by = "adopt"
  /\ IF refund[r].external = NoRefund
     THEN WriteRow(r, [refund[r] EXCEPT !.status = "PROCESSING", !.external = found[r]])
     ELSE UNCHANGED <<refund, totals>>
  /\ found' = [found EXCEPT ![r] = NoRefund]
  /\ Done(r)
  /\ UNCHANGED <<booking, underReview, ticket, ledger, outbox, asking, work, made, sent>>

-----------------------------------------------------------------------------
(* The provider's events (external) and processVerifiedRefundRecord.  A    *)
(* provider reports on a refund it has made in any order, may contradict   *)
(* itself, and delivers an event until it is acknowledged.  Delivery runs  *)
(* the processing whether or not the event was stored before, so storing   *)
(* it is not a step of its own.                                            *)

\* late: the refund's outcome was already on record when the event occurred.
EmitReport(e, x, report) ==
  /\ sent[e] = Unsent /\ x \in made
  /\ sent' = [sent EXCEPT ![e] =
       [external |-> x, report |-> report, processing |-> "RECEIVED",
        late |-> \E r \in Refunds : refund[r].external = x /\ refund[r].outcome # "NONE"]]
  /\ UNCHANGED <<tables, asking, work, found, pending, made>>

Concerns(e, r) == sent[e].processing = "RECEIVED" /\ refund[r].external = sent[e].external

Settle(e, processing) == sent' = [sent EXCEPT ![e].processing = processing]

\* Mutant: a report of the status the refund already has is applied once more.
MutantDecision(r, e) ==
  LET status == refund[r].status
      report == sent[e].report IN
  IF ~report.agrees THEN "REVIEW"
  ELSE IF refund[r].outcome # "NONE" /\ ~sent[e].late THEN "IGNORE"
  ELSE IF status = "REQUIRES_REVIEW" THEN "IGNORE"
  ELSE IF status \in TerminalStatus \ {report.status}
       THEN IF report.status \in TerminalStatus THEN "REVIEW" ELSE "IGNORE"
  ELSE IF report.status = "REQUIRES_REVIEW" THEN "REVIEW"
  ELSE report.status

\* settleRefundFromVerifiedEvent up to decideRefundTransition.  succeededAt and failedAt
\* are the time of processing, so every event that occurred before it counts as stale.
Decision(r, e) ==
  LET status == refund[r].status
      report == sent[e].report IN
  IF ~report.agrees THEN "REVIEW"
  ELSE IF refund[r].outcome # "NONE" /\ ~sent[e].late THEN "IGNORE"
  ELSE IF status \in {"REQUIRES_REVIEW", report.status} THEN "IGNORE"
  ELSE IF status \in TerminalStatus
       THEN IF report.status \in TerminalStatus THEN "REVIEW" ELSE "IGNORE"
  ELSE IF report.status = "REQUIRES_REVIEW" THEN "REVIEW"
  ELSE report.status

\* No row has the provider's identifier.
ParkUnknown(e) ==
  /\ sent[e].processing = "RECEIVED"
  /\ \A r \in Refunds : refund[r].external # sent[e].external
  /\ Settle(e, "REQUIRES_REVIEW")
  /\ UNCHANGED <<tables, asking, work, found, pending, made>>

IgnoreEvent(r, e) ==
  /\ Concerns(e, r) /\ pending[r] = Idle
  /\ Decision(r, e) = "IGNORE"
  /\ Settle(e, "PROCESSED")
  /\ UNCHANGED <<tables, asking, work, found, pending, made>>

\* A cancellation is started like the others and can only be aborted: the update
\* sets submittedAt again, which is immutable, and leaves cancelledAt NULL.
StartSettle(r, e) ==
  /\ Concerns(e, r)
  /\ Decision(r, e) # "IGNORE"
  /\ Start(r, e)

Settling(r, decision) == pending[r].by \in Events /\ Decision(r, pending[r].by) = decision

\* applyTicketConsequences: a full refund is not limited to its own seats.
Revoked(r) ==
  {s \in IF refund[r].scope = "SELECTED_SEATS" THEN refund[r].seats ELSE Seats : ticket[s] = "ACTIVE"}

CommitSucceeded(r) ==
  LET e == pending[r].by IN
  /\ Settling(r, "SUCCEEDED")
  /\ WriteRow(r, [refund[r] EXCEPT !.status = "SUCCEEDED", !.outcome = "SUCCEEDED"])
  /\ ledger' = ledger \cup {<<"REFUND_SUCCEEDED", r, e>>}
  /\ ticket' = [s \in Seats |-> IF s \in Revoked(r) THEN "REVOKED" ELSE ticket[s]]
  /\ booking' = IF totals'.refunded >= Captured THEN "REFUNDED" ELSE booking
  /\ booking' # booking => TotalOf(Succeeded \cup {r}) >= Captured
  /\ outbox' = outbox \cup {<<"REFUND_SUCCEEDED", r>>}
                      \cup (IF Revoked(r) # {} THEN {<<"TICKET_REVOCATION_REQUESTED", r>>} ELSE {})
  /\ Settle(e, "PROCESSED")
  /\ Done(r)
  /\ UNCHANGED <<underReview, asking, work, found, made>>

CommitFailed(r) ==
  LET e == pending[r].by IN
  /\ Settling(r, "FAILED")
  /\ WriteRow(r, [refund[r] EXCEPT !.status = "FAILED", !.outcome = "FAILED"])
  /\ ledger' = ledger \cup {<<"REFUND_FAILED", r, e>>}
  /\ outbox' = outbox \cup {<<"REFUND_FAILED", r>>}
  /\ Settle(e, "PROCESSED")
  /\ Done(r)
  /\ UNCHANGED <<booking, underReview, ticket, asking, work, found, made>>

\* markRefundUnderReview.
CommitReview(r) ==
  /\ Settling(r, "REVIEW")
  /\ WriteRow(r, [refund[r] EXCEPT !.status = "REQUIRES_REVIEW"])
  /\ underReview' = TRUE
  /\ outbox' = outbox \cup {<<"REFUND_REQUIRES_REVIEW", r>>}
  /\ Settle(pending[r].by, "REQUIRES_REVIEW")
  /\ Done(r)
  /\ UNCHANGED <<booking, ticket, ledger, asking, work, found, made>>

-----------------------------------------------------------------------------
(* What refunds meet of the tickets: issuance, at once or by a later job,  *)
(* and an accepted scan.                                                   *)
IssueTickets ==
  /\ booking = "CONFIRMED"
  /\ \A s \in Seats : ticket[s] = "NONE"
  /\ ticket' = [s \in Seats |-> "ACTIVE"]
  /\ UNCHANGED <<refund, totals, booking, underReview, ledger, outbox, asking, work, found, pending, made, sent>>

ScanTicket(s) ==
  /\ booking = "CONFIRMED" /\ ticket[s] = "ACTIVE"
  /\ ticket' = [ticket EXCEPT ![s] = "USED"]
  /\ UNCHANGED <<refund, totals, booking, underReview, ledger, outbox, asking, work, found, pending, made, sent>>

-----------------------------------------------------------------------------
Request(r) ==
  \/ StartRequest(r) \/ RefuseRequest(r)
  \/ \E S \in SUBSET Seats, scope \in Scopes : CommitRequest(r, S, scope)

Answer(r) ==
  \E answer \in {"accepted", "timeout", "rejected"}, makes \in BOOLEAN : ProviderAnswers(r, answer, makes)

Find(r) == \E x \in Refunds : FindExternal(r, x)

Commit(r) ==
  \/ CommitClaim(r) \/ CommitAttach(r) \/ CommitTimeout(r) \/ CommitReject(r) \/ CommitAdopt(r)
  \/ CommitSucceeded(r) \/ CommitFailed(r) \/ CommitReview(r)

DeliverReport(e) == ParkUnknown(e) \/ \E r \in Refunds : IgnoreEvent(r, e) \/ StartSettle(r, e)

Next ==
  \/ \E r \in Refunds :
       \/ Request(r)
       \/ StartClaim(r) \/ Answer(r) \/ StartRecording(r) \/ WorkerDies(r)
       \/ Find(r) \/ StartAdopt(r)
       \/ Commit(r) \/ Abort(r)
  \/ \E e \in Events :
       \/ \E x \in Refunds, report \in Reports : EmitReport(e, x, report)
       \/ DeliverReport(e)
  \/ IssueTickets
  \/ \E s \in Seats : ScanTicket(s)

Spec == Init /\ [][Next]_vars

\* The submission and reconciliation jobs run on a schedule, a living worker goes on,
\* a provider repeats an event until it is acknowledged, and a transaction that fails
\* for a transient reason and is tried again and again succeeds in the end.
Fairness ==
  /\ \A r \in Refunds :
       /\ WF_vars(StartClaim(r)) /\ WF_vars(Answer(r)) /\ WF_vars(StartRecording(r))
       /\ WF_vars(Find(r)) /\ WF_vars(StartAdopt(r))
       /\ SF_vars(Commit(r))
  /\ \A e \in Events : WF_vars(DeliverReport(e))

FairSpec == Spec /\ Fairness

-----------------------------------------------------------------------------
(* Properties that hold.                                                   *)

\* Refunds whose money has gone, or may still go, back.
Paying(r) ==
  refund[r].outcome = "SUCCEEDED" \/ (refund[r].outcome = "NONE" /\ refund[r].status \in InFlightStatus)

\* requestRefund under the payment's lock: whatever requests, workers, events and
\* reconciliations do at once, no seat is being paid back by two refunds.  A failed
\* refund that a contradiction sends to review does not count: its seats may have been
\* given to a retry.
SeatRefundedOnce ==
  \A r, q \in Refunds : r # q /\ Paying(r) /\ Paying(q) => refund[r].seats \cap refund[q].seats = {}

Payers(s) == {r \in Refunds : s \in refund[r].seats /\ Paying(r)}
ShareOf(payers) ==
  [by |-> payers,
   state |-> IF payers = {} THEN "KEPT"
             ELSE IF \E r \in payers : refund[r].outcome = "SUCCEEDED" THEN "RETURNED" ELSE "CLAIMED"]
ShareView == [s \in Seats |-> LET payers == Payers(s) IN ShareOf(payers)]

Shares == INSTANCE RefundAllocation WITH share <- ShareView

\* The rows of the refunds implement the abstract allocation of the booking's price:
\* seats are claimed, given up and returned as wholes, and never taken back, although
\* requests, workers, reconciliation and events write the rows.
ImplementsRefundAllocation == Shares!Spec

\* The recount may lag behind, but refundedMinor never claims money that has not gone
\* back, and every seat of a REFUNDED booking that cost something was paid back.
RefundedTotalIsHonest ==
  /\ totals.refunded <= TotalOf(Succeeded)
  /\ booking = "REFUNDED" => {s \in Seats : Price[s] > 0} \subseteq UNION {refund[r].seats : r \in Succeeded}

\* A refund the provider was recorded to have taken, or of which the outcome was
\* recorded as unknown, becomes FAILED, and its seats open to another refund, only when
\* the provider reports that it failed: no retry asks for it again and takes the second
\* answer for the first (submitRefund, decideRefundTransition).
UnknownIsNotFailed ==
  \A r \in Refunds : refund[r].outcome = "FAILED" =>
    \/ {<<"REFUND_SUBMITTED", r>>, <<"FINANCIAL_RECONCILIATION_REQUIRED", r>>} \cap outbox = {}
    \/ \E e \in Events : /\ sent[e] # Unsent /\ sent[e].external = refund[r].external
                         /\ sent[e].report.status = "FAILED"

\* The ledger has exactly one success for a refund that succeeded and exactly one
\* failure for one that failed, and nothing else, through duplicates and rejections
\* that come after an event.
LedgerTellsTheOutcome ==
  \A r \in Refunds :
    LET Entries(type) == {x \in ledger : x[1] = type /\ x[2] = r} IN
    /\ Cardinality(Entries("REFUND_SUCCEEDED")) = IF refund[r].outcome = "SUCCEEDED" THEN 1 ELSE 0
    /\ Cardinality(Entries("REFUND_FAILED")) = IF refund[r].outcome = "FAILED" THEN 1 ELSE 0

\* The provider's identifier, the first outcome and a review stay on record, a refund
\* that ended does not start again, and a used ticket stays used, whichever of worker,
\* reconciliation and webhook writes last.
WriteOnce ==
  [][/\ \A r \in Refunds :
          /\ refund[r].external # NoRefund => refund'[r].external = refund[r].external
          /\ refund[r].outcome # "NONE" =>
               /\ refund'[r].outcome = refund[r].outcome
               /\ refund'[r].status \in {refund[r].status, "REQUIRES_REVIEW"}
          /\ refund[r].status = "REQUIRES_REVIEW" => refund'[r].status = "REQUIRES_REVIEW"
     /\ \A s \in Seats : ticket[s] \in {"USED", "REVOKED"} => ticket'[s] = ticket[s]]_vars

\* The only refund of its amount is found again after a lost answer or a dead worker if
\* the provider has made it, unless its worker took the provider's error for a rejection.
AcceptedRefundIsFound ==
  \A r \in Refunds : r \in made ~> refund[r].external = r \/ <<"REFUND_FAILED", r, r>> \in ledger

-----------------------------------------------------------------------------
(* What the documentation says and the code does not keep.                 *)

\* docs/refunds-and-disputes.md: the totals are the refunds that succeeded and those
\* still reserved, maintained by the trigger under the lock it takes.
TotalsMatchRefunds ==
  totals = [refunded |-> TotalOf(Succeeded), inFlight |-> TotalOf(InFlight)]

\* submitRefund: a clean rejection means that no external refund exists.
RejectedWasNotMade ==
  \A r \in Refunds : <<"REFUND_FAILED", r, r>> \in ledger => r \notin made

\* docs/refunds-and-disputes.md: every failure of a submission converges.
SubmissionConverges ==
  \A r \in Refunds :
    refund[r].status = "SUBMITTING" ~> refund[r].external # NoRefund \/ refund[r].outcome # "NONE"
=============================================================================
