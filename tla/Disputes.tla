------------------------------- MODULE Disputes -------------------------------
(***************************************************************************)
(* Disputes of one captured payment: verified dispute events, stored once  *)
(* and processed under a lock on their webhook row, the dispute they open  *)
(* or advance, its history, the ledger, the financial outbox and the       *)
(* tickets a lost dispute revokes.  Refunds of the same payment settle     *)
(* meanwhile, and the reconciliation job compares ledger and totals.       *)
(*                                                                         *)
(* A transaction reads the payment, then the dispute under its row lock,   *)
(* and shows its writes when it commits.  A dispute that does not exist    *)
(* yet cannot be locked: only its unique provider identifier decides which *)
(* of two first events opens it.                                           *)
(***************************************************************************)
EXTENDS Integers, Sequences, FiniteSets, FiniteSetsExt

CONSTANTS
  DisputeIds,      \* disputes, by providerDisputeId
  DisputeEvents,   \* provider events, by providerEventId
  CapturedAmount,  \* PaymentAttempt.amountMinor
  TicketIds        \* tickets of the booking

ASSUME DisputeConstants == CapturedAmount \in Nat \ {0}

VARIABLES
  inbox,         \* PaymentWebhookEvent of each event
  disputeTx,     \* transaction processing each event
  dispute,       \* PaymentDispute
  disputeLog,    \* PaymentDisputeEvent of each dispute, in order of commit
  disputeLedger, \* FinancialLedgerEntry of disputes, by (type, event)
  disputeOutbox, \* deduplication keys of FinancialOutbox
  orderReview,   \* CheckoutOrder.financialReviewState
  bookingMade,   \* a Booking exists for the order
  refundedTotal, \* PaymentAttempt.refundedMinor
  admission      \* Ticket.status

disputeVars == <<inbox, disputeTx, dispute, disputeLog, disputeLedger, disputeOutbox,
                 orderReview, bookingMade, refundedTotal, admission>>
disputeRows == <<dispute, disputeLog, disputeLedger, disputeOutbox, orderReview>>

-----------------------------------------------------------------------------
OpenStatuses == {"OPEN", "NEEDS_RESPONSE", "UNDER_REVIEW"}
isTerminalDisputeStatus(st) == st \in {"WON", "LOST", "CLOSED"}
\* What a provider's word for a dispute can become; no word becomes REQUIRES_REVIEW.
ReportedStatus == OpenStatuses \cup {"WON", "LOST", "CLOSED"}
ReviewStates == {"NONE", "DISPUTE_REVIEW", "CHARGEBACK_REVIEW", "REFUND_REVIEW"}

NotReceived == [processingStatus |-> "NONE"]
Received(e) == inbox[e] # NotReceived
NoDispute   == [status |-> "NONE"]
NoTx        == [phase |-> "idle"]

outcomeForTerminalStatus(st) == IF st \in {"WON", "LOST"} THEN st ELSE "NULL"

DisputesTypeOK ==
  /\ \A e \in DisputeEvents :
       inbox[e].processingStatus \in {"NONE", "RECEIVED", "PROCESSED", "REQUIRES_REVIEW"}
  /\ \A d \in DisputeIds : dispute[d].status \in ReportedStatus \cup {"NONE", "REQUIRES_REVIEW"}
  /\ \A d \in DisputeIds : dispute[d] # NoDispute =>
       /\ dispute[d].outcome \in {"NULL", "WON", "LOST"} /\ dispute[d].amount \in 1..CapturedAmount
       /\ dispute[d].status \in {"WON", "LOST"} => dispute[d].outcome = dispute[d].status
  /\ orderReview \in ReviewStates /\ refundedTotal \in 0..CapturedAmount
  /\ admission \in [TicketIds -> {"NONE", "ACTIVE", "USED", "REVOKED"}]

DisputesInit ==
  /\ inbox = [e \in DisputeEvents |-> NotReceived]
  /\ disputeTx = [e \in DisputeEvents |-> NoTx]
  /\ dispute = [d \in DisputeIds |-> NoDispute]
  /\ disputeLog = [d \in DisputeIds |-> <<>>]
  /\ disputeLedger = {} /\ disputeOutbox = {} /\ orderReview = "NONE"
  /\ bookingMade = FALSE /\ refundedTotal = 0
  /\ admission = [t \in TicketIds |-> "NONE"]

-----------------------------------------------------------------------------
\* storeVerifiedFinancialWebhook: a later delivery of the same event finds the row.
StoreDisputeEvent(e, d, st, amount) ==
  /\ ~Received(e)
  /\ inbox' = [inbox EXCEPT ![e] = [processingStatus |-> "RECEIVED", dispute |-> d,
                                    status |-> st, amount |-> amount]]
  /\ UNCHANGED <<disputeRows, disputeTx, bookingMade, refundedTotal, admission>>

\* Each delivery of a stored event processes it unless that is done; the lock
\* on its row keeps other deliveries of it out.
ReadDisputedPayment(e) ==
  /\ inbox[e].processingStatus = "RECEIVED" /\ disputeTx[e] = NoTx
  /\ disputeTx' = [disputeTx EXCEPT ![e] = [phase |-> "read", refunded |-> refundedTotal,
                                            booking |-> bookingMade]]
  /\ UNCHANGED <<inbox, disputeRows, bookingMade, refundedTotal, admission>>

DisputeUnlocked(d) ==
  \A e \in DisputeEvents : disputeTx[e].phase = "locked" => inbox[e].dispute # d

LockDispute(e) ==
  LET d == inbox[e].dispute IN
  /\ disputeTx[e].phase = "read"
  /\ IF dispute[d] = NoDispute
     THEN disputeTx' = [disputeTx EXCEPT ![e] = [phase |-> "opening", row |-> NoDispute,
                          refunded |-> @.refunded, booking |-> @.booking]]
     ELSE /\ DisputeUnlocked(d)
          /\ disputeTx' = [disputeTx EXCEPT ![e] = [phase |-> "locked", row |-> dispute[d],
                             refunded |-> @.refunded, booking |-> @.booking]]
  /\ UNCHANGED <<inbox, disputeRows, bookingMade, refundedTotal, admission>>

-----------------------------------------------------------------------------
decideDisputeTransition(current, incoming) ==
  IF current \in {incoming, "REQUIRES_REVIEW"} THEN "IGNORE"
  ELSE IF ~isTerminalDisputeStatus(current) THEN "APPLY"
  ELSE IF isTerminalDisputeStatus(incoming) THEN "REVIEW" ELSE "IGNORE"

\* PaymentDispute_lifecycle_check.
LifecycleCheck(row) ==
  CASE row.status \in OpenStatuses      -> ~row.closed /\ row.outcome = "NULL"
    [] row.status \in {"WON", "LOST"}   -> row.closed /\ row.outcome = row.status
    [] row.status = "CLOSED"            -> row.closed /\ row.outcome # "NULL"
    [] OTHER                            -> TRUE

\* PaymentDispute_protect_identity.
DisputeProtected(old, new) ==
  /\ old.closed => new.closed
  /\ old.outcome # "NULL" => new.outcome = old.outcome
  /\ old.status = "REQUIRES_REVIEW" => new.status = old.status
  /\ isTerminalDisputeStatus(old.status) => new.status \in {old.status, "REQUIRES_REVIEW"}

\* PaymentDispute_enforce_ancestry; order, provider and currency are the payment's own here.
WithinCaptured(amount) == amount <= CapturedAmount

OpenedRow(e, booking) ==
  [status |-> inbox[e].status, outcome |-> outcomeForTerminalStatus(inbox[e].status),
   closed |-> isTerminalDisputeStatus(inbox[e].status), amount |-> inbox[e].amount, booking |-> booking]
AdvancedRow(row, st) ==
  [row EXCEPT !.status = st, !.outcome = outcomeForTerminalStatus(st),
              !.closed = isTerminalDisputeStatus(st)]
ReviewedRow(row) == [row EXCEPT !.status = "REQUIRES_REVIEW"]

\* appendDisputeEvent, unique on the dispute and the event.
Logged(log, e, before, after) ==
  IF \E i \in 1..Len(log) : log[i].event = e THEN log
  ELSE Append(log, [event |-> e, previousStatus |-> before, newStatus |-> after])

LedgerType(st) ==
  CASE st = "OPEN" -> "DISPUTE_OPENED" [] st = "WON" -> "DISPUTE_WON"
    [] st = "LOST" -> "DISPUTE_LOST" [] OTHER -> "DISPUTE_UPDATED"

\* A mutant: every entry comes with a chargeback.
ChargebackAlways(e, d, st, amount) ==
  {[type |-> LedgerType(st), cause |-> e, dispute |-> d, amount |-> amount],
   [type |-> "CHARGEBACK_RECORDED", cause |-> e, dispute |-> d, amount |-> amount]}
\* appendLedgerEntry: the key is the type and the event, so a second entry of both is dropped.
DisputeEntries(e, d, st, amount) ==
  {[type |-> LedgerType(st), cause |-> e, dispute |-> d, amount |-> amount]} \cup
  (IF st = "LOST" THEN {[type |-> "CHARGEBACK_RECORDED", cause |-> e, dispute |-> d, amount |-> amount]} ELSE {})

detectRefundDisputeOverlap(refunded, disputed) == refunded > 0 /\ disputed > 0
ExceedsCaptured(refunded, disputed) == refunded + disputed > CapturedAmount

ReviewAfter(st, refunded, amount, otherwise) ==
  IF st = "LOST" THEN "CHARGEBACK_REVIEW"
  ELSE IF ~detectRefundDisputeOverlap(refunded, amount) THEN otherwise
  ELSE IF ExceedsCaptured(refunded, amount) THEN "CHARGEBACK_REVIEW" ELSE "DISPUTE_REVIEW"

FinancialKeys(e, d, st, refunded, amount) ==
  {<<LedgerType(st), d, e>>} \cup
  (IF st = "LOST" THEN {<<"chargeback", d>>} ELSE {}) \cup
  (IF detectRefundDisputeOverlap(refunded, amount) THEN {<<"refund-dispute-overlap", d>>} ELSE {})

\* decideDisputeTicketConsequence and the loop that applies it.
decideDisputeTicketConsequence(st, ticket) == IF st = "LOST" /\ ticket = "ACTIVE" THEN "REVOKED" ELSE ticket

\* recordDisputeLedgerAndConsequences, after the row and its history are written.
Consequences(e, d, row, otherwise) ==
  LET refunded == disputeTx[e].refunded IN
  /\ disputeLedger' = disputeLedger \cup DisputeEntries(e, d, row.status, row.amount)
  /\ orderReview' = ReviewAfter(row.status, refunded, row.amount, otherwise)
  /\ disputeOutbox' = disputeOutbox \cup FinancialKeys(e, d, row.status, refunded, row.amount)
  /\ admission' = [t \in TicketIds |->
       IF row.booking THEN decideDisputeTicketConsequence(row.status, admission[t]) ELSE admission[t]]

SettleInbox(e, st) ==
  /\ inbox' = [inbox EXCEPT ![e].processingStatus = st]
  /\ disputeTx' = [disputeTx EXCEPT ![e] = NoTx]
  /\ UNCHANGED <<bookingMade, refundedTotal>>

\* A mutant: the index on the provider's identifier is not unique.
InsertedAnyway(d) == TRUE
\* PaymentDispute_provider_providerDisputeId_key.
IdentifierIsFree(d) == dispute[d] = NoDispute

\* openDispute: the insert meets PaymentDispute_enforce_ancestry, the CHECK and the unique identifier.
openDispute(e) ==
  LET d == inbox[e].dispute  row == OpenedRow(e, disputeTx[e].booking) IN
  /\ disputeTx[e].phase = "opening" /\ IdentifierIsFree(d)
  /\ WithinCaptured(row.amount) /\ LifecycleCheck(row)
  /\ dispute' = [dispute EXCEPT ![d] = row]
  /\ disputeLog' = [disputeLog EXCEPT ![d] = Logged(@, e, "NULL", row.status)]
  /\ Consequences(e, d, row, "DISPUTE_REVIEW")
  /\ SettleInbox(e, "PROCESSED")

advanceDispute(e) ==
  LET d == inbox[e].dispute  old == disputeTx[e].row  row == AdvancedRow(old, inbox[e].status) IN
  /\ disputeTx[e].phase = "locked"
  /\ decideDisputeTransition(old.status, inbox[e].status) = "APPLY"
  /\ LifecycleCheck(row) /\ DisputeProtected(dispute[d], row)
  /\ dispute' = [dispute EXCEPT ![d] = row]
  /\ disputeLog' = [disputeLog EXCEPT ![d] = Logged(@, e, old.status, row.status)]
  /\ Consequences(e, d, row, orderReview)
  /\ SettleInbox(e, "PROCESSED")

reviewDispute(e) ==
  LET d == inbox[e].dispute  old == disputeTx[e].row IN
  /\ disputeTx[e].phase = "locked"
  /\ decideDisputeTransition(old.status, inbox[e].status) = "REVIEW"
  /\ DisputeProtected(dispute[d], ReviewedRow(old))
  /\ dispute' = [dispute EXCEPT ![d] = ReviewedRow(old)]
  /\ disputeLog' = [disputeLog EXCEPT ![d] = Logged(@, e, old.status, "REQUIRES_REVIEW")]
  /\ orderReview' = "DISPUTE_REVIEW"
  /\ disputeOutbox' = disputeOutbox \cup {<<"dispute-review", d>>}
  /\ UNCHANGED <<disputeLedger, admission>>
  /\ SettleInbox(e, "REQUIRES_REVIEW")

ignoreDispute(e) ==
  LET d == inbox[e].dispute  old == disputeTx[e].row IN
  /\ disputeTx[e].phase = "locked"
  /\ decideDisputeTransition(old.status, inbox[e].status) = "IGNORE"
  /\ disputeLog' = [disputeLog EXCEPT ![d] = Logged(@, e, old.status, old.status)]
  /\ UNCHANGED <<dispute, disputeLedger, disputeOutbox, orderReview, admission>>
  /\ SettleInbox(e, "PROCESSED")

\* A constraint, a trigger, a timeout or a dead process undoes the transaction;
\* the event stays RECEIVED and its next delivery begins again.
AbortDispute(e) ==
  /\ disputeTx[e] # NoTx
  /\ disputeTx' = [disputeTx EXCEPT ![e] = NoTx]
  /\ UNCHANGED <<inbox, disputeRows, bookingMade, refundedTotal, admission>>

-----------------------------------------------------------------------------
\* Meanwhile: fulfilment, issuance, scans and refunds of the same order, and
\* a refund event that contradicts its refund.
FulfilDisputedOrder ==
  /\ ~bookingMade /\ bookingMade' = TRUE
  /\ UNCHANGED <<inbox, disputeTx, disputeRows, refundedTotal, admission>>
IssueDisputedTicket(t) ==
  /\ bookingMade /\ admission[t] = "NONE"
  /\ admission' = [admission EXCEPT ![t] = "ACTIVE"]
  /\ UNCHANGED <<inbox, disputeTx, disputeRows, bookingMade, refundedTotal>>
ScanDisputedTicket(t) ==
  /\ admission[t] = "ACTIVE" /\ admission' = [admission EXCEPT ![t] = "USED"]
  /\ UNCHANGED <<inbox, disputeTx, disputeRows, bookingMade, refundedTotal>>
SettleOtherRefund(amount) ==
  /\ refundedTotal + amount <= CapturedAmount
  /\ refundedTotal' = refundedTotal + amount
  /\ UNCHANGED <<inbox, disputeTx, disputeRows, bookingMade, admission>>
ReviewOtherRefund ==
  /\ orderReview' = "REFUND_REVIEW"
  /\ UNCHANGED <<inbox, disputeTx, dispute, disputeLog, disputeLedger, disputeOutbox,
                 bookingMade, refundedTotal, admission>>

\* detectFinancialDivergence and raiseDivergenceForReview.  Disputes that are
\* not WON count, open or not.
DisputedTotal ==
  MapThenSumSet(LAMBDA d : dispute[d].amount, {x \in DisputeIds : dispute[x].status \notin {"NONE", "WON"}})
raiseDivergence ==
  /\ detectRefundDisputeOverlap(refundedTotal, DisputedTotal)
  /\ disputeOutbox' = disputeOutbox \cup {<<"divergence", "REFUND_DISPUTE_OVERLAP">>}
  /\ UNCHANGED <<inbox, disputeTx, dispute, disputeLog, disputeLedger, orderReview,
                 bookingMade, refundedTotal, admission>>

ProcessDispute(e) ==
  ReadDisputedPayment(e) \/ LockDispute(e) \/ openDispute(e) \/ advanceDispute(e)
  \/ reviewDispute(e) \/ ignoreDispute(e)

DisputesNext ==
  \/ \E e \in DisputeEvents, d \in DisputeIds, st \in ReportedStatus, a \in 1..(CapturedAmount + 1) :
       StoreDisputeEvent(e, d, st, a)
  \/ \E e \in DisputeEvents : ProcessDispute(e) \/ AbortDispute(e)
  \/ FulfilDisputedOrder
  \/ \E t \in TicketIds : IssueDisputedTicket(t) \/ ScanDisputedTicket(t)
  \/ \E a \in 1..CapturedAmount : SettleOtherRefund(a)
  \/ ReviewOtherRefund \/ raiseDivergence

DisputesSpec == DisputesInit /\ [][DisputesNext]_disputeVars

-----------------------------------------------------------------------------
\* A chargeback is in the ledger, once, and announced, exactly for the disputes
\* whose first outcome is LOST; a WON that is contradicted records none.
ChargebackIsTheOutcome ==
  \A d \in DisputeIds :
    LET entries == {x \in disputeLedger : x.type = "CHARGEBACK_RECORDED" /\ x.dispute = d}
        lost == dispute[d] # NoDispute /\ dispute[d].outcome = "LOST"
    IN /\ Cardinality(entries) = (IF lost THEN 1 ELSE 0)
       /\ <<"chargeback", d>> \in disputeOutbox <=> lost
       /\ lost => \A x \in entries : x.amount = dispute[d].amount

\* The history of a dispute is one chain from its opening to its present
\* status, although its events are processed by several deliveries at once.
HistoryIsAChain ==
  \A d \in DisputeIds : dispute[d] # NoDispute =>
    LET log == disputeLog[d] IN
    /\ Len(log) > 0 /\ log[1].previousStatus = "NULL"
    /\ \A i \in 2..Len(log) : log[i].previousStatus = log[i - 1].newStatus
    /\ log[Len(log)].newStatus = dispute[d].status
===============================================================================
