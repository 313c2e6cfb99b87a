------------------------------- MODULE Checkout -------------------------------
(***************************************************************************)
(* Checkout, payment and fulfilment on top of SeatHolds: CheckoutOrder,    *)
(* PaymentAttempt, PaymentWebhookEvent and Booking, the payment provider   *)
(* as the code uses it, and every operation that changes them.  A hold has *)
(* at most one order (unique sourceHoldId) and an order one attempt and at *)
(* most one booking, so all of them go by the identifier of the hold.      *)
(*                                                                         *)
(* A checkout request and a webhook delivery each span several             *)
(* transactions and a call to the provider; anything may happen between.   *)
(***************************************************************************)
EXTENDS SeatHolds

CONSTANTS
  Intents, NoIntent,   \* payment intents of the provider
  Events,              \* provider event identifiers
  Callers,             \* slots for provider calls in flight
  OrderBatchSize       \* orders one expiry transaction claims

ASSUME NoIntentAssumption == NoIntent \notin Intents
ASSUME OrderBatchAssumption == OrderBatchSize \in Nat \ {0}

VARIABLES
  order,    \* CheckoutOrder, its PaymentAttempt and the attached intent, by hold
  booking,  \* holds whose order has a Booking, with its BookingSeats and issuance request
  intent,   \* the provider's intents: the order each was created for, what became of it
  call,     \* intents the provider returned and ensurePaymentIntent has not yet attached
  sent,     \* what each provider event says
  webhook,  \* PaymentWebhookEvent rows, by event
  notices   \* InventoryEventOutbox rows of checkout and payment <<eventType, aggregate>>

checkoutVars == <<order, booking, intent, call, sent, webhook, notices>>
allVars == <<vars, checkoutVars>>

-----------------------------------------------------------------------------
OpenOrderStatus     == {"PENDING", "PAYMENT_PENDING"}
\* Statuses CheckoutOrder_protect_identity makes final.  No code writes PAID or CANCELLED.
TerminalOrderStatus == {"FULFILLED", "FAILED", "EXPIRED", "PAID_UNFULFILLED", "REQUIRES_REVIEW"}
TerminalPaymentStatus == {"SUCCEEDED", "FAILED", "CANCELLED"}
PaymentStatus == {"CREATED", "PENDING"} \cup TerminalPaymentStatus
WebhookStatus == {"RECEIVED", "PROCESSED", "REQUIRES_REVIEW", "FAILED"}

OrderRow == [status : OpenOrderStatus \cup TerminalOrderStatus, payment : PaymentStatus,
             intent : Intents \cup {NoIntent}]
NoOrder  == [status |-> "ABSENT"]
NoCall   == [order |-> NoHold]
Unsent   == [status |-> "UNSENT"]
NoWebhook == [processing |-> "ABSENT"]

NoticeType == {"CHECKOUT_CREATED", "PAYMENT_INTENT_CREATED", "PAYMENT_SUCCEEDED",
               "PAYMENT_FAILED", "PAYMENT_REQUIRES_REVIEW", "BOOKING_CONFIRMED"}

CheckoutTypeOK ==
  /\ TypeOK
  /\ order \in [Holds -> OrderRow \cup {NoOrder}]
  /\ booking \in SUBSET Holds
  /\ intent \in [Intents -> [order : Holds, charge : {"open", "succeeded", "cancelled"}]
                              \cup {[charge |-> "none"]}]
  /\ call \in [Callers -> [order : Holds, intent : Intents] \cup {NoCall}]
  /\ sent \in [Events -> [intent : Intents, status : PaymentStatus \ {"CREATED"}, amountOk : BOOLEAN]
                           \cup {Unsent}]
  /\ webhook \in [Events -> [order : Holds \cup {NoHold}, processing : WebhookStatus]
                              \cup {NoWebhook}]
  /\ notices \in SUBSET (NoticeType \X (Holds \cup Events))

CheckoutInit ==
  /\ Init
  /\ order = [h \in Holds |-> NoOrder]
  /\ booking = {}
  /\ intent = [i \in Intents |-> [charge |-> "none"]]
  /\ call = [c \in Callers |-> NoCall]
  /\ sent = [e \in Events |-> Unsent]
  /\ webhook = [e \in Events |-> NoWebhook]
  /\ notices = {}

-----------------------------------------------------------------------------
(* createCheckoutOrder, for the owner of the hold.  A hold that already    *)
(* has an order answers with it, or refuses, and changes nothing.          *)
CreateCheckoutOrder(h, now) ==
  /\ order[h] = NoOrder
  /\ Active(h) /\ now < hold[h].expiresAt
  /\ hold[h].seats # {}
  /\ \A s \in hold[h].seats : inv[s] = HeldRow(h, hold[h].expiresAt)
  /\ Sellable(hold[h].session, now)
  /\ order' = [order EXCEPT ![h] = [status |-> "PENDING", payment |-> "CREATED", intent |-> NoIntent]]
  /\ notices' = notices \cup {<<"CHECKOUT_CREATED", h>>}
  /\ UNCHANGED <<vars, booking, intent, call, sent, webhook>>

\* Mutant: every call carries a fresh idempotency key.
MutantIntentFor(h, i) == intent[i].charge = "none"

\* The provider answers a call that carries the attempt's idempotency key with the
\* intent it made for that key before, if it made one.
IntentFor(h, i) ==
  IF \E j \in Intents : intent[j].charge # "none" /\ intent[j].order = h
  THEN intent[i].charge # "none" /\ intent[i].order = h
  ELSE intent[i].charge = "none"

\* ensurePaymentIntent up to the provider's answer; checkout requests and
\* reconcilePendingPaymentIntents call it.
CallProvider(c, h, i, now) ==
  /\ call[c] = NoCall
  /\ order[h] # NoOrder /\ order[h].intent = NoIntent
  /\ now < hold[h].expiresAt
  /\ IntentFor(h, i)
  /\ intent' = IF intent[i].charge = "none"
               THEN [intent EXCEPT ![i] = [order |-> h, charge |-> "open"]]
               ELSE intent
  /\ call' = [call EXCEPT ![c] = [order |-> h, intent |-> i]]
  /\ UNCHANGED <<vars, order, booking, sent, webhook, notices>>

\* The answer never arrives, or the process dies before it is used.
LoseAnswer(c) ==
  /\ call[c] # NoCall
  /\ call' = [call EXCEPT ![c] = NoCall]
  /\ UNCHANGED <<vars, order, booking, intent, sent, webhook, notices>>

\* The second transaction of ensurePaymentIntent.
AttachIntent(c) ==
  LET h == call[c].order IN
  /\ call[c] # NoCall
  /\ call' = [call EXCEPT ![c] = NoCall]
  /\ IF order[h].intent # NoIntent
     THEN UNCHANGED <<order, notices>>
     ELSE /\ order' = [order EXCEPT ![h] =
               [status |-> IF order[h].status = "PENDING" THEN "PAYMENT_PENDING" ELSE order[h].status,
                payment |-> "PENDING", intent |-> call[c].intent]]
          /\ notices' = notices \cup {<<"PAYMENT_INTENT_CREATED", h>>}
  /\ UNCHANGED <<vars, booking, intent, sent, webhook>>

-----------------------------------------------------------------------------
(* The payment provider (external).  A payment that fails leaves the       *)
(* intent open for another try; success and cancellation are final.  An    *)
(* event may be delivered any number of times, at any time and in any      *)
(* order; its amount may not be the one SeatFlow asked for.                *)
Emit(e, i, status, amountOk) ==
  /\ sent[e] = Unsent
  /\ \/ intent[i].charge = "open"
     \/ intent[i].charge = "succeeded" /\ status = "SUCCEEDED"
  /\ sent' = [sent EXCEPT ![e] = [intent |-> i, status |-> status, amountOk |-> amountOk]]
  /\ intent' = [intent EXCEPT ![i].charge =
       CASE status = "SUCCEEDED" -> "succeeded" [] status = "CANCELLED" -> "cancelled" [] OTHER -> @]
  /\ UNCHANGED <<vars, order, booking, call, webhook, notices>>

\* storeVerifiedWebhook: the row is linked to the attempt that has the intent, if
\* one has it by now.  A second delivery finds the row and leaves it.
StoreWebhook(e) ==
  /\ sent[e] # Unsent
  /\ webhook[e] = NoWebhook
  /\ \E h \in Holds \cup {NoHold} :
       /\ IF h \in Holds THEN order[h] # NoOrder /\ order[h].intent = sent[e].intent
          ELSE \A g \in Holds : order[g] # NoOrder => order[g].intent # sent[e].intent
       /\ webhook' = [webhook EXCEPT ![e] = [order |-> h, processing |-> "RECEIVED"]]
  /\ UNCHANGED <<vars, order, booking, intent, call, sent, notices>>

-----------------------------------------------------------------------------
(* processVerifiedWebhookRecord, one action per way through it.  The       *)
(* early returns are in Verdict, in the order of the code.                 *)

Unsettled(e) == webhook[e].processing \in {"RECEIVED", "FAILED"}

\* decidePaidFulfillment, then snapshotsMatch.
FulfillmentDecision(h, now) ==
  IF order[h].status \in TerminalOrderStatus THEN "ORDER_TERMINAL_CONFLICT"
  ELSE IF hold[h].status = "RELEASED" THEN "HOLD_RELEASED"
  ELSE IF hold[h].status = "EXPIRED" \/ now >= hold[h].expiresAt THEN "HOLD_EXPIRED"
  ELSE IF hold[h].status # "ACTIVE" THEN "HOLD_NOT_ACTIVE"
  ELSE IF session[hold[h].session] = "CANCELLED" THEN "SESSION_CANCELLED"
  ELSE IF event.status # "PUBLISHED" THEN "SESSION_UNAVAILABLE"
  ELSE IF ~CanConvert(h, now) THEN "FULFILLMENT_SNAPSHOT_MISMATCH"
  ELSE "FULFILL"

\* Mutant: what is not a failure counts as paid.
MutantVerdict(e, now) ==
  LET h == webhook[e].order
      status == sent[e].status IN
  IF h = NoHold THEN "UNKNOWN_PAYMENT_INTENT"
  ELSE IF h \in booking \/ order[h].status = "FULFILLED" THEN "ALREADY_BOOKED"
  ELSE IF order[h].payment \in TerminalPaymentStatus /\ order[h].payment # status THEN "CONTRADICTORY"
  ELSE IF order[h].payment \in TerminalPaymentStatus THEN "REPEATED"
  ELSE IF ~sent[e].amountOk THEN "AMOUNT_MISMATCH"
  ELSE IF status \in {"FAILED", "CANCELLED"} THEN "NOT_PAID"
  ELSE FulfillmentDecision(h, now)

Verdict(e, now) ==
  LET h == webhook[e].order
      status == sent[e].status IN
  IF h = NoHold THEN "UNKNOWN_PAYMENT_INTENT"
  ELSE IF h \in booking \/ order[h].status = "FULFILLED" THEN "ALREADY_BOOKED"
  ELSE IF order[h].payment \in TerminalPaymentStatus /\ order[h].payment # status THEN "CONTRADICTORY"
  ELSE IF order[h].payment \in TerminalPaymentStatus THEN "REPEATED"
  ELSE IF ~sent[e].amountOk THEN "AMOUNT_MISMATCH"
  ELSE IF status \in {"FAILED", "CANCELLED"} THEN "NOT_PAID"
  ELSE IF status # "SUCCEEDED" THEN "STILL_PENDING"
  ELSE FulfillmentDecision(h, now)

Settle(e, processing) == webhook' = [webhook EXCEPT ![e].processing = processing]

\* Mutant: the trigger is missing.
MutantOrderWriteAllowed(h, status) == TRUE

\* The trigger CheckoutOrder_protect_identity: a write that changes a final status
\* aborts the transaction.
OrderWriteAllowed(h, status) ==
  order[h].status \in TerminalOrderStatus => status = order[h].status

\* markWebhookReview with an order: a paid order becomes PAID_UNFULFILLED.
MarkReview(e, h, paid) ==
  LET status == IF paid THEN "PAID_UNFULFILLED" ELSE "REQUIRES_REVIEW" IN
  /\ OrderWriteAllowed(h, status)
  /\ order' = [order EXCEPT ![h].status = status,
                            ![h].payment = IF paid THEN "SUCCEEDED" ELSE @]
  /\ notices' = notices \cup {<<"PAYMENT_REQUIRES_REVIEW", e>>}
                        \cup (IF paid THEN {<<"PAYMENT_SUCCEEDED", e>>} ELSE {})
  /\ Settle(e, "REQUIRES_REVIEW")

\* No attempt has the intent: the event is parked and no order learns of it.
ReviewUnknownIntent(e, now) ==
  /\ Unsettled(e) /\ Verdict(e, now) = "UNKNOWN_PAYMENT_INTENT"
  /\ Settle(e, "REQUIRES_REVIEW")
  /\ UNCHANGED <<vars, order, booking, intent, call, sent, notices>>

\* Mutant: a duplicate is done with whatever the state of its order.
MutantAcceptDuplicate(e, now) ==
  /\ Unsettled(e) /\ Verdict(e, now) \in {"ALREADY_BOOKED", "REPEATED"}
  /\ Settle(e, "PROCESSED")
  /\ UNCHANGED <<vars, order, booking, intent, call, sent, notices>>

\* The order is fulfilled, or the attempt already has this outcome.
AcceptDuplicate(e, now) ==
  /\ Unsettled(e) /\ Verdict(e, now) \in {"ALREADY_BOOKED", "REPEATED"}
  /\ Settle(e, IF order[webhook[e].order].status \in {"PAID_UNFULFILLED", "REQUIRES_REVIEW"}
               THEN "REQUIRES_REVIEW" ELSE "PROCESSED")
  /\ UNCHANGED <<vars, order, booking, intent, call, sent, notices>>

\* The first final outcome stands; the order is left as it is.
ReviewContradiction(e, now) ==
  /\ Unsettled(e) /\ Verdict(e, now) = "CONTRADICTORY"
  /\ Settle(e, "REQUIRES_REVIEW")
  /\ notices' = notices \cup {<<"PAYMENT_REQUIRES_REVIEW", e>>}
  /\ UNCHANGED <<vars, order, booking, intent, call, sent>>

\* Mutant: a wrong amount counts as paid whatever the event says.
MutantReviewAmount(e, now) ==
  /\ Unsettled(e) /\ Verdict(e, now) = "AMOUNT_MISMATCH"
  /\ MarkReview(e, webhook[e].order, TRUE)
  /\ UNCHANGED <<vars, booking, intent, call, sent>>

ReviewAmount(e, now) ==
  /\ Unsettled(e) /\ Verdict(e, now) = "AMOUNT_MISMATCH"
  /\ MarkReview(e, webhook[e].order, sent[e].status = "SUCCEEDED")
  /\ UNCHANGED <<vars, booking, intent, call, sent>>

RecordFailure(e, now) ==
  LET h == webhook[e].order IN
  /\ Unsettled(e) /\ Verdict(e, now) = "NOT_PAID"
  /\ order' = [order EXCEPT ![h].payment = sent[e].status,
                            ![h].status = IF @ \in OpenOrderStatus THEN "FAILED" ELSE @]
  /\ notices' = notices \cup {<<"PAYMENT_FAILED", e>>}
  /\ Settle(e, "PROCESSED")
  /\ UNCHANGED <<vars, booking, intent, call, sent>>

RecordPending(e, now) ==
  /\ Unsettled(e) /\ Verdict(e, now) = "STILL_PENDING"
  /\ order' = [order EXCEPT ![webhook[e].order].payment = "PENDING"]
  /\ Settle(e, "PROCESSED")
  /\ UNCHANGED <<vars, booking, intent, call, sent, notices>>

\* Paid, and not safe to fulfil.  Overdue holds of the session are released on the way.
ReviewPaid(e, now) ==
  LET h == webhook[e].order
      verdict == Verdict(e, now) IN
  /\ Unsettled(e)
  /\ verdict \in {"ORDER_TERMINAL_CONFLICT", "HOLD_RELEASED", "HOLD_EXPIRED", "HOLD_NOT_ACTIVE",
                  "SESSION_CANCELLED", "SESSION_UNAVAILABLE", "FULFILLMENT_SNAPSHOT_MISMATCH"}
  /\ MarkReview(e, h, TRUE)
  /\ IF verdict = "HOLD_EXPIRED" /\ Active(h)
     THEN ReleaseExpired({hold[h].session}, now)
     ELSE UNCHANGED vars
  /\ UNCHANGED <<booking, intent, call, sent>>

\* The one transaction that books: payment, booking, seats, hold, order and event.
Fulfil(e, now) ==
  LET h == webhook[e].order IN
  /\ Unsettled(e) /\ Verdict(e, now) = "FULFILL"
  /\ ConvertHold(h, now)
  /\ booking' = booking \cup {h}
  /\ order' = [order EXCEPT ![h].status = "FULFILLED", ![h].payment = "SUCCEEDED"]
  /\ notices' = notices \cup {<<"PAYMENT_SUCCEEDED", e>>, <<"BOOKING_CONFIRMED", h>>}
  /\ Settle(e, "PROCESSED")
  /\ UNCHANGED <<intent, call, sent>>

\* The transaction is rolled back, by a fault or by a constraint, and the row says so.
ProcessingFails(e) ==
  /\ Unsettled(e)
  /\ Settle(e, "FAILED")
  /\ UNCHANGED <<vars, order, booking, intent, call, sent, notices>>

ProcessWebhook(e, now) ==
  \/ ReviewUnknownIntent(e, now)
  \/ AcceptDuplicate(e, now)
  \/ ReviewContradiction(e, now)
  \/ ReviewAmount(e, now)
  \/ RecordFailure(e, now)
  \/ RecordPending(e, now)
  \/ ReviewPaid(e, now)
  \/ Fulfil(e, now)

-----------------------------------------------------------------------------
\* Mutant: the order expires and its hold stays.
MutantExpireUnpaidOrders_KeepsHolds(B, now) ==
  /\ B # {} /\ Cardinality(B) <= OrderBatchSize
  /\ \A h \in B : order[h].status \in OpenOrderStatus /\ hold[h].expiresAt <= now
  /\ order' = [h \in Holds |-> IF h \in B THEN [order[h] EXCEPT !.status = "EXPIRED"] ELSE order[h]]
  /\ UNCHANGED <<vars, booking, intent, call, sent, webhook, notices>>

\* Mutant: the seats are freed and their holds stay ACTIVE.
MutantExpireUnpaidOrders_FreesSeatsOnly(B, now) ==
  /\ B # {} /\ Cardinality(B) <= OrderBatchSize
  /\ \A h \in B : order[h].status \in OpenOrderStatus /\ hold[h].expiresAt <= now
  /\ order' = [h \in Holds |-> IF h \in B THEN [order[h] EXCEPT !.status = "EXPIRED"] ELSE order[h]]
  /\ inv' = FreeSeats(B)
  /\ UNCHANGED <<clock, event, session, hold, outbox, pending>>
  /\ UNCHANGED <<booking, intent, call, sent, webhook, notices>>

\* Mutant: orders with an intent are not claimed.
MutantExpireUnpaidOrders_ForgetsPaying(B, now) ==
  /\ B # {} /\ Cardinality(B) <= OrderBatchSize
  /\ \A h \in B : order[h].status = "PENDING" /\ hold[h].expiresAt <= now
  /\ order' = [h \in Holds |-> IF h \in B THEN [order[h] EXCEPT !.status = "EXPIRED"] ELSE order[h]]
  /\ ReleaseExpired({hold[h].session : h \in B}, now)
  /\ UNCHANGED <<booking, intent, call, sent, webhook, notices>>

\* One batch of expireUnpaidCheckoutOrders; checkoutExpiresAt is the hold's expiry.
ExpireUnpaidOrders(B, now) ==
  /\ B # {} /\ Cardinality(B) <= OrderBatchSize
  /\ \A h \in B : order[h].status \in OpenOrderStatus /\ hold[h].expiresAt <= now
  /\ order' = [h \in Holds |-> IF h \in B THEN [order[h] EXCEPT !.status = "EXPIRED"] ELSE order[h]]
  /\ ReleaseExpired({hold[h].session : h \in B}, now)
  /\ UNCHANGED <<booking, intent, call, sent, webhook, notices>>

CheckoutNext ==
  \/ HoldStep /\ UNCHANGED checkoutVars
  \/ \E h \in Holds, now \in RecentTimes : CreateCheckoutOrder(h, now)
  \/ \E c \in Callers, h \in Holds, i \in Intents, now \in RecentTimes : CallProvider(c, h, i, now)
  \/ \E c \in Callers : LoseAnswer(c)
  \/ \E c \in Callers : AttachIntent(c)
  \/ \E e \in Events, i \in Intents, status \in PaymentStatus \ {"CREATED"}, ok \in BOOLEAN :
       Emit(e, i, status, ok)
  \/ \E e \in Events : StoreWebhook(e)
  \/ \E e \in Events, now \in RecentTimes : ProcessWebhook(e, now)
  \/ \E e \in Events : ProcessingFails(e)
  \/ \E B \in SUBSET Holds, now \in RecentTimes : ExpireUnpaidOrders(B, now)

CheckoutSpec == CheckoutInit /\ [][CheckoutNext]_allVars

\* Time passes, the expiry jobs of holds and of orders run, and the provider delivers
\* each event until its processing is acknowledged.
CheckoutFairness ==
  /\ WF_allVars(Tick /\ UNCHANGED checkoutVars)
  /\ WF_allVars(\E B \in SUBSET Holds : SweepExpiredHolds(B) /\ UNCHANGED checkoutVars)
  /\ WF_allVars(\E B \in SUBSET Holds, now \in RecentTimes : ExpireUnpaidOrders(B, now))
  /\ \A e \in Events : /\ WF_allVars(StoreWebhook(e))
                       /\ WF_allVars(\E now \in RecentTimes : ProcessWebhook(e, now))

CheckoutFairSpec == CheckoutSpec /\ CheckoutFairness

-----------------------------------------------------------------------------
(* Properties.                                                             *)

\* Money and seats agree: an order has a booking exactly when it is FULFILLED and
\* its hold CONVERTED, and then, or when it is PAID_UNFULFILLED, the charge on its
\* own intent has really succeeded at the provider.
MoneyAndSeatsAgree ==
  \A h \in Holds :
    /\ h \in booking <=> order[h].status = "FULFILLED"
    /\ h \in booking <=> hold[h].status = "CONVERTED"
    /\ order[h].status \in {"FULFILLED", "PAID_UNFULFILLED"} =>
         /\ order[h].payment = "SUCCEEDED"
         /\ order[h].intent # NoIntent
         /\ intent[order[h].intent] = [order |-> h, charge |-> "succeeded"]

\* A success is never put away as done without its booking: the event is PROCESSED
\* only if the order it pays for is FULFILLED, and the attempt SUCCEEDED only if the
\* order says so too.
SuccessIsNeverSilent ==
  /\ \A e \in Events :
       webhook[e].processing = "PROCESSED" /\ sent[e].status = "SUCCEEDED" =>
         order[webhook[e].order].status = "FULFILLED"
  /\ \A h \in Holds : order[h] # NoOrder /\ order[h].payment = "SUCCEEDED" =>
       order[h].status \in {"FULFILLED", "PAID_UNFULFILLED"}

\* What the customer and the house rely on: every seat that is sold belongs to one
\* booking, all of whose seats are sold, and each booking has a charge of its own that
\* succeeded.  Inventory, holds, orders and the provider have to agree on it.
EverySaleIsPaid ==
  /\ \A s \in Seats : inv[s].state = "BOOKED" <=> \E h \in booking : s \in hold[h].seats
  /\ \A h \in booking : intent[order[h].intent].charge = "succeeded"
  /\ \A g, h \in booking : g # h =>
       hold[g].seats \cap hold[h].seats = {} /\ order[g].intent # order[h].intent

\* Retries after lost answers never make a second intent for an order, and the
\* intent an order has is its own.
OneIntentPerOrder ==
  /\ \A i, j \in Intents : intent[i].charge # "none" /\ intent[j].charge # "none"
       /\ intent[i].order = intent[j].order => i = j
  /\ \A h \in Holds : order[h] # NoOrder /\ order[h].intent # NoIntent =>
       intent[order[h].intent].order = h

\* An order expires together with its hold: no EXPIRED order leaves seats HELD.
ExpiredOrderHoldsNothing ==
  \A h \in Holds : order[h].status = "EXPIRED" =>
    /\ hold[h].status \in {"EXPIRED", "RELEASED"}
    /\ \A s \in Seats : inv[s].hold # h

\* The first final outcome of an order and of its payment stands, and an event
\* that is settled stays settled.
FirstOutcomeStep ==
  /\ \A h \in Holds : order[h].status \in TerminalOrderStatus => order'[h].status = order[h].status
  /\ \A h \in Holds : order[h] # NoOrder /\ order[h].payment \in TerminalPaymentStatus =>
       order'[h].payment = order[h].payment
  /\ \A e \in Events : webhook[e].processing \in {"PROCESSED", "REQUIRES_REVIEW"} =>
       webhook'[e] = webhook[e]
FirstOutcomeStands == [][FirstOutcomeStep]_allVars

\* Every step of checkout is, for the tables of SeatHolds, a step of SeatHolds.
ImplementsSeatHolds == Spec

\* Every order due within the modelled time reaches a final status.
OrdersSettle ==
  \A h \in Holds : (order[h].status \in OpenOrderStatus /\ hold[h].expiresAt <= MaxTime)
                     ~> order[h].status \in TerminalOrderStatus

\* docs/architecture.md: when a verified payment cannot be fulfilled safely "the order
\* enters paid-unfulfilled/review state".  A verified success for an attempt's own
\* intent and amount, on an order whose payment has no outcome yet, ends with the
\* order FULFILLED, PAID_UNFULFILLED or REQUIRES_REVIEW.
VerifiedPaymentReachesOrder ==
  \A e \in Events, h \in Holds :
    (/\ webhook[e].processing = "RECEIVED" /\ webhook[e].order = h
     /\ sent[e].status = "SUCCEEDED" /\ sent[e].amountOk
     /\ order[h].payment = "PENDING")
    ~> order[h].status \in {"FULFILLED", "PAID_UNFULFILLED", "REQUIRES_REVIEW"}
=============================================================================
