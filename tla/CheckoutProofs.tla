---------------------------- MODULE CheckoutProofs ----------------------------
(***************************************************************************)
(* Proofs about Checkout, for any number of holds, intents, events and     *)
(* provider calls in flight: that it is a refinement of SeatHolds, and     *)
(* that orders, payments, bookings, holds and the provider's charges agree *)
(* in every reachable state.                                               *)
(***************************************************************************)
EXTENDS Checkout, SeatHoldsRefinement

\* How the rows point at each other.  An order is made for a hold, an answer in flight
\* is about an intent made for its order, and an attached intent, like the link of a
\* stored event, leads back to the order it came from.
OrdersHaveHolds == \A h \in Holds : order[h] # NoOrder => hold[h] # AbsentHold

IntentsAreOwn ==
  /\ \A i, j \in Intents : intent[i].charge # "none" /\ intent[j].charge # "none"
       /\ intent[i].order = intent[j].order => i = j
  /\ \A h \in Holds : order[h] # NoOrder /\ order[h].intent # NoIntent =>
       intent[order[h].intent].charge # "none" /\ intent[order[h].intent].order = h

CallsAreForOrders ==
  \A c \in Callers : call[c] # NoCall =>
    /\ order[call[c].order] # NoOrder
    /\ intent[call[c].intent].charge # "none" /\ intent[call[c].intent].order = call[c].order

EventsTellTheTruth ==
  \A e \in Events : sent[e] # Unsent =>
    /\ intent[sent[e].intent].charge # "none"
    /\ sent[e].status = "SUCCEEDED" => intent[sent[e].intent].charge = "succeeded"

WebhooksAreLinked ==
  \A e \in Events : webhook[e] # NoWebhook =>
    /\ sent[e] # Unsent
    /\ webhook[e].order # NoHold =>
         /\ order[webhook[e].order] # NoOrder
         /\ order[webhook[e].order].intent = sent[e].intent

Wiring == OrdersHaveHolds /\ IntentsAreOwn /\ CallsAreForOrders /\ EventsTellTheTruth
          /\ WebhooksAreLinked

\* An order no intent is attached to has not been touched by any payment.
UnpaidIsUntouched ==
  \A h \in Holds : order[h] # NoOrder /\ order[h].intent = NoIntent =>
    order[h].payment = "CREATED" /\ order[h].status \in {"PENDING", "EXPIRED"}

\* An EXPIRED order's hold has ended unsold.
ExpiredTogether ==
  \A h \in Holds : order[h].status = "EXPIRED" => hold[h].status \in {"EXPIRED", "RELEASED"}

\* An event that was put away as done was linked to an order.
ProcessedIsLinked ==
  \A e \in Events : webhook[e].processing = "PROCESSED" => webhook[e].order \in Holds

Outcomes == MoneyAndSeatsAgree /\ SuccessIsNeverSilent /\ UnpaidIsUntouched /\ ExpiredTogether
            /\ ProcessedIsLinked

CheckoutInv == CheckoutTypeOK /\ Wiring

-----------------------------------------------------------------------------
\* What the type invariant says of one row.
LEMMA CheckoutRows ==
  ASSUME CheckoutTypeOK
  PROVE  /\ \A h \in Holds : order[h] # NoOrder => order[h] \in OrderRow
         /\ \A h \in Holds : order[h] = NoOrder <=> order[h].status = "ABSENT"
         /\ \A i \in Intents : intent[i].charge # "none" =>
              intent[i] \in [order : Holds, charge : {"open", "succeeded", "cancelled"}]
         /\ \A c \in Callers : call[c] # NoCall => call[c] \in [order : Holds, intent : Intents]
         /\ \A e \in Events : sent[e] # Unsent =>
              sent[e] \in [intent : Intents, status : PaymentStatus \ {"CREATED"}, amountOk : BOOLEAN]
         /\ \A e \in Events : webhook[e] # NoWebhook =>
              webhook[e] \in [order : Holds \cup {NoHold}, processing : WebhookStatus]
         /\ \A e \in Events : webhook[e] = NoWebhook <=> webhook[e].processing = "ABSENT"
<1>. USE DEF CheckoutTypeOK
<1>1. /\ \A h \in Holds : order[h] # NoOrder => order[h] \in OrderRow
      /\ \A h \in Holds : order[h] = NoOrder <=> order[h].status = "ABSENT"
  BY DEF OrderRow, NoOrder, OpenOrderStatus, TerminalOrderStatus
<1>2. \A i \in Intents : intent[i].charge # "none" =>
         intent[i] \in [order : Holds, charge : {"open", "succeeded", "cancelled"}]
  OBVIOUS
<1>3. \A c \in Callers : call[c] # NoCall => call[c] \in [order : Holds, intent : Intents]
  OBVIOUS
<1>4. \A e \in Events : sent[e] # Unsent =>
         sent[e] \in [intent : Intents, status : PaymentStatus \ {"CREATED"}, amountOk : BOOLEAN]
  OBVIOUS
<1>5. /\ \A e \in Events : webhook[e] # NoWebhook =>
           webhook[e] \in [order : Holds \cup {NoHold}, processing : WebhookStatus]
      /\ \A e \in Events : webhook[e] = NoWebhook <=> webhook[e].processing = "ABSENT"
  BY DEF NoWebhook, WebhookStatus
<1>. QED  BY <1>1, <1>2, <1>3, <1>4, <1>5

\* A hold that exists stays, with its expiry, and one step of SeatHolds makes it
\* CONVERTED only by converting it.
LEMMA HoldsStay ==
  ASSUME TypeOK, [Next]_vars
  PROVE  /\ \A h \in Holds : hold[h] # AbsentHold => hold'[h] # AbsentHold
         /\ \A h \in Holds : hold[h].status \in TerminalHoldStatus => hold'[h] = hold[h]
<1>1. ASSUME NEW r \in Requests, NEW n \in Holds, CommitAcquire(r, n)
      PROVE  /\ \A h \in Holds : hold[h] # AbsentHold => hold'[h] # AbsentHold
             /\ \A h \in Holds : hold[h].status \in TerminalHoldStatus => hold'[h] = hold[h]
  <2>. DEFINE H == OverdueHolds(pending[r].session, pending[r].now)
  <2>1. H \in SUBSET Holds /\ \A h \in H : Active(h)
    BY OverdueActive
  <2>2. hold[n] = AbsentHold /\ \A h \in Holds \ {n} : hold'[h] = EndHolds(H, "EXPIRED")[h]
    BY <1>1 DEF CommitAcquire, EndHolds
  <2>. HIDE DEF H
  <2>3. \A h \in Holds \ {n} : hold'[h] = IF h \in H THEN [hold[h] EXCEPT !.status = "EXPIRED"] ELSE hold[h]
    BY <2>2 DEF EndHolds
  <2>4. \A h \in H : [hold[h] EXCEPT !.status = "EXPIRED"] # AbsentHold
    BY <2>1, RowTypes DEF Active, HoldRow, AbsentHold
  <2>5. ASSUME NEW h \in Holds
        PROVE  /\ hold[h] # AbsentHold => hold'[h] # AbsentHold
               /\ hold[h].status \in TerminalHoldStatus => hold'[h] = hold[h]
    <3>1. CASE h = n
      BY <2>2, <3>1 DEF TerminalHoldStatus, AbsentHold
    <3>2. CASE h # n /\ h \in H
      BY <2>1, <2>3, <2>4, <3>2 DEF Active, TerminalHoldStatus
    <3>3. CASE h # n /\ h \notin H
      BY <2>3, <3>3
    <3>. QED  BY <3>1, <3>2, <3>3
  <2>. QED  BY <2>5
<1>2. ASSUME NEW H \in SUBSET Holds, \A h \in H : Active(h), NEW st \in TerminalHoldStatus,
             hold' = EndHolds(H, st)
      PROVE  /\ \A h \in Holds : hold[h] # AbsentHold => hold'[h] # AbsentHold
             /\ \A h \in Holds : hold[h].status \in TerminalHoldStatus => hold'[h] = hold[h]
  <2>1. \A h \in H : hold'[h].status = st
    BY <1>2, EndFields
  <2>2. \A h \in Holds \ H : hold'[h] = hold[h]
    BY <1>2, EndFields
  <2>. QED  BY <1>2, <2>1, <2>2 DEF Active, TerminalHoldStatus, AbsentHold
<1>3. ASSUME NEW c \in Holds, NEW now, ConvertHold(c, now)
      PROVE  /\ \A h \in Holds : hold[h] # AbsentHold => hold'[h] # AbsentHold
             /\ \A h \in Holds : hold[h].status \in TerminalHoldStatus => hold'[h] = hold[h]
  <2>1. {c} \in SUBSET Holds /\ \A h \in {c} : Active(h)
    BY <1>3 DEF ConvertHold, CanConvert
  <2>. QED  BY <1>2, <1>3, <2>1 DEF ConvertHold, TerminalHoldStatus
<1>4. CASE Next
  BY <1>1, <1>2, <1>3, <1>4, StepKinds DEF EndsOnly, TerminalHoldStatus
<1>. QED  BY <1>4 DEF vars

-----------------------------------------------------------------------------
\* The verdicts on a verified success that is not safe to fulfil.
PaidVerdict == {"ORDER_TERMINAL_CONFLICT", "HOLD_RELEASED", "HOLD_EXPIRED", "HOLD_NOT_ACTIVE",
                "SESSION_CANCELLED", "SESSION_UNAVAILABLE", "FULFILLMENT_SNAPSHOT_MISMATCH"}

\* An event whose verdict is about an order is linked to one.
LEMMA LinkedOrder ==
  ASSUME CheckoutTypeOK, NEW e \in Events, NEW now, Unsettled(e),
         Verdict(e, now) # "UNKNOWN_PAYMENT_INTENT"
  PROVE  /\ webhook[e] # NoWebhook
         /\ webhook[e] \in [order : Holds \cup {NoHold}, processing : WebhookStatus]
         /\ webhook[e].order \in Holds
<1>1. webhook[e] # NoWebhook
  BY DEF Unsettled, NoWebhook
<1>2. webhook[e] \in [order : Holds \cup {NoHold}, processing : WebhookStatus]
  BY <1>1, CheckoutRows
<1>3. webhook[e].order # NoHold
  BY DEF Verdict
<1>. QED  BY <1>1, <1>2, <1>3

\* What the order of the early returns establishes about the order of an event, by the
\* way through processVerifiedWebhookRecord that it takes.
LEMMA VerdictMeaning ==
  ASSUME NEW e, NEW now, webhook[e].order # NoHold
  PROVE  /\ Verdict(e, now) = "ALREADY_BOOKED" =>
              webhook[e].order \in booking \/ order[webhook[e].order].status = "FULFILLED"
         /\ Verdict(e, now) = "REPEATED" =>
              /\ order[webhook[e].order].payment = sent[e].status
              /\ sent[e].status \in TerminalPaymentStatus
         /\ Verdict(e, now) \in {"AMOUNT_MISMATCH", "NOT_PAID", "STILL_PENDING", "FULFILL"} \cup PaidVerdict =>
              /\ webhook[e].order \notin booking
              /\ order[webhook[e].order].status # "FULFILLED"
              /\ order[webhook[e].order].payment \notin TerminalPaymentStatus
         /\ Verdict(e, now) = "NOT_PAID" => sent[e].status \in {"FAILED", "CANCELLED"}
         /\ Verdict(e, now) \in {"FULFILL"} \cup PaidVerdict => sent[e].status = "SUCCEEDED"
         /\ Verdict(e, now) = "FULFILL" => order[webhook[e].order].status \notin TerminalOrderStatus
  BY DEF Verdict, FulfillmentDecision, PaidVerdict

\* Every step of checkout is a step of SeatHolds or leaves its tables alone.
LEMMA HoldsRefined ==
  ASSUME CheckoutTypeOK, OrdersHaveHolds, [CheckoutNext]_allVars
  PROVE  [Next]_vars
<1>. TypeOK
  BY DEF CheckoutTypeOK
<1>1. ASSUME NEW e \in Events, NEW now \in RecentTimes, ProcessWebhook(e, now)
      PROVE  [Next]_vars
  <2>1. CASE ReviewPaid(e, now)
    <3>1. webhook[e].order \in Holds
      BY <2>1, LinkedOrder DEF ReviewPaid
    <3>2. CASE Active(webhook[e].order) /\ ReleaseExpired({hold[webhook[e].order].session}, now)
      <4>1. hold[webhook[e].order].session \in Sessions
        BY <3>1, <3>2, RowTypes DEF Active, HoldRow
      <4>. QED  BY <3>2, <4>1 DEF Next
    <3>. QED  BY <2>1, <3>2 DEF ReviewPaid
  <2>2. CASE Fulfil(e, now)
    <3>1. webhook[e].order \in Holds
      BY <2>2, LinkedOrder DEF Fulfil
    <3>. QED  BY <2>2, <3>1 DEF Fulfil, Next
  <2>. QED
    BY <1>1, <2>1, <2>2 DEF ProcessWebhook, ReviewUnknownIntent, AcceptDuplicate, ReviewContradiction,
                            ReviewAmount, RecordFailure, RecordPending
<1>2. ASSUME NEW B \in SUBSET Holds, NEW now \in RecentTimes, ExpireUnpaidOrders(B, now)
      PROVE  [Next]_vars
  <2>1. ASSUME NEW h \in B
        PROVE  hold[h].session \in Sessions
    <3>1. order[h] # NoOrder
      BY <1>2 DEF ExpireUnpaidOrders, NoOrder, OpenOrderStatus
    <3>. QED  BY <3>1, RowTypes DEF OrdersHaveHolds, HoldRow
  <2>2. {hold[h].session : h \in B} \in SUBSET Sessions
    BY <2>1
  <2>3. ReleaseExpired({hold[h].session : h \in B}, now)
    BY <1>2 DEF ExpireUnpaidOrders
  <2>. QED  BY <2>2, <2>3 DEF Next
<1>3. CASE HoldStep /\ UNCHANGED checkoutVars
  BY <1>3 DEF Next
<1>4. CASE UNCHANGED allVars
  BY <1>4 DEF allVars
<1>. QED
  BY <1>1, <1>2, <1>3, <1>4
     DEF CheckoutNext, CreateCheckoutOrder, CallProvider, LoseAnswer, AttachIntent, Emit, StoreWebhook,
         ProcessingFails

-----------------------------------------------------------------------------
\* An event's row takes the status p and keeps its link; no other row changes.
SettlesEvent(e, p) ==
  /\ webhook' \in [Events -> [order : Holds \cup {NoHold}, processing : WebhookStatus] \cup {NoWebhook}]
  /\ webhook'[e] # NoWebhook /\ webhook'[e].order = webhook[e].order /\ webhook'[e].processing = p
  /\ \A d \in Events \ {e} : webhook'[d] = webhook[d]

\* Settle does that.
LEMMA SettleEffect ==
  ASSUME CheckoutTypeOK, NEW e \in Events, webhook[e] # NoWebhook,
         NEW p \in WebhookStatus, Settle(e, p)
  PROVE  SettlesEvent(e, p)
<1>1. webhook[e] \in [order : Holds \cup {NoHold}, processing : WebhookStatus]
  BY CheckoutRows
<1>. DEFINE row == [webhook[e] EXCEPT !.processing = p]
<1>2. row \in [order : Holds \cup {NoHold}, processing : WebhookStatus]
      /\ row.order = webhook[e].order /\ row.processing = p
  BY <1>1
<1>3. row # NoWebhook
  BY <1>2 DEF NoWebhook, WebhookStatus
<1>4. webhook' = [webhook EXCEPT ![e] = row]
  BY DEF Settle
<1>. HIDE DEF row
<1>. QED  BY <1>2, <1>3, <1>4 DEF SettlesEvent, CheckoutTypeOK

\* An order takes a status and a payment status and keeps its intent; no other changes.
WritesOrder(h, st, pay) ==
  /\ order' \in [Holds -> OrderRow \cup {NoOrder}]
  /\ order'[h] # NoOrder /\ order'[h].status = st /\ order'[h].payment = pay
  /\ order'[h].intent = order[h].intent
  /\ \A g \in Holds \ {h} : order'[g] = order[g]

\* Writing the two columns of one row does that.
LEMMA WriteEffect ==
  ASSUME CheckoutTypeOK, NEW h \in Holds, order[h] # NoOrder,
         NEW st \in OpenOrderStatus \cup TerminalOrderStatus, NEW pay \in PaymentStatus,
         order' = [order EXCEPT ![h] = [order[h] EXCEPT !.status = st, !.payment = pay]]
  PROVE  WritesOrder(h, st, pay)
<1>1. order[h] \in OrderRow
  BY CheckoutRows
<1>. DEFINE row == [order[h] EXCEPT !.status = st, !.payment = pay]
<1>2. row \in OrderRow /\ row.status = st /\ row.payment = pay /\ row.intent = order[h].intent
  BY <1>1 DEF OrderRow
<1>3. row # NoOrder
  BY <1>2 DEF NoOrder, OpenOrderStatus, TerminalOrderStatus
<1>4. order' = [order EXCEPT ![h] = row]
  OBVIOUS
<1>. HIDE DEF row
<1>. QED  BY <1>2, <1>3, <1>4 DEF WritesOrder, CheckoutTypeOK

\* What the processing of an event e may make of its order h: the new status st, the new
\* payment status pay and the status p the event is put away with.
Outcome(e, h, st, pay, p) ==
  \/ /\ st = "FULFILLED" /\ pay = "SUCCEEDED" /\ p = "PROCESSED"
     /\ sent[e].status = "SUCCEEDED" /\ order[h].status \notin TerminalOrderStatus
  \/ /\ st = "PAID_UNFULFILLED" /\ pay = "SUCCEEDED" /\ p = "REQUIRES_REVIEW"
     /\ sent[e].status = "SUCCEEDED"
  \/ /\ st = "REQUIRES_REVIEW" /\ pay = order[h].payment /\ p = "REQUIRES_REVIEW"
     /\ sent[e].status # "SUCCEEDED"
  \/ /\ st = (IF order[h].status \in OpenOrderStatus THEN "FAILED" ELSE order[h].status)
     /\ pay = sent[e].status /\ pay \in {"FAILED", "CANCELLED"} /\ p = "PROCESSED"
  \/ /\ st = order[h].status /\ pay = "PENDING" /\ p = "PROCESSED" /\ sent[e].status # "SUCCEEDED"

\* The processing that writes an order has one of these outcomes, on an order that the
\* event is linked to, that is not booked and whose payment has no final outcome.
LEMMA OrderWritten ==
  ASSUME CheckoutInv, NEW e \in Events, NEW now, NEW h, h = webhook[e].order, Unsettled(e),
         \/ ReviewAmount(e, now) \/ RecordFailure(e, now) \/ RecordPending(e, now)
         \/ ReviewPaid(e, now) \/ Fulfil(e, now)
  PROVE  /\ h \in Holds /\ order[h] # NoOrder /\ order[h].intent = sent[e].intent /\ sent[e] # Unsent
         /\ webhook[e] # NoWebhook
         /\ h \notin booking /\ order[h].payment \notin TerminalPaymentStatus
         /\ \E st \in OpenOrderStatus \cup TerminalOrderStatus, pay \in PaymentStatus, p \in WebhookStatus :
              /\ WritesOrder(h, st, pay) /\ SettlesEvent(e, p) /\ Outcome(e, h, st, pay, p)
              /\ order[h].status \in TerminalOrderStatus => st = order[h].status
              /\ st = "FULFILLED" <=> Fulfil(e, now)
<1>. DEFINE v == Verdict(e, now)
<1>. CheckoutTypeOK
  BY DEF CheckoutInv
<1>1. v \in {"AMOUNT_MISMATCH", "NOT_PAID", "STILL_PENDING", "FULFILL"} \cup PaidVerdict
  BY DEF ReviewAmount, RecordFailure, RecordPending, ReviewPaid, Fulfil, PaidVerdict
<1>2. webhook[e] # NoWebhook /\ h \in Holds /\ h # NoHold
  BY <1>1, LinkedOrder, NoHoldAssumption DEF PaidVerdict
<1>3. sent[e] # Unsent /\ order[h] # NoOrder /\ order[h].intent = sent[e].intent
  BY <1>2 DEF CheckoutInv, Wiring, WebhooksAreLinked
<1>4. h \notin booking /\ order[h].status # "FULFILLED" /\ order[h].payment \notin TerminalPaymentStatus
  BY <1>1, <1>2, VerdictMeaning
<1>5. order[h] \in OrderRow /\ sent[e].status \in PaymentStatus
  BY <1>2, <1>3, CheckoutRows
<1>6. order[h].status \in OpenOrderStatus \cup TerminalOrderStatus /\ order[h].payment \in PaymentStatus
  BY <1>5 DEF OrderRow
<1>. DEFINE Goal == \E st \in OpenOrderStatus \cup TerminalOrderStatus, pay \in PaymentStatus, p \in WebhookStatus :
              /\ WritesOrder(h, st, pay) /\ SettlesEvent(e, p) /\ Outcome(e, h, st, pay, p)
              /\ order[h].status \in TerminalOrderStatus => st = order[h].status
              /\ st = "FULFILLED" <=> Fulfil(e, now)
<1>7. ASSUME NEW st \in OpenOrderStatus \cup TerminalOrderStatus, NEW pay \in PaymentStatus,
             NEW p \in WebhookStatus,
             order' = [order EXCEPT ![h] = [order[h] EXCEPT !.status = st, !.payment = pay]],
             Settle(e, p), Outcome(e, h, st, pay, p),
             order[h].status \in TerminalOrderStatus => st = order[h].status,
             st = "FULFILLED" <=> Fulfil(e, now)
      PROVE  Goal
  BY <1>2, <1>3, <1>7, SettleEffect, WriteEffect
<1>. SUFFICES Goal
  BY <1>2, <1>3, <1>4
<1>. HIDE DEF Goal
<1>8. ASSUME NEW paid \in BOOLEAN, MarkReview(e, h, paid), paid <=> sent[e].status = "SUCCEEDED", ~Fulfil(e, now)
      PROVE  Goal
  <2>. DEFINE st == IF paid THEN "PAID_UNFULFILLED" ELSE "REQUIRES_REVIEW"
              pay == IF paid THEN "SUCCEEDED" ELSE order[h].payment
  <2>1. st \in OpenOrderStatus \cup TerminalOrderStatus /\ pay \in PaymentStatus
    BY <1>6 DEF TerminalOrderStatus, PaymentStatus, TerminalPaymentStatus
  <2>2. order' = [order EXCEPT ![h] = [order[h] EXCEPT !.status = st, !.payment = pay]]
    BY <1>2, <1>8 DEF MarkReview, CheckoutTypeOK
  <2>3. Settle(e, "REQUIRES_REVIEW") /\ "REQUIRES_REVIEW" \in WebhookStatus
    BY <1>8 DEF MarkReview, WebhookStatus
  <2>4. order[h].status \in TerminalOrderStatus => st = order[h].status
    BY <1>8 DEF MarkReview, OrderWriteAllowed
  <2>5. Outcome(e, h, st, pay, "REQUIRES_REVIEW")
    BY <1>8 DEF Outcome
  <2>6. ~(st = "FULFILLED")
    OBVIOUS
  <2>. HIDE DEF st, pay
  <2>. QED  BY <1>7, <1>8, <2>1, <2>2, <2>3, <2>4, <2>5, <2>6
<1>9. v = "FULFILL" <=> Fulfil(e, now)
  BY DEF ReviewAmount, RecordFailure, RecordPending, ReviewPaid, Fulfil, PaidVerdict
<1>10. CASE ReviewAmount(e, now)
  <2>1. MarkReview(e, h, sent[e].status = "SUCCEEDED") /\ v = "AMOUNT_MISMATCH"
    BY <1>10 DEF ReviewAmount
  <2>. QED  BY <1>8, <1>9, <2>1
<1>11. CASE ReviewPaid(e, now)
  <2>1. MarkReview(e, h, TRUE) /\ v \in PaidVerdict
    BY <1>11 DEF ReviewPaid, PaidVerdict
  <2>2. sent[e].status = "SUCCEEDED" /\ v # "FULFILL"
    BY <1>2, <2>1, VerdictMeaning DEF PaidVerdict
  <2>. QED  BY <1>8, <1>9, <2>1, <2>2
<1>12. CASE RecordFailure(e, now)
  <2>. DEFINE st == IF order[h].status \in OpenOrderStatus THEN "FAILED" ELSE order[h].status
              pay == sent[e].status
  <2>1. v = "NOT_PAID" /\ pay \in {"FAILED", "CANCELLED"}
    BY <1>2, <1>12, VerdictMeaning DEF RecordFailure
  <2>2. st \in OpenOrderStatus \cup TerminalOrderStatus /\ pay \in PaymentStatus
    BY <1>5, <1>6 DEF TerminalOrderStatus
  <2>3. order' = [order EXCEPT ![h] = [order[h] EXCEPT !.status = st, !.payment = pay]]
    BY <1>2, <1>5, <1>12 DEF RecordFailure, CheckoutTypeOK, OrderRow
  <2>4. Settle(e, "PROCESSED") /\ "PROCESSED" \in WebhookStatus
    BY <1>12 DEF RecordFailure, WebhookStatus
  <2>5. order[h].status \in TerminalOrderStatus => st = order[h].status
    BY DEF TerminalOrderStatus, OpenOrderStatus
  <2>6. Outcome(e, h, st, pay, "PROCESSED")
    BY <2>1 DEF Outcome
  <2>7. ~(st = "FULFILLED")
    BY <1>4
  <2>. HIDE DEF st, pay
  <2>. QED  BY <1>7, <1>9, <2>1, <2>2, <2>3, <2>4, <2>5, <2>6, <2>7
<1>13. CASE RecordPending(e, now)
  <2>1. v = "STILL_PENDING"
    BY <1>13 DEF RecordPending
  <2>2. sent[e].status # "SUCCEEDED"
    BY <2>1 DEF Verdict, FulfillmentDecision
  <2>3. order' = [order EXCEPT ![h] = [order[h] EXCEPT !.status = order[h].status, !.payment = "PENDING"]]
    BY <1>2, <1>5, <1>13 DEF RecordPending, CheckoutTypeOK, OrderRow
  <2>4. Settle(e, "PROCESSED") /\ "PROCESSED" \in WebhookStatus /\ "PENDING" \in PaymentStatus
    BY <1>13 DEF RecordPending, WebhookStatus, PaymentStatus
  <2>5. Outcome(e, h, order[h].status, "PENDING", "PROCESSED")
    BY <2>2 DEF Outcome
  <2>. QED  BY <1>4, <1>6, <1>7, <1>9, <2>1, <2>3, <2>4, <2>5
<1>14. CASE Fulfil(e, now)
  <2>1. v = "FULFILL"
    BY <1>14 DEF Fulfil
  <2>2. sent[e].status = "SUCCEEDED" /\ order[h].status \notin TerminalOrderStatus
    BY <1>2, <2>1, VerdictMeaning
  <2>3. order' = [order EXCEPT ![h] = [order[h] EXCEPT !.status = "FULFILLED", !.payment = "SUCCEEDED"]]
    BY <1>2, <1>14 DEF Fulfil, CheckoutTypeOK
  <2>4. /\ Settle(e, "PROCESSED") /\ "PROCESSED" \in WebhookStatus
        /\ "SUCCEEDED" \in PaymentStatus /\ "FULFILLED" \in TerminalOrderStatus
    BY <1>14 DEF Fulfil, WebhookStatus, PaymentStatus, TerminalPaymentStatus, TerminalOrderStatus
  <2>5. Outcome(e, h, "FULFILLED", "SUCCEEDED", "PROCESSED")
    BY <2>2 DEF Outcome
  <2>. QED  BY <1>7, <1>14, <2>2, <2>3, <2>4, <2>5
<1>. QED  BY <1>10, <1>11, <1>12, <1>13, <1>14

-----------------------------------------------------------------------------
\* Orders and event rows may take other statuses; who they point at stays.
KeepsLinks ==
  /\ \A h \in Holds : order'[h] = NoOrder <=> order[h] = NoOrder
  /\ \A h \in Holds : order[h] # NoOrder => order'[h].intent = order[h].intent
  /\ \A e \in Events : webhook'[e] = NoWebhook <=> webhook[e] = NoWebhook
  /\ \A e \in Events : webhook[e] # NoWebhook => webhook'[e].order = webhook[e].order
  /\ UNCHANGED <<intent, call, sent>>

\* A step that keeps the links keeps the wiring.
LEMMA KeepsWiring ==
  ASSUME CheckoutInv, KeepsLinks, \A h \in Holds : hold[h] # AbsentHold => hold'[h] # AbsentHold
  PROVE  Wiring'
<1>. CheckoutTypeOK
  BY DEF CheckoutInv
<1>. USE DEF CheckoutInv, Wiring, KeepsLinks
<1>1. OrdersHaveHolds'
  BY DEF OrdersHaveHolds
<1>2. IntentsAreOwn'
  BY DEF IntentsAreOwn
<1>3. CallsAreForOrders'
  <2>. SUFFICES ASSUME NEW c \in Callers, call[c] # NoCall
                PROVE  /\ order'[call[c].order] # NoOrder
                       /\ intent[call[c].intent].charge # "none"
                       /\ intent[call[c].intent].order = call[c].order
    BY DEF CallsAreForOrders
  <2>1. call[c].order \in Holds
    BY CheckoutRows
  <2>. QED  BY <2>1 DEF CallsAreForOrders
<1>4. EventsTellTheTruth'
  BY DEF EventsTellTheTruth
<1>5. WebhooksAreLinked'
  <2>. SUFFICES ASSUME NEW e \in Events, webhook[e] # NoWebhook
                PROVE  /\ sent[e] # Unsent
                       /\ webhook[e].order # NoHold =>
                            /\ order'[webhook[e].order] # NoOrder
                            /\ order'[webhook[e].order].intent = sent[e].intent
    BY DEF WebhooksAreLinked
  <2>1. webhook[e].order \in Holds \cup {NoHold}
    BY CheckoutRows
  <2>. QED  BY <2>1 DEF WebhooksAreLinked
<1>. QED  BY <1>1, <1>2, <1>3, <1>4, <1>5

\* The types of the tables of checkout, without those of SeatHolds.
OrderTypes == order \in [Holds -> OrderRow \cup {NoOrder}]
WebhookTypes ==
  webhook \in [Events -> [order : Holds \cup {NoHold}, processing : WebhookStatus] \cup {NoWebhook}]
NoticeTypes == booking \in SUBSET Holds /\ notices \in SUBSET (NoticeType \X (Holds \cup Events))

\* The processing of an event keeps types and links.
LEMMA ProcessKeeps ==
  ASSUME CheckoutInv, NEW e \in Events, NEW now, ProcessWebhook(e, now)
  PROVE  OrderTypes' /\ WebhookTypes' /\ NoticeTypes' /\ KeepsLinks
<1>. CheckoutTypeOK
  BY DEF CheckoutInv
<1>. DEFINE h == webhook[e].order
<1>1. Unsettled(e) /\ webhook[e] # NoWebhook
  <2>1. Unsettled(e)
    BY DEF ProcessWebhook, ReviewUnknownIntent, AcceptDuplicate, ReviewContradiction, ReviewAmount,
           RecordFailure, RecordPending, ReviewPaid, Fulfil
  <2>. QED  BY <2>1 DEF Unsettled, NoWebhook
<1>2. UNCHANGED <<intent, call, sent>>
  BY DEF ProcessWebhook, ReviewUnknownIntent, AcceptDuplicate, ReviewContradiction, ReviewAmount,
         RecordFailure, RecordPending, ReviewPaid, Fulfil
<1>3. CASE \/ ReviewAmount(e, now) \/ RecordFailure(e, now) \/ RecordPending(e, now)
           \/ ReviewPaid(e, now) \/ Fulfil(e, now)
  <2>1. PICK st \in OpenOrderStatus \cup TerminalOrderStatus, pay \in PaymentStatus, p \in WebhookStatus :
            WritesOrder(h, st, pay) /\ SettlesEvent(e, p)
    BY <1>1, <1>3, OrderWritten
  <2>2. h \in Holds /\ order[h] # NoOrder
    BY <1>1, <1>3, OrderWritten
  <2>. HIDE DEF h
  <2>3. KeepsLinks
    BY <1>1, <1>2, <2>1, <2>2 DEF KeepsLinks, WritesOrder, SettlesEvent, h
  <2>4. NoticeTypes'
    <3>. USE DEF NoticeTypes, NoticeType, CheckoutTypeOK, h
    <3>1. CASE ReviewAmount(e, now)
      BY <3>1, <2>2 DEF ReviewAmount, MarkReview
    <3>2. CASE RecordFailure(e, now)
      BY <3>2, <2>2 DEF RecordFailure
    <3>3. CASE RecordPending(e, now)
      BY <3>3, <2>2 DEF RecordPending
    <3>4. CASE ReviewPaid(e, now)
      BY <3>4, <2>2 DEF ReviewPaid, MarkReview
    <3>5. CASE Fulfil(e, now)
      BY <3>5, <2>2 DEF Fulfil
    <3>. QED  BY <1>3, <3>1, <3>2, <3>3, <3>4, <3>5
  <2>. QED  BY <2>1, <2>3, <2>4 DEF OrderTypes, WebhookTypes, WritesOrder, SettlesEvent
<1>4. CASE ReviewUnknownIntent(e, now) \/ AcceptDuplicate(e, now) \/ ReviewContradiction(e, now)
  <2>1. PICK p \in WebhookStatus : Settle(e, p)
    BY <1>4 DEF ReviewUnknownIntent, AcceptDuplicate, ReviewContradiction, WebhookStatus
  <2>2. SettlesEvent(e, p)
    BY <1>1, <2>1, SettleEffect
  <2>3. UNCHANGED <<order, booking>>
    BY <1>4 DEF ReviewUnknownIntent, AcceptDuplicate, ReviewContradiction
  <2>4. KeepsLinks
    BY <1>1, <1>2, <2>2, <2>3 DEF KeepsLinks, SettlesEvent
  <2>5. NoticeTypes'
    BY <1>4 DEF ReviewUnknownIntent, AcceptDuplicate, ReviewContradiction, NoticeTypes, NoticeType,
                CheckoutTypeOK
  <2>. QED  BY <2>2, <2>3, <2>4, <2>5 DEF OrderTypes, WebhookTypes, SettlesEvent, CheckoutTypeOK
<1>. QED  BY <1>3, <1>4 DEF ProcessWebhook

\* Expiring a batch of orders keeps types and links.
LEMMA ExpiryKeeps ==
  ASSUME CheckoutInv, NEW B \in SUBSET Holds, NEW now, ExpireUnpaidOrders(B, now)
  PROVE  OrderTypes' /\ WebhookTypes' /\ NoticeTypes' /\ KeepsLinks
<1>. CheckoutTypeOK
  BY DEF CheckoutInv
<1>1. order' = [h \in Holds |-> IF h \in B THEN [order[h] EXCEPT !.status = "EXPIRED"] ELSE order[h]]
  BY DEF ExpireUnpaidOrders
<1>2. ASSUME NEW h \in B
      PROVE  /\ order[h] # NoOrder
             /\ [order[h] EXCEPT !.status = "EXPIRED"] \in OrderRow
             /\ [order[h] EXCEPT !.status = "EXPIRED"] # NoOrder
             /\ [order[h] EXCEPT !.status = "EXPIRED"].intent = order[h].intent
  <2>1. order[h] # NoOrder
    BY DEF ExpireUnpaidOrders, NoOrder, OpenOrderStatus
  <2>2. order[h] \in OrderRow
    BY <2>1, CheckoutRows
  <2>. QED  BY <2>1, <2>2 DEF OrderRow, NoOrder, TerminalOrderStatus
<1>3. UNCHANGED <<booking, intent, call, sent, webhook, notices>>
  BY DEF ExpireUnpaidOrders
<1>. QED
  BY <1>1, <1>2, <1>3 DEF OrderTypes, WebhookTypes, NoticeTypes, KeepsLinks, CheckoutTypeOK

\* Every step of checkout keeps its types and its wiring.
LEMMA CheckoutInvStep ==
  ASSUME CheckoutInv, [CheckoutNext]_allVars
  PROVE  CheckoutInv'
<1>. CheckoutTypeOK /\ TypeOK /\ OrdersHaveHolds
  BY DEF CheckoutInv, CheckoutTypeOK, Wiring
<1>hold. TypeOK' /\ \A h \in Holds : hold[h] # AbsentHold => hold'[h] # AbsentHold
  <2>1. [Next]_vars
    BY HoldsRefined
  <2>2. UNCHANGED vars => TypeOK'
    BY DEF TypeOK, vars
  <2>. QED  BY <2>1, <2>2, TypeStep, HoldsStay
<1>keep. ASSUME OrderTypes' /\ WebhookTypes' /\ NoticeTypes' /\ KeepsLinks
         PROVE  CheckoutInv'
  <2>1. CheckoutTypeOK'
    BY <1>hold, <1>keep DEF CheckoutTypeOK, OrderTypes, WebhookTypes, NoticeTypes, KeepsLinks
  <2>. QED  BY <1>hold, <1>keep, <2>1, KeepsWiring DEF CheckoutInv
<1>1. CASE UNCHANGED checkoutVars
  BY <1>1, <1>keep DEF checkoutVars, OrderTypes, WebhookTypes, NoticeTypes, KeepsLinks, CheckoutTypeOK
<1>2. ASSUME NEW h \in Holds, NEW now, CreateCheckoutOrder(h, now)
      PROVE  CheckoutInv'
  <2>. DEFINE row == [status |-> "PENDING", payment |-> "CREATED", intent |-> NoIntent]
  <2>1. row \in OrderRow /\ row # NoOrder /\ row.intent = NoIntent
    BY DEF OrderRow, NoOrder, OpenOrderStatus, PaymentStatus
  <2>2. order' = [order EXCEPT ![h] = row] /\ order[h] = NoOrder /\ hold[h] # AbsentHold
    BY <1>2 DEF CreateCheckoutOrder, Active, AbsentHold
  <2>3. UNCHANGED <<vars, booking, intent, call, sent, webhook>>
    BY <1>2 DEF CreateCheckoutOrder
  <2>. HIDE DEF row
  <2>4. /\ order'[h] = row /\ \A g \in Holds \ {h} : order'[g] = order[g]
        /\ order' \in [Holds -> OrderRow \cup {NoOrder}]
    BY <2>1, <2>2 DEF CheckoutTypeOK
  <2>5. CheckoutTypeOK'
    <3>1. notices' \in SUBSET (NoticeType \X (Holds \cup Events))
      BY <1>2 DEF CreateCheckoutOrder, CheckoutTypeOK, NoticeType
    <3>. QED  BY <1>hold, <2>3, <2>4, <3>1 DEF CheckoutTypeOK
  <2>6. Wiring'
    <3>. USE <2>3 DEF CheckoutInv, Wiring
    <3>1. OrdersHaveHolds'
      BY <1>hold, <2>2, <2>4 DEF OrdersHaveHolds
    <3>2. IntentsAreOwn'
      BY <2>1, <2>4 DEF IntentsAreOwn
    <3>3. CallsAreForOrders'
      BY <2>1, <2>4, CheckoutRows DEF CallsAreForOrders
    <3>4. EventsTellTheTruth'
      BY DEF EventsTellTheTruth
    <3>5. WebhooksAreLinked'
      BY <2>2, <2>4, CheckoutRows DEF WebhooksAreLinked
    <3>. QED  BY <3>1, <3>2, <3>3, <3>4, <3>5
  <2>. QED  BY <2>5, <2>6 DEF CheckoutInv
<1>3. ASSUME NEW c \in Callers, NEW h \in Holds, NEW i \in Intents, NEW now, CallProvider(c, h, i, now)
      PROVE  CheckoutInv'
  <2>1. /\ order[h] # NoOrder /\ order[h].intent = NoIntent
        /\ IntentFor(h, i)
        /\ UNCHANGED <<vars, order, booking, sent, webhook, notices>>
    BY <1>3 DEF CallProvider
  <2>2. /\ \A j \in Intents \ {i} : intent'[j] = intent[j]
        /\ intent[i].charge = "none" => intent'[i] = [order |-> h, charge |-> "open"]
        /\ intent[i].charge # "none" => intent'[i] = intent[i] /\ intent[i].order = h
        /\ intent[i].charge = "none" => \A j \in Intents : intent[j].charge # "none" => intent[j].order # h
    BY <1>3 DEF CallProvider, IntentFor, CheckoutTypeOK
  <2>3. call' = [call EXCEPT ![c] = [order |-> h, intent |-> i]]
    BY <1>3 DEF CallProvider
  <2>4. CheckoutTypeOK'
    <3>1. intent' \in [Intents -> [order : Holds, charge : {"open", "succeeded", "cancelled"}]
                                    \cup {[charge |-> "none"]}]
      BY <1>3 DEF CallProvider, CheckoutTypeOK
    <3>2. call' \in [Callers -> [order : Holds, intent : Intents] \cup {NoCall}]
      BY <2>3 DEF CheckoutTypeOK
    <3>. QED  BY <1>hold, <2>1, <3>1, <3>2 DEF CheckoutTypeOK
  <2>5. intent'[i].charge # "none" /\ intent'[i].order = h
    BY <2>2
  <2>6. \A j \in Intents : intent[j].charge # "none" => intent'[j] = intent[j]
    BY <2>2
  <2>7. Wiring'
    <3>. USE <2>1 DEF CheckoutInv, Wiring
    <3>1. OrdersHaveHolds'
      BY <1>hold DEF OrdersHaveHolds
    <3>2. IntentsAreOwn'
      <4>1. ASSUME NEW j \in Intents, NEW k \in Intents, intent'[j].charge # "none", intent'[k].charge # "none",
                   intent'[j].order = intent'[k].order
            PROVE  j = k
        BY <2>2, <2>5, <4>1 DEF IntentsAreOwn
      <4>2. ASSUME NEW g \in Holds, order[g] # NoOrder, order[g].intent # NoIntent
            PROVE  intent'[order[g].intent].charge # "none" /\ intent'[order[g].intent].order = g
        <5>1. order[g].intent \in Intents
          BY <4>2, CheckoutRows DEF OrderRow
        <5>2. intent[order[g].intent].charge # "none" /\ intent[order[g].intent].order = g
          BY <4>2 DEF IntentsAreOwn
        <5>. QED  BY <2>6, <5>1, <5>2
      <4>. QED  BY <4>1, <4>2 DEF IntentsAreOwn
    <3>3. CallsAreForOrders'
      <4>. SUFFICES ASSUME NEW d \in Callers, call'[d] # NoCall
                    PROVE  /\ order[call'[d].order] # NoOrder
                           /\ intent'[call'[d].intent].charge # "none"
                           /\ intent'[call'[d].intent].order = call'[d].order
        BY DEF CallsAreForOrders
      <4>1. CASE d = c
        BY <2>3, <2>5, <4>1 DEF CheckoutTypeOK
      <4>2. CASE d # c
        <5>1. call'[d] = call[d] /\ call[d].intent \in Intents
          BY <2>3, <4>2, CheckoutRows DEF CheckoutTypeOK
        <5>. QED  BY <2>6, <5>1 DEF CallsAreForOrders
      <4>. QED  BY <4>1, <4>2
    <3>4. EventsTellTheTruth'
      <4>1. \A e \in Events : sent[e] # Unsent => sent[e].intent \in Intents
        BY CheckoutRows
      <4>. QED  BY <2>6, <4>1 DEF EventsTellTheTruth
    <3>5. WebhooksAreLinked'
      BY DEF WebhooksAreLinked
    <3>. QED  BY <3>1, <3>2, <3>3, <3>4, <3>5
  <2>. QED  BY <2>4, <2>7 DEF CheckoutInv
<1>4. ASSUME NEW c \in Callers, LoseAnswer(c)
      PROVE  CheckoutInv'
  <2>1. /\ call' \in [Callers -> [order : Holds, intent : Intents] \cup {NoCall}]
        /\ \A d \in Callers : call'[d] # NoCall => call'[d] = call[d]
    BY <1>4 DEF LoseAnswer, CheckoutTypeOK
  <2>2. UNCHANGED <<vars, order, booking, intent, sent, webhook, notices>>
    BY <1>4 DEF LoseAnswer
  <2>3. CheckoutTypeOK'
    BY <1>hold, <2>1, <2>2 DEF CheckoutTypeOK
  <2>4. CallsAreForOrders'
    BY <2>1, <2>2 DEF CheckoutInv, Wiring, CallsAreForOrders
  <2>. QED
    BY <1>hold, <2>2, <2>3, <2>4
       DEF CheckoutInv, Wiring, OrdersHaveHolds, IntentsAreOwn, EventsTellTheTruth, WebhooksAreLinked
<1>5. ASSUME NEW c \in Callers, AttachIntent(c)
      PROVE  CheckoutInv'
  <2>. DEFINE h == call[c].order
  <2>1. /\ call[c] # NoCall /\ h \in Holds /\ call[c].intent \in Intents
        /\ UNCHANGED <<vars, booking, intent, sent, webhook>>
    BY <1>5, CheckoutRows DEF AttachIntent
  <2>2. /\ call' \in [Callers -> [order : Holds, intent : Intents] \cup {NoCall}]
        /\ \A d \in Callers : call'[d] # NoCall => call'[d] = call[d]
    BY <1>5 DEF AttachIntent, CheckoutTypeOK
  <2>3. /\ order[h] # NoOrder /\ order[h] \in OrderRow
        /\ intent[call[c].intent].charge # "none" /\ intent[call[c].intent].order = h
    BY <2>1, CheckoutRows DEF CheckoutInv, Wiring, CallsAreForOrders
  <2>4. /\ order' \in [Holds -> OrderRow \cup {NoOrder}]
        /\ \A g \in Holds \ {h} : order'[g] = order[g]
        /\ order'[h] # NoOrder
        /\ order[h].intent # NoIntent => order'[h] = order[h]
        /\ order[h].intent = NoIntent => order'[h].intent = call[c].intent
    <3>1. CASE order[h].intent # NoIntent
      BY <1>5, <2>3, <3>1 DEF AttachIntent, CheckoutTypeOK
    <3>2. CASE order[h].intent = NoIntent
      <4>. DEFINE row == [status |-> IF order[h].status = "PENDING" THEN "PAYMENT_PENDING" ELSE order[h].status,
                          payment |-> "PENDING", intent |-> call[c].intent]
      <4>1. order' = [order EXCEPT ![h] = row]
        BY <1>5, <3>2 DEF AttachIntent
      <4>2. row \in OrderRow /\ row.intent = call[c].intent
        BY <2>1, <2>3 DEF OrderRow, OpenOrderStatus, PaymentStatus
      <4>3. row # NoOrder
        BY <4>2 DEF OrderRow, NoOrder, OpenOrderStatus, TerminalOrderStatus
      <4>. HIDE DEF row
      <4>. QED  BY <2>1, <3>2, <4>1, <4>2, <4>3 DEF CheckoutTypeOK
    <3>. QED  BY <3>1, <3>2
  <2>5. notices' \in SUBSET (NoticeType \X (Holds \cup Events))
    BY <1>5, <2>1 DEF AttachIntent, CheckoutTypeOK, NoticeType
  <2>6. CheckoutTypeOK'
    BY <1>hold, <2>1, <2>2, <2>4, <2>5 DEF CheckoutTypeOK
  <2>. HIDE DEF h
  <2>7. Wiring'
    <3>. USE <2>1 DEF CheckoutInv, Wiring
    <3>1. OrdersHaveHolds'
      BY <1>hold, <2>3, <2>4 DEF OrdersHaveHolds
    <3>2. IntentsAreOwn'
      BY <2>3, <2>4 DEF IntentsAreOwn
    <3>3. CallsAreForOrders'
      <4>1. \A d \in Callers : call'[d] # NoCall => call[d].order \in Holds
        BY <2>2, CheckoutRows
      <4>. QED  BY <2>2, <2>4, <4>1 DEF CallsAreForOrders
    <3>4. EventsTellTheTruth'
      BY DEF EventsTellTheTruth
    <3>5. WebhooksAreLinked'
      <4>. SUFFICES ASSUME NEW e \in Events, webhook[e] # NoWebhook, webhook[e].order # NoHold
                    PROVE  /\ order'[webhook[e].order] # NoOrder
                           /\ order'[webhook[e].order].intent = sent[e].intent
        BY DEF WebhooksAreLinked
      <4>1. webhook[e].order \in Holds /\ sent[e].intent \in Intents /\ order[webhook[e].order].intent = sent[e].intent
            /\ order[webhook[e].order] # NoOrder
        BY CheckoutRows DEF WebhooksAreLinked
      <4>2. sent[e].intent # NoIntent
        BY <4>1, NoIntentAssumption
      <4>. QED  BY <2>4, <4>1, <4>2
    <3>. QED  BY <3>1, <3>2, <3>3, <3>4, <3>5
  <2>. QED  BY <2>6, <2>7 DEF CheckoutInv
<1>6. ASSUME NEW e \in Events, NEW i \in Intents, NEW st \in PaymentStatus \ {"CREATED"}, NEW ok \in BOOLEAN,
             Emit(e, i, st, ok)
      PROVE  CheckoutInv'
  <2>1. /\ intent[i].charge \in {"open", "succeeded"} /\ sent[e] = Unsent
        /\ intent[i].charge = "succeeded" => st = "SUCCEEDED"
        /\ UNCHANGED <<vars, order, booking, call, webhook, notices>>
    BY <1>6 DEF Emit
  <2>2. intent[i] \in [order : Holds, charge : {"open", "succeeded", "cancelled"}]
    BY <2>1, CheckoutRows
  <2>3. PICK ch \in {"open", "succeeded", "cancelled"} :
          /\ intent' = [intent EXCEPT ![i] = [intent[i] EXCEPT !.charge = ch]]
          /\ st = "SUCCEEDED" <=> ch = "succeeded"
    <3>. DEFINE ch == CASE st = "SUCCEEDED" -> "succeeded" [] st = "CANCELLED" -> "cancelled" [] OTHER -> intent[i].charge
    <3>1. intent' = [intent EXCEPT ![i] = [intent[i] EXCEPT !.charge = ch]]
      BY <1>6 DEF Emit
    <3>2. ch \in {"open", "succeeded", "cancelled"} /\ (st = "SUCCEEDED" <=> ch = "succeeded")
      BY <2>1
    <3>. QED  BY <3>1, <3>2
  <2>4. /\ intent' \in [Intents -> [order : Holds, charge : {"open", "succeeded", "cancelled"}]
                                     \cup {[charge |-> "none"]}]
        /\ intent'[i].charge = ch /\ intent'[i].order = intent[i].order
        /\ \A j \in Intents \ {i} : intent'[j] = intent[j]
    BY <2>2, <2>3 DEF CheckoutTypeOK
  <2>5. /\ sent' \in [Events -> [intent : Intents, status : PaymentStatus \ {"CREATED"}, amountOk : BOOLEAN]
                                   \cup {Unsent}]
        /\ sent'[e] = [intent |-> i, status |-> st, amountOk |-> ok]
        /\ \A d \in Events \ {e} : sent'[d] = sent[d]
    BY <1>6 DEF Emit, CheckoutTypeOK
  <2>6. CheckoutTypeOK'
    BY <1>hold, <2>1, <2>4, <2>5 DEF CheckoutTypeOK
  <2>7. \A j \in Intents : /\ intent'[j].charge # "none" <=> intent[j].charge # "none"
                           /\ intent[j].charge # "none" => intent'[j].order = intent[j].order
                           /\ intent[j].charge = "succeeded" => intent'[j].charge = "succeeded"
    BY <2>1, <2>3, <2>4
  <2>8. Wiring'
    <3>. USE <2>1 DEF CheckoutInv, Wiring
    <3>1. OrdersHaveHolds'
      BY <1>hold DEF OrdersHaveHolds
    <3>2. IntentsAreOwn'
      <4>1. \A h \in Holds : order[h] # NoOrder /\ order[h].intent # NoIntent => order[h].intent \in Intents
        BY CheckoutRows DEF OrderRow
      <4>. QED  BY <2>7, <4>1 DEF IntentsAreOwn
    <3>3. CallsAreForOrders'
      <4>1. \A c \in Callers : call[c] # NoCall => call[c].intent \in Intents
        BY CheckoutRows
      <4>. QED  BY <2>7, <4>1 DEF CallsAreForOrders
    <3>4. EventsTellTheTruth'
      <4>. SUFFICES ASSUME NEW d \in Events, sent'[d] # Unsent
                    PROVE  /\ intent'[sent'[d].intent].charge # "none"
                           /\ sent'[d].status = "SUCCEEDED" => intent'[sent'[d].intent].charge = "succeeded"
        BY DEF EventsTellTheTruth
      <4>1. CASE d = e
        BY <2>3, <2>4, <2>5, <4>1
      <4>2. CASE d # e
        <5>1. sent'[d] = sent[d] /\ sent[d].intent \in Intents
          BY <2>5, <4>2, CheckoutRows
        <5>. QED  BY <2>7, <5>1 DEF EventsTellTheTruth
      <4>. QED  BY <4>1, <4>2
    <3>5. WebhooksAreLinked'
      <4>1. \A d \in Events : webhook[d] # NoWebhook => d # e
        BY DEF WebhooksAreLinked
      <4>. QED  BY <2>5, <4>1 DEF WebhooksAreLinked
    <3>. QED  BY <3>1, <3>2, <3>3, <3>4, <3>5
  <2>. QED  BY <2>6, <2>8 DEF CheckoutInv
<1>7. ASSUME NEW e \in Events, StoreWebhook(e)
      PROVE  CheckoutInv'
  <2>1. PICK h \in Holds \cup {NoHold} :
          /\ h \in Holds => order[h] # NoOrder /\ order[h].intent = sent[e].intent
          /\ webhook' = [webhook EXCEPT ![e] = [order |-> h, processing |-> "RECEIVED"]]
    BY <1>7 DEF StoreWebhook
  <2>2. sent[e] # Unsent /\ UNCHANGED <<vars, order, booking, intent, call, sent, notices>>
    BY <1>7 DEF StoreWebhook
  <2>3. /\ webhook' \in [Events -> [order : Holds \cup {NoHold}, processing : WebhookStatus] \cup {NoWebhook}]
        /\ webhook'[e].order = h /\ \A d \in Events \ {e} : webhook'[d] = webhook[d]
    BY <2>1 DEF CheckoutTypeOK, WebhookStatus
  <2>4. CheckoutTypeOK'
    BY <1>hold, <2>2, <2>3 DEF CheckoutTypeOK
  <2>5. WebhooksAreLinked'
    BY <2>1, <2>2, <2>3, NoHoldAssumption DEF CheckoutInv, Wiring, WebhooksAreLinked
  <2>. QED
    BY <1>hold, <2>2, <2>4, <2>5
       DEF CheckoutInv, Wiring, OrdersHaveHolds, IntentsAreOwn, EventsTellTheTruth, CallsAreForOrders
<1>8. ASSUME NEW e \in Events, NEW now, ProcessWebhook(e, now)
      PROVE  CheckoutInv'
  BY <1>8, <1>keep, ProcessKeeps
<1>9. ASSUME NEW e \in Events, ProcessingFails(e)
      PROVE  CheckoutInv'
  <2>1. webhook[e] # NoWebhook
    BY <1>9 DEF ProcessingFails, Unsettled, NoWebhook
  <2>2. SettlesEvent(e, "FAILED")
    BY <1>9, <2>1, SettleEffect DEF ProcessingFails, WebhookStatus
  <2>3. OrderTypes' /\ WebhookTypes' /\ NoticeTypes' /\ KeepsLinks
    BY <1>9, <2>1, <2>2 DEF ProcessingFails, OrderTypes, WebhookTypes, NoticeTypes, KeepsLinks, SettlesEvent,
                      CheckoutTypeOK
  <2>. QED  BY <1>keep, <2>3
<1>10. ASSUME NEW B \in SUBSET Holds, NEW now, ExpireUnpaidOrders(B, now)
       PROVE  CheckoutInv'
  BY <1>10, <1>keep, ExpiryKeeps
<1>11. CASE UNCHANGED allVars
  BY <1>1, <1>11 DEF allVars, checkoutVars
<1>. QED
  BY <1>1, <1>2, <1>3, <1>4, <1>5, <1>6, <1>7, <1>8, <1>9, <1>10, <1>11 DEF CheckoutNext

\* Types and wiring hold in every reachable state.
LEMMA CheckoutInvariant == CheckoutSpec => []CheckoutInv
<1>1. CheckoutInit => CheckoutInv
  <2>. SUFFICES ASSUME CheckoutInit PROVE CheckoutInv
    OBVIOUS
  <2>1. TypeOK
    BY DEF CheckoutInit, Init, TypeOK, EventStatus, SessionStatus, InvRow, AvailableRow, Request
  <2>2. CheckoutTypeOK
    BY <2>1 DEF CheckoutInit, CheckoutTypeOK
  <2>3. Wiring
    BY DEF CheckoutInit, Wiring, OrdersHaveHolds, IntentsAreOwn, CallsAreForOrders, EventsTellTheTruth,
           WebhooksAreLinked
  <2>. QED  BY <2>2, <2>3 DEF CheckoutInv
<1>2. CheckoutInv /\ [CheckoutNext]_allVars => CheckoutInv'
  BY CheckoutInvStep
<1>. QED  BY <1>1, <1>2, PTL DEF CheckoutSpec

\* In every reachable state the tables of orders, bookings and webhook events, the
\* provider's intents and the tables below them have the values the schema gives them.
THEOREM CheckoutTypes == CheckoutSpec => []CheckoutTypeOK
<1>1. CheckoutInv => CheckoutTypeOK
  BY DEF CheckoutInv
<1>. QED  BY <1>1, CheckoutInvariant, PTL

\* Checkout implements SeatHolds: orders, payments and webhooks reach the tables of
\* inventory and holds only through its operations, so all that is proved of it holds.
THEOREM CheckoutRefinement == CheckoutSpec => ImplementsSeatHolds
<1>1. CheckoutInit => Init
  BY DEF CheckoutInit
<1>2. CheckoutInv /\ [CheckoutNext]_allVars => [Next]_vars
  BY HoldsRefined DEF CheckoutInv, Wiring
<1>. QED  BY <1>1, <1>2, CheckoutInvariant, PTL DEF CheckoutSpec, Spec, ImplementsSeatHolds

\* Rows and holds agree under checkout too.
LEMMA CheckoutHolds == CheckoutSpec => []IndInv
  BY CheckoutRefinement, Invariant DEF ImplementsSeatHolds

\* However often an answer of the provider is lost and the call repeated, an order has one
\* intent at the provider, and the intent attached to an order was made for it.
THEOREM NoSecondIntent == CheckoutSpec => []OneIntentPerOrder
<1>1. CheckoutInv => OneIntentPerOrder
  BY DEF CheckoutInv, Wiring, IntentsAreOwn, OneIntentPerOrder
<1>. QED  BY <1>1, CheckoutInvariant, PTL

-----------------------------------------------------------------------------
\* No step of HoldStep, and no expiry, sells seats.
LEMMA OnlyConvertSells ==
  ASSUME TypeOK, HoldStep \/ \E SS \in SUBSET Sessions, now \in RecentTimes : ReleaseExpired(SS, now)
  PROVE  \A h \in Holds : hold'[h].status = "CONVERTED" => hold[h].status = "CONVERTED"
<1>. DEFINE Goal == \A h \in Holds : hold'[h].status = "CONVERTED" => hold[h].status = "CONVERTED"
<1>end. ASSUME NEW H \in SUBSET Holds, \A h \in H : Active(h), NEW st \in {"RELEASED", "EXPIRED"},
               hold' = EndHolds(H, st)
        PROVE  Goal
  <2>1. st \in TerminalHoldStatus
    BY DEF TerminalHoldStatus
  <2>. QED  BY <1>end, <2>1, EndFields
<1>1. ASSUME NEW r \in Requests, NEW n \in Holds, CommitAcquire(r, n)
      PROVE  Goal
  <2>. DEFINE H == OverdueHolds(pending[r].session, pending[r].now)
  <2>1. H \in SUBSET Holds /\ \A h \in H : Active(h)
    BY OverdueActive
  <2>2. hold'[n].status = "ACTIVE" /\ \A h \in Holds \ {n} : hold'[h] = EndHolds(H, "EXPIRED")[h]
    BY <1>1 DEF CommitAcquire, EndHolds
  <2>. HIDE DEF H
  <2>3. \A h \in H : [hold[h] EXCEPT !.status = "EXPIRED"].status = "EXPIRED"
    BY <2>1, RowTypes DEF Active, HoldRow
  <2>. QED  BY <2>2, <2>3 DEF EndHolds
<1>2. ASSUME NEW r \in Requests, CommitRelease(r)
      PROVE  Goal
  <2>1. {pending[r].hold} \in SUBSET Holds /\ Active(pending[r].hold)
    BY <1>2 DEF CommitRelease, TypeOK, Request, Idle, AcquireRequest, ReleaseRequest, SessionRequest, EventRequest
  <2>. QED  BY <1>2, <1>end, <2>1 DEF CommitRelease
<1>3. ASSUME NEW B \in SUBSET Holds, SweepExpiredHolds(B)
      PROVE  Goal
  BY <1>3, <1>end DEF SweepExpiredHolds
<1>4. ASSUME NEW SS, EndSessions(SS)
      PROVE  Goal
  <2>1. UNION {ActiveHolds(ss) : ss \in SS} \in SUBSET Holds
        /\ \A h \in UNION {ActiveHolds(ss) : ss \in SS} : Active(h)
    BY DEF ActiveHolds
  <2>. QED  BY <1>4, <1>end, <2>1 DEF EndSessions
<1>5. ASSUME NEW SS, NEW now, ReleaseExpired(SS, now)
      PROVE  Goal
  <2>1. UNION {OverdueHolds(ss, now) : ss \in SS} \in SUBSET Holds
        /\ \A h \in UNION {OverdueHolds(ss, now) : ss \in SS} : Active(h)
    BY DEF OverdueHolds, ActiveHolds
  <2>. QED  BY <1>5, <1>end, <2>1 DEF ReleaseExpired
<1>. QED
  BY <1>1, <1>2, <1>3, <1>4, <1>5
     DEF HoldStep, StartAcquire, StartRelease, Abandon, StartSessionOp, CommitPauseOrResume, CommitCancelSession,
         CancelEvent, CommitArchiveOrRestore, StartArchiveEvent, StartRestoreEvent, Tick

-----------------------------------------------------------------------------
\* The first final status of an order and of its payment stands, and a settled event
\* stays settled, in every step from a state in which unpaid orders are untouched.
LEMMA FirstOutcome ==
  ASSUME CheckoutInv, UnpaidIsUntouched, CheckoutNext
  PROVE  FirstOutcomeStep
<1>. CheckoutTypeOK
  BY DEF CheckoutInv
<1>. DEFINE Orders == \A h \in Holds :
              /\ order[h].status \in TerminalOrderStatus => order'[h].status = order[h].status
              /\ order[h] # NoOrder /\ order[h].payment \in TerminalPaymentStatus =>
                   order'[h].payment = order[h].payment
            Rows == \A e \in Events : webhook[e].processing \in {"PROCESSED", "REQUIRES_REVIEW"} =>
                                        webhook'[e] = webhook[e]
<1>. SUFFICES Orders /\ Rows
  BY DEF FirstOutcomeStep
<1>one. ASSUME NEW e \in Events, Unsettled(e), \A d \in Events \ {e} : webhook'[d] = webhook[d]
        PROVE  Rows
  BY <1>one DEF Unsettled
<1>1. ASSUME NEW h \in Holds, NEW now, CreateCheckoutOrder(h, now)
      PROVE  Orders /\ Rows
  BY <1>1 DEF CreateCheckoutOrder, NoOrder, TerminalOrderStatus, CheckoutTypeOK
<1>2. ASSUME NEW c \in Callers, AttachIntent(c)
      PROVE  Orders /\ Rows
  <2>. DEFINE h == call[c].order
  <2>1. h \in Holds /\ order[h] # NoOrder
    BY <1>2, CheckoutRows DEF AttachIntent, CheckoutInv, Wiring, CallsAreForOrders
  <2>2. CASE order[h].intent # NoIntent
    BY <1>2, <2>2 DEF AttachIntent
  <2>3. CASE order[h].intent = NoIntent
    <3>1. order' = [order EXCEPT ![h] =
             [status |-> IF order[h].status = "PENDING" THEN "PAYMENT_PENDING" ELSE order[h].status,
              payment |-> "PENDING", intent |-> call[c].intent]]
      BY <1>2, <2>3 DEF AttachIntent
    <3>2. order[h].payment = "CREATED"
      BY <2>1, <2>3 DEF UnpaidIsUntouched
    <3>3. webhook' = webhook
      BY <1>2 DEF AttachIntent
    <3>. QED
      BY <2>1, <3>1, <3>2, <3>3 DEF CheckoutTypeOK, TerminalOrderStatus, TerminalPaymentStatus
  <2>. QED  BY <2>2, <2>3
<1>3. ASSUME NEW e \in Events, StoreWebhook(e)
      PROVE  Orders /\ Rows
  <2>1. \A d \in Events \ {e} : webhook'[d] = webhook[d]
    BY <1>3 DEF StoreWebhook, CheckoutTypeOK
  <2>. QED  BY <1>3, <2>1 DEF StoreWebhook, NoWebhook
<1>4. ASSUME NEW e \in Events, ProcessingFails(e)
      PROVE  Orders /\ Rows
  <2>1. \A d \in Events \ {e} : webhook'[d] = webhook[d]
    BY <1>4 DEF ProcessingFails, Settle, CheckoutTypeOK
  <2>. QED  BY <1>4, <1>one, <2>1 DEF ProcessingFails
<1>5. ASSUME NEW e \in Events, NEW now, ProcessWebhook(e, now)
      PROVE  Orders /\ Rows
  <2>1. Unsettled(e)
    BY <1>5 DEF ProcessWebhook, ReviewUnknownIntent, AcceptDuplicate, ReviewContradiction, ReviewAmount,
                RecordFailure, RecordPending, ReviewPaid, Fulfil
  <2>2. CASE ReviewUnknownIntent(e, now) \/ AcceptDuplicate(e, now) \/ ReviewContradiction(e, now)
    <3>1. \A d \in Events \ {e} : webhook'[d] = webhook[d]
      BY <2>2 DEF ReviewUnknownIntent, AcceptDuplicate, ReviewContradiction, Settle, CheckoutTypeOK
    <3>2. order' = order
      BY <2>2 DEF ReviewUnknownIntent, AcceptDuplicate, ReviewContradiction
    <3>. QED  BY <1>one, <2>1, <3>1, <3>2
  <2>3. CASE \/ ReviewAmount(e, now) \/ RecordFailure(e, now) \/ RecordPending(e, now)
             \/ ReviewPaid(e, now) \/ Fulfil(e, now)
    <3>. DEFINE h == webhook[e].order
    <3>1. h \in Holds /\ order[h].payment \notin TerminalPaymentStatus
      BY <2>1, <2>3, OrderWritten
    <3>2. PICK st \in OpenOrderStatus \cup TerminalOrderStatus, pay \in PaymentStatus, p \in WebhookStatus :
            /\ WritesOrder(h, st, pay) /\ SettlesEvent(e, p)
            /\ order[h].status \in TerminalOrderStatus => st = order[h].status
      BY <2>1, <2>3, OrderWritten
    <3>3. Rows
      BY <1>one, <2>1, <3>2 DEF SettlesEvent
    <3>. HIDE DEF h
    <3>4. Orders
      BY <3>1, <3>2 DEF WritesOrder
    <3>. QED  BY <3>3, <3>4
  <2>. QED  BY <1>5, <2>2, <2>3 DEF ProcessWebhook
<1>6. ASSUME NEW B \in SUBSET Holds, NEW now, ExpireUnpaidOrders(B, now)
      PROVE  Orders /\ Rows
  <2>1. ASSUME NEW h \in B
        PROVE  order[h].status \notin TerminalOrderStatus /\ order'[h].payment = order[h].payment
    <3>1. order[h].status \in OpenOrderStatus /\ order'[h] = [order[h] EXCEPT !.status = "EXPIRED"]
      BY <1>6 DEF ExpireUnpaidOrders
    <3>2. order[h] \in OrderRow
      BY <3>1, CheckoutRows DEF NoOrder, OpenOrderStatus
    <3>. QED  BY <3>1, <3>2 DEF OrderRow, OpenOrderStatus, TerminalOrderStatus
  <2>2. \A h \in Holds \ B : order'[h] = order[h]
    BY <1>6 DEF ExpireUnpaidOrders
  <2>3. webhook' = webhook
    BY <1>6 DEF ExpireUnpaidOrders
  <2>. QED  BY <2>1, <2>2, <2>3
<1>. QED
  BY <1>1, <1>2, <1>3, <1>4, <1>5, <1>6
     DEF CheckoutNext, checkoutVars, CallProvider, LoseAnswer, Emit

-----------------------------------------------------------------------------
\* The outcomes, order by order and event by event.
OrderSound(h) ==
  /\ h \in booking <=> order[h].status = "FULFILLED"
  /\ h \in booking <=> hold[h].status = "CONVERTED"
  /\ order[h].status \in {"FULFILLED", "PAID_UNFULFILLED"} =>
       /\ order[h].payment = "SUCCEEDED"
       /\ order[h].intent # NoIntent
       /\ intent[order[h].intent] = [order |-> h, charge |-> "succeeded"]
  /\ order[h] # NoOrder /\ order[h].payment = "SUCCEEDED" =>
       order[h].status \in {"FULFILLED", "PAID_UNFULFILLED"}
  /\ order[h] # NoOrder /\ order[h].intent = NoIntent =>
       order[h].payment = "CREATED" /\ order[h].status \in {"PENDING", "EXPIRED"}
  /\ order[h].status = "EXPIRED" => hold[h].status \in {"EXPIRED", "RELEASED"}

EventSound(e) ==
  webhook[e].processing = "PROCESSED" =>
    /\ webhook[e].order \in Holds
    /\ sent[e].status = "SUCCEEDED" => order[webhook[e].order].status = "FULFILLED"

\* The parts say what the whole says, before a step and after it.
LEMMA OutcomesSplit ==
  Outcomes <=> (\A h \in Holds : OrderSound(h)) /\ (\A e \in Events : EventSound(e))
  BY DEF Outcomes, MoneyAndSeatsAgree, SuccessIsNeverSilent, UnpaidIsUntouched, ExpiredTogether,
         ProcessedIsLinked, OrderSound, EventSound

\* The same of the state after a step.
LEMMA OutcomesSplitNext ==
  Outcomes' <=> (\A h \in Holds : OrderSound(h)') /\ (\A e \in Events : EventSound(e)')
  BY DEF Outcomes, MoneyAndSeatsAgree, SuccessIsNeverSilent, UnpaidIsUntouched, ExpiredTogether,
         ProcessedIsLinked, OrderSound, EventSound

\* A charge that has succeeded stays what it is.
ChargesStay == \A i \in Intents : intent[i].charge = "succeeded" => intent'[i] = intent[i]

\* The provider takes nothing back, and a repeated call changes no charge.
LEMMA ChargesAreFinal ==
  ASSUME CheckoutInv, [CheckoutNext]_allVars
  PROVE  ChargesStay
<1>. CheckoutTypeOK
  BY DEF CheckoutInv
<1>1. ASSUME NEW c \in Callers, NEW h \in Holds, NEW i \in Intents, NEW now, CallProvider(c, h, i, now)
      PROVE  ChargesStay
  BY <1>1 DEF CallProvider, ChargesStay, CheckoutTypeOK
<1>2. ASSUME NEW e \in Events, NEW i \in Intents, NEW st \in PaymentStatus \ {"CREATED"}, NEW ok \in BOOLEAN,
             Emit(e, i, st, ok)
      PROVE  ChargesStay
  <2>1. \A j \in Intents \ {i} : intent'[j] = intent[j]
    BY <1>2 DEF Emit, CheckoutTypeOK
  <2>2. ASSUME intent[i].charge = "succeeded"
        PROVE  intent'[i] = intent[i]
    <3>1. st = "SUCCEEDED" /\ intent' = [intent EXCEPT ![i].charge = "succeeded"]
      BY <1>2, <2>2 DEF Emit
    <3>2. intent[i] \in [order : Holds, charge : {"open", "succeeded", "cancelled"}]
      BY <2>2, CheckoutRows
    <3>. QED  BY <2>2, <3>1, <3>2 DEF CheckoutTypeOK
  <2>. QED  BY <2>1, <2>2 DEF ChargesStay
<1>3. CASE UNCHANGED intent
  BY <1>3 DEF ChargesStay
<1>. QED
  BY <1>1, <1>2, <1>3
     DEF CheckoutNext, allVars, checkoutVars, CreateCheckoutOrder, LoseAnswer, AttachIntent, StoreWebhook,
         ProcessWebhook, ReviewUnknownIntent, AcceptDuplicate, ReviewContradiction, ReviewAmount, RecordFailure,
         RecordPending, ReviewPaid, Fulfil, ProcessingFails, ExpireUnpaidOrders

\* An order that is left alone stays sound, unless its hold is sold.
LEMMA SameOrder ==
  ASSUME CheckoutInv, NEW h \in Holds, OrderSound(h), order'[h] = order[h],
         h \in booking' <=> h \in booking,
         hold'[h].status = "CONVERTED" => hold[h].status = "CONVERTED",
         hold[h].status \in TerminalHoldStatus => hold'[h] = hold[h],
         ChargesStay
  PROVE  OrderSound(h)'
<1>. CheckoutTypeOK
  BY DEF CheckoutInv
<1>1. order[h].status \in {"FULFILLED", "PAID_UNFULFILLED"} =>
        order[h].intent \in Intents /\ intent'[order[h].intent] = intent[order[h].intent]
  <2>. SUFFICES ASSUME order[h].status \in {"FULFILLED", "PAID_UNFULFILLED"}
                PROVE  order[h].intent \in Intents /\ intent'[order[h].intent] = intent[order[h].intent]
    OBVIOUS
  <2>1. order[h] \in OrderRow
    BY CheckoutRows DEF NoOrder
  <2>. QED  BY <2>1 DEF OrderSound, ChargesStay, OrderRow
<1>. QED  BY <1>1 DEF OrderSound, TerminalHoldStatus

\* The status of an order that is FULFILLED is final, so an event row that is left
\* alone stays sound.
LEMMA SameEvent ==
  ASSUME NEW e \in Events, EventSound(e), FirstOutcomeStep, webhook'[e] = webhook[e],
         webhook[e].processing = "PROCESSED" => sent'[e] = sent[e]
  PROVE  EventSound(e)'
  BY DEF EventSound, FirstOutcomeStep, TerminalOrderStatus

\* Every step of checkout keeps the outcomes.
LEMMA OutcomesStep ==
  ASSUME CheckoutInv, CheckoutInv', Outcomes, CheckoutNext
  PROVE  Outcomes'
<1>. CheckoutTypeOK /\ TypeOK /\ OrdersHaveHolds
  BY DEF CheckoutInv, CheckoutTypeOK, Wiring
<1>. [CheckoutNext]_allVars
  OBVIOUS
<1>first. FirstOutcomeStep
  BY FirstOutcome DEF Outcomes
<1>charge. ChargesStay
  BY ChargesAreFinal
<1>end. \A h \in Holds : hold[h].status \in TerminalHoldStatus => hold'[h] = hold[h]
  BY HoldsRefined, HoldsStay
<1>sound. (\A h \in Holds : OrderSound(h)) /\ (\A e \in Events : EventSound(e))
  BY OutcomesSplit
<1>sent. \A e \in Events : webhook[e] # NoWebhook => sent'[e] = sent[e]
  <2>1. ASSUME NEW d \in Events, NEW i \in Intents, NEW st \in PaymentStatus \ {"CREATED"}, NEW ok \in BOOLEAN,
               Emit(d, i, st, ok)
        PROVE  \A e \in Events : webhook[e] # NoWebhook => sent'[e] = sent[e]
    <3>1. \A e \in Events \ {d} : sent'[e] = sent[e]
      BY <2>1 DEF Emit, CheckoutTypeOK
    <3>2. webhook[d] = NoWebhook
      BY <2>1 DEF Emit, CheckoutInv, Wiring, WebhooksAreLinked
    <3>. QED  BY <3>1, <3>2
  <2>2. CASE UNCHANGED sent
    BY <2>2
  <2>. QED
    BY <2>1, <2>2
       DEF CheckoutNext, checkoutVars, CreateCheckoutOrder, CallProvider, LoseAnswer, AttachIntent, StoreWebhook,
           ProcessWebhook, ReviewUnknownIntent, AcceptDuplicate, ReviewContradiction, ReviewAmount, RecordFailure,
           RecordPending, ReviewPaid, Fulfil, ProcessingFails, ExpireUnpaidOrders
<1>same. ASSUME NEW e \in Events, webhook'[e] = webhook[e]
         PROVE  EventSound(e)'
  <2>1. webhook[e].processing = "PROCESSED" => sent'[e] = sent[e]
    BY <1>sent DEF NoWebhook
  <2>. QED  BY <1>same, <1>first, <1>sound, <2>1, SameEvent
<1>quiet. ASSUME UNCHANGED <<order, booking>>,
                 \A h \in Holds : hold'[h].status = "CONVERTED" => hold[h].status = "CONVERTED"
          PROVE  \A h \in Holds : OrderSound(h)'
  BY <1>quiet, <1>charge, <1>end, <1>sound, SameOrder
<1>vars. UNCHANGED vars => \A h \in Holds : hold'[h].status = "CONVERTED" => hold[h].status = "CONVERTED"
  BY DEF vars
<1>1. CASE HoldStep /\ UNCHANGED checkoutVars
  <2>1. \A h \in Holds : OrderSound(h)'
    BY <1>1, <1>quiet, OnlyConvertSells DEF checkoutVars
  <2>2. \A e \in Events : EventSound(e)'
    BY <1>1, <1>same DEF checkoutVars
  <2>. QED  BY <2>1, <2>2, OutcomesSplitNext
<1>2. ASSUME NEW g \in Holds, NEW now, CreateCheckoutOrder(g, now)
      PROVE  Outcomes'
  <2>1. /\ order[g] = NoOrder /\ UNCHANGED <<vars, booking, intent, sent, webhook>>
        /\ order'[g] = [status |-> "PENDING", payment |-> "CREATED", intent |-> NoIntent]
        /\ \A h \in Holds \ {g} : order'[h] = order[h]
    BY <1>2 DEF CreateCheckoutOrder, CheckoutTypeOK
  <2>2. g \notin booking /\ hold[g].status # "CONVERTED"
    <3>1. OrderSound(g) /\ order[g].status = "ABSENT"
      BY <1>sound, <2>1 DEF NoOrder
    <3>. QED  BY <3>1 DEF OrderSound
  <2>3. OrderSound(g)'
    BY <2>1, <2>2 DEF OrderSound, vars
  <2>4. \A h \in Holds \ {g} : OrderSound(h)'
    BY <1>charge, <1>end, <1>sound, <1>vars, <2>1, SameOrder
  <2>. QED  BY <1>same, <2>1, <2>3, <2>4, OutcomesSplitNext
<1>3. ASSUME NEW c \in Callers, NEW h \in Holds, NEW i \in Intents, NEW now, CallProvider(c, h, i, now)
      PROVE  Outcomes'
  BY <1>3, <1>same, <1>quiet, <1>vars, OutcomesSplitNext DEF CallProvider
<1>4. ASSUME NEW c \in Callers, LoseAnswer(c)
      PROVE  Outcomes'
  BY <1>4, <1>same, <1>quiet, <1>vars, OutcomesSplitNext DEF LoseAnswer
<1>5. ASSUME NEW c \in Callers, AttachIntent(c)
      PROVE  Outcomes'
  <2>1. PICK g \in Holds : /\ g = call[c].order /\ order[g] # NoOrder /\ call[c].intent \in Intents
                           /\ UNCHANGED <<vars, booking, intent, sent, webhook>>
    BY <1>5, CheckoutRows DEF AttachIntent, CheckoutInv, Wiring, CallsAreForOrders
  <2>2. CASE order[g].intent # NoIntent
    BY <1>5, <1>same, <1>quiet, <1>vars, <2>1, <2>2, OutcomesSplitNext DEF AttachIntent
  <2>3. CASE order[g].intent = NoIntent
    <3>1. /\ order'[g] = [status |-> IF order[g].status = "PENDING" THEN "PAYMENT_PENDING" ELSE order[g].status,
                          payment |-> "PENDING", intent |-> call[c].intent]
          /\ \A h \in Holds \ {g} : order'[h] = order[h]
      BY <1>5, <2>1, <2>3 DEF AttachIntent, CheckoutTypeOK
    <3>2. /\ order[g].status \in {"PENDING", "EXPIRED"} /\ call[c].intent # NoIntent
          /\ g \notin booking /\ hold[g].status # "CONVERTED"
          /\ order[g].status = "EXPIRED" => hold[g].status \in {"EXPIRED", "RELEASED"}
      BY <1>sound, <2>1, <2>3, NoIntentAssumption DEF OrderSound
    <3>3. OrderSound(g)'
      BY <2>1, <3>1, <3>2 DEF OrderSound, vars
    <3>4. \A h \in Holds \ {g} : OrderSound(h)'
      BY <1>charge, <1>end, <1>sound, <1>vars, <2>1, <3>1, SameOrder
    <3>. QED  BY <1>same, <2>1, <3>3, <3>4, OutcomesSplitNext
  <2>. QED  BY <2>2, <2>3
<1>6. ASSUME NEW e \in Events, NEW i \in Intents, NEW st \in PaymentStatus \ {"CREATED"}, NEW ok \in BOOLEAN,
             Emit(e, i, st, ok)
      PROVE  Outcomes'
  BY <1>6, <1>same, <1>quiet, <1>vars, OutcomesSplitNext DEF Emit
<1>7. ASSUME NEW e \in Events, StoreWebhook(e)
      PROVE  Outcomes'
  <2>1. webhook'[e].processing = "RECEIVED" /\ \A d \in Events \ {e} : webhook'[d] = webhook[d]
    BY <1>7 DEF StoreWebhook, CheckoutTypeOK
  <2>2. \A d \in Events : EventSound(d)'
    BY <1>same, <2>1 DEF EventSound
  <2>. QED  BY <1>7, <1>quiet, <1>vars, <2>2, OutcomesSplitNext DEF StoreWebhook
<1>8. ASSUME NEW e \in Events, ProcessingFails(e)
      PROVE  Outcomes'
  <2>1. webhook[e] # NoWebhook
    BY <1>8 DEF ProcessingFails, Unsettled, NoWebhook
  <2>2. SettlesEvent(e, "FAILED")
    BY <1>8, <2>1, SettleEffect DEF ProcessingFails, WebhookStatus
  <2>3. \A d \in Events : EventSound(d)'
    BY <1>same, <2>2 DEF EventSound, SettlesEvent
  <2>. QED  BY <1>8, <1>quiet, <1>vars, <2>3, OutcomesSplitNext DEF ProcessingFails
<1>9. ASSUME NEW e \in Events, NEW now \in RecentTimes, ProcessWebhook(e, now)
      PROVE  Outcomes'
  <2>1. Unsettled(e)
    BY <1>9 DEF ProcessWebhook, ReviewUnknownIntent, AcceptDuplicate, ReviewContradiction, ReviewAmount,
                RecordFailure, RecordPending, ReviewPaid, Fulfil
  <2>2. webhook[e] # NoWebhook
    BY <2>1 DEF Unsettled, NoWebhook
  <2>3. CASE ReviewUnknownIntent(e, now) \/ ReviewContradiction(e, now)
    <3>1. Settle(e, "REQUIRES_REVIEW") /\ UNCHANGED <<vars, order, booking>>
      BY <2>3 DEF ReviewUnknownIntent, ReviewContradiction
    <3>2. SettlesEvent(e, "REQUIRES_REVIEW")
      BY <2>2, <3>1, SettleEffect DEF WebhookStatus
    <3>3. \A d \in Events : EventSound(d)'
      BY <1>same, <3>2 DEF EventSound, SettlesEvent
    <3>. QED  BY <1>quiet, <1>vars, <3>1, <3>3, OutcomesSplitNext
  <2>4. CASE AcceptDuplicate(e, now)
    <3>1. PICK p \in WebhookStatus :
            /\ Settle(e, p)
            /\ p = "PROCESSED" => order[webhook[e].order].status \notin {"PAID_UNFULFILLED", "REQUIRES_REVIEW"}
      BY <2>4 DEF AcceptDuplicate, WebhookStatus
    <3>2. SettlesEvent(e, p) /\ UNCHANGED <<vars, order, booking, sent>>
      BY <2>2, <2>4, <3>1, SettleEffect DEF AcceptDuplicate
    <3>3. PICK g \in Holds :
            g = webhook[e].order /\ g # NoHold /\ Verdict(e, now) \in {"ALREADY_BOOKED", "REPEATED"}
      BY <2>1, <2>4, LinkedOrder, NoHoldAssumption DEF AcceptDuplicate
    <3>4. order[g] # NoOrder
      BY <2>2, <3>3 DEF CheckoutInv, Wiring, WebhooksAreLinked
    <3>5. p = "PROCESSED" /\ sent[e].status = "SUCCEEDED" => order[g].status = "FULFILLED"
      <4>1. \/ g \in booking \/ order[g].status = "FULFILLED"
            \/ order[g].payment = sent[e].status
        BY <3>3, VerdictMeaning
      <4>. QED  BY <1>sound, <3>1, <3>3, <3>4, <4>1 DEF OrderSound
    <3>6. EventSound(e)'
      BY <3>2, <3>3, <3>5 DEF EventSound, SettlesEvent
    <3>7. \A d \in Events : EventSound(d)'
      BY <1>same, <3>2, <3>6 DEF SettlesEvent
    <3>. QED  BY <1>quiet, <1>vars, <3>2, <3>7, OutcomesSplitNext
  <2>5. CASE \/ ReviewAmount(e, now) \/ RecordFailure(e, now) \/ RecordPending(e, now)
             \/ ReviewPaid(e, now) \/ Fulfil(e, now)
    <3>1. PICK g \in Holds :
            /\ g = webhook[e].order
            /\ order[g] # NoOrder /\ order[g].intent = sent[e].intent /\ sent[e] # Unsent
            /\ g \notin booking /\ order[g].payment \notin TerminalPaymentStatus
      BY <2>1, <2>5, OrderWritten
    <3>2. PICK st \in OpenOrderStatus \cup TerminalOrderStatus, pay \in PaymentStatus, p \in WebhookStatus :
            /\ WritesOrder(g, st, pay) /\ SettlesEvent(e, p) /\ Outcome(e, g, st, pay, p)
            /\ order[g].status \in TerminalOrderStatus => st = order[g].status
            /\ st = "FULFILLED" <=> Fulfil(e, now)
      BY <2>1, <2>5, <3>1, OrderWritten
    <3>3. sent' = sent /\ intent' = intent
      BY <2>5 DEF ReviewAmount, RecordFailure, RecordPending, ReviewPaid, Fulfil
    <3>4. sent[e].intent \in Intents /\ sent[e].intent # NoIntent
      BY <3>1, CheckoutRows, NoIntentAssumption
    <3>5. sent[e].status = "SUCCEEDED" => intent[order[g].intent] = [order |-> g, charge |-> "succeeded"]
      <4>1. intent[sent[e].intent].order = g
        BY <3>1, <3>4 DEF CheckoutInv, Wiring, IntentsAreOwn
      <4>2. sent[e].status = "SUCCEEDED" => intent[sent[e].intent].charge = "succeeded"
        BY <3>1 DEF CheckoutInv, Wiring, EventsTellTheTruth
      <4>3. sent[e].status = "SUCCEEDED" =>
              intent[sent[e].intent] \in [order : Holds, charge : {"open", "succeeded", "cancelled"}]
        BY <3>4, <4>2, CheckoutRows
      <4>. QED  BY <3>1, <4>1, <4>2, <4>3
    \* The hold is sold exactly when the order is fulfilled.
    <3>6. /\ st = "FULFILLED" => booking' = booking \cup {g} /\ hold'[g].status = "CONVERTED"
                                  /\ \A h \in Holds \ {g} : hold'[h] = hold[h]
          /\ st # "FULFILLED" => booking' = booking
                                  /\ \A h \in Holds : hold'[h].status = "CONVERTED" => hold[h].status = "CONVERTED"
      <4>1. CASE Fulfil(e, now)
        <5>1. Active(g) /\ hold' = EndHolds({g}, "CONVERTED") /\ booking' = booking \cup {g}
          BY <3>1, <4>1 DEF Fulfil, ConvertHold, CanConvert
        <5>2. {g} \in SUBSET Holds /\ "CONVERTED" \in TerminalHoldStatus
          BY <3>1 DEF TerminalHoldStatus
        <5>3. hold'[g].status = "CONVERTED" /\ \A h \in Holds \ {g} : hold'[h] = hold[h]
          BY <5>1, <5>2, EndFields
        <5>. QED  BY <3>2, <4>1, <5>1, <5>3
      <4>2. CASE ~Fulfil(e, now)
        <5>1. booking' = booking
          BY <2>5, <4>2 DEF ReviewAmount, RecordFailure, RecordPending, ReviewPaid
        <5>2. UNCHANGED vars \/ \E SS \in SUBSET Sessions, t \in RecentTimes : ReleaseExpired(SS, t)
          <6>1. CASE ReviewPaid(e, now)
            <7>1. Active(g) => hold[g].session \in Sessions
              BY <3>1, RowTypes DEF Active, HoldRow
            <7>2. UNCHANGED vars \/ (Active(g) /\ ReleaseExpired({hold[g].session}, now))
              BY <3>1, <6>1 DEF ReviewPaid
            <7>. QED  BY <7>1, <7>2
          <6>. QED  BY <2>5, <4>2, <6>1 DEF ReviewAmount, RecordFailure, RecordPending
        <5>3. \A h \in Holds : hold'[h].status = "CONVERTED" => hold[h].status = "CONVERTED"
          BY <1>vars, <5>2, OnlyConvertSells
        <5>. QED  BY <3>2, <4>2, <5>1, <5>3
      <4>. QED  BY <4>1, <4>2
    <3>7. hold[g].status # "CONVERTED" /\ order[g].status \notin {"FULFILLED", "PAID_UNFULFILLED"}
          /\ (order[g].status = "EXPIRED" => hold[g].status \in {"EXPIRED", "RELEASED"})
      BY <1>sound, <3>1 DEF OrderSound, TerminalPaymentStatus
    <3>8. order[g].status = "EXPIRED" => hold'[g].status \in {"EXPIRED", "RELEASED"}
      BY <1>end, <3>1, <3>7 DEF TerminalHoldStatus
    <3>9. EventSound(e)'
      BY <3>1, <3>2, <3>3 DEF EventSound, SettlesEvent, WritesOrder, Outcome
    <3>10. \A d \in Events : EventSound(d)'
      BY <1>same, <3>2, <3>9 DEF SettlesEvent
    <3>11. \A h \in Holds \ {g} : OrderSound(h)'
      <4>1. \A h \in Holds \ {g} : /\ order'[h] = order[h] /\ (h \in booking' <=> h \in booking)
                                   /\ hold'[h].status = "CONVERTED" => hold[h].status = "CONVERTED"
        BY <3>2, <3>6 DEF WritesOrder
      <4>. QED  BY <1>charge, <1>end, <1>sound, <4>1, SameOrder
    <3>12. OrderSound(g)'
      <4>1. order'[g].status = st /\ order'[g].payment = pay /\ order'[g].intent = sent[e].intent
        BY <3>1, <3>2 DEF WritesOrder
      <4>2. (g \in booking' <=> st = "FULFILLED") /\ (hold'[g].status = "CONVERTED" <=> st = "FULFILLED")
        BY <3>1, <3>6, <3>7
      <4>3. st \in {"FULFILLED", "PAID_UNFULFILLED"} <=> pay = "SUCCEEDED"
        BY <3>1, <3>2, <3>7 DEF Outcome, TerminalPaymentStatus
      <4>4. st \in {"FULFILLED", "PAID_UNFULFILLED"} => sent[e].status = "SUCCEEDED"
        BY <3>2, <3>7 DEF Outcome
      <4>5. st = "EXPIRED" => order[g].status = "EXPIRED"
        BY <3>2 DEF Outcome
      <4>. QED  BY <3>1, <3>3, <3>4, <3>5, <3>8, <4>1, <4>2, <4>3, <4>4, <4>5 DEF OrderSound
    <3>. QED  BY <3>10, <3>11, <3>12, OutcomesSplitNext
  <2>. QED  BY <1>9, <2>3, <2>4, <2>5 DEF ProcessWebhook
<1>10. ASSUME NEW B \in SUBSET Holds, NEW now \in RecentTimes, ExpireUnpaidOrders(B, now)
       PROVE  Outcomes'
  <2>1. UNCHANGED <<booking, intent, sent, webhook>>
    BY <1>10 DEF ExpireUnpaidOrders
  <2>2. \A h \in Holds \ B : order'[h] = order[h]
    BY <1>10 DEF ExpireUnpaidOrders
  <2>3. ASSUME NEW h \in B
        PROVE  /\ order[h] # NoOrder /\ hold[h] \in HoldRow /\ hold[h].expiresAt <= now
               /\ order[h].status \in OpenOrderStatus
               /\ order'[h].status = "EXPIRED" /\ order'[h].payment = order[h].payment
               /\ order'[h].intent = order[h].intent
    <3>1. /\ order[h].status \in OpenOrderStatus /\ hold[h].expiresAt <= now
          /\ order'[h] = [order[h] EXCEPT !.status = "EXPIRED"]
      BY <1>10 DEF ExpireUnpaidOrders
    <3>2. order[h] # NoOrder
      BY <3>1 DEF NoOrder, OpenOrderStatus
    <3>3. order[h] \in OrderRow /\ hold[h] \in HoldRow
      BY <3>2, CheckoutRows, RowTypes DEF OrdersHaveHolds
    <3>. QED  BY <3>1, <3>2, <3>3 DEF OrderRow
  <2>. DEFINE SS == {hold[h].session : h \in B}
              H == UNION {OverdueHolds(ss, now) : ss \in SS}
  <2>4. ReleaseExpired(SS, now) /\ SS \in SUBSET Sessions
    BY <1>10, <2>3 DEF ExpireUnpaidOrders, HoldRow
  <2>5. \A h \in Holds : hold'[h].status = "CONVERTED" => hold[h].status = "CONVERTED"
    BY <2>4, OnlyConvertSells
  <2>6. H \in SUBSET Holds /\ \A h \in H : Active(h)
    BY OverdueActive
  <2>7. \A h \in B : Active(h) => h \in H
    BY <2>3 DEF OverdueHolds, ActiveHolds
  <2>8. \A h \in H : hold'[h].status = "EXPIRED"
    <3>1. hold' = EndHolds(H, "EXPIRED")
      BY <2>4 DEF ReleaseExpired
    <3>. HIDE DEF H
    <3>. QED  BY <2>6, <3>1, EndFields DEF TerminalHoldStatus
  <2>. HIDE DEF H, SS
  <2>9. ASSUME NEW h \in B
        PROVE  OrderSound(h)'
    <3>1. h \notin booking /\ hold[h].status # "CONVERTED" /\ order[h].payment # "SUCCEEDED"
      BY <1>sound, <2>3 DEF OrderSound, OpenOrderStatus
    <3>2. hold'[h].status \in {"EXPIRED", "RELEASED"}
      <4>1. CASE Active(h)
        BY <2>7, <2>8, <4>1
      <4>2. CASE ~Active(h)
        <5>1. hold[h].status \in {"EXPIRED", "RELEASED"}
          BY <2>3, <3>1, <4>2 DEF HoldRow, TerminalHoldStatus, Active
        <5>. QED  BY <1>end, <5>1 DEF TerminalHoldStatus
      <4>. QED  BY <4>1, <4>2
    <3>3. order[h].intent = NoIntent => order[h].payment = "CREATED"
      BY <1>sound, <2>3 DEF OrderSound
    <3>. QED  BY <2>1, <2>3, <3>1, <3>2, <3>3 DEF OrderSound
  <2>10. \A h \in Holds \ B : OrderSound(h)'
    BY <1>charge, <1>end, <1>sound, <2>1, <2>2, <2>5, SameOrder
  <2>. QED  BY <1>same, <2>1, <2>9, <2>10, OutcomesSplitNext
<1>. QED
  BY <1>1, <1>2, <1>3, <1>4, <1>5, <1>6, <1>7, <1>8, <1>9, <1>10 DEF CheckoutNext

\* The outcomes hold in every reachable state.
LEMMA OutcomesInvariant == CheckoutSpec => []Outcomes
<1>1. CheckoutInit => Outcomes
  BY DEF CheckoutInit, Init, Outcomes, MoneyAndSeatsAgree, SuccessIsNeverSilent, UnpaidIsUntouched,
         ExpiredTogether, ProcessedIsLinked, NoOrder, AbsentHold, NoWebhook
<1>2. CheckoutInv /\ CheckoutInv' /\ Outcomes /\ [CheckoutNext]_allVars => Outcomes'
  <2>1. Outcomes /\ UNCHANGED allVars => Outcomes'
    BY DEF Outcomes, MoneyAndSeatsAgree, SuccessIsNeverSilent, UnpaidIsUntouched, ExpiredTogether,
           ProcessedIsLinked, allVars, vars, checkoutVars
  <2>. QED  BY <2>1, OutcomesStep
<1>. QED  BY <1>1, <1>2, CheckoutInvariant, PTL DEF CheckoutSpec

\* Money and seats agree whatever the order of events, retries, expiries and
\* cancellations: a booking, a FULFILLED order and a CONVERTED hold go together, and an
\* order is FULFILLED or PAID_UNFULFILLED only if its own intent was charged.
THEOREM MoneyFollowsSeats == CheckoutSpec => []MoneyAndSeatsAgree
<1>1. Outcomes => MoneyAndSeatsAgree
  BY DEF Outcomes
<1>. QED  BY <1>1, OutcomesInvariant, PTL

\* No verified success is put away as PROCESSED without its booking, and no attempt is
\* SUCCEEDED under an order that does not say so.
THEOREM SuccessIsTold == CheckoutSpec => []SuccessIsNeverSilent
<1>1. Outcomes => SuccessIsNeverSilent
  BY DEF Outcomes
<1>. QED  BY <1>1, OutcomesInvariant, PTL

\* An EXPIRED order holds no seat: its hold ended with it, and no row of the inventory
\* points at an ended hold.
THEOREM ExpiryFreesSeats == CheckoutSpec => []ExpiredOrderHoldsNothing
<1>1. IndInv /\ Outcomes => ExpiredOrderHoldsNothing
  <2>. SUFFICES ASSUME IndInv, Outcomes, NEW h \in Holds, order[h].status = "EXPIRED"
                PROVE  /\ hold[h].status \in {"EXPIRED", "RELEASED"}
                       /\ \A s \in Seats : inv[s].hold # h
    BY DEF ExpiredOrderHoldsNothing
  <2>1. hold[h].status \in {"EXPIRED", "RELEASED"}
    BY DEF Outcomes, ExpiredTogether
  <2>2. ASSUME NEW s \in Seats, inv[s].hold = h
        PROVE  FALSE
    <3>1. inv[s].state = "HELD"
      BY <2>2, RowTypes DEF IndInv
    <3>2. Active(h)
      BY <2>2, <3>1 DEF IndInv, Safe, HeldSeatHasLiveHold
    <3>. QED  BY <2>1, <3>2 DEF Active
  <2>. QED  BY <2>1, <2>2
<1>. QED  BY <1>1, CheckoutHolds, OutcomesInvariant, PTL

\* The first final status of an order and of its payment stands, and an event once
\* settled stays settled, however late, often or contradictory the deliveries.
THEOREM FirstOutcomeIsFinal == CheckoutSpec => FirstOutcomeStands
<1>1. CheckoutInv /\ Outcomes /\ [CheckoutNext]_allVars => [FirstOutcomeStep]_allVars
  BY FirstOutcome DEF Outcomes
<1>. QED  BY <1>1, CheckoutInvariant, OutcomesInvariant, PTL DEF CheckoutSpec, FirstOutcomeStands


-----------------------------------------------------------------------------
(* What follows for the whole of a sale *)

\* Every seat sold is in one booking, every seat of a booking is sold, and each booking
\* is paid by a successful charge that pays for no other.
THEOREM SalesArePaid == CheckoutSpec => []EverySaleIsPaid
<1>1. IndInv /\ CheckoutInv /\ Outcomes => EverySaleIsPaid
  <2>. SUFFICES ASSUME IndInv, CheckoutInv, Outcomes PROVE EverySaleIsPaid
    OBVIOUS
  <2>1. SoldOnce /\ MoneyAndSeatsAgree /\ booking \subseteq Holds
    BY DEF IndInv, Safe, CheckoutInv, Outcomes, CheckoutTypeOK
  <2>2. \A h \in Holds : h \in booking <=> hold[h].status = "CONVERTED"
    BY <2>1 DEF MoneyAndSeatsAgree
  <2>3. ASSUME NEW s \in Seats
        PROVE  inv[s].state = "BOOKED" <=> \E h \in booking : s \in hold[h].seats
    BY <2>1, <2>2 DEF SoldOnce, Claims
  <2>4. ASSUME NEW h \in booking
        PROVE  intent[order[h].intent] = [order |-> h, charge |-> "succeeded"]
    BY <2>1 DEF MoneyAndSeatsAgree
  <2>5. ASSUME NEW g \in booking, NEW h \in booking, g # h
        PROVE  hold[g].seats \cap hold[h].seats = {}
    <3>1. hold[g] \in HoldRow
      BY <2>1, <2>2, RowTypes DEF IndInv
    <3>2. hold[g].seats \subseteq Seats
      BY <3>1 DEF HoldRow
    <3>. QED  BY <2>1, <2>2, <2>5, <3>2 DEF SoldOnce, Claims
  <2>6. ASSUME NEW h \in booking
        PROVE  intent[order[h].intent].charge = "succeeded" /\ intent[order[h].intent].order = h
    <3>1. intent[order[h].intent] = [order |-> h, charge |-> "succeeded"]
      BY <2>4, <2>6
    <3>. QED  BY ONLY <3>1
  <2>7. ASSUME NEW g \in booking, NEW h \in booking, g # h
        PROVE  order[g].intent # order[h].intent
    BY <2>6, <2>7
  <2>. QED  BY <2>3, <2>5, <2>6, <2>7, Zenon DEF EverySaleIsPaid
<1>. QED  BY <1>1, CheckoutHolds, CheckoutInvariant, OutcomesInvariant, PTL

\* Checkout keeps the promise of SeatAllocation: with orders, retries, webhooks and
\* expiry jobs around them, seats are reserved and sold as whole selections, to one
\* customer each, and a sale is never undone.
THEOREM CheckoutAllocates == CheckoutSpec => ImplementsAllocation
  BY CheckoutRefinement, Refinement DEF ImplementsSeatHolds
=============================================================================
