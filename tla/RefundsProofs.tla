---------------------------- MODULE RefundsProofs ----------------------------
(***************************************************************************)
(* Theorems about Refunds, for any number of seats, refunds and events.    *)
(* The totals play no part in the first four: what they say does not rest  *)
(* on the totals being right.  Then come the totals, which need what sums  *)
(* over sets compute, the refinement of RefundAllocation, and the types.   *)
(***************************************************************************)
EXTENDS Refunds, FiniteSetTheorems, WellFoundedInduction, TLAPS

Writers == {"claim", "attach", "timeout", "reject", "adopt"} \cup Events
SentEvent == [external : Refunds, report : Reports, late : BOOLEAN,
              processing : {"RECEIVED", "PROCESSED", "REQUIRES_REVIEW"}]

\* The type invariant without the totals, the ledger and the outbox.
Typed ==
  /\ refund \in [Refunds -> Row]
  /\ ticket \in [Seats -> {"NONE", "ACTIVE", "USED", "REVOKED"}]
  /\ asking \in SUBSET Refunds
  /\ work \in [Refunds -> {"none", "claimed", "accepted", "timeout", "rejected"}]
  /\ found \in [Refunds -> Refunds \cup {NoRefund}]
  /\ pending \in [Refunds -> [by : Writers, refunded : SUBSET Refunds, inFlight : SUBSET Refunds] \cup {Idle}]
  /\ made \in SUBSET Refunds
  /\ sent \in [Events -> SentEvent \cup {Unsent}]

\* A refund that is not there yet is in nobody's hands, and only such a one is asked for.
AbsentUntouched ==
  \A r \in Refunds :
    /\ r \in asking => refund[r].status = "ABSENT"
    /\ refund[r].status = "ABSENT" =>
         /\ refund[r].outcome = "NONE" /\ refund[r].external = NoRefund
         /\ pending[r].by = "nobody" /\ work[r] = "none" /\ found[r] = NoRefund

\* Status and outcome go together.
StatusFollowsOutcome ==
  \A r \in Refunds :
    /\ refund[r].outcome = "NONE" => refund[r].status \in InFlightStatus \cup {"ABSENT"}
    /\ refund[r].outcome # "NONE" => refund[r].status \in {refund[r].outcome, "REQUIRES_REVIEW"}

\* The refund was recorded as submitted, or its outcome as unknown.
Doubted(r) == \E t \in {"REFUND_SUBMITTED", "FINANCIAL_RECONCILIATION_REQUIRED"} : <<t, r>> \in outbox

\* A refund is claimed once, and its worker records the one answer it has.
DoubtAfterClaim ==
  \A r \in Refunds :
    /\ refund[r].status \in {"ABSENT", "REQUESTED"} => ~Doubted(r) /\ work[r] = "none"
    /\ work[r] \in {"claimed", "rejected"} => ~Doubted(r)
    /\ pending[r].by = "claim" => refund[r].status = "REQUESTED"
    /\ pending[r].by = "reject" => work[r] = "rejected"
    /\ pending[r].by = "attach" => work[r] = "accepted"
    /\ pending[r].by = "timeout" => work[r] = "timeout"

\* The event that holds a refund's row is about that refund.
EventConcerns ==
  \A r \in Refunds : pending[r].by \in Events =>
    LET e == pending[r].by IN sent[e] # Unsent /\ sent[e].external = refund[r].external

\* The provider has reported that r failed.
FailureReported(r) ==
  \E e \in Events : /\ sent[e] # Unsent /\ sent[e].external = refund[r].external
                    /\ sent[e].report.status = "FAILED"

\* A failed refund was reported so, or there is no doubt about it and no worker to raise one.
FailureIsFinal ==
  \A r \in Refunds : refund[r].outcome = "FAILED" =>
    FailureReported(r) \/ (~Doubted(r) /\ work[r] = "none")

\* The ledger entries of a type about r.
EntriesOf(type, r) == {x \in ledger : x[1] = type /\ x[2] = r}

LedgerHas(type, r) == \E c \in Refunds \cup Events : EntriesOf(type, r) = {<<type, r, c>>}

LedgerFollowsOutcome ==
  \A r \in Refunds :
    /\ refund[r].outcome = "SUCCEEDED" => LedgerHas("REFUND_SUCCEEDED", r)
    /\ refund[r].outcome # "SUCCEEDED" => EntriesOf("REFUND_SUCCEEDED", r) = {}
    /\ refund[r].outcome = "FAILED" => LedgerHas("REFUND_FAILED", r)
    /\ refund[r].outcome # "FAILED" => EntriesOf("REFUND_FAILED", r) = {}

IndInv ==
  /\ Typed
  /\ AbsentUntouched
  /\ StatusFollowsOutcome
  /\ DoubtAfterClaim
  /\ EventConcerns
  /\ FailureIsFinal
  /\ LedgerFollowsOutcome
  /\ SeatRefundedOnce

-----------------------------------------------------------------------------
(* Lemmas about what the operations are built from.                        *)

\* Taking a refund's row.
LEMMA StartTypes ==
  ASSUME Typed, NEW r \in Refunds, NEW by \in Writers, Start(r, by)
  PROVE  /\ pending' \in [Refunds -> [by : Writers, refunded : SUBSET Refunds, inFlight : SUBSET Refunds] \cup {Idle}]
         /\ pending'[r].by = by
         /\ pending[r].by = "nobody"
         /\ \A q \in Refunds \ {r} : pending'[q] = pending[q]
  <1> DEFINE lock == [by |-> by, refunded |-> Succeeded \ {r}, inFlight |-> InFlight \ {r}]
  <1>1. lock \in [by : Writers, refunded : SUBSET Refunds, inFlight : SUBSET Refunds]
    BY DEF Succeeded, InFlight
  <1>2. lock.by = by
    OBVIOUS
  <1>3. pending' = [pending EXCEPT ![r] = lock] /\ pending[r].by = "nobody"
    BY DEF Start, Idle
  <1> HIDE DEF lock
  <1> QED
    BY <1>1, <1>2, <1>3 DEF Typed

\* Giving it back.
LEMMA DoneTypes ==
  ASSUME Typed, NEW r \in Refunds, Done(r)
  PROVE  /\ pending' \in [Refunds -> [by : Writers, refunded : SUBSET Refunds, inFlight : SUBSET Refunds] \cup {Idle}]
         /\ pending'[r].by = "nobody"
         /\ \A q \in Refunds \ {r} : pending'[q] = pending[q]
  BY DEF Typed, Done, Idle

\* Acknowledging an event changes nothing of what it says.
LEMMA SettleKeeps ==
  ASSUME Typed, NEW e \in Events, sent[e] # Unsent,
         NEW p \in {"RECEIVED", "PROCESSED", "REQUIRES_REVIEW"}, Settle(e, p)
  PROVE  /\ sent' \in [Events -> SentEvent \cup {Unsent}]
         /\ \A d \in Events : sent[d] # Unsent =>
              sent'[d] # Unsent /\ sent'[d].external = sent[d].external /\ sent'[d].report = sent[d].report
  <1> DEFINE new == [sent[e] EXCEPT !.processing = p]
  <1>1. sent[e] \in SentEvent
    BY DEF Typed
  <1>2. new \in SentEvent /\ new.external = sent[e].external /\ new.report = sent[e].report
    BY <1>1 DEF SentEvent
  <1>3. new # Unsent
    BY <1>2 DEF SentEvent, Unsent
  <1>4. sent' = [sent EXCEPT ![e] = new]
    BY DEF Settle
  <1> HIDE DEF new
  <1> QED
    BY <1>2, <1>3, <1>4 DEF Typed

-----------------------------------------------------------------------------
(* Lemmas about the parts of the invariant, each under what a step may do. *)

\* What stays on record of every event.
SentKept ==
  /\ sent' \in [Events -> SentEvent \cup {Unsent}]
  /\ \A d \in Events : sent[d] # Unsent =>
       sent'[d] # Unsent /\ sent'[d].external = sent[d].external /\ sent'[d].report = sent[d].report

\* Only the worker of r, with an answer that is no rejection, may record a doubt.
DoubtChange(r) ==
  \A q \in Refunds : Doubted(q)' => Doubted(q) \/ (q = r /\ work[r] \in {"accepted", "timeout"} /\ work'[r] = "none")

\* A row written under the trigger keeps the refunds apart, and hands of others off.
LEMMA RowWritten ==
  ASSUME IndInv, NEW r \in Refunds, NEW row \in Row,
         refund' = [refund EXCEPT ![r] = row],
         RefundWriteAllowed(refund[r], row), row.seats = refund[r].seats,
         refund[r].status # "ABSENT", row.status \notin {"ABSENT", "REQUESTED"},
         row.outcome = "NONE" => row.status \in InFlightStatus,
         row.outcome # "NONE" => row.status \in {row.outcome, "REQUIRES_REVIEW"},
         Done(r), asking' = asking, SentKept, DoubtChange(r),
         \A q \in Refunds \ {r} : found'[q] = found[q] /\ work'[q] = work[q],
         work'[r] \in {"claimed", "rejected"} => ~Doubted(r)
  PROVE  /\ refund' \in [Refunds -> Row]
         /\ AbsentUntouched' /\ StatusFollowsOutcome' /\ DoubtAfterClaim' /\ EventConcerns'
         /\ SeatRefundedOnce'
  <1>1. /\ refund' \in [Refunds -> Row] /\ refund'[r] = row
        /\ \A q \in Refunds \ {r} : refund'[q] = refund[q]
    BY DEF IndInv, Typed
  <1>2. pending'[r].by = "nobody" /\ \A q \in Refunds \ {r} : pending'[q] = pending[q]
    BY DoneTypes DEF IndInv
  <1>3. "nobody" \notin Events
    BY DistinctNamesAssumption
  <1>4. r \notin asking
    BY DEF IndInv, AbsentUntouched
  <1>5. AbsentUntouched'
    BY <1>1, <1>2, <1>4 DEF IndInv, AbsentUntouched
  <1>6. StatusFollowsOutcome'
    BY <1>1 DEF IndInv, StatusFollowsOutcome
  <1>7. DoubtAfterClaim'
    BY <1>1, <1>2 DEF IndInv, DoubtAfterClaim, DoubtChange
  <1>8. EventConcerns'
    BY <1>1, <1>2, <1>3 DEF IndInv, EventConcerns, SentKept
  <1>9. SeatRefundedOnce'
    <2>1. row.outcome = "SUCCEEDED" \/ (row.outcome = "NONE" /\ row.status \in InFlightStatus) => Paying(r)
      BY DEF IndInv, StatusFollowsOutcome, Typed, Row, RefundWriteAllowed, Paying
    <2>2. \A q \in Refunds : Paying(q)' => Paying(q) /\ refund'[q].seats = refund[q].seats
      BY <1>1, <2>1 DEF Paying
    <2> QED
      BY <2>2 DEF IndInv, SeatRefundedOnce
  <1> QED
    BY <1>1, <1>5, <1>6, <1>7, <1>8, <1>9

\* No new failure, and no doubt about a failed refund.
LEMMA FailureKept ==
  ASSUME IndInv, SentKept,
         \A q \in Refunds :
           /\ refund'[q].outcome = "FAILED" => refund[q].outcome = "FAILED"
           /\ refund[q].external # NoRefund => refund'[q].external = refund[q].external
           /\ refund'[q].outcome = "FAILED" /\ ~Doubted(q) /\ work[q] = "none"
                => ~Doubted(q)' /\ work'[q] = "none"
  PROVE  FailureIsFinal'
  <1> SUFFICES ASSUME NEW q \in Refunds, refund'[q].outcome = "FAILED"
               PROVE  FailureReported(q)' \/ (~Doubted(q)' /\ work'[q] = "none")
    BY DEF FailureIsFinal
  <1>1. CASE FailureReported(q)
    <2>1. PICK e \in Events : /\ sent[e] # Unsent /\ sent[e].external = refund[q].external
                              /\ sent[e].report.status = "FAILED"
      BY <1>1 DEF FailureReported
    <2>2. sent[e].external \in Refunds
      BY <2>1 DEF IndInv, Typed, SentEvent
    <2>3. refund'[q].external = refund[q].external
      BY <2>1, <2>2, NoRefundAssumption
    <2> QED
      BY <2>1, <2>3 DEF SentKept, FailureReported
  <1>2. CASE ~Doubted(q) /\ work[q] = "none"
    BY <1>2
  <1> QED
    BY <1>1, <1>2 DEF IndInv, FailureIsFinal

\* Entries that are not about an outcome.
LEMMA LedgerKept ==
  ASSUME IndInv, NEW r \in Refunds,
         \A q \in Refunds : refund'[q].outcome = refund[q].outcome,
         \/ ledger' = ledger
         \/ ledger' = ledger \cup {<<"REFUND_PROCESSING", r, r>>}
         \/ ledger' = ledger \cup {<<"REFUND_REQUESTED", r, r>>}
  PROVE  LedgerFollowsOutcome'
  <1>1. \A q \in Refunds, t \in {"REFUND_SUCCEEDED", "REFUND_FAILED"} : EntriesOf(t, q)' = EntriesOf(t, q)
    BY DEF EntriesOf
  <1>2. \A q \in Refunds, t \in {"REFUND_SUCCEEDED", "REFUND_FAILED"} : LedgerHas(t, q)' <=> LedgerHas(t, q)
    BY <1>1 DEF LedgerHas
  <1> QED
    BY <1>1, <1>2 DEF IndInv, LedgerFollowsOutcome

\* The entry of an outcome, written with it.
LEMMA LedgerWritten ==
  ASSUME IndInv, NEW r \in Refunds, NEW c \in Refunds \cup Events, NEW o \in {"SUCCEEDED", "FAILED"},
         refund[r].outcome = "NONE", refund'[r].outcome = o,
         \A q \in Refunds \ {r} : refund'[q] = refund[q],
         ledger' = ledger \cup {<<IF o = "SUCCEEDED" THEN "REFUND_SUCCEEDED" ELSE "REFUND_FAILED", r, c>>}
  PROVE  LedgerFollowsOutcome'
  <1> DEFINE Types == {"REFUND_SUCCEEDED", "REFUND_FAILED"}
             type == IF o = "SUCCEEDED" THEN "REFUND_SUCCEEDED" ELSE "REFUND_FAILED"
  <1>1. EntriesOf("REFUND_SUCCEEDED", r) = {} /\ EntriesOf("REFUND_FAILED", r) = {}
    BY DEF IndInv, LedgerFollowsOutcome
  <1>2. EntriesOf(type, r)' = {<<type, r, c>>}
    BY <1>1 DEF EntriesOf
  <1>3. \A t \in Types \ {type} : EntriesOf(t, r)' = {}
    BY <1>1 DEF EntriesOf
  <1>4. \A q \in Refunds \ {r}, t \in Types : EntriesOf(t, q)' = EntriesOf(t, q)
    BY DEF EntriesOf
  <1>5. \A q \in Refunds \ {r}, t \in Types : LedgerHas(t, q)' <=> LedgerHas(t, q)
    BY <1>4 DEF LedgerHas
  <1>6. LedgerHas(type, r)'
    BY <1>2 DEF LedgerHas
  <1> QED
    BY <1>2, <1>3, <1>4, <1>5, <1>6 DEF IndInv, LedgerFollowsOutcome

-----------------------------------------------------------------------------
(* Steps that write no Refund row.                                         *)

\* A transaction takes the row of a refund.
LEMMA LockStep ==
  ASSUME IndInv, NEW r \in Refunds, NEW by \in Writers, Start(r, by),
         refund[r].status # "ABSENT",
         by = "claim" => refund[r].status = "REQUESTED",
         by = "reject" => work[r] = "rejected",
         by = "attach" => work[r] = "accepted",
         by = "timeout" => work[r] = "timeout",
         by \in Events => sent[by] # Unsent /\ sent[by].external = refund[r].external
  PROVE  IndInv'
  <1>1. /\ pending' \in [Refunds -> [by : Writers, refunded : SUBSET Refunds, inFlight : SUBSET Refunds] \cup {Idle}]
        /\ pending'[r].by = by
        /\ \A q \in Refunds \ {r} : pending'[q] = pending[q]
    BY StartTypes DEF IndInv
  <1>2. UNCHANGED <<refund, ticket, ledger, outbox, asking, work, found, made, sent>>
    BY DEF Start, tables
  <1>3. Typed'
    BY <1>1, <1>2 DEF IndInv, Typed
  <1>4. AbsentUntouched'
    BY <1>1, <1>2 DEF IndInv, AbsentUntouched
  <1>5. StatusFollowsOutcome' /\ SeatRefundedOnce'
    BY <1>2 DEF IndInv, StatusFollowsOutcome, SeatRefundedOnce, Paying
  <1>6. DoubtAfterClaim'
    BY <1>1, <1>2 DEF IndInv, DoubtAfterClaim, Doubted
  <1>7. EventConcerns'
    BY <1>1, <1>2 DEF IndInv, EventConcerns
  <1>8. FailureIsFinal' /\ LedgerFollowsOutcome'
    BY <1>2 DEF IndInv, FailureIsFinal, FailureReported, Doubted, LedgerFollowsOutcome, LedgerHas, EntriesOf
  <1> QED
    BY <1>3, <1>4, <1>5, <1>6, <1>7, <1>8 DEF IndInv

\* A transaction ends and leaves the row as it was.
LEMMA UnlockStep ==
  ASSUME IndInv, NEW r \in Refunds, Done(r),
         UNCHANGED <<refund, ticket, asking, made, sent>>,
         work' = [work EXCEPT ![r] = "none"] \/ work' = work,
         found' = [found EXCEPT ![r] = NoRefund] \/ found' = found,
         ledger' = ledger \/ ledger' = ledger \cup {<<"REFUND_PROCESSING", r, r>>},
         DoubtChange(r)
  PROVE  IndInv'
  <1>1. /\ pending' \in [Refunds -> [by : Writers, refunded : SUBSET Refunds, inFlight : SUBSET Refunds] \cup {Idle}]
        /\ pending'[r].by = "nobody"
        /\ \A q \in Refunds \ {r} : pending'[q] = pending[q]
    BY DoneTypes DEF IndInv
  <1>2. /\ work'[r] \in {"none", work[r]} /\ \A q \in Refunds \ {r} : work'[q] = work[q]
        /\ found'[r] \in {NoRefund, found[r]} /\ \A q \in Refunds \ {r} : found'[q] = found[q]
    BY DEF IndInv, Typed
  <1>3. Typed'
    BY <1>1 DEF IndInv, Typed
  <1>4. AbsentUntouched'
    BY <1>1, <1>2 DEF IndInv, AbsentUntouched
  <1>5. StatusFollowsOutcome' /\ SeatRefundedOnce'
    BY DEF IndInv, StatusFollowsOutcome, SeatRefundedOnce, Paying
  <1>6. DoubtAfterClaim'
    BY <1>1, <1>2 DEF IndInv, DoubtAfterClaim, DoubtChange
  <1>7. EventConcerns'
    BY <1>1, DistinctNamesAssumption DEF IndInv, EventConcerns
  <1>8. SentKept
    BY DEF SentKept, IndInv, Typed
  <1>9. FailureIsFinal'
    BY <1>2, <1>8, FailureKept DEF DoubtChange
  <1>10. LedgerFollowsOutcome'
    BY LedgerKept
  <1> QED
    BY <1>3, <1>4, <1>5, <1>6, <1>7, <1>9, <1>10 DEF IndInv

\* Steps outside any transaction on a Refund row.
LEMMA QuietStep ==
  ASSUME IndInv, Typed', SentKept,
         UNCHANGED <<refund, pending, ledger, outbox>>,
         \A q \in asking' : refund[q].status = "ABSENT",
         \A q \in Refunds :
           /\ found'[q] = found[q] \/ refund[q].status # "ABSENT"
           /\ \/ work'[q] = work[q]
              \/ work[q] # "none" /\ pending[q].by = "nobody" /\ work'[q] # "claimed"
           /\ work'[q] = "rejected" => work[q] \in {"claimed", "rejected"}
  PROVE  IndInv'
  <1>0. \A q \in Refunds : Doubted(q)' <=> Doubted(q)
    BY DEF Doubted
  <1>1. AbsentUntouched'
    BY DEF IndInv, AbsentUntouched
  <1>2. StatusFollowsOutcome' /\ SeatRefundedOnce'
    BY DEF IndInv, StatusFollowsOutcome, SeatRefundedOnce, Paying
  <1>3. DoubtAfterClaim'
    BY <1>0, DistinctNamesAssumption DEF IndInv, DoubtAfterClaim
  <1>4. EventConcerns'
    BY DEF IndInv, EventConcerns, SentKept
  <1>5. FailureIsFinal'
    BY <1>0, FailureKept
  <1>6. LedgerFollowsOutcome'
    BY DEF IndInv, LedgerFollowsOutcome, LedgerHas, EntriesOf
  <1> QED
    BY <1>1, <1>2, <1>3, <1>4, <1>5, <1>6 DEF IndInv

-----------------------------------------------------------------------------
(* Steps that write a Refund row.                                          *)

\* Who writes has the row, and the refund is there.
LEMMA WriterHasRefund ==
  ASSUME IndInv, NEW r \in Refunds, pending[r].by # "nobody"
  PROVE  refund[r].status # "ABSENT" /\ refund[r] \in Row
  BY DEF IndInv, AbsentUntouched, Typed

\* A write that decides nothing.
LEMMA ProgressStep ==
  ASSUME IndInv, NEW r \in Refunds, NEW row \in Row, WriteRow(r, row), Done(r),
         pending[r].by # "nobody",
         row.outcome = refund[r].outcome, row.seats = refund[r].seats,
         row.status \in {"SUBMITTING", "PROCESSING", "REQUIRES_REVIEW"},
         UNCHANGED <<ticket, asking, made>>, SentKept,
         \/ work' = work
         \/ work' = [work EXCEPT ![r] = "none"]
         \/ work' = [work EXCEPT ![r] = "claimed"] /\ refund[r].status = "REQUESTED",
         found' = found \/ found' = [found EXCEPT ![r] = NoRefund],
         ledger' = ledger \/ ledger' = ledger \cup {<<"REFUND_PROCESSING", r, r>>},
         DoubtChange(r)
  PROVE  IndInv'
  <1>1. refund' = [refund EXCEPT ![r] = row] /\ RefundWriteAllowed(refund[r], row)
    BY DEF WriteRow
  <1>2. refund[r].status # "ABSENT" /\ refund[r] \in Row
    BY WriterHasRefund
  <1>3. row.outcome # "NONE" => row.status = "REQUIRES_REVIEW"
    BY <1>1 DEF IndInv, StatusFollowsOutcome, Typed, Row, RefundWriteAllowed, TerminalStatus
  <1>4. /\ row.outcome = "NONE" => row.status \in InFlightStatus
        /\ row.status \notin {"ABSENT", "REQUESTED"}
    BY DEF InFlightStatus
  <1>5. /\ work' \in [Refunds -> {"none", "claimed", "accepted", "timeout", "rejected"}]
        /\ found' \in [Refunds -> Refunds \cup {NoRefund}]
        /\ \A q \in Refunds \ {r} : found'[q] = found[q] /\ work'[q] = work[q]
        /\ work'[r] \in {work[r], "none"} \/ (work'[r] = "claimed" /\ refund[r].status = "REQUESTED")
    BY DEF IndInv, Typed
  <1>6. work'[r] \in {"claimed", "rejected"} => ~Doubted(r)
    BY <1>5 DEF IndInv, DoubtAfterClaim
  <1>7. /\ refund' \in [Refunds -> Row]
        /\ AbsentUntouched' /\ StatusFollowsOutcome' /\ DoubtAfterClaim' /\ EventConcerns' /\ SeatRefundedOnce'
    BY <1>1, <1>2, <1>3, <1>4, <1>5, <1>6, RowWritten
  <1>8. Typed'
    BY <1>5, <1>7, DoneTypes DEF IndInv, Typed, SentKept
  <1>9. \A q \in Refunds : /\ refund'[q].outcome = refund[q].outcome
                           /\ refund[q].external # NoRefund => refund'[q].external = refund[q].external
    BY <1>1 DEF IndInv, Typed, RefundWriteAllowed
  <1>10. refund[r].outcome = "FAILED" => work'[r] \in {work[r], "none"}
    BY <1>5 DEF IndInv, StatusFollowsOutcome
  <1>11. FailureIsFinal'
    BY <1>5, <1>9, <1>10, FailureKept DEF DoubtChange
  <1>12. LedgerFollowsOutcome'
    BY <1>9, LedgerKept
  <1> QED
    BY <1>7, <1>8, <1>11, <1>12 DEF IndInv

\* The write of an outcome, with its entry in the ledger.
LEMMA OutcomeStep ==
  ASSUME IndInv, NEW r \in Refunds, NEW c \in Refunds \cup Events, NEW o \in {"SUCCEEDED", "FAILED"},
         WriteRow(r, [refund[r] EXCEPT !.status = o, !.outcome = o]), Done(r),
         pending[r].by # "nobody", refund[r].outcome = "NONE",
         ticket' \in [Seats -> {"NONE", "ACTIVE", "USED", "REVOKED"}],
         UNCHANGED <<asking, made, found>>, SentKept,
         \A q \in Refunds : Doubted(q)' => Doubted(q),
         work' = work \/ work' = [work EXCEPT ![r] = "none"],
         ledger' = ledger \cup {<<IF o = "SUCCEEDED" THEN "REFUND_SUCCEEDED" ELSE "REFUND_FAILED", r, c>>},
         o = "FAILED" => FailureReported(r) \/ (~Doubted(r) /\ work'[r] = "none")
  PROVE  IndInv'
  <1> DEFINE row == [refund[r] EXCEPT !.status = o, !.outcome = o]
  <1>1. refund[r].status # "ABSENT" /\ refund[r] \in Row
    BY WriterHasRefund
  <1>2. /\ row \in Row /\ row.status = o /\ row.outcome = o
        /\ row.seats = refund[r].seats /\ row.external = refund[r].external
    BY <1>1 DEF Row
  <1>3. refund' = [refund EXCEPT ![r] = row] /\ RefundWriteAllowed(refund[r], row)
    BY DEF WriteRow
  <1> HIDE DEF row
  <1>4. /\ work' \in [Refunds -> {"none", "claimed", "accepted", "timeout", "rejected"}]
        /\ \A q \in Refunds \ {r} : found'[q] = found[q] /\ work'[q] = work[q]
        /\ work'[r] \in {work[r], "none"}
    BY DEF IndInv, Typed
  <1>5. (work'[r] \in {"claimed", "rejected"} => ~Doubted(r)) /\ DoubtChange(r)
    BY <1>4 DEF IndInv, DoubtAfterClaim, DoubtChange
  <1>6. /\ refund' \in [Refunds -> Row]
        /\ AbsentUntouched' /\ StatusFollowsOutcome' /\ DoubtAfterClaim' /\ EventConcerns' /\ SeatRefundedOnce'
    BY <1>1, <1>2, <1>3, <1>4, <1>5, RowWritten
  <1>7. Typed'
    BY <1>4, <1>6, DoneTypes DEF IndInv, Typed, SentKept
  <1>8. refund'[r] = row /\ \A q \in Refunds \ {r} : refund'[q] = refund[q]
    BY <1>3 DEF IndInv, Typed
  <1>9. LedgerFollowsOutcome'
    BY <1>2, <1>8, LedgerWritten
  <1>10. FailureIsFinal'
    <2> SUFFICES ASSUME NEW q \in Refunds, refund'[q].outcome = "FAILED"
                 PROVE  FailureReported(q)' \/ (~Doubted(q)' /\ work'[q] = "none")
      BY DEF FailureIsFinal
    <2>1. FailureReported(q) \/ (~Doubted(q)' /\ work'[q] = "none")
      BY <1>2, <1>4, <1>8 DEF IndInv, FailureIsFinal
    <2>2. refund'[q].external = refund[q].external
      BY <1>2, <1>8
    <2>3. FailureReported(q) => FailureReported(q)'
      BY <2>2 DEF FailureReported, SentKept
    <2> QED
      BY <2>1, <2>3
  <1> QED
    BY <1>6, <1>7, <1>9, <1>10 DEF IndInv

\* An outcome is decided only for a refund that has none, and is the one reported.
LEMMA DecisionOutcome ==
  ASSUME IndInv, NEW r \in Refunds, NEW e \in Events, NEW o \in {"SUCCEEDED", "FAILED"}, Decision(r, e) = o
  PROVE  refund[r].outcome = "NONE" /\ sent[e].report.status = o
  BY DEF Decision, IndInv, StatusFollowsOutcome, Typed, Row, TerminalStatus

-----------------------------------------------------------------------------
(* The actions.                                                            *)

\* A payment without refunds satisfies the invariant.
LEMMA InitInv ==
  Init => IndInv
  <1> SUFFICES ASSUME Init PROVE IndInv
    OBVIOUS
  <1>1. NoRefundRow \in Row
    BY DEF NoRefundRow, Row, InFlightStatus, Scopes
  <1>2. Typed
    BY <1>1 DEF Init, Typed
  <1>3. /\ \A r \in Refunds : refund[r].status = "ABSENT" /\ refund[r].outcome = "NONE"
                              /\ refund[r].external = NoRefund
        /\ \A r \in Refunds : pending[r].by = "nobody"
    BY DEF Init, NoRefundRow, Idle
  <1>4. AbsentUntouched /\ StatusFollowsOutcome
    BY <1>3 DEF Init, AbsentUntouched, StatusFollowsOutcome
  <1>5. DoubtAfterClaim /\ EventConcerns
    BY <1>3, DistinctNamesAssumption DEF Init, DoubtAfterClaim, EventConcerns, Doubted
  <1>6. FailureIsFinal /\ LedgerFollowsOutcome
    BY <1>3 DEF Init, FailureIsFinal, LedgerFollowsOutcome, EntriesOf
  <1>7. SeatRefundedOnce
    BY <1>3 DEF SeatRefundedOnce, Paying, InFlightStatus
  <1> QED
    BY <1>2, <1>4, <1>5, <1>6, <1>7 DEF IndInv

\* requestRefund gives a new refund seats that no other may pay back.
LEMMA RequestStep ==
  ASSUME IndInv, NEW r \in Refunds, NEW S \in SUBSET Seats, NEW scope \in Scopes,
         CommitRequest(r, S, scope)
  PROVE  IndInv'
  <1> DEFINE row == [status |-> "REQUESTED", outcome |-> "NONE", seats |-> S,
                     scope |-> scope, external |-> NoRefund]
  <1>1. /\ row \in Row /\ row.status = "REQUESTED" /\ row.outcome = "NONE"
        /\ row.seats = S /\ row.external = NoRefund
    BY DistinctNamesAssumption DEF Row, InFlightStatus
  <1>2. /\ r \in asking /\ S \cap Covered = {}
        /\ refund' = [refund EXCEPT ![r] = row]
        /\ ledger' = ledger \cup {<<"REFUND_REQUESTED", r, r>>}
        /\ asking' = asking \ {r}
        /\ outbox' = outbox \cup {<<"REFUND_REQUESTED", r>>}
        /\ UNCHANGED <<ticket, work, found, pending, made, sent>>
    BY DEF CommitRequest
  <1> HIDE DEF row
  <1>3. refund' \in [Refunds -> Row] /\ refund'[r] = row /\ \A q \in Refunds \ {r} : refund'[q] = refund[q]
    BY <1>1, <1>2 DEF IndInv, Typed
  <1>4. /\ refund[r].status = "ABSENT" /\ refund[r].outcome = "NONE" /\ refund[r].external = NoRefund
        /\ pending[r].by = "nobody" /\ work[r] = "none" /\ found[r] = NoRefund
    BY <1>2 DEF IndInv, AbsentUntouched
  <1>5. Typed'
    BY <1>2, <1>3 DEF IndInv, Typed
  <1>6. AbsentUntouched'
    BY <1>1, <1>2, <1>3 DEF IndInv, AbsentUntouched
  <1>7. StatusFollowsOutcome'
    BY <1>1, <1>3 DEF IndInv, StatusFollowsOutcome, InFlightStatus
  <1>0. \A q \in Refunds : Doubted(q)' <=> Doubted(q)
    BY <1>2 DEF Doubted
  <1>8. DoubtAfterClaim'
    BY <1>0, <1>1, <1>2, <1>3, <1>4 DEF IndInv, DoubtAfterClaim
  <1>9. EventConcerns'
    BY <1>2, <1>3, <1>4, DistinctNamesAssumption DEF IndInv, EventConcerns
  <1>10. SentKept
    BY <1>2 DEF IndInv, Typed, SentKept
  <1>11. FailureIsFinal'
    BY <1>0, <1>1, <1>2, <1>3, <1>4, <1>10, FailureKept
  <1>12. LedgerFollowsOutcome'
    BY <1>1, <1>2, <1>3, <1>4, LedgerKept
  <1>13. SeatRefundedOnce'
    <2>1. \A q \in Refunds : Paying(q) => refund[q].seats \subseteq Covered
      BY DEF Paying, Covered, Succeeded, InFlight
    <2>2. \A q \in Refunds \ {r} : (Paying(q)' <=> Paying(q)) /\ refund'[q].seats = refund[q].seats
      BY <1>3 DEF Paying
    <2>3. \A q \in Refunds \ {r} : Paying(q)' => refund'[q].seats \cap refund'[r].seats = {}
      BY <1>1, <1>2, <1>3, <2>1, <2>2
    <2> QED
      BY <2>2, <2>3 DEF IndInv, SeatRefundedOnce
  <1> QED
    BY <1>5, <1>6, <1>7, <1>8, <1>9, <1>11, <1>12, <1>13 DEF IndInv

\* Requests that come and go, the provider, a dying worker, reconciliation's search,
\* tickets: no Refund row is locked or written.
LEMMA OutsideStep ==
  ASSUME IndInv, NEW r \in Refunds
  PROVE  /\ StartRequest(r) => IndInv'
         /\ RefuseRequest(r) => IndInv'
         /\ Answer(r) => IndInv'
         /\ WorkerDies(r) => IndInv'
         /\ Find(r) => IndInv'
  <1>0. UNCHANGED sent => SentKept
    BY DEF IndInv, Typed, SentKept
  <1>1. ASSUME StartRequest(r) PROVE IndInv'
    <2>1. refund[r].status = "ABSENT"
      BY <1>1 DEF StartRequest, NoRefundRow
    <2>2. Typed'
      BY <1>1 DEF StartRequest, tables, IndInv, Typed
    <2> QED
      BY <1>0, <1>1, <2>1, <2>2, QuietStep DEF StartRequest, tables, IndInv, AbsentUntouched, Typed
  <1>2. ASSUME RefuseRequest(r) PROVE IndInv'
    <2>1. Typed'
      BY <1>2 DEF RefuseRequest, tables, IndInv, Typed
    <2> QED
      BY <1>0, <1>2, <2>1, QuietStep DEF RefuseRequest, tables, IndInv, AbsentUntouched, Typed
  <1>3. ASSUME Answer(r) PROVE IndInv'
    <2>1. PICK answer \in {"accepted", "timeout", "rejected"}, makes \in BOOLEAN : ProviderAnswers(r, answer, makes)
      BY <1>3 DEF Answer
    <2>2. /\ UNCHANGED <<refund, pending, ledger, outbox, ticket, asking, found, sent>>
          /\ work[r] = "claimed" /\ pending[r].by = "nobody"
          /\ work' = [work EXCEPT ![r] = answer]
          /\ made' \in {made, made \cup {r}}
      BY <2>1 DEF ProviderAnswers, tables, Idle
    <2>3. /\ Typed' /\ work'[r] = answer
          /\ \A q \in Refunds \ {r} : work'[q] = work[q]
      BY <2>2 DEF IndInv, Typed
    <2>5. \A q \in asking' : refund[q].status = "ABSENT"
      BY <2>2 DEF IndInv, AbsentUntouched, Typed
    <2> QED
      BY <1>0, <2>2, <2>3, <2>5, QuietStep
  <1>4. ASSUME WorkerDies(r) PROVE IndInv'
    <2>1. /\ UNCHANGED <<refund, pending, ledger, outbox, ticket, asking, found, made, sent>>
          /\ work[r] # "none" /\ pending[r].by = "nobody"
          /\ work' = [work EXCEPT ![r] = "none"]
      BY <1>4 DEF WorkerDies, tables, Idle
    <2>2. Typed' /\ work'[r] = "none" /\ \A q \in Refunds \ {r} : work'[q] = work[q]
      BY <2>1 DEF IndInv, Typed
    <2>3. \A q \in asking' : refund[q].status = "ABSENT"
      BY <2>1 DEF IndInv, AbsentUntouched, Typed
    <2> QED
      BY <1>0, <2>1, <2>2, <2>3, QuietStep
  <1>5. ASSUME Find(r) PROVE IndInv'
    <2>1. PICK x \in Refunds : FindExternal(r, x)
      BY <1>5 DEF Find
    <2>2. /\ UNCHANGED <<refund, pending, ledger, outbox, ticket, asking, work, made, sent>>
          /\ refund[r].status # "ABSENT"
          /\ found' = [found EXCEPT ![r] = x]
      BY <2>1 DEF FindExternal, tables
    <2>3. Typed' /\ \A q \in Refunds \ {r} : found'[q] = found[q]
      BY <2>2 DEF IndInv, Typed
    <2>4. \A q \in asking' : refund[q].status = "ABSENT"
      BY <2>2 DEF IndInv, AbsentUntouched, Typed
    <2> QED
      BY <1>0, <2>2, <2>3, <2>4, QuietStep
  <1> QED
    BY <1>1, <1>2, <1>3, <1>4, <1>5

\* The provider's events as far as they change no refund, and the tickets.
LEMMA EventStep ==
  ASSUME IndInv
  PROVE  /\ \A e \in Events, x \in Refunds, report \in Reports : EmitReport(e, x, report) => IndInv'
         /\ \A e \in Events : ParkUnknown(e) => IndInv'
         /\ \A e \in Events, r \in Refunds : IgnoreEvent(r, e) => IndInv'
         /\ IssueTickets => IndInv'
         /\ \A s \in Seats : ScanTicket(s) => IndInv'
  <1>0. \A q \in asking : refund[q].status = "ABSENT"
    BY DEF IndInv, AbsentUntouched, Typed
  <1>1. ASSUME NEW e \in Events, SentKept, UNCHANGED <<tables, asking, work, found, pending, made>>
        PROVE  IndInv'
    <2>1. Typed'
      BY <1>1 DEF IndInv, Typed, tables, SentKept
    <2> QED
      BY <1>0, <1>1, <2>1, QuietStep DEF tables
  <1>2. ASSUME NEW e \in Events, NEW x \in Refunds, NEW report \in Reports, EmitReport(e, x, report)
        PROVE  IndInv'
    <2> DEFINE new == [external |-> x, report |-> report, processing |-> "RECEIVED",
                       late |-> \E r \in Refunds : refund[r].external = x /\ refund[r].outcome # "NONE"]
    <2>1. new \in SentEvent
      BY DEF SentEvent
    <2>2. sent' = [sent EXCEPT ![e] = new] /\ sent[e] = Unsent
      BY <1>2 DEF EmitReport
    <2> HIDE DEF new
    <2>3. SentKept
      BY <2>1, <2>2 DEF SentKept, IndInv, Typed
    <2> QED
      BY <1>1, <1>2, <2>3 DEF EmitReport
  <1>3. ASSUME NEW e \in Events, ParkUnknown(e) PROVE IndInv'
    <2>1. sent[e] # Unsent
      BY <1>3 DEF ParkUnknown, Unsent
    <2>2. SentKept
      BY <1>3, <2>1, SettleKeeps DEF ParkUnknown, SentKept, IndInv
    <2> QED
      BY <1>1, <1>3, <2>2 DEF ParkUnknown
  <1>4. ASSUME NEW e \in Events, NEW r \in Refunds, IgnoreEvent(r, e) PROVE IndInv'
    <2>1. sent[e] # Unsent
      BY <1>4 DEF IgnoreEvent, Concerns, Unsent
    <2>2. SentKept
      BY <1>4, <2>1, SettleKeeps DEF IgnoreEvent, SentKept, IndInv
    <2> QED
      BY <1>1, <1>4, <2>2 DEF IgnoreEvent
  <1>5. ASSUME UNCHANGED <<refund, ledger, outbox, asking, work, found, pending, made, sent>>,
               ticket' \in [Seats -> {"NONE", "ACTIVE", "USED", "REVOKED"}]
        PROVE  IndInv'
    <2>1. Typed' /\ SentKept
      BY <1>5 DEF IndInv, Typed, SentKept
    <2> QED
      BY <1>0, <1>5, <2>1, QuietStep
  <1>6. ASSUME IssueTickets PROVE IndInv'
    BY <1>5, <1>6 DEF IssueTickets
  <1>7. ASSUME NEW s \in Seats, ScanTicket(s) PROVE IndInv'
    BY <1>5, <1>7 DEF ScanTicket, IndInv, Typed
  <1> QED
    BY <1>2, <1>3, <1>4, <1>6, <1>7

\* Every transaction on a Refund row starts on a refund that is there.
LEMMA StartStep ==
  ASSUME IndInv, NEW r \in Refunds
  PROVE  /\ StartClaim(r) => IndInv'
         /\ StartRecording(r) => IndInv'
         /\ StartAdopt(r) => IndInv'
         /\ \A e \in Events : StartSettle(r, e) => IndInv'
  <1>0. {"claim", "attach", "timeout", "reject", "adopt"} \cap Events = {}
    BY DistinctNamesAssumption
  <1>1. ASSUME StartClaim(r) PROVE IndInv'
    BY <1>0, <1>1, LockStep DEF StartClaim, Writers
  <1>2. ASSUME StartRecording(r) PROVE IndInv'
    <2>1. refund[r].status # "ABSENT"
      BY <1>2 DEF StartRecording, IndInv, AbsentUntouched
    <2> QED
      BY <1>0, <1>2, <2>1, LockStep DEF StartRecording, Writers
  <1>3. ASSUME StartAdopt(r) PROVE IndInv'
    <2>1. refund[r].status # "ABSENT"
      BY <1>3 DEF StartAdopt, IndInv, AbsentUntouched
    <2> QED
      BY <1>0, <1>3, <2>1, LockStep DEF StartAdopt, Writers
  <1>4. ASSUME NEW e \in Events, StartSettle(r, e) PROVE IndInv'
    <2>1. sent[e] # Unsent /\ sent[e].external = refund[r].external /\ Start(r, e)
      BY <1>4 DEF StartSettle, Concerns, Unsent
    <2>2. sent[e].external \in Refunds
      BY <2>1 DEF IndInv, Typed, SentEvent
    <2>3. refund[r].status # "ABSENT"
      BY <2>1, <2>2, NoRefundAssumption DEF IndInv, AbsentUntouched
    <2> QED
      BY <1>0, <2>1, <2>3, LockStep DEF Writers
  <1> QED
    BY <1>1, <1>2, <1>3, <1>4

\* What submitRefund and reconciliation commit, and a rollback.
LEMMA WorkStep ==
  ASSUME IndInv, NEW r \in Refunds
  PROVE  /\ CommitClaim(r) => IndInv'
         /\ CommitAttach(r) => IndInv'
         /\ CommitTimeout(r) => IndInv'
         /\ CommitReject(r) => IndInv'
         /\ CommitAdopt(r) => IndInv'
         /\ Abort(r) => IndInv'
  <1>0. refund[r] \in Row /\ found[r] \in Refunds \cup {NoRefund} /\ (UNCHANGED sent => SentKept)
    BY DEF IndInv, Typed, SentKept
  <1>1. ASSUME CommitClaim(r) PROVE IndInv'
    <2> DEFINE row == [refund[r] EXCEPT !.status = "SUBMITTING"]
    <2>1. /\ row \in Row /\ row.outcome = refund[r].outcome /\ row.seats = refund[r].seats
          /\ row.status = "SUBMITTING"
      BY <1>0 DEF Row, InFlightStatus
    <2>2. /\ WriteRow(r, row) /\ Done(r) /\ pending[r].by # "nobody"
          /\ UNCHANGED <<ticket, asking, made, sent, found, ledger, outbox>>
          /\ work' = [work EXCEPT ![r] = "claimed"]
      BY <1>1 DEF CommitClaim
    <2>4. DoubtChange(r)
      BY <2>2 DEF DoubtChange, Doubted
    <2>3. refund[r].status = "REQUESTED"
      BY <1>1 DEF CommitClaim, IndInv, DoubtAfterClaim
    <2> HIDE DEF row
    <2> QED
      BY <1>0, <2>1, <2>2, <2>3, <2>4, ProgressStep
  <1>2. ASSUME CommitAttach(r) PROVE IndInv'
    <2> DEFINE row == [refund[r] EXCEPT !.status = "PROCESSING", !.external = r]
    <2>1. /\ row \in Row /\ row.outcome = refund[r].outcome /\ row.seats = refund[r].seats
          /\ row.status = "PROCESSING"
      BY <1>0 DEF Row, InFlightStatus
    <2>2. /\ WriteRow(r, row) \/ UNCHANGED refund
          /\ Done(r) /\ pending[r].by # "nobody"
          /\ UNCHANGED <<ticket, asking, made, sent, found>>
          /\ ledger' = ledger \cup {<<"REFUND_PROCESSING", r, r>>}
          /\ work' = [work EXCEPT ![r] = "none"]
      BY <1>2 DEF CommitAttach
    <2> HIDE DEF row
    <2>5. DoubtChange(r)
      <3>1. work[r] = "accepted" /\ work'[r] = "none" /\ outbox' = outbox \cup {<<"REFUND_SUBMITTED", r>>}
        BY <1>2 DEF CommitAttach, IndInv, DoubtAfterClaim, Typed
      <3> QED
        BY <3>1 DEF DoubtChange, Doubted
    <2>3. CASE WriteRow(r, row)
      BY <1>0, <2>1, <2>2, <2>3, <2>5, ProgressStep
    <2>4. CASE UNCHANGED refund
      BY <2>2, <2>4, <2>5, UnlockStep
    <2> QED
      BY <2>2, <2>3, <2>4
  <1>3. ASSUME CommitTimeout(r) PROVE IndInv'
    <2> DEFINE row == [refund[r] EXCEPT !.status = "PROCESSING"]
    <2>1. /\ row \in Row /\ row.outcome = refund[r].outcome /\ row.seats = refund[r].seats
          /\ row.status = "PROCESSING"
      BY <1>0 DEF Row, InFlightStatus
    <2>2. /\ WriteRow(r, row) \/ UNCHANGED refund
          /\ Done(r) /\ pending[r].by # "nobody"
          /\ UNCHANGED <<ticket, asking, made, sent, found, ledger>>
          /\ work' = [work EXCEPT ![r] = "none"]
      BY <1>3 DEF CommitTimeout
    <2> HIDE DEF row
    <2>5. DoubtChange(r)
      <3>1. /\ work[r] = "timeout" /\ work'[r] = "none"
            /\ outbox' = outbox \cup {<<"FINANCIAL_RECONCILIATION_REQUIRED", r>>}
        BY <1>3 DEF CommitTimeout, IndInv, DoubtAfterClaim, Typed
      <3> QED
        BY <3>1 DEF DoubtChange, Doubted
    <2>3. CASE WriteRow(r, row)
      BY <1>0, <2>1, <2>2, <2>3, <2>5, ProgressStep
    <2>4. CASE UNCHANGED refund
      BY <2>2, <2>4, <2>5, UnlockStep
    <2> QED
      BY <2>2, <2>3, <2>4
  <1>4. ASSUME CommitReject(r) PROVE IndInv'
    <2>1. /\ Done(r) /\ pending[r].by = "reject"
          /\ UNCHANGED <<ticket, asking, made, sent, found>>
          /\ work' = [work EXCEPT ![r] = "none"]
          /\ outbox' = outbox \/ outbox' = outbox \cup {<<"REFUND_FAILED", r>>}
      BY <1>4 DEF CommitReject
    <2>4. (\A q \in Refunds : Doubted(q)' => Doubted(q)) /\ DoubtChange(r)
      BY <2>1 DEF Doubted, DoubtChange
    <2>2. CASE refund[r].status \in TerminalStatus \cup {"REQUIRES_REVIEW"}
      <3>1. UNCHANGED <<refund, ledger>>
        BY <1>4, <2>2 DEF CommitReject
      <3> QED
        BY <2>1, <2>4, <3>1, UnlockStep
    <2>3. CASE refund[r].status \notin TerminalStatus \cup {"REQUIRES_REVIEW"}
      <3>1. /\ WriteRow(r, [refund[r] EXCEPT !.status = "FAILED", !.outcome = "FAILED"])
            /\ ledger' = ledger \cup {<<"REFUND_FAILED", r, r>>}
        BY <1>4, <2>3 DEF CommitReject
      <3>2. refund[r].outcome = "NONE"
        BY <1>0, <2>3 DEF IndInv, StatusFollowsOutcome, TerminalStatus, Row
      <3>3. ~Doubted(r) /\ work'[r] = "none"
        BY <2>1 DEF IndInv, DoubtAfterClaim, Typed
      <3>4. ticket' \in [Seats -> {"NONE", "ACTIVE", "USED", "REVOKED"}]
        BY <2>1 DEF IndInv, Typed
      <3> QED
        BY <1>0, <2>1, <2>4, <3>1, <3>2, <3>3, <3>4, OutcomeStep
    <2> QED
      BY <2>2, <2>3
  <1>5. ASSUME CommitAdopt(r) PROVE IndInv'
    <2> DEFINE row == [refund[r] EXCEPT !.status = "PROCESSING", !.external = found[r]]
    <2>1. /\ row \in Row /\ row.outcome = refund[r].outcome /\ row.seats = refund[r].seats
          /\ row.status = "PROCESSING"
      BY <1>0 DEF Row, InFlightStatus
    <2>2. /\ WriteRow(r, row) \/ UNCHANGED refund
          /\ Done(r) /\ pending[r].by # "nobody"
          /\ UNCHANGED <<ticket, asking, made, sent, work, ledger, outbox>>
          /\ found' = [found EXCEPT ![r] = NoRefund]
      BY <1>5 DEF CommitAdopt
    <2> HIDE DEF row
    <2>5. DoubtChange(r)
      BY <2>2 DEF DoubtChange, Doubted
    <2>3. CASE WriteRow(r, row)
      BY <1>0, <2>1, <2>2, <2>3, <2>5, ProgressStep
    <2>4. CASE UNCHANGED refund
      BY <2>2, <2>4, <2>5, UnlockStep
    <2> QED
      BY <2>2, <2>3, <2>4
  <1>6. ASSUME Abort(r) PROVE IndInv'
    <2>1. Done(r) /\ UNCHANGED <<refund, ticket, ledger, outbox, asking, made, sent>>
      BY <1>6 DEF Abort, tables
    <2>4. DoubtChange(r)
      BY <2>1 DEF DoubtChange, Doubted
    <2>2. work' = [work EXCEPT ![r] = "none"] \/ work' = work
      BY <1>6 DEF Abort, IndInv, Typed
    <2>3. found' = [found EXCEPT ![r] = NoRefund] \/ found' = found
      BY <1>6 DEF Abort, IndInv, Typed
    <2> QED
      BY <2>1, <2>2, <2>3, <2>4, UnlockStep
  <1> QED
    BY <1>1, <1>2, <1>3, <1>4, <1>5, <1>6

\* What a provider event commits.
LEMMA SettlementStep ==
  ASSUME IndInv, NEW r \in Refunds
  PROVE  /\ CommitSucceeded(r) => IndInv'
         /\ CommitFailed(r) => IndInv'
         /\ CommitReview(r) => IndInv'
  <1> DEFINE e == pending[r].by
  <1>0. refund[r] \in Row
    BY DEF IndInv, Typed
  <1>1. ASSUME e \in Events
        PROVE  /\ e # "nobody" /\ sent[e] # Unsent /\ sent[e].external = refund[r].external
               /\ \A p \in {"PROCESSED", "REQUIRES_REVIEW"} : Settle(e, p) => SentKept
    <2>1. e # "nobody" /\ sent[e] # Unsent /\ sent[e].external = refund[r].external
      BY <1>1, DistinctNamesAssumption DEF IndInv, EventConcerns
    <2>2. ASSUME NEW p \in {"PROCESSED", "REQUIRES_REVIEW"}, Settle(e, p) PROVE SentKept
      BY <1>1, <2>1, <2>2, SettleKeeps DEF SentKept, IndInv
    <2> QED
      BY <2>1, <2>2
  <1>2. ASSUME CommitSucceeded(r) PROVE IndInv'
    <2>1. /\ e \in Events /\ Decision(r, e) = "SUCCEEDED"
          /\ WriteRow(r, [refund[r] EXCEPT !.status = "SUCCEEDED", !.outcome = "SUCCEEDED"])
          /\ ledger' = ledger \cup {<<"REFUND_SUCCEEDED", r, e>>}
          /\ ticket' = [s \in Seats |-> IF s \in Revoked(r) THEN "REVOKED" ELSE ticket[s]]
          /\ Settle(e, "PROCESSED") /\ Done(r)
          /\ UNCHANGED <<asking, work, found, made>>
      BY <1>2 DEF CommitSucceeded, Settling
    <2>5. \A q \in Refunds : Doubted(q)' => Doubted(q)
      BY <1>2 DEF CommitSucceeded, Doubted
    <2>2. refund[r].outcome = "NONE"
      BY <2>1, DecisionOutcome
    <2>3. SentKept /\ e # "nobody"
      BY <1>1, <2>1
    <2>4. ticket' \in [Seats -> {"NONE", "ACTIVE", "USED", "REVOKED"}]
      BY <2>1 DEF IndInv, Typed
    <2> HIDE DEF e
    <2> QED
      BY <2>1, <2>2, <2>3, <2>4, <2>5, OutcomeStep DEF e
  <1>3. ASSUME CommitFailed(r) PROVE IndInv'
    <2>1. /\ e \in Events /\ Decision(r, e) = "FAILED"
          /\ WriteRow(r, [refund[r] EXCEPT !.status = "FAILED", !.outcome = "FAILED"])
          /\ ledger' = ledger \cup {<<"REFUND_FAILED", r, e>>}
          /\ Settle(e, "PROCESSED") /\ Done(r)
          /\ UNCHANGED <<ticket, asking, work, found, made>>
      BY <1>3 DEF CommitFailed, Settling
    <2>6. \A q \in Refunds : Doubted(q)' => Doubted(q)
      BY <1>3 DEF CommitFailed, Doubted
    <2>2. refund[r].outcome = "NONE" /\ sent[e].report.status = "FAILED"
      BY <2>1, DecisionOutcome
    <2>3. SentKept /\ e # "nobody"
      BY <1>1, <2>1
    <2>4. FailureReported(r)
      BY <1>1, <2>1, <2>2 DEF FailureReported
    <2>5. ticket' \in [Seats -> {"NONE", "ACTIVE", "USED", "REVOKED"}]
      BY <2>1 DEF IndInv, Typed
    <2> QED
      BY <2>1, <2>2, <2>3, <2>4, <2>5, <2>6, OutcomeStep
  <1>4. ASSUME CommitReview(r) PROVE IndInv'
    <2> DEFINE row == [refund[r] EXCEPT !.status = "REQUIRES_REVIEW"]
    <2>1. /\ row \in Row /\ row.outcome = refund[r].outcome /\ row.seats = refund[r].seats
          /\ row.status = "REQUIRES_REVIEW"
      BY <1>0 DEF Row, InFlightStatus
    <2>2. /\ e \in Events /\ WriteRow(r, row)
          /\ Settle(e, "REQUIRES_REVIEW") /\ Done(r)
          /\ UNCHANGED <<ticket, ledger, asking, work, found, made>>
      BY <1>4 DEF CommitReview, Settling
    <2>4. DoubtChange(r)
      BY <1>4 DEF CommitReview, DoubtChange, Doubted
    <2>3. SentKept /\ e # "nobody"
      BY <1>1, <2>2
    <2> HIDE DEF row
    <2> QED
      BY <2>1, <2>2, <2>3, <2>4, ProgressStep
  <1> QED
    BY <1>2, <1>3, <1>4

\* Every operation preserves it.
LEMMA NextInv ==
  IndInv /\ [Next]_vars => IndInv'
  <1> SUFFICES ASSUME IndInv, [Next]_vars PROVE IndInv'
    OBVIOUS
  <1>1. CASE UNCHANGED vars
    <2>1. \A r \in Refunds : Doubted(r)' <=> Doubted(r)
      BY <1>1 DEF vars, tables, Doubted
    <2>2. DoubtAfterClaim' /\ FailureIsFinal'
      BY <1>1, <2>1 DEF vars, tables, IndInv, DoubtAfterClaim, FailureIsFinal, FailureReported
    <2> QED
      BY <1>1, <2>2 DEF vars, tables, IndInv, Typed, AbsentUntouched, StatusFollowsOutcome,
         EventConcerns, LedgerFollowsOutcome, LedgerHas, EntriesOf, SeatRefundedOnce, Paying
  <1>2. ASSUME NEW r \in Refunds, Request(r) PROVE IndInv'
    BY <1>2, OutsideStep, RequestStep DEF Request
  <1>3. ASSUME NEW r \in Refunds,
               StartClaim(r) \/ Answer(r) \/ StartRecording(r) \/ WorkerDies(r) \/ Find(r) \/ StartAdopt(r)
        PROVE  IndInv'
    BY <1>3, OutsideStep, StartStep
  <1>4. ASSUME NEW r \in Refunds, Commit(r) \/ Abort(r) PROVE IndInv'
    BY <1>4, WorkStep, SettlementStep DEF Commit
  <1>5. ASSUME NEW e \in Events, DeliverReport(e) PROVE IndInv'
    BY <1>5, EventStep, StartStep DEF DeliverReport
  <1>6. ASSUME NEW e \in Events, NEW x \in Refunds, NEW report \in Reports, EmitReport(e, x, report) PROVE IndInv'
    BY <1>6, EventStep
  <1>7. CASE IssueTickets \/ \E s \in Seats : ScanTicket(s)
    BY <1>7, EventStep
  <1> QED
    BY <1>1, <1>2, <1>3, <1>4, <1>5, <1>6, <1>7 DEF Next

\* IndInv is an invariant of requests, workers, reconciliation, events and tickets together.
THEOREM Invariance == Spec => []IndInv
  BY InitInv, NextInv, PTL DEF Spec

-----------------------------------------------------------------------------
(* The results.                                                            *)

\* requestRefund, RefundSeat_enforce_snapshot and Refund_protect_identity together: no
\* seat is being paid back by two refunds, for any number of requests and events, and
\* although the totals they are checked against may be stale.
THEOREM NoSeatPaidBackTwice == Spec => []SeatRefundedOnce
  <1>1. IndInv => SeatRefundedOnce
    BY DEF IndInv
  <1> QED
    BY <1>1, Invariance, PTL

\* submitRefund, reconciliation and settlement together: once a refund was recorded as
\* taken by the provider, or as unknown, nothing but the provider's own report fails it.
THEOREM OnlyReportsFailTheSubmitted == Spec => []UnknownIsNotFailed
  <1>1. IndInv => UnknownIsNotFailed
    BY DEF IndInv, FailureIsFinal, FailureReported, Doubted, UnknownIsNotFailed
  <1> QED
    BY <1>1, Invariance, PTL

\* appendLedgerEntry where an outcome is written: exactly one entry tells the outcome of
\* a refund that has one, and none contradicts it.
THEOREM LedgerIsTrue == Spec => []LedgerTellsTheOutcome
  <1>1. IndInv => LedgerTellsTheOutcome
    <2> SUFFICES ASSUME IndInv, NEW r \in Refunds
                 PROVE  /\ Cardinality(EntriesOf("REFUND_SUCCEEDED", r)) = IF refund[r].outcome = "SUCCEEDED" THEN 1 ELSE 0
                        /\ Cardinality(EntriesOf("REFUND_FAILED", r)) = IF refund[r].outcome = "FAILED" THEN 1 ELSE 0
      BY DEF LedgerTellsTheOutcome, EntriesOf
    <2>1. \A t \in {"REFUND_SUCCEEDED", "REFUND_FAILED"} : LedgerHas(t, r) => Cardinality(EntriesOf(t, r)) = 1
      BY FS_Singleton DEF LedgerHas
    <2>2. Cardinality({}) = 0
      BY FS_EmptySet
    <2> QED
      BY <2>1, <2>2 DEF IndInv, LedgerFollowsOutcome
  <1> QED
    BY <1>1, Invariance, PTL

\* How a step may change a row.
RowChange(r) ==
  \/ refund'[r] = refund[r]
  \/ refund[r].status = "ABSENT"
  \/ RefundWriteAllowed(refund[r], refund'[r])

\* Every write of an existing row passes the trigger.
LEMMA RowsChange ==
  ASSUME IndInv, Next
  PROVE  \A r \in Refunds : RowChange(r)
  <1>1. ASSUME UNCHANGED refund PROVE \A r \in Refunds : RowChange(r)
    BY <1>1 DEF RowChange
  <1>2. ASSUME NEW r \in Refunds, NEW row, WriteRow(r, row) PROVE \A q \in Refunds : RowChange(q)
    BY <1>2 DEF WriteRow, RowChange, IndInv, Typed
  <1>3. ASSUME NEW r \in Refunds, Request(r) PROVE \A q \in Refunds : RowChange(q)
    <2>1. CASE StartRequest(r) \/ RefuseRequest(r)
      BY <1>1, <2>1 DEF StartRequest, RefuseRequest, tables
    <2>2. ASSUME NEW S \in SUBSET Seats, NEW scope \in Scopes,
                 CommitRequest(r, S, scope)
          PROVE  \A q \in Refunds : RowChange(q)
      <3>1. refund[r].status = "ABSENT" /\ \A q \in Refunds \ {r} : refund'[q] = refund[q]
        BY <2>2 DEF CommitRequest, IndInv, AbsentUntouched, Typed
      <3> QED
        BY <3>1 DEF RowChange
    <2> QED
      BY <1>3, <2>1, <2>2 DEF Request
  <1>4. ASSUME NEW r \in Refunds,
               StartClaim(r) \/ Answer(r) \/ StartRecording(r) \/ WorkerDies(r) \/ Find(r) \/ StartAdopt(r) \/ Abort(r)
        PROVE  UNCHANGED refund
    BY <1>4 DEF StartClaim, Answer, ProviderAnswers, StartRecording, WorkerDies, Find, FindExternal,
                StartAdopt, Abort, Start, tables
  <1>5. ASSUME NEW r \in Refunds, Commit(r) PROVE \A q \in Refunds : RowChange(q)
    <2>1. UNCHANGED refund \/ \E row : WriteRow(r, row)
      BY <1>5 DEF Commit, CommitClaim, CommitAttach, CommitTimeout, CommitReject, CommitAdopt,
                  CommitSucceeded, CommitFailed, CommitReview
    <2> QED
      BY <1>1, <1>2, <2>1
  <1>6. ASSUME NEW e \in Events, DeliverReport(e) \/ \E x \in Refunds, report \in Reports : EmitReport(e, x, report)
        PROVE  UNCHANGED refund
    BY <1>6 DEF DeliverReport, ParkUnknown, IgnoreEvent, StartSettle, Start, EmitReport, tables
  <1>7. ASSUME IssueTickets \/ \E s \in Seats : ScanTicket(s) PROVE UNCHANGED refund
    BY <1>7 DEF IssueTickets, ScanTicket
  <1> QED
    BY <1>1, <1>3, <1>4, <1>5, <1>6, <1>7 DEF Next

\* A ticket leaves ACTIVE at most once.
LEMMA TicketsChange ==
  ASSUME IndInv, Next
  PROVE  \A s \in Seats : ticket[s] \in {"USED", "REVOKED"} => ticket'[s] = ticket[s]
  <1>1. ASSUME NEW r \in Refunds,
               \/ Request(r) \/ StartClaim(r) \/ Answer(r) \/ StartRecording(r) \/ WorkerDies(r)
               \/ Find(r) \/ StartAdopt(r) \/ Abort(r)
        PROVE  UNCHANGED ticket
    BY <1>1 DEF Request, StartRequest, RefuseRequest, CommitRequest, StartClaim, Answer, ProviderAnswers,
                StartRecording, WorkerDies, Find, FindExternal, StartAdopt, Abort, Start, tables
  <1>2. ASSUME NEW r \in Refunds, Commit(r)
        PROVE  UNCHANGED ticket \/ ticket' = [s \in Seats |-> IF s \in Revoked(r) THEN "REVOKED" ELSE ticket[s]]
    BY <1>2 DEF Commit, CommitClaim, CommitAttach, CommitTimeout, CommitReject, CommitAdopt,
                CommitSucceeded, CommitFailed, CommitReview
  <1>3. ASSUME NEW e \in Events, DeliverReport(e) \/ \E x \in Refunds, report \in Reports : EmitReport(e, x, report)
        PROVE  UNCHANGED ticket
    BY <1>3 DEF DeliverReport, ParkUnknown, IgnoreEvent, StartSettle, Start, EmitReport, tables
  <1>4. ASSUME NEW r \in Refunds, ticket' = [s \in Seats |-> IF s \in Revoked(r) THEN "REVOKED" ELSE ticket[s]]
        PROVE  \A s \in Seats : ticket[s] \in {"USED", "REVOKED"} => ticket'[s] = ticket[s]
    BY <1>4 DEF Revoked
  <1>5. ASSUME IssueTickets \/ \E s \in Seats : ScanTicket(s)
        PROVE  \A s \in Seats : ticket[s] \in {"USED", "REVOKED"} => ticket'[s] = ticket[s]
    BY <1>5 DEF IssueTickets, ScanTicket, IndInv, Typed
  <1> QED
    BY <1>1, <1>2, <1>3, <1>4, <1>5 DEF Next

\* Refund_protect_identity and the status filters: identifier, outcome and review are
\* written once, whoever writes last, and a used or revoked ticket stays so.
THEOREM WrittenOnce == Spec => WriteOnce
  <1> DEFINE Kept ==
        /\ \A r \in Refunds :
             /\ refund[r].external # NoRefund => refund'[r].external = refund[r].external
             /\ refund[r].outcome # "NONE" =>
                  /\ refund'[r].outcome = refund[r].outcome
                  /\ refund'[r].status \in {refund[r].status, "REQUIRES_REVIEW"}
             /\ refund[r].status = "REQUIRES_REVIEW" => refund'[r].status = "REQUIRES_REVIEW"
        /\ \A s \in Seats : ticket[s] \in {"USED", "REVOKED"} => ticket'[s] = ticket[s]
  <1>1. IndInv /\ [Next]_vars => [Kept]_vars
    <2> SUFFICES ASSUME IndInv, Next PROVE Kept
      OBVIOUS
    <2>1. ASSUME NEW r \in Refunds
          PROVE  /\ refund[r].external # NoRefund => refund'[r].external = refund[r].external
                 /\ refund[r].outcome # "NONE" =>
                      /\ refund'[r].outcome = refund[r].outcome
                      /\ refund'[r].status \in {refund[r].status, "REQUIRES_REVIEW"}
                 /\ refund[r].status = "REQUIRES_REVIEW" => refund'[r].status = "REQUIRES_REVIEW"
      <3>1. RowChange(r)
        BY RowsChange
      <3>2. refund[r].outcome # "NONE" => refund[r].status \in TerminalStatus \cup {"REQUIRES_REVIEW"}
        BY DEF IndInv, StatusFollowsOutcome, Typed, Row, TerminalStatus
      <3> QED
        BY <3>1, <3>2 DEF RowChange, RefundWriteAllowed, IndInv, AbsentUntouched
    <2> QED
      BY <2>1, TicketsChange
  <1>2. WriteOnce <=> [][Kept]_vars
    BY DEF WriteOnce
  <1> HIDE DEF Kept
  <1> QED
    BY <1>1, <1>2, Invariance, PTL DEF Spec

-----------------------------------------------------------------------------
(* Sums over finite sets.  MapThenSumSet is a recursive function over the  *)
(* subsets of its set.  Induction is by a least counterexample, which the  *)
(* well-foundedness of strict inclusion provides.                          *)

\* The element a sum begins with.
Any(S) == CHOOSE x \in S : TRUE

\* g sums f over the subsets of S, the way MapThenSumSet goes through them.
Sums(g, f, S) == g = [s \in SUBSET S |-> IF s = {} THEN 0 ELSE f[Any(s)] + g[s \ {Any(s)}]]

\* The sum of f over S.
SumOf(f, S) == MapThenSumSet(LAMBDA x : f[x], S)

\* Among subsets of a finite set that are wrong, one is wrong although all below it are right.
LEMMA LeastWrong ==
  ASSUME NEW S, IsFiniteSet(S), NEW B \in SUBSET SUBSET S, B # {}
  PROVE  \E T \in B : \A U \in SUBSET T : U # T => U \notin B
<1>1. B \subseteq FiniteSubsetsOf(S)
  BY FS_Subset DEF FiniteSubsetsOf
<1>2. PICK R : R = StrictSubsetOrdering(S)
  OBVIOUS
<1>3. IsWellFoundedOn(R, FiniteSubsetsOf(S))
  BY <1>2, FS_StrictSubsetOrderingWellFounded
<1>4. PICK T \in B : \A U \in B : <<U, T>> \notin R
  BY <1>1, <1>3, WFMin
<1>5. ASSUME NEW U \in SUBSET T, U # T, U \in B
      PROVE  FALSE
  BY <1>2, <1>4, <1>5 DEF StrictSubsetOrdering
<1> QED
  BY <1>5

\* It is one of them.
LEMMA AnyIsIn ==
  ASSUME NEW S, S # {}
  PROVE  Any(S) \in S
  BY DEF Any

\* What a sum is of a smaller one.
LEMMA SumsStep ==
  ASSUME NEW g, NEW f, NEW S, Sums(g, f, S), NEW s \in SUBSET S
  PROVE  g[s] = IF s = {} THEN 0 ELSE f[Any(s)] + g[s \ {Any(s)}]
  BY DEF Sums

\* Two sums of the same values agree.
LEMMA SumsAgree ==
  ASSUME NEW S, IsFiniteSet(S), NEW A, NEW C, S \subseteq A, S \subseteq C,
         NEW g, NEW f, Sums(g, f, A), NEW h, NEW e, Sums(h, e, C),
         \A x \in S : f[x] = e[x]
  PROVE  g[S] = h[S]
<1>1. PICK B : B = {s \in SUBSET S : g[s] # h[s]}
  OBVIOUS
<1>2. ASSUME B # {}
      PROVE  FALSE
  <2>1. PICK T \in B : \A U \in SUBSET T : U # T => U \notin B
    BY <1>1, <1>2, LeastWrong
  <2>2. T \in SUBSET S /\ T \in SUBSET A /\ T \in SUBSET C /\ g[T] # h[T]
    BY <1>1, <2>1
  <2>3. /\ g[T] = IF T = {} THEN 0 ELSE f[Any(T)] + g[T \ {Any(T)}]
        /\ h[T] = IF T = {} THEN 0 ELSE e[Any(T)] + h[T \ {Any(T)}]
    <3>1. g[T] = IF T = {} THEN 0 ELSE f[Any(T)] + g[T \ {Any(T)}]
      BY <2>2 DEF Sums
    <3>2. h[T] = IF T = {} THEN 0 ELSE e[Any(T)] + h[T \ {Any(T)}]
      BY <2>2 DEF Sums
    <3> QED
      BY <3>1, <3>2
  <2>4. T # {}
    BY <2>2, <2>3
  <2>5. PICK U, x : U = T \ {Any(T)} /\ x = Any(T) /\ x \in T
    BY <2>4, AnyIsIn
  <2>6. g[U] = h[U]
    BY <1>1, <2>1, <2>2, <2>5
  <2>7. f[x] = e[x]
    BY <2>2, <2>5
  <2> QED
    BY <2>2, <2>3, <2>4, <2>5, <2>6, <2>7
<1> QED
  BY <1>1, <1>2

\* A finite set has its sums.
LEMMA SumsExist ==
  ASSUME NEW S, IsFiniteSet(S), NEW f
  PROVE  \E g : Sums(g, f, S)
<1>1. PICK B : B = {s \in SUBSET S : ~ \E g : Sums(g, f, s)}
  OBVIOUS
<1>2. ASSUME B # {}
      PROVE  FALSE
  <2>0. B \in SUBSET SUBSET S
    BY <1>1
  <2>1. PICK T \in B : \A U \in SUBSET T : U # T => U \notin B
    BY <1>2, <2>0, LeastWrong
  <2>2. T \in SUBSET S /\ (~ \E g : Sums(g, f, T)) /\ \A U \in SUBSET T : U # T => \E g : Sums(g, f, U)
    BY <1>1, <2>1
  <2>3. PICK v : v = [u \in SUBSET T |-> (CHOOSE g : Sums(g, f, u))[u]]
    OBVIOUS
  <2>4. ASSUME NEW u \in SUBSET T, NEW U \in SUBSET T, u \subseteq U, U # T, u # T, NEW h, Sums(h, f, U)
        PROVE  h[u] = v[u]
    <3>1. PICK c : c = (CHOOSE g : Sums(g, f, u))
      OBVIOUS
    <3>2. \E g : Sums(g, f, u)
      BY <2>2, <2>4
    <3>3. Sums(c, f, u)
      BY <3>1, <3>2, Zenon
    <3>4. IsFiniteSet(u)
      BY <2>2, FS_Subset
    <3>5. h[u] = c[u]
      BY <2>4, <3>3, <3>4, SumsAgree
    <3> QED
      BY <2>3, <3>1, <3>5
  <2>5. PICK G : G = [s \in SUBSET T |-> IF s = {} THEN 0 ELSE f[Any(s)] + v[s \ {Any(s)}]]
    OBVIOUS
  <2>6. ASSUME NEW u \in SUBSET T, u # T
        PROVE  G[u] = v[u]
    <3>1. PICK h : Sums(h, f, u)
      BY <2>2, <2>6
    <3>2. h[u] = v[u] /\ h[u] = IF u = {} THEN 0 ELSE f[Any(u)] + h[u \ {Any(u)}]
      BY <2>4, <2>6, <3>1, SumsStep
    <3>3. PICK w : w = u \ {Any(u)}
      OBVIOUS
    <3>4. w \in SUBSET T /\ w \subseteq u /\ w # T
      BY <2>6, <3>3
    <3>5. h[w] = v[w]
      BY <2>4, <2>6, <3>1, <3>4
    <3>6. G[u] = IF u = {} THEN 0 ELSE f[Any(u)] + v[w]
      BY <2>5, <3>3
    <3> QED
      BY <3>2, <3>3, <3>5, <3>6
  <2>7. ASSUME NEW s \in SUBSET T, s # {}
        PROVE  v[s \ {Any(s)}] = G[s \ {Any(s)}]
    <3>1. PICK u : u = s \ {Any(s)}
      OBVIOUS
    <3>2. Any(s) \in s
      BY <2>7, AnyIsIn
    <3>3. u \in SUBSET T /\ u # T
      BY <3>1, <3>2
    <3> QED
      BY <2>6, <3>1, <3>3
  <2>8. G = [s \in SUBSET T |-> IF s = {} THEN 0 ELSE f[Any(s)] + G[s \ {Any(s)}]]
    <3>1. \A s \in SUBSET T : (IF s = {} THEN 0 ELSE f[Any(s)] + v[s \ {Any(s)}])
                              = (IF s = {} THEN 0 ELSE f[Any(s)] + G[s \ {Any(s)}])
      BY <2>7
    <3> QED
      BY <2>5, <3>1
  <2>9. Sums(G, f, T)
    BY <2>8 DEF Sums
  <2> QED
    BY <2>2, <2>9
<1> QED
  BY <1>1, <1>2

\* The library's sum is the one of all that satisfy the recursion.
LEMMA SumOfSums ==
  ASSUME NEW S, IsFiniteSet(S), NEW f
  PROVE  \E g : Sums(g, f, S) /\ SumOf(f, S) = g[S]
<1>1. PICK iter : iter = (CHOOSE g : g = [s \in SUBSET S |-> IF s = {} THEN 0 ELSE f[Any(s)] + g[s \ {Any(s)}]])
  OBVIOUS
<1>2. \E g : g = [s \in SUBSET S |-> IF s = {} THEN 0 ELSE f[Any(s)] + g[s \ {Any(s)}]]
  <2>1. PICK g : Sums(g, f, S)
    BY SumsExist
  <2> QED
    BY <2>1 DEF Sums
<1>3. iter = [s \in SUBSET S |-> IF s = {} THEN 0 ELSE f[Any(s)] + iter[s \ {Any(s)}]]
  BY <1>1, <1>2, Zenon
<1>4. SumOf(f, S) = iter[S]
  BY <1>1, Zenon DEF SumOf, MapThenSumSet, MapThenFoldSet, Any
<1> QED
  BY <1>3, <1>4 DEF Sums

\* The recursion of the sum.
LEMMA SumUnfolds ==
  ASSUME NEW S, IsFiniteSet(S), NEW f
  PROVE  SumOf(f, S) = IF S = {} THEN 0 ELSE f[Any(S)] + SumOf(f, S \ {Any(S)})
<1>1. PICK g : Sums(g, f, S) /\ SumOf(f, S) = g[S]
  BY SumOfSums
<1>2. PICK U : U = S \ {Any(S)}
  OBVIOUS
<1>3. IsFiniteSet(U) /\ U \subseteq S
  BY <1>2, FS_Subset
<1>4. PICK h : Sums(h, f, U) /\ SumOf(f, U) = h[U]
  BY <1>3, SumOfSums
<1>5. g[U] = h[U]
  BY <1>1, <1>3, <1>4, SumsAgree
<1>6. g[S] = IF S = {} THEN 0 ELSE f[Any(S)] + g[S \ {Any(S)}]
  BY <1>1 DEF Sums
<1> QED
  BY <1>1, <1>2, <1>4, <1>5, <1>6

\* A sum of naturals is one.
LEMMA SumIsNat ==
  ASSUME NEW S, IsFiniteSet(S), NEW f, \A x \in S : f[x] \in Nat
  PROVE  SumOf(f, S) \in Nat
<1>1. PICK B : B = {s \in SUBSET S : SumOf(f, s) \notin Nat}
  OBVIOUS
<1>2. ASSUME B # {}
      PROVE  FALSE
  <2>0. B \in SUBSET SUBSET S
    BY <1>1
  <2>1. PICK T \in B : \A U \in SUBSET T : U # T => U \notin B
    BY <1>2, <2>0, LeastWrong
  <2>2. T \in SUBSET S /\ SumOf(f, T) \notin Nat /\ IsFiniteSet(T)
    BY <1>1, FS_Subset
  <2>3. SumOf(f, T) = IF T = {} THEN 0 ELSE f[Any(T)] + SumOf(f, T \ {Any(T)})
    BY <2>2, SumUnfolds
  <2>4. T # {}
    BY <2>2, <2>3
  <2>5. PICK U, x : U = T \ {Any(T)} /\ x = Any(T) /\ x \in T
    BY <2>4, AnyIsIn
  <2>6. SumOf(f, U) \in Nat
    BY <1>1, <2>1, <2>2, <2>5
  <2>7. f[x] \in Nat
    BY <2>2, <2>5
  <2> QED
    BY <2>2, <2>3, <2>4, <2>5, <2>6, <2>7
<1>3. S \in SUBSET S
  OBVIOUS
<1> QED
  BY <1>1, <1>2, <1>3

\* Whichever element is taken first, the sum is the same.
LEMMA SumTakes ==
  ASSUME NEW S, IsFiniteSet(S), NEW f, \A x \in S : f[x] \in Nat, NEW y \in S
  PROVE  SumOf(f, S) = f[y] + SumOf(f, S \ {y})
<1>1. PICK B : B = {s \in SUBSET S : \E x \in s : SumOf(f, s) # f[x] + SumOf(f, s \ {x})}
  OBVIOUS
<1>2. ASSUME B # {}
      PROVE  FALSE
  <2>0. B \in SUBSET SUBSET S
    BY <1>1
  <2>1. PICK T \in B : \A U \in SUBSET T : U # T => U \notin B
    BY <1>2, <2>0, LeastWrong
  <2>2. T \in SUBSET S /\ IsFiniteSet(T)
    BY <1>1, FS_Subset
  <2>3. PICK x \in T : SumOf(f, T) # f[x] + SumOf(f, T \ {x})
    BY <1>1
  <2>4. PICK a : a = Any(T) /\ a \in T
    BY <2>3, AnyIsIn
  <2>5. SumOf(f, T) = f[a] + SumOf(f, T \ {a})
    BY <2>2, <2>3, <2>4, SumUnfolds
  <2>6. a # x
    BY <2>3, <2>5
  <2>7. PICK U, V, W : U = T \ {a} /\ V = T \ {x} /\ W = T \ {a, x}
    OBVIOUS
  <2>8. /\ U \in SUBSET T /\ U # T /\ x \in U /\ W = U \ {x}
        /\ V \in SUBSET T /\ V # T /\ a \in V /\ W = V \ {a} /\ W \in SUBSET T
    BY <2>4, <2>6, <2>7
  <2>9. SumOf(f, U) = f[x] + SumOf(f, W) /\ SumOf(f, V) = f[a] + SumOf(f, W)
    <3>1. U \notin B /\ V \notin B /\ U \in SUBSET S /\ V \in SUBSET S
      BY <2>1, <2>2, <2>8
    <3>2. SumOf(f, U) = f[x] + SumOf(f, U \ {x})
      BY <1>1, <2>8, <3>1
    <3>3. SumOf(f, V) = f[a] + SumOf(f, V \ {a})
      BY <1>1, <2>8, <3>1
    <3> QED
      BY <2>8, <3>2, <3>3
  <2>10. IsFiniteSet(W) /\ \A w \in W : f[w] \in Nat
    BY <2>2, <2>8, FS_Subset
  <2>11. SumOf(f, W) \in Nat /\ f[a] \in Nat /\ f[x] \in Nat
    BY <2>2, <2>4, <2>10, SumIsNat
  <2> QED
    BY <2>3, <2>5, <2>7, <2>9, <2>11
<1>3. S \in SUBSET S
  OBVIOUS
<1> QED
  BY <1>1, <1>2, <1>3

\* Sums of sets that share nothing add up.
LEMMA SumAdds ==
  ASSUME NEW R, IsFiniteSet(R), NEW S, IsFiniteSet(S), R \cap S = {}, NEW f, \A x \in R \cup S : f[x] \in Nat
  PROVE  SumOf(f, R \cup S) = SumOf(f, R) + SumOf(f, S)
<1>1. PICK B : B = {s \in SUBSET S : SumOf(f, R \cup s) # SumOf(f, R) + SumOf(f, s)}
  OBVIOUS
<1>2. ASSUME B # {}
      PROVE  FALSE
  <2>0. B \in SUBSET SUBSET S
    BY <1>1
  <2>1. PICK T \in B : \A U \in SUBSET T : U # T => U \notin B
    BY <1>2, <2>0, LeastWrong
  <2>2. T \in SUBSET S /\ IsFiniteSet(T) /\ SumOf(f, R \cup T) # SumOf(f, R) + SumOf(f, T)
    BY <1>1, FS_Subset
  <2>3. SumOf(f, R) \in Nat
    BY SumIsNat
  <2>4. T # {}
    <3> SUFFICES ASSUME T = {} PROVE FALSE
      OBVIOUS
    <3>1. SumOf(f, T) = 0
      BY <2>2, SumUnfolds
    <3>2. R \cup T = R
      OBVIOUS
    <3>3. SumOf(f, R \cup T) = SumOf(f, R)
      BY <3>2
    <3> QED
      BY <2>2, <2>3, <3>1, <3>3
  <2>5. PICK x : x \in T
    BY <2>4
  <2>6. PICK U, P, Q : U = T \ {x} /\ P = R \cup T /\ Q = R \cup U
    OBVIOUS
  <2>7. U \in SUBSET T /\ U # T /\ U \in SUBSET S /\ P \ {x} = Q /\ x \in P /\ P \in SUBSET (R \cup S)
    BY <2>2, <2>5, <2>6
  <2>8. SumOf(f, Q) = SumOf(f, R) + SumOf(f, U)
    BY <1>1, <2>1, <2>6, <2>7
  <2>9. IsFiniteSet(P) /\ \A w \in P : f[w] \in Nat
    BY <2>2, <2>6, <2>7, FS_Union
  <2>10. SumOf(f, P) = f[x] + SumOf(f, Q)
    BY <2>7, <2>9, SumTakes
  <2>11. SumOf(f, T) = f[x] + SumOf(f, U)
    BY <2>2, <2>5, <2>6, SumTakes
  <2>12. IsFiniteSet(U) /\ \A w \in U : f[w] \in Nat
    BY <2>2, <2>7, FS_Subset
  <2>13. SumOf(f, U) \in Nat /\ f[x] \in Nat
    BY <2>7, <2>9, <2>12, SumIsNat
  <2> QED
    BY <2>2, <2>3, <2>6, <2>8, <2>10, <2>11, <2>13
<1>3. S \in SUBSET S
  OBVIOUS
<1> QED
  BY <1>1, <1>2, <1>3

\* A larger set has no smaller sum, and no element exceeds it.
LEMMA SumGrows ==
  ASSUME NEW S, IsFiniteSet(S), NEW R \in SUBSET S, NEW f, \A x \in S : f[x] \in Nat
  PROVE  SumOf(f, R) <= SumOf(f, S)
<1>1. PICK Q : Q = S \ R
  OBVIOUS
<1>2. R \cup Q = S /\ R \cap Q = {} /\ Q \in SUBSET S
  BY <1>1
<1>3. IsFiniteSet(R) /\ IsFiniteSet(Q)
  BY <1>2, FS_Subset
<1>4. SumOf(f, S) = SumOf(f, R) + SumOf(f, Q)
  BY <1>2, <1>3, SumAdds
<1>5. SumOf(f, R) \in Nat /\ SumOf(f, Q) \in Nat
  BY <1>2, <1>3, SumIsNat
<1> QED
  BY <1>4, <1>5


-----------------------------------------------------------------------------
(* What the refunds of a payment amount to.                                *)

\* TotalOf, for given rows.
TotalIn(rows, R) == MapThenSumSet(LAMBDA r : AmountOf(rows[r].seats), R)

SeatsIn(rows, R) == UNION {rows[r].seats : r \in R}

\* AmountOf is the sum of the prices.
LEMMA AmountIsSum ==
  ASSUME NEW S
  PROVE  AmountOf(S) = SumOf(Price, S)
  BY Zenon DEF AmountOf, SumOf, MapThenSumSet, MapThenFoldSet

\* The amount of seats is a natural number, and no price exceeds it.
LEMMA AmountIsNat ==
  ASSUME NEW S \in SUBSET Seats
  PROVE  AmountOf(S) \in Nat /\ IsFiniteSet(S) /\ \A s \in S : Price[s] \in Nat
<1>1. IsFiniteSet(S) /\ \A s \in S : Price[s] \in Nat
  BY PriceAssumption, FS_Subset
<1> QED
  BY <1>1, AmountIsSum, SumIsNat

\* The total is the sum of what is due for each refund.
LEMMA TotalIsSum ==
  ASSUME NEW rows, NEW R, IsFiniteSet(R), NEW due, \A r \in R : due[r] = AmountOf(rows[r].seats)
  PROVE  TotalIn(rows, R) = SumOf(due, R)
<1>1. PICK iter : iter = (CHOOSE g : g = [s \in SUBSET R |-> IF s = {} THEN 0
                                            ELSE AmountOf(rows[Any(s)].seats) + g[s \ {Any(s)}]])
  OBVIOUS
<1>2. PICK h : Sums(h, due, R) /\ SumOf(due, R) = h[R]
  BY SumOfSums
<1>3. \A s \in SUBSET R : s # {} => due[Any(s)] = AmountOf(rows[Any(s)].seats)
  BY AnyIsIn
<1>4. ASSUME NEW g
      PROVE  [s \in SUBSET R |-> IF s = {} THEN 0 ELSE due[Any(s)] + g[s \ {Any(s)}]]
             = [s \in SUBSET R |-> IF s = {} THEN 0 ELSE AmountOf(rows[Any(s)].seats) + g[s \ {Any(s)}]]
  <2>1. \A s \in SUBSET R : (IF s = {} THEN 0 ELSE due[Any(s)] + g[s \ {Any(s)}])
                            = (IF s = {} THEN 0 ELSE AmountOf(rows[Any(s)].seats) + g[s \ {Any(s)}])
    BY <1>3
  <2> QED
    BY <2>1
<1>5. h = [s \in SUBSET R |-> IF s = {} THEN 0 ELSE AmountOf(rows[Any(s)].seats) + h[s \ {Any(s)}]]
  BY <1>2, <1>4 DEF Sums
<1>6. iter = [s \in SUBSET R |-> IF s = {} THEN 0 ELSE AmountOf(rows[Any(s)].seats) + iter[s \ {Any(s)}]]
  BY <1>1, <1>5, Zenon
<1>7. Sums(iter, due, R)
  BY <1>4, <1>6 DEF Sums
<1>8. TotalIn(rows, R) = iter[R]
  BY <1>1, Zenon DEF TotalIn, MapThenSumSet, MapThenFoldSet, Any
<1>9. iter[R] = h[R]
  BY <1>2, <1>7, SumsAgree
<1> QED
  BY <1>2, <1>8, <1>9

\* More refunds do not amount to less, if those there were keep their seats.
LEMMA TotalGrows ==
  ASSUME NEW rows, NEW after, NEW Q, IsFiniteSet(Q), NEW R \in SUBSET Q,
         \A q \in R : after[q].seats = rows[q].seats,
         \A q \in Q : after[q].seats \in SUBSET Seats
  PROVE  TotalIn(rows, R) \in Nat /\ TotalIn(after, Q) \in Nat /\ TotalIn(rows, R) <= TotalIn(after, Q)
<1>1. PICK due : due = [q \in Q |-> AmountOf(after[q].seats)]
  OBVIOUS
<1>2. \A q \in Q : due[q] = AmountOf(after[q].seats) /\ due[q] \in Nat
  BY <1>1, AmountIsNat
<1>3. \A q \in R : due[q] = AmountOf(rows[q].seats) /\ due[q] \in Nat
  BY <1>2
<1>4. IsFiniteSet(R)
  BY FS_Subset
<1>5. TotalIn(rows, R) = SumOf(due, R)
  BY <1>3, <1>4, TotalIsSum
<1>6. TotalIn(after, Q) = SumOf(due, Q)
  BY <1>2, TotalIsSum
<1>7. SumOf(due, R) \in Nat /\ SumOf(due, Q) \in Nat
  BY <1>2, <1>3, <1>4, SumIsNat
<1>8. SumOf(due, R) <= SumOf(due, Q)
  BY <1>2, SumGrows
<1> QED
  BY <1>5, <1>6, <1>7, <1>8

\* Refunds that share no seat amount to what their seats cost.
LEMMA TotalIsOfSeats ==
  ASSUME NEW rows, NEW R, IsFiniteSet(R), \A r \in R : rows[r].seats \in SUBSET Seats,
         \A r, q \in R : r # q => rows[r].seats \cap rows[q].seats = {}
  PROVE  TotalIn(rows, R) = AmountOf(SeatsIn(rows, R))
<1>1. PICK due : due = [r \in R |-> AmountOf(rows[r].seats)]
  OBVIOUS
<1>2. \A r \in R : due[r] = AmountOf(rows[r].seats) /\ due[r] \in Nat
  BY <1>1, AmountIsNat
<1>3. PICK B : B = {s \in SUBSET R : SumOf(due, s) # AmountOf(SeatsIn(rows, s))}
  OBVIOUS
<1>4. ASSUME B # {}
      PROVE  FALSE
  <2>0. B \in SUBSET SUBSET R
    BY <1>3
  <2>1. PICK T \in B : \A U \in SUBSET T : U # T => U \notin B
    BY <1>4, <2>0, LeastWrong
  <2>2. T \in SUBSET R /\ IsFiniteSet(T) /\ SumOf(due, T) # AmountOf(SeatsIn(rows, T))
    BY <1>3, FS_Subset
  <2>3. T # {}
    <3> SUFFICES ASSUME T = {} PROVE FALSE
      OBVIOUS
    <3>1. PICK E : E = SeatsIn(rows, T)
      OBVIOUS
    <3>2. E = {}
      BY <3>1 DEF SeatsIn
    <3>3. IsFiniteSet(E)
      BY <3>2, FS_EmptySet
    <3>4. SumOf(Price, E) = 0
      BY <3>2, <3>3, SumUnfolds
    <3>5. SumOf(due, T) = 0
      BY <2>2, SumUnfolds
    <3> QED
      BY <2>2, <3>1, <3>4, <3>5, AmountIsSum
  <2>4. PICK x : x \in T
    BY <2>3
  <2>5. PICK U, P, Q : U = T \ {x} /\ P = SeatsIn(rows, U) /\ Q = rows[x].seats
    OBVIOUS
  <2>6. U \in SUBSET T /\ U # T /\ U \in SUBSET R /\ x \in R
    BY <2>2, <2>4, <2>5
  <2>7. SumOf(due, U) = AmountOf(P)
    BY <1>3, <2>1, <2>5, <2>6
  <2>8. P \cup Q = SeatsIn(rows, T) /\ P \cap Q = {} /\ P \in SUBSET Seats /\ Q \in SUBSET Seats
    <3>1. P \cup Q = SeatsIn(rows, T)
      BY <2>4, <2>5 DEF SeatsIn
    <3>2. P \cap Q = {}
      BY <2>5, <2>6 DEF SeatsIn
    <3>3. P \in SUBSET Seats
      BY <2>5, <2>6 DEF SeatsIn
    <3> QED
      BY <2>5, <2>6, <3>1, <3>2, <3>3
  <2>9. IsFiniteSet(P) /\ IsFiniteSet(Q) /\ \A s \in P \cup Q : Price[s] \in Nat
    BY <2>8, AmountIsNat
  <2>10. SumOf(Price, P \cup Q) = SumOf(Price, P) + SumOf(Price, Q)
    BY <2>8, <2>9, SumAdds
  <2>11. AmountOf(SeatsIn(rows, T)) = AmountOf(P) + AmountOf(Q)
    BY <2>8, <2>10, AmountIsSum
  <2>12. SumOf(due, T) = due[x] + SumOf(due, U)
    BY <1>2, <2>2, <2>4, <2>5, SumTakes
  <2>13. due[x] = AmountOf(Q) /\ AmountOf(P) \in Nat /\ AmountOf(Q) \in Nat
    BY <1>2, <2>5, <2>6, <2>8, AmountIsNat
  <2> QED
    BY <2>2, <2>7, <2>11, <2>12, <2>13
<1>5. R \in SUBSET R
  OBVIOUS
<1>6. SumOf(due, R) = AmountOf(SeatsIn(rows, R))
  BY <1>3, <1>4, <1>5
<1>7. TotalIn(rows, R) = SumOf(due, R)
  BY <1>2, TotalIsSum
<1> QED
  BY <1>6, <1>7

\* Refunds that share no seat and amount to all that was captured are of every priced seat.
LEMMA PaidInFull ==
  ASSUME NEW rows, NEW R, IsFiniteSet(R), \A r \in R : rows[r].seats \in SUBSET Seats,
         \A r, q \in R : r # q => rows[r].seats \cap rows[q].seats = {},
         TotalIn(rows, R) >= Captured
  PROVE  {s \in Seats : Price[s] > 0} \subseteq SeatsIn(rows, R)
<1>1. PICK P, Q : P = SeatsIn(rows, R) /\ Q = Seats \ P
  OBVIOUS
<1>2. P \in SUBSET Seats /\ Q \in SUBSET Seats /\ P \cup Q = Seats /\ P \cap Q = {}
  BY <1>1 DEF SeatsIn
<1>3. /\ IsFiniteSet(P) /\ IsFiniteSet(Q) /\ \A s \in P \cup Q : Price[s] \in Nat
      /\ AmountOf(P) \in Nat /\ AmountOf(Q) \in Nat
  BY <1>2, AmountIsNat
<1>4. SumOf(Price, P \cup Q) = SumOf(Price, P) + SumOf(Price, Q)
  BY <1>2, <1>3, SumAdds
<1>5. Captured = AmountOf(P) + AmountOf(Q)
  BY <1>2, <1>4, AmountIsSum DEF Captured
<1>6. AmountOf(P) >= Captured
  BY <1>1, TotalIsOfSeats
<1>7. AmountOf(Q) = 0
  BY <1>3, <1>5, <1>6
<1>8. ASSUME NEW s \in Q
      PROVE  Price[s] = 0
  <2>1. PICK W : W = Q \ {s}
    OBVIOUS
  <2>2. SumOf(Price, Q) = Price[s] + SumOf(Price, Q \ {s})
    BY <1>3, SumTakes
  <2>3. W \in SUBSET Seats
    BY <1>2, <2>1
  <2>4. AmountOf(W) \in Nat
    BY <2>3, AmountIsNat
  <2> QED
    BY <1>3, <1>7, <2>1, <2>2, <2>4, AmountIsSum
<1> QED
  BY <1>1, <1>2, <1>8


\* Refunds that share no seat and have some are finitely many.
LEMMA RefundsAreFinite ==
  ASSUME NEW rows, NEW R, \A r \in R : rows[r].seats \in SUBSET Seats /\ rows[r].seats # {},
         \A r, q \in R : r # q => rows[r].seats \cap rows[q].seats = {}
  PROVE  IsFiniteSet(R)
<1>1. PICK f : f = [r \in R |-> Any(rows[r].seats)]
  OBVIOUS
<1>2. \A r \in R : f[r] \in rows[r].seats
  BY <1>1, AnyIsIn
<1>3. f \in [R -> Seats]
  BY <1>1, <1>2
<1>4. \A r, q \in R : f[r] = f[q] => r = q
  BY <1>2
<1>5. f \in Injection(R, Seats)
  BY <1>3, <1>4 DEF Injection, IsInjective
<1> QED
  BY <1>5, PriceAssumption, FS_Injection

-----------------------------------------------------------------------------
(* refundedMinor.                                                          *)

\* The invariant that makes the refunded total honest: a refund that is there has seats,
\* and what a writer has in its snapshot as succeeded still is.
HonestInv ==
  /\ \A r \in Refunds : refund[r].status # "ABSENT" => refund[r].seats # {}
  /\ \A r \in Refunds : pending[r] # Idle => pending[r].refunded \subseteq Succeeded
  /\ totals.refunded \in Nat
  /\ RefundedTotalIsHonest

\* A step that keeps what succeeded, and counts nothing else as refunded.
LEMMA HonestStep ==
  ASSUME IndInv, IndInv', HonestInv,
         \A q \in Refunds : refund[q].outcome = "SUCCEEDED" =>
           refund'[q].outcome = "SUCCEEDED" /\ refund'[q].seats = refund[q].seats,
         \A q \in Refunds : refund'[q].status # "ABSENT" => refund'[q].seats # {},
         \A q \in Refunds : pending'[q] # Idle =>
           \A x \in pending'[q].refunded : x \in Refunds /\ refund'[x].outcome = "SUCCEEDED",
         NEW R, \A q \in R : q \in Refunds /\ refund'[q].outcome = "SUCCEEDED" /\ refund'[q].seats = refund[q].seats,
         totals'.refunded = totals.refunded \/ totals'.refunded = TotalOf(R),
         booking' = "REFUNDED" => booking = "REFUNDED" \/ totals'.refunded >= Captured
  PROVE  HonestInv'
<1>1. PICK S, Q : S = Succeeded /\ Q = {r \in Refunds : refund'[r].outcome = "SUCCEEDED"}
  OBVIOUS
<1>2. Succeeded' = Q
  BY <1>1 DEF Succeeded
<1>3. S \subseteq Q /\ R \subseteq Q /\ \A q \in S : refund'[q].seats = refund[q].seats
  BY <1>1 DEF Succeeded
<1>4. \A q \in Q : refund'[q].seats \in SUBSET Seats /\ refund'[q].seats # {}
  <2>1. \A q \in Q : refund'[q] \in Row /\ refund'[q].status # "ABSENT"
    BY <1>1 DEF IndInv, Typed, Row, AbsentUntouched, InFlightStatus, Scopes
  <2> QED
    BY <1>1, <2>1 DEF Row
<1>5. \A r, q \in Q : r # q => refund'[r].seats \cap refund'[q].seats = {}
  BY <1>1 DEF IndInv, SeatRefundedOnce, Paying
<1>6. IsFiniteSet(Q)
  BY <1>4, <1>5, RefundsAreFinite
<1>7. TotalOf(S) = TotalIn(refund, S) /\ TotalOf(R) = TotalIn(refund, R)
  BY Zenon DEF TotalOf, TotalIn
<1>8. TotalOf(Succeeded)' = TotalIn(refund', Q)
  <2>1. TotalOf(Succeeded)' = TotalIn(refund', Succeeded')
    BY Zenon DEF TotalOf, TotalIn, AmountOf, MapThenSumSet, MapThenFoldSet
  <2> QED
    BY <1>2, <2>1
<1>9. TotalIn(refund, S) \in Nat /\ TotalIn(refund', Q) \in Nat /\ TotalIn(refund, S) <= TotalIn(refund', Q)
  BY <1>3, <1>4, <1>6, TotalGrows
<1>10. TotalIn(refund, R) \in Nat /\ TotalIn(refund, R) <= TotalIn(refund', Q)
  BY <1>3, <1>4, <1>6, TotalGrows
<1>11. totals.refunded \in Nat /\ totals.refunded <= TotalIn(refund, S)
  BY <1>1, <1>7 DEF HonestInv, RefundedTotalIsHonest
<1>12. totals'.refunded \in Nat /\ totals'.refunded <= TotalIn(refund', Q)
  BY <1>7, <1>9, <1>10, <1>11
<1>13. booking' = "REFUNDED" => {s \in Seats : Price[s] > 0} \subseteq SeatsIn(refund', Q)
  <2>1. CASE booking = "REFUNDED"
    <3>1. {s \in Seats : Price[s] > 0} \subseteq SeatsIn(refund, S)
      BY <1>1, <2>1 DEF HonestInv, RefundedTotalIsHonest, SeatsIn
    <3>2. SeatsIn(refund, S) \subseteq SeatsIn(refund', Q)
      BY <1>3 DEF SeatsIn
    <3> QED
      BY <3>1, <3>2
  <2>2. CASE totals'.refunded >= Captured
    <3>1. Captured \in Nat
      BY AmountIsNat DEF Captured
    <3>2. TotalIn(refund', Q) >= Captured
      BY <1>9, <1>12, <2>2, <3>1
    <3> QED
      BY <1>4, <1>5, <1>6, <3>2, PaidInFull
  <2> QED
    BY <2>1, <2>2
<1>14. RefundedTotalIsHonest'
  <2>1. (totals.refunded <= TotalOf(Succeeded))'
    BY <1>8, <1>12
  <2>2. (UNION {refund[r].seats : r \in Succeeded})' = SeatsIn(refund', Q)
    BY <1>2 DEF SeatsIn
  <2>3. (booking = "REFUNDED" => {s \in Seats : Price[s] > 0} \subseteq UNION {refund[r].seats : r \in Succeeded})'
    BY <1>13, <2>2
  <2> QED
    BY <2>1, <2>3 DEF RefundedTotalIsHonest
<1>15. (\A r \in Refunds : pending[r] # Idle => pending[r].refunded \subseteq Succeeded)'
  BY <1>1, <1>2 DEF Idle
<1> QED
  BY <1>12, <1>14, <1>15 DEF HonestInv


\* Steps that leave refunds, totals and booking alone.
LEMMA HonestQuiet ==
  ASSUME IndInv, IndInv', HonestInv, UNCHANGED <<refund, totals, booking>>,
         \A q \in Refunds : \/ pending'[q] = pending[q]
                            \/ pending'[q] = Idle
                            \/ pending'[q].refunded \subseteq Succeeded
  PROVE  HonestInv'
<1>1. PICK R : R = {}
  OBVIOUS
<1>2. \A q \in Refunds : refund[q].outcome = "SUCCEEDED" =>
        refund'[q].outcome = "SUCCEEDED" /\ refund'[q].seats = refund[q].seats
  OBVIOUS
<1>3. \A q \in Refunds : refund'[q].status # "ABSENT" => refund'[q].seats # {}
  BY DEF HonestInv
<1>4. \A q \in Refunds : pending'[q] # Idle =>
        \A x \in pending'[q].refunded : x \in Refunds /\ refund'[x].outcome = "SUCCEEDED"
  BY DEF HonestInv, Succeeded
<1> QED
  BY <1>1, <1>2, <1>3, <1>4, HonestStep

\* A request has seats, and recounts what has succeeded under the payment's lock.
LEMMA HonestRequest ==
  ASSUME IndInv, IndInv', HonestInv, NEW r \in Refunds, NEW S \in SUBSET Seats, NEW scope \in Scopes,
         CommitRequest(r, S, scope)
  PROVE  HonestInv'
<1>1. PICK row : row = [status |-> "REQUESTED", outcome |-> "NONE", seats |-> S,
                        scope |-> scope, external |-> NoRefund]
  OBVIOUS
<1>2. /\ refund' = [refund EXCEPT ![r] = row] /\ r \in asking /\ S # {}
      /\ totals' = [refunded |-> TotalOf(Succeeded), inFlight |-> TotalOf(InFlight) + AmountOf(S)]
      /\ UNCHANGED <<booking, pending>>
  BY <1>1 DEF CommitRequest
<1>3. refund[r].outcome = "NONE" /\ row.seats = S
  BY <1>1, <1>2 DEF IndInv, AbsentUntouched
<1>4. PICK R : R = Succeeded
  OBVIOUS
<1>5. totals'.refunded = TotalOf(R)
  BY <1>2, <1>4
<1>6. \A q \in Refunds : refund[q].outcome = "SUCCEEDED" =>
        refund'[q].outcome = "SUCCEEDED" /\ refund'[q].seats = refund[q].seats
  BY <1>2, <1>3 DEF IndInv, Typed
<1>7. \A q \in Refunds : refund'[q].status # "ABSENT" => refund'[q].seats # {}
  BY <1>2, <1>3 DEF IndInv, Typed, HonestInv
<1>8. \A q \in Refunds : pending'[q] # Idle =>
        \A x \in pending'[q].refunded : x \in Refunds /\ refund'[x].outcome = "SUCCEEDED"
  BY <1>2, <1>6 DEF HonestInv, Succeeded
<1>9. \A q \in R : q \in Refunds /\ refund'[q].outcome = "SUCCEEDED" /\ refund'[q].seats = refund[q].seats
  BY <1>4, <1>6 DEF Succeeded
<1> QED
  BY <1>2, <1>5, <1>6, <1>7, <1>8, <1>9, HonestStep

\* A write recounts from its snapshot, which may miss a refund but has none too many.
LEMMA HonestWrite ==
  ASSUME IndInv, IndInv', HonestInv, NEW r \in Refunds, NEW row, WriteRow(r, row), Done(r), pending[r] # Idle,
         row.seats = refund[r].seats, row.status # "ABSENT", refund[r].status # "ABSENT",
         booking' = "REFUNDED" => booking = "REFUNDED" \/ totals'.refunded >= Captured
  PROVE  HonestInv'
<1>1. /\ RefundWriteAllowed(refund[r], row) /\ refund' = [refund EXCEPT ![r] = row] /\ totals' = Recount(r, row)
      /\ pending' = [pending EXCEPT ![r] = Idle]
  BY DEF WriteRow, Done
<1>2. PICK R : R = pending[r].refunded \cup {q \in {r} : row.outcome = "SUCCEEDED"}
  OBVIOUS
<1>3. totals'.refunded = TotalOf(R)
  BY <1>1, <1>2 DEF Recount
<1>4. refund'[r] = row /\ \A q \in Refunds \ {r} : refund'[q] = refund[q]
  BY <1>1 DEF IndInv, Typed
<1>5. \A q \in Refunds : refund[q].outcome = "SUCCEEDED" =>
        refund'[q].outcome = "SUCCEEDED" /\ refund'[q].seats = refund[q].seats
  BY <1>1, <1>4 DEF RefundWriteAllowed
<1>6. \A q \in Refunds : refund'[q].status # "ABSENT" => refund'[q].seats # {}
  BY <1>4 DEF HonestInv
<1>7. \A q \in Refunds : pending'[q] = Idle \/ pending'[q] = pending[q]
  BY <1>1 DEF IndInv, Typed
<1>8. \A q \in Refunds : pending'[q] # Idle =>
        \A x \in pending'[q].refunded : x \in Refunds /\ refund'[x].outcome = "SUCCEEDED"
  BY <1>5, <1>7 DEF HonestInv, Succeeded
<1>9. \A q \in R : q \in Refunds /\ refund'[q].outcome = "SUCCEEDED" /\ refund'[q].seats = refund[q].seats
  BY <1>2, <1>4, <1>5 DEF HonestInv, Succeeded
<1> QED
  BY <1>3, <1>5, <1>6, <1>8, <1>9, HonestStep

\* Every commit of a writer, whether it writes its row or finds nothing to do.
LEMMA HonestCommit ==
  ASSUME IndInv, IndInv', HonestInv, NEW r \in Refunds, Commit(r)
  PROVE  HonestInv'
<1>0. /\ pending[r] # Idle /\ refund[r].status # "ABSENT" /\ refund[r] \in Row
      /\ pending[r].by # "nobody" /\ Done(r)
  <2>1. pending[r].by # "nobody" /\ Done(r)
    BY DistinctNamesAssumption
       DEF Commit, CommitClaim, CommitAttach, CommitTimeout, CommitReject, CommitAdopt,
           CommitSucceeded, CommitFailed, CommitReview, Settling
  <2> QED
    BY <2>1, WriterHasRefund DEF Idle
<1>1. ASSUME UNCHANGED <<refund, totals, booking>>
      PROVE  HonestInv'
  <2>1. \A q \in Refunds : pending'[q] = pending[q] \/ pending'[q] = Idle
    BY <1>0 DEF Done, IndInv, Typed
  <2> QED
    BY <1>1, <2>1, HonestQuiet
<1>2. ASSUME NEW row, WriteRow(r, row), row.seats = refund[r].seats, row.status # "ABSENT",
             booking' = "REFUNDED" => booking = "REFUNDED" \/ totals'.refunded >= Captured
      PROVE  HonestInv'
  BY <1>0, <1>2, HonestWrite
<1>3. \A k : [refund[r] EXCEPT !.status = k].seats = refund[r].seats /\ [refund[r] EXCEPT !.status = k].status = k
  BY <1>0 DEF Row
<1>4. \A k, x : /\ [refund[r] EXCEPT !.status = k, !.external = x].seats = refund[r].seats
                /\ [refund[r] EXCEPT !.status = k, !.external = x].status = k
  BY <1>0 DEF Row
<1>5. \A k, o : /\ [refund[r] EXCEPT !.status = k, !.outcome = o].seats = refund[r].seats
                /\ [refund[r] EXCEPT !.status = k, !.outcome = o].status = k
  BY <1>0 DEF Row
<1>6. CASE CommitClaim(r)
  <2>1. PICK row : row = [refund[r] EXCEPT !.status = "SUBMITTING"]
    OBVIOUS
  <2>2. row.seats = refund[r].seats /\ row.status # "ABSENT"
    BY <1>3, <2>1
  <2>3. /\ booking' = booking
        /\ WriteRow(r, row)
    BY <1>6, <2>1 DEF CommitClaim
  <2>4. booking' = "REFUNDED" => booking = "REFUNDED" \/ totals'.refunded >= Captured
    BY <2>3
  <2> QED
    BY <1>2, <2>2, <2>3, <2>4
<1>7. CASE CommitAttach(r)
  <2>1. PICK row : row = [refund[r] EXCEPT !.status = "PROCESSING", !.external = r]
    OBVIOUS
  <2>2. row.seats = refund[r].seats /\ row.status # "ABSENT"
    BY <1>4, <2>1
  <2>3. /\ booking' = booking
        /\ UNCHANGED <<refund, totals>> \/ WriteRow(r, row)
    BY <1>7, <2>1 DEF CommitAttach
  <2>4. booking' = "REFUNDED" => booking = "REFUNDED" \/ totals'.refunded >= Captured
    BY <2>3
  <2>5. CASE WriteRow(r, row)
    BY <1>2, <2>2, <2>4, <2>5
  <2> QED
    BY <1>1, <2>3, <2>5
<1>8. CASE CommitTimeout(r)
  <2>1. PICK row : row = [refund[r] EXCEPT !.status = "PROCESSING"]
    OBVIOUS
  <2>2. row.seats = refund[r].seats /\ row.status # "ABSENT"
    BY <1>3, <2>1
  <2>3. /\ booking' = booking
        /\ UNCHANGED <<refund, totals>> \/ WriteRow(r, row)
    BY <1>8, <2>1 DEF CommitTimeout
  <2>4. booking' = "REFUNDED" => booking = "REFUNDED" \/ totals'.refunded >= Captured
    BY <2>3
  <2>5. CASE WriteRow(r, row)
    BY <1>2, <2>2, <2>4, <2>5
  <2> QED
    BY <1>1, <2>3, <2>5
<1>9. CASE CommitReject(r)
  <2>1. PICK row : row = [refund[r] EXCEPT !.status = "FAILED", !.outcome = "FAILED"]
    OBVIOUS
  <2>2. row.seats = refund[r].seats /\ row.status # "ABSENT"
    BY <1>5, <2>1
  <2>3. /\ booking' = booking
        /\ UNCHANGED <<refund, totals>> \/ WriteRow(r, row)
    BY <1>9, <2>1 DEF CommitReject
  <2>4. booking' = "REFUNDED" => booking = "REFUNDED" \/ totals'.refunded >= Captured
    BY <2>3
  <2>5. CASE WriteRow(r, row)
    BY <1>2, <2>2, <2>4, <2>5
  <2> QED
    BY <1>1, <2>3, <2>5
<1>10. CASE CommitAdopt(r)
  <2>1. PICK row : row = [refund[r] EXCEPT !.status = "PROCESSING", !.external = found[r]]
    OBVIOUS
  <2>2. row.seats = refund[r].seats /\ row.status # "ABSENT"
    BY <1>4, <2>1
  <2>3. /\ booking' = booking
        /\ UNCHANGED <<refund, totals>> \/ WriteRow(r, row)
    BY <1>10, <2>1 DEF CommitAdopt
  <2>4. booking' = "REFUNDED" => booking = "REFUNDED" \/ totals'.refunded >= Captured
    BY <2>3
  <2>5. CASE WriteRow(r, row)
    BY <1>2, <2>2, <2>4, <2>5
  <2> QED
    BY <1>1, <2>3, <2>5
<1>11. CASE CommitSucceeded(r)
  <2>1. PICK row : row = [refund[r] EXCEPT !.status = "SUCCEEDED", !.outcome = "SUCCEEDED"]
    OBVIOUS
  <2>2. row.seats = refund[r].seats /\ row.status # "ABSENT"
    BY <1>5, <2>1
  <2>3. /\ booking' = IF totals'.refunded >= Captured THEN "REFUNDED" ELSE booking
        /\ WriteRow(r, row)
    BY <1>11, <2>1 DEF CommitSucceeded
  <2>4. booking' = "REFUNDED" => booking = "REFUNDED" \/ totals'.refunded >= Captured
    BY <2>3
  <2> QED
    BY <1>2, <2>2, <2>3, <2>4
<1>12. CASE CommitFailed(r)
  <2>1. PICK row : row = [refund[r] EXCEPT !.status = "FAILED", !.outcome = "FAILED"]
    OBVIOUS
  <2>2. row.seats = refund[r].seats /\ row.status # "ABSENT"
    BY <1>5, <2>1
  <2>3. /\ booking' = booking
        /\ WriteRow(r, row)
    BY <1>12, <2>1 DEF CommitFailed
  <2>4. booking' = "REFUNDED" => booking = "REFUNDED" \/ totals'.refunded >= Captured
    BY <2>3
  <2> QED
    BY <1>2, <2>2, <2>3, <2>4
<1>13. CASE CommitReview(r)
  <2>1. PICK row : row = [refund[r] EXCEPT !.status = "REQUIRES_REVIEW"]
    OBVIOUS
  <2>2. row.seats = refund[r].seats /\ row.status # "ABSENT"
    BY <1>3, <2>1
  <2>3. /\ booking' = booking
        /\ WriteRow(r, row)
    BY <1>13, <2>1 DEF CommitReview
  <2>4. booking' = "REFUNDED" => booking = "REFUNDED" \/ totals'.refunded >= Captured
    BY <2>3
  <2> QED
    BY <1>2, <2>2, <2>3, <2>4
<1> QED
  BY <1>6, <1>7, <1>8, <1>9, <1>10, <1>11, <1>12, <1>13 DEF Commit

\* Every step keeps the total honest.
LEMMA HonestNext ==
  ASSUME IndInv, IndInv', HonestInv, [Next]_vars
  PROVE  HonestInv'
<1>1. ASSUME UNCHANGED <<refund, totals, booking, pending>>
      PROVE  HonestInv'
  BY <1>1, HonestQuiet
<1>2. ASSUME NEW r \in Refunds, NEW by, Start(r, by)
      PROVE  HonestInv'
  <2>1. PICK lock : lock = [by |-> by, refunded |-> Succeeded \ {r}, inFlight |-> InFlight \ {r}]
    OBVIOUS
  <2>2. pending' = [pending EXCEPT ![r] = lock] /\ UNCHANGED <<refund, totals, booking>>
    BY <1>2, <2>1 DEF Start, tables
  <2>3. lock.refunded \subseteq Succeeded
    BY <2>1
  <2>4. \A q \in Refunds : pending'[q] = pending[q] \/ pending'[q].refunded \subseteq Succeeded
    BY <2>2, <2>3 DEF IndInv, Typed
  <2> QED
    BY <2>2, <2>4, HonestQuiet
<1>3. ASSUME NEW r \in Refunds, Request(r)
      PROVE  HonestInv'
  BY <1>1, <1>3, HonestRequest DEF Request, StartRequest, RefuseRequest, tables
<1>4. ASSUME NEW r \in Refunds, Answer(r) \/ WorkerDies(r) \/ Find(r)
      PROVE  HonestInv'
  BY <1>1, <1>4 DEF Answer, ProviderAnswers, WorkerDies, Find, FindExternal, tables
<1>5. ASSUME NEW r \in Refunds, StartClaim(r) \/ StartRecording(r) \/ StartAdopt(r)
      PROVE  HonestInv'
  BY <1>2, <1>5 DEF StartClaim, StartRecording, StartAdopt
<1>6. ASSUME NEW r \in Refunds, Abort(r)
      PROVE  HonestInv'
  <2>1. UNCHANGED <<refund, totals, booking>> /\ pending' = [pending EXCEPT ![r] = Idle]
    BY <1>6 DEF Abort, Done, tables
  <2>2. \A q \in Refunds : pending'[q] = pending[q] \/ pending'[q] = Idle
    BY <2>1 DEF IndInv, Typed
  <2> QED
    BY <2>1, <2>2, HonestQuiet
<1>7. ASSUME NEW r \in Refunds, Commit(r)
      PROVE  HonestInv'
  BY <1>7, HonestCommit
<1>8. ASSUME NEW e \in Events, DeliverReport(e) \/ \E x \in Refunds, report \in Reports : EmitReport(e, x, report)
      PROVE  HonestInv'
  <2>1. UNCHANGED <<refund, totals, booking, pending>> \/ \E r \in Refunds : Start(r, e)
    BY <1>8 DEF DeliverReport, ParkUnknown, IgnoreEvent, StartSettle, EmitReport, tables
  <2> QED
    BY <1>1, <1>2, <2>1
<1>9. ASSUME IssueTickets \/ \E s \in Seats : ScanTicket(s)
      PROVE  HonestInv'
  BY <1>1, <1>9 DEF IssueTickets, ScanTicket
<1>10. CASE UNCHANGED vars
  BY <1>1, <1>10 DEF vars, tables
<1> QED
  BY <1>3, <1>4, <1>5, <1>6, <1>7, <1>8, <1>9, <1>10 DEF Next

\* Nothing is refunded at first.
LEMMA HonestStart ==
  ASSUME Init, IndInv
  PROVE  HonestInv
<1>1. /\ refund = [r \in Refunds |-> NoRefundRow] /\ totals = [refunded |-> 0, inFlight |-> 0] /\ booking = "CONFIRMED"
      /\ pending = [r \in Refunds |-> Idle]
  BY DEF Init
<1>2. NoRefundRow.status = "ABSENT" /\ NoRefundRow.outcome = "NONE"
  BY DEF NoRefundRow
<1>3. PICK S : S = Succeeded
  OBVIOUS
<1>4. S = {}
  BY <1>1, <1>2, <1>3 DEF Succeeded
<1>5. IsFiniteSet(S) /\ \A q \in S : refund[q].seats \in SUBSET Seats
  BY <1>4, FS_EmptySet
<1>6. TotalIn(refund, S) \in Nat
  BY <1>5, TotalGrows
<1>7. TotalOf(Succeeded) = TotalIn(refund, S)
  BY <1>3, Zenon DEF TotalOf, TotalIn
<1>8. totals.refunded = 0
  BY <1>1
<1>9. RefundedTotalIsHonest
  BY <1>1, <1>6, <1>7, <1>8 DEF RefundedTotalIsHonest
<1>10. \A r \in Refunds : refund[r].status = "ABSENT" /\ pending[r] = Idle
  BY <1>1, <1>2
<1> QED
  BY <1>8, <1>9, <1>10 DEF HonestInv

\* Refund_maintain_payment_aggregate under READ COMMITTED, where a recount may use an old
\* snapshot: refundedMinor never claims money that has not gone back, and a booking becomes
\* REFUNDED only when every seat that cost something was paid back.
THEOREM TotalIsHonest == Spec => []RefundedTotalIsHonest
<1>1. Init /\ IndInv => HonestInv
  BY HonestStart
<1>2. IndInv /\ IndInv' /\ HonestInv /\ [Next]_vars => HonestInv'
  BY HonestNext
<1>3. HonestInv => RefundedTotalIsHonest
  BY DEF HonestInv
<1> QED
  BY <1>1, <1>2, <1>3, Invariance, PTL DEF Spec


-----------------------------------------------------------------------------
(* Refunds implements RefundAllocation *)

\* What a seat looks like from outside, by the refund that has it.
SharesAgree ==
  \A s \in Seats :
    /\ \A r \in Refunds : Paying(r) /\ s \in refund[r].seats =>
         ShareView[s] = IF refund[r].outcome = "SUCCEEDED" THEN Shares!Returned(r) ELSE Shares!Claimed(r)
    /\ (\A r \in Refunds : ~(Paying(r) /\ s \in refund[r].seats)) => ShareView[s] = Shares!Kept

LEMMA SharesLemma == IndInv => SharesAgree
<1> SUFFICES ASSUME IndInv, NEW s \in Seats
             PROVE  /\ \A r \in Refunds : Paying(r) /\ s \in refund[r].seats =>
                         ShareView[s] = IF refund[r].outcome = "SUCCEEDED" THEN Shares!Returned(r)
                                        ELSE Shares!Claimed(r)
                    /\ (\A r \in Refunds : ~(Paying(r) /\ s \in refund[r].seats)) => ShareView[s] = Shares!Kept
  BY DEF SharesAgree
<1> DEFINE returned == \E r \in Payers(s) : refund[r].outcome = "SUCCEEDED"
<1>1. ShareView[s] = [by |-> Payers(s),
                      state |-> IF Payers(s) = {} THEN "KEPT" ELSE IF returned THEN "RETURNED" ELSE "CLAIMED"]
  BY DEF ShareView, ShareOf
<1>2. ASSUME NEW r \in Refunds, Paying(r), s \in refund[r].seats
      PROVE  ShareView[s] = IF refund[r].outcome = "SUCCEEDED" THEN Shares!Returned(r) ELSE Shares!Claimed(r)
  <2>1. Payers(s) = {r}
    BY <1>2 DEF Payers, IndInv, SeatRefundedOnce
  <2>2. returned <=> refund[r].outcome = "SUCCEEDED"
    BY <2>1
  <2>. QED  BY <1>1, <2>1, <2>2 DEF Shares!Returned, Shares!Claimed
<1>3. ASSUME \A r \in Refunds : ~(Paying(r) /\ s \in refund[r].seats)
      PROVE  ShareView[s] = Shares!Kept
  <2>1. Payers(s) = {}
    BY <1>3 DEF Payers
  <2>. QED  BY <1>1, <2>1 DEF Shares!Kept
<1>. QED  BY <1>2, <1>3

\* A claim, one that was returned and a price that is kept are three things.
LEMMA SharesDiffer ==
  /\ \A r, q : Shares!Claimed(r) # Shares!Returned(q) /\ Shares!Claimed(r) # Shares!Kept
  /\ \A r, q : Shares!Claimed(r) = Shares!Claimed(q) => r = q
  /\ \A r : r \in Shares!Claimed(r).by /\ r \in Shares!Returned(r).by
  /\ \A r, q : r \in Shares!Claimed(q).by \cup Shares!Returned(q).by => r = q
  /\ Shares!Kept.by = {}
  BY DEF Shares!Claimed, Shares!Returned, Shares!Kept


\* Steps that leave seats, outcome and claim of every refund alone are not seen.
LEMMA SharesUnseen ==
  ASSUME SharesAgree, SharesAgree',
         \A r \in Refunds : /\ Paying(r)' <=> Paying(r)
                            /\ refund'[r].seats = refund[r].seats
                            /\ refund'[r].outcome = "SUCCEEDED" <=> refund[r].outcome = "SUCCEEDED"
  PROVE  ShareView' = ShareView
<1>1. ASSUME NEW s \in Seats PROVE ShareView'[s] = ShareView[s]
  <2>1. CASE \E r \in Refunds : Paying(r) /\ s \in refund[r].seats
    <3>1. PICK r \in Refunds : Paying(r) /\ s \in refund[r].seats
      BY <2>1
    <3>. QED  BY <3>1 DEF SharesAgree
  <2>2. CASE \A r \in Refunds : ~(Paying(r) /\ s \in refund[r].seats)
    <3>1. \A r \in Refunds : ~(Paying(r)' /\ s \in refund'[r].seats)
      BY <2>2
    <3>. QED  BY <2>2, <3>1 DEF SharesAgree
  <2>. QED  BY <2>1, <2>2
<1>2. ShareView' = [s \in Seats |-> ShareView'[s]] /\ ShareView = [s \in Seats |-> ShareView[s]]
  BY DEF ShareView
<1>. QED  BY <1>1, <1>2

\* A request claims its seats.
LEMMA RequestClaims ==
  ASSUME IndInv, SharesAgree, SharesAgree', NEW r \in Refunds, NEW S \in SUBSET Seats, NEW scope \in Scopes,
         CommitRequest(r, S, scope)
  PROVE  Shares!Claim(r, S)
<1>1. /\ refund'[r] = [status |-> "REQUESTED", outcome |-> "NONE", seats |-> S, scope |-> scope, external |-> NoRefund]
      /\ \A q \in Refunds \ {r} : refund'[q] = refund[q]
      /\ ~Paying(r)
  BY DEF CommitRequest, IndInv, AbsentUntouched, Typed, Paying, InFlightStatus
<1>2. Paying(r)' /\ refund'[r].seats = S /\ refund'[r].outcome = "NONE"
  BY <1>1 DEF Paying, InFlightStatus
<1>3. \A q \in Refunds \ {r} : Paying(q)' <=> Paying(q)
  BY <1>1 DEF Paying
<1>4. ASSUME NEW s \in S, NEW q \in Refunds, Paying(q), s \in refund[q].seats PROVE FALSE
  <2>1. q \in Succeeded \cup InFlight
    BY <1>4 DEF Paying, Succeeded, InFlight
  <2>. QED  BY <1>4, <2>1 DEF CommitRequest, Covered
<1>5. ASSUME NEW s \in S PROVE ShareView[s] = Shares!Kept /\ ShareView'[s] = Shares!Claimed(r)
  <2>1. ShareView[s] = Shares!Kept
    BY <1>4, <1>5 DEF SharesAgree
  <2>2. ShareView'[s] = Shares!Claimed(r)
    BY <1>2, <1>5 DEF SharesAgree
  <2>. QED  BY <2>1, <2>2
<1>6. ASSUME NEW s \in Seats \ S PROVE ShareView'[s] = ShareView[s]
  <2>1. CASE \E q \in Refunds : Paying(q) /\ s \in refund[q].seats
    <3>1. PICK q \in Refunds : Paying(q) /\ s \in refund[q].seats
      BY <2>1
    <3>2. q # r
      BY <1>1, <3>1
    <3>3. Paying(q)' /\ s \in refund'[q].seats /\ refund'[q].outcome = refund[q].outcome
      BY <1>1, <1>3, <3>1, <3>2
    <3>. QED  BY <3>1, <3>3 DEF SharesAgree
  <2>2. CASE \A q \in Refunds : ~(Paying(q) /\ s \in refund[q].seats)
    <3>1. \A q \in Refunds : ~(Paying(q)' /\ s \in refund'[q].seats)
      BY <1>1, <1>2, <1>3, <1>6, <2>2
    <3>. QED  BY <2>2, <3>1 DEF SharesAgree
  <2>. QED  BY <2>1, <2>2
<1>7. ASSUME NEW s \in Seats PROVE r \notin ShareView[s].by
  <2>1. CASE \E q \in Refunds : Paying(q) /\ s \in refund[q].seats
    <3>1. PICK q \in Refunds : Paying(q) /\ s \in refund[q].seats
      BY <2>1
    <3>2. q # r
      BY <1>1, <3>1
    <3>3. ShareView[s] = Shares!Claimed(q) \/ ShareView[s] = Shares!Returned(q)
      BY <3>1 DEF SharesAgree
    <3>. QED  BY <3>2, <3>3, SharesDiffer
  <2>2. CASE \A q \in Refunds : ~(Paying(q) /\ s \in refund[q].seats)
    BY <2>2, SharesDiffer DEF SharesAgree
  <2>. QED  BY <2>1, <2>2
<1>8. ShareView' = [s \in Seats |-> IF s \in S THEN Shares!Claimed(r) ELSE ShareView[s]]
  <2>1. ShareView' = [s \in Seats |-> ShareView'[s]]
    BY DEF ShareView
  <2>. QED  BY <1>5, <1>6, <2>1
<1>. QED  BY <1>5, <1>7, <1>8 DEF Shares!Claim

\* A refund that had no outcome gets one: its seats, and no others, are given up or returned.
LEMMA OutcomeShows ==
  ASSUME SharesAgree, SharesAgree', NEW r \in Refunds, Paying(r), refund[r].outcome = "NONE",
         refund[r].seats \subseteq Seats, refund'[r].seats = refund[r].seats,
         refund'[r].outcome \in {"SUCCEEDED", "FAILED"},
         \A q \in Refunds \ {r} : refund'[q] = refund[q]
  PROVE  Shares!GiveUp(r) \/ Shares!Return(r)
<1>1. \A q \in Refunds \ {r} : Paying(q)' <=> Paying(q)
  BY DEF Paying
<1>2. Paying(r)' <=> refund'[r].outcome = "SUCCEEDED"
  BY DEF Paying
<1>3. ASSUME NEW s \in Seats PROVE ShareView[s] = Shares!Claimed(r) <=> s \in refund[r].seats
  <2>1. CASE s \in refund[r].seats
    BY <2>1 DEF SharesAgree
  <2>2. CASE \E q \in Refunds : Paying(q) /\ s \in refund[q].seats /\ s \notin refund[r].seats
    <3>1. PICK q \in Refunds : Paying(q) /\ s \in refund[q].seats /\ s \notin refund[r].seats
      BY <2>2
    <3>2. q # r /\ (ShareView[s] = Shares!Claimed(q) \/ ShareView[s] = Shares!Returned(q))
      BY <3>1 DEF SharesAgree
    <3>. QED  BY <3>1, <3>2, SharesDiffer
  <2>3. CASE \A q \in Refunds : ~(Paying(q) /\ s \in refund[q].seats)
    BY <2>3, SharesDiffer DEF SharesAgree
  <2>. QED  BY <2>1, <2>2, <2>3
<1>4. ASSUME NEW s \in Seats, s \notin refund[r].seats PROVE ShareView'[s] = ShareView[s]
  <2>1. CASE \E q \in Refunds : Paying(q) /\ s \in refund[q].seats
    <3>1. PICK q \in Refunds : Paying(q) /\ s \in refund[q].seats
      BY <2>1
    <3>2. q # r
      BY <1>4, <3>1
    <3>3. Paying(q)' /\ s \in refund'[q].seats /\ refund'[q].outcome = refund[q].outcome
      BY <1>1, <3>1, <3>2
    <3>. QED  BY <3>1, <3>3 DEF SharesAgree
  <2>2. CASE \A q \in Refunds : ~(Paying(q) /\ s \in refund[q].seats)
    <3>1. \A q \in Refunds : ~(Paying(q)' /\ s \in refund'[q].seats)
      BY <1>1, <1>4, <2>2
    <3>. QED  BY <2>2, <3>1 DEF SharesAgree
  <2>. QED  BY <2>1, <2>2
<1>5. ShareView' = [s \in Seats |-> ShareView'[s]]
  BY DEF ShareView
<1>6. CASE refund'[r].outcome = "SUCCEEDED"
  <2>1. ASSUME NEW s \in refund[r].seats PROVE ShareView'[s] = Shares!Returned(r)
    BY <1>2, <1>6, <2>1 DEF SharesAgree
  <2>2. ShareView' = [s \in Seats |-> IF ShareView[s] = Shares!Claimed(r) THEN Shares!Returned(r) ELSE ShareView[s]]
    BY <1>3, <1>4, <1>5, <2>1
  <2>. QED  BY <2>2 DEF Shares!Return
<1>7. CASE refund'[r].outcome = "FAILED"
  <2>1. ASSUME NEW s \in refund[r].seats PROVE ShareView'[s] = Shares!Kept
    <3>1. ASSUME NEW q \in Refunds, Paying(q)', s \in refund'[q].seats PROVE FALSE
      <4>1. q # r
        BY <1>2, <1>7, <3>1
      <4>2. Paying(q) /\ s \in refund[q].seats
        BY <1>1, <3>1, <4>1
      <4>3. ShareView[s] = Shares!Claimed(r) /\ (ShareView[s] = Shares!Claimed(q) \/ ShareView[s] = Shares!Returned(q))
        BY <2>1, <4>2 DEF SharesAgree
      <4>. QED  BY <4>1, <4>3, SharesDiffer
    <3>. QED  BY <2>1, <3>1 DEF SharesAgree
  <2>2. ShareView' = [s \in Seats |-> IF ShareView[s] = Shares!Claimed(r) THEN Shares!Kept ELSE ShareView[s]]
    BY <1>3, <1>4, <1>5, <2>1
  <2>. QED  BY <2>2 DEF Shares!GiveUp
<1>. QED  BY <1>6, <1>7


\* A step writes no row, a new one, or one that is there, whose seats it keeps.
Rewrites(r, row) ==
  /\ refund[r].status # "ABSENT" /\ row.status # "ABSENT" /\ row.seats = refund[r].seats
  /\ RefundWriteAllowed(refund[r], row) /\ refund' = [refund EXCEPT ![r] = row]

LEMMA RowsWritten ==
  ASSUME IndInv, Next
  PROVE  \/ UNCHANGED refund
         \/ \E r \in Refunds, S \in SUBSET Seats, scope \in Scopes : CommitRequest(r, S, scope)
         \/ \E r \in Refunds : \E row : Rewrites(r, row)
<1>1. ASSUME NEW r \in Refunds, Request(r)
      PROVE  UNCHANGED refund \/ \E S \in SUBSET Seats, scope \in Scopes : CommitRequest(r, S, scope)
  BY <1>1 DEF Request, StartRequest, RefuseRequest, tables
<1>2. ASSUME NEW r \in Refunds,
             StartClaim(r) \/ Answer(r) \/ StartRecording(r) \/ WorkerDies(r) \/ Find(r) \/ StartAdopt(r) \/ Abort(r)
      PROVE  UNCHANGED refund
  BY <1>2 DEF StartClaim, Answer, ProviderAnswers, StartRecording, WorkerDies, Find, FindExternal,
              StartAdopt, Abort, Start, tables
<1>3. ASSUME NEW r \in Refunds, Commit(r) PROVE UNCHANGED refund \/ \E row : Rewrites(r, row)
  <2>1. pending[r].by # "nobody"
    BY <1>3, DistinctNamesAssumption
       DEF Commit, CommitClaim, CommitAttach, CommitTimeout, CommitReject, CommitAdopt, CommitSucceeded,
           CommitFailed, CommitReview, Settling
  <2>2. refund[r].status # "ABSENT" /\ refund[r] \in Row
    BY <2>1, WriterHasRefund
  <2>3. ASSUME NEW st \in {"SUBMITTING", "PROCESSING", "REQUIRES_REVIEW"}, WriteRow(r, [refund[r] EXCEPT !.status = st])
        PROVE  \E row : Rewrites(r, row)
    <3>1. [refund[r] EXCEPT !.status = st].status = st /\ [refund[r] EXCEPT !.status = st].seats = refund[r].seats
      BY <2>2 DEF Row
    <3>. QED  BY <2>2, <2>3, <3>1 DEF WriteRow, Rewrites
  <2>4. ASSUME NEW x, WriteRow(r, [refund[r] EXCEPT !.status = "PROCESSING", !.external = x])
        PROVE  \E row : Rewrites(r, row)
    <3>1. /\ [refund[r] EXCEPT !.status = "PROCESSING", !.external = x].status = "PROCESSING"
          /\ [refund[r] EXCEPT !.status = "PROCESSING", !.external = x].seats = refund[r].seats
      BY <2>2 DEF Row
    <3>. QED  BY <2>2, <2>4, <3>1 DEF WriteRow, Rewrites
  <2>5. ASSUME NEW o \in {"SUCCEEDED", "FAILED"}, WriteRow(r, [refund[r] EXCEPT !.status = o, !.outcome = o])
        PROVE  \E row : Rewrites(r, row)
    <3>1. /\ [refund[r] EXCEPT !.status = o, !.outcome = o].status = o
          /\ [refund[r] EXCEPT !.status = o, !.outcome = o].seats = refund[r].seats
      BY <2>2 DEF Row
    <3>. QED  BY <2>2, <2>5, <3>1 DEF WriteRow, Rewrites
  <2>6. CASE CommitClaim(r) \/ CommitTimeout(r) \/ CommitReview(r)
    BY <2>3, <2>6 DEF CommitClaim, CommitTimeout, CommitReview
  <2>7. CASE CommitAttach(r) \/ CommitAdopt(r)
    BY <2>4, <2>7 DEF CommitAttach, CommitAdopt
  <2>8. CASE CommitReject(r) \/ CommitSucceeded(r) \/ CommitFailed(r)
    BY <2>5, <2>8 DEF CommitReject, CommitSucceeded, CommitFailed
  <2>. QED  BY <1>3, <2>6, <2>7, <2>8 DEF Commit
<1>4. ASSUME NEW e \in Events, DeliverReport(e) \/ \E x \in Refunds, report \in Reports : EmitReport(e, x, report)
      PROVE  UNCHANGED refund
  BY <1>4 DEF DeliverReport, ParkUnknown, IgnoreEvent, StartSettle, Start, EmitReport, tables
<1>5. ASSUME IssueTickets \/ \E s \in Seats : ScanTicket(s) PROVE UNCHANGED refund
  BY <1>5 DEF IssueTickets, ScanTicket
<1>. QED  BY <1>1, <1>2, <1>3, <1>4, <1>5 DEF Next

\* Requests, submission, reconciliation and settlement together implement the abstract
\* allocation: the price of a seat is claimed by one refund at a time, seats go back as
\* the wholes they were claimed as, and money that is returned stays returned.
THEOREM RefundsAllocate == Spec => ImplementsRefundAllocation
<1>1. Init => Shares!Init
  <2>. SUFFICES ASSUME Init PROVE ShareView = [s \in Seats |-> Shares!Kept]
    BY DEF Shares!Init
  <2>1. ASSUME NEW s \in Seats PROVE Payers(s) = {}
    BY DEF Init, Payers, NoRefundRow
  <2>2. ASSUME NEW s \in Seats PROVE ShareView[s] = Shares!Kept
    BY <2>1 DEF ShareView, ShareOf, Shares!Kept
  <2>. QED  BY <2>2 DEF ShareView
<1>2. IndInv /\ IndInv' /\ SharesAgree /\ SharesAgree' /\ [Next]_vars => [Shares!Next]_ShareView
  <2>. SUFFICES ASSUME IndInv, IndInv', SharesAgree, SharesAgree', [Next]_vars
                PROVE  Shares!Next \/ ShareView' = ShareView
    OBVIOUS
  <2>1. CASE UNCHANGED refund
    BY <2>1, SharesUnseen DEF Paying
  <2>2. ASSUME NEW r \in Refunds, NEW S \in SUBSET Seats, NEW scope \in Scopes, CommitRequest(r, S, scope)
        PROVE  Shares!Next
    BY <2>2, RequestClaims DEF Shares!Next
  <2>3. ASSUME NEW r \in Refunds, NEW row, Rewrites(r, row)
        PROVE  Shares!Next \/ ShareView' = ShareView
    <3>1. /\ refund'[r] = row /\ row \in Row /\ refund[r] \in Row
          /\ \A q \in Refunds \ {r} : refund'[q] = refund[q]
          /\ refund'[r].seats = refund[r].seats
      BY <2>3 DEF Rewrites, IndInv, Typed
    <3>2. /\ refund[r].outcome = "NONE" => refund[r].status \in InFlightStatus
          /\ row.outcome = "NONE" => row.status \in InFlightStatus
          /\ refund[r].outcome # "NONE" => row.outcome = refund[r].outcome
      BY <2>3, <3>1 DEF Rewrites, RefundWriteAllowed, IndInv, StatusFollowsOutcome
    <3>3. CASE row.outcome = refund[r].outcome
      <4>1. \A q \in Refunds : /\ Paying(q)' <=> Paying(q)
                               /\ refund'[q].seats = refund[q].seats
                               /\ refund'[q].outcome = "SUCCEEDED" <=> refund[q].outcome = "SUCCEEDED"
        BY <3>1, <3>2, <3>3 DEF Paying
      <4>. QED  BY <4>1, SharesUnseen
    <3>4. CASE row.outcome # refund[r].outcome
      <4>1. refund[r].outcome = "NONE" /\ row.outcome \in {"SUCCEEDED", "FAILED"} /\ Paying(r)
        BY <3>1, <3>2, <3>4 DEF Paying, Row
      <4>2. refund[r].seats \subseteq Seats
        BY <3>1 DEF Row
      <4>. QED  BY <3>1, <4>1, <4>2, OutcomeShows DEF Shares!Next
    <3>. QED  BY <3>3, <3>4
  <2>4. CASE Next
    BY <2>1, <2>2, <2>3, <2>4, RowsWritten
  <2>. QED  BY <2>1, <2>4 DEF vars, tables
<1>. QED  BY <1>1, <1>2, SharesLemma, Invariance, PTL DEF Spec, ImplementsRefundAllocation, Shares!Spec

-----------------------------------------------------------------------------
(* The types, the totals included: they are numbers because only finitely  *)
(* many refunds are there, and a snapshot has no others.                   *)

Existing == {r \in Refunds : refund[r].status # "ABSENT"}

LedgerRows == {"REFUND_REQUESTED", "REFUND_PROCESSING", "REFUND_SUCCEEDED", "REFUND_FAILED"}
                \X Refunds \X (Refunds \cup Events)
OutboxRows == {"REFUND_REQUESTED", "REFUND_SUBMITTED", "REFUND_SUCCEEDED", "REFUND_FAILED",
               "REFUND_REQUIRES_REVIEW", "TICKET_REVOCATION_REQUESTED",
               "FINANCIAL_RECONCILIATION_REQUIRED"} \X Refunds

CountsInv ==
  /\ IsFiniteSet(Existing)
  /\ \A r \in Refunds : pending[r] # Idle =>
       pending[r].refunded \subseteq Existing /\ pending[r].inFlight \subseteq Existing
  /\ totals \in [refunded : Nat, inFlight : Nat]

PapersInv ==
  /\ booking \in {"CONFIRMED", "REFUNDED"} /\ underReview \in BOOLEAN
  /\ ledger \subseteq LedgerRows /\ outbox \subseteq OutboxRows

\* What refunds that are there amount to is a number.
LEMMA ExistingAmount ==
  ASSUME IndInv, CountsInv, NEW R, R \subseteq Existing
  PROVE  TotalOf(R) \in Nat
<1>1. IsFiniteSet(R)
  BY FS_Subset DEF CountsInv
<1>2. \A q \in R : refund[q].seats \in SUBSET Seats
  BY DEF Existing, IndInv, Typed, Row
<1>3. TotalIn(refund, R) \in Nat
  BY <1>1, <1>2, TotalGrows
<1>4. TotalOf(R) = TotalIn(refund, R)
  BY Zenon DEF TotalOf, TotalIn
<1> QED
  BY <1>3, <1>4

\* Steps that leave refunds and totals alone.
LEMMA CountsQuiet ==
  ASSUME IndInv, CountsInv, UNCHANGED <<refund, totals>>,
         \A q \in Refunds : \/ pending'[q] = pending[q]
                            \/ pending'[q] = Idle
                            \/ pending'[q].refunded \subseteq Existing /\ pending'[q].inFlight \subseteq Existing
  PROVE  CountsInv'
<1>1. Existing' = Existing
  BY DEF Existing
<1>2. (\A r \in Refunds : pending[r] # Idle =>
         pending[r].refunded \subseteq Existing /\ pending[r].inFlight \subseteq Existing)'
  BY <1>1 DEF CountsInv, Idle
<1>3. (totals \in [refunded : Nat, inFlight : Nat])'
  BY DEF CountsInv
<1> QED
  BY <1>1, <1>2, <1>3 DEF CountsInv

\* Steps that write the row of one refund.
LEMMA CountsWrite ==
  ASSUME IndInv, CountsInv, NEW r \in Refunds, NEW row, row.status # "ABSENT",
         refund' = [refund EXCEPT ![r] = row],
         \A q \in Refunds : pending'[q] = pending[q] \/ pending'[q] = Idle,
         totals' \in [refunded : Nat, inFlight : Nat]
  PROVE  CountsInv'
<1>1. refund'[r] = row /\ \A q \in Refunds \ {r} : refund'[q] = refund[q]
  BY DEF IndInv, Typed
<1>2. PICK E, F : E = Existing /\ F = {q \in Refunds : refund'[q].status # "ABSENT"}
  OBVIOUS
<1>3. F = E \cup {r}
  BY <1>1, <1>2 DEF Existing
<1>4. Existing' = F
  BY <1>2 DEF Existing
<1>5. IsFiniteSet(F)
  BY <1>2, <1>3, FS_AddElement DEF CountsInv
<1>6. \A q \in Refunds : pending'[q] # Idle => pending'[q].refunded \subseteq F /\ pending'[q].inFlight \subseteq F
  BY <1>2, <1>3 DEF CountsInv
<1>7. (\A q \in Refunds : pending[q] # Idle =>
         pending[q].refunded \subseteq Existing /\ pending[q].inFlight \subseteq Existing)'
  BY <1>4, <1>6 DEF Idle
<1>8. IsFiniteSet(Existing)'
  BY <1>4, <1>5
<1> QED
  BY <1>7, <1>8 DEF CountsInv

\* A write recounts refunds that are there.
LEMMA RecountIsNumbers ==
  ASSUME IndInv, CountsInv, NEW r \in Existing, pending[r] # Idle, NEW row
  PROVE  Recount(r, row) \in [refunded : Nat, inFlight : Nat]
<1>1. PICK R, F : /\ R = pending[r].refunded \cup {q \in {r} : row.outcome = "SUCCEEDED"}
                  /\ F = pending[r].inFlight
                           \cup {q \in {r} : row.outcome # "SUCCEEDED" /\ row.status \in InFlightStatus}
  OBVIOUS
<1>2. R \subseteq Existing /\ F \subseteq Existing
  BY <1>1 DEF CountsInv, Existing
<1>3. TotalOf(R) \in Nat /\ TotalOf(F) \in Nat
  BY <1>2, ExistingAmount
<1>4. Recount(r, row) = [refunded |-> TotalOf(R), inFlight |-> TotalOf(F)]
  BY <1>1 DEF Recount
<1> QED
  BY <1>3, <1>4

\* A commit writes its row or finds nothing to do, and gives the row back.
LEMMA CommitWrites ==
  ASSUME IndInv, NEW r \in Refunds, Commit(r)
  PROVE  /\ pending[r] # Idle /\ refund[r].status # "ABSENT" /\ Done(r)
         /\ \/ UNCHANGED <<refund, totals>>
            \/ \E row : WriteRow(r, row) /\ row.status # "ABSENT"
<1>1. /\ pending[r] # Idle /\ refund[r].status # "ABSENT" /\ refund[r] \in Row /\ Done(r)
  <2>1. pending[r].by # "nobody" /\ Done(r)
    BY DistinctNamesAssumption
       DEF Commit, CommitClaim, CommitAttach, CommitTimeout, CommitReject, CommitAdopt,
           CommitSucceeded, CommitFailed, CommitReview, Settling
  <2> QED
    BY <2>1, WriterHasRefund DEF Idle
<1>2. \A k : [refund[r] EXCEPT !.status = k].status = k
  BY <1>1 DEF Row
<1>3. \A k, x : [refund[r] EXCEPT !.status = k, !.external = x].status = k
  BY <1>1 DEF Row
<1>4. \A k, o : [refund[r] EXCEPT !.status = k, !.outcome = o].status = k
  BY <1>1 DEF Row
<1>5. CASE CommitClaim(r) \/ CommitReview(r) \/ CommitTimeout(r)
  <2>1. UNCHANGED <<refund, totals>> \/ \E k \in {"SUBMITTING", "PROCESSING", "REQUIRES_REVIEW"} :
          WriteRow(r, [refund[r] EXCEPT !.status = k])
    BY <1>5, Zenon DEF CommitClaim, CommitReview, CommitTimeout
  <2> QED
    BY <1>1, <1>2, <2>1
<1>6. CASE CommitAttach(r) \/ CommitAdopt(r)
  <2>1. UNCHANGED <<refund, totals>> \/ \E x : WriteRow(r, [refund[r] EXCEPT !.status = "PROCESSING", !.external = x])
    BY <1>6, Zenon DEF CommitAttach, CommitAdopt
  <2> QED
    BY <1>1, <1>3, <2>1
<1>7. CASE CommitReject(r) \/ CommitSucceeded(r) \/ CommitFailed(r)
  <2>1. UNCHANGED <<refund, totals>> \/ \E k \in {"FAILED", "SUCCEEDED"} :
          WriteRow(r, [refund[r] EXCEPT !.status = k, !.outcome = k])
    BY <1>7, Zenon DEF CommitReject, CommitSucceeded, CommitFailed
  <2> QED
    BY <1>1, <1>4, <2>1
<1> QED
  BY <1>5, <1>6, <1>7 DEF Commit

\* Every step counts refunds that are there.
LEMMA CountsStep ==
  ASSUME IndInv, CountsInv, [Next]_vars
  PROVE  CountsInv'
<1>1. ASSUME UNCHANGED <<refund, totals, pending>>
      PROVE  CountsInv'
  BY <1>1, CountsQuiet
<1>2. ASSUME NEW r \in Refunds, NEW by, Start(r, by)
      PROVE  CountsInv'
  <2>1. PICK lock : lock = [by |-> by, refunded |-> Succeeded \ {r}, inFlight |-> InFlight \ {r}]
    OBVIOUS
  <2>2. pending' = [pending EXCEPT ![r] = lock] /\ UNCHANGED <<refund, totals>>
    BY <1>2, <2>1 DEF Start, tables
  <2>3. Succeeded \subseteq Existing /\ InFlight \subseteq Existing
    BY DEF Succeeded, InFlight, Existing, InFlightStatus, IndInv, AbsentUntouched
  <2>4. lock.refunded \subseteq Existing /\ lock.inFlight \subseteq Existing
    BY <2>1, <2>3
  <2>5. \A q \in Refunds : \/ pending'[q] = pending[q]
                           \/ pending'[q].refunded \subseteq Existing /\ pending'[q].inFlight \subseteq Existing
    BY <2>2, <2>4 DEF IndInv, Typed
  <2> QED
    BY <2>2, <2>5, CountsQuiet
<1>3. ASSUME NEW r \in Refunds, NEW S \in SUBSET Seats, NEW scope \in Scopes, CommitRequest(r, S, scope)
      PROVE  CountsInv'
  <2>1. PICK row : row = [status |-> "REQUESTED", outcome |-> "NONE", seats |-> S,
                          scope |-> scope, external |-> NoRefund]
    OBVIOUS
  <2>2. /\ refund' = [refund EXCEPT ![r] = row] /\ UNCHANGED pending
        /\ totals' = [refunded |-> TotalOf(Succeeded), inFlight |-> TotalOf(InFlight) + AmountOf(S)]
    BY <1>3, <2>1 DEF CommitRequest
  <2>3. Succeeded \subseteq Existing /\ InFlight \subseteq Existing
    BY DEF Succeeded, InFlight, Existing, InFlightStatus, IndInv, AbsentUntouched
  <2>4. TotalOf(Succeeded) \in Nat /\ TotalOf(InFlight) \in Nat /\ AmountOf(S) \in Nat
    BY <2>3, ExistingAmount, AmountIsNat
  <2>5. totals' \in [refunded : Nat, inFlight : Nat]
    BY <2>2, <2>4
  <2>6. row.status # "ABSENT"
    BY <2>1
  <2> QED
    BY <2>2, <2>5, <2>6, CountsWrite
<1>4. ASSUME NEW r \in Refunds, Request(r)
      PROVE  CountsInv'
  BY <1>1, <1>3, <1>4 DEF Request, StartRequest, RefuseRequest, tables
<1>5. ASSUME NEW r \in Refunds, Answer(r) \/ WorkerDies(r) \/ Find(r)
      PROVE  CountsInv'
  BY <1>1, <1>5 DEF Answer, ProviderAnswers, WorkerDies, Find, FindExternal, tables
<1>6. ASSUME NEW r \in Refunds, StartClaim(r) \/ StartRecording(r) \/ StartAdopt(r)
      PROVE  CountsInv'
  BY <1>2, <1>6 DEF StartClaim, StartRecording, StartAdopt
<1>7. ASSUME NEW r \in Refunds, Done(r)
      PROVE  \A q \in Refunds : pending'[q] = pending[q] \/ pending'[q] = Idle
  BY <1>7 DEF Done, IndInv, Typed
<1>8. ASSUME NEW r \in Refunds, Abort(r)
      PROVE  CountsInv'
  <2>1. UNCHANGED <<refund, totals>> /\ Done(r)
    BY <1>8 DEF Abort, tables
  <2> QED
    BY <1>7, <2>1, CountsQuiet
<1>9. ASSUME NEW r \in Refunds, Commit(r)
      PROVE  CountsInv'
  <2>1. /\ pending[r] # Idle /\ r \in Existing
        /\ \A q \in Refunds : pending'[q] = pending[q] \/ pending'[q] = Idle
    BY <1>7, <1>9, CommitWrites DEF Existing
  <2>2. ASSUME NEW row, WriteRow(r, row), row.status # "ABSENT"
        PROVE  CountsInv'
    <3>1. totals' \in [refunded : Nat, inFlight : Nat] /\ refund' = [refund EXCEPT ![r] = row]
      BY <2>1, <2>2, RecountIsNumbers DEF WriteRow
    <3> QED
      BY <2>1, <2>2, <3>1, CountsWrite
  <2> QED
    BY <1>9, <2>1, <2>2, CommitWrites, CountsQuiet
<1>10. ASSUME NEW e \in Events, DeliverReport(e) \/ \E x \in Refunds, report \in Reports : EmitReport(e, x, report)
       PROVE  CountsInv'
  <2>1. UNCHANGED <<refund, totals, pending>> \/ \E r \in Refunds : Start(r, e)
    BY <1>10 DEF DeliverReport, ParkUnknown, IgnoreEvent, StartSettle, EmitReport, tables
  <2> QED
    BY <1>1, <1>2, <2>1
<1>11. ASSUME IssueTickets \/ \E s \in Seats : ScanTicket(s)
       PROVE  CountsInv'
  BY <1>1, <1>11 DEF IssueTickets, ScanTicket
<1>12. CASE UNCHANGED vars
  BY <1>1, <1>12 DEF vars, tables
<1> QED
  BY <1>4, <1>5, <1>6, <1>8, <1>9, <1>10, <1>11, <1>12 DEF Next

\* Every step writes ledger and outbox rows of the types there are.
LEMMA PapersStep ==
  ASSUME IndInv, PapersInv, [Next]_vars
  PROVE  PapersInv'
<1>1. ASSUME UNCHANGED <<booking, underReview, ledger, outbox>>
      PROVE  PapersInv'
  BY <1>1 DEF PapersInv
<1>2. ASSUME NEW r \in Refunds, NEW S, NEW scope, CommitRequest(r, S, scope)
      PROVE  PapersInv'
  BY <1>2 DEF CommitRequest, PapersInv, LedgerRows, OutboxRows
<1>3. ASSUME NEW r \in Refunds, Request(r)
      PROVE  PapersInv'
  BY <1>1, <1>2, <1>3 DEF Request, StartRequest, RefuseRequest, tables
<1>4. ASSUME NEW r \in Refunds,
             \/ Answer(r) \/ WorkerDies(r) \/ Find(r) \/ StartClaim(r) \/ StartRecording(r) \/ StartAdopt(r)
             \/ Abort(r)
      PROVE  PapersInv'
  BY <1>1, <1>4 DEF Answer, ProviderAnswers, WorkerDies, Find, FindExternal, StartClaim, StartRecording,
                    StartAdopt, Start, Abort, tables
<1>5. ASSUME NEW r \in Refunds, Commit(r)
      PROVE  PapersInv'
  <2>1. CASE CommitClaim(r) \/ CommitAdopt(r)
    BY <1>1, <2>1 DEF CommitClaim, CommitAdopt
  <2>2. CASE CommitAttach(r)
    BY <2>2 DEF CommitAttach, PapersInv, LedgerRows, OutboxRows
  <2>3. CASE CommitTimeout(r)
    BY <2>3 DEF CommitTimeout, PapersInv, OutboxRows
  <2>4. CASE CommitReject(r)
    BY <2>4 DEF CommitReject, PapersInv, LedgerRows, OutboxRows
  <2>5. CASE CommitSucceeded(r)
    <3>1. pending[r].by \in Events
      BY <2>5 DEF CommitSucceeded, Settling
    <3>2. /\ booking' \in {booking, "REFUNDED"} /\ underReview' = underReview
          /\ ledger' = ledger \cup {<<"REFUND_SUCCEEDED", r, pending[r].by>>}
          /\ outbox' \subseteq outbox \cup {<<"REFUND_SUCCEEDED", r>>, <<"TICKET_REVOCATION_REQUESTED", r>>}
      BY <2>5 DEF CommitSucceeded
    <3> QED
      BY <3>1, <3>2 DEF PapersInv, LedgerRows, OutboxRows
  <2>6. CASE CommitFailed(r)
    <3>1. pending[r].by \in Events
      BY <2>6 DEF CommitFailed, Settling
    <3> QED
      BY <2>6, <3>1 DEF CommitFailed, PapersInv, LedgerRows, OutboxRows
  <2>7. CASE CommitReview(r)
    BY <2>7 DEF CommitReview, PapersInv, OutboxRows
  <2> QED
    BY <1>5, <2>1, <2>2, <2>3, <2>4, <2>5, <2>6, <2>7 DEF Commit
<1>6. ASSUME NEW e \in Events, DeliverReport(e) \/ \E x \in Refunds, report \in Reports : EmitReport(e, x, report)
      PROVE  PapersInv'
  BY <1>1, <1>6 DEF DeliverReport, ParkUnknown, IgnoreEvent, StartSettle, Start, EmitReport, tables
<1>7. ASSUME IssueTickets \/ \E s \in Seats : ScanTicket(s)
      PROVE  PapersInv'
  BY <1>1, <1>7 DEF IssueTickets, ScanTicket
<1>8. CASE UNCHANGED vars
  BY <1>1, <1>8 DEF vars, tables
<1> QED
  BY <1>3, <1>4, <1>5, <1>6, <1>7, <1>8 DEF Next

\* The tables of refunds and what its workers remember keep their types, and the totals
\* are natural numbers whatever snapshot a recount used: refundedMinor and
\* inFlightRefundMinor never go below zero, for any number of requests.
THEOREM RefundsTypes == Spec => []RefundsTypeOK
<1>1. ASSUME Init
      PROVE  CountsInv /\ PapersInv
  <2>1. /\ refund = [r \in Refunds |-> NoRefundRow] /\ pending = [r \in Refunds |-> Idle]
        /\ totals = [refunded |-> 0, inFlight |-> 0] /\ booking = "CONFIRMED" /\ underReview = FALSE
        /\ ledger = {} /\ outbox = {}
    BY <1>1 DEF Init
  <2>2. Existing = {}
    BY <2>1 DEF Existing, NoRefundRow
  <2>3. CountsInv
    BY <2>1, <2>2, FS_EmptySet DEF CountsInv
  <2>4. PapersInv
    BY <2>1 DEF PapersInv
  <2> QED
    BY <2>3, <2>4
<1>2. IndInv /\ CountsInv /\ [Next]_vars => CountsInv'
  BY CountsStep
<1>3. IndInv /\ PapersInv /\ [Next]_vars => PapersInv'
  BY PapersStep
<1>4. IndInv /\ CountsInv /\ PapersInv => RefundsTypeOK
  BY DEF IndInv, Typed, Writers, SentEvent, CountsInv, PapersInv, LedgerRows, OutboxRows, RefundsTypeOK
<1> QED
  BY <1>1, <1>2, <1>3, <1>4, Invariance, PTL DEF Spec
=============================================================================
