---------------------------- MODULE DisputesProofs ----------------------------
(***************************************************************************)
(* Theorems about Disputes, for any number of disputes, events and tickets *)
(* and any captured amount.                                                *)
(*                                                                         *)
(* Neither property is inductive as it stands.  Both rest on the lock: the *)
(* row a transaction read under the lock of its dispute is still the row   *)
(* of that dispute when it commits (LockedIsCurrent), and no two of them   *)
(* hold one dispute.  The chain also needs that an event is in the history *)
(* only once it is settled, so that its transaction always appends; the    *)
(* chargeback needs that an open dispute has no outcome.                   *)
(***************************************************************************)
EXTENDS Disputes, FiniteSetTheorems, TLAPS

RowStatus == ReportedStatus \cup {"REQUIRES_REVIEW"}
DisputeRow == [status : RowStatus, outcome : {"NULL", "WON", "LOST"}, closed : BOOLEAN,
               amount : 1..CapturedAmount, booking : BOOLEAN]
StoredEvent == [processingStatus : {"RECEIVED", "PROCESSED", "REQUIRES_REVIEW"},
                dispute : DisputeIds, status : ReportedStatus, amount : 1..(CapturedAmount + 1)]
Reading == [phase : {"read"}, refunded : 0..CapturedAmount, booking : BOOLEAN]
Holding == [phase : {"opening", "locked"}, row : DisputeRow \cup {NoDispute},
            refunded : 0..CapturedAmount, booking : BOOLEAN]
LogEntry == [event : DisputeEvents, previousStatus : RowStatus \cup {"NULL"}, newStatus : RowStatus]

RowsTyped ==
  /\ inbox \in [DisputeEvents -> StoredEvent \cup {NotReceived}]
  /\ disputeTx \in [DisputeEvents -> Reading \cup Holding \cup {NoTx}]
  /\ dispute \in [DisputeIds -> DisputeRow \cup {NoDispute}]
  /\ disputeLog \in [DisputeIds -> Seq(LogEntry)]
OrderTyped ==
  /\ orderReview \in ReviewStates /\ refundedTotal \in 0..CapturedAmount
  /\ bookingMade \in BOOLEAN
  /\ admission \in [TicketIds -> {"NONE", "ACTIVE", "USED", "REVOKED"}]

\* Only an event that is stored and not settled is being processed.
TxIsOfReceived ==
  \A e \in DisputeEvents : disputeTx[e] # NoTx => inbox[e].processingStatus = "RECEIVED"

\* What was read under the lock of a dispute is what the dispute is.
LockedIsCurrent ==
  \A e \in DisputeEvents : disputeTx[e].phase = "locked" =>
    /\ disputeTx[e].row = dispute[inbox[e].dispute]
    /\ dispute[inbox[e].dispute] # NoDispute

\* One transaction at a time holds the lock of a dispute.
LockIsExclusive ==
  \A e, f \in DisputeEvents :
    /\ disputeTx[e].phase = "locked" /\ disputeTx[f].phase = "locked"
    /\ inbox[e].dispute = inbox[f].dispute
    => e = f

\* Status, outcome and closing date of a dispute go together.
RowsAreLegal == \A d \in DisputeIds : dispute[d] # NoDispute => LifecycleCheck(dispute[d])

\* An event is in a history only after the commit that settled it, and a
\* dispute that does not exist has no history.
LogIsOfSettled ==
  \A d \in DisputeIds :
    /\ \A i \in 1..Len(disputeLog[d]) :
         inbox[disputeLog[d][i].event].processingStatus \in {"PROCESSED", "REQUIRES_REVIEW"}
    /\ dispute[d] = NoDispute => disputeLog[d] = <<>>

\* The chargebacks of a dispute, without counting them.
ChargebacksOf(d) == {x \in disputeLedger : x.type = "CHARGEBACK_RECORDED" /\ x.dispute = d}
Lost(d) == dispute[d] # NoDispute /\ dispute[d].outcome = "LOST"
ChargebackOnce ==
  \A d \in DisputeIds :
    /\ Lost(d) => \E x \in disputeLedger : ChargebacksOf(d) = {x} /\ x.amount = dispute[d].amount
    /\ ~Lost(d) => ChargebacksOf(d) = {}
    /\ <<"chargeback", d>> \in disputeOutbox <=> Lost(d)

DisputesInv ==
  /\ RowsTyped /\ TxIsOfReceived /\ LockedIsCurrent /\ LockIsExclusive
  /\ RowsAreLegal /\ LogIsOfSettled
DisputesSafe == DisputesInv /\ ChargebackOnce /\ HistoryIsAChain

\* What the commits of the four handlers have in common: e, whose transaction
\* holds its dispute d or opens it, writes row, appends one entry and settles.
Commits(e, d, row, st) ==
  /\ disputeTx[e] # NoTx /\ d = inbox[e].dispute
  /\ dispute[d] # NoDispute => disputeTx[e].phase = "locked"
  /\ row \in DisputeRow /\ LifecycleCheck(row) /\ st \in {"PROCESSED", "REQUIRES_REVIEW"}
  /\ dispute' = [dispute EXCEPT ![d] = row]
  /\ disputeLog' = [disputeLog EXCEPT ![d] = Append(@, [event |-> e,
       previousStatus |-> IF dispute[d] = NoDispute THEN "NULL" ELSE dispute[d].status,
       newStatus |-> row.status])]
  /\ inbox' = [inbox EXCEPT ![e].processingStatus = st]
  /\ disputeTx' = [disputeTx EXCEPT ![e] = NoTx]

-----------------------------------------------------------------------------
(* The shapes of rows and transactions *)

\* A transaction is of a stored event, which names a dispute, and its shape
\* follows its phase.
LEMMA TxShape ==
  ASSUME RowsTyped, TxIsOfReceived, NEW e \in DisputeEvents, disputeTx[e] # NoTx
  PROVE  /\ inbox[e] \in StoredEvent /\ inbox[e].processingStatus = "RECEIVED"
         /\ inbox[e].dispute \in DisputeIds /\ inbox[e].status \in ReportedStatus
         /\ disputeTx[e].phase \in {"read", "opening", "locked"}
         /\ disputeTx[e].phase = "read" => disputeTx[e] \in Reading
         /\ disputeTx[e].phase \in {"opening", "locked"} => disputeTx[e] \in Holding
<1>1. inbox[e].processingStatus = "RECEIVED"
  BY DEF TxIsOfReceived
<1>2. inbox[e] # NotReceived
  BY <1>1 DEF NotReceived
<1>3. inbox[e] \in StoredEvent
  BY <1>2 DEF RowsTyped
<1>4. inbox[e].dispute \in DisputeIds /\ inbox[e].status \in ReportedStatus
  BY <1>3 DEF StoredEvent
<1>5. disputeTx[e] \in Reading \cup Holding
  BY DEF RowsTyped
<1>6. /\ disputeTx[e].phase \in {"read", "opening", "locked"}
      /\ disputeTx[e].phase = "read" => disputeTx[e] \in Reading
      /\ disputeTx[e].phase \in {"opening", "locked"} => disputeTx[e] \in Holding
  BY <1>5 DEF Reading, Holding
<1> QED
  BY <1>1, <1>3, <1>4, <1>6

\* A transaction in a phase is not idle.
LEMMA PhaseIsTx ==
  ASSUME NEW e \in DisputeEvents, disputeTx[e].phase \in {"read", "opening", "locked"}
  PROVE  disputeTx[e] # NoTx
BY DEF NoTx

\* A dispute that is there has the shape of a row, and a status.
LEMMA RowShape ==
  ASSUME RowsTyped, NEW d \in DisputeIds
  PROVE  /\ dispute[d] # NoDispute => dispute[d] \in DisputeRow
         /\ \A row \in DisputeRow : row # NoDispute /\ row.status \in RowStatus
<1>1. \A row \in DisputeRow : row # NoDispute /\ row.status \in RowStatus
  BY DEF DisputeRow, NoDispute, RowStatus, ReportedStatus, OpenStatuses
<1> QED
  BY <1>1 DEF RowsTyped

\* What AdvancedRow writes and what it leaves.
LEMMA AdvancedFields ==
  ASSUME NEW row \in DisputeRow, NEW st \in ReportedStatus
  PROVE  /\ AdvancedRow(row, st) \in DisputeRow
         /\ AdvancedRow(row, st).status = st
         /\ AdvancedRow(row, st).outcome = outcomeForTerminalStatus(st)
         /\ AdvancedRow(row, st).amount = row.amount
<1>1. /\ st \in RowStatus /\ outcomeForTerminalStatus(st) \in {"NULL", "WON", "LOST"}
      /\ isTerminalDisputeStatus(st) \in BOOLEAN
  BY DEF RowStatus, outcomeForTerminalStatus, isTerminalDisputeStatus
<1>2. ASSUME NEW o \in {"NULL", "WON", "LOST"}, NEW c \in BOOLEAN
      PROVE  LET new == [row EXCEPT !.status = st, !.outcome = o, !.closed = c] IN
             new \in DisputeRow /\ new.status = st /\ new.outcome = o /\ new.amount = row.amount
  <2> DEFINE r1 == [row EXCEPT !.status = st]
             r2 == [r1 EXCEPT !.outcome = o]
             r3 == [r2 EXCEPT !.closed = c]
  <2>1. r1 \in DisputeRow /\ r1.status = st /\ r1.amount = row.amount
    BY <1>1 DEF DisputeRow
  <2>2. r1 \in DisputeRow => r2 \in DisputeRow /\ r2.outcome = o /\ r2.status = r1.status /\ r2.amount = r1.amount
    <3> HIDE DEF r1
    <3> QED
      BY DEF DisputeRow
  <2>3. r2 \in DisputeRow => /\ r3 \in DisputeRow /\ r3.outcome = r2.outcome
                             /\ r3.status = r2.status /\ r3.amount = r2.amount
    <3> HIDE DEF r2
    <3> QED
      BY DEF DisputeRow
  <2> QED
    BY <2>1, <2>2, <2>3
<1> QED
  BY <1>1, <1>2 DEF AdvancedRow

\* An event that is not settled is in no history, so its transaction appends to it.
LEMMA LoggedAppends ==
  ASSUME RowsTyped, LogIsOfSettled, NEW d \in DisputeIds, NEW e \in DisputeEvents,
         inbox[e].processingStatus = "RECEIVED", NEW before, NEW after
  PROVE  Logged(disputeLog[d], e, before, after) =
           Append(disputeLog[d], [event |-> e, previousStatus |-> before, newStatus |-> after])
<1>1. \A i \in 1..Len(disputeLog[d]) : disputeLog[d][i].event # e
  BY DEF LogIsOfSettled
<1> QED
  BY <1>1 DEF Logged

-----------------------------------------------------------------------------
(* Every handler commits *)

\* openDispute commits the row the event describes.
LEMMA OpenCommits ==
  ASSUME DisputesInv, NEW e \in DisputeEvents, openDispute(e)
  PROVE  \E d \in DisputeIds :
           /\ Commits(e, d, OpenedRow(e, disputeTx[e].booking), "PROCESSED")
           /\ dispute[d] = NoDispute
           /\ Consequences(e, d, OpenedRow(e, disputeTx[e].booking), "DISPUTE_REVIEW")
<1> DEFINE row == OpenedRow(e, disputeTx[e].booking)
<1>1. disputeTx[e].phase = "opening"
  BY DEF openDispute
<1>2. disputeTx[e] # NoTx
  BY <1>1, PhaseIsTx
<1>3. /\ inbox[e] \in StoredEvent /\ inbox[e].processingStatus = "RECEIVED"
      /\ inbox[e].dispute \in DisputeIds /\ disputeTx[e] \in Holding
  BY <1>1, <1>2, TxShape DEF DisputesInv
<1>4. PICK d \in DisputeIds : d = inbox[e].dispute
  BY <1>3
<1>5. dispute[d] = NoDispute
  BY <1>4 DEF openDispute, IdentifierIsFree
<1>6. row \in DisputeRow
  <2>1. inbox[e].amount \in 1..CapturedAmount
    <3>1. inbox[e].amount \in 1..(CapturedAmount + 1)
      BY <1>3 DEF StoredEvent
    <3>2. inbox[e].amount <= CapturedAmount
      BY DEF openDispute, WithinCaptured, OpenedRow
    <3> QED
      BY <3>1, <3>2, DisputeConstants
  <2>2. inbox[e].status \in ReportedStatus /\ disputeTx[e].booking \in BOOLEAN
    BY <1>3 DEF StoredEvent, Holding
  <2> QED
    BY <2>1, <2>2 DEF OpenedRow, DisputeRow, RowStatus, outcomeForTerminalStatus, isTerminalDisputeStatus
<1>7. row.status = inbox[e].status
  BY DEF OpenedRow
<1>8. LifecycleCheck(row) /\ dispute' = [dispute EXCEPT ![d] = row]
  BY <1>4 DEF openDispute
<1>9. disputeLog' = [disputeLog EXCEPT ![d] = Append(@, [event |-> e, previousStatus |-> "NULL",
                                                         newStatus |-> row.status])]
  <2>1. disputeLog' = [disputeLog EXCEPT ![d] = Logged(disputeLog[d], e, "NULL", row.status)]
    BY <1>4 DEF openDispute
  <2> QED
    BY <1>3, <2>1, LoggedAppends DEF DisputesInv
<1>10. /\ inbox' = [inbox EXCEPT ![e].processingStatus = "PROCESSED"]
       /\ disputeTx' = [disputeTx EXCEPT ![e] = NoTx]
  BY DEF openDispute, SettleInbox
<1>11. Consequences(e, d, row, "DISPUTE_REVIEW")
  BY <1>4 DEF openDispute
<1>12. Commits(e, d, row, "PROCESSED")
  <2> HIDE DEF row
  <2> QED
    BY <1>2, <1>4, <1>5, <1>6, <1>8, <1>9, <1>10 DEF Commits
<1> QED
  BY <1>5, <1>11, <1>12

\* A transaction that holds its dispute has read the row it holds.
LEMMA LockedRow ==
  ASSUME DisputesInv, NEW e \in DisputeEvents, disputeTx[e].phase = "locked"
  PROVE  /\ disputeTx[e] # NoTx
         /\ inbox[e].processingStatus = "RECEIVED"
         /\ inbox[e].dispute \in DisputeIds /\ inbox[e].status \in ReportedStatus
         /\ disputeTx[e].row = dispute[inbox[e].dispute]
         /\ dispute[inbox[e].dispute] \in DisputeRow
         /\ dispute[inbox[e].dispute] # NoDispute
<1>1. disputeTx[e] # NoTx
  BY PhaseIsTx
<1>2. /\ inbox[e].processingStatus = "RECEIVED"
      /\ inbox[e].dispute \in DisputeIds /\ inbox[e].status \in ReportedStatus
  BY <1>1, TxShape DEF DisputesInv
<1>3. disputeTx[e].row = dispute[inbox[e].dispute] /\ dispute[inbox[e].dispute] # NoDispute
  BY DEF DisputesInv, LockedIsCurrent
<1> QED
  BY <1>1, <1>2, <1>3, RowShape DEF DisputesInv

\* advanceDispute commits the incoming status over one that was open.
LEMMA AdvanceCommits ==
  ASSUME DisputesInv, NEW e \in DisputeEvents, advanceDispute(e)
  PROVE  \E d \in DisputeIds :
           /\ Commits(e, d, AdvancedRow(dispute[d], inbox[e].status), "PROCESSED")
           /\ dispute[d] \in DisputeRow /\ dispute[d].outcome = "NULL"
           /\ Consequences(e, d, AdvancedRow(dispute[d], inbox[e].status), orderReview)
<1>1. disputeTx[e].phase = "locked"
  BY DEF advanceDispute
<1>2. PICK d \in DisputeIds : d = inbox[e].dispute
  BY <1>1, LockedRow
<1> DEFINE row == AdvancedRow(dispute[d], inbox[e].status)
<1>3. /\ disputeTx[e] # NoTx /\ inbox[e].processingStatus = "RECEIVED"
      /\ inbox[e].status \in ReportedStatus /\ disputeTx[e].row = dispute[d]
      /\ dispute[d] \in DisputeRow /\ dispute[d] # NoDispute
  BY <1>1, <1>2, LockedRow
<1>4. row \in DisputeRow
  BY <1>3, AdvancedFields
<1>5. dispute[d].outcome = "NULL"
  <2>1. dispute[d].status \notin {"REQUIRES_REVIEW", "WON", "LOST", "CLOSED"}
    BY <1>3 DEF advanceDispute, decideDisputeTransition, isTerminalDisputeStatus
  <2>2. dispute[d].status \in OpenStatuses
    BY <1>3, <2>1 DEF DisputeRow, RowStatus, ReportedStatus
  <2>3. LifecycleCheck(dispute[d])
    BY <1>3 DEF DisputesInv, RowsAreLegal
  <2> QED
    BY <2>2, <2>3 DEF LifecycleCheck, OpenStatuses
<1>6. LifecycleCheck(row) /\ dispute' = [dispute EXCEPT ![d] = row]
  BY <1>2, <1>3 DEF advanceDispute
<1>7. disputeLog' = [disputeLog EXCEPT ![d] = Append(@, [event |-> e, previousStatus |-> dispute[d].status,
                                                         newStatus |-> row.status])]
  <2>1. disputeLog' = [disputeLog EXCEPT ![d] = Logged(disputeLog[d], e, dispute[d].status, row.status)]
    BY <1>2, <1>3 DEF advanceDispute
  <2> QED
    BY <1>3, <2>1, LoggedAppends DEF DisputesInv
<1>8. /\ inbox' = [inbox EXCEPT ![e].processingStatus = "PROCESSED"]
      /\ disputeTx' = [disputeTx EXCEPT ![e] = NoTx]
  BY DEF advanceDispute, SettleInbox
<1>9. Consequences(e, d, row, orderReview)
  BY <1>2, <1>3 DEF advanceDispute
<1>10. Commits(e, d, row, "PROCESSED")
  <2> HIDE DEF row
  <2> QED
    BY <1>1, <1>2, <1>3, <1>4, <1>6, <1>7, <1>8 DEF Commits
<1> QED
  BY <1>3, <1>5, <1>9, <1>10

\* reviewDispute keeps the outcome the dispute has.
LEMMA ReviewCommits ==
  ASSUME DisputesInv, NEW e \in DisputeEvents, reviewDispute(e)
  PROVE  \E d \in DisputeIds :
           /\ Commits(e, d, ReviewedRow(dispute[d]), "REQUIRES_REVIEW")
           /\ dispute[d] \in DisputeRow /\ dispute[d] # NoDispute
           /\ disputeOutbox' = disputeOutbox \cup {<<"dispute-review", d>>}
<1>1. disputeTx[e].phase = "locked"
  BY DEF reviewDispute
<1>2. PICK d \in DisputeIds : d = inbox[e].dispute
  BY <1>1, LockedRow
<1> DEFINE row == ReviewedRow(dispute[d])
<1>3. /\ disputeTx[e] # NoTx /\ inbox[e].processingStatus = "RECEIVED"
      /\ disputeTx[e].row = dispute[d]
      /\ dispute[d] \in DisputeRow /\ dispute[d] # NoDispute
  BY <1>1, <1>2, LockedRow
<1>4. row \in DisputeRow /\ row.status = "REQUIRES_REVIEW"
  BY <1>3 DEF ReviewedRow, DisputeRow, RowStatus
<1>5. LifecycleCheck(row)
  BY <1>4 DEF LifecycleCheck, OpenStatuses
<1>6. dispute' = [dispute EXCEPT ![d] = row]
  BY <1>2, <1>3 DEF reviewDispute
<1>7. disputeLog' = [disputeLog EXCEPT ![d] = Append(@, [event |-> e, previousStatus |-> dispute[d].status,
                                                         newStatus |-> row.status])]
  <2>1. disputeLog' = [disputeLog EXCEPT ![d] = Logged(disputeLog[d], e, dispute[d].status, row.status)]
    BY <1>2, <1>3, <1>4 DEF reviewDispute
  <2> QED
    BY <1>3, <2>1, LoggedAppends DEF DisputesInv
<1>8. /\ inbox' = [inbox EXCEPT ![e].processingStatus = "REQUIRES_REVIEW"]
      /\ disputeTx' = [disputeTx EXCEPT ![e] = NoTx]
  BY DEF reviewDispute, SettleInbox
<1>9. disputeOutbox' = disputeOutbox \cup {<<"dispute-review", d>>}
  BY <1>2 DEF reviewDispute
<1>10. Commits(e, d, row, "REQUIRES_REVIEW")
  <2> HIDE DEF row
  <2> QED
    BY <1>1, <1>2, <1>3, <1>4, <1>5, <1>6, <1>7, <1>8 DEF Commits
<1> QED
  BY <1>3, <1>9, <1>10

\* ignoreDispute commits the row that is there.
LEMMA IgnoreCommits ==
  ASSUME DisputesInv, NEW e \in DisputeEvents, ignoreDispute(e)
  PROVE  \E d \in DisputeIds : Commits(e, d, dispute[d], "PROCESSED")
<1>1. disputeTx[e].phase = "locked"
  BY DEF ignoreDispute
<1>2. PICK d \in DisputeIds : d = inbox[e].dispute
  BY <1>1, LockedRow
<1>3. /\ disputeTx[e] # NoTx /\ inbox[e].processingStatus = "RECEIVED"
      /\ disputeTx[e].row = dispute[d]
      /\ dispute[d] \in DisputeRow /\ dispute[d] # NoDispute
  BY <1>1, <1>2, LockedRow
<1>4. LifecycleCheck(dispute[d])
  BY <1>3 DEF DisputesInv, RowsAreLegal
<1>5. dispute' = [dispute EXCEPT ![d] = dispute[d]]
  BY DEF ignoreDispute, DisputesInv, RowsTyped
<1>6. disputeLog' = [disputeLog EXCEPT ![d] = Append(@, [event |-> e, previousStatus |-> dispute[d].status,
                                                         newStatus |-> dispute[d].status])]
  <2>1. disputeLog' = [disputeLog EXCEPT ![d] = Logged(disputeLog[d], e, dispute[d].status, dispute[d].status)]
    BY <1>2, <1>3 DEF ignoreDispute
  <2> QED
    BY <1>3, <2>1, LoggedAppends DEF DisputesInv
<1>7. /\ inbox' = [inbox EXCEPT ![e].processingStatus = "PROCESSED"]
      /\ disputeTx' = [disputeTx EXCEPT ![e] = NoTx]
  BY DEF ignoreDispute, SettleInbox
<1> QED
  BY <1>1, <1>2, <1>3, <1>4, <1>5, <1>6, <1>7 DEF Commits

-----------------------------------------------------------------------------
(* What a commit keeps *)

\* A commit keeps the invariant: the row it overwrites is its own, because it
\* holds the lock or because nobody can hold what does not exist.
LEMMA CommitKeepsInv ==
  ASSUME DisputesInv, NEW e \in DisputeEvents, NEW d \in DisputeIds, NEW row, NEW st,
         Commits(e, d, row, st)
  PROVE  DisputesInv'
<1> DEFINE prev == IF dispute[d] = NoDispute THEN "NULL" ELSE dispute[d].status
           entry == [event |-> e, previousStatus |-> prev, newStatus |-> row.status]
<1>1. /\ disputeTx[e] # NoTx /\ d = inbox[e].dispute
      /\ dispute[d] # NoDispute => disputeTx[e].phase = "locked"
      /\ row \in DisputeRow /\ LifecycleCheck(row) /\ st \in {"PROCESSED", "REQUIRES_REVIEW"}
      /\ dispute' = [dispute EXCEPT ![d] = row]
      /\ disputeLog' = [disputeLog EXCEPT ![d] = Append(disputeLog[d], entry)]
      /\ inbox' = [inbox EXCEPT ![e].processingStatus = st]
      /\ disputeTx' = [disputeTx EXCEPT ![e] = NoTx]
  BY DEF Commits
<1>2. /\ RowsTyped /\ TxIsOfReceived /\ LockedIsCurrent /\ LockIsExclusive
      /\ RowsAreLegal /\ LogIsOfSettled
  BY DEF DisputesInv
<1>3. inbox[e] \in StoredEvent /\ inbox[e].processingStatus = "RECEIVED"
  BY <1>1, <1>2, TxShape
<1>4. /\ dispute[d] # NoDispute => dispute[d] \in DisputeRow
      /\ row # NoDispute /\ row.status \in RowStatus
  BY <1>1, <1>2, RowShape
<1>5. entry \in LogEntry
  <2>1. prev \in RowStatus \cup {"NULL"}
    BY <1>4, <1>2, RowShape
  <2> HIDE DEF prev
  <2> QED
    BY <2>1, <1>4 DEF LogEntry
<1>6. entry.event = e
  OBVIOUS
<1> HIDE DEF entry
<1>7. /\ inbox'[e] \in StoredEvent /\ inbox'[e].processingStatus = st /\ inbox'[e].dispute = d
      /\ \A f \in DisputeEvents : f # e => inbox'[f] = inbox[f]
      /\ inbox' \in [DisputeEvents -> StoredEvent \cup {NotReceived}]
  <2>1. inbox \in [DisputeEvents -> StoredEvent \cup {NotReceived}]
    BY <1>2 DEF RowsTyped
  <2>2. [inbox[e] EXCEPT !.processingStatus = st] \in StoredEvent
    BY <1>1, <1>3 DEF StoredEvent
  <2>3. /\ [inbox[e] EXCEPT !.processingStatus = st].processingStatus = st
        /\ [inbox[e] EXCEPT !.processingStatus = st].dispute = d
    BY <1>1, <1>3 DEF StoredEvent
  <2>4. inbox' = [inbox EXCEPT ![e] = [inbox[e] EXCEPT !.processingStatus = st]]
    BY <1>1
  <2> DEFINE new == [inbox[e] EXCEPT !.processingStatus = st]
  <2>5. new \in StoredEvent /\ new.processingStatus = st /\ new.dispute = d /\ inbox' = [inbox EXCEPT ![e] = new]
    BY <2>2, <2>3, <2>4
  <2> HIDE DEF new
  <2> QED
    BY <2>1, <2>5
<1>8. /\ dispute' \in [DisputeIds -> DisputeRow \cup {NoDispute}]
      /\ dispute'[d] = row /\ \A x \in DisputeIds : x # d => dispute'[x] = dispute[x]
  BY <1>1, <1>2 DEF RowsTyped
<1>9. /\ disputeTx' \in [DisputeEvents -> Reading \cup Holding \cup {NoTx}]
      /\ disputeTx'[e] = NoTx /\ \A f \in DisputeEvents : f # e => disputeTx'[f] = disputeTx[f]
  BY <1>1, <1>2 DEF RowsTyped
<1>10. /\ disputeLog' \in [DisputeIds -> Seq(LogEntry)]
       /\ disputeLog'[d] = Append(disputeLog[d], entry)
       /\ \A x \in DisputeIds : x # d => disputeLog'[x] = disputeLog[x]
  <2>1. disputeLog \in [DisputeIds -> Seq(LogEntry)]
    BY <1>2 DEF RowsTyped
  <2> QED
    BY <1>1, <1>5, <2>1
<1>11. RowsTyped'
  BY <1>7, <1>8, <1>9, <1>10 DEF RowsTyped, NotReceived, NoTx, NoDispute, StoredEvent, DisputeRow, Reading,
     Holding, LogEntry, RowStatus, ReportedStatus, OpenStatuses
<1>12. TxIsOfReceived'
  BY <1>2, <1>7, <1>9 DEF TxIsOfReceived, NoTx
<1>13. NoTx.phase # "locked"
  BY DEF NoTx
<1>14. ASSUME NEW f \in DisputeEvents, disputeTx'[f].phase = "locked"
       PROVE  /\ f # e /\ disputeTx'[f] = disputeTx[f] /\ inbox'[f] = inbox[f]
              /\ inbox[f].dispute \in DisputeIds /\ inbox[f].dispute # d
  <2>1. f # e /\ disputeTx'[f] = disputeTx[f] /\ inbox'[f] = inbox[f]
    BY <1>7, <1>9, <1>13, <1>14
  <2>2. /\ disputeTx[f].phase = "locked" /\ inbox[f].dispute \in DisputeIds
        /\ dispute[inbox[f].dispute] # NoDispute
    BY <2>1, <1>14, LockedRow
  <2>3. ASSUME inbox[f].dispute = d
        PROVE  FALSE
    <3>1. disputeTx[e].phase = "locked"
      BY <1>1, <2>2, <2>3
    <3> QED
      BY <1>1, <1>2, <2>1, <2>2, <2>3, <3>1 DEF LockIsExclusive
  <2> QED
    BY <2>1, <2>2, <2>3
<1>15. LockedIsCurrent'
  BY <1>2, <1>8, <1>14 DEF LockedIsCurrent, NoDispute
<1>16. LockIsExclusive'
  BY <1>2, <1>14 DEF LockIsExclusive
<1>17. RowsAreLegal'
  <2>1. ASSUME NEW x \in DisputeIds, dispute'[x] # NoDispute
        PROVE  LifecycleCheck(dispute'[x])
    BY <1>1, <1>2, <1>8, <2>1 DEF RowsAreLegal
  <2> QED
    BY <2>1 DEF RowsAreLegal, NoDispute, LifecycleCheck
<1>18. LogIsOfSettled'
  <2> DEFINE Settled(x) == x.processingStatus \in {"PROCESSED", "REQUIRES_REVIEW"}
  <2>1. ASSUME NEW x \in DisputeIds, NEW i \in 1..Len(disputeLog[x])
        PROVE  Settled(inbox'[disputeLog[x][i].event])
    <3>1. Settled(inbox[disputeLog[x][i].event])
      BY <1>2 DEF LogIsOfSettled
    <3>2. disputeLog[x][i].event \in DisputeEvents
      <4>1. disputeLog[x] \in Seq(LogEntry)
        BY <1>2 DEF RowsTyped
      <4>2. disputeLog[x][i] \in LogEntry
        BY <4>1
      <4> QED
        BY <4>2 DEF LogEntry
    <3> QED
      BY <3>1, <3>2, <1>3, <1>7
  <2>2. Settled(inbox'[e])
    BY <1>1, <1>7
  <2>3. ASSUME NEW x \in DisputeIds, NEW i \in 1..Len(disputeLog'[x])
        PROVE  Settled(inbox'[disputeLog'[x][i].event])
    <3>1. CASE x # d
      BY <1>10, <2>1, <2>3, <3>1
    <3>2. CASE x = d
      <4>1. disputeLog[d] \in Seq(LogEntry)
        BY <1>2 DEF RowsTyped
      <4>2. i \in 1..(Len(disputeLog[d]) + 1)
        BY <1>10, <2>3, <3>2, <4>1
      <4>3. CASE i = Len(disputeLog[d]) + 1
        <5>1. disputeLog'[d][i] = entry
          BY <1>10, <4>1, <4>3
        <5> QED
          BY <5>1, <3>2, <2>2, <1>6
      <4>4. CASE i \in 1..Len(disputeLog[d])
        <5>1. disputeLog'[d][i] = disputeLog[d][i]
          BY <1>10, <4>1, <4>4
        <5> QED
          BY <5>1, <3>2, <2>1, <4>4
      <4> QED
        BY <4>1, <4>2, <4>3, <4>4
    <3> QED
      BY <3>1, <3>2
  <2>4. ASSUME NEW x \in DisputeIds, dispute'[x] = NoDispute
        PROVE  disputeLog'[x] = <<>>
    BY <1>2, <1>4, <1>8, <1>10, <2>4 DEF LogIsOfSettled
  <2> QED
    BY <2>3, <2>4 DEF LogIsOfSettled, NoDispute
<1> QED
  BY <1>11, <1>12, <1>15, <1>16, <1>17, <1>18 DEF DisputesInv

\* A commit links its entry to the last one of the chain.
LEMMA CommitKeepsChain ==
  ASSUME DisputesInv, HistoryIsAChain, NEW e \in DisputeEvents, NEW d \in DisputeIds, NEW row, NEW st,
         Commits(e, d, row, st)
  PROVE  HistoryIsAChain'
<1> DEFINE prev == IF dispute[d] = NoDispute THEN "NULL" ELSE dispute[d].status
           entry == [event |-> e, previousStatus |-> prev, newStatus |-> row.status]
           Chain(log, status) ==
             /\ Len(log) > 0 /\ log[1].previousStatus = "NULL"
             /\ \A i \in 2..Len(log) : log[i].previousStatus = log[i - 1].newStatus
             /\ log[Len(log)].newStatus = status
<1>1. /\ dispute' = [dispute EXCEPT ![d] = row]
      /\ disputeLog' = [disputeLog EXCEPT ![d] = Append(disputeLog[d], entry)]
  BY DEF Commits
<1>2. /\ dispute'[d] = row /\ disputeLog'[d] = Append(disputeLog[d], entry)
      /\ \A x \in DisputeIds : x # d => dispute'[x] = dispute[x] /\ disputeLog'[x] = disputeLog[x]
  BY <1>1 DEF DisputesInv, RowsTyped
<1>3. disputeLog[d] \in Seq(LogEntry) /\ entry.previousStatus = prev /\ entry.newStatus = row.status
  BY DEF DisputesInv, RowsTyped
<1>4. ASSUME NEW x \in DisputeIds, dispute[x] # NoDispute
      PROVE  Chain(disputeLog[x], dispute[x].status)
  BY <1>4 DEF HistoryIsAChain
<1>5. Chain(disputeLog'[d], row.status)
  <2>1. CASE dispute[d] = NoDispute
    <3>1. disputeLog[d] = <<>>
      BY <2>1 DEF DisputesInv, LogIsOfSettled
    <3>2. disputeLog'[d] = <<entry>> /\ entry.previousStatus = "NULL"
      BY <1>2, <1>3, <2>1, <3>1
    <3> HIDE DEF entry
    <3>3. Len(<<entry>>) = 1 /\ <<entry>>[1] = entry
      OBVIOUS
    <3> QED
      BY <3>2, <3>3, <1>3
  <2>2. CASE dispute[d] # NoDispute
    <3>1. Chain(disputeLog[d], dispute[d].status) /\ entry.previousStatus = dispute[d].status
      BY <1>3, <1>4, <2>2
    <3> HIDE DEF entry
    <3>2. PICK log \in Seq(LogEntry) : log = disputeLog[d]
      BY <1>3
    <3>3. /\ Len(Append(log, entry)) = Len(log) + 1
          /\ \A i \in 1..Len(log) : Append(log, entry)[i] = log[i]
          /\ Append(log, entry)[Len(log) + 1] = entry
      BY <3>2
    <3>4. PICK new : new = Append(log, entry)
      OBVIOUS
    <3>5. /\ disputeLog'[d] = new /\ Len(new) = Len(log) + 1 /\ new[Len(log) + 1] = entry
          /\ \A i \in 1..Len(log) : new[i] = log[i]
      BY <1>2, <3>2, <3>3, <3>4
    <3>6. Len(log) \in Nat /\ Len(log) > 0 /\ new[1].previousStatus = "NULL"
      BY <3>1, <3>2, <3>5
    <3>7. ASSUME NEW i \in 2..Len(new)
          PROVE  new[i].previousStatus = new[i - 1].newStatus
      <4>1. CASE i = Len(log) + 1
        BY <1>3, <3>1, <3>2, <3>5, <3>6, <4>1
      <4>2. CASE i \in 2..Len(log)
        <5>1. i \in 1..Len(log) /\ i - 1 \in 1..Len(log)
          BY <4>2, <3>6
        <5> QED
          BY <3>1, <3>2, <3>5, <4>2, <5>1
      <4> QED
        BY <3>5, <3>6, <4>1, <4>2
    <3>8. Len(new) > 0
      BY <3>5, <3>6
    <3>9. new[Len(new)].newStatus = row.status
      BY <1>3, <3>5
    <3>10. Chain(new, row.status)
      BY <3>6, <3>7, <3>8, <3>9, Zenon
    <3> QED
      BY <3>5, <3>10, Zenon
  <2> QED
    BY <2>1, <2>2
<1>6. ASSUME NEW x \in DisputeIds, dispute'[x] # NoDispute
      PROVE  Chain(disputeLog'[x], dispute'[x].status)
  <2>1. CASE x = d
    BY <1>2, <1>5, <2>1
  <2>2. CASE x # d
    BY <1>2, <1>4, <1>6, <2>2
  <2> QED
    BY <2>1, <2>2
<1> QED
  BY <1>6 DEF HistoryIsAChain, NoDispute

-----------------------------------------------------------------------------
(* Chargebacks *)

\* A commit over a dispute without an outcome records a chargeback exactly
\* when what it writes is LOST, and touches no other dispute's.
LEMMA ConsequencesCharge ==
  ASSUME ChargebackOnce, DisputesInv, NEW e \in DisputeEvents, NEW d \in DisputeIds,
         NEW row \in DisputeRow, NEW otherwise, ~Lost(d),
         row.outcome = "LOST" <=> row.status = "LOST",
         dispute' = [dispute EXCEPT ![d] = row], Consequences(e, d, row, otherwise)
  PROVE  ChargebackOnce'
<1> DEFINE new == [type |-> "CHARGEBACK_RECORDED", cause |-> e, dispute |-> d, amount |-> row.amount]
           first == [type |-> LedgerType(row.status), cause |-> e, dispute |-> d, amount |-> row.amount]
<1>1. /\ dispute'[d] = row /\ \A x \in DisputeIds : x # d => dispute'[x] = dispute[x]
  BY DEF DisputesInv, RowsTyped
<1>2. row # NoDispute
  BY RowShape DEF DisputesInv
<1>3. /\ Lost(d)' <=> row.status = "LOST"
      /\ \A x \in DisputeIds : x # d => (Lost(x)' <=> Lost(x))
  BY <1>1, <1>2 DEF Lost, NoDispute
<1>4. disputeLedger' = disputeLedger \cup {first} \cup (IF row.status = "LOST" THEN {new} ELSE {})
  BY DEF Consequences, DisputeEntries
<1>5. first.type # "CHARGEBACK_RECORDED"
  BY DEF LedgerType
<1>6. new.type = "CHARGEBACK_RECORDED" /\ new.dispute = d /\ new.amount = row.amount
  OBVIOUS
<1> HIDE DEF new, first
<1>7. ChargebacksOf(d) = {}
  BY DEF ChargebackOnce
<1>8. row.status = "LOST" => ChargebacksOf(d)' = {new} /\ new \in disputeLedger'
  BY <1>4, <1>5, <1>6, <1>7 DEF ChargebacksOf
<1>9. row.status # "LOST" => ChargebacksOf(d)' = {}
  BY <1>4, <1>5, <1>7 DEF ChargebacksOf
<1>10. ASSUME NEW x \in DisputeIds, x # d
       PROVE  ChargebacksOf(x)' = ChargebacksOf(x)
  BY <1>4, <1>5, <1>6, <1>10 DEF ChargebacksOf
<1>11. ASSUME NEW x \in DisputeIds
       PROVE  <<"chargeback", x>> \in disputeOutbox' <=>
                <<"chargeback", x>> \in disputeOutbox \/ (x = d /\ row.status = "LOST")
  <2>1. disputeOutbox' = disputeOutbox \cup FinancialKeys(e, d, row.status, disputeTx[e].refunded, row.amount)
    BY DEF Consequences
  <2>2. <<LedgerType(row.status), d, e>> # <<"chargeback", x>>
    BY DEF LedgerType
  <2>3. <<"refund-dispute-overlap", d>> # <<"chargeback", x>>
    OBVIOUS
  <2>4. <<"chargeback", d>> = <<"chargeback", x>> <=> x = d
    OBVIOUS
  <2> QED
    BY <2>1, <2>2, <2>3, <2>4, Zenon DEF FinancialKeys
<1>12. ASSUME NEW x \in DisputeIds
       PROVE  /\ Lost(x)' => \E y \in disputeLedger' : ChargebacksOf(x)' = {y} /\ y.amount = dispute'[x].amount
              /\ ~Lost(x)' => ChargebacksOf(x)' = {}
              /\ <<"chargeback", x>> \in disputeOutbox' <=> Lost(x)'
  <2>1. CASE x = d
    <3>1. <<"chargeback", d>> \notin disputeOutbox
      BY DEF ChargebackOnce
    <3> QED
      BY <2>1, <3>1, <1>1, <1>3, <1>6, <1>8, <1>9, <1>11
  <2>2. CASE x # d
    <3>1. /\ Lost(x) => \E y \in disputeLedger : ChargebacksOf(x) = {y} /\ y.amount = dispute[x].amount
          /\ ~Lost(x) => ChargebacksOf(x) = {}
          /\ <<"chargeback", x>> \in disputeOutbox <=> Lost(x)
      BY DEF ChargebackOnce
    <3>2. disputeLedger \subseteq disputeLedger'
      BY <1>4
    <3> QED
      BY <2>2, <3>1, <3>2, <1>1, <1>3, <1>10, <1>11
  <2> QED
    BY <2>1, <2>2
<1> QED
  BY <1>12 DEF ChargebackOnce

\* A step that leaves the ledger, the outcomes and amounts alone, and announces
\* no chargeback, keeps the chargebacks.
LEMMA SameChargebacks ==
  ASSUME ChargebackOnce, disputeLedger' = disputeLedger,
         \A d \in DisputeIds : Lost(d)' <=> Lost(d),
         \A d \in DisputeIds : Lost(d) => dispute'[d].amount = dispute[d].amount,
         \A d \in DisputeIds : <<"chargeback", d>> \in disputeOutbox' <=> <<"chargeback", d>> \in disputeOutbox
  PROVE  ChargebackOnce'
<1>1. \A d \in DisputeIds : ChargebacksOf(d)' = ChargebacksOf(d)
  BY DEF ChargebacksOf
<1> QED
  BY <1>1 DEF ChargebackOnce

\* Each of the four commits keeps all three.
LEMMA CommitsAreSafe ==
  ASSUME DisputesSafe, NEW e \in DisputeEvents,
         openDispute(e) \/ advanceDispute(e) \/ reviewDispute(e) \/ ignoreDispute(e)
  PROVE  DisputesSafe'
<1>1. DisputesInv /\ ChargebackOnce /\ HistoryIsAChain
  BY DEF DisputesSafe
<1>2. ASSUME NEW d \in DisputeIds, NEW row, NEW st, Commits(e, d, row, st), ChargebackOnce'
      PROVE  DisputesSafe'
  BY <1>1, <1>2, CommitKeepsInv, CommitKeepsChain DEF DisputesSafe
<1>3. CASE openDispute(e)
  <2> DEFINE row == OpenedRow(e, disputeTx[e].booking)
  <2>1. PICK d \in DisputeIds : /\ Commits(e, d, row, "PROCESSED") /\ dispute[d] = NoDispute
                                /\ Consequences(e, d, row, "DISPUTE_REVIEW")
    BY <1>1, <1>3, OpenCommits
  <2>2. row.outcome = "LOST" <=> row.status = "LOST"
    BY DEF OpenedRow, outcomeForTerminalStatus
  <2>3. ~Lost(d) /\ row \in DisputeRow /\ dispute' = [dispute EXCEPT ![d] = row]
    BY <2>1 DEF Lost, Commits
  <2> HIDE DEF row
  <2>4. ChargebackOnce'
    BY <1>1, <2>1, <2>2, <2>3, ConsequencesCharge
  <2> QED
    BY <1>2, <2>1, <2>4
<1>4. CASE advanceDispute(e)
  <2>1. PICK d \in DisputeIds : /\ Commits(e, d, AdvancedRow(dispute[d], inbox[e].status), "PROCESSED")
                                /\ dispute[d] \in DisputeRow /\ dispute[d].outcome = "NULL"
                                /\ Consequences(e, d, AdvancedRow(dispute[d], inbox[e].status), orderReview)
    BY <1>1, <1>4, AdvanceCommits
  <2> DEFINE row == AdvancedRow(dispute[d], inbox[e].status)
  <2>2. row.outcome = "LOST" <=> row.status = "LOST"
    <3>1. inbox[e].status \in ReportedStatus
      BY <1>1, <2>1, TxShape DEF Commits, DisputesInv
    <3> QED
      BY <2>1, <3>1, AdvancedFields DEF outcomeForTerminalStatus
  <2>3. ~Lost(d) /\ row \in DisputeRow /\ dispute' = [dispute EXCEPT ![d] = row]
    BY <2>1 DEF Lost, Commits
  <2>4. Commits(e, d, row, "PROCESSED") /\ Consequences(e, d, row, orderReview)
    BY <2>1
  <2> HIDE DEF row
  <2>5. ChargebackOnce'
    BY <1>1, <2>2, <2>3, <2>4, ConsequencesCharge
  <2> QED
    BY <1>2, <2>4, <2>5
<1>5. CASE reviewDispute(e)
  <2>1. PICK d \in DisputeIds : /\ Commits(e, d, ReviewedRow(dispute[d]), "REQUIRES_REVIEW")
                                /\ dispute[d] \in DisputeRow /\ dispute[d] # NoDispute
                                /\ disputeOutbox' = disputeOutbox \cup {<<"dispute-review", d>>}
    BY <1>1, <1>5, ReviewCommits
  <2>2. /\ ReviewedRow(dispute[d]).outcome = dispute[d].outcome
        /\ ReviewedRow(dispute[d]).amount = dispute[d].amount
        /\ ReviewedRow(dispute[d]) # NoDispute
    <3>1. ReviewedRow(dispute[d]) \in DisputeRow
      BY <2>1 DEF Commits
    <3> QED
      BY <1>1, <2>1, <3>1, RowShape DEF ReviewedRow, DisputeRow, DisputesInv
  <2>3. /\ dispute'[d] = ReviewedRow(dispute[d])
        /\ \A x \in DisputeIds : x # d => dispute'[x] = dispute[x]
    BY <1>1, <2>1 DEF Commits, DisputesInv, RowsTyped
  <2>4. \A x \in DisputeIds : /\ Lost(x)' <=> Lost(x)
                              /\ Lost(x) => dispute'[x].amount = dispute[x].amount
    BY <2>1, <2>2, <2>3 DEF Lost, NoDispute
  <2>5. \A x \in DisputeIds : <<"chargeback", x>> \in disputeOutbox' <=> <<"chargeback", x>> \in disputeOutbox
    BY <2>1
  <2>6. disputeLedger' = disputeLedger
    BY <1>5 DEF reviewDispute
  <2>7. ChargebackOnce'
    BY <1>1, <2>4, <2>5, <2>6, SameChargebacks
  <2> QED
    BY <1>2, <2>1, <2>7
<1>6. CASE ignoreDispute(e)
  <2>1. PICK d \in DisputeIds : Commits(e, d, dispute[d], "PROCESSED")
    BY <1>1, <1>6, IgnoreCommits
  <2>2. dispute' = dispute /\ disputeLedger' = disputeLedger /\ disputeOutbox' = disputeOutbox
    BY <1>6 DEF ignoreDispute
  <2>3. \A x \in DisputeIds : Lost(x)' <=> Lost(x)
    BY <2>2 DEF Lost, NoDispute
  <2>4. ChargebackOnce'
    BY <1>1, <2>2, <2>3, SameChargebacks
  <2> QED
    BY <1>2, <2>1, <2>4
<1> QED
  BY <1>3, <1>4, <1>5, <1>6

-----------------------------------------------------------------------------
(* The steps that do not commit *)

\* A step that keeps disputes, histories, ledger and announced chargebacks is
\* safe when it keeps the shapes, the transactions' events and the locks.
LEMMA NothingWritten ==
  ASSUME DisputesSafe, dispute' = dispute, disputeLog' = disputeLog, disputeLedger' = disputeLedger,
         \A d \in DisputeIds : <<"chargeback", d>> \in disputeOutbox' <=> <<"chargeback", d>> \in disputeOutbox,
         RowsTyped', TxIsOfReceived', LockedIsCurrent', LockIsExclusive', LogIsOfSettled'
  PROVE  DisputesSafe'
<1>1. RowsAreLegal' /\ HistoryIsAChain'
  BY DEF DisputesSafe, DisputesInv, RowsAreLegal, HistoryIsAChain, NoDispute, LifecycleCheck
<1>2. ChargebackOnce'
  <2>1. \A d \in DisputeIds : Lost(d)' <=> Lost(d)
    BY DEF Lost, NoDispute
  <2> QED
    BY <2>1, SameChargebacks DEF DisputesSafe
<1> QED
  BY <1>1, <1>2 DEF DisputesSafe, DisputesInv

\* A stored event is in no transaction and no history.
LEMMA StoreIsSafe ==
  ASSUME DisputesSafe, NEW e \in DisputeEvents, NEW d \in DisputeIds, NEW st \in ReportedStatus,
         NEW a \in 1..(CapturedAmount + 1), StoreDisputeEvent(e, d, st, a)
  PROVE  DisputesSafe'
<1> DEFINE new == [processingStatus |-> "RECEIVED", dispute |-> d, status |-> st, amount |-> a]
<1>1. /\ RowsTyped /\ TxIsOfReceived /\ LockedIsCurrent /\ LockIsExclusive /\ LogIsOfSettled
  BY DEF DisputesSafe, DisputesInv
<1>2. /\ inbox[e] = NotReceived /\ inbox' = [inbox EXCEPT ![e] = new]
      /\ UNCHANGED <<dispute, disputeLog, disputeLedger, disputeOutbox, disputeTx>>
  BY DEF StoreDisputeEvent, Received, disputeRows
<1>3. new \in StoredEvent
  BY DEF StoredEvent
<1>4. inbox[e].processingStatus = "NONE"
  BY <1>2 DEF NotReceived
<1>5. disputeTx[e] = NoTx
  BY <1>1, <1>4 DEF TxIsOfReceived
<1> HIDE DEF new
<1>6. inbox' \in [DisputeEvents -> StoredEvent \cup {NotReceived}] /\ \A f \in DisputeEvents : f # e => inbox'[f] = inbox[f]
  BY <1>1, <1>2, <1>3 DEF RowsTyped
<1>7. RowsTyped'
  BY <1>1, <1>2, <1>6 DEF RowsTyped, NotReceived, NoTx, NoDispute, StoredEvent, DisputeRow, Reading,
     Holding, LogEntry, RowStatus, ReportedStatus, OpenStatuses
<1>8. TxIsOfReceived'
  BY <1>1, <1>2, <1>5, <1>6 DEF TxIsOfReceived, NoTx
<1>9. LockedIsCurrent' /\ LockIsExclusive'
  <2>1. \A f \in DisputeEvents : disputeTx'[f].phase = "locked" => f # e /\ inbox'[f] = inbox[f] /\ disputeTx'[f] = disputeTx[f]
    BY <1>2, <1>5, <1>6 DEF NoTx
  <2> QED
    BY <1>1, <1>2, <2>1 DEF LockedIsCurrent, LockIsExclusive, NoDispute
<1>10. LogIsOfSettled'
  <2>1. ASSUME NEW x \in DisputeIds, NEW i \in 1..Len(disputeLog[x])
        PROVE  disputeLog[x][i].event \in DisputeEvents /\ disputeLog[x][i].event # e
    <3>1. disputeLog[x] \in Seq(LogEntry)
      BY <1>1 DEF RowsTyped
    <3>2. disputeLog[x][i] \in LogEntry
      BY <3>1
    <3>3. disputeLog[x][i].event \in DisputeEvents
      BY <3>2 DEF LogEntry
    <3> QED
      BY <1>1, <1>4, <3>3 DEF LogIsOfSettled
  <2> QED
    BY <1>1, <1>2, <1>6, <2>1 DEF LogIsOfSettled, NoDispute
<1> QED
  BY <1>2, <1>7, <1>8, <1>9, <1>10, NothingWritten

\* Reading, locking and aborting change the transaction of one event only.
LEMMA TxIsSafe ==
  ASSUME DisputesSafe, NEW e \in DisputeEvents,
         ReadDisputedPayment(e) \/ LockDispute(e) \/ AbortDispute(e),
         refundedTotal \in 0..CapturedAmount, bookingMade \in BOOLEAN
  PROVE  DisputesSafe'
<1> DEFINE d == inbox[e].dispute
           read == [phase |-> "read", refunded |-> refundedTotal, booking |-> bookingMade]
           opening == [phase |-> "opening", row |-> NoDispute,
                       refunded |-> disputeTx[e].refunded, booking |-> disputeTx[e].booking]
           locked == [phase |-> "locked", row |-> dispute[d],
                      refunded |-> disputeTx[e].refunded, booking |-> disputeTx[e].booking]
<1>1. /\ DisputesInv /\ RowsTyped /\ TxIsOfReceived /\ LockedIsCurrent /\ LockIsExclusive /\ LogIsOfSettled
  BY DEF DisputesSafe, DisputesInv
<1>2. UNCHANGED <<inbox, dispute, disputeLog, disputeLedger, disputeOutbox>>
  BY DEF ReadDisputedPayment, LockDispute, AbortDispute, disputeRows
\* What the new transaction is.
<1>3. \E tx : /\ disputeTx' = [disputeTx EXCEPT ![e] = tx]
              /\ tx \in Reading \cup Holding \cup {NoTx}
              /\ tx # NoTx => inbox[e].processingStatus = "RECEIVED"
              /\ tx.phase = "locked" => /\ tx.row = dispute[d] /\ dispute[d] # NoDispute
                                        /\ DisputeUnlocked(d)
  <2>1. CASE ReadDisputedPayment(e)
    <3>1. read \in Reading
      BY DEF Reading
    <3>2. disputeTx' = [disputeTx EXCEPT ![e] = read] /\ inbox[e].processingStatus = "RECEIVED" /\ read.phase = "read"
      BY <2>1 DEF ReadDisputedPayment
    <3> HIDE DEF read
    <3> QED
      BY <3>1, <3>2
  <2>2. CASE AbortDispute(e)
    <3>1. disputeTx' = [disputeTx EXCEPT ![e] = NoTx] /\ NoTx.phase = "idle"
      BY <2>2 DEF AbortDispute, NoTx
    <3> QED
      BY <3>1
  <2>3. CASE LockDispute(e)
    <3>1. disputeTx[e].phase = "read"
      BY <2>3 DEF LockDispute
    <3>2. /\ disputeTx[e] \in Reading /\ d \in DisputeIds /\ inbox[e].processingStatus = "RECEIVED"
      BY <1>1, <3>1, PhaseIsTx, TxShape
    <3>3. disputeTx[e].refunded \in 0..CapturedAmount /\ disputeTx[e].booking \in BOOLEAN
      BY <3>2 DEF Reading
    <3>4. CASE dispute[d] = NoDispute
      <4>1. opening \in Holding /\ opening.phase = "opening"
        BY <3>3 DEF Holding
      <4>2. disputeTx' = [disputeTx EXCEPT ![e] = opening]
        BY <2>3, <3>4 DEF LockDispute
      <4> HIDE DEF opening
      <4> QED
        BY <3>2, <4>1, <4>2
    <3>5. CASE dispute[d] # NoDispute
      <4>1. dispute[d] \in DisputeRow
        BY <1>1, <3>2, <3>5, RowShape
      <4>2. locked \in Holding /\ locked.phase = "locked" /\ locked.row = dispute[d]
        BY <3>3, <4>1 DEF Holding
      <4>3. disputeTx' = [disputeTx EXCEPT ![e] = locked] /\ DisputeUnlocked(d)
        BY <2>3, <3>5 DEF LockDispute
      <4> HIDE DEF locked
      <4> QED
        BY <3>2, <3>5, <4>2, <4>3
    <3> QED
      BY <3>4, <3>5
  <2> QED
    BY <2>1, <2>2, <2>3
<1>4. PICK tx : /\ disputeTx' = [disputeTx EXCEPT ![e] = tx]
                /\ tx \in Reading \cup Holding \cup {NoTx}
                /\ tx # NoTx => inbox[e].processingStatus = "RECEIVED"
                /\ tx.phase = "locked" => /\ tx.row = dispute[d] /\ dispute[d] # NoDispute
                                          /\ DisputeUnlocked(d)
  BY <1>3
<1>5. /\ disputeTx' \in [DisputeEvents -> Reading \cup Holding \cup {NoTx}]
      /\ disputeTx'[e] = tx /\ \A f \in DisputeEvents : f # e => disputeTx'[f] = disputeTx[f]
  BY <1>1, <1>4 DEF RowsTyped
<1>6. RowsTyped'
  BY <1>1, <1>2, <1>5 DEF RowsTyped, NotReceived, NoTx, NoDispute, StoredEvent, DisputeRow, Reading,
     Holding, LogEntry, RowStatus, ReportedStatus, OpenStatuses
<1>7. TxIsOfReceived'
  BY <1>1, <1>2, <1>4, <1>5 DEF TxIsOfReceived, NoTx
<1>8. LockedIsCurrent'
  BY <1>1, <1>2, <1>4, <1>5 DEF LockedIsCurrent, NoDispute
<1>9. LockIsExclusive'
  BY <1>1, <1>2, <1>4, <1>5 DEF LockIsExclusive, DisputeUnlocked
<1>10. LogIsOfSettled'
  BY <1>1, <1>2 DEF LogIsOfSettled, NoDispute
<1> QED
  BY <1>2, <1>6, <1>7, <1>8, <1>9, <1>10, NothingWritten

\* Fulfilment, issuance, entry, refunds and the reconciliation job write none
\* of the rows; the job's announcement is not a chargeback.
LEMMA OthersAreSafe ==
  ASSUME DisputesSafe, UNCHANGED <<inbox, disputeTx, dispute, disputeLog, disputeLedger>>,
         disputeOutbox' \in {disputeOutbox, disputeOutbox \cup {<<"divergence", "REFUND_DISPUTE_OVERLAP">>}}
  PROVE  DisputesSafe'
<1>1. \A d \in DisputeIds : <<"chargeback", d>> # <<"divergence", "REFUND_DISPUTE_OVERLAP">>
  OBVIOUS
<1>2. \A d \in DisputeIds : <<"chargeback", d>> \in disputeOutbox' <=> <<"chargeback", d>> \in disputeOutbox
  BY <1>1, Zenon
<1>3. RowsTyped'
  BY DEF DisputesSafe, DisputesInv, RowsTyped, NotReceived, NoTx, NoDispute, StoredEvent, DisputeRow, Reading,
     Holding, LogEntry, RowStatus, ReportedStatus, OpenStatuses
<1>4. TxIsOfReceived' /\ LockedIsCurrent' /\ LockIsExclusive'
  BY DEF DisputesSafe, DisputesInv, TxIsOfReceived, LockedIsCurrent, LockIsExclusive, NoTx, NoDispute
<1>5. LogIsOfSettled'
  BY DEF DisputesSafe, DisputesInv, LogIsOfSettled, NoDispute
<1> QED
  BY <1>2, <1>3, <1>4, <1>5, NothingWritten

\* Every step keeps the types of the order, the payment and the tickets.
LEMMA OrderTypedStep ==
  ASSUME OrderTyped, [DisputesNext]_disputeVars
  PROVE  OrderTyped'
<1> USE DEF OrderTyped
<1>1. ASSUME NEW e, NEW d, NEW row, NEW otherwise \in ReviewStates, Consequences(e, d, row, otherwise),
             UNCHANGED <<bookingMade, refundedTotal>>
      PROVE  OrderTyped'
  <2>1. orderReview' \in ReviewStates
    BY <1>1 DEF Consequences, ReviewAfter, ReviewStates
  <2>2. admission' \in [TicketIds -> {"NONE", "ACTIVE", "USED", "REVOKED"}]
    BY <1>1 DEF Consequences, decideDisputeTicketConsequence
  <2> QED
    BY <1>1, <2>1, <2>2 DEF ReviewStates
<1>2. CASE UNCHANGED <<orderReview, bookingMade, refundedTotal, admission>>
  BY <1>2 DEF ReviewStates
<1>3. ASSUME NEW e \in DisputeEvents, openDispute(e)
      PROVE  OrderTyped'
  <2>1. "DISPUTE_REVIEW" \in ReviewStates
    BY DEF ReviewStates
  <2>2. Consequences(e, inbox[e].dispute, OpenedRow(e, disputeTx[e].booking), "DISPUTE_REVIEW")
    BY <1>3 DEF openDispute
  <2>3. UNCHANGED <<bookingMade, refundedTotal>>
    BY <1>3 DEF openDispute, SettleInbox
  <2> QED
    BY <1>1, <2>1, <2>2, <2>3
<1>4. ASSUME NEW e \in DisputeEvents, advanceDispute(e)
      PROVE  OrderTyped'
  <2>1. Consequences(e, inbox[e].dispute, AdvancedRow(disputeTx[e].row, inbox[e].status), orderReview)
    BY <1>4 DEF advanceDispute
  <2>2. UNCHANGED <<bookingMade, refundedTotal>>
    BY <1>4 DEF advanceDispute, SettleInbox
  <2> QED
    BY <1>1, <2>1, <2>2
<1>5. ASSUME NEW e \in DisputeEvents, reviewDispute(e)
      PROVE  OrderTyped'
  BY <1>5 DEF reviewDispute, SettleInbox, ReviewStates
<1>6. ASSUME NEW e \in DisputeEvents, ignoreDispute(e)
      PROVE  OrderTyped'
  BY <1>6 DEF ignoreDispute, SettleInbox, ReviewStates
<1>7. ASSUME NEW e \in DisputeEvents, ReadDisputedPayment(e) \/ LockDispute(e) \/ AbortDispute(e)
      PROVE  OrderTyped'
  BY <1>2, <1>7 DEF ReadDisputedPayment, LockDispute, AbortDispute, disputeRows
<1>8. ASSUME NEW a \in 1..CapturedAmount, SettleOtherRefund(a)
      PROVE  OrderTyped'
  <2>1. refundedTotal' \in 0..CapturedAmount
    BY <1>8, DisputeConstants DEF SettleOtherRefund
  <2> QED
    BY <1>8, <2>1 DEF SettleOtherRefund, disputeRows, ReviewStates
<1>9. ASSUME FulfilDisputedOrder
      PROVE  OrderTyped'
  BY <1>9 DEF FulfilDisputedOrder, disputeRows, ReviewStates
<1>10. ASSUME NEW t \in TicketIds, IssueDisputedTicket(t) \/ ScanDisputedTicket(t)
       PROVE  OrderTyped'
  BY <1>10 DEF IssueDisputedTicket, ScanDisputedTicket, disputeRows, ReviewStates
<1>11. ASSUME ReviewOtherRefund \/ raiseDivergence
       PROVE  OrderTyped'
  BY <1>11 DEF ReviewOtherRefund, raiseDivergence, ReviewStates
<1>12. ASSUME NEW e, NEW d, NEW st, NEW a, StoreDisputeEvent(e, d, st, a)
       PROVE  OrderTyped'
  BY <1>2, <1>12 DEF StoreDisputeEvent, disputeRows
<1>13. CASE UNCHANGED disputeVars
  BY <1>2, <1>13 DEF disputeVars
<1>14. CASE DisputesNext
  BY <1>3, <1>4, <1>5, <1>6, <1>7, <1>8, <1>9, <1>10, <1>11, <1>12, <1>14 DEF DisputesNext, ProcessDispute
<1> QED
  BY <1>13, <1>14

\* Every step is safe.
LEMMA DisputesStep ==
  ASSUME DisputesSafe, OrderTyped, [DisputesNext]_disputeVars
  PROVE  DisputesSafe'
<1>1. ASSUME NEW e \in DisputeEvents, NEW d \in DisputeIds, NEW st \in ReportedStatus,
             NEW a \in 1..(CapturedAmount + 1), StoreDisputeEvent(e, d, st, a)
      PROVE  DisputesSafe'
  BY <1>1, StoreIsSafe
<1>2. ASSUME NEW e \in DisputeEvents, ProcessDispute(e) \/ AbortDispute(e)
      PROVE  DisputesSafe'
  <2>1. refundedTotal \in 0..CapturedAmount /\ bookingMade \in BOOLEAN
    BY DEF OrderTyped
  <2>2. CASE ReadDisputedPayment(e) \/ LockDispute(e) \/ AbortDispute(e)
    BY <2>1, <2>2, TxIsSafe
  <2>3. CASE openDispute(e) \/ advanceDispute(e) \/ reviewDispute(e) \/ ignoreDispute(e)
    BY <2>3, CommitsAreSafe
  <2> QED
    BY <1>2, <2>2, <2>3 DEF ProcessDispute
<1>3. ASSUME FulfilDisputedOrder \/ ReviewOtherRefund \/ raiseDivergence
      PROVE  DisputesSafe'
  BY <1>3, OthersAreSafe DEF FulfilDisputedOrder, ReviewOtherRefund, raiseDivergence, disputeRows
<1>4. ASSUME NEW t \in TicketIds, IssueDisputedTicket(t) \/ ScanDisputedTicket(t)
      PROVE  DisputesSafe'
  BY <1>4, OthersAreSafe DEF IssueDisputedTicket, ScanDisputedTicket, disputeRows
<1>5. ASSUME NEW a \in 1..CapturedAmount, SettleOtherRefund(a)
      PROVE  DisputesSafe'
  BY <1>5, OthersAreSafe DEF SettleOtherRefund, disputeRows
<1>6. CASE UNCHANGED disputeVars
  BY <1>6, OthersAreSafe DEF disputeVars
<1>7. CASE DisputesNext
  BY <1>1, <1>2, <1>3, <1>4, <1>5, <1>7 DEF DisputesNext
<1> QED
  BY <1>6, <1>7

\* Nothing has happened at first.
LEMMA DisputesStart ==
  ASSUME DisputesInit
  PROVE  DisputesSafe /\ OrderTyped
<1> USE DEF DisputesInit
<1>1. RowsTyped
  BY DEF RowsTyped
<1>2. TxIsOfReceived /\ LockedIsCurrent /\ LockIsExclusive
  BY DEF TxIsOfReceived, LockedIsCurrent, LockIsExclusive, NoTx
<1>3. RowsAreLegal /\ LogIsOfSettled
  BY DEF RowsAreLegal, LogIsOfSettled
<1>4. ChargebackOnce /\ HistoryIsAChain
  BY DEF ChargebackOnce, ChargebacksOf, Lost, HistoryIsAChain
<1>5. orderReview \in ReviewStates /\ refundedTotal \in 0..CapturedAmount
  BY DisputeConstants DEF ReviewStates
<1>6. admission \in [TicketIds -> {"NONE", "ACTIVE", "USED", "REVOKED"}]
  BY DEF DisputesInit
<1>7. bookingMade \in BOOLEAN
  BY Zenon
<1> QED
  BY <1>1, <1>2, <1>3, <1>4, <1>5, <1>6, <1>7 DEF DisputesSafe, DisputesInv, OrderTyped

-----------------------------------------------------------------------------
(* The theorems *)

\* Rows, totals and tickets stay in their types, a settled dispute has the
\* outcome its status names, and no disputed amount exceeds the captured one.
THEOREM DisputeTypes == DisputesSpec => []DisputesTypeOK
<1>1. DisputesInit => DisputesSafe /\ OrderTyped
  BY DisputesStart
<1>2. DisputesSafe /\ OrderTyped /\ [DisputesNext]_disputeVars => (DisputesSafe /\ OrderTyped)'
  BY DisputesStep, OrderTypedStep
<1>3. DisputesSafe /\ OrderTyped => DisputesTypeOK
  <2> SUFFICES ASSUME DisputesSafe, OrderTyped
               PROVE  DisputesTypeOK
    OBVIOUS
  <2>1. RowsTyped /\ RowsAreLegal
    BY DEF DisputesSafe, DisputesInv
  <2>2. \A e \in DisputeEvents :
          inbox[e].processingStatus \in {"NONE", "RECEIVED", "PROCESSED", "REQUIRES_REVIEW"}
    BY <2>1 DEF RowsTyped, StoredEvent, NotReceived
  <2>3. \A d \in DisputeIds : dispute[d].status \in ReportedStatus \cup {"NONE", "REQUIRES_REVIEW"}
    BY <2>1 DEF RowsTyped, DisputeRow, NoDispute, RowStatus
  <2>4. ASSUME NEW d \in DisputeIds, dispute[d] # NoDispute
        PROVE  /\ dispute[d].outcome \in {"NULL", "WON", "LOST"} /\ dispute[d].amount \in 1..CapturedAmount
               /\ dispute[d].status \in {"WON", "LOST"} => dispute[d].outcome = dispute[d].status
    <3>1. dispute[d] \in DisputeRow /\ LifecycleCheck(dispute[d])
      BY <2>1, <2>4, RowShape DEF RowsAreLegal
    <3>2. dispute[d].outcome \in {"NULL", "WON", "LOST"} /\ dispute[d].amount \in 1..CapturedAmount
      BY <3>1 DEF DisputeRow
    <3>3. dispute[d].status \in {"WON", "LOST"} => dispute[d].outcome = dispute[d].status
      BY <3>1 DEF LifecycleCheck, OpenStatuses
    <3> QED
      BY <3>2, <3>3
  <2> QED
    BY <2>2, <2>3, <2>4 DEF DisputesTypeOK, OrderTyped
<1> QED
  BY <1>1, <1>2, <1>3, PTL DEF DisputesSpec

\* A dispute is charged back once, for its own amount, and announced, exactly
\* when the first outcome committed for it is LOST, whatever the order in which
\* the deliveries of its events read, lock, abort and commit.
THEOREM ChargedBackOnce == DisputesSpec => []ChargebackIsTheOutcome
<1>1. DisputesInit => DisputesSafe /\ OrderTyped
  BY DisputesStart
<1>2. DisputesSafe /\ OrderTyped /\ [DisputesNext]_disputeVars => (DisputesSafe /\ OrderTyped)'
  BY DisputesStep, OrderTypedStep
<1>3. DisputesSafe => ChargebackIsTheOutcome
  <2> SUFFICES ASSUME DisputesSafe, NEW d \in DisputeIds
               PROVE  /\ Cardinality(ChargebacksOf(d)) = (IF Lost(d) THEN 1 ELSE 0)
                      /\ <<"chargeback", d>> \in disputeOutbox <=> Lost(d)
                      /\ Lost(d) => \A x \in ChargebacksOf(d) : x.amount = dispute[d].amount
    BY Zenon DEF ChargebackIsTheOutcome, ChargebacksOf, Lost
  <2>1. /\ Lost(d) => \E x \in disputeLedger : ChargebacksOf(d) = {x} /\ x.amount = dispute[d].amount
        /\ ~Lost(d) => ChargebacksOf(d) = {}
        /\ <<"chargeback", d>> \in disputeOutbox <=> Lost(d)
    BY DEF DisputesSafe, ChargebackOnce
  <2>2. CASE Lost(d)
    <3>1. PICK x \in disputeLedger : ChargebacksOf(d) = {x} /\ x.amount = dispute[d].amount
      BY <2>1, <2>2
    <3>2. Cardinality({x}) = 1
      BY FS_Singleton
    <3> QED
      BY <2>1, <2>2, <3>1, <3>2
  <2>3. CASE ~Lost(d)
    BY <2>1, <2>3, FS_EmptySet
  <2> QED
    BY <2>2, <2>3
<1> QED
  BY <1>1, <1>2, <1>3, PTL DEF DisputesSpec

\* However many deliveries process the events of a dispute at once, its history
\* is one chain from its opening to the status it has.
THEOREM HistoryIsOneChain == DisputesSpec => []HistoryIsAChain
<1>1. DisputesInit => DisputesSafe /\ OrderTyped
  BY DisputesStart
<1>2. DisputesSafe /\ OrderTyped /\ [DisputesNext]_disputeVars => (DisputesSafe /\ OrderTyped)'
  BY DisputesStep, OrderTypedStep
<1>3. DisputesSafe => HistoryIsAChain
  BY DEF DisputesSafe
<1> QED
  BY <1>1, <1>2, <1>3, PTL DEF DisputesSpec
=============================================================================
