---------------------------- MODULE DeliveryProofs ----------------------------
(***************************************************************************)
(* Theorems about what the running system hands out and counts: job        *)
(* messages (Operations), events on the stream (Realtime), the budget of   *)
(* the rate limiter (RateLimit), mails and download links (Notifications). *)
(* They hold for any number of processes, requests, rows and windows.      *)
(***************************************************************************)
EXTENDS Operations, Realtime, RateLimit, Notifications, FiniteSetTheorems, WellFoundedInduction, TLAPS

-----------------------------------------------------------------------------
(* Operations.  Neither the answer 200 nor a completed receipt says why it *)
(* was given, so the invariant says it of both.                            *)

Running == [phase : {"ran", "recorded"}, status : JobStatuses]
JobsTyped ==
  /\ jobRun = [d \in Deliveries |-> jobRun[d]]
  /\ \A d \in Deliveries : jobRun[d].phase \in {"ran", "recorded"} => jobRun[d] \in Running
  /\ receipt \in [completed : BOOLEAN, attemptCount : Nat]
  /\ message \in [status : {"scheduled", "accepted", "abandoned"}, tries : 0..MaxTries]

\* Some delivery could not insert its receipt, or a run is over for good.
AccountedFor == displaced \/ ended \cap {"completed", "permanent"} # {}

JobsInv ==
  /\ JobsTyped
  /\ \A d \in Deliveries : jobRun[d].phase \in {"ran", "recorded"} => jobRun[d].status \in ended
  /\ \A d \in Deliveries : jobRun[d].phase = "answered" /\ jobRun[d].code = 200 => AccountedFor
  /\ receipt.completed => AccountedFor
  /\ AcceptedIsAccountedFor

\* Nothing else than the endpoint and its scheduler touches the message's state.
LEMMA JobsUntouched ==
  JobsInv /\ UNCHANGED jobVars => JobsInv'
  BY DEF JobsInv, JobsTyped, jobVars, AccountedFor, AcceptedIsAccountedFor, Running, JobStatuses

\* A request arrives; nothing is known of it yet.
LEMMA JobsDeliver ==
  ASSUME JobsInv, NEW d \in Deliveries, Deliver(d) PROVE JobsInv'
<1> USE OperationsConstants DEF JobsInv, Deliver
<1>1. JobsTyped'
  BY DEF JobsTyped, Running, JobStatuses
<1>2. ended' = ended /\ displaced' = displaced /\ receipt' = receipt /\ message'.status = message.status
  BY DEF JobsTyped
<1>3. \A c \in Deliveries : jobRun'[c] = IF c = d THEN [phase |-> "arrived"] ELSE jobRun[c]
  BY DEF JobsTyped
<1>4. QED
  BY <1>1, <1>2, <1>3 DEF AccountedFor, AcceptedIsAccountedFor

\* The four steps that only move a request on, and one that records nothing.
LEMMA JobsMove ==
  ASSUME JobsInv, NEW d \in Deliveries,
         RejectDelivery(d) \/ FindReceipt(d) \/ KillRun(d) \/ FinishRun(d)
  PROVE  JobsInv'
<1> USE OperationsConstants DEF JobsInv
<1>1. UNCHANGED <<message, receipt, ended, displaced>>
  BY DEF RejectDelivery, FindReceipt, KillRun, FinishRun
<1>2. PICK r : r = jobRun'[d]
  OBVIOUS
<1>3. /\ jobRun' = [c \in Deliveries |-> IF c = d THEN r ELSE jobRun[c]]
      /\ r.phase \notin {"ran", "recorded"}
      /\ r.phase = "answered" /\ r.code = 200 => AccountedFor
  <2>1. CASE RejectDelivery(d)
    BY <1>2, <2>1 DEF RejectDelivery, JobsTyped, Answered
  <2>2. CASE FindReceipt(d) /\ receipt.completed
    BY <1>2, <2>2 DEF FindReceipt, JobsTyped, Answered
  <2>3. CASE FindReceipt(d) /\ ~receipt.completed
    BY <1>2, <2>3 DEF FindReceipt, JobsTyped
  <2>4. CASE KillRun(d)
    BY <1>2, <2>4 DEF KillRun, NoRun, JobsTyped
  <2>5. CASE FinishRun(d)
    <3>1. jobRun[d].phase = "recorded" /\ jobRun[d] \in Running /\ jobRun[d].status \in ended
      BY <2>5 DEF FinishRun, JobsTyped
    <3>2. r = Answered(jobOutcomeHttpStatus(jobRun[d].status))
      BY <1>2, <2>5 DEF FinishRun, JobsTyped
    <3>3. r.code = 200 => AccountedFor
      BY <3>1, <3>2 DEF jobOutcomeHttpStatus, AccountedFor, Running, JobStatuses, Answered
    <3>4. r.phase = "answered" /\ jobRun' = [c \in Deliveries |-> IF c = d THEN r ELSE jobRun[c]]
      BY <1>2, <2>5, <3>2 DEF FinishRun, JobsTyped, Answered
    <3>5. QED
      BY <3>3, <3>4
  <2>6. QED
    BY <2>1, <2>2, <2>3, <2>4, <2>5
<1>4. JobsTyped'
  BY <1>1, <1>3 DEF JobsTyped, Running, JobStatuses
<1>5. QED
  BY <1>1, <1>3, <1>4 DEF AccountedFor, AcceptedIsAccountedFor

\* The claim, by update or by insert.
LEMMA JobsClaim ==
  ASSUME JobsInv, NEW d \in Deliveries, NEW b \in BOOLEAN, ClaimAgain(d) \/ ClaimFirst(d, b)
  PROVE  JobsInv'
<1> USE OperationsConstants DEF JobsInv
<1>1. UNCHANGED <<message, ended>> /\ (displaced => displaced')
  <2>1. UNCHANGED <<message, ended>>
    BY DEF ClaimAgain, ClaimFirst
  <2>2. (displaced' = displaced) \/ (displaced' = (displaced \/ ~b))
    BY DEF ClaimAgain, ClaimFirst
  <2>3. displaced => displaced'
    BY <2>2, Zenon
  <2>4. QED
    BY <2>1, <2>3, Zenon
<1>2. PICK r : r = jobRun'[d]
  OBVIOUS
<1>3. /\ jobRun' = [c \in Deliveries |-> IF c = d THEN r ELSE jobRun[c]]
      /\ r.phase \notin {"ran", "recorded"}
      /\ r.phase = "answered" /\ r.code = 200 => displaced'
  <2>1. CASE ClaimAgain(d)
    BY <1>2, <2>1 DEF ClaimAgain, JobsTyped, Answered
  <2>2. CASE ClaimFirst(d, b) /\ b
    BY <1>2, <2>2 DEF ClaimFirst, JobsTyped
  <2>3. CASE ClaimFirst(d, b) /\ ~b
    BY <1>2, <2>3 DEF ClaimFirst, JobsTyped, Answered
  <2>4. QED
    BY <2>1, <2>2, <2>3
<1>4. receipt' \in [completed : BOOLEAN, attemptCount : Nat] /\ (receipt'.completed => receipt.completed)
  <2>1. CASE ClaimAgain(d)
    BY <2>1 DEF ClaimAgain, JobsTyped
  <2>2. CASE ClaimFirst(d, b)
    BY <2>2 DEF ClaimFirst, JobsTyped
  <2>3. QED
    BY <2>1, <2>2
<1>5. JobsTyped'
  BY <1>1, <1>3, <1>4 DEF JobsTyped, Running, JobStatuses
<1>6. QED
  BY <1>1, <1>3, <1>4, <1>5 DEF AccountedFor, AcceptedIsAccountedFor

\* The run itself: it ends one way or the other, and that is remembered.
LEMMA JobsRun ==
  ASSUME JobsInv, NEW d \in Deliveries, NEW status \in JobStatuses, RunJob(d, status)
  PROVE  JobsInv'
<1> USE OperationsConstants DEF JobsInv
<1>1. UNCHANGED <<message, receipt, displaced>> /\ ended' = ended \cup {status}
  BY DEF RunJob
<1>2. jobRun' = [c \in Deliveries |-> IF c = d THEN [phase |-> "ran", status |-> status] ELSE jobRun[c]]
  BY DEF RunJob, JobsTyped
<1>3. JobsTyped'
  BY <1>1, <1>2 DEF JobsTyped, Running, JobStatuses
<1>4. AccountedFor => AccountedFor'
  BY <1>1 DEF AccountedFor
<1>5. QED
  BY <1>1, <1>2, <1>3, <1>4 DEF AccountedFor, AcceptedIsAccountedFor

\* The outcome is written, or it is not; only a final one completes the receipt.
LEMMA JobsRecord ==
  ASSUME JobsInv, NEW d \in Deliveries, NEW b \in BOOLEAN, recordJobDeliveryOutcome(d, b)
  PROVE  JobsInv'
<1> USE OperationsConstants DEF JobsInv
<1>1. UNCHANGED <<message, ended, displaced>>
  BY DEF recordJobDeliveryOutcome
<1>2. jobRun[d] \in Running /\ jobRun[d].status \in ended
  BY DEF recordJobDeliveryOutcome, JobsTyped
<1>3. PICK r : r = [phase |-> "recorded", status |-> jobRun[d].status]
  OBVIOUS
<1>4. jobRun' = [c \in Deliveries |-> IF c = d THEN r ELSE jobRun[c]]
  <2>1. [jobRun[d] EXCEPT !.phase = "recorded"] = r
    BY <1>2, <1>3 DEF Running
  <2>2. jobRun' = [jobRun EXCEPT ![d] = [jobRun[d] EXCEPT !.phase = "recorded"]]
    BY DEF recordJobDeliveryOutcome, JobsTyped
  <2>3. QED
    BY <2>1, <2>2 DEF JobsTyped
<1>5. r \in Running /\ r.phase = "recorded" /\ r.status = jobRun[d].status
  BY <1>2, <1>3 DEF Running
<1>6. receipt' \in [completed : BOOLEAN, attemptCount : Nat]
  BY DEF recordJobDeliveryOutcome, JobsTyped
<1>7. receipt'.completed => AccountedFor
  <2>1. CASE ~b
    BY <2>1 DEF recordJobDeliveryOutcome
  <2>2. CASE b
    <3>1. receipt'.completed => jobRun[d].status # "retryable"
      BY <2>2 DEF recordJobDeliveryOutcome, JobsTyped
    <3>2. QED
      BY <3>1, <1>2 DEF AccountedFor, Running, JobStatuses
  <2>3. QED
    BY <2>1, <2>2
<1>8. JobsTyped'
  BY <1>1, <1>4, <1>5, <1>6 DEF JobsTyped, Running, JobStatuses
<1>9. QED
  BY <1>1, <1>2, <1>4, <1>5, <1>7, <1>8 DEF AccountedFor, AcceptedIsAccountedFor

\* The scheduler's own steps, and the pruning of the receipt.
LEMMA JobsEnd ==
  ASSUME JobsInv, (\E d \in Deliveries : AnswerArrives(d)) \/ GiveUp \/ pruneJobDeliveryReceipts
  PROVE  JobsInv'
<1> USE OperationsConstants DEF JobsInv
<1>1. CASE \E d \in Deliveries : AnswerArrives(d)
  <2>0. PICK d \in Deliveries : AnswerArrives(d)
    BY <1>1
  <2>1. UNCHANGED <<receipt, ended, displaced>>
    BY <2>0 DEF AnswerArrives
  <2>2. jobRun' = [c \in Deliveries |-> IF c = d THEN NoRun ELSE jobRun[c]]
    BY <2>0 DEF AnswerArrives, JobsTyped
  <2>3. message' \in [status : {"scheduled", "accepted", "abandoned"}, tries : 0..MaxTries]
    BY <2>0 DEF AnswerArrives, JobsTyped
  <2>4. message'.status = "accepted" => AccountedFor
    <3>1. CASE jobRun[d].code = 200 /\ message.status = "scheduled"
      BY <2>0, <3>1 DEF AnswerArrives
    <3>2. CASE ~(jobRun[d].code = 200 /\ message.status = "scheduled")
      BY <2>0, <3>2 DEF AnswerArrives, AcceptedIsAccountedFor, AccountedFor
    <3>3. QED
      BY <3>1, <3>2
  <2>5. JobsTyped'
    BY <2>1, <2>2, <2>3 DEF JobsTyped, Running, JobStatuses, NoRun
  <2>6. QED
    BY <2>1, <2>2, <2>4, <2>5 DEF AccountedFor, AcceptedIsAccountedFor, NoRun
<1>2. CASE GiveUp
  <2>1. JobsTyped' /\ message'.status = "abandoned" /\ UNCHANGED <<receipt, jobRun, ended, displaced>>
    BY <1>2 DEF GiveUp, JobsTyped, Running, JobStatuses
  <2>2. QED
    BY <2>1 DEF AccountedFor, AcceptedIsAccountedFor
<1>3. CASE pruneJobDeliveryReceipts
  <2>1. JobsTyped' /\ ~receipt'.completed /\ UNCHANGED <<message, jobRun, ended, displaced>>
    BY <1>3 DEF pruneJobDeliveryReceipts, NoReceipt, JobsTyped, Running, JobStatuses
  <2>2. QED
    BY <2>1 DEF AccountedFor, AcceptedIsAccountedFor
<1>4. QED
  BY <1>1, <1>2, <1>3

\* The invariant holds of every behaviour.
LEMMA JobsInvariant == OperationsSpec => []JobsInv
<1>1. OperationsInit => JobsInv
  BY OperationsConstants
  DEF OperationsInit, JobsInv, JobsTyped, AcceptedIsAccountedFor, NoRun, NoReceipt, AccountedFor
<1>2. JobsInv /\ [OperationsNext]_operationsVars => JobsInv'
  <2> SUFFICES ASSUME JobsInv, [OperationsNext]_operationsVars PROVE JobsInv'
    OBVIOUS
  <2>1. ASSUME NEW d \in Deliveries, Deliver(d) \/ HandleDelivery(d) \/ KillRun(d) PROVE JobsInv'
    BY <2>1, JobsDeliver, JobsMove, JobsClaim, JobsRun, JobsRecord, JobsEnd DEF HandleDelivery
  <2>2. CASE GiveUp \/ pruneJobDeliveryReceipts
    BY <2>2, JobsEnd
  <2>3. ASSUME NEW i \in Residents, StartWorker(i) \/ BeatWorker(i) \/ StopWorker(i) \/ CrashWorker(i)
        PROVE  JobsInv'
    BY <2>3, JobsUntouched DEF StartWorker, BeatWorker, StopWorker, CrashWorker
  <2>4. ASSUME NEW i \in Instances, NEW status \in BeatStatuses, NEW lands \in BOOLEAN,
               recordWorkerHeartbeat(i, status, lands)
        PROVE  JobsInv'
    BY <2>4, JobsUntouched DEF recordWorkerHeartbeat
  <2>5. CASE TimePasses \/ \E p \in Probes : ProbeChanges(p)
    BY <2>5, JobsUntouched DEF TimePasses, ProbeChanges
  <2>6. CASE UNCHANGED operationsVars
    BY <2>6, JobsUntouched DEF operationsVars
  <2>7. QED
    BY <2>1, <2>2, <2>3, <2>4, <2>5, <2>6 DEF OperationsNext
<1>3. QED
  BY <1>1, <1>2, PTL DEF OperationsSpec

\* A message the scheduler counts as delivered has had a run that succeeded or
\* cannot succeed, unless a delivery failed to insert its receipt: for any number
\* of overlapping deliveries, retries, kills and prunings.
THEOREM NoWorkIsLost == OperationsSpec => []AcceptedIsAccountedFor
<1>1. JobsInv => AcceptedIsAccountedFor
  BY DEF JobsInv
<1>2. QED
  BY <1>1, JobsInvariant, PTL

-----------------------------------------------------------------------------
(* Realtime.  A row is marked by a transaction that may be undone after it *)
(* published, so the invariant follows the event from the script's answer  *)
(* to the row, and each of its entries back to the key that was forgotten. *)

InStream(e) == \E i \in 1..Len(stream) : stream[i] = e

RelayTyped ==
  /\ stream \in Seq(Changes) /\ changes \subseteq Changes /\ remembered \subseteq Changes
  /\ relayRow \in [Changes -> [status : {"NONE", "PENDING", "PROCESSED", "DEAD_LETTER"},
                               attemptCount : Nat, due : BOOLEAN]]
  /\ relayTx \in [Relays -> [todo : SUBSET Changes, ok : SUBSET Changes, failed : SUBSET Changes]]

\* Rows, batches and entries are of committed changes.
AllAreCommitted ==
  /\ \A e \in Changes : relayRow[e].status # "NONE" => e \in changes
  /\ \A w \in Relays : ClaimedBy(w) \subseteq changes
  /\ \A e \in Changes : InStream(e) => e \in changes
\* What was answered, marked or remembered was appended to the stream.
AllAreStreamed ==
  /\ \A w \in Relays : \A e \in relayTx[w].ok : InStream(e)
  /\ \A e \in Changes : relayRow[e].status = "PROCESSED" => InStream(e)
  /\ \A e \in remembered : InStream(e)
\* The key of an entry is there or was forgotten, of two equal entries it was.
OnlyForgottenTwice ==
  /\ \A e \in Changes : InStream(e) => e \in remembered \/ e \in forgotten
  /\ \A i, j \in 1..Len(stream) : stream[i] = stream[j] /\ i # j => stream[i] \in forgotten

RelayInv == RelayTyped /\ AllAreCommitted /\ AllAreStreamed /\ OnlyForgottenTwice

\* The invariant says all that the property counts.
LEMMA RelayInvSuffices == RelayInv => StreamTellsTheOutbox
<1> SUFFICES ASSUME RelayInv, NEW e \in Changes
             PROVE  LET T == {i \in 1..Len(stream) : stream[i] = e} IN
                    /\ relayRow[e].status = "PROCESSED" => Cardinality(T) >= 1
                    /\ Cardinality(T) >= 1 => e \in changes
                    /\ Cardinality(T) >= 2 => e \in forgotten
  BY DEF StreamTellsTheOutbox
<1>1. PICK T : T = {i \in 1..Len(stream) : stream[i] = e}
  OBVIOUS
<1>2. IsFiniteSet(1..Len(stream)) /\ T \subseteq 1..Len(stream)
  <2>1. Len(stream) \in Int
    BY DEF RelayInv, RelayTyped
  <2>2. QED
    BY <1>1, <2>1, FS_Interval
<1>3. IsFiniteSet(T) /\ Cardinality(T) \in Nat
  BY <1>2, FS_Subset, FS_CardinalityType
<1>4. InStream(e) => Cardinality(T) >= 1
  <2>1. InStream(e) => T # {}
    BY <1>1 DEF InStream
  <2>2. T # {} => Cardinality(T) # 0
    BY <1>3, FS_EmptySet
  <2>3. QED
    BY <2>1, <2>2, <1>3
<1>5. Cardinality(T) >= 1 => InStream(e)
  <2>1. T = {} => Cardinality(T) = 0
    BY FS_EmptySet
  <2>2. T # {} => InStream(e)
    BY <1>1 DEF InStream
  <2>3. QED
    BY <2>1, <2>2, <1>3
<1>6. Cardinality(T) >= 2 => e \in forgotten
  <2> SUFFICES ASSUME Cardinality(T) >= 2 PROVE e \in forgotten
    OBVIOUS
  <2>1. PICK i \in T : TRUE
    BY <1>3, FS_EmptySet
  <2>2. T # {i}
    <3>1. Cardinality({i}) = 1
      BY FS_Singleton
    <3>2. QED
      BY <1>3, <3>1
  <2>3. PICK j \in T : j # i
    BY <2>1, <2>2
  <2>4. QED
    BY <1>1, <2>1, <2>3 DEF RelayInv, OnlyForgottenTwice
<1>7. QED
  BY <1>1, <1>4, <1>5, <1>6 DEF RelayInv, AllAreCommitted, AllAreStreamed

\* Gateway and page read the stream and never write it.
LEMMA RelayUntouched ==
  RelayInv /\ UNCHANGED <<changes, relayVars>> => RelayInv'
  BY DEF RelayInv, RelayTyped, AllAreCommitted, AllAreStreamed, OnlyForgottenTwice, InStream,
         ClaimedBy, relayVars, Changes

\* A change commits with its row.
LEMMA RelayCommitChange ==
  ASSUME RelayInv, NEW e \in Changes, CommitChange(e) PROVE RelayInv'
<1> USE DEF RelayInv, CommitChange
<1>1. UNCHANGED <<relayTx, stream, remembered, forgotten>> /\ changes' = changes \cup {e}
  OBVIOUS
<1>2. \A f \in Changes : relayRow'[f].status = IF f = e THEN "PENDING" ELSE relayRow[f].status
  BY DEF RelayTyped
<1>3. RelayTyped'
  BY DEF RelayTyped, Changes
<1> HIDE DEF CommitChange
<1>4. AllAreCommitted'
  BY <1>1, <1>2 DEF AllAreCommitted, InStream, ClaimedBy, Changes
<1>5. AllAreStreamed' /\ OnlyForgottenTwice'
  BY <1>1, <1>2 DEF AllAreStreamed, OnlyForgottenTwice, InStream, Changes
<1>6. QED
  BY <1>3, <1>4, <1>5

\* A backoff elapses, or a key in Redis.
LEMMA RelayTimers ==
  ASSUME RelayInv, NEW e \in Changes, BackoffElapses(e) \/ ForgetKey(e) PROVE RelayInv'
<1> USE DEF RelayInv
<1>1. CASE BackoffElapses(e)
  <2>1. UNCHANGED <<changes, relayTx, stream, remembered, forgotten>>
    BY <1>1 DEF BackoffElapses
  <2>2. RelayTyped' /\ \A f \in Changes : relayRow'[f].status = relayRow[f].status
    BY <1>1 DEF BackoffElapses, RelayTyped, Changes
  <2>3. QED
    BY <2>1, <2>2 DEF AllAreCommitted, AllAreStreamed, OnlyForgottenTwice, InStream, ClaimedBy, Changes
<1>2. CASE ForgetKey(e)
  <2>1. /\ UNCHANGED <<changes, relayRow, relayTx, stream>>
        /\ remembered' = remembered \ {e} /\ forgotten' = forgotten \cup {e}
    BY <1>2 DEF ForgetKey
  <2>2. RelayTyped'
    BY <2>1 DEF RelayTyped, Changes
  <2>3. QED
    BY <2>1, <2>2 DEF AllAreCommitted, AllAreStreamed, OnlyForgottenTwice, InStream, ClaimedBy, Changes
<1>3. QED
  BY <1>1, <1>2

\* A batch is claimed, or given up.
LEMMA RelayClaim ==
  ASSUME RelayInv, NEW w \in Relays, ClaimBatch(w) \/ AbortBatch(w) PROVE RelayInv'
<1> USE DEF RelayInv
<1>1. UNCHANGED <<changes, relayRow, stream, remembered, forgotten>>
  BY DEF ClaimBatch, AbortBatch
<1>2. PICK t : t = relayTx'[w]
  OBVIOUS
<1>3. /\ relayTx' = [v \in Relays |-> IF v = w THEN t ELSE relayTx[v]]
      /\ t \in [todo : SUBSET Changes, ok : SUBSET Changes, failed : SUBSET Changes]
      /\ t.todo \subseteq changes /\ t.ok = {} /\ t.failed = {}
  <2>1. CASE ClaimBatch(w)
    <3>1. Oldest(DueRows) \subseteq changes /\ changes \subseteq Changes
      BY DEF Oldest, DueRows, RelayTyped, AllAreCommitted
    <3>2. relayTx' = [relayTx EXCEPT ![w].todo = Oldest(DueRows)] /\ relayTx[w] = NoRelay
      BY <2>1 DEF ClaimBatch
    <3>3. PICK X : X = Oldest(DueRows)
      OBVIOUS
    <3>4. [relayTx[w] EXCEPT !.todo = X] = [todo |-> X, ok |-> {}, failed |-> {}]
      BY <3>2 DEF NoRelay
    <3>5. relayTx' = [relayTx EXCEPT ![w] = [todo |-> X, ok |-> {}, failed |-> {}]]
      BY <3>2, <3>3, <3>4
    <3>6. QED
      BY <1>2, <3>1, <3>3, <3>5 DEF RelayTyped
  <2>2. CASE AbortBatch(w)
    BY <1>2, <2>2 DEF AbortBatch, NoRelay, RelayTyped
  <2>3. QED
    BY <2>1, <2>2
<1>4. RelayTyped'
  BY <1>1, <1>3 DEF RelayTyped, Changes
<1>5. QED
  BY <1>1, <1>3, <1>4 DEF AllAreCommitted, AllAreStreamed, OnlyForgottenTwice, InStream, ClaimedBy, Changes

\* One answer moves an event of the batch from what is to be done to what is done or failed.
LEMMA PublishMovesOn ==
  ASSUME RelayTyped, NEW w \in Relays, NEW e, NEW arrives \in BOOLEAN, NEW answered \in BOOLEAN,
         publish(w, e, arrives, answered), NEW t, t = relayTx[w],
         t \in [todo : SUBSET Changes, ok : SUBSET Changes, failed : SUBSET Changes],
         NEW u, u = [todo |-> t.todo \ {e}, ok |-> IF answered THEN t.ok \cup {e} ELSE t.ok,
                     failed |-> IF answered THEN t.failed ELSE t.failed \cup {e}]
  PROVE  relayTx' = [v \in Relays |-> IF v = w THEN u ELSE relayTx[v]]
<1>1. relayTx' = [relayTx EXCEPT ![w].todo = @ \ {e},
                 ![w].ok = IF answered THEN @ \cup {e} ELSE @,
                 ![w].failed = IF answered THEN @ ELSE @ \cup {e}]
  BY DEF publish
<1>2. PICK K : K = IF answered THEN t.ok \cup {e} ELSE t.ok
  OBVIOUS
<1>3. PICK F : F = IF answered THEN t.failed ELSE t.failed \cup {e}
  OBVIOUS
<1>4. PICK D : D = t.todo \ {e}
  OBVIOUS
<1>5. relayTx' = [relayTx EXCEPT ![w] = [[[t EXCEPT !.todo = D] EXCEPT !.ok = K] EXCEPT !.failed = F]]
  BY <1>1, <1>2, <1>3, <1>4 DEF RelayTyped
<1>6. u = [todo |-> D, ok |-> K, failed |-> F]
  BY <1>2, <1>3, <1>4, Zenon
<1>7. [t EXCEPT !.todo = D] = [todo |-> D, ok |-> t.ok, failed |-> t.failed]
  OBVIOUS
<1>8. [[[t EXCEPT !.todo = D] EXCEPT !.ok = K] EXCEPT !.failed = F] = [todo |-> D, ok |-> K, failed |-> F]
  <2>1. [[todo |-> D, ok |-> t.ok, failed |-> t.failed] EXCEPT !.ok = K] = [todo |-> D, ok |-> K, failed |-> t.failed]
    OBVIOUS
  <2>2. [[todo |-> D, ok |-> K, failed |-> t.failed] EXCEPT !.failed = F] = [todo |-> D, ok |-> K, failed |-> F]
    OBVIOUS
  <2>3. QED
    BY <1>7, <2>1, <2>2, Zenon
<1>9. QED
  BY <1>5, <1>6, <1>8 DEF RelayTyped

\* An event reaches the stream, was there already, or does not get there.
LEMMA RelayPublish ==
  ASSUME RelayInv, NEW w \in Relays, NEW e \in relayTx[w].todo,
         NEW arrives \in BOOLEAN, NEW answered \in BOOLEAN, publish(w, e, arrives, answered)
  PROVE  RelayInv'
<1> USE DEF RelayInv
<1>1. UNCHANGED <<changes, relayRow, forgotten>>
  BY DEF publish
<1>2. PICK t : t = relayTx[w]
  OBVIOUS
<1>3. t \in [todo : SUBSET Changes, ok : SUBSET Changes, failed : SUBSET Changes]
      /\ e \in t.todo /\ e \in Changes /\ e \in changes
  BY <1>2 DEF RelayTyped, AllAreCommitted, ClaimedBy
<1>4. PICK u : u = [todo |-> t.todo \ {e}, ok |-> IF answered THEN t.ok \cup {e} ELSE t.ok,
                    failed |-> IF answered THEN t.failed ELSE t.failed \cup {e}]
  OBVIOUS
<1>5. relayTx' = [v \in Relays |-> IF v = w THEN u ELSE relayTx[v]]
  BY <1>2, <1>3, <1>4, PublishMovesOn
<1>6. /\ u \in [todo : SUBSET Changes, ok : SUBSET Changes, failed : SUBSET Changes]
      /\ u.todo \cup u.ok \cup u.failed \subseteq changes
      /\ u.ok \subseteq t.ok \cup {e} /\ (u.ok \subseteq t.ok \/ answered)
  BY <1>2, <1>3, <1>4 DEF AllAreCommitted, ClaimedBy
<1>7. RelayTyped' /\ AllAreCommitted' /\ AllAreStreamed' /\ OnlyForgottenTwice'
  <2>1. CASE arrives /\ e \notin remembered
    <3>1. stream' = Append(stream, e) /\ remembered' = remembered \cup {e}
      BY <2>1 DEF publish, IsNew
    <3>2. /\ stream' \in Seq(Changes) /\ Len(stream) \in Nat /\ Len(stream') = Len(stream) + 1
          /\ \A i \in 1..Len(stream) : stream'[i] = stream[i]
          /\ stream'[Len(stream) + 1] = e
      BY <3>1, <1>3 DEF RelayTyped
    <3>3. \A f : InStream(f)' <=> InStream(f) \/ f = e
      BY <3>2 DEF InStream
    <3>4. RelayTyped'
      BY <1>1, <1>3, <1>5, <1>6, <3>1, <3>2 DEF RelayTyped, Changes
    <3>5. AllAreCommitted'
      BY <1>1, <1>3, <1>5, <1>6, <3>3 DEF AllAreCommitted, ClaimedBy, Changes
    <3>6. AllAreStreamed'
      BY <1>1, <1>2, <1>5, <1>6, <3>1, <3>3 DEF AllAreStreamed, Changes
    <3>7. OnlyForgottenTwice'
      <4>1. InStream(e) => e \in forgotten
        BY <1>3, <2>1 DEF OnlyForgottenTwice
      <4>2. \A f \in Changes : InStream(f)' => f \in remembered' \/ f \in forgotten'
        BY <1>1, <3>1, <3>3 DEF OnlyForgottenTwice
      <4>3. ASSUME NEW i \in 1..Len(stream'), NEW j \in 1..Len(stream'), stream'[i] = stream'[j], i # j
            PROVE  stream'[i] \in forgotten'
        <5>1. CASE i \in 1..Len(stream) /\ j \in 1..Len(stream)
          BY <1>1, <3>2, <4>3, <5>1 DEF OnlyForgottenTwice
        <5>2. CASE ~(i \in 1..Len(stream) /\ j \in 1..Len(stream))
          <6>1. stream'[i] = e /\ InStream(e)
            BY <3>2, <4>3, <5>2 DEF InStream
          <6>2. QED
            BY <1>1, <4>1, <6>1
        <5>3. QED
          BY <5>1, <5>2
      <4>4. QED
        BY <4>2, <4>3 DEF OnlyForgottenTwice, Changes
    <3>8. QED
      BY <3>4, <3>5, <3>6, <3>7
  <2>2. CASE ~(arrives /\ e \notin remembered)
    <3>1. UNCHANGED <<stream, remembered>>
      BY <2>2 DEF publish, IsNew
    <3>2. answered => InStream(e)
      BY <2>2 DEF publish, AllAreStreamed
    <3>3. \A f : InStream(f)' <=> InStream(f)
      BY <3>1 DEF InStream
    <3>4. RelayTyped'
      BY <1>1, <1>5, <1>6, <3>1 DEF RelayTyped, Changes
    <3>5. AllAreCommitted'
      BY <1>1, <1>5, <1>6, <3>3 DEF AllAreCommitted, ClaimedBy, Changes
    <3>6. AllAreStreamed'
      BY <1>1, <1>2, <1>5, <1>6, <3>1, <3>2, <3>3 DEF AllAreStreamed, Changes
    <3>7. OnlyForgottenTwice'
      BY <1>1, <3>1, <3>3 DEF OnlyForgottenTwice, Changes
    <3>8. QED
      BY <3>4, <3>5, <3>6, <3>7
  <2>3. QED
    BY <2>1, <2>2
<1>8. QED
  BY <1>7

\* The rows of a batch are marked as the script answered.
LEMMA RelayCommitBatch ==
  ASSUME RelayInv, NEW w \in Relays, CommitBatch(w) PROVE RelayInv'
<1> USE DEF RelayInv
<1>1. UNCHANGED <<changes, stream, remembered, forgotten>>
  BY DEF CommitBatch
<1>2. relayTx' = [v \in Relays |-> IF v = w THEN NoRelay ELSE relayTx[v]]
  BY DEF CommitBatch, RelayTyped
<1>3. relayRow' = [e \in Changes |-> IF e \in ClaimedBy(w) THEN RowAfterBatch(w, e) ELSE relayRow[e]]
  BY DEF CommitBatch
<1>4. ASSUME NEW e \in Changes
      PROVE  /\ RowAfterBatch(w, e) \in [status : {"NONE", "PENDING", "PROCESSED", "DEAD_LETTER"},
                                         attemptCount : Nat, due : BOOLEAN]
             /\ RowAfterBatch(w, e).status = "PROCESSED" => e \in relayTx[w].ok
  <2>1. relayRow[e] \in [status : {"NONE", "PENDING", "PROCESSED", "DEAD_LETTER"},
                         attemptCount : Nat, due : BOOLEAN]
    BY DEF RelayTyped
  <2>2. CASE e \in relayTx[w].ok
    BY <2>1, <2>2 DEF RowAfterBatch
  <2>3. CASE e \notin relayTx[w].ok
    BY <2>1, <2>3 DEF RowAfterBatch
  <2>4. QED
    BY <2>2, <2>3
<1>5. RelayTyped'
  BY <1>1, <1>2, <1>3, <1>4 DEF RelayTyped, NoRelay, Changes
<1>6. AllAreCommitted'
  <2>1. \A e \in Changes : relayRow'[e].status # "NONE" => e \in changes
    BY <1>3 DEF AllAreCommitted
  <2>2. QED
    BY <1>1, <1>2, <2>1 DEF AllAreCommitted, InStream, ClaimedBy, NoRelay, Changes
<1>7. AllAreStreamed'
  <2>1. \A e \in Changes : relayRow'[e].status = "PROCESSED" => InStream(e)
    BY <1>3, <1>4 DEF AllAreStreamed
  <2>2. QED
    BY <1>1, <1>2, <2>1 DEF AllAreStreamed, InStream, NoRelay, Changes
<1>8. OnlyForgottenTwice'
  BY <1>1 DEF OnlyForgottenTwice, InStream, Changes
<1>9. QED
  BY <1>5, <1>6, <1>7, <1>8

\* The invariant holds of every behaviour.
LEMMA RelayInvariant == RealtimeSpec => []RelayInv
<1>1. RealtimeInit => RelayInv
  BY DEF RealtimeInit, RelayInv, RelayTyped, AllAreCommitted, AllAreStreamed, OnlyForgottenTwice,
         InStream, ClaimedBy, NoRow, NoRelay
<1>2. RelayInv /\ [RealtimeNext]_realtimeVars => RelayInv'
  <2> SUFFICES ASSUME RelayInv, [RealtimeNext]_realtimeVars PROVE RelayInv'
    OBVIOUS
  <2>1. CASE RelayNext
    BY <2>1, RelayCommitChange, RelayTimers, RelayClaim, RelayPublish, RelayCommitBatch
    DEF RelayNext, Dispatch
  <2>2. CASE GatewayNext
    BY <2>2, RelayUntouched
    DEF GatewayNext, RedisChanges, GatewayGoesLive, GatewayLosesRedis, GatewayReads, GatewayStops, GatewayStarts
  <2>3. CASE PageNext
    BY <2>3, RelayUntouched
    DEF PageNext, OnlyPage, SocketConnects, AttemptFails, AttemptDenied, SocketDisconnects, FallbackTimerFires,
        ReconnectAttempt, PageTick, Poll, Focus, PageHears, SnapshotRead, RefreshEnds
  <2>4. CASE UNCHANGED realtimeVars
    BY <2>4, RelayUntouched DEF realtimeVars
  <2>5. QED
    BY <2>1, <2>2, <2>3, <2>4 DEF RealtimeNext
<1>3. QED
  BY <1>1, <1>2, PTL DEF RealtimeSpec

\* A row counts as delivered only if its event was appended to the stream, an event there is
\* of a committed change, and it was appended twice only if its key expired between two
\* attempts: for any number of changes and dispatchers.
THEOREM DeliveredIsStreamed == RealtimeSpec => []StreamTellsTheOutbox
BY RelayInvariant, RelayInvSuffices, PTL

-----------------------------------------------------------------------------
(* The rate limiter.  A request that Redis has counted within the limit    *)
(* will be let through unless its answer is late, so it is counted as a    *)
(* holder of its window from the increment on.                             *)

Owners == {"shared"} \cup WebProcesses
CurrentOf(o) == IF o = "shared" THEN sharedWindow ELSE localWindow[o]
CountedWithin(r, o, n) ==
  call[r].phase = "counted" /\ call[r].window = <<o, n>> /\ call[r].count <= BudgetLimit
Holders(o, n) == {r \in LimitedCalls : <<<<o, n>>, r>> \in admitted \/ CountedWithin(r, o, n)}

LimiterTyped ==
  /\ sharedWindow \in Window /\ localWindow \in [WebProcesses -> Window]
  /\ failureMode \in {"fail_open", "fail_closed"}
  /\ call = [r \in LimitedCalls |-> call[r]]
  /\ \A r \in LimitedCalls :
       /\ call[r].phase = "counted" =>
            call[r] \in [phase : {"counted"}, process : WebProcesses, count : Nat, window : {"shared"} \X (1..MaxWindows)]
       /\ call[r].phase = "local" => call[r].process \in WebProcesses
  /\ admitted \subseteq ((Owners \X (1..MaxWindows)) \cup {Unattributed}) \X LimitedCalls

\* A policy that fails closed admits only what Redis has counted.
ClosedIsShared == failureMode = "fail_closed" => \A x \in admitted : x[1][1] = "shared"

\* A window has no more holders than the limit, the current one no more than its
\* count, and a future one none.
HoldersFit(o, n) ==
  /\ IsFiniteSet(Holders(o, n)) /\ Cardinality(Holders(o, n)) <= BudgetLimit
  /\ n = CurrentOf(o).number => Cardinality(Holders(o, n)) <= CurrentOf(o).count
  /\ n > CurrentOf(o).number => Holders(o, n) = {}

BudgetInv ==
  LimiterTyped /\ ClosedIsShared /\ \A o \in Owners, n \in 1..MaxWindows : HoldersFit(o, n)

\* Fewer elements, or one more.
LEMMA OneMoreAtMost ==
  ASSUME NEW S, NEW T, NEW r, IsFiniteSet(S), T \subseteq S \cup {r}
  PROVE  IsFiniteSet(T) /\ Cardinality(T) \in Nat /\ Cardinality(S) \in Nat
         /\ Cardinality(T) <= Cardinality(S) + 1
<1>1. /\ IsFiniteSet(S \cup {r})
      /\ Cardinality(S \cup {r}) = IF r \in S THEN Cardinality(S) ELSE Cardinality(S) + 1
  BY FS_AddElement
<1>2. IsFiniteSet(T) /\ Cardinality(T) <= Cardinality(S \cup {r})
  BY <1>1, FS_Subset
<1>3. Cardinality(S) \in Nat /\ Cardinality(T) \in Nat
  BY <1>2, FS_CardinalityType
<1>4. QED
  BY <1>1, <1>2, <1>3

\* A window that gains no holder and whose count stays as it is still fits.
LEMMA HoldersKept ==
  ASSUME NEW o \in Owners, NEW n \in 1..MaxWindows, HoldersFit(o, n), LimiterTyped,
         Holders(o, n)' \subseteq Holders(o, n), CurrentOf(o)' = CurrentOf(o)
  PROVE  HoldersFit(o, n)'
<1>1. IsFiniteSet(Holders(o, n)') /\ Cardinality(Holders(o, n)') <= Cardinality(Holders(o, n))
  BY FS_Subset DEF HoldersFit
<1>2. /\ Cardinality(Holders(o, n)) \in Nat /\ Cardinality(Holders(o, n)') \in Nat
      /\ CurrentOf(o).count \in Nat
  BY <1>1, FS_CardinalityType DEF HoldersFit, LimiterTyped, CurrentOf, Window, Owners
<1>3. CurrentOf(o)'.number = CurrentOf(o).number /\ CurrentOf(o)'.count = CurrentOf(o).count
  OBVIOUS
<1>4. Cardinality(Holders(o, n))' = Cardinality(Holders(o, n)')
  OBVIOUS
<1>5. QED
  BY <1>1, <1>2, <1>3, <1>4, RateLimitConstants DEF HoldersFit

\* What a step leaves alone, window by window.
LEMMA WindowsKept ==
  ASSUME BudgetInv, UNCHANGED <<sharedWindow, localWindow>>,
         \A o \in Owners, n \in 1..MaxWindows : Holders(o, n)' \subseteq Holders(o, n)
  PROVE  \A o \in Owners, n \in 1..MaxWindows : HoldersFit(o, n)'
  BY HoldersKept DEF BudgetInv, CurrentOf

\* Steps that let no request through and count none.
LEMMA BudgetQuiet ==
  ASSUME BudgetInv, UNCHANGED failureMode, NEW r \in LimitedCalls, NEW p \in WebProcesses,
         BackendFails(r, p) \/ SkipBackend(r, p)
  PROVE  BudgetInv'
<1> USE DEF BudgetInv
<1>1. UNCHANGED <<sharedWindow, localWindow, admitted>>
      /\ call' = [c \in LimitedCalls |-> IF c = r THEN [phase |-> "local", process |-> p] ELSE call[c]]
  BY DEF BackendFails, SkipBackend, LimiterTyped
<1>2. LimiterTyped'
  BY <1>1 DEF LimiterTyped, Window, Owners, Unattributed
<1>3. ClosedIsShared'
  BY <1>1 DEF ClosedIsShared
<1>4. \A o \in Owners, n \in 1..MaxWindows : Holders(o, n)' \subseteq Holders(o, n)
  BY <1>1 DEF Holders, CountedWithin
<1>5. QED
  BY <1>1, <1>2, <1>3, <1>4, WindowsKept DEF Owners

\* The failure mode lets a request through that belongs to no window.
LEMMA BudgetUnattributed ==
  ASSUME BudgetInv, UNCHANGED failureMode, NEW r \in LimitedCalls, AdmitUnattributed(r)
  PROVE  BudgetInv'
<1> USE DEF BudgetInv
<1>1. UNCHANGED <<sharedWindow, localWindow>>
      /\ call' = [c \in LimitedCalls |-> IF c = r THEN [phase |-> "decided"] ELSE call[c]]
  BY DEF AdmitUnattributed, Decide, LimiterTyped
<1>2. \/ admitted' = admitted
      \/ failureMode = "fail_open" /\ admitted' = admitted \cup {<<Unattributed, r>>}
  BY DEF AdmitUnattributed, Decide, decideRateLimit
<1>3. LimiterTyped'
  <2>1. admitted' \subseteq ((Owners \X (1..MaxWindows)) \cup {Unattributed}) \X LimitedCalls
    BY <1>2 DEF LimiterTyped
  <2>2. QED
    BY <1>1, <2>1 DEF LimiterTyped, Window, Owners, Unattributed
<1>4. ClosedIsShared'
  BY <1>2 DEF ClosedIsShared
<1>5. \A o \in Owners, n \in 1..MaxWindows : Holders(o, n)' \subseteq Holders(o, n)
  BY <1>1, <1>2 DEF Holders, CountedWithin, Unattributed
<1>6. QED
  BY <1>1, <1>3, <1>4, <1>5, WindowsKept DEF Owners

\* An answer within the limit finds its request among the holders already.
LEMMA BudgetArrives ==
  ASSUME BudgetInv, UNCHANGED failureMode, NEW r \in LimitedCalls, CountArrives(r)
  PROVE  BudgetInv'
<1> USE DEF BudgetInv
<1>1. UNCHANGED <<sharedWindow, localWindow>>
      /\ call' = [c \in LimitedCalls |-> IF c = r THEN [phase |-> "decided"] ELSE call[c]]
  BY DEF CountArrives, Decide, LimiterTyped
<1>2. PICK m \in 1..MaxWindows : call[r].window = <<"shared", m>>
  BY DEF CountArrives, LimiterTyped
<1>3. \/ admitted' = admitted
      \/ CountedWithin(r, "shared", m) /\ admitted' = admitted \cup {<<<<"shared", m>>, r>>}
  BY <1>2 DEF CountArrives, Decide, decideRateLimit, CountedWithin
<1>4. LimiterTyped'
  <2>1. admitted' \subseteq ((Owners \X (1..MaxWindows)) \cup {Unattributed}) \X LimitedCalls
    BY <1>3 DEF LimiterTyped, Owners
  <2>2. QED
    BY <1>1, <2>1 DEF LimiterTyped, Window, Owners, Unattributed
<1>5. ClosedIsShared'
  BY <1>3 DEF ClosedIsShared
<1>6. ASSUME NEW o \in Owners, NEW n \in 1..MaxWindows PROVE Holders(o, n)' \subseteq Holders(o, n)
  <2> SUFFICES ASSUME NEW c \in Holders(o, n)' PROVE c \in Holders(o, n)
    OBVIOUS
  <2>1. c \in LimitedCalls /\ (<<<<o, n>>, c>> \in admitted' \/ CountedWithin(c, o, n)')
    BY DEF Holders
  <2>2. CASE CountedWithin(c, o, n)'
    BY <1>1, <2>1, <2>2 DEF CountedWithin, Holders
  <2>3. CASE <<<<o, n>>, c>> \in admitted'
    BY <1>3, <2>1, <2>3 DEF Holders
  <2>4. QED
    BY <2>1, <2>2, <2>3
<1>7. QED
  BY <1>1, <1>4, <1>5, <1>6, WindowsKept DEF Owners

\* The increment makes one holder more, within the count and within the limit.
LEMMA BudgetIncrement ==
  ASSUME BudgetInv, UNCHANGED failureMode, NEW r \in LimitedCalls, NEW p \in WebProcesses, Increment(r, p)
  PROVE  BudgetInv'
<1> USE DEF BudgetInv
<1>1. PICK m : m = sharedWindow.number
  OBVIOUS
<1>2. PICK k : k = sharedWindow.count + 1
  OBVIOUS
<1>3. m \in 1..MaxWindows /\ k \in Nat /\ sharedWindow.count \in Nat
  BY <1>1, <1>2 DEF LimiterTyped, Window
<1>4. sharedWindow' = [number |-> m, count |-> k] /\ UNCHANGED <<localWindow, admitted>>
  BY <1>1, <1>2 DEF Increment, LimiterTyped, Window
<1>5. call' = [c \in LimitedCalls |->
                IF c = r THEN [phase |-> "counted", process |-> p, count |-> k, window |-> <<"shared", m>>] ELSE call[c]]
  <2>1. sharedWindow'.count = k
    BY <1>4
  <2>2. call' = [call EXCEPT ![r] = [phase |-> "counted", process |-> p, count |-> sharedWindow'.count,
                                  window |-> <<"shared", sharedWindow.number>>]]
    BY DEF Increment
  <2>3. QED
    BY <1>1, <2>1, <2>2 DEF LimiterTyped
<1>6. LimiterTyped'
  BY <1>3, <1>4, <1>5 DEF LimiterTyped, Window, Owners, Unattributed
<1>7. ClosedIsShared'
  BY <1>4 DEF ClosedIsShared
<1>8. ASSUME NEW o \in Owners, NEW n \in 1..MaxWindows PROVE HoldersFit(o, n)'
  <2>0. HoldersFit(o, n)
    OBVIOUS
  <2>1. CASE <<o, n>> # <<"shared", m>>
    <3>1. Holders(o, n)' \subseteq Holders(o, n)
      BY <1>4, <1>5, <2>1 DEF Holders, CountedWithin
    <3>2. CASE o # "shared"
      <4>1. CurrentOf(o)' = CurrentOf(o)
        BY <1>4, <3>2 DEF CurrentOf
      <4>2. QED
        BY <2>0, <3>1, <4>1, HoldersKept
    <3>3. CASE o = "shared"
      <4>1. n # m /\ CurrentOf(o).number = m /\ CurrentOf(o)'.number = m
        BY <1>1, <1>4, <2>1, <3>3 DEF CurrentOf
      <4>2. IsFiniteSet(Holders(o, n)') /\ Cardinality(Holders(o, n)') <= Cardinality(Holders(o, n))
        BY <2>0, <3>1, FS_Subset DEF HoldersFit
      <4>3. Cardinality(Holders(o, n)) \in Nat /\ Cardinality(Holders(o, n)') \in Nat
        BY <2>0, <4>2, FS_CardinalityType DEF HoldersFit
      <4>4. Cardinality(Holders(o, n)') <= BudgetLimit
        BY <2>0, <4>2, <4>3, RateLimitConstants DEF HoldersFit
      <4>5. n > m => Holders(o, n)' = {}
        BY <2>0, <3>1, <4>1 DEF HoldersFit
      <4>6. QED
        BY <4>1, <4>2, <4>4, <4>5 DEF HoldersFit
    <3>4. QED
      BY <3>2, <3>3
  <2>2. CASE <<o, n>> = <<"shared", m>>
    <3>0. o = "shared" /\ n = m
      BY <2>2
    <3>1. CurrentOf(o).number = m /\ CurrentOf(o)'.number = m /\ CurrentOf(o).count = k - 1 /\ CurrentOf(o)'.count = k
      BY <1>1, <1>2, <1>3, <1>4, <3>0 DEF CurrentOf
    <3>2. Holders(o, n)' \subseteq Holders(o, n) \cup {r}
      BY <1>4, <1>5 DEF Holders, CountedWithin
    <3>3. /\ IsFiniteSet(Holders(o, n)') /\ Cardinality(Holders(o, n)') \in Nat /\ Cardinality(Holders(o, n)) \in Nat
          /\ Cardinality(Holders(o, n)') <= Cardinality(Holders(o, n)) + 1
      BY <2>0, <3>2, OneMoreAtMost DEF HoldersFit
    <3>4. Cardinality(Holders(o, n)) <= k - 1 /\ Cardinality(Holders(o, n)) <= BudgetLimit
      BY <2>0, <3>0, <3>1 DEF HoldersFit
    <3>5. Cardinality(Holders(o, n)') <= BudgetLimit
      <4>1. CASE k <= BudgetLimit
        BY <1>3, <3>3, <3>4, <4>1, RateLimitConstants
      <4>2. CASE k > BudgetLimit
        <5>1. Holders(o, n)' \subseteq Holders(o, n)
          BY <1>3, <1>4, <1>5, <4>2, RateLimitConstants DEF Holders, CountedWithin
        <5>2. Cardinality(Holders(o, n)') <= Cardinality(Holders(o, n))
          BY <2>0, <5>1, FS_Subset DEF HoldersFit
        <5>3. QED
          BY <3>3, <3>4, <5>2, RateLimitConstants
      <4>3. QED
        BY <4>1, <4>2, <1>3, RateLimitConstants
    <3>6. Cardinality(Holders(o, n)') <= k
      BY <1>3, <3>3, <3>4
    <3>7. QED
      BY <1>3, <3>0, <3>1, <3>3, <3>5, <3>6 DEF HoldersFit
  <2>3. QED
    BY <2>1, <2>2
<1>9. QED
  BY <1>6, <1>7, <1>8 DEF Owners

\* The process's own count makes one holder more, while it is below the limit.
LEMMA BudgetLocal ==
  ASSUME BudgetInv, UNCHANGED failureMode, NEW r \in LimitedCalls, consumeRateLimit(r)
  PROVE  BudgetInv'
<1> USE DEF BudgetInv
<1>1. PICK p \in WebProcesses : p = call[r].process
  BY DEF consumeRateLimit, LimiterTyped
<1>2. PICK m : m = localWindow[p].number
  OBVIOUS
<1>3. PICK k : k = localWindow[p].count
  OBVIOUS
<1>4. m \in 1..MaxWindows /\ k \in Nat /\ p \in Owners /\ p # "shared"
  BY <1>2, <1>3, RateLimitConstants DEF LimiterTyped, Window, Owners
<1>5. UNCHANGED sharedWindow
      /\ call' = [c \in LimitedCalls |-> IF c = r THEN [phase |-> "decided"] ELSE call[c]]
  BY DEF consumeRateLimit, Decide, LimiterTyped
<1>6. \/ localWindow' = localWindow /\ admitted' = admitted
      \/ /\ k < BudgetLimit /\ localWindow' = [localWindow EXCEPT ![p] = [number |-> m, count |-> k + 1]]
         /\ \/ admitted' = admitted
            \/ failureMode = "fail_open" /\ admitted' = admitted \cup {<<<<p, m>>, r>>}
  <2>1. CASE k < BudgetLimit
    <3>1. localWindow' = [localWindow EXCEPT ![p].count = @ + 1]
      BY <1>1, <1>3, <2>1 DEF consumeRateLimit
    <3>2. [localWindow[p] EXCEPT !.count = @ + 1] = [number |-> m, count |-> k + 1]
      BY <1>2, <1>3 DEF LimiterTyped, Window
    <3>3. localWindow' = [localWindow EXCEPT ![p] = [number |-> m, count |-> k + 1]]
      BY <3>1, <3>2 DEF LimiterTyped
    <3>4. \/ admitted' = admitted
          \/ failureMode = "fail_open" /\ admitted' = admitted \cup {<<<<p, m>>, r>>}
      BY <1>1, <1>2 DEF consumeRateLimit, Decide, decideRateLimit
    <3>5. QED
      BY <2>1, <3>3, <3>4
  <2>2. CASE ~(k < BudgetLimit)
    BY <1>1, <1>3, <2>2 DEF consumeRateLimit, Decide
  <2>3. QED
    BY <2>1, <2>2
<1>7. LimiterTyped'
  <2>1. admitted' \subseteq ((Owners \X (1..MaxWindows)) \cup {Unattributed}) \X LimitedCalls
    BY <1>4, <1>6 DEF LimiterTyped
  <2>2. localWindow' \in [WebProcesses -> Window]
    BY <1>4, <1>6 DEF LimiterTyped, Window
  <2>3. QED
    BY <1>5, <2>1, <2>2 DEF LimiterTyped, Window, Owners, Unattributed
<1>8. ClosedIsShared'
  BY <1>6 DEF ClosedIsShared
<1>9. ASSUME NEW o \in Owners, NEW n \in 1..MaxWindows PROVE HoldersFit(o, n)'
  <2>0. HoldersFit(o, n)
    OBVIOUS
  <2>1. CASE localWindow' = localWindow /\ admitted' = admitted
    <3>1. Holders(o, n)' \subseteq Holders(o, n) /\ CurrentOf(o)' = CurrentOf(o)
      BY <1>5, <2>1 DEF Holders, CountedWithin, CurrentOf
    <3>2. QED
      BY <2>0, <3>1, HoldersKept
  <2>2. CASE /\ k < BudgetLimit /\ localWindow' = [localWindow EXCEPT ![p] = [number |-> m, count |-> k + 1]]
             /\ (admitted' = admitted \/ admitted' = admitted \cup {<<<<p, m>>, r>>})
    <3>1. CASE o # p
      <4>1. Holders(o, n)' \subseteq Holders(o, n)
        BY <1>5, <2>2, <3>1 DEF Holders, CountedWithin
      <4>2. CurrentOf(o)' = CurrentOf(o)
        BY <1>4, <1>5, <2>2, <3>1 DEF CurrentOf, LimiterTyped, Owners
      <4>3. QED
        BY <2>0, <4>1, <4>2, HoldersKept
    <3>2. CASE o = p
      <4>1. /\ CurrentOf(o).number = m /\ CurrentOf(o).count = k
            /\ CurrentOf(o)'.number = m /\ CurrentOf(o)'.count = k + 1
        BY <1>2, <1>3, <1>4, <2>2, <3>2 DEF CurrentOf, LimiterTyped
      <4>2. Holders(o, n)' \subseteq Holders(o, n) \cup {r} /\ (n # m => Holders(o, n)' \subseteq Holders(o, n))
        BY <1>5, <2>2, <3>2 DEF Holders, CountedWithin
      <4>3. /\ IsFiniteSet(Holders(o, n)') /\ Cardinality(Holders(o, n)') \in Nat /\ Cardinality(Holders(o, n)) \in Nat
            /\ Cardinality(Holders(o, n)') <= Cardinality(Holders(o, n)) + 1
        BY <2>0, <4>2, OneMoreAtMost DEF HoldersFit
      <4>4. CASE n = m
        <5>1. Cardinality(Holders(o, n)) <= k
          BY <2>0, <4>1, <4>4 DEF HoldersFit
        <5>2. Cardinality(Holders(o, n)') <= k + 1 /\ Cardinality(Holders(o, n)') <= BudgetLimit
          BY <1>4, <2>2, <4>3, <5>1, RateLimitConstants
        <5>3. QED
          BY <1>4, <4>1, <4>3, <4>4, <5>2 DEF HoldersFit
      <4>5. CASE n # m
        <5>1. Cardinality(Holders(o, n)') <= Cardinality(Holders(o, n))
          BY <2>0, <4>2, <4>5, FS_Subset DEF HoldersFit
        <5>2. Cardinality(Holders(o, n)') <= BudgetLimit
          BY <2>0, <4>3, <5>1, RateLimitConstants DEF HoldersFit
        <5>3. n > m => Holders(o, n)' = {}
          BY <2>0, <4>1, <4>2, <4>5 DEF HoldersFit
        <5>4. QED
          BY <4>1, <4>3, <4>5, <5>2, <5>3 DEF HoldersFit
      <4>6. QED
        BY <4>4, <4>5
    <3>3. QED
      BY <3>1, <3>2
  <2>3. QED
    BY <1>6, <2>1, <2>2
<1>10. QED
  BY <1>7, <1>8, <1>9 DEF Owners

\* A window ends; the next one has no holder yet.
LEMMA BudgetRollover ==
  ASSUME BudgetInv, UNCHANGED failureMode, NEW q \in Owners,
         \/ SharedWindowEnds /\ q = "shared"
         \/ q \in WebProcesses /\ LocalWindowEnds(q)
  PROVE  BudgetInv'
<1> USE DEF BudgetInv
<1>1. UNCHANGED <<call, admitted>>
  BY DEF SharedWindowEnds, LocalWindowEnds
<1>2. PICK m : m = CurrentOf(q).number
  OBVIOUS
<1>3. m \in 1..MaxWindows /\ m + 1 \in 1..MaxWindows
  BY <1>2, RateLimitConstants DEF SharedWindowEnds, LocalWindowEnds, CurrentOf, LimiterTyped, Window, Owners
<1>4. /\ CurrentOf(q)' = [number |-> m + 1, count |-> 0]
      /\ \A o \in Owners : o # q => CurrentOf(o)' = CurrentOf(o)
  BY <1>2, RateLimitConstants DEF SharedWindowEnds, LocalWindowEnds, CurrentOf, LimiterTyped, Owners
<1>5. LimiterTyped'
  <2>1. sharedWindow' \in Window
    <3>1. CASE SharedWindowEnds /\ q = "shared"
      BY <1>3, <1>4, <3>1 DEF CurrentOf, Window
    <3>2. CASE q \in WebProcesses /\ LocalWindowEnds(q)
      BY <3>2 DEF LocalWindowEnds, LimiterTyped
    <3>3. QED
      BY <3>1, <3>2
  <2>2. localWindow' \in [WebProcesses -> Window]
    <3>1. CASE SharedWindowEnds /\ q = "shared"
      BY <3>1 DEF SharedWindowEnds, LimiterTyped
    <3>2. CASE q \in WebProcesses /\ LocalWindowEnds(q)
      <4>1. localWindow' = [localWindow EXCEPT ![q] = [number |-> localWindow[q].number + 1, count |-> 0]]
        BY <3>2 DEF LocalWindowEnds, LimiterTyped
      <4>2. localWindow[q].number = m
        BY <1>2, <3>2, RateLimitConstants DEF CurrentOf
      <4>3. QED
        BY <1>3, <3>2, <4>1, <4>2 DEF LimiterTyped, Window
    <3>3. QED
      BY <3>1, <3>2
  <2>3. QED
    BY <1>1, <2>1, <2>2 DEF LimiterTyped, Window, Owners, Unattributed
<1>6. ClosedIsShared'
  BY <1>1 DEF ClosedIsShared
<1>7. ASSUME NEW o \in Owners, NEW n \in 1..MaxWindows PROVE HoldersFit(o, n)'
  <2>0. HoldersFit(o, n) /\ Holders(o, n)' = Holders(o, n)
    BY <1>1 DEF Holders, CountedWithin
  <2>1. CASE o # q
    BY <1>4, <2>0, <2>1, HoldersKept
  <2>2. CASE o = q
    <3>1. CurrentOf(o)'.number = m + 1 /\ CurrentOf(o)'.count = 0
      BY <1>4, <2>2
    <3>2. n > m => Holders(o, n) = {}
      BY <1>2, <2>0, <2>2 DEF HoldersFit
    <3>3. n = m + 1 => Cardinality(Holders(o, n)') = 0
      BY <1>3, <2>0, <3>2, FS_EmptySet
    <3>4. n > m + 1 => Holders(o, n)' = {}
      BY <1>3, <2>0, <3>2
    <3>5. IsFiniteSet(Holders(o, n)') /\ Cardinality(Holders(o, n)') <= BudgetLimit
      BY <2>0 DEF HoldersFit
    <3>6. QED
      BY <3>1, <3>3, <3>4, <3>5 DEF HoldersFit
  <2>3. QED
    BY <2>1, <2>2
<1>8. QED
  BY <1>5, <1>6, <1>7 DEF Owners

\* Every request let through holds its window.
LEMMA BudgetInvSuffices == BudgetInv => BudgetHolds
<1> SUFFICES ASSUME BudgetInv PROVE BudgetHolds
  OBVIOUS
<1>1. ASSUME NEW w \in {x[1] : x \in admitted}, w # Unattributed
      PROVE  Cardinality({x \in admitted : x[1] = w}) <= BudgetLimit
  <2>1. PICK o \in Owners, n \in 1..MaxWindows : w = <<o, n>>
    BY <1>1 DEF BudgetInv, LimiterTyped
  <2>2. PICK A : A = {x \in admitted : x[1] = w}
    OBVIOUS
  <2>3. PICK f : f = [x \in A |-> x[2]]
    OBVIOUS
  <2>4. \A x \in A : x = <<w, x[2]>> /\ x[2] \in LimitedCalls /\ x \in admitted
    BY <2>2 DEF BudgetInv, LimiterTyped
  <2>5. \A x \in A : x[2] \in Holders(o, n)
    BY <2>1, <2>4 DEF Holders
  <2>6. f \in Injection(A, Holders(o, n))
    <3>1. f \in [A -> Holders(o, n)]
      BY <2>3, <2>5
    <3>2. \A x, y \in A : f[x] = f[y] => x = y
      BY <2>3, <2>4
    <3>3. QED
      BY <3>1, <3>2 DEF Injection, IsInjective
  <2>7. IsFiniteSet(Holders(o, n)) /\ Cardinality(Holders(o, n)) <= BudgetLimit
    BY DEF BudgetInv, HoldersFit
  <2>8. IsFiniteSet(A) /\ Cardinality(A) <= Cardinality(Holders(o, n))
    BY <2>6, <2>7, FS_Injection
  <2>9. Cardinality(A) \in Nat /\ Cardinality(Holders(o, n)) \in Nat
    BY <2>7, <2>8, FS_CardinalityType
  <2>10. QED
    BY <2>2, <2>7, <2>8, <2>9, RateLimitConstants
<1>2. failureMode = "fail_closed" => \A w \in {x[1] : x \in admitted} : w[1] = "shared"
  BY DEF BudgetInv, ClosedIsShared
<1>3. QED
  BY <1>1, <1>2 DEF BudgetHolds

\* The invariant holds of every behaviour.
LEMMA BudgetInvariant == RateLimitSpec => []BudgetInv
<1>1. RateLimitInit => BudgetInv
  <2> SUFFICES ASSUME RateLimitInit PROVE BudgetInv
    OBVIOUS
  <2>1. LimiterTyped /\ ClosedIsShared
    BY RateLimitConstants DEF RateLimitInit, LimiterTyped, ClosedIsShared, Window, NewCall
  <2>2. \A o, n : Holders(o, n) = {}
    BY DEF RateLimitInit, Holders, CountedWithin, NewCall
  <2>3. \A o \in Owners : CurrentOf(o).count = 0
    BY DEF RateLimitInit, CurrentOf, Owners
  <2>4. QED
    BY <2>1, <2>2, <2>3, FS_EmptySet, RateLimitConstants DEF BudgetInv, HoldersFit
<1>2. BudgetInv /\ [RateLimitNext]_limitVars => BudgetInv'
  <2> SUFFICES ASSUME BudgetInv, [RateLimitNext]_limitVars PROVE BudgetInv'
    OBVIOUS
  <2>1. ASSUME UNCHANGED failureMode,
               NEW r \in LimitedCalls, AdmitUnattributed(r) \/ CountArrives(r) \/ consumeRateLimit(r)
        PROVE  BudgetInv'
    BY <2>1, BudgetUnattributed, BudgetArrives, BudgetLocal
  <2>2. ASSUME UNCHANGED failureMode, NEW r \in LimitedCalls, NEW p \in WebProcesses,
               Increment(r, p) \/ BackendFails(r, p) \/ SkipBackend(r, p)
        PROVE  BudgetInv'
    BY <2>2, BudgetIncrement, BudgetQuiet
  <2>3. ASSUME UNCHANGED failureMode, SharedWindowEnds \/ \E p \in WebProcesses : LocalWindowEnds(p)
        PROVE  BudgetInv'
    BY <2>3, BudgetRollover DEF Owners
  <2>4. ASSUME UNCHANGED <<failureMode, sharedWindow, localWindow, call, admitted>> PROVE BudgetInv'
    <3>1. LimiterTyped' /\ ClosedIsShared'
      BY <2>4 DEF BudgetInv, LimiterTyped, ClosedIsShared, Window, Owners, Unattributed
    <3>2. \A o \in Owners, n \in 1..MaxWindows : Holders(o, n)' \subseteq Holders(o, n)
      BY <2>4 DEF Holders, CountedWithin
    <3>3. QED
      BY <2>4, <3>1, <3>2, WindowsKept DEF BudgetInv, Owners
  <2>5. QED
    BY <2>1, <2>2, <2>3, <2>4 DEF RateLimitNext, limitVars, CooldownEnds, LimiterChanges
<1>3. QED
  BY <1>1, <1>2, PTL DEF RateLimitSpec

\* No window lets more than the limit through, and a policy that fails closed admits
\* only what Redis has counted: for any number of processes and requests, any limit,
\* and answers that come late, never, or after their window has ended.
THEOREM BudgetIsKept == RateLimitSpec => []BudgetHolds
BY BudgetInvariant, BudgetInvSuffices, PTL

-----------------------------------------------------------------------------
(* Notifications.  A transaction that has sent its mail writes with what   *)
(* it read at the claim, so the invariant says that this is still so, and  *)
(* a grant is still usable while its PDF is rendered.                      *)

ClaimedMail == [phase : {"claimed"}, notice : Notices, attempt : 1..MaxDeliveries]
SentMail == [phase : {"sent"}, notice : Notices, attempt : 1..MaxDeliveries, result : SendResults]
NoticeRow == [status : {"NONE", "PENDING", "PROCESSED", "DEAD_LETTER"}, attemptCount : 0..MaxDeliveries, due : BOOLEAN]

MailTyped ==
  /\ notice \in [Notices -> NoticeRow]
  /\ mailTx = [w \in MailDispatchers |-> mailTx[w]]
  /\ \A w \in MailDispatchers : mailTx[w] = NoMailTx \/ mailTx[w] \in ClaimedMail \/ mailTx[w] \in SentMail
  /\ delivery \subseteq [key : DeliveryKeys, status : SendResults]
\* A transaction holds a pending row, alone, and its attempt is the row's next one.
MailTxIsCurrent ==
  /\ \A w \in MailDispatchers : mailTx[w] # NoMailTx =>
       /\ notice[mailTx[w].notice].status = "PENDING"
       /\ mailTx[w].attempt = notice[mailTx[w].notice].attemptCount + 1
  /\ \A v, w \in MailDispatchers :
       v # w /\ mailTx[v] # NoMailTx /\ mailTx[w] # NoMailTx => mailTx[v].notice # mailTx[w].notice
\* A mail that counts as sent has left the provider.
SentIsOut ==
  /\ \A w \in MailDispatchers : mailTx[w] \in SentMail /\ mailTx[w].result = "SUCCEEDED" => KeyOf(w) \in mailbox
  /\ \A n \in Notices : notice[n].status = "PROCESSED" => <<n, notice[n].attemptCount>> \in mailbox
PendingHasRoom ==
  \A n \in Notices : notice[n].status = "PENDING" => notice[n].attemptCount < MaxDeliveries

\* DeliveryHistoryExplainsStatus, row by row.
Mine(n) == {a \in delivery : a.key[1] = n}
LastOf(n) == {a.status : a \in {x \in Mine(n) : x.key[2] = notice[n].attemptCount}}
HistoryOf(n) ==
  /\ IsFiniteSet(Mine(n)) /\ Cardinality(Mine(n)) = notice[n].attemptCount
  /\ {a.key[2] : a \in Mine(n)} = 1..notice[n].attemptCount
  /\ notice[n].status = "PROCESSED" <=> LastOf(n) = {"SUCCEEDED"}
  /\ notice[n].status = "DEAD_LETTER" <=>
       LastOf(n) = {"PERMANENT_FAILURE"} \/ (notice[n].attemptCount = MaxDeliveries /\ LastOf(n) # {"SUCCEEDED"})

MailInv ==
  /\ MailTyped /\ MailTxIsCurrent /\ SentIsOut /\ PendingHasRoom
  /\ \A n \in Notices : HistoryOf(n)

\* The least element that the claim picks is there.
LEMMA MinIsIn ==
  ASSUME NEW S, S \subseteq Nat, S # {} PROVE Min(S) \in S
<1>1. PICK n \in S : \A m \in S : ~(<<m, n>> \in OpToRel(<, Nat))
  BY NatLessThanWellFounded, WFMin
<1>2. \A m \in S : n =< m
  <2>1. \A m \in S : ~(m < n)
    BY <1>1 DEF OpToRel
  <2>2. n \in Nat /\ \A m \in S : m \in Nat
    OBVIOUS
  <2>3. QED
    BY <2>1, <2>2
<1>3. QED
  BY <1>2 DEF Min

\* A row whose history and verdict stay as they are is still explained.
LEMMA HistoryKept ==
  ASSUME NEW n, HistoryOf(n), Mine(n)' = Mine(n), notice'[n].attemptCount = notice[n].attemptCount,
         notice'[n].status = "PROCESSED" <=> notice[n].status = "PROCESSED",
         notice'[n].status = "DEAD_LETTER" <=> notice[n].status = "DEAD_LETTER"
  PROVE  HistoryOf(n)'
<1>1. LastOf(n)' = LastOf(n)
  BY DEF LastOf
<1>2. QED
  BY <1>1 DEF HistoryOf

\* Refunds, downloads and expiring grants are no matter of the dispatcher.
LEMMA MailUntouched ==
  ASSUME MailInv, UNCHANGED <<notice, mailTx, mailbox, delivery>> PROVE MailInv'
<1>1. \A n : HistoryOf(n)' <=> HistoryOf(n)
  BY DEF HistoryOf, LastOf, Mine
<1>2. MailTyped'
  BY DEF MailInv, MailTyped, NoticeRow, ClaimedMail, SentMail, Notices, DeliveryKeys, SendResults, NoMailTx
<1>3. MailTxIsCurrent' /\ SentIsOut' /\ PendingHasRoom'
  BY DEF MailInv, MailTxIsCurrent, SentIsOut, PendingHasRoom, SentMail, Notices, SendResults, NoMailTx, KeyOf
<1>4. QED
  BY <1>1, <1>2, <1>3 DEF MailInv, Notices

\* A row is inserted, or becomes due again.
LEMMA MailEnqueue ==
  ASSUME MailInv, NEW n \in Notices, EnqueueNotice(n) \/ MakeDue(n) PROVE MailInv'
<1> USE NotificationConstants DEF MailInv
<1>1. UNCHANGED <<mailTx, mailbox, delivery>>
  BY DEF EnqueueNotice, MakeDue
<1>2. PICK row : row = notice'[n]
  OBVIOUS
<1>3. /\ notice' = [m \in Notices |-> IF m = n THEN row ELSE notice[m]] /\ row \in NoticeRow
      /\ row.status = "PENDING" /\ row.attemptCount = notice[n].attemptCount /\ row.attemptCount < MaxDeliveries
      /\ notice[n].status \in {"NONE", "PENDING"}
  <2>1. CASE EnqueueNotice(n)
    <3>1. /\ notice[n] = NoNotice
          /\ notice' = [notice EXCEPT ![n] = [status |-> "PENDING", attemptCount |-> 0, due |-> TRUE]]
      BY <2>1 DEF EnqueueNotice
    <3>2. notice[n].status = "NONE" /\ notice[n].attemptCount = 0
      BY <3>1 DEF NoNotice
    <3>3. row = [status |-> "PENDING", attemptCount |-> 0, due |-> TRUE]
      BY <1>2, <3>1 DEF MailTyped
    <3>4. row \in NoticeRow /\ row.status = "PENDING" /\ row.attemptCount = 0
      BY <3>3 DEF NoticeRow
    <3>5. 0 < MaxDeliveries
      OBVIOUS
    <3>6. notice' = [m \in Notices |-> IF m = n THEN row ELSE notice[m]]
      BY <3>1, <3>3 DEF MailTyped
    <3>7. QED
      BY <3>2, <3>4, <3>5, <3>6
  <2>2. CASE MakeDue(n)
    <3>1. notice' = [notice EXCEPT ![n] = [notice[n] EXCEPT !.due = TRUE]]
      BY <2>2 DEF MakeDue, MailTyped
    <3>2. notice[n] \in NoticeRow /\ notice[n].status = "PENDING"
      BY <2>2 DEF MakeDue, MailTyped
    <3>3. row = [notice[n] EXCEPT !.due = TRUE]
      BY <1>2, <3>1 DEF MailTyped
    <3>4. row \in NoticeRow /\ row.status = "PENDING" /\ row.attemptCount = notice[n].attemptCount
      BY <3>2, <3>3 DEF NoticeRow
    <3>5. QED
      BY <1>2, <3>1, <3>2, <3>3, <3>4 DEF MailTyped, PendingHasRoom
  <2>3. QED
    BY <2>1, <2>2
<1>4. \A m \in Notices : /\ notice'[m].attemptCount = notice[m].attemptCount
                         /\ notice'[m].status = "PROCESSED" <=> notice[m].status = "PROCESSED"
                         /\ notice'[m].status = "DEAD_LETTER" <=> notice[m].status = "DEAD_LETTER"
                         /\ notice[m].status = "PENDING" => notice'[m].status = "PENDING"
  BY <1>3
<1>5. MailTyped'
  BY <1>1, <1>3 DEF MailTyped, NoticeRow, ClaimedMail, SentMail, Notices, DeliveryKeys, SendResults, NoMailTx
<1>6. MailTxIsCurrent'
  <2>1. \A w \in MailDispatchers : mailTx[w] # NoMailTx => mailTx[w].notice \in Notices
    BY DEF MailTyped, ClaimedMail, SentMail
  <2>2. QED
    BY <1>1, <1>4, <2>1 DEF MailTxIsCurrent, NoMailTx
<1>7. SentIsOut'
  BY <1>1, <1>4 DEF SentIsOut, SentMail, Notices, SendResults, KeyOf
<1>8. PendingHasRoom'
  BY <1>3 DEF PendingHasRoom, Notices
<1>9. \A m \in Notices : HistoryOf(m)'
  BY <1>1, <1>4, HistoryKept DEF Mine
<1>10. QED
  BY <1>5, <1>6, <1>7, <1>8, <1>9 DEF Notices

\* A claim takes a pending row nobody holds; a transaction that ends lets go of it.
LEMMA MailClaim ==
  ASSUME MailInv, NEW w \in MailDispatchers, ClaimNotice(w) \/ AbortNotice(w) PROVE MailInv'
<1> USE NotificationConstants DEF MailInv
<1>1. UNCHANGED <<notice, mailbox, delivery>>
  BY DEF ClaimNotice, AbortNotice
<1>2. PICK tx : tx = mailTx'[w]
  OBVIOUS
<1>3. /\ mailTx' = [v \in MailDispatchers |-> IF v = w THEN tx ELSE mailTx[v]]
      /\ \/ tx = NoMailTx
         \/ /\ tx \in ClaimedMail /\ notice[tx.notice].status = "PENDING"
            /\ tx.attempt = notice[tx.notice].attemptCount + 1
            /\ \A v \in MailDispatchers : mailTx[v] # NoMailTx => mailTx[v].notice # tx.notice
  <2>1. CASE ClaimNotice(w)
    <3>1. PICK n : n = Min(DueUnlocked)
      OBVIOUS
    <3>2. DueUnlocked \subseteq Nat /\ DueUnlocked # {}
      BY <2>1 DEF ClaimNotice, DueUnlocked, Notices
    <3>3. n \in DueUnlocked
      BY <3>1, <3>2, MinIsIn
    <3>4. /\ n \in Notices /\ notice[n].status = "PENDING"
          /\ \A v \in MailDispatchers : mailTx[v] # NoMailTx => mailTx[v].notice # n
      BY <3>3 DEF DueUnlocked, RowLocked
    <3>5. mailTx' = [mailTx EXCEPT ![w] = [phase |-> "claimed", notice |-> n, attempt |-> notice[n].attemptCount + 1]]
      BY <2>1, <3>1 DEF ClaimNotice
    <3>6. notice[n].attemptCount \in Nat /\ notice[n].attemptCount < MaxDeliveries
      BY <3>4 DEF MailTyped, NoticeRow, PendingHasRoom
    <3>7. tx = [phase |-> "claimed", notice |-> n, attempt |-> notice[n].attemptCount + 1]
      BY <1>2, <3>5 DEF MailTyped
    <3>8. tx \in ClaimedMail /\ tx.notice = n /\ tx.attempt = notice[n].attemptCount + 1
      BY <3>4, <3>6, <3>7 DEF ClaimedMail
    <3>9. mailTx' = [v \in MailDispatchers |-> IF v = w THEN tx ELSE mailTx[v]]
      BY <3>5, <3>7 DEF MailTyped
    <3>10. QED
      BY <3>4, <3>8, <3>9
  <2>2. CASE AbortNotice(w)
    BY <1>2, <2>2 DEF AbortNotice, MailTyped
  <2>3. QED
    BY <2>1, <2>2
<1>4. tx \notin SentMail
  BY <1>3 DEF ClaimedMail, SentMail, NoMailTx
<1>5. MailTyped'
  BY <1>1, <1>3 DEF MailTyped, NoticeRow, ClaimedMail, SentMail, Notices, DeliveryKeys, SendResults, NoMailTx
<1>6. MailTxIsCurrent'
  BY <1>1, <1>3 DEF MailTxIsCurrent, NoMailTx
<1>7. SentIsOut' /\ PendingHasRoom'
  BY <1>1, <1>3, <1>4 DEF SentIsOut, PendingHasRoom, SentMail, Notices, SendResults, KeyOf
<1>8. \A m \in Notices : HistoryOf(m)'
  BY <1>1, HistoryKept DEF Mine
<1>9. QED
  BY <1>5, <1>6, <1>7, <1>8 DEF Notices

\* The provider answers, or seems not to.
LEMMA MailSend ==
  ASSUME MailInv, NEW w \in MailDispatchers, NEW result \in SendResults, NEW accepted \in BOOLEAN,
         SendMail(w, result, accepted)
  PROVE  MailInv'
<1> USE NotificationConstants DEF MailInv
<1>1. UNCHANGED <<notice, delivery>> /\ mailbox \subseteq mailbox'
  BY DEF SendMail
<1>2. mailTx[w] \in ClaimedMail
  BY DEF SendMail, MailTyped, NoMailTx, SentMail
<1>3. PICK tx : tx = [phase |-> "sent", notice |-> mailTx[w].notice, attempt |-> mailTx[w].attempt, result |-> result]
  OBVIOUS
<1>4. mailTx' = [v \in MailDispatchers |-> IF v = w THEN tx ELSE mailTx[v]]
  BY <1>3 DEF SendMail, MailTyped
<1>5. /\ tx \in SentMail /\ tx.result = result /\ tx # NoMailTx /\ mailTx[w] # NoMailTx
      /\ tx.notice = mailTx[w].notice /\ tx.attempt = mailTx[w].attempt
  BY <1>2, <1>3 DEF ClaimedMail, SentMail, NoMailTx
<1>6. result = "SUCCEEDED" => <<tx.notice, tx.attempt>> \in mailbox'
  BY <1>5 DEF SendMail, KeyOf
<1>7. MailTyped'
  BY <1>1, <1>4, <1>5 DEF MailTyped, NoticeRow, ClaimedMail, SentMail, Notices, DeliveryKeys, SendResults, NoMailTx
<1>8. MailTxIsCurrent'
  BY <1>1, <1>4, <1>5 DEF MailTxIsCurrent, NoMailTx
<1>9. SentIsOut' /\ PendingHasRoom'
  BY <1>1, <1>4, <1>5, <1>6 DEF SentIsOut, PendingHasRoom, SentMail, Notices, SendResults, KeyOf
<1>10. \A m \in Notices : HistoryOf(m)'
  BY <1>1, HistoryKept DEF Mine
<1>11. QED
  BY <1>7, <1>8, <1>9, <1>10 DEF Notices

\* The attempt is recorded: it is the next of its row, and it decides its status.
LEMMA MailCommit ==
  ASSUME MailInv, NEW w \in MailDispatchers, CommitNotice(w) PROVE MailInv'
<1> USE NotificationConstants DEF MailInv
<1>1. PICK n : n = mailTx[w].notice
  OBVIOUS
<1>2. PICK k : k = mailTx[w].attempt
  OBVIOUS
<1>3. PICK result : result = mailTx[w].result
  OBVIOUS
<1>4. mailTx[w] \in SentMail
  BY DEF CommitNotice, MailTyped, NoMailTx, ClaimedMail
<1>5. /\ n \in Notices /\ k \in 1..MaxDeliveries /\ result \in SendResults /\ mailTx[w] # NoMailTx
      /\ notice[n].status = "PENDING" /\ k = notice[n].attemptCount + 1 /\ notice[n].attemptCount \in Nat
  <2>1. n \in Notices /\ k \in 1..MaxDeliveries /\ result \in SendResults /\ mailTx[w] # NoMailTx
    BY <1>1, <1>2, <1>3, <1>4 DEF SentMail, NoMailTx
  <2>2. QED
    BY <1>1, <1>2, <2>1 DEF MailTxIsCurrent, MailTyped, NoticeRow
<1>6. PICK row : row = NoticeAfter(result, k)
  OBVIOUS
<1>7. PICK entry : entry = [key |-> <<n, k>>, status |-> result]
  OBVIOUS
<1>8. /\ notice' = [m \in Notices |-> IF m = n THEN row ELSE notice[m]]
      /\ delivery' = delivery \cup {entry} /\ UNCHANGED mailbox
      /\ mailTx' = [v \in MailDispatchers |-> IF v = w THEN NoMailTx ELSE mailTx[v]]
  BY <1>1, <1>2, <1>3, <1>6, <1>7 DEF CommitNotice, MailTyped, KeyOf
<1>9. /\ row \in NoticeRow /\ row.attemptCount = k
      /\ row.status = "PROCESSED" <=> result = "SUCCEEDED"
      /\ row.status = "DEAD_LETTER" <=> result = "PERMANENT_FAILURE" \/ (k = MaxDeliveries /\ result # "SUCCEEDED")
      /\ row.status = "PENDING" => k < MaxDeliveries
  BY <1>5, <1>6 DEF NoticeAfter, shouldDeadLetterNotification, NoticeRow
<1>10. entry \in [key : DeliveryKeys, status : SendResults] /\ entry.key[1] = n /\ entry.key[2] = k /\ entry.status = result
  BY <1>5, <1>7 DEF DeliveryKeys
<1>11. \A v \in MailDispatchers : v # w /\ mailTx[v] # NoMailTx => mailTx[v].notice # n
  BY <1>1, <1>5 DEF MailTxIsCurrent
<1>12. MailTyped'
  BY <1>8, <1>9, <1>10 DEF MailTyped, NoticeRow, ClaimedMail, SentMail, Notices, DeliveryKeys, SendResults, NoMailTx
<1>13. MailTxIsCurrent'
  <2>1. \A v \in MailDispatchers : mailTx'[v] # NoMailTx => v # w /\ mailTx'[v] = mailTx[v]
    BY <1>8
  <2>2. \A v \in MailDispatchers : mailTx[v] # NoMailTx => mailTx[v].notice \in Notices
    BY DEF MailTyped, ClaimedMail, SentMail
  <2>3. QED
    BY <1>8, <1>11, <2>1, <2>2 DEF MailTxIsCurrent, NoMailTx
<1>14. SentIsOut'
  <2>1. result = "SUCCEEDED" => <<n, k>> \in mailbox
    BY <1>1, <1>2, <1>3, <1>4 DEF SentIsOut, KeyOf
  <2>2. NoMailTx \notin SentMail
    BY DEF NoMailTx, SentMail
  <2>3. QED
    BY <1>8, <1>9, <2>1, <2>2 DEF SentIsOut, SentMail, Notices, SendResults, KeyOf
<1>15. PendingHasRoom'
  BY <1>8, <1>9 DEF PendingHasRoom, Notices
<1>16. ASSUME NEW m \in Notices PROVE HistoryOf(m)'
  <2>0. HistoryOf(m)
    OBVIOUS
  <2>1. CASE m # n
    <3>1. Mine(m)' = Mine(m)
      BY <1>8, <1>10, <2>1 DEF Mine
    <3>2. notice'[m] = notice[m]
      BY <1>8, <2>1
    <3>3. QED
      BY <2>0, <3>1, <3>2, HistoryKept
  <2>2. CASE m = n
    <3>1. Mine(n)' = Mine(n) \cup {entry}
      BY <1>8, <1>10 DEF Mine
    <3>2. \A a \in Mine(n) : a.key[2] \in 1..(k - 1)
      <4>1. 1..notice[n].attemptCount = 1..(k - 1)
        BY <1>5
      <4>2. QED
        BY <2>0, <2>2, <4>1 DEF HistoryOf
    <3>3. entry \notin Mine(n)
      BY <1>5, <1>10, <3>2
    <3>4. IsFiniteSet(Mine(n)') /\ Cardinality(Mine(n)') = Cardinality(Mine(n)) + 1
      BY <2>0, <2>2, <3>1, <3>3, FS_AddElement DEF HistoryOf
    <3>5. notice'[n].attemptCount = k /\ Cardinality(Mine(n)') = k
      BY <1>5, <1>8, <1>9, <2>0, <2>2, <3>4 DEF HistoryOf
    <3>6. {a.key[2] : a \in Mine(n)'} = 1..k
      <4>1. {a.key[2] : a \in Mine(n)} = 1..(k - 1)
        BY <1>5, <2>0, <2>2 DEF HistoryOf
      <4>2. {a.key[2] : a \in Mine(n)'} = {a.key[2] : a \in Mine(n)} \cup {k}
        BY <1>10, <3>1
      <4>3. 1..(k - 1) \cup {k} = 1..k
        BY <1>5
      <4>4. QED
        BY <4>1, <4>2, <4>3
    <3>7. LastOf(n)' = {result}
      <4>1. {x \in Mine(n)' : x.key[2] = k} = {entry}
        BY <1>5, <1>10, <3>1, <3>2
      <4>2. LastOf(n)' = {a.status : a \in {x \in Mine(n)' : x.key[2] = notice'[n].attemptCount}}
        BY DEF LastOf
      <4>3. LastOf(n)' = {a.status : a \in {entry}}
        BY <3>5, <4>1, <4>2
      <4>4. QED
        BY <1>10, <4>3
    <3>8. notice'[n].status = row.status
      BY <1>5, <1>8
    <3>9. notice'[n].status = "PROCESSED" <=> LastOf(n)' = {"SUCCEEDED"}
      BY <1>9, <3>7, <3>8
    <3>10. notice'[n].status = "DEAD_LETTER" <=>
             LastOf(n)' = {"PERMANENT_FAILURE"} \/ (k = MaxDeliveries /\ LastOf(n)' # {"SUCCEEDED"})
      BY <1>9, <3>7, <3>8
    <3>11. QED
      BY <2>2, <3>4, <3>5, <3>6, <3>9, <3>10 DEF HistoryOf
  <2>3. QED
    BY <2>1, <2>2
<1>17. QED
  BY <1>12, <1>13, <1>14, <1>15, <1>16 DEF Notices

\* The links.
ServedTo(k) == {d \in Downloads : <<d, k>> \in served}
OpenDownload == [phase : {"rendering", "done"}, key : DeliveryKeys]
LinksTyped ==
  /\ grant \in [DeliveryKeys -> {"NONE", "USABLE", "USED", "EXPIRED"}]
  /\ download = [d \in Downloads |-> download[d]]
  /\ \A d \in Downloads : download[d] = NoDownload \/ download[d] \in OpenDownload
\* A grant is usable, and locked by one request, while its PDF is rendered.
RenderingIsUsable ==
  /\ \A d \in Downloads : download[d].phase = "rendering" => grant[download[d].key] = "USABLE"
  /\ \A c, d \in Downloads : c # d /\ download[c].phase = "rendering" /\ download[d].phase = "rendering"
       => download[c].key # download[d].key
\* LinkServesOnce, without counting.
ServedIsUsed ==
  \A k \in DeliveryKeys : IF grant[k] = "USED" THEN \E d \in Downloads : ServedTo(k) = {d} ELSE ServedTo(k) = {}
LinksInv == LinksTyped /\ RenderingIsUsable /\ ServedIsUsed

\* A grant is created when its attempt is recorded; nobody has been served with it.
LEMMA LinksCreate ==
  ASSUME MailInv, LinksInv, NEW w \in MailDispatchers, CommitNotice(w) PROVE LinksInv'
<1> USE DEF LinksInv
<1>1. mailTx[w] \in SentMail
  BY DEF CommitNotice, MailInv, MailTyped, NoMailTx, ClaimedMail
<1>2. PICK k \in DeliveryKeys : k = KeyOf(w)
  BY <1>1 DEF SentMail, KeyOf, DeliveryKeys
<1>3. grant[k] = "NONE" /\ UNCHANGED <<download, served>>
      /\ grant' = [j \in DeliveryKeys |-> IF j = k THEN "USABLE" ELSE grant[j]]
  BY <1>2 DEF CommitNotice, LinksTyped
<1>4. LinksTyped'
  BY <1>3 DEF LinksTyped, DeliveryKeys, Notices, OpenDownload, NoDownload
<1>5. RenderingIsUsable'
  <2>1. \A d \in Downloads : download[d].phase = "rendering" => download[d].key \in DeliveryKeys
    BY DEF LinksTyped, OpenDownload, NoDownload
  <2>2. QED
    BY <1>3, <2>1 DEF RenderingIsUsable
<1>6. ServedIsUsed'
  BY <1>3 DEF ServedIsUsed, ServedTo, DeliveryKeys, Notices
<1>7. QED
  BY <1>4, <1>5, <1>6

\* A request locks a usable grant, or lets go of one.
LEMMA LinksLock ==
  ASSUME LinksInv, NEW d \in Downloads, EndDownload(d) \/ \E k \in DeliveryKeys : LockGrant(d, k)
  PROVE  LinksInv'
<1> USE DEF LinksInv
<1>1. UNCHANGED <<grant, served>>
  BY DEF EndDownload, LockGrant
<1>2. ServedIsUsed'
  BY <1>1 DEF ServedIsUsed, ServedTo, DeliveryKeys, Notices
<1>3. CASE EndDownload(d)
  <2>1. download' = [c \in Downloads |-> IF c = d THEN NoDownload ELSE download[c]]
    BY <1>3 DEF EndDownload, LinksTyped
  <2>2. LinksTyped'
    BY <1>1, <2>1 DEF LinksTyped, DeliveryKeys, Notices, OpenDownload, NoDownload
  <2>3. RenderingIsUsable'
    BY <1>1, <2>1 DEF RenderingIsUsable, NoDownload
  <2>4. QED
    BY <1>2, <2>2, <2>3
<1>4. CASE \E k \in DeliveryKeys : LockGrant(d, k)
  <2>1. PICK k \in DeliveryKeys : LockGrant(d, k)
    BY <1>4
  <2>2. PICK o : o = [phase |-> "rendering", key |-> k]
    OBVIOUS
  <2>3. download' = [c \in Downloads |-> IF c = d THEN o ELSE download[c]]
    BY <2>1, <2>2 DEF LockGrant, LinksTyped
  <2>4. o \in OpenDownload /\ o.key = k /\ o.phase = "rendering" /\ grant[k] = "USABLE"
    BY <2>1, <2>2 DEF LockGrant, OpenDownload
  <2>5. \A c \in Downloads : download[c].phase = "rendering" => download[c].key # k
    BY <2>1 DEF LockGrant, GrantUnlocked, NoDownload
  <2>6. LinksTyped'
    BY <1>1, <2>3, <2>4 DEF LinksTyped, DeliveryKeys, Notices, OpenDownload, NoDownload
  <2>7. RenderingIsUsable'
    BY <1>1, <2>3, <2>4, <2>5 DEF RenderingIsUsable
  <2>8. QED
    BY <1>2, <2>6, <2>7
<1>5. QED
  BY <1>3, <1>4

\* The PDF is handed out, and its link has served.
LEMMA LinksServe ==
  ASSUME LinksInv, NEW d \in Downloads, CommitDownload(d) PROVE LinksInv'
<1> USE DEF LinksInv
<1>1. download[d] \in OpenDownload /\ download[d].phase = "rendering"
  BY DEF CommitDownload, LinksTyped, NoDownload
<1>2. PICK k \in DeliveryKeys : k = download[d].key
  BY <1>1 DEF OpenDownload
<1>3. PICK o : o = [phase |-> "done", key |-> k]
  OBVIOUS
<1>4. /\ grant' = [j \in DeliveryKeys |-> IF j = k THEN "USED" ELSE grant[j]]
      /\ served' = served \cup {<<d, k>>}
      /\ download' = [c \in Downloads |-> IF c = d THEN o ELSE download[c]]
  BY <1>2, <1>3 DEF CommitDownload, LinksTyped
<1>5. o \in OpenDownload /\ o.phase # "rendering" /\ grant[k] = "USABLE"
  BY <1>1, <1>2, <1>3 DEF OpenDownload, RenderingIsUsable
<1>6. LinksTyped'
  BY <1>4, <1>5 DEF LinksTyped, DeliveryKeys, Notices, OpenDownload, NoDownload
<1>7. RenderingIsUsable'
  <2>1. \A c \in Downloads : download[c].phase = "rendering" => download[c].key \in DeliveryKeys
    BY DEF LinksTyped, OpenDownload, NoDownload
  <2>2. \A c \in Downloads : c # d /\ download[c].phase = "rendering" => download[c].key # k
    BY <1>1, <1>2 DEF RenderingIsUsable
  <2>3. QED
    BY <1>4, <1>5, <2>1, <2>2 DEF RenderingIsUsable
<1>8. ASSUME NEW j \in DeliveryKeys
      PROVE  IF grant'[j] = "USED" THEN \E c \in Downloads : ServedTo(j)' = {c} ELSE ServedTo(j)' = {}
  <2>1. CASE j # k
    <3>1. grant'[j] = grant[j] /\ ServedTo(j)' = ServedTo(j)
      BY <1>4, <2>1 DEF ServedTo
    <3>2. QED
      BY <3>1 DEF ServedIsUsed
  <2>2. CASE j = k
    <3>1. ServedTo(k) = {}
      BY <1>5 DEF ServedIsUsed
    <3>2. ServedTo(k)' = {d}
      BY <1>4, <3>1 DEF ServedTo
    <3>3. QED
      BY <1>4, <2>2, <3>2
  <2>3. QED
    BY <2>1, <2>2
<1>9. QED
  BY <1>6, <1>7, <1>8 DEF ServedIsUsed, DeliveryKeys, Notices

\* A grant expires while nobody renders it.
LEMMA LinksExpire ==
  ASSUME LinksInv, NEW k \in DeliveryKeys, ExpireGrant(k) PROVE LinksInv'
<1> USE DEF LinksInv
<1>1. grant[k] = "USABLE" /\ UNCHANGED <<download, served>>
      /\ grant' = [j \in DeliveryKeys |-> IF j = k THEN "EXPIRED" ELSE grant[j]]
  BY DEF ExpireGrant, LinksTyped
<1>2. LinksTyped'
  BY <1>1 DEF LinksTyped, DeliveryKeys, Notices, OpenDownload, NoDownload
<1>3. RenderingIsUsable'
  <2>1. \A d \in Downloads : download[d].phase = "rendering" => download[d].key \in DeliveryKeys /\ download[d].key # k
    BY DEF LinksTyped, OpenDownload, NoDownload, ExpireGrant, GrantUnlocked
  <2>2. QED
    BY <1>1, <2>1 DEF RenderingIsUsable
<1>4. ServedIsUsed'
  BY <1>1 DEF ServedIsUsed, ServedTo, DeliveryKeys, Notices
<1>5. QED
  BY <1>2, <1>3, <1>4

\* Dispatchers that have not committed leave the links alone.
LEMMA LinksUntouched ==
  LinksInv /\ UNCHANGED grantVars => LinksInv'
  BY DEF LinksInv, LinksTyped, RenderingIsUsable, ServedIsUsed, ServedTo, grantVars,
         DeliveryKeys, Notices, OpenDownload, NoDownload

\* What the invariants say of each row and each link is what the property counts.
LEMMA MailInvSuffices == MailInv /\ LinksInv => NoticesAndLinksHold
<1> SUFFICES ASSUME MailInv, LinksInv PROVE NoticesAndLinksHold
  OBVIOUS
<1>1. DeliveryHistoryExplainsStatus
  BY DEF MailInv, HistoryOf, LastOf, Mine, DeliveryHistoryExplainsStatus
<1>2. ASSUME NEW k \in DeliveryKeys
      PROVE  Cardinality({d \in Downloads : <<d, k>> \in served}) = (IF grant[k] = "USED" THEN 1 ELSE 0)
  <2>1. CASE grant[k] = "USED"
    <3>1. PICK d \in Downloads : ServedTo(k) = {d}
      BY <2>1 DEF LinksInv, ServedIsUsed
    <3>2. Cardinality({d}) = 1
      BY FS_Singleton
    <3>3. QED
      BY <2>1, <3>1, <3>2 DEF ServedTo
  <2>2. CASE grant[k] # "USED"
    <3>1. ServedTo(k) = {}
      BY <2>2 DEF LinksInv, ServedIsUsed
    <3>2. QED
      BY <2>2, <3>1, FS_EmptySet DEF ServedTo
  <2>3. QED
    BY <2>1, <2>2
<1>3. \A n \in Notices : notice[n].status = "PROCESSED" => <<n, notice[n].attemptCount>> \in mailbox
  BY DEF MailInv, SentIsOut
<1>4. QED
  BY <1>1, <1>2, <1>3 DEF NoticesAndLinksHold, LinkServesOnce

\* The invariants hold of every behaviour.
LEMMA MailInvariant == NotificationsSpec => [](MailInv /\ LinksInv)
<1>1. NotificationsInit => MailInv /\ LinksInv
  <2> SUFFICES ASSUME NotificationsInit PROVE MailInv /\ LinksInv
    OBVIOUS
  <2>1. MailTyped /\ MailTxIsCurrent /\ SentIsOut /\ PendingHasRoom
    BY NotificationConstants
    DEF NotificationsInit, MailTyped, MailTxIsCurrent, SentIsOut, PendingHasRoom, NoticeRow, NoNotice,
        NoMailTx, SentMail
  <2>2. ASSUME NEW n \in Notices PROVE HistoryOf(n)
    <3>1. Mine(n) = {} /\ LastOf(n) = {}
      BY DEF NotificationsInit, Mine, LastOf
    <3>2. notice[n].attemptCount = 0 /\ notice[n].status = "NONE"
      BY DEF NotificationsInit, NoNotice
    <3>3. {a.key[2] : a \in Mine(n)} = {} /\ 1..0 = {} /\ MaxDeliveries # 0
      BY <3>1, NotificationConstants
    <3>4. QED
      BY <3>1, <3>2, <3>3, FS_EmptySet DEF HistoryOf
  <2>3. LinksInv
    BY DEF NotificationsInit, LinksInv, LinksTyped, RenderingIsUsable, ServedIsUsed, ServedTo, NoDownload
  <2>4. QED
    BY <2>1, <2>2, <2>3 DEF MailInv
<1>2. MailInv /\ LinksInv /\ [NotificationsNext]_mailVars => MailInv' /\ LinksInv'
  <2> SUFFICES ASSUME MailInv, LinksInv, [NotificationsNext]_mailVars PROVE MailInv' /\ LinksInv'
    OBVIOUS
  <2>1. ASSUME NEW n \in Notices, EnqueueNotice(n) \/ RefundNotifiedBooking(n) \/ MakeDue(n)
        PROVE  MailInv' /\ LinksInv'
    BY <2>1, MailEnqueue, MailUntouched, LinksUntouched DEF EnqueueNotice, RefundNotifiedBooking, MakeDue
  <2>2. ASSUME NEW w \in MailDispatchers, ClaimNotice(w) \/ AbortNotice(w) PROVE MailInv' /\ LinksInv'
    BY <2>2, MailClaim, LinksUntouched DEF ClaimNotice, AbortNotice
  <2>3. ASSUME NEW w \in MailDispatchers, CommitNotice(w) PROVE MailInv' /\ LinksInv'
    BY <2>3, MailCommit, LinksCreate
  <2>4. ASSUME NEW w \in MailDispatchers, NEW result \in SendResults, NEW accepted \in BOOLEAN,
               SendMail(w, result, accepted)
        PROVE  MailInv' /\ LinksInv'
    BY <2>4, MailSend, LinksUntouched DEF SendMail
  <2>5. ASSUME NEW d \in Downloads,
               CommitDownload(d) \/ EndDownload(d) \/ \E k \in DeliveryKeys : LockGrant(d, k)
        PROVE  MailInv' /\ LinksInv'
    <3>1. LinksInv'
      BY <2>5, LinksServe, LinksLock
    <3>2. UNCHANGED <<notice, mailTx, mailbox, delivery>>
      BY <2>5 DEF CommitDownload, EndDownload, LockGrant
    <3>3. QED
      BY <3>1, <3>2, MailUntouched
  <2>6. ASSUME NEW k \in DeliveryKeys, ExpireGrant(k) PROVE MailInv' /\ LinksInv'
    BY <2>6, LinksExpire, MailUntouched DEF ExpireGrant
  <2>7. CASE UNCHANGED mailVars
    BY <2>7, MailUntouched, LinksUntouched DEF mailVars, grantVars
  <2>8. QED
    BY <2>1, <2>2, <2>3, <2>4, <2>5, <2>6, <2>7 DEF NotificationsNext, DispatchNotice
<1>3. QED
  BY <1>1, <1>2, PTL DEF NotificationsSpec

\* A notice's attempts are numbered without a gap, the last explains its status, what
\* counts as delivered has left the provider, and a link serves once: for any number
\* of notices, dispatchers, downloads and attempts, and whoever dies when.
THEOREM NoticesAndLinksAreSound == NotificationsSpec => []NoticesAndLinksHold
BY MailInvariant, MailInvSuffices, PTL

-----------------------------------------------------------------------------
(* Types *)

\* What LimiterTyped leaves open.
LimiterRest ==
  /\ cooling \subseteq WebProcesses /\ limiterUp \in BOOLEAN
  /\ \A r \in LimitedCalls : call[r].phase \in {"new", "counted", "local", "decided"}

\* The windows, the counters and the requests keep their types.
THEOREM LimiterTypes == RateLimitSpec => []RateLimitTypeOK
<1>1. RateLimitInit => LimiterRest
  BY DEF RateLimitInit, LimiterRest, NewCall
<1>2. BudgetInv /\ LimiterRest /\ [RateLimitNext]_limitVars => LimiterRest'
  <2> SUFFICES ASSUME BudgetInv, LimiterRest, [RateLimitNext]_limitVars PROVE LimiterRest'
    OBVIOUS
  <2>1. call = [r \in LimitedCalls |-> call[r]]
    BY DEF BudgetInv, LimiterTyped
  <2>2. ASSUME NEW r \in LimitedCalls, NEW c, call' = [call EXCEPT ![r] = c],
               c.phase \in {"counted", "local", "decided"},
               cooling' \subseteq WebProcesses, limiterUp' = limiterUp
        PROVE  LimiterRest'
    BY <2>1, <2>2 DEF LimiterRest
  <2>3. ASSUME NEW r \in LimitedCalls, AdmitUnattributed(r) \/ CountArrives(r) \/ consumeRateLimit(r)
        PROVE  LimiterRest'
    <3>1. [phase |-> "decided"].phase = "decided"
      OBVIOUS
    <3>2. call' = [call EXCEPT ![r] = [phase |-> "decided"]] /\ UNCHANGED <<cooling, limiterUp>>
      BY <2>3 DEF AdmitUnattributed, CountArrives, consumeRateLimit, Decide
    <3>3. QED
      BY <2>2, <3>1, <3>2 DEF LimiterRest
  <2>4. ASSUME NEW r \in LimitedCalls, NEW p \in WebProcesses, BackendFails(r, p) \/ SkipBackend(r, p)
        PROVE  LimiterRest'
    <3> DEFINE c == [phase |-> "local", process |-> p]
    <3>1. c.phase = "local"
      OBVIOUS
    <3>2. call' = [call EXCEPT ![r] = c] /\ cooling' \subseteq cooling \cup {p} /\ UNCHANGED limiterUp
      BY <2>4 DEF BackendFails, SkipBackend
    <3> HIDE DEF c
    <3>3. QED
      BY <2>2, <3>1, <3>2 DEF LimiterRest
  <2>5. ASSUME NEW r \in LimitedCalls, NEW p \in WebProcesses, Increment(r, p) PROVE LimiterRest'
    <3> DEFINE c == [phase |-> "counted", process |-> p, count |-> sharedWindow'.count,
                     window |-> <<"shared", sharedWindow.number>>]
    <3>1. c.phase = "counted"
      OBVIOUS
    <3>2. call' = [call EXCEPT ![r] = c] /\ UNCHANGED <<cooling, limiterUp>>
      BY <2>5 DEF Increment
    <3> HIDE DEF c
    <3>3. QED
      BY <2>2, <3>1, <3>2 DEF LimiterRest
  <2>6. ASSUME call' = call, cooling' \subseteq cooling, limiterUp' \in BOOLEAN PROVE LimiterRest'
    BY <2>6 DEF LimiterRest
  <2>7. CASE UNCHANGED limitVars
    BY <2>6, <2>7 DEF limitVars, LimiterRest
  <2>8. CASE SharedWindowEnds \/ LimiterChanges
    BY <2>6, <2>8 DEF SharedWindowEnds, LimiterChanges, LimiterRest
  <2>9. ASSUME NEW p \in WebProcesses, LocalWindowEnds(p) \/ CooldownEnds(p) PROVE LimiterRest'
    BY <2>6, <2>9 DEF LocalWindowEnds, CooldownEnds, LimiterRest
  <2>10. QED
    BY <2>3, <2>4, <2>5, <2>7, <2>8, <2>9 DEF RateLimitNext
<1>3. BudgetInv /\ LimiterRest => RateLimitTypeOK
  BY DEF BudgetInv, LimiterTyped, LimiterRest, RateLimitTypeOK
<1>4. QED
  BY <1>1, <1>2, <1>3, BudgetInvariant, PTL DEF RateLimitSpec

\* What JobsTyped leaves open.
BeatRow == [status : BeatStatuses \cup {"NONE"}, age : 0..(StaleAfter + 1)]
RunsTyped ==
  /\ jobMode \in {"worker", "serverless"}
  /\ \A d \in Deliveries : jobRun[d].phase \in {"idle", "arrived", "read", "claimed", "ran", "recorded", "answered"}
  /\ ended \subseteq JobStatuses /\ trouble \subseteq Probes
FleetTyped ==
  /\ process \in [Residents -> {"down", "up"}]
  /\ pendingBeats \in [Instances -> SUBSET BeatStatuses]
  /\ beat \in [Instances -> BeatRow]

\* The endpoint and its scheduler.
LEMMA RunsStep ==
  ASSUME JobsInv, RunsTyped, [OperationsNext]_operationsVars PROVE RunsTyped'
<1>1. jobRun = [d \in Deliveries |-> jobRun[d]]
  BY DEF JobsInv, JobsTyped
<1>2. ASSUME NEW d \in Deliveries, NEW r, jobRun' = [jobRun EXCEPT ![d] = r],
             r.phase \in {"idle", "arrived", "read", "claimed", "ran", "recorded", "answered"},
             UNCHANGED <<jobMode, trouble>>, ended' \subseteq JobStatuses
      PROVE  RunsTyped'
  BY <1>1, <1>2 DEF RunsTyped
<1>3. ASSUME UNCHANGED <<jobMode, jobRun, ended>>, trouble' \subseteq Probes PROVE RunsTyped'
  BY <1>3 DEF RunsTyped
<1>4. /\ [phase |-> "arrived"].phase = "arrived" /\ [phase |-> "claimed"].phase = "claimed"
      /\ NoRun.phase = "idle" /\ \A code : Answered(code).phase = "answered"
      /\ \A b : [phase |-> "read", exists |-> b].phase = "read"
      /\ \A s : [phase |-> "ran", status |-> s].phase = "ran"
      /\ \A s : [phase |-> "recorded", status |-> s].phase = "recorded"
  BY DEF NoRun, Answered
<1>5. ASSUME NEW d \in Deliveries, Deliver(d) \/ RejectDelivery(d) \/ KillRun(d) \/ AnswerArrives(d)
      PROVE  RunsTyped'
  <2>1. \/ jobRun' = [jobRun EXCEPT ![d] = [phase |-> "arrived"]]
        \/ jobRun' = [jobRun EXCEPT ![d] = Answered(503)]
        \/ jobRun' = [jobRun EXCEPT ![d] = NoRun]
    BY <1>5 DEF Deliver, RejectDelivery, KillRun, AnswerArrives
  <2>2. UNCHANGED <<jobMode, ended, trouble>>
    BY <1>5 DEF Deliver, RejectDelivery, KillRun, AnswerArrives
  <2>3. QED
    BY <1>2, <1>4, <2>1, <2>2 DEF RunsTyped
<1>6. ASSUME NEW d \in Deliveries, FindReceipt(d) \/ ClaimAgain(d) \/ FinishRun(d) PROVE RunsTyped'
  <2>1. \/ jobRun' = [jobRun EXCEPT ![d] = Answered(200)]
        \/ jobRun' = [jobRun EXCEPT ![d] = [phase |-> "read", exists |-> receipt # NoReceipt]]
        \/ jobRun' = [jobRun EXCEPT ![d] = Answered(500)]
        \/ jobRun' = [jobRun EXCEPT ![d] = [phase |-> "claimed"]]
        \/ jobRun' = [jobRun EXCEPT ![d] = Answered(jobOutcomeHttpStatus(jobRun[d].status))]
    BY <1>6 DEF FindReceipt, ClaimAgain, FinishRun
  <2>2. UNCHANGED <<jobMode, ended, trouble>>
    BY <1>6 DEF FindReceipt, ClaimAgain, FinishRun
  <2>3. QED
    BY <1>2, <1>4, <2>1, <2>2 DEF RunsTyped
<1>7. ASSUME NEW d \in Deliveries, NEW b \in BOOLEAN, ClaimFirst(d, b) PROVE RunsTyped'
  <2>1. \/ jobRun' = [jobRun EXCEPT ![d] = [phase |-> "claimed"]]
        \/ jobRun' = [jobRun EXCEPT ![d] = Answered(200)]
    BY <1>7 DEF ClaimFirst
  <2>2. UNCHANGED <<jobMode, ended, trouble>>
    BY <1>7 DEF ClaimFirst
  <2>3. QED
    BY <1>2, <1>4, <2>1, <2>2 DEF RunsTyped
<1>8. ASSUME NEW d \in Deliveries, NEW b \in BOOLEAN, recordJobDeliveryOutcome(d, b) PROVE RunsTyped'
  <2>1. jobRun[d] \in Running
    BY <1>8 DEF recordJobDeliveryOutcome, JobsInv, JobsTyped
  <2>2. [jobRun[d] EXCEPT !.phase = "recorded"] = [phase |-> "recorded", status |-> jobRun[d].status]
    BY <2>1 DEF Running
  <2>3. jobRun' = [jobRun EXCEPT ![d] = [phase |-> "recorded", status |-> jobRun[d].status]]
    BY <1>1, <1>8, <2>2 DEF recordJobDeliveryOutcome
  <2>4. UNCHANGED <<jobMode, ended, trouble>>
    BY <1>8 DEF recordJobDeliveryOutcome
  <2>5. QED
    BY <1>2, <1>4, <2>3, <2>4 DEF RunsTyped
<1>9. ASSUME NEW d \in Deliveries, NEW status \in JobStatuses, RunJob(d, status) PROVE RunsTyped'
  <2>1. /\ jobRun' = [jobRun EXCEPT ![d] = [phase |-> "ran", status |-> status]]
        /\ ended' = ended \cup {status} /\ UNCHANGED <<jobMode, trouble>>
    BY <1>9 DEF RunJob
  <2>2. QED
    BY <1>2, <1>4, <2>1 DEF RunsTyped
<1>10. CASE GiveUp \/ pruneJobDeliveryReceipts \/ TimePasses
  BY <1>3, <1>10 DEF GiveUp, pruneJobDeliveryReceipts, TimePasses, jobVars, RunsTyped
<1>11. ASSUME NEW i \in Residents, StartWorker(i) \/ BeatWorker(i) \/ StopWorker(i) \/ CrashWorker(i)
       PROVE  RunsTyped'
  BY <1>3, <1>11 DEF StartWorker, BeatWorker, StopWorker, CrashWorker, jobVars, RunsTyped
<1>12. ASSUME NEW i \in Instances, NEW status \in BeatStatuses, NEW lands \in BOOLEAN,
              recordWorkerHeartbeat(i, status, lands)
       PROVE  RunsTyped'
  BY <1>3, <1>12 DEF recordWorkerHeartbeat, jobVars, RunsTyped
<1>13. ASSUME NEW p \in Probes, ProbeChanges(p) PROVE RunsTyped'
  BY <1>3, <1>13 DEF ProbeChanges, jobVars, RunsTyped
<1>14. CASE UNCHANGED operationsVars
  BY <1>3, <1>14 DEF operationsVars, jobVars, RunsTyped
<1>15. QED
  BY <1>5, <1>6, <1>7, <1>8, <1>9, <1>10, <1>11, <1>12, <1>13, <1>14 DEF OperationsNext, HandleDelivery

\* The heartbeats.
LEMMA FleetStep ==
  ASSUME JobsInv, FleetTyped, [OperationsNext]_operationsVars PROVE FleetTyped'
<1>1. ASSUME UNCHANGED fleetVars PROVE FleetTyped'
  BY <1>1 DEF fleetVars, FleetTyped, BeatRow, Instances
<1>2. \A i \in Residents : i \in Instances
  BY DEF Instances
<1>3. ASSUME NEW i \in Instances, NEW status \in BeatStatuses, WriteBeat(i, status)
      PROVE  pendingBeats' \in [Instances -> SUBSET BeatStatuses]
  BY <1>3 DEF WriteBeat, FleetTyped
<1>4. ASSUME NEW i \in Residents, StartWorker(i) \/ BeatWorker(i) \/ StopWorker(i) \/ CrashWorker(i)
      PROVE  FleetTyped'
  <2>1. UNCHANGED beat /\ process' \in [Residents -> {"down", "up"}]
    BY <1>4 DEF StartWorker, BeatWorker, StopWorker, CrashWorker, FleetTyped
  <2>2. CASE CrashWorker(i)
    BY <1>2, <2>1, <2>2 DEF CrashWorker, FleetTyped, BeatRow
  <2>3. CASE ~CrashWorker(i)
    <3>1. \E status \in BeatStatuses : WriteBeat(i, status)
      BY <1>4, <2>3 DEF StartWorker, BeatWorker, StopWorker, BeatStatuses
    <3>2. pendingBeats' \in [Instances -> SUBSET BeatStatuses]
      BY <1>2, <1>3, <3>1
    <3>3. QED
      BY <2>1, <3>2 DEF FleetTyped
  <2>4. QED
    BY <2>2, <2>3
<1>5. ASSUME NEW d \in Deliveries, FinishRun(d) PROVE FleetTyped'
  <2>1. \E status \in BeatStatuses : WriteBeat("default", status)
    BY <1>5 DEF FinishRun, BeatStatuses
  <2>2. "default" \in Instances
    BY DEF Instances
  <2>3. pendingBeats' \in [Instances -> SUBSET BeatStatuses] /\ UNCHANGED <<process, beat>>
    BY <1>3, <1>5, <2>1, <2>2 DEF FinishRun
  <2>4. QED
    BY <2>3 DEF FleetTyped
<1>6. ASSUME NEW i \in Instances, NEW status \in BeatStatuses, NEW lands \in BOOLEAN,
             recordWorkerHeartbeat(i, status, lands)
      PROVE  FleetTyped'
  <2>1. pendingBeats' \in [Instances -> SUBSET BeatStatuses] /\ UNCHANGED process
    BY <1>6 DEF recordWorkerHeartbeat, FleetTyped
  <2>2. [status |-> status, age |-> 0] \in BeatRow
    BY OperationsConstants DEF BeatRow
  <2>3. PICK b \in BeatRow : b = [status |-> status, age |-> 0]
    BY <2>2
  <2>4. beat' = beat \/ beat' = [beat EXCEPT ![i] = b]
    BY <1>6, <2>3 DEF recordWorkerHeartbeat
  <2>5. beat' \in [Instances -> BeatRow]
    BY <2>4 DEF FleetTyped
  <2>6. QED
    BY <2>1, <2>5 DEF FleetTyped
<1>7. CASE TimePasses
  <2>1. ASSUME NEW i \in Instances PROVE beat'[i] \in BeatRow
    <3>1. beat[i] \in BeatRow
      BY DEF FleetTyped
    <3>2. PICK b \in BeatRow : b = beat[i]
      BY <3>1
    <3>3. beat'[i] = IF b = NoBeat \/ b.age > StaleAfter THEN b ELSE [b EXCEPT !.age = @ + 1]
      BY <1>7, <3>2 DEF TimePasses
    <3>4. CASE b = NoBeat \/ b.age > StaleAfter
      BY <3>3, <3>4
    <3>5. CASE ~(b = NoBeat \/ b.age > StaleAfter)
      BY <3>3, <3>5, OperationsConstants DEF BeatRow
    <3>6. QED
      BY <3>4, <3>5
  <2>2. beat' = [i \in Instances |-> beat'[i]] /\ UNCHANGED <<process, pendingBeats>>
    BY <1>7 DEF TimePasses
  <2>3. beat' \in [Instances -> BeatRow]
    BY <2>1, <2>2
  <2>4. QED
    BY <2>2, <2>3 DEF FleetTyped
<1>8. \/ UNCHANGED fleetVars \/ TimePasses
      \/ \E i \in Residents : StartWorker(i) \/ BeatWorker(i) \/ StopWorker(i) \/ CrashWorker(i)
      \/ \E d \in Deliveries : FinishRun(d)
      \/ \E i \in Instances, status \in BeatStatuses, lands \in BOOLEAN : recordWorkerHeartbeat(i, status, lands)
  BY DEF OperationsNext, operationsVars, fleetVars, HandleDelivery, Deliver, RejectDelivery, FindReceipt, ClaimAgain,
     ClaimFirst, recordJobDeliveryOutcome, RunJob, AnswerArrives, KillRun, GiveUp, pruneJobDeliveryReceipts,
     ProbeChanges
<1>9. QED
  BY <1>1, <1>4, <1>5, <1>6, <1>7, <1>8

\* Messages, receipts, requests and heartbeats keep their types; a heartbeat
\* never looks older than the first age that is stale.
THEOREM OperationsTypes == OperationsSpec => []OperationsTypeOK
<1>1. OperationsInit => RunsTyped /\ FleetTyped
  BY OperationsConstants DEF OperationsInit, RunsTyped, FleetTyped, NoRun, NoBeat, BeatRow
<1>2. JobsInv /\ RunsTyped /\ FleetTyped /\ [OperationsNext]_operationsVars => RunsTyped' /\ FleetTyped'
  BY RunsStep, FleetStep
<1>3. JobsInv /\ RunsTyped /\ FleetTyped => OperationsTypeOK
  BY DEF JobsInv, JobsTyped, RunsTyped, FleetTyped, BeatRow, OperationsTypeOK
<1>4. QED
  BY <1>1, <1>2, <1>3, JobsInvariant, PTL DEF OperationsSpec

\* What MailTyped and LinksTyped leave open.
MailRest ==
  /\ mailBooking \in [Notices -> {"CONFIRMED", "REFUNDED"}]
  /\ mailbox \subseteq DeliveryKeys /\ served \subseteq Downloads \X DeliveryKeys

\* Notices, attempts, mails and links keep their types: what is sent and what is
\* served goes by the key of one attempt of one notice.
THEOREM NotificationTypes == NotificationsSpec => []NotificationsTypeOK
<1>1. NotificationsInit => MailRest
  BY DEF NotificationsInit, MailRest
<1>2. MailInv /\ LinksInv /\ MailRest /\ [NotificationsNext]_mailVars => MailRest'
  <2> SUFFICES ASSUME MailInv, LinksInv, MailRest, [NotificationsNext]_mailVars PROVE MailRest'
    OBVIOUS
  <2>1. ASSUME NEW n \in Notices, RefundNotifiedBooking(n) PROVE MailRest'
    BY <2>1 DEF RefundNotifiedBooking, MailRest, grantVars, DeliveryKeys
  <2>2. ASSUME NEW w \in MailDispatchers, NEW result \in SendResults, NEW accepted \in BOOLEAN,
               SendMail(w, result, accepted)
        PROVE  MailRest'
    <3>1. mailTx[w] \in ClaimedMail
      BY <2>2 DEF SendMail, MailInv, MailTyped, NoMailTx, SentMail
    <3>2. KeyOf(w) \in DeliveryKeys
      BY <3>1 DEF KeyOf, ClaimedMail, DeliveryKeys
    <3>3. QED
      BY <2>2, <3>2 DEF SendMail, MailRest, grantVars, Notices
  <2>3. ASSUME NEW d \in Downloads, CommitDownload(d) PROVE MailRest'
    <3>1. download[d] \in OpenDownload
      BY <2>3 DEF CommitDownload, LinksInv, LinksTyped, NoDownload
    <3>2. download[d].key \in DeliveryKeys
      BY <3>1 DEF OpenDownload
    <3>3. QED
      BY <2>3, <3>2 DEF CommitDownload, MailRest, Notices
  <2>4. ASSUME UNCHANGED <<mailBooking, mailbox, served>> PROVE MailRest'
    BY <2>4 DEF MailRest, DeliveryKeys, Notices
  <2>5. \/ UNCHANGED <<mailBooking, mailbox, served>>
        \/ \E n \in Notices : RefundNotifiedBooking(n)
        \/ \E w \in MailDispatchers, result \in SendResults, accepted \in BOOLEAN : SendMail(w, result, accepted)
        \/ \E d \in Downloads : CommitDownload(d)
    BY DEF NotificationsNext, mailVars, grantVars, DispatchNotice, EnqueueNotice, MakeDue, ClaimNotice, CommitNotice,
       AbortNotice, LockGrant, EndDownload, ExpireGrant
  <2>6. QED
    BY <2>1, <2>2, <2>3, <2>4, <2>5
<1>3. MailInv /\ LinksInv /\ MailRest => NotificationsTypeOK
  <2> SUFFICES ASSUME MailInv, LinksInv, MailRest PROVE NotificationsTypeOK
    OBVIOUS
  <2>1. \A w \in MailDispatchers : mailTx[w].phase \in {"idle", "claimed", "sent"}
    BY DEF MailInv, MailTyped, NoMailTx, ClaimedMail, SentMail
  <2>2. QED
    BY <2>1 DEF MailInv, MailTyped, LinksInv, LinksTyped, MailRest, NotificationsTypeOK, NoticeRow
<1>4. QED
  BY <1>1, <1>2, <1>3, MailInvariant, PTL DEF NotificationsSpec

\* The rows that dispatchers hold are pending, each is held by one, and a pending
\* row has an attempt left.
ClaimsArePending ==
  /\ \A e \in Changes : relayRow[e].status = "PENDING" => relayRow[e].attemptCount < RelayAttempts
  /\ \A e \in Changes : relayRow[e].attemptCount <= RelayAttempts
  /\ \A w \in Relays : \A e \in ClaimedBy(w) : relayRow[e].status = "PENDING"
  /\ \A v, w \in Relays : v # w => ClaimedBy(v) \cap ClaimedBy(w) = {}
  /\ \A e \in Changes : relayRow[e].status # "NONE" => e \in changes

\* The dispatchers' steps.
LEMMA ClaimsStep ==
  ASSUME RelayInv, ClaimsArePending, [RealtimeNext]_realtimeVars PROVE ClaimsArePending'
<1>1. RelayTyped
  BY DEF RelayInv
<1>2. ASSUME UNCHANGED <<relayRow, relayTx>>, changes \subseteq changes' PROVE ClaimsArePending'
  BY <1>2 DEF ClaimsArePending, ClaimedBy, Changes
<1>3. ASSUME NEW e \in Changes, CommitChange(e) PROVE ClaimsArePending'
  <2>1. relayRow[e].status = "NONE"
    BY <1>1, <1>3 DEF CommitChange, ClaimsArePending, RelayTyped
  <2>2. \A w \in Relays : e \notin ClaimedBy(w)
    BY <2>1 DEF ClaimsArePending
  <2>3. /\ UNCHANGED relayTx /\ changes' = changes \cup {e}
        /\ relayRow' = [relayRow EXCEPT ![e] = [status |-> "PENDING", attemptCount |-> 0, due |-> TRUE]]
    BY <1>3 DEF CommitChange
  <2>4. /\ relayRow'[e].status = "PENDING" /\ relayRow'[e].attemptCount = 0
        /\ \A f \in Changes : f # e => relayRow'[f] = relayRow[f]
    BY <1>1, <2>3 DEF RelayTyped
  <2>5. \A w \in Relays : ClaimedBy(w)' = ClaimedBy(w) /\ ClaimedBy(w) \subseteq Changes
    BY <1>1, <2>3 DEF ClaimedBy, RelayTyped
  <2>6. QED
    BY <2>2, <2>3, <2>4, <2>5, RealtimeConstants DEF ClaimsArePending, Changes
<1>4. ASSUME NEW e \in Changes, BackoffElapses(e) PROVE ClaimsArePending'
  <2>1. \A f \in Changes : relayRow'[f].status = relayRow[f].status /\ relayRow'[f].attemptCount = relayRow[f].attemptCount
    BY <1>1, <1>4 DEF BackoffElapses, RelayTyped
  <2>2. UNCHANGED <<relayTx, changes>>
    BY <1>4 DEF BackoffElapses
  <2>3. \A w \in Relays : ClaimedBy(w)' = ClaimedBy(w) /\ ClaimedBy(w) \subseteq Changes
    BY <1>1, <2>2 DEF ClaimedBy, RelayTyped
  <2>4. QED
    BY <2>1, <2>2, <2>3 DEF ClaimsArePending, Changes
<1>5. ASSUME NEW w \in Relays, UNCHANGED <<relayRow, changes>>,
             ClaimedBy(w)' \subseteq ClaimedBy(w), \A v \in Relays : v # w => ClaimedBy(v)' = ClaimedBy(v)
      PROVE  ClaimsArePending'
  BY <1>5 DEF ClaimsArePending, Changes
<1>6. ASSUME NEW w \in Relays, ClaimBatch(w) PROVE ClaimsArePending'
  <2>1. UNCHANGED <<relayRow, changes>> /\ relayTx' = [relayTx EXCEPT ![w].todo = Oldest(DueRows)]
    BY <1>6 DEF ClaimBatch
  <2>2. Oldest(DueRows) \subseteq DueRows
    BY DEF Oldest
  <2>3. relayTx[w] = NoRelay
    BY <1>6 DEF ClaimBatch
  <2>4. ClaimedBy(w)' = Oldest(DueRows) /\ \A v \in Relays : v # w => ClaimedBy(v)' = ClaimedBy(v)
    BY <1>1, <2>1, <2>3 DEF ClaimedBy, RelayTyped, NoRelay
  <2>5. \A e \in DueRows : e \in Changes /\ relayRow[e].status = "PENDING" /\ \A v \in Relays : e \notin ClaimedBy(v)
    BY DEF DueRows
  <2>6. \A e \in ClaimedBy(w)' : relayRow[e].status = "PENDING" /\ \A v \in Relays : e \notin ClaimedBy(v)
    BY <2>2, <2>4, <2>5
  <2>7. \A v \in Relays : \A e \in ClaimedBy(v)' : relayRow[e].status = "PENDING"
    BY <2>4, <2>6 DEF ClaimsArePending
  <2>8. \A u, v \in Relays : u # v => ClaimedBy(u)' \cap ClaimedBy(v)' = {}
    <3> SUFFICES ASSUME NEW u \in Relays, NEW v \in Relays, u # v, NEW e \in ClaimedBy(u)', e \in ClaimedBy(v)'
                 PROVE  FALSE
      OBVIOUS
    <3>1. CASE u = w
      BY <2>4, <2>6, <3>1
    <3>2. CASE v = w
      BY <2>4, <2>6, <3>2
    <3>3. CASE u # w /\ v # w
      BY <2>4, <3>3 DEF ClaimsArePending
    <3>4. QED
      BY <3>1, <3>2, <3>3
  <2>9. QED
    BY <2>1, <2>7, <2>8 DEF ClaimsArePending, Changes
<1>7. ASSUME NEW w \in Relays, NEW e \in relayTx[w].todo, NEW a \in BOOLEAN, NEW b \in BOOLEAN, publish(w, e, a, b)
      PROVE  ClaimsArePending'
  <2>1. UNCHANGED <<relayRow, changes>>
    BY <1>7 DEF publish
  <2>2. PICK t : t = relayTx[w]
    OBVIOUS
  <2>3. t \in [todo : SUBSET Changes, ok : SUBSET Changes, failed : SUBSET Changes] /\ e \in t.todo
    BY <1>1, <2>2 DEF RelayTyped
  <2>4. PICK u : u = [todo |-> t.todo \ {e}, ok |-> IF b THEN t.ok \cup {e} ELSE t.ok,
                      failed |-> IF b THEN t.failed ELSE t.failed \cup {e}]
    OBVIOUS
  <2>5. relayTx' = [v \in Relays |-> IF v = w THEN u ELSE relayTx[v]]
    BY <1>1, <1>7, <2>2, <2>3, <2>4, PublishMovesOn
  <2>6. u.todo \subseteq t.todo /\ u.ok \subseteq t.ok \cup {e} /\ u.failed \subseteq t.failed \cup {e}
    BY <2>4
  <2>7. ClaimedBy(w)' \subseteq ClaimedBy(w) /\ \A v \in Relays : v # w => ClaimedBy(v)' = ClaimedBy(v)
    BY <2>2, <2>3, <2>5, <2>6 DEF ClaimedBy
  <2>8. QED
    BY <1>5, <2>1, <2>7
<1>8. ASSUME NEW w \in Relays, AbortBatch(w) PROVE ClaimsArePending'
  <2>1. UNCHANGED <<relayRow, changes>> /\ relayTx'[w] = NoRelay /\ \A v \in Relays : v # w => relayTx'[v] = relayTx[v]
    BY <1>1, <1>8 DEF AbortBatch, RelayTyped
  <2>2. ClaimedBy(w)' \subseteq ClaimedBy(w)
    BY <2>1 DEF ClaimedBy, NoRelay
  <2>3. QED
    BY <1>5, <2>1, <2>2 DEF ClaimedBy
<1>9. ASSUME NEW w \in Relays, CommitBatch(w) PROVE ClaimsArePending'
  <2>1. /\ UNCHANGED changes
        /\ relayRow' = [e \in Changes |-> IF e \in ClaimedBy(w) THEN RowAfterBatch(w, e) ELSE relayRow[e]]
        /\ relayTx' = [relayTx EXCEPT ![w] = NoRelay]
    BY <1>9 DEF CommitBatch
  <2>2. ClaimedBy(w)' = {} /\ \A v \in Relays : v # w => ClaimedBy(v)' = ClaimedBy(v) /\ ClaimedBy(v) \subseteq Changes
    BY <1>1, <2>1 DEF RelayTyped, ClaimedBy, NoRelay
  <2>3. \A e \in Changes : e \notin ClaimedBy(w) => relayRow'[e] = relayRow[e]
    BY <2>1
  <2>4. ASSUME NEW e \in Changes, e \in ClaimedBy(w)
        PROVE  /\ relayRow'[e].status = "PENDING" => relayRow'[e].attemptCount < RelayAttempts
               /\ relayRow'[e].attemptCount <= RelayAttempts /\ e \in changes
    <3>1. relayRow'[e] = RowAfterBatch(w, e)
      BY <2>1, <2>4
    <3>2. PICK r \in [status : {"NONE", "PENDING", "PROCESSED", "DEAD_LETTER"}, attemptCount : Nat, due : BOOLEAN] : r = relayRow[e]
      BY <1>1 DEF RelayTyped
    <3>3. r.status = "PENDING" /\ r.attemptCount < RelayAttempts /\ e \in changes
      BY <2>4, <3>2 DEF ClaimsArePending
    <3>4. CASE e \in relayTx[w].ok
      <4>1. relayRow'[e] = [r EXCEPT !.status = "PROCESSED", !.due = FALSE]
        BY <3>1, <3>2, <3>4 DEF RowAfterBatch
      <4>2. QED
        BY <3>2, <3>3, <4>1, RealtimeConstants
    <3>5. CASE e \notin relayTx[w].ok
      <4>1. PICK n \in Nat : n = r.attemptCount + 1
        BY <3>2
      <4>2. relayRow'[e] = [status |-> IF n >= RelayAttempts THEN "DEAD_LETTER" ELSE "PENDING", attemptCount |-> n, due |-> FALSE]
        BY <3>1, <3>2, <3>5, <4>1 DEF RowAfterBatch, shouldDeadLetterOutboxEvent
      <4>3. QED
        BY <3>2, <3>3, <4>1, <4>2, RealtimeConstants
    <3>6. QED
      BY <3>4, <3>5
  <2>5. \A v \in Relays : \A e \in ClaimedBy(v)' : relayRow'[e].status = "PENDING"
    <3> SUFFICES ASSUME NEW v \in Relays, NEW e \in ClaimedBy(v)' PROVE relayRow'[e].status = "PENDING"
      OBVIOUS
    <3>1. v # w /\ e \in ClaimedBy(v) /\ e \in Changes
      BY <2>2
    <3>2. e \notin ClaimedBy(w) /\ relayRow[e].status = "PENDING"
      BY <3>1 DEF ClaimsArePending
    <3>3. QED
      BY <2>3, <3>1, <3>2
  <2>6. \A u, v \in Relays : u # v => ClaimedBy(u)' \cap ClaimedBy(v)' = {}
    BY <2>2 DEF ClaimsArePending
  <2>7. QED
    BY <2>1, <2>3, <2>4, <2>5, <2>6 DEF ClaimsArePending, Changes
<1>10. \/ UNCHANGED <<relayRow, relayTx, changes>>
       \/ \E e \in Changes : CommitChange(e) \/ BackoffElapses(e)
       \/ \E w \in Relays : \/ ClaimBatch(w) \/ CommitBatch(w) \/ AbortBatch(w)
                            \/ \E e \in relayTx[w].todo, a, b \in BOOLEAN : publish(w, e, a, b)
  <2>1. CASE RelayNext
    BY <2>1 DEF RelayNext, Dispatch, ForgetKey
  <2>2. CASE GatewayNext
    BY <2>2
    DEF GatewayNext, RedisChanges, GatewayGoesLive, GatewayLosesRedis, GatewayReads, GatewayStops, GatewayStarts, relayVars
  <2>3. CASE PageNext
    BY <2>3
    DEF PageNext, OnlyPage, SocketConnects, AttemptFails, AttemptDenied, SocketDisconnects, FallbackTimerFires,
        ReconnectAttempt, PageTick, Poll, Focus, PageHears, SnapshotRead, RefreshEnds, relayVars
  <2>4. CASE UNCHANGED realtimeVars
    BY <2>4 DEF realtimeVars, relayVars
  <2>5. QED
    BY <2>1, <2>2, <2>3, <2>4 DEF RealtimeNext
<1>11. QED
  BY <1>2, <1>3, <1>4, <1>6, <1>7, <1>8, <1>9, <1>10


\* What the page keeps: its timers within their intervals, and nothing seen or
\* on its way that has not been committed.
PageOK(p, known) ==
  /\ {"state", "pollAge", "retryAge", "inFlight", "view"} \subseteq DOMAIN p
  /\ p.state \in ConnectionState
  /\ p.pollAge \in 0..PollInterval /\ p.retryAge \in 0..ReconnectDelay
  /\ p.view \subseteq known /\ \A r \in p.inFlight : r.snapshot \subseteq known
GatewayOK ==
  /\ "cursor" \in DOMAIN gateway
  /\ gateway.cursor \in {NoCursor} \cup 0..Len(stream)

\* setConnectionState, refresh and the handlers built from them.
LEMMA StatesKeepPages ==
  ASSUME NEW p, NEW known, PageOK(p, known), NEW st \in ConnectionState
  PROVE  PageOK(InState(p, st), known)
<1>1. PollInterval \in Nat
  BY RealtimeConstants
<1>2. QED
  BY <1>1 DEF PageOK, InState
LEMMA RefreshesKeepPages ==
  ASSUME NEW p, NEW known, PageOK(p, known)
  PROVE  PageOK(Refreshed(p), known)
  BY DEF PageOK, Refreshed, Asked
LEMMA ResetsKeepPages ==
  ASSUME NEW p, NEW known, PageOK(p, known), NEW c, NEW a, NEW b
  PROVE  /\ PageOK([p EXCEPT !.connected = c, !.attempting = a, !.armed = b, !.retryAge = 0], known)
         /\ PageOK([p EXCEPT !.connected = c, !.armed = b, !.retryAge = 0], known)
         /\ PageOK([p EXCEPT !.attempting = a, !.retryAge = 0], known)
         /\ PageOK([p EXCEPT !.attempting = a, !.retryAge = 0, !.socket = b], known)
         /\ PageOK([p EXCEPT !.attempting = a], known)
         /\ PageOK([p EXCEPT !.armed = b], known)
         /\ PageOK([p EXCEPT !.pollAge = 0], known)
         /\ PageOK([p EXCEPT !.lastTimestamp = a, !.seen = b], known)
<1>1. PollInterval \in Nat /\ ReconnectDelay \in Nat
  BY RealtimeConstants
<1>2. QED
  BY <1>1 DEF PageOK


\* More changes are only committed, never taken back.
LEMMA PagesStay ==
  ASSUME NEW p, NEW known, NEW more, PageOK(p, known), known \subseteq more
  PROVE  PageOK(p, more)
  BY DEF PageOK

\* Every step of the page.
LEMMA PageKeepsPages ==
  ASSUME PageOK(page, changes), PageNext PROVE PageOK(page', changes)
<1>1. {"connecting", "live", "reconnecting", "fallback"} = ConnectionState
  BY DEF ConnectionState
<1>2. CASE SocketConnects
  <2>1. page' = Refreshed(InState([page EXCEPT !.connected = TRUE, !.attempting = FALSE,
                                               !.armed = FALSE, !.retryAge = 0], "live"))
    BY <1>2 DEF SocketConnects
  <2>2. PageOK([page EXCEPT !.connected = TRUE, !.attempting = FALSE, !.armed = FALSE, !.retryAge = 0], changes)
    BY ResetsKeepPages
  <2>3. QED
    BY <1>1, <2>1, <2>2, StatesKeepPages, RefreshesKeepPages
<1>3. CASE AttemptFails
  <2>1. PageOK([page EXCEPT !.attempting = FALSE, !.retryAge = 0], changes)
    BY ResetsKeepPages
  <2>2. QED
    BY <1>1, <1>3, <2>1, StatesKeepPages DEF AttemptFails
<1>3a. CASE AttemptDenied
  <2>1. PageOK([page EXCEPT !.attempting = FALSE, !.retryAge = 0, !.socket = FALSE], changes)
    BY ResetsKeepPages
  <2>2. QED
    BY <1>1, <1>3a, <2>1, StatesKeepPages DEF AttemptDenied
<1>4. CASE SocketDisconnects
  <2>1. PageOK([page EXCEPT !.connected = FALSE, !.armed = TRUE, !.retryAge = 0], changes)
    BY ResetsKeepPages
  <2>2. QED
    BY <1>1, <1>4, <2>1, StatesKeepPages DEF SocketDisconnects, Dropped
<1>5. CASE FallbackTimerFires
  <2>1. PageOK([page EXCEPT !.armed = FALSE], changes)
    BY ResetsKeepPages
  <2>2. QED
    BY <1>1, <1>5, <2>1, StatesKeepPages DEF FallbackTimerFires
<1>6. CASE ReconnectAttempt
  <2>1. PageOK([page EXCEPT !.attempting = TRUE], changes)
    BY ResetsKeepPages
  <2>2. QED
    BY <1>1, <1>6, <2>1, StatesKeepPages DEF ReconnectAttempt
<1>7. CASE PageTick
  <2>1. PollInterval \in Nat /\ ReconnectDelay \in Nat
    BY RealtimeConstants
  <2>2. QED
    BY <1>7, <2>1 DEF PageTick, PageOK
<1>8. CASE Poll
  <2>1. PageOK([page EXCEPT !.pollAge = 0], changes)
    BY ResetsKeepPages
  <2>2. QED
    BY <1>8, <2>1, RefreshesKeepPages DEF Poll
<1>9. CASE Focus
  BY <1>9, RefreshesKeepPages DEF Focus
<1>10. CASE PageHears
  <2>1. PICK m : page' = CASE m.kind = "live" -> Refreshed(InState(page, "live"))
                           [] m.kind = "fallback" -> InState(page, "fallback")
                           [] OTHER -> Heard(page, m.event)
    BY <1>10 DEF PageHears
  <2>2. PageOK(Refreshed(InState(page, "live")), changes) /\ PageOK(InState(page, "fallback"), changes)
    BY <1>1, StatesKeepPages, RefreshesKeepPages
  <2>3. PageOK(Heard(page, m.event), changes)
    <3>1. PageOK([page EXCEPT !.lastTimestamp = m.event, !.seen = page.seen \cup {m.event}], changes)
      BY ResetsKeepPages
    <3>2. QED
      BY <3>1, RefreshesKeepPages DEF Heard
  <2>4. QED
    BY <2>1, <2>2, <2>3
<1>11. CASE SnapshotRead
  <2>1. page' = [page EXCEPT !.inFlight = (page.inFlight \ {Asked}) \cup {[read |-> TRUE, snapshot |-> changes]}]
    BY <1>11 DEF SnapshotRead
  <2>2. QED
    BY <2>1 DEF PageOK
<1>12. ASSUME NEW r \in page.inFlight, NEW a \in BOOLEAN, RefreshEnds(r, a) PROVE PageOK(page', changes)
  BY <1>12 DEF RefreshEnds, PageOK
<1>13. QED
  BY <1>2, <1>3, <1>4, <1>5, <1>6, <1>7, <1>8, <1>9, <1>10, <1>11, <1>12, <1>3a DEF PageNext


\* The outbox's steps leave the gateway and the page alone.
LEMMA RelayIsApart ==
  ASSUME RelayNext PROVE UNCHANGED <<gateway, page>> /\ changes \subseteq changes'
<1>1. ASSUME NEW e \in Changes, CommitChange(e) \/ BackoffElapses(e) \/ ForgetKey(e)
      PROVE  UNCHANGED <<gateway, page>> /\ changes \subseteq changes'
  BY <1>1 DEF CommitChange, BackoffElapses, ForgetKey
<1>2. ASSUME NEW w \in Relays, ClaimBatch(w) \/ CommitBatch(w) \/ AbortBatch(w)
      PROVE  UNCHANGED <<gateway, page>> /\ changes \subseteq changes'
  BY <1>2 DEF ClaimBatch, CommitBatch, AbortBatch
<1>3. ASSUME NEW w \in Relays, NEW e \in relayTx[w].todo, NEW a \in BOOLEAN, NEW b \in BOOLEAN, publish(w, e, a, b)
      PROVE  UNCHANGED <<gateway, page>> /\ changes \subseteq changes'
  BY <1>3 DEF publish
<1>4. QED
  BY <1>1, <1>2, <1>3 DEF RelayNext, Dispatch

\* The gateway's cursor, which a longer stream does not move.
LEMMA GatewayKeepsCursor ==
  ASSUME RelayInv, GatewayOK, [RealtimeNext]_realtimeVars PROVE GatewayOK'
<1>1. stream \in Seq(Changes) /\ Len(stream) \in Nat
  BY DEF RelayInv, RelayTyped
<1>2. ASSUME gateway' = gateway, stream' = stream \/ \E e \in Changes : stream' = Append(stream, e)
      PROVE  GatewayOK'
  <2>1. Len(stream') \in Nat /\ Len(stream) <= Len(stream')
    BY <1>1, <1>2
  <2>2. gateway.cursor \in {NoCursor} \cup 0..Len(stream')
    BY <1>1, <2>1 DEF GatewayOK, NoCursor
  <2>3. QED
    BY <1>2, <2>2 DEF GatewayOK, NoCursor
<1>3. CASE RelayNext
  <2>1. gateway' = gateway
    BY <1>3, RelayIsApart
  <2>2. stream' = stream \/ \E e \in Changes : stream' = Append(stream, e)
    <3>1. ASSUME NEW w \in Relays, NEW e \in relayTx[w].todo, NEW a \in BOOLEAN, NEW b \in BOOLEAN, publish(w, e, a, b)
          PROVE  stream' = stream \/ \E f \in Changes : stream' = Append(stream, f)
      <4>1. e \in Changes
        BY DEF RelayInv, RelayTyped
      <4>2. QED
        BY <3>1, <4>1 DEF publish
    <3>2. QED
      BY <1>3, <3>1 DEF RelayNext, Dispatch, CommitChange, BackoffElapses, ForgetKey, ClaimBatch, CommitBatch, AbortBatch
  <2>3. QED
    BY <1>2, <2>1, <2>2
<1>4. CASE GatewayNext
  <2>1. stream' = stream
    BY <1>4 DEF GatewayNext, relayVars, RedisChanges, GatewayGoesLive, GatewayLosesRedis, GatewayReads, GatewayStops, GatewayStarts
  <2>2. CASE RedisChanges
    BY <1>2, <2>1, <2>2 DEF RedisChanges
  <2>3. CASE GatewayGoesLive \/ GatewayLosesRedis \/ GatewayStarts
    <3>1. /\ DOMAIN gateway' = DOMAIN gateway
          /\ gateway'.cursor \in {gateway.cursor, Len(stream)}
      BY <2>3 DEF GatewayGoesLive, GatewayLosesRedis, GatewayStarts, GatewayOK
    <3>2. QED
      BY <1>1, <2>1, <3>1 DEF GatewayOK, NoCursor
  <2>4. CASE GatewayReads
    <3>1. PICK e : gateway' = [gateway EXCEPT !.cursor = gateway.cursor + 1, !.seen = @ \cup {e}]
      BY <2>4 DEF GatewayReads
    <3>2. gateway.cursor < Len(stream)
      BY <2>4 DEF GatewayReads
    <3>3. QED
      BY <1>1, <2>1, <3>1, <3>2 DEF GatewayOK, NoCursor
  <2>5. CASE GatewayStops
    BY <1>1, <2>1, <2>5 DEF GatewayStops, GatewayOK, NoCursor
  <2>6. QED
    BY <1>4, <2>2, <2>3, <2>4, <2>5 DEF GatewayNext
<1>5. CASE PageNext
  <2>1. UNCHANGED <<gateway, stream>>
    BY <1>5 DEF PageNext, OnlyPage, relayVars, SocketConnects, AttemptFails, AttemptDenied, SocketDisconnects, FallbackTimerFires,
        ReconnectAttempt, PageTick, Poll, Focus, PageHears, SnapshotRead, RefreshEnds
  <2>2. QED
    BY <1>2, <2>1
<1>6. CASE UNCHANGED realtimeVars
  BY <1>2, <1>6 DEF realtimeVars, relayVars
<1>7. QED
  BY <1>3, <1>4, <1>5, <1>6 DEF RealtimeNext

\* The page's record under every step.
ViewOK == PageOK(page, changes)
LEMMA StepsKeepPages ==
  ASSUME ViewOK, [RealtimeNext]_realtimeVars PROVE ViewOK'
<1>1. ASSUME page' = page, changes \subseteq changes' PROVE ViewOK'
  BY <1>1, PagesStay DEF ViewOK
<1>2. CASE RelayNext
  <2>1. page' = page /\ changes \subseteq changes'
    BY <1>2, RelayIsApart
  <2>2. QED
    BY <1>1, <2>1
<1>3. CASE GatewayStops
  <2>1. PageOK([page EXCEPT !.connected = FALSE, !.armed = TRUE, !.retryAge = 0], changes)
    BY ResetsKeepPages DEF ViewOK
  <2>2. PageOK(Dropped(page), changes)
    BY <2>1, StatesKeepPages DEF Dropped, ConnectionState
  <2>3. changes' = changes /\ page' = IF page.connected THEN Dropped(page) ELSE page
    BY <1>3 DEF GatewayStops
  <2>4. QED
    BY <2>2, <2>3 DEF ViewOK
<1>4. CASE RedisChanges \/ GatewayGoesLive \/ GatewayLosesRedis \/ GatewayReads \/ GatewayStarts
  BY <1>1, <1>4 DEF RedisChanges, GatewayGoesLive, GatewayLosesRedis, GatewayReads, GatewayStarts
<1>5. CASE PageNext
  <2>1. changes' = changes
    BY <1>5 DEF PageNext, OnlyPage, SocketConnects, AttemptFails, AttemptDenied, SocketDisconnects, FallbackTimerFires,
        ReconnectAttempt, PageTick, Poll, Focus, PageHears, SnapshotRead, RefreshEnds
  <2>2. QED
    BY <1>5, <2>1, PageKeepsPages DEF ViewOK
<1>6. CASE UNCHANGED realtimeVars
  BY <1>1, <1>6 DEF realtimeVars
<1>7. QED
  BY <1>2, <1>3, <1>4, <1>5, <1>6 DEF RealtimeNext, GatewayNext

\* The outbox, the gateway and the page keep their types: no row is tried more often
\* than OUTBOX_DISPATCH_MAX_ATTEMPTS, whichever dispatchers fail or die, the gateway's
\* cursor stays in the stream, and the page shows only what was committed.
THEOREM RealtimeTypes == RealtimeSpec => []RealtimeTypeOK
<1>1. RealtimeInit => ClaimsArePending /\ GatewayOK /\ ViewOK
  <2> SUFFICES ASSUME RealtimeInit PROVE ClaimsArePending /\ GatewayOK /\ ViewOK
    OBVIOUS
  <2>1. ClaimsArePending
    BY RealtimeConstants DEF RealtimeInit, ClaimsArePending, ClaimedBy, NoRow, NoRelay
  <2>2. GatewayOK
    BY DEF RealtimeInit, GatewayOK
  <2>3. ViewOK
    BY RealtimeConstants DEF RealtimeInit, ViewOK, PageOK, LoadedPage, ConnectionState
  <2>4. QED
    BY <2>1, <2>2, <2>3
<1>2. /\ RelayInv /\ ClaimsArePending /\ [RealtimeNext]_realtimeVars => ClaimsArePending'
      /\ RelayInv /\ GatewayOK /\ [RealtimeNext]_realtimeVars => GatewayOK'
      /\ ViewOK /\ [RealtimeNext]_realtimeVars => ViewOK'
  BY ClaimsStep, GatewayKeepsCursor, StepsKeepPages
<1>3. RelayInv /\ ClaimsArePending /\ GatewayOK /\ ViewOK => RealtimeTypeOK
  BY RealtimeConstants DEF RelayInv, RelayTyped, ClaimsArePending, GatewayOK, ViewOK, PageOK, RealtimeTypeOK
<1>4. QED
  BY <1>1, <1>2, <1>3, RelayInvariant, PTL DEF RealtimeSpec
===============================================================================
