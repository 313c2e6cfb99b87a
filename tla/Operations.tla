------------------------------ MODULE Operations ------------------------------
(***************************************************************************)
(* Scheduled work and its supervision: deliveries of one scheduler message *)
(* to the job endpoint, the receipt that suppresses duplicates, the        *)
(* heartbeats of workers and of serverless runs, and the readiness report. *)
(*                                                                         *)
(* The scheduler delivers a message again until it is answered with 2xx or *)
(* its retries are used up, and may deliver it twice at once.  A request   *)
(* makes its database calls one by one, in no transaction, and may be      *)
(* killed between any two.  The age of a heartbeat is counted up to the    *)
(* first value that is stale.                                              *)
(***************************************************************************)
EXTENDS Integers, FiniteSets

CONSTANTS
  Deliveries,      \* requests of the message that may be open at once
  MaxTries,        \* deliveries the scheduler makes before it gives up
  Residents,       \* worker processes, in worker mode
  StaleAfter       \* WORKER_HEARTBEAT_STALE_SECONDS

ASSUME OperationsConstants ==
  MaxTries \in Nat /\ StaleAfter \in Nat /\ "default" \notin Residents

VARIABLES
  jobMode,      \* SEATFLOW_JOB_MODE
  message,      \* the message at the scheduler
  receipt,      \* JobDeliveryReceipt of the message
  jobRun,       \* each request to the job endpoint
  ended,        \* statuses with which runs of the job have ended
  displaced,    \* some delivery could not insert its receipt
  process,      \* each resident worker
  pendingBeats, \* heartbeat writes under way
  beat,         \* WorkerHeartbeat of each instance
  trouble       \* failing readiness probes

jobVars == <<message, receipt, jobRun, ended, displaced>>
fleetVars == <<process, pendingBeats, beat>>
operationsVars == <<jobMode, jobVars, fleetVars, trouble>>

-----------------------------------------------------------------------------
\* The instance label of serverless runs, which have none of their own.
Instances == Residents \cup {"default"}
NoReceipt == [completed |-> FALSE, attemptCount |-> 0]
NoRun == [phase |-> "idle"]
NoBeat == [status |-> "NONE", age |-> 0]
JobStatuses == {"completed", "retryable", "permanent"}
BeatStatuses == {"STARTING", "HEALTHY", "DEGRADED", "STOPPED"}
Probes == {"postgresql", "migrations", "redis", "outbox_backlog", "dead_letters",
           "distributed_rate_limit", "providers"}

OperationsTypeOK ==
  /\ jobMode \in {"worker", "serverless"}
  /\ message \in [status : {"scheduled", "accepted", "abandoned"}, tries : 0..MaxTries]
  /\ receipt.completed \in BOOLEAN /\ receipt.attemptCount \in Nat
  /\ \A d \in Deliveries : jobRun[d].phase \in {"idle", "arrived", "read", "claimed", "ran", "recorded", "answered"}
  /\ ended \subseteq JobStatuses /\ trouble \subseteq Probes
  /\ process \in [Residents -> {"down", "up"}]
  /\ pendingBeats \in [Instances -> SUBSET BeatStatuses]
  /\ beat \in [Instances -> [status : BeatStatuses \cup {"NONE"}, age : 0..(StaleAfter + 1)]]

OperationsInit ==
  /\ jobMode \in {"worker", "serverless"}
  /\ message = [status |-> "scheduled", tries |-> 0]
  /\ receipt = NoReceipt /\ jobRun = [d \in Deliveries |-> NoRun]
  /\ ended = {} /\ displaced = FALSE
  /\ process = [i \in Residents |-> "down"]
  /\ pendingBeats = [i \in Instances |-> {}] /\ beat = [i \in Instances |-> NoBeat]
  /\ trouble = {}

-----------------------------------------------------------------------------
(* The job endpoint *)

\* A mutant: a failure that may pass is answered like one that will not.
AlwaysAccepted(status) == 200
jobOutcomeHttpStatus(status) == IF status = "retryable" THEN 503 ELSE 200

Deliver(d) ==
  /\ jobRun[d] = NoRun /\ message.status = "scheduled" /\ message.tries < MaxTries
  /\ message' = [message EXCEPT !.tries = @ + 1]
  /\ jobRun' = [jobRun EXCEPT ![d] = [phase |-> "arrived"]]
  /\ UNCHANGED <<jobMode, receipt, ended, displaced, fleetVars, trouble>>

Answered(code) == [phase |-> "answered", code |-> code]

\* The mode, the job's name, the size, the signature and the payload are checked
\* before anything is done; the scheduler's own messages fail only by configuration.
RejectDelivery(d) ==
  /\ jobRun[d].phase = "arrived" /\ jobMode = "worker"
  /\ jobRun' = [jobRun EXCEPT ![d] = Answered(503)]
  /\ UNCHANGED <<jobMode, message, receipt, ended, displaced, fleetVars, trouble>>

\* claimJobDelivery: one read, then an update or an insert.
FindReceipt(d) ==
  /\ jobRun[d].phase = "arrived" /\ jobMode = "serverless"
  /\ jobRun' = [jobRun EXCEPT ![d] =
       IF receipt.completed THEN Answered(200) ELSE [phase |-> "read", exists |-> receipt # NoReceipt]]
  /\ UNCHANGED <<jobMode, message, receipt, ended, displaced, fleetVars, trouble>>

\* A second request of the message finds the receipt of a first that never ended.
ClaimAgain(d) ==
  /\ jobRun[d].phase = "read" /\ jobRun[d].exists
  /\ IF receipt = NoReceipt   \* pruned in between: the update throws
     THEN jobRun' = [jobRun EXCEPT ![d] = Answered(500)] /\ UNCHANGED receipt
     ELSE /\ receipt' = [receipt EXCEPT !.attemptCount = @ + 1]
          /\ jobRun' = [jobRun EXCEPT ![d] = [phase |-> "claimed"]]
  /\ UNCHANGED <<jobMode, message, ended, displaced, fleetVars, trouble>>

\* Any error of the insert counts as a duplicate, a lost connection too.
ClaimFirst(d, inserts) ==
  /\ jobRun[d].phase = "read" /\ ~jobRun[d].exists /\ (inserts => receipt = NoReceipt)
  /\ receipt' = IF inserts THEN [completed |-> FALSE, attemptCount |-> message.tries] ELSE receipt
  /\ jobRun' = [jobRun EXCEPT ![d] = IF inserts THEN [phase |-> "claimed"] ELSE Answered(200)]
  /\ displaced' = (displaced \/ ~inserts)
  /\ UNCHANGED <<jobMode, message, ended, fleetVars, trouble>>

\* The registered operation; every one of them is modelled elsewhere.
RunJob(d, status) ==
  /\ jobRun[d].phase = "claimed"
  /\ jobRun' = [jobRun EXCEPT ![d] = [phase |-> "ran", status |-> status]]
  /\ ended' = ended \cup {status}
  /\ UNCHANGED <<jobMode, message, receipt, displaced, fleetVars, trouble>>

\* recordJobDeliveryOutcome swallows its own failure.
recordJobDeliveryOutcome(d, written) ==
  /\ jobRun[d].phase = "ran" /\ (written => receipt # NoReceipt)
  /\ receipt' = IF written THEN [receipt EXCEPT !.completed = jobRun[d].status # "retryable"] ELSE receipt
  /\ jobRun' = [jobRun EXCEPT ![d].phase = "recorded"]
  /\ UNCHANGED <<jobMode, message, ended, displaced, fleetVars, trouble>>

WriteBeat(i, status) == pendingBeats' = [pendingBeats EXCEPT ![i] = @ \cup {status}]

\* The run's heartbeat, then the answer.
FinishRun(d) ==
  /\ jobRun[d].phase = "recorded"
  /\ WriteBeat("default", IF jobRun[d].status = "completed" THEN "HEALTHY" ELSE "DEGRADED")
  /\ jobRun' = [jobRun EXCEPT ![d] = Answered(jobOutcomeHttpStatus(jobRun[d].status))]
  /\ UNCHANGED <<jobMode, message, receipt, ended, displaced, process, beat, trouble>>

\* The answer reaches the scheduler, or it does not.
AnswerArrives(d) ==
  /\ jobRun[d].phase = "answered"
  /\ message' = IF jobRun[d].code = 200 /\ message.status = "scheduled"
                THEN [message EXCEPT !.status = "accepted"] ELSE message
  /\ jobRun' = [jobRun EXCEPT ![d] = NoRun]
  /\ UNCHANGED <<jobMode, receipt, ended, displaced, fleetVars, trouble>>
\* The function is killed, at maxDuration or before.
KillRun(d) ==
  /\ jobRun[d] # NoRun /\ jobRun' = [jobRun EXCEPT ![d] = NoRun]
  /\ UNCHANGED <<jobMode, message, receipt, ended, displaced, fleetVars, trouble>>

GiveUp ==
  /\ message.status = "scheduled" /\ message.tries = MaxTries /\ \A d \in Deliveries : jobRun[d] = NoRun
  /\ message' = [message EXCEPT !.status = "abandoned"]
  /\ UNCHANGED <<jobMode, receipt, jobRun, ended, displaced, fleetVars, trouble>>
pruneJobDeliveryReceipts ==
  /\ receipt # NoReceipt /\ receipt' = NoReceipt
  /\ UNCHANGED <<jobMode, message, jobRun, ended, displaced, fleetVars, trouble>>

-----------------------------------------------------------------------------
(* Heartbeats *)

StartWorker(i) ==
  /\ jobMode = "worker" /\ process[i] = "down" /\ process' = [process EXCEPT ![i] = "up"]
  /\ WriteBeat(i, "STARTING")
  /\ UNCHANGED <<jobMode, jobVars, beat, trouble>>
BeatWorker(i) ==
  /\ process[i] = "up" /\ WriteBeat(i, "HEALTHY")
  /\ UNCHANGED <<jobMode, jobVars, process, beat, trouble>>
StopWorker(i) ==
  /\ process[i] = "up" /\ process' = [process EXCEPT ![i] = "down"]
  /\ WriteBeat(i, "STOPPED")
  /\ UNCHANGED <<jobMode, jobVars, beat, trouble>>
CrashWorker(i) ==
  /\ process[i] = "up" /\ process' = [process EXCEPT ![i] = "down"]
  /\ pendingBeats' = [pendingBeats EXCEPT ![i] = {}]
  /\ UNCHANGED <<jobMode, jobVars, beat, trouble>>

\* The upsert; a write may be lost, and writes under way land in any order.
recordWorkerHeartbeat(i, status, lands) ==
  /\ status \in pendingBeats[i] /\ pendingBeats' = [pendingBeats EXCEPT ![i] = @ \ {status}]
  /\ beat' = IF lands THEN [beat EXCEPT ![i] = [status |-> status, age |-> 0]] ELSE beat
  /\ UNCHANGED <<jobMode, jobVars, process, trouble>>

TimePasses ==
  /\ \E i \in Instances : beat[i] # NoBeat /\ beat[i].age <= StaleAfter
  /\ beat' = [i \in Instances |-> IF beat[i] = NoBeat \/ beat[i].age > StaleAfter THEN beat[i]
                                  ELSE [beat[i] EXCEPT !.age = @ + 1]]
  /\ UNCHANGED <<jobMode, jobVars, process, pendingBeats, trouble>>

ProbeChanges(p) ==
  /\ trouble' = IF p \in trouble THEN trouble \ {p} ELSE trouble \cup {p}
  /\ UNCHANGED <<jobMode, jobVars, fleetVars>>

-----------------------------------------------------------------------------
(* Readiness *)

\* A mutant: the status last reported stands.
LastWord(b) ==
  CASE b = NoBeat -> "missing" [] b.status = "STOPPED" -> "stopped"
    [] b.status = "DEGRADED" -> "degraded" [] OTHER -> "healthy"
evaluateWorkerHeartbeat(b) ==
  CASE b = NoBeat           -> "missing"
    [] b.status = "STOPPED" -> "stopped"
    [] OTHER -> IF b.age > StaleAfter THEN "stale"
                ELSE IF b.status = "DEGRADED" THEN "degraded" ELSE "healthy"

\* evaluateWorkerFleet: the freshest row of a type decides; the order of two rows of
\* the same age is open.
Reported == {i \in Instances : beat[i] # NoBeat}
Freshest == {i \in Reported : \A j \in Reported : beat[i].age <= beat[j].age}
FleetLabels == IF Reported = {} THEN {"missing"} ELSE {evaluateWorkerHeartbeat(beat[i]) : i \in Freshest}

redisRequiredForRole(role) == role # "web"
workerLabelToCheckStatus(label) == IF label = "healthy" THEN "pass" ELSE "warn"
decideReadiness(checks) ==
  IF "fail" \in checks THEN "not_ready" ELSE IF "warn" \in checks THEN "degraded" ELSE "ready"

\* What a failing probe counts for a process of the role.
ProbeStatus(p, role) ==
  CASE p \in {"postgresql", "migrations", "providers"} -> "fail"
    [] p = "redis" -> IF redisRequiredForRole(role) THEN "fail" ELSE "warn"
    [] OTHER -> "warn"
\* The reports that evaluateReadiness may give now.
evaluateReadiness(role) ==
  IF "postgresql" \in trouble THEN {"not_ready"}
  ELSE {decideReadiness({ProbeStatus(p, role) : p \in trouble} \cup {workerLabelToCheckStatus(label)}) :
          label \in FleetLabels}

-----------------------------------------------------------------------------
HandleDelivery(d) ==
  \/ RejectDelivery(d) \/ FindReceipt(d) \/ ClaimAgain(d) \/ FinishRun(d) \/ AnswerArrives(d)
  \/ \E b \in BOOLEAN : ClaimFirst(d, b) \/ recordJobDeliveryOutcome(d, b)
  \/ \E status \in JobStatuses : RunJob(d, status)

OperationsNext ==
  \/ \E d \in Deliveries : Deliver(d) \/ HandleDelivery(d) \/ KillRun(d)
  \/ GiveUp \/ pruneJobDeliveryReceipts
  \/ \E i \in Residents : StartWorker(i) \/ BeatWorker(i) \/ StopWorker(i) \/ CrashWorker(i)
  \/ \E i \in Instances, status \in BeatStatuses, lands \in BOOLEAN : recordWorkerHeartbeat(i, status, lands)
  \/ TimePasses
  \/ \E p \in Probes : ProbeChanges(p)

\* Time passes and writes under way end.
FairOperations ==
  /\ WF_operationsVars(TimePasses)
  /\ \A i \in Instances : \A status \in BeatStatuses :
       WF_operationsVars(\E lands \in BOOLEAN : recordWorkerHeartbeat(i, status, lands))
OperationsSpec == OperationsInit /\ [][OperationsNext]_operationsVars /\ FairOperations

-----------------------------------------------------------------------------
\* A message the scheduler counts as delivered has had a run that succeeded or
\* cannot succeed, however often it was delivered and its requests were killed,
\* unless a delivery failed to insert its receipt.
AcceptedIsAccountedFor ==
  message.status = "accepted" => displaced \/ ended \cap {"completed", "permanent"} # {}

\* Once every process of a worker type is gone for good and the scheduler no
\* longer delivers, no instance reports itself ready any more.
Quiet == /\ \A i \in Residents : process[i] = "down"
         /\ \A d \in Deliveries : jobRun[d] = NoRun
LostWorkersAreReported == <>[]Quiet => <>[]("ready" \notin evaluateReadiness("web"))
=============================================================================
