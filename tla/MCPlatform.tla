------------------------------ MODULE MCPlatform ------------------------------
(* Instances for TLC of the modules that need fairness beside the sale:    *)
(* Realtime, Operations, and Refunds with its jobs running.  They share no *)
(* variable, so a run explores their parts side by side: a focus is one    *)
(* part of one module, chosen in the initial state, that moves while the   *)
(* rest stands still.                                                      *)
EXTENDS Realtime, Operations, MCRefunds

CONSTANT Foci   \* the parts a run explores

VARIABLE focus

-----------------------------------------------------------------------------
(* What a focus leaves alone *)

PageApart == page = LoadedPage(FALSE) /\ gateway.reachable /\ ~gateway.live
\* One change, delivered at the first attempt.
RelaySimple ==
  /\ changes \subseteq {1} /\ forgotten = {} /\ \A e \in Changes : relayRow[e].attemptCount = 0
  /\ \A w \in Relays : relayTx[w].failed = {} /\ Cardinality(ClaimedBy(w)) <= 1
  /\ Cardinality({w \in Relays : relayTx[w] # NoRelay}) <= 1

\* Residents without a request; while a probe fails only the first of them has ever run.
FleetOnly ==
  /\ message = [status |-> "scheduled", tries |-> 0]
  /\ Cardinality(trouble) <= 1
  /\ trouble # {} => \E i \in Residents : \A j \in Residents \ {i} :
                       process[j] = "down" /\ beat[j] = NoBeat /\ pendingBeats[j] = {}
\* Requests without a resident.
JobsOnly == trouble = {} /\ process = [i \in Residents |-> "down"]

-----------------------------------------------------------------------------
platformVars == <<focus, realtimeVars, operationsVars, vars>>
realtimeFoci == {"relay", "page"}
operationsFoci == {"fleet", "jobs"}

PlatformInit ==
  /\ focus \in Foci
  /\ RealtimeInit /\ (focus # "page" => ~page.socket)
  /\ OperationsInit /\ (focus \notin operationsFoci => jobMode = "worker")
  /\ Init

RealtimeMoves == RealtimeNext /\ UNCHANGED <<operationsVars, vars>>
OperationsMove == OperationsNext /\ UNCHANGED <<realtimeVars, vars>>
RefundMoves == Next /\ UNCHANGED <<realtimeVars, operationsVars>>

PlatformNext ==
  /\ UNCHANGED focus
  /\ \/ focus = "relay"  /\ RealtimeMoves  /\ PageApart'
     \/ focus = "page"   /\ RealtimeMoves  /\ RelaySimple'
     \/ focus = "fleet"  /\ OperationsMove /\ FleetOnly'
     \/ focus = "jobs"   /\ OperationsMove /\ JobsOnly'
     \/ focus = "refund" /\ RefundMoves

\* The fairness of the module that moves.
PlatformFairSpec ==
  /\ PlatformInit /\ [][PlatformNext]_platformVars
  /\ \/ focus \in realtimeFoci   /\ FairRealtime
     \/ focus \in operationsFoci /\ FairOperations
     \/ focus = "refund"         /\ Fairness
=============================================================================
