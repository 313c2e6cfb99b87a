------------------------------- MODULE Realtime -------------------------------
(***************************************************************************)
(* How a change of the inventory reaches a browser: the row the change     *)
(* leaves in InventoryEventOutbox, the dispatchers that publish it to a    *)
(* Redis stream, the gateway that reads the stream, and the seat page that *)
(* asks the server again when it hears of a change, reconnects, regains    *)
(* focus or polls.                                                         *)
(*                                                                         *)
(* A change goes by its timestamp, which its transaction takes before it   *)
(* commits, so changes commit in any order.  What a page shows is the set  *)
(* of changes its last snapshot contains.  The page's timers are counted   *)
(* in steps of the longest pause between two reconnection attempts.        *)
(***************************************************************************)
EXTENDS Integers, Sequences, FiniteSets, FiniteSetsExt

CONSTANTS
  ChangeCount,     \* bound: changes of the session's inventory
  Relays,          \* processes that dispatch the outbox
  BatchSize, RelayAttempts,   \* OUTBOX_DISPATCH_BATCH_SIZE, OUTBOX_DISPATCH_MAX_ATTEMPTS
  StreamBound,     \* bound: entries of the stream
  WireBound,       \* bound: messages on their way to the page
  ReconnectDelay, PollInterval

ASSUME RealtimeConstants ==
  /\ {ChangeCount, StreamBound, WireBound} \subseteq Nat
  /\ {BatchSize, RelayAttempts, ReconnectDelay, PollInterval} \subseteq Nat \ {0}

VARIABLES
  changes,     \* committed changes
  relayRow,    \* InventoryEventOutbox row of each change
  relayTx,     \* transaction of each dispatcher
  redisUp,
  stream,      \* entries appended to the Redis stream
  remembered,  \* deduplication keys in Redis
  forgotten,   \* changes whose key has expired at some time
  gateway,     \* the gateway process
  wire,        \* messages on the page's socket
  page         \* the page: connection, timers, cursor, refresh and view

relayVars == <<relayRow, relayTx, stream, remembered, forgotten>>
realtimeVars == <<changes, relayVars, redisUp, gateway, wire, page>>

-----------------------------------------------------------------------------
Changes == 1..ChangeCount
NoRow == [status |-> "NONE", attemptCount |-> 0, due |-> FALSE]
NoRelay == [todo |-> {}, ok |-> {}, failed |-> {}]
ConnectionState == {"connecting", "live", "reconnecting", "fallback"}
Asked == [read |-> FALSE, snapshot |-> {}]
\* An XREAD of a gateway that has just started begins at the end of the stream.
NoCursor == -1

RealtimeTypeOK ==
  /\ changes \subseteq Changes
  /\ relayRow \in [Changes -> [status : {"NONE", "PENDING", "PROCESSED", "DEAD_LETTER"},
                               attemptCount : 0..RelayAttempts, due : BOOLEAN]]
  /\ relayTx \in [Relays -> [todo : SUBSET Changes, ok : SUBSET Changes, failed : SUBSET Changes]]
  /\ gateway.cursor \in {NoCursor} \cup 0..Len(stream)
  /\ page.state \in ConnectionState /\ page.view \subseteq changes
  /\ page.pollAge \in 0..PollInterval /\ page.retryAge \in 0..ReconnectDelay

\* A page without NEXT_PUBLIC_REALTIME_URL opens no socket and polls.
LoadedPage(socket) ==
  [socket |-> socket, connected |-> FALSE, attempting |-> socket, armed |-> FALSE,
   state |-> IF socket THEN "connecting" ELSE "fallback", pollAge |-> 0, retryAge |-> 0,
   lastTimestamp |-> 0, seen |-> {}, inFlight |-> {}, view |-> {}]

RealtimeInit ==
  /\ changes = {} /\ relayRow = [e \in Changes |-> NoRow]
  /\ relayTx = [w \in Relays |-> NoRelay]
  /\ redisUp = TRUE /\ stream = <<>> /\ remembered = {} /\ forgotten = {}
  /\ gateway = [live |-> FALSE, reachable |-> TRUE, cursor |-> NoCursor, seen |-> {}]
  /\ wire = <<>>
  /\ \E socket \in BOOLEAN : page = LoadedPage(socket)

-----------------------------------------------------------------------------
(* The outbox *)

\* Every change inserts its row in its own transaction.
CommitChange(e) ==
  /\ e \notin changes /\ changes' = changes \cup {e}
  /\ relayRow' = [relayRow EXCEPT ![e] = [status |-> "PENDING", attemptCount |-> 0, due |-> TRUE]]
  /\ UNCHANGED <<relayTx, stream, remembered, forgotten, redisUp, gateway, wire, page>>

ClaimedBy(w) == relayTx[w].todo \cup relayTx[w].ok \cup relayTx[w].failed
DueRows == {e \in Changes : relayRow[e].status = "PENDING" /\ relayRow[e].due
                            /\ \A w \in Relays : e \notin ClaimedBy(w)}
Oldest(S) == {e \in S : Cardinality({f \in S : f < e}) < BatchSize}

ClaimBatch(w) ==
  /\ relayTx[w] = NoRelay /\ DueRows # {}
  /\ relayTx' = [relayTx EXCEPT ![w].todo = Oldest(DueRows)]
  /\ UNCHANGED <<changes, relayRow, stream, remembered, forgotten, redisUp, gateway, wire, page>>

\* A mutant: XADD without SET NX.
AppendAlways(e) == TRUE
IsNew(e) == e \notin remembered

\* One call of the script.  Its answer may be lost after it ran.  The stream is all
\* that was ever appended: REDIS_STREAM_MAX_LENGTH, which trims old entries, and a Redis
\* that loses data are left out.
publish(w, e, arrives, answered) ==
  /\ e = Min(relayTx[w].todo) /\ (arrives => redisUp) /\ (answered => arrives)
  /\ IF arrives /\ IsNew(e)
     THEN Len(stream) < StreamBound /\ stream' = Append(stream, e) /\ remembered' = remembered \cup {e}
     ELSE UNCHANGED <<stream, remembered>>
  /\ relayTx' = [relayTx EXCEPT ![w].todo = @ \ {e},
                   ![w].ok = IF answered THEN @ \cup {e} ELSE @,
                   ![w].failed = IF answered THEN @ ELSE @ \cup {e}]
  /\ UNCHANGED <<changes, relayRow, forgotten, redisUp, gateway, wire, page>>

shouldDeadLetterOutboxEvent(attempt) == attempt >= RelayAttempts

RowAfterBatch(w, e) ==
  IF e \in relayTx[w].ok THEN [relayRow[e] EXCEPT !.status = "PROCESSED", !.due = FALSE]
  ELSE LET attempt == relayRow[e].attemptCount + 1 IN
       [status |-> IF shouldDeadLetterOutboxEvent(attempt) THEN "DEAD_LETTER" ELSE "PENDING",
        attemptCount |-> attempt, due |-> FALSE]

CommitBatch(w) ==
  /\ relayTx[w] # NoRelay /\ relayTx[w].todo = {}
  /\ relayRow' = [e \in Changes |-> IF e \in ClaimedBy(w) THEN RowAfterBatch(w, e) ELSE relayRow[e]]
  /\ relayTx' = [relayTx EXCEPT ![w] = NoRelay]
  /\ UNCHANGED <<changes, stream, remembered, forgotten, redisUp, gateway, wire, page>>

\* The transaction times out or its process dies; what is in the stream stays.
AbortBatch(w) ==
  /\ relayTx[w] # NoRelay /\ relayTx' = [relayTx EXCEPT ![w] = NoRelay]
  /\ UNCHANGED <<changes, relayRow, stream, remembered, forgotten, redisUp, gateway, wire, page>>

BackoffElapses(e) ==
  /\ relayRow[e].status = "PENDING" /\ ~relayRow[e].due
  /\ relayRow' = [relayRow EXCEPT ![e].due = TRUE]
  /\ UNCHANGED <<changes, relayTx, stream, remembered, forgotten, redisUp, gateway, wire, page>>

\* REDIS_EVENT_DEDUP_TTL_SECONDS pass.
ForgetKey(e) ==
  /\ e \in remembered /\ remembered' = remembered \ {e} /\ forgotten' = forgotten \cup {e}
  /\ UNCHANGED <<changes, relayRow, relayTx, stream, redisUp, gateway, wire, page>>

RedisChanges ==
  /\ redisUp' = ~redisUp
  /\ UNCHANGED <<changes, relayVars, gateway, wire, page>>

-----------------------------------------------------------------------------
(* The gateway *)

\* setConnectionState; the polling interval lives as long as the state is "fallback".
InState(p, st) == [p EXCEPT !.state = st, !.pollAge = IF st = p.state THEN @ ELSE 0]
\* The page's "disconnect" handler, which also arms the timer of the fallback.
Dropped(p) == InState([p EXCEPT !.connected = FALSE, !.armed = TRUE, !.retryAge = 0], "reconnecting")

Emit(message) ==
  IF page.connected THEN Len(wire) < WireBound /\ wire' = Append(wire, message) ELSE wire' = wire

\* consumeInventoryEvents: the first connection takes the end of the stream as its cursor.
GatewayGoesLive ==
  /\ gateway.reachable /\ redisUp /\ ~gateway.live
  /\ gateway' = [gateway EXCEPT !.live = TRUE, !.cursor = IF @ = NoCursor THEN Len(stream) ELSE @]
  /\ Emit([kind |-> "live"])
  /\ UNCHANGED <<changes, relayVars, redisUp, page>>

GatewayLosesRedis ==
  /\ gateway.live /\ ~redisUp
  /\ gateway' = [gateway EXCEPT !.live = FALSE]
  /\ Emit([kind |-> "fallback"])
  /\ UNCHANGED <<changes, relayVars, redisUp, page>>

\* Entries of events it has broadcast before are skipped.
GatewayReads ==
  /\ gateway.live /\ redisUp /\ gateway.cursor < Len(stream)
  /\ LET e == stream[gateway.cursor + 1] IN
     /\ gateway' = [gateway EXCEPT !.cursor = gateway.cursor + 1, !.seen = @ \cup {e}]
     /\ IF e \in gateway.seen THEN wire' = wire ELSE Emit([kind |-> "event", event |-> e])
  /\ UNCHANGED <<changes, relayVars, redisUp, page>>

\* The process ends; its sockets close.
GatewayStops ==
  /\ gateway.reachable
  /\ gateway' = [live |-> FALSE, reachable |-> FALSE, cursor |-> NoCursor, seen |-> {}]
  /\ page' = IF page.connected THEN Dropped(page) ELSE page
  /\ wire' = <<>>
  /\ UNCHANGED <<changes, relayVars, redisUp>>
GatewayStarts ==
  /\ ~gateway.reachable /\ gateway' = [gateway EXCEPT !.reachable = TRUE]
  /\ UNCHANGED <<changes, relayVars, redisUp, wire, page>>

-----------------------------------------------------------------------------
(* The page: useInventoryInvalidation *)

NotRefreshing(p) == p.inFlight = {}
\* refresh: a trigger joins the request that is on its way.
Refreshed(p) == IF NotRefreshing(p) THEN [p EXCEPT !.inFlight = @ \cup {Asked}] ELSE p

OnlyPage == UNCHANGED <<changes, relayVars, redisUp, gateway>>

\* The attempt reaches the gateway, which greets with the state of its transport.
SocketConnects ==
  /\ page.attempting /\ gateway.reachable
  /\ page' = Refreshed(InState([page EXCEPT !.connected = TRUE, !.attempting = FALSE,
                                            !.armed = FALSE, !.retryAge = 0], "live"))
  /\ wire' = <<[kind |-> IF gateway.live THEN "live" ELSE "fallback"]>>
  /\ OnlyPage

\* connect_error without an answer of the gateway: the client tries again.
AttemptFails ==
  /\ page.attempting
  /\ page' = InState([page EXCEPT !.attempting = FALSE, !.retryAge = 0], "fallback")
  /\ OnlyPage /\ UNCHANGED wire
\* The gateway denies the room, for an expired ticket or too many connections; the
\* client (external) gives its socket up for good.
AttemptDenied ==
  /\ page.attempting /\ gateway.reachable
  /\ page' = InState([page EXCEPT !.attempting = FALSE, !.retryAge = 0, !.socket = FALSE], "fallback")
  /\ OnlyPage /\ UNCHANGED wire

SocketDisconnects ==
  /\ page.connected /\ page' = Dropped(page)
  /\ wire' = <<>> /\ OnlyPage

FallbackTimerFires ==
  /\ page.armed /\ page' = InState([page EXCEPT !.armed = FALSE], "fallback")
  /\ OnlyPage /\ UNCHANGED wire

Waiting(p) == p.socket /\ ~p.connected /\ ~p.attempting
ReconnectAttempt ==
  /\ Waiting(page) /\ page.retryAge = ReconnectDelay
  /\ page' = InState([page EXCEPT !.attempting = TRUE], "reconnecting")
  /\ OnlyPage /\ UNCHANGED wire

\* Time passes; timers that have run out fire first.
PageTick ==
  /\ page.state = "fallback" \/ Waiting(page)
  /\ page.state = "fallback" => page.pollAge < PollInterval
  /\ Waiting(page) => page.retryAge < ReconnectDelay
  /\ page' = [page EXCEPT !.pollAge = IF page.state = "fallback" THEN @ + 1 ELSE @,
                          !.retryAge = IF Waiting(page) THEN @ + 1 ELSE @]
  /\ OnlyPage /\ UNCHANGED wire

\* A mutant: the effect that polls is left early without a URL, like the one that connects.
PollNeedsSocket ==
  /\ page.socket /\ page.state = "fallback" /\ page.pollAge = PollInterval
  /\ page' = Refreshed([page EXCEPT !.pollAge = 0])
  /\ OnlyPage /\ UNCHANGED wire
Poll ==
  /\ page.state = "fallback" /\ page.pollAge = PollInterval
  /\ page' = Refreshed([page EXCEPT !.pollAge = 0])
  /\ OnlyPage /\ UNCHANGED wire
Focus == page' = Refreshed(page) /\ OnlyPage /\ UNCHANGED wire

decideInventoryEvent(p, e) == e \notin p.seen /\ e >= p.lastTimestamp

Heard(p, e) ==
  IF decideInventoryEvent(p, e)
  THEN Refreshed([p EXCEPT !.lastTimestamp = e, !.seen = @ \cup {e}]) ELSE p

PageHears ==
  /\ wire # <<>> /\ wire' = Tail(wire)
  /\ LET message == Head(wire) IN
       page' = CASE message.kind = "live" -> Refreshed(InState(page, "live"))
                 [] message.kind = "fallback" -> InState(page, "fallback")
                 [] OTHER -> Heard(page, message.event)
  /\ OnlyPage

\* The handler reads the inventory; the answer replaces what the page shows.
SnapshotRead ==
  /\ Asked \in page.inFlight
  /\ page' = [page EXCEPT !.inFlight = (@ \ {Asked}) \cup {[read |-> TRUE, snapshot |-> changes]}]
  /\ OnlyPage /\ UNCHANGED wire
RefreshEnds(r, arrives) ==
  /\ r \in page.inFlight /\ (arrives => r.read)
  /\ page' = [page EXCEPT !.inFlight = @ \ {r}, !.view = IF arrives THEN r.snapshot ELSE @]
  /\ OnlyPage /\ UNCHANGED wire
RefreshSucceeds == \E r \in page.inFlight : RefreshEnds(r, TRUE)

-----------------------------------------------------------------------------
Dispatch(w) ==
  \/ ClaimBatch(w) \/ CommitBatch(w)
  \/ \E e \in relayTx[w].todo, arrives, answered \in BOOLEAN : publish(w, e, arrives, answered)

RelayNext ==
  \/ \E e \in Changes : CommitChange(e) \/ BackoffElapses(e) \/ ForgetKey(e)
  \/ \E w \in Relays : Dispatch(w) \/ AbortBatch(w)
GatewayNext == RedisChanges \/ GatewayGoesLive \/ GatewayLosesRedis \/ GatewayReads \/ GatewayStops \/ GatewayStarts
PageNext ==
  \/ SocketConnects \/ AttemptFails \/ AttemptDenied \/ SocketDisconnects \/ FallbackTimerFires \/ ReconnectAttempt
  \/ PageTick \/ Poll \/ Focus \/ PageHears \/ SnapshotRead
  \/ \E r \in page.inFlight, arrives \in BOOLEAN : RefreshEnds(r, arrives)
RealtimeNext == RelayNext \/ GatewayNext \/ PageNext

\* Dispatchers run again and again and do not crash for ever; timers fire, messages
\* that are not lost with their socket arrive, and not every request of the page fails.
FairRealtime ==
  /\ \A w \in Relays : WF_realtimeVars(ClaimBatch(w)) /\ SF_realtimeVars(CommitBatch(w))
                       /\ SF_realtimeVars(\E e \in relayTx[w].todo, a, b \in BOOLEAN : publish(w, e, a, b))
  /\ \A e \in Changes : WF_realtimeVars(BackoffElapses(e))
  /\ WF_realtimeVars(GatewayGoesLive) /\ WF_realtimeVars(GatewayLosesRedis) /\ WF_realtimeVars(GatewayReads)
  /\ WF_realtimeVars(AttemptFails) /\ WF_realtimeVars(FallbackTimerFires) /\ WF_realtimeVars(ReconnectAttempt)
  /\ WF_realtimeVars(PageTick) /\ WF_realtimeVars(Poll) /\ WF_realtimeVars(PageHears)
  /\ SF_realtimeVars(SnapshotRead) /\ SF_realtimeVars(RefreshSucceeds)
RealtimeSpec == RealtimeInit /\ [][RealtimeNext]_realtimeVars /\ FairRealtime

-----------------------------------------------------------------------------
\* A row counts as delivered only if its event was appended to the stream, whatever
\* transactions were undone after publishing, and an event was appended twice only if
\* its key expired between two attempts.
StreamTellsTheOutbox ==
  LET Times(e) == Cardinality({i \in 1..Len(stream) : stream[i] = e}) IN
  \A e \in Changes :
    /\ relayRow[e].status = "PROCESSED" => Times(e) >= 1
    /\ Times(e) >= 1 => e \in changes
    /\ Times(e) >= 2 => e \in forgotten

\* A page that stays in the fallback state without an attempt to reconnect, because
\* it has no socket, was denied one or has a gateway without Redis, shows every change in the end.
FallbackCatchesUp ==
  <>[](page.state = "fallback" /\ ~page.attempting) => <>[](page.view = changes)
=============================================================================
