------------------------------- MODULE RateLimit -------------------------------
(***************************************************************************)
(* The rate limiter for one subject of one policy: a fixed window counted  *)
(* in Redis by every process, and the process-local window each falls back *)
(* to while Redis does not answer and for a cooldown after that.           *)
(*                                                                         *)
(* A window goes by its number: the shared ones are those of the key in    *)
(* Redis, the local ones those of a process's bucket, which also ends when *)
(* the bucket is evicted.  Two requests of a process overlap at the await  *)
(* of the increment.                                                       *)
(***************************************************************************)
EXTENDS Integers, FiniteSets

CONSTANTS
  WebProcesses,   \* instances of the application
  LimitedCalls,   \* requests of the subject
  BudgetLimit,    \* policy.limit
  MaxWindows      \* bound: windows of the key, and of each bucket

ASSUME RateLimitConstants ==
  /\ BudgetLimit \in Nat \ {0} /\ MaxWindows \in Nat \ {0}
  /\ "shared" \notin WebProcesses   \* names the windows in Redis

VARIABLES
  failureMode,   \* policy.failureMode, which does not change
  sharedWindow,  \* the key in Redis: its window's number and its count
  localWindow,   \* the bucket of each process
  limiterUp,     \* Redis answers
  cooling,       \* processes whose cooldown runs
  call,          \* each request
  admitted       \* <<window, request>> of every request let through

limitVars == <<failureMode, sharedWindow, localWindow, limiterUp, cooling, call, admitted>>

-----------------------------------------------------------------------------
Window == [number : 1..MaxWindows, count : Nat]
NewCall == [phase |-> "new"]
Unattributed == <<"none", 0>>

RateLimitTypeOK ==
  /\ failureMode \in {"fail_open", "fail_closed"}
  /\ sharedWindow \in Window /\ localWindow \in [WebProcesses -> Window]
  /\ cooling \subseteq WebProcesses /\ limiterUp \in BOOLEAN
  /\ \A r \in LimitedCalls : call[r].phase \in {"new", "counted", "local", "decided"}

RateLimitInit ==
  /\ failureMode \in {"fail_open", "fail_closed"}
  /\ sharedWindow = [number |-> 1, count |-> 0]
  /\ localWindow = [p \in WebProcesses |-> [number |-> 1, count |-> 0]]
  /\ limiterUp = TRUE /\ cooling = {} /\ admitted = {}
  /\ call = [r \in LimitedCalls |-> NewCall]

\* A mutant: the request itself is not counted.
CountedBefore(available, count) == IF available THEN count - 1 <= BudgetLimit ELSE failureMode = "fail_open"
\* decideRateLimit; the fallback's refusal is in consumeRateLimit.
decideRateLimit(available, count) == IF available THEN count <= BudgetLimit ELSE failureMode = "fail_open"

Decide(r, allowed, window) ==
  /\ call' = [call EXCEPT ![r] = [phase |-> "decided"]]
  /\ admitted' = IF allowed THEN admitted \cup {<<window, r>>} ELSE admitted

\* buildRateLimitSubject has nothing to key on: the failure mode decides.
AdmitUnattributed(r) ==
  /\ call[r] = NewCall /\ Decide(r, decideRateLimit(FALSE, 0), Unattributed)
  /\ UNCHANGED <<sharedWindow, localWindow, limiterUp, cooling>>

\* The script ran; its answer is on the way.
Increment(r, p) ==
  /\ call[r] = NewCall /\ p \notin cooling /\ limiterUp
  /\ sharedWindow' = [sharedWindow EXCEPT !.count = @ + 1]
  /\ call' = [call EXCEPT ![r] = [phase |-> "counted", process |-> p, count |-> sharedWindow'.count,
                                  window |-> <<"shared", sharedWindow.number>>]]
  /\ UNCHANGED <<localWindow, limiterUp, cooling, admitted>>
CountArrives(r) ==
  /\ call[r].phase = "counted"
  /\ Decide(r, decideRateLimit(TRUE, call[r].count), call[r].window)
  /\ UNCHANGED <<sharedWindow, localWindow, limiterUp, cooling>>

\* The time-out, also after the increment; the cooldown begins.
BackendFails(r, p) ==
  /\ \/ call[r] = NewCall /\ p \notin cooling
     \/ call[r].phase = "counted" /\ call[r].process = p
  /\ cooling' = cooling \cup {p}
  /\ call' = [call EXCEPT ![r] = [phase |-> "local", process |-> p]]
  /\ UNCHANGED <<sharedWindow, localWindow, limiterUp, admitted>>
SkipBackend(r, p) ==
  /\ call[r] = NewCall /\ p \in cooling
  /\ call' = [call EXCEPT ![r] = [phase |-> "local", process |-> p]]
  /\ UNCHANGED <<sharedWindow, localWindow, limiterUp, cooling, admitted>>

\* consumeRateLimit; a bucket of count 0 is one that does not exist or has run out.
consumeRateLimit(r) ==
  LET p == call[r].process  allowed == localWindow[p].count < BudgetLimit IN
  /\ call[r].phase = "local"
  /\ localWindow' = IF allowed THEN [localWindow EXCEPT ![p].count = @ + 1] ELSE localWindow
  /\ Decide(r, allowed /\ decideRateLimit(FALSE, 0), <<p, localWindow[p].number>>)
  /\ UNCHANGED <<sharedWindow, limiterUp, cooling>>

\* The key expires, a bucket runs out or is evicted, the cooldown ends, Redis fails or recovers.
SharedWindowEnds ==
  /\ sharedWindow.count > 0 /\ sharedWindow.number < MaxWindows
  /\ sharedWindow' = [number |-> sharedWindow.number + 1, count |-> 0]
  /\ UNCHANGED <<localWindow, limiterUp, cooling, call, admitted>>
LocalWindowEnds(p) ==
  /\ localWindow[p].count > 0 /\ localWindow[p].number < MaxWindows
  /\ localWindow' = [localWindow EXCEPT ![p] = [number |-> @.number + 1, count |-> 0]]
  /\ UNCHANGED <<sharedWindow, limiterUp, cooling, call, admitted>>
CooldownEnds(p) ==
  /\ p \in cooling /\ cooling' = cooling \ {p}
  /\ UNCHANGED <<sharedWindow, localWindow, limiterUp, call, admitted>>
LimiterChanges ==
  /\ limiterUp' = ~limiterUp
  /\ UNCHANGED <<sharedWindow, localWindow, cooling, call, admitted>>

RateLimitNext ==
  /\ UNCHANGED failureMode
  /\ \/ \E r \in LimitedCalls : AdmitUnattributed(r) \/ CountArrives(r) \/ consumeRateLimit(r)
     \/ \E r \in LimitedCalls, p \in WebProcesses : Increment(r, p) \/ BackendFails(r, p) \/ SkipBackend(r, p)
     \/ \E p \in WebProcesses : LocalWindowEnds(p) \/ CooldownEnds(p)
     \/ SharedWindowEnds \/ LimiterChanges
RateLimitSpec == RateLimitInit /\ [][RateLimitNext]_limitVars

-----------------------------------------------------------------------------
\* No window lets more than the limit through, although answers come late or not
\* at all and processes move between Redis and their own count; a policy that
\* fails closed admits only what Redis has counted.
BudgetHolds ==
  LET windows == {x[1] : x \in admitted} IN
  /\ \A w \in windows \ {Unattributed} : Cardinality({x \in admitted : x[1] = w}) <= BudgetLimit
  /\ failureMode = "fail_closed" => \A w \in windows : w[1] = "shared"
=============================================================================
