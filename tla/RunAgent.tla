------------------------------ MODULE RunAgent ------------------------------
(***************************************************************************)
(* run_agent of dialectica/agent_runtime.py: invocations of models by      *)
(* concurrent callers, with retries, the process-wide concurrency limiter, *)
(* the run's model-turn guard and the usage that is reported.              *)
(*                                                                         *)
(* An attempt is one ADK invocation, made of model turns; a turn's usage   *)
(* may be reported partially, finally, or never.  "tracker" tallies what   *)
(* _UsageTracker lists: the turns begun, those with a final report, the    *)
(* output tokens, what the last turn has reported so far (its "slot") and  *)
(* whether it is open to reports.                                          *)
(* Prompts, texts, delays and the other token counts are left out: prompt, *)
(* total and cached tokens are summed as the output is.                    *)
(***************************************************************************)
EXTENDS Naturals, FiniteSets

CONSTANTS
    Callers,            \* concurrent calls of run_agent
    Tooled,             \* those whose agent has tools
    MaxAttempts,        \* max_attempts
    MaxRateLimitRetries,
    LimiterSize,        \* DIALECTICA_MAX_CONCURRENCY
    TurnLimit,          \* model_turn_limit of the run
    MaxTurns,           \* bound: turns of one attempt
    Outputs             \* output tokens a turn may report

ASSUME CallerAssumption == IsFiniteSet(Callers) /\ Tooled \subseteq Callers
ASSUME RetryAssumption ==
    /\ MaxAttempts \in Nat \ {0}
    /\ MaxRateLimitRetries \in Nat
    /\ LimiterSize \in Nat \ {0}
    /\ TurnLimit \in Nat \ {0}
    /\ MaxTurns \in Nat
    /\ Outputs \subseteq Nat

VARIABLES
    pc,             \* where each call is
    failures, hits, \* the counters of its two retry budgets
    accumulated,    \* usage of its failed attempts
    tracker,        \* the turns of the current attempt
    scope,          \* scope.usage: what the answer or the error carries
    outcome,        \* whether run_agent returns or raises
    limiter,        \* the value of the global semaphore
    admitted,       \* Budget._admitted_model_turns
    attempts,       \* history: attempts each call began
    spent           \* history: what the models did for each call

vars == <<pc, failures, hits, accumulated, tracker, scope, outcome, limiter,
          admitted, attempts, spent>>

-----------------------------------------------------------------------------
PCs == {"idle", "waiting", "calling", "sleeping", "closing", "settled"}
Started == PCs \ {"idle", "settled"}

UsageRecord == [turns : Nat, unknown : Nat, output : Nat]
NoUsage == [turns |-> 0, unknown |-> 0, output |-> 0]

Trackers == [turns : Nat, complete : Nat, output : Nat, slot : Nat,
             last : {"none", "open", "final"}]
NewTracker == [turns |-> 0, complete |-> 0, output |-> 0, slot |-> 0,
               last |-> "none"]

\* Mutant of Combine: the later report replaces the earlier one.
Combine_Replaces(u, v) == v

\* _combine_usage
Combine(u, v) == [turns   |-> u.turns + v.turns,
                  unknown |-> u.unknown + v.unknown,
                  output  |-> u.output + v.output]

\* _UsageTracker.usage: a turn without a final report is unknown, but what it
\* has reported counts.
UsageOf(k) == [turns |-> k.turns, unknown |-> k.turns - k.complete,
               output |-> k.output]

\* A turn begins: its slot is empty.
WithTurn(k) == [turns |-> k.turns + 1, complete |-> k.complete,
                output |-> k.output, slot |-> 0, last |-> "open"]

\* A report replaces the slot's; a final one closes it.
WithReport(k, o, final) ==
    [turns |-> k.turns, complete |-> k.complete + (IF final THEN 1 ELSE 0),
     output |-> (k.output - k.slot) + o, slot |-> o,
     last |-> IF final THEN "final" ELSE "open"]

Init ==
    /\ pc = [c \in Callers |-> "idle"]
    /\ failures = [c \in Callers |-> 0]
    /\ hits = [c \in Callers |-> 0]
    /\ accumulated = [c \in Callers |-> NoUsage]
    /\ tracker = [c \in Callers |-> NewTracker]
    /\ scope = [c \in Callers |-> NoUsage]
    /\ outcome = [c \in Callers |-> "none"]
    /\ limiter = LimiterSize
    /\ admitted = 0
    /\ attempts = [c \in Callers |-> 0]
    /\ spent = [c \in Callers |-> NoUsage]

-----------------------------------------------------------------------------
Goto(c, p) == pc' = [pc EXCEPT ![c] = p]

Start(c) ==
    /\ pc[c] = "idle"
    /\ Goto(c, "waiting")
    /\ UNCHANGED <<failures, hits, accumulated, tracker, scope, outcome,
                   limiter, admitted, attempts, spent>>

\* The limiter is taken and an ADK invocation begins, with a fresh tracker.
Attempt(c) ==
    /\ pc[c] = "waiting"
    /\ limiter > 0
    /\ limiter' = limiter - 1
    /\ tracker' = [tracker EXCEPT ![c] = NewTracker]
    /\ attempts' = [attempts EXCEPT ![c] = @ + 1]
    /\ Goto(c, "calling")
    /\ UNCHANGED <<failures, hits, accumulated, scope, outcome, admitted, spent>>

\* before_model_callback: the guard admits the turn, the tracker opens a slot.
Turn(c) ==
    /\ pc[c] = "calling"
    /\ tracker[c].turns < MaxTurns
    /\ admitted < TurnLimit
    /\ admitted' = admitted + 1
    /\ tracker' = [tracker EXCEPT ![c] = WithTurn(@)]
    /\ spent' = [spent EXCEPT
                    ![c] = [turns |-> @.turns + 1, unknown |-> @.unknown + 1,
                            output |-> @.output]]
    /\ UNCHANGED <<pc, failures, hits, accumulated, scope, outcome, limiter,
                   attempts>>

\* after_model_callback, or the event of a turn that was answered from a cache.
Report(c, o, final) ==
    /\ pc[c] = "calling"
    /\ tracker[c].last = "open"
    /\ tracker' = [tracker EXCEPT ![c] = WithReport(@, o, final)]
    /\ spent' = [spent EXCEPT
                    ![c] = [turns   |-> @.turns,
                            unknown |-> @.unknown - (IF final THEN 1 ELSE 0),
                            output  |-> (@.output - tracker[c].slot) + o]]
    /\ UNCHANGED <<pc, failures, hits, accumulated, scope, outcome, limiter,
                   admitted, attempts>>

\* Mutant of Leave: an attempt that ends keeps the limiter.
Leave_KeepsLimiter(c) ==
    /\ pc[c] = "calling"
    /\ scope' = [scope EXCEPT ![c] = Combine(accumulated[c], UsageOf(tracker[c]))]
    /\ UNCHANGED <<limiter, admitted, attempts, spent>>

\* The attempt is over: the limiter is released, also when it failed.
Leave(c) ==
    /\ pc[c] = "calling"
    /\ limiter' = limiter + 1
    /\ scope' = [scope EXCEPT ![c] = Combine(accumulated[c], UsageOf(tracker[c]))]
    /\ UNCHANGED <<admitted, attempts, spent>>

\* The invocation returns its events.
Succeed(c) ==
    /\ Leave(c)
    /\ outcome' = [outcome EXCEPT ![c] = "response"]
    /\ Goto(c, "closing")
    /\ UNCHANGED <<failures, hits, accumulated, tracker>>

\* What run_agent tells apart in an exception: the turn limit of the run,
\* cancellation or ADK's own call limit, a permanent failure, a rate limit,
\* anything else.
Errors == {"turn limit", "stopped", "permanent", "rate limit", "transient"}

\* A failure that is raised whatever the retry budgets still hold.
Fatal_IgnoresTools(c, error) ==                              \* mutant
    error \in {"turn limit", "stopped", "permanent"}

Fatal(c, error) ==
    c \in Tooled \/ error \in {"turn limit", "stopped", "permanent"}

HitsAfter(c, error) == IF error = "rate limit" THEN hits[c] + 1 ELSE hits[c]
FailuresAfter(c, error) ==
    IF error = "transient" THEN failures[c] + 1 ELSE failures[c]

\* The retry budget of this kind of failure is used up.
Spent(c, error) ==
    \/ error = "rate limit" /\ HitsAfter(c, error) > MaxRateLimitRetries
    \/ error = "transient"  /\ FailuresAfter(c, error) >= MaxAttempts

\* The invocation raises.  The guard is the only source of "turn limit".
Fail(c, error) ==
    /\ Leave(c)
    /\ error = "turn limit" => admitted >= TurnLimit
    /\ accumulated' = [accumulated EXCEPT
                            ![c] = Combine(@, UsageOf(tracker[c]))]
    /\ tracker' = [tracker EXCEPT ![c] = NewTracker]
    /\ IF Fatal(c, error)
       THEN /\ Goto(c, "closing")
            /\ outcome' = [outcome EXCEPT ![c] = "error"]
            /\ UNCHANGED <<failures, hits>>
       ELSE /\ hits' = [hits EXCEPT ![c] = HitsAfter(c, error)]
            /\ failures' = [failures EXCEPT ![c] = FailuresAfter(c, error)]
            /\ IF Spent(c, error)
               THEN /\ Goto(c, "closing")
                    /\ outcome' = [outcome EXCEPT ![c] = "error"]
               ELSE Goto(c, "sleeping") /\ UNCHANGED outcome

\* The cooldown or the backoff is over.
Wake(c) ==
    /\ pc[c] = "sleeping"
    /\ Goto(c, "waiting")
    /\ UNCHANGED <<failures, hits, accumulated, tracker, scope, outcome,
                   limiter, admitted, attempts, spent>>

\* Cancelled while it waits for the limiter or sleeps.
Cancel(c) ==
    /\ pc[c] \in {"waiting", "sleeping"}
    /\ scope' = [scope EXCEPT ![c] = accumulated[c]]
    /\ outcome' = [outcome EXCEPT ![c] = "error"]
    /\ Goto(c, "closing")
    /\ UNCHANGED <<failures, hits, accumulated, tracker, limiter, admitted,
                   attempts, spent>>

\* The runner is closed; if that raises, the error replaces the response.
Close(c, closed) ==
    /\ pc[c] = "closing"
    /\ attempts[c] = 0 => closed          \* no runner was made
    /\ outcome' = [outcome EXCEPT ![c] = IF closed THEN @ ELSE "error"]
    /\ Goto(c, "settled")
    /\ UNCHANGED <<failures, hits, accumulated, tracker, scope, limiter,
                   admitted, attempts, spent>>

-----------------------------------------------------------------------------
\* What happens by itself once a call has started.
Proceed(c) ==
    \/ Attempt(c)
    \/ Turn(c)
    \/ \E o \in Outputs, final \in BOOLEAN : Report(c, o, final)
    \/ Succeed(c)
    \/ \E error \in Errors : Fail(c, error)
    \/ Wake(c)
    \/ \E closed \in BOOLEAN : Close(c, closed)

Next == \E c \in Callers : Start(c) \/ Proceed(c) \/ Cancel(c)

Spec == Init /\ [][Next]_vars

\* Invocations end (ADK's own call limit and the providers see to that), sleeps
\* end, and a released limiter goes to some waiter.
FairSpec ==
    /\ Spec
    /\ \A c \in Callers :
        /\ WF_vars(Succeed(c) \/ \E error \in Errors : Fail(c, error))
        /\ WF_vars(Wake(c))
        /\ WF_vars(\E closed \in BOOLEAN : Close(c, closed))
        /\ SF_vars(Attempt(c))

-----------------------------------------------------------------------------
\* Every variable has its type.
TypeOK ==
    /\ pc \in [Callers -> PCs]
    /\ failures \in [Callers -> Nat]
    /\ hits \in [Callers -> Nat]
    /\ accumulated \in [Callers -> UsageRecord]
    /\ tracker \in [Callers -> Trackers]
    /\ scope \in [Callers -> UsageRecord]
    /\ outcome \in [Callers -> {"none", "response", "error"}]
    /\ limiter \in Nat
    /\ admitted \in Nat
    /\ attempts \in [Callers -> Nat]
    /\ spent \in [Callers -> UsageRecord]

\* However a call ends, what it reports is what its models did over all its
\* attempts: no failed attempt is forgotten or counted twice.
UsageConserved ==
    \A c \in Callers : pc[c] \in {"closing", "settled"} => scope[c] = spent[c]

\* The two retry budgets bound the attempts of every mix of failures; a call
\* with tools makes one attempt at most, so no effect recurs.
AttemptsBounded ==
    \A c \in Callers :
        attempts[c] <= IF c \in Tooled THEN 1
                       ELSE MaxAttempts + MaxRateLimitRetries

\* The limiter and the attempts that hold it add up: nobody keeps it while it
\* sleeps or after it failed.
LimiterAccounted ==
    limiter + Cardinality({c \in Callers : pc[c] = "calling"}) = LimiterSize

\* A started call settles.
CallSettles ==
    \A c \in Callers : pc[c] \in Started ~> pc[c] = "settled"
=============================================================================
