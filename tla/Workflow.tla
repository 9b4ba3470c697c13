------------------------------ MODULE Workflow ------------------------------
(***************************************************************************)
(* One workflow run of dialectica/workflow.py, with the crashes and resumes *)
(* of that run: the agent() calls a script makes, their journal and its    *)
(* snapshot on disk, the reuse of journalled results, the budget and the   *)
(* concurrency semaphore.                                                  *)
(*                                                                         *)
(* A script is a set of Tasks, one per agent() call it may make; Script    *)
(* gives each task's options and what must happen before the call.  The    *)
(* event loop is single threaded, so an action is the code between two     *)
(* awaits: reserving a position up to the verifier's await (Call), the     *)
(* verifier's answer (Verdict), the cache decision with everything up to   *)
(* the persisted intent (Reuse, RefuseUnsafe, OverBudget, GoLive), the     *)
(* start of the model call (Dispatch) and its answer with the journal      *)
(* entry and the persist that follow (Answer, Reask, Exhaust, CallFails).  *)
(* A call that has nothing to await before its decision passes through     *)
(* "deciding", in which the event loop runs no other call (At).            *)
(*                                                                         *)
(* Bounds: MaxRuns executions of the run, each of at most MaxCalls calls.  *)
(* Left out: prompts and models (a part of the key that is constant for a  *)
(* task), the run's log, usage.jsonl (only ever appended to, never read),  *)
(* child workflows and explicit phase() calls, two hosts resuming one run  *)
(* (run locks exclude that).                                               *)
(***************************************************************************)
EXTENDS Journal, Sequences, FiniteSets

CONSTANTS
    Tasks,          \* the agent() calls of the script
    Script,         \* the options of each call, see Options
    Results,        \* what a model may answer, parsed
    Fingerprints,   \* resume_version with the fingerprints of script and args
    Phases, NoPhase,
    Declared,       \* the phase titles of meta, <<>> for none
    MaxRuns,        \* how many times the run is executed
    Concurrency,    \* the semaphore's size
    Unit,           \* budget_unit
    Limited,        \* whether budget_total was given
    Total,          \* budget_total
    Usages,         \* what a model call may report: [output, unknown]
    MaxOutput,      \* the most output tokens one call reports
    DiskFaults      \* whether writing the snapshot may fail

Options ==
    [behind   : SUBSET Tasks,    \* branches started before this one
     after    : SUBSET Tasks,    \* calls the script awaits before this one
     strict   : BOOLEAN,         \* those must have returned, not raised
     reads    : SUBSET Tasks,    \* sees=
     tools    : BOOLEAN,         \* tools= is not empty
     isolated : BOOLEAN,         \* isolation="worktree"
     schema   : BOOLEAN,         \* schema= is given
     attempts : Nat \ {0},       \* max_attempts
     verify   : BOOLEAN,         \* verify_cached= with a replay_version
     reenters : BOOLEAN,         \* ... a verifier that calls agent()
     rerun    : BOOLEAN,         \* replay="rerun"
     refused  : BOOLEAN,         \* an option or tool the call must refuse
     opaque   : BOOLEAN,         \* no stable cache key: a fresh uuid each time
     phase    : Phases \cup {NoPhase}]

Usage == [output : Nat, unknown : {0, 1}]

ASSUME ScriptAssumption == Script \in [Tasks -> Options]
ASSUME BoundAssumption ==
    /\ MaxRuns \in Nat \ {0}
    /\ Concurrency \in Nat \ {0}
    /\ Unit \in {"calls", "tokens"}
    /\ Limited \in BOOLEAN
    /\ Total \in Nat \ {0}
    /\ DiskFaults \in BOOLEAN
ASSUME UsageAssumption ==
    /\ MaxOutput \in Nat
    /\ Usages \subseteq Usage
    /\ \A u \in Usages : u.output <= MaxOutput
ASSUME NamesAssumption ==
    /\ NoResult \notin Results
    /\ NoFingerprint \notin Fingerprints
    /\ NoPhase \notin Phases

VARIABLES
    alive,      \* the process is inside Workflow._run
    run,        \* how many executions of this run have started
    status,     \* report.status of the execution
    journal,    \* ctx.journal
    disk,       \* the snapshot in journal.jsonl
    nextSeq,    \* ctx.agent_sequence
    pc,         \* where each call is
    seq,        \* the position each call reserved, MaxCalls before it has one
    key,        \* its cache_key
    held,       \* the cached entry it looked up
    usable,     \* its local "reusable"
    asks,       \* how often its model was asked
    outputs,    \* ctx.step_outputs
    phases,     \* ctx.phases, as the calls that appended them
    marred,     \* ctx.outcomes holds a failed outcome
    budget,     \* ctx.budget: _calls, _output_tokens, _unknown_calls
    slots,      \* the semaphore's value
    acted,      \* history: the dispatches of effectful calls, over all runs
    reentered   \* history: the calls whose verifier called agent()

vars == <<alive, run, status, journal, disk, nextSeq, pc, seq, key, held,
          usable, asks, outputs, phases, marred, budget, slots, acted,
          reentered>>

-----------------------------------------------------------------------------
NoSeq == MaxCalls

PCs == {"idle", "verifying", "waiting", "deciding", "queued", "running",
        "reused", "done", "failed"}

Undecided == {"verifying", "waiting", "deciding"}
Underway  == {"queued", "running"}
Active    == Undecided \cup Underway
Returned  == {"reused", "done"}
Settled   == Returned \cup {"failed"}

Effectful(t) == Script[t].tools \/ Script[t].isolated

Keys == [task : Tasks, context : [Tasks -> Results \cup {NoResult}],
         nonce : 0 .. MaxRuns]

Entries == [kind : Kinds, key : Keys \cup {NoKey},
            result : Results \cup {NoResult}, run : Nat,
            fp : Fingerprints \cup {NoFingerprint}]

Terminals == {"running", "completed", "partial", "failed", "cancelled"}

Journals == [entries : [Positions -> Entries], liveFrom : 0 .. MaxCalls,
             effectful : SUBSET Positions, resuming : BOOLEAN,
             terminal : Terminals, fp : Fingerprints]

Snapshots == [exists : BOOLEAN, entries : [Positions -> Entries],
              effectful : SUBSET Positions, terminal : Terminals,
              fp : Fingerprints \cup {NoFingerprint}]

\* agent_cache_key: the outputs of the steps the call reads are in its prompt.
KeyOf(t) ==
    [task    |-> t,
     context |-> [u \in Tasks |->
                    IF u \in Script[t].reads THEN outputs[u] ELSE NoResult],
     nonce   |-> IF Script[t].opaque THEN run ELSE 0]

EntryFor(t, kind, result) ==
    [kind |-> kind, key |-> key[t], result |-> result,
     run |-> run, fp |-> journal.fp]

\* prior_effect; the position's effect flag cannot change while its own call
\* waits, so reading it when it is used is reading it when the code does.
PriorEffect(t) == journal.resuming /\ seq[t] \in journal.effectful

\* Budget._check, and _check before a dispatch, which only counts tokens.
Spent == IF Unit = "calls" THEN budget.calls ELSE budget.output
Admissible_IgnoresUnknown == Limited => Spent < Total       \* mutant
Admissible_OffByOne == Limited => Spent <= Total            \* mutant

Admissible ==
    Limited => /\ Unit = "tokens" => budget.unknown = 0
               /\ Spent < Total
Dispatchable_Unchecked == TRUE      \* mutant: no recheck after queueing

Dispatchable == Unit = "tokens" => Admissible

Charged(u) == [budget EXCEPT !.output  = @ + u.output,
                             !.unknown = @ + u.unknown]

\* The event loop runs t at the place p: no other call is between two awaits.
At(t, p) ==
    /\ pc[t] = p
    /\ \A u \in Tasks \ {t} : pc[u] # "deciding"

\* Mutants of EarlierDecided: nobody waits; a call waits for later ones too.
EarlierDecided_Unordered(t) == TRUE
EarlierDecided_Everyone(t) ==
    \A u \in Tasks \ {t} : pc[u] \notin Undecided

\* Every earlier call has set its decision event (sequence numbers of calls
\* that have one are distinct).
EarlierDecided(t) ==
    \A u \in Tasks : pc[u] \in Undecided => seq[t] <= seq[u]

\* Mutant of Save: the snapshot is written in the background.
Save_Background(j, saved) ==
    /\ saved \/ DiskFaults
    /\ journal' = j
    /\ disk' \in {disk, Snapshot(j)}

\* persist: the journal becomes j, and so does the snapshot unless the write
\* raises, which leaves the old one.
Save(j, saved) ==
    /\ saved \/ DiskFaults
    /\ journal' = j
    /\ disk' = IF saved THEN Snapshot(j) ELSE disk

AppendPhase(t) ==
    phases' = IF Script[t].phase = NoPhase THEN phases ELSE Append(phases, t)

MatchesMeta ==
    \/ Declared = <<>>
    \/ [i \in DOMAIN phases |-> Script[phases[i]].phase] = Declared

-----------------------------------------------------------------------------
\* The context of a fresh execution.
FreshContext ==
    /\ nextSeq' = 0
    /\ pc' = [t \in Tasks |-> "idle"]
    /\ seq' = [t \in Tasks |-> NoSeq]
    /\ key' = [t \in Tasks |-> NoKey]
    /\ held' = [t \in Tasks |-> NoEntry]
    /\ usable' = [t \in Tasks |-> FALSE]
    /\ asks' = [t \in Tasks |-> 0]
    /\ outputs' = [t \in Tasks |-> NoResult]
    /\ phases' = <<>>
    /\ marred' = FALSE
    /\ budget' = [calls |-> 0, output |-> 0, unknown |-> 0]
    /\ slots' = Concurrency
    /\ reentered' = {}

Init ==
    /\ alive = TRUE
    /\ run = 1
    /\ status = "running"
    /\ \E f \in Fingerprints : journal = NewJournal(f)
    /\ disk = NoSnapshot
    /\ nextSeq = 0
    /\ pc = [t \in Tasks |-> "idle"]
    /\ seq = [t \in Tasks |-> NoSeq]
    /\ key = [t \in Tasks |-> NoKey]
    /\ held = [t \in Tasks |-> NoEntry]
    /\ usable = [t \in Tasks |-> FALSE]
    /\ asks = [t \in Tasks |-> 0]
    /\ outputs = [t \in Tasks |-> NoResult]
    /\ phases = <<>>
    /\ marred = FALSE
    /\ budget = [calls |-> 0, output |-> 0, unknown |-> 0]
    /\ slots = Concurrency
    /\ acted = {}
    /\ reentered = {}

-----------------------------------------------------------------------------
(***************************************************************************)
(* agent(), up to the verifier's await.                                    *)
(***************************************************************************)

\* The script has come to this call.
Reached(t) ==
    /\ alive
    /\ At(t, "idle")
    /\ \A u \in Script[t].behind : pc[u] # "idle"
    /\ \A u \in Script[t].after :
            pc[u] \in (IF Script[t].strict THEN Returned ELSE Settled)

\* Mutant of CapReached: one call too many gets a position.
CapReached_OffByOne == nextSeq > MaxCalls

\* WorkflowAgentCapExceeded.
CapReached == nextSeq >= MaxCalls

\* The call is refused before it reserves a position.
PreflightFails(t) ==
    /\ Reached(t)
    /\ CapReached \/ Script[t].refused
    /\ pc' = [pc EXCEPT ![t] = "failed"]
    /\ marred' = TRUE
    /\ UNCHANGED <<alive, run, status, journal, disk, nextSeq, seq, key, held,
                   usable, asks, outputs, phases, budget, slots, acted,
                   reentered>>

\* The call reserves a position and looks its key up.
Call(t) ==
    /\ Reached(t)
    /\ ~ CapReached /\ ~ Script[t].refused
    /\ LET k     == KeyOf(t)
           found == Lookup(journal, nextSeq, k)
           offer == found # NoEntry /\ ~ Script[t].rerun
       IN  /\ key'  = [key EXCEPT ![t] = k]
           /\ held' = [held EXCEPT ![t] = found]
           /\ usable' = [usable EXCEPT ![t] =
                 /\ offer
                 /\ ~ Effectful(t)
                 /\ ~ (journal.resuming /\ nextSeq \in journal.effectful)]
           /\ pc' = [pc EXCEPT ![t] =
                 IF offer /\ Script[t].verify THEN "verifying"
                 ELSE IF \E u \in Tasks : pc[u] \in Undecided THEN "waiting"
                 ELSE "deciding"]
           /\ journal' = AfterLookup(journal, nextSeq, k)
    /\ seq' = [seq EXCEPT ![t] = nextSeq]
    /\ nextSeq' = nextSeq + 1
    /\ UNCHANGED <<alive, run, status, disk, asks, outputs, phases, marred,
                   budget, slots, acted, reentered>>

\* Mutant of Verdict: what the verifier was refused is left to the verifier.
Verdict_Forgiving(t, accepts, called) ==
    /\ At(t, "verifying")
    /\ called => Script[t].reenters
    /\ pc' = [pc EXCEPT ![t] = IF EarlierDecided(t) THEN "deciding"
                                                   ELSE "waiting"]
    /\ usable' = [usable EXCEPT ![t] = accepts]
    /\ reentered' = IF called THEN reentered \cup {t} ELSE reentered
    /\ UNCHANGED <<alive, run, status, journal, disk, nextSeq, seq, key, held,
                   asks, outputs, phases, marred, budget, slots, acted>>

\* The host's verifier answers; one that raises has not accepted.  An agent()
\* call inside it is refused and leaves a failed outcome, whatever the verifier
\* then makes of the exception.
Verdict(t, accepts, called) ==
    /\ At(t, "verifying")
    /\ called => Script[t].reenters
    /\ pc' = [pc EXCEPT ![t] = IF EarlierDecided(t) THEN "deciding"
                                                   ELSE "waiting"]
    /\ usable' = [usable EXCEPT ![t] = accepts]
    /\ marred' = (marred \/ called)
    /\ reentered' = IF called THEN reentered \cup {t} ELSE reentered
    /\ UNCHANGED <<alive, run, status, journal, disk, nextSeq, seq, key, held,
                   asks, outputs, phases, budget, slots, acted>>

-----------------------------------------------------------------------------
(***************************************************************************)
(* The cache decision, taken once every earlier call has taken its own.    *)
(***************************************************************************)

Gate(t) == (At(t, "waiting") \/ At(t, "deciding")) /\ EarlierDecided(t)

\* Mutant of StillOffered: no second lookup after the awaits.
StillOffered_Unchecked(t) == usable[t]

\* The entry the call was offered is still what the journal would offer.
StillOffered(t) ==
    usable[t] /\ Lookup(journal, seq[t], key[t]) = held[t]

\* A cached result is returned.
Reuse(t) ==
    /\ Gate(t)
    /\ StillOffered(t)
    /\ pc' = [pc EXCEPT ![t] = "reused"]
    /\ outputs' = [outputs EXCEPT ![t] = held[t].result]
    /\ AppendPhase(t)
    /\ UNCHANGED <<alive, run, status, journal, disk, nextSeq, seq, key, held,
                   usable, asks, marred, budget, slots, acted, reentered>>

MustRefuse(t) == PriorEffect(t) /\ ~ Script[t].rerun

\* ResumeUnsafeError: an earlier execution acted at this position.
RefuseUnsafe(t) ==
    /\ Gate(t)
    /\ ~ StillOffered(t)
    /\ MustRefuse(t)
    /\ journal' = InvalidateFrom(journal, seq[t])
    /\ pc' = [pc EXCEPT ![t] = "failed"]
    /\ marred' = TRUE
    /\ UNCHANGED <<alive, run, status, disk, nextSeq, seq, key, held, usable,
                   asks, outputs, phases, budget, slots, acted, reentered>>

\* BudgetExhausted at admission.
OverBudget(t) ==
    /\ Gate(t)
    /\ ~ StillOffered(t)
    /\ ~ MustRefuse(t)
    /\ ~ Admissible
    /\ journal' = InvalidateFrom(journal, seq[t])
    /\ pc' = [pc EXCEPT ![t] = "failed"]
    /\ marred' = TRUE
    /\ UNCHANGED <<alive, run, status, disk, nextSeq, seq, key, held, usable,
                   asks, outputs, phases, budget, slots, acted, reentered>>

\* Mutant of WithIntent: the effect flag is left to the end of the call.
WithIntent_NoFlag(t) ==
    AppendEntry(InvalidateFrom(journal, seq[t]), seq[t],
                EntryFor(t, "pending", NoResult))

\* The journal with the effect flag and the pending entry of a live call.
WithIntent(t) ==
    LET j == InvalidateFrom(journal, seq[t])
    IN  AppendEntry([j EXCEPT !.effectful =
                        IF Effectful(t) THEN @ \cup {seq[t]} ELSE @],
                    seq[t], EntryFor(t, "pending", NoResult))

\* The call is admitted and its intent is persisted.
GoLive(t, saved) ==
    /\ Gate(t)
    /\ ~ StillOffered(t)
    /\ ~ MustRefuse(t)
    /\ Admissible
    /\ budget' = [budget EXCEPT !.calls = @ + 1]
    /\ Save(WithIntent(t), saved)
    /\ IF saved
       THEN /\ pc' = [pc EXCEPT ![t] = "queued"]
            /\ AppendPhase(t)
            /\ UNCHANGED marred
       ELSE /\ pc' = [pc EXCEPT ![t] = "failed"]
            /\ marred' = TRUE
            /\ UNCHANGED phases
    /\ UNCHANGED <<alive, run, status, nextSeq, seq, key, held, usable, asks,
                   outputs, slots, acted, reentered>>

-----------------------------------------------------------------------------
(***************************************************************************)
(* The live call.                                                          *)
(***************************************************************************)

\* The call raises; an error entry replaces the pending one.
Raise(t, saved) ==
    /\ pc' = [pc EXCEPT ![t] = "failed"]
    /\ marred' = TRUE
    /\ Save(AppendEntry(journal, seq[t], EntryFor(t, "error", NoResult)), saved)
    /\ UNCHANGED <<alive, run, status, nextSeq, seq, key, held, usable, asks,
                   outputs, phases, acted, reentered>>

\* The worktree cannot be made, or the agent object cannot.
SetupFails(t, saved) ==
    /\ At(t, "queued")
    /\ asks[t] = 0
    /\ Raise(t, saved)
    /\ UNCHANGED <<budget, slots>>

\* The budget ran out while the call waited for the semaphore.
DispatchRefused(t, saved) ==
    /\ At(t, "queued")
    /\ slots > 0
    /\ ~ Dispatchable
    /\ Raise(t, saved)
    /\ UNCHANGED <<budget, slots>>

\* The semaphore is taken and the model called.
Dispatch(t) ==
    /\ At(t, "queued")
    /\ slots > 0
    /\ Dispatchable
    /\ slots' = slots - 1
    /\ asks' = [asks EXCEPT ![t] = @ + 1]
    /\ pc' = [pc EXCEPT ![t] = "running"]
    /\ acted' = IF Effectful(t)
                THEN acted \cup {[pos |-> seq[t], task |-> t, run |-> run]}
                ELSE acted
    /\ UNCHANGED <<alive, run, status, journal, disk, nextSeq, seq, key, held,
                   usable, outputs, phases, marred, budget, reentered>>

\* Mutant of Receive: the semaphore is not released.
Receive_KeepsSlot(t, u) ==
    /\ At(t, "running")
    /\ slots' = slots
    /\ budget' = Charged(u)

\* The model answers: the semaphore is released and the usage recorded.
Receive(t, u) ==
    /\ At(t, "running")
    /\ slots' = slots + 1
    /\ budget' = Charged(u)

\* A call that can act is never asked twice.
AsksAllowed(t) == IF Script[t].tools THEN 1 ELSE Script[t].attempts

\* The answer is a result.  If the journal cannot be written the call raises,
\* although the result is journalled in memory and other steps may see it.
Answer(t, u, r, saved) ==
    /\ Receive(t, u)
    /\ Save(AppendEntry(journal, seq[t], EntryFor(t, "ok", r)), saved)
    /\ outputs' = [outputs EXCEPT ![t] = r]
    /\ pc' = [pc EXCEPT ![t] = IF saved THEN "done" ELSE "failed"]
    /\ marred' = (marred \/ ~ saved)
    /\ UNCHANGED <<alive, run, status, nextSeq, seq, key, held, usable, asks,
                   phases, acted, reentered>>

\* The answer does not parse into the schema and the call asks again.
Reask(t, u) ==
    /\ Receive(t, u)
    /\ Script[t].schema
    /\ asks[t] < AsksAllowed(t)
    /\ pc' = [pc EXCEPT ![t] = "queued"]
    /\ UNCHANGED <<alive, run, status, journal, disk, nextSeq, seq, key, held,
                   usable, asks, outputs, phases, marred, acted, reentered>>

\* It does not parse and no attempt is left: agent() returns None.
Exhaust(t, u, saved) ==
    /\ Receive(t, u)
    /\ Script[t].schema
    /\ asks[t] >= AsksAllowed(t)
    /\ Save(AppendEntry(journal, seq[t], EntryFor(t, "none", NoResult)), saved)
    /\ pc' = [pc EXCEPT ![t] = IF saved THEN "done" ELSE "failed"]
    /\ marred' = TRUE
    /\ UNCHANGED <<alive, run, status, nextSeq, seq, key, held, usable, asks,
                   outputs, phases, acted, reentered>>

\* The model call raises, is cancelled, or its receipt cannot be written.
CallFails(t, u, saved) ==
    /\ Receive(t, u)
    /\ Raise(t, saved)

\* Cancellation before the decision: the event is set, the suffix is dropped.
CancelUndecided(t) ==
    /\ At(t, "verifying") \/ At(t, "waiting")
    /\ journal' = InvalidateFrom(journal, seq[t])
    /\ pc' = [pc EXCEPT ![t] = "failed"]
    /\ marred' = TRUE
    /\ UNCHANGED <<alive, run, status, disk, nextSeq, seq, key, held, usable,
                   asks, outputs, phases, budget, slots, acted, reentered>>

\* Cancellation while waiting for the semaphore: the exception carries no usage
\* and the call is recorded as one of unknown usage.
CancelQueued(t, saved) ==
    /\ At(t, "queued")
    /\ Raise(t, saved)
    /\ budget' = [budget EXCEPT !.unknown = @ + 1]
    /\ UNCHANGED slots

-----------------------------------------------------------------------------
(***************************************************************************)
(* The execution: Workflow._run returns, the process dies, the host resumes. *)
(***************************************************************************)

\* Mutant of FinalStatus: a script that returned has completed.
FinalStatus_IgnoresOutcomes(outcome) ==
    CASE outcome = "raised"    -> "failed"
      [] outcome = "cancelled" -> "cancelled"
      [] outcome = "returned"  -> "completed"

FinalStatus(outcome) ==
    CASE outcome = "raised"    -> "failed"
      [] outcome = "cancelled" -> "cancelled"
      [] outcome = "returned"  -> IF ~ MatchesMeta THEN "failed"
                                  ELSE IF marred THEN "partial" ELSE "completed"

\* The script ends: every branch it started has settled.
EndRun(outcome, saved) ==
    /\ alive
    /\ \A t \in Tasks : pc[t] \notin Active
    /\ status' = FinalStatus(outcome)
    /\ Save([journal EXCEPT !.terminal = FinalStatus(outcome)], saved)
    /\ alive' = FALSE
    /\ FreshContext
    /\ UNCHANGED <<run, acted>>

\* The process dies; only the snapshot survives.
Crash ==
    /\ alive
    /\ alive' = FALSE
    /\ status' = "crashed"
    /\ FreshContext
    /\ UNCHANGED <<run, journal, disk, acted>>

\* The host resumes the run, perhaps with a changed script or version.
Resume(f) ==
    /\ ~ alive
    /\ disk.exists
    /\ run < MaxRuns
    /\ run' = run + 1
    /\ alive' = TRUE
    /\ status' = "running"
    /\ journal' = ResumedJournal(disk, f)
    /\ FreshContext
    /\ UNCHANGED <<disk, acted>>

-----------------------------------------------------------------------------
\* What the event loop, the host's verifiers and the models do by themselves.
TaskStep(t) ==
    \/ \E accepts, called \in BOOLEAN : Verdict(t, accepts, called)
    \/ Reuse(t) \/ RefuseUnsafe(t) \/ OverBudget(t)
    \/ \E saved \in BOOLEAN : GoLive(t, saved)
    \/ Dispatch(t)
    \/ \E saved \in BOOLEAN : DispatchRefused(t, saved)
    \/ \E u \in Usages :
        \/ \E r \in Results, saved \in BOOLEAN : Answer(t, u, r, saved)
        \/ Reask(t, u)
        \/ \E saved \in BOOLEAN : Exhaust(t, u, saved) \/ CallFails(t, u, saved)

\* What may happen but need not.
Disturbance(t) ==
    \/ Call(t) \/ PreflightFails(t)
    \/ CancelUndecided(t)
    \/ \E saved \in BOOLEAN : SetupFails(t, saved) \/ CancelQueued(t, saved)

Execution ==
    \/ \E outcome \in {"returned", "raised", "cancelled"}, saved \in BOOLEAN :
            EndRun(outcome, saved)
    \/ Crash
    \/ \E f \in Fingerprints : Resume(f)

Next ==
    \/ \E t \in Tasks : TaskStep(t) \/ Disturbance(t)
    \/ Execution

Spec == Init /\ [][Next]_vars

\* The event loop runs whatever can run; the verifiers and the models answer or
\* raise (that no provider hangs for ever is the host's side of the contract).
FairSpec == Spec /\ WF_vars(\E t \in Tasks : TaskStep(t))

-----------------------------------------------------------------------------
(***************************************************************************)
(* What resuming promises (ResumeContract).  Its snapshot are the answers  *)
(* that disk offers for reuse; a call that was refused before it had a     *)
(* position was never asked.                                               *)
(***************************************************************************)
StageOf(t) ==
    IF seq[t] = NoSeq THEN "none"
    ELSE IF pc[t] \in Undecided THEN "asked"
    ELSE IF pc[t] \in Underway THEN "live"
    ELSE pc[t]

Stages == [t \in Tasks |-> StageOf(t)]

Stored ==
    [p \in {q \in Positions : disk.entries[q].kind = "ok"} |->
        [key |-> disk.entries[p].key, result |-> disk.entries[p].result]]

Contract == INSTANCE ResumeContract WITH
    Calls <- Tasks, Questions <- Keys, Answers <- Results,
    Versions <- Fingerprints, NoPlace <- NoSeq, NoQuestion <- NoKey,
    NoAnswer <- NoResult, NoVersion <- NoFingerprint,
    Acting <- {t \in Tasks : Effectful(t)},
    Verified <- {t \in Tasks : Script[t].verify},
    Rerun <- {t \in Tasks : Script[t].rerun},
    open <- alive, execution <- run, version <- journal.fp, stage <- Stages,
    place <- seq, question <- key, answer <- outputs, stored <- Stored,
    storedVersion <- disk.fp, marks <- disk.effectful, effects <- acted

\* Over all its executions a run keeps the promise of ResumeContract: answers
\* are given again in order, to the same questions, under the same version; no
\* call is made again where one acted, unless allowed; and the snapshot never
\* says more than what happened nor less than what was started.
HonoursContract == Contract!Spec

-----------------------------------------------------------------------------
(***************************************************************************)
(* Properties.                                                             *)
(***************************************************************************)

\* Every variable has its type.
TypeOK ==
    /\ alive \in BOOLEAN
    /\ run \in 1 .. MaxRuns
    /\ status \in Terminals \cup {"crashed"}
    /\ journal \in Journals
    /\ disk \in Snapshots
    /\ nextSeq \in 0 .. MaxCalls
    /\ pc \in [Tasks -> PCs]
    /\ seq \in [Tasks -> 0 .. MaxCalls]
    /\ key \in [Tasks -> Keys \cup {NoKey}]
    /\ held \in [Tasks -> Entries]
    /\ usable \in [Tasks -> BOOLEAN]
    /\ asks \in [Tasks -> Nat]
    /\ outputs \in [Tasks -> Results \cup {NoResult}]
    /\ phases \in Seq(Tasks)
    /\ marred \in BOOLEAN
    /\ budget \in [calls : Nat, output : Nat, unknown : Nat]
    /\ slots \in Nat
    /\ acted \subseteq [pos : Positions, task : Tasks, run : 1 .. MaxRuns]
    /\ reentered \subseteq Tasks

\* No process death hides a started call: while it waits for or talks to its
\* model its intent is in the snapshot, flagged if it can act; once it has
\* returned, what it returned is (workflow.py:492, "Persist intent before
\* dispatch, so a process death never hides a started tool").
IntentDurable ==
    \A t \in Tasks :
        /\ pc[t] \in Underway =>
              /\ disk.entries[seq[t]] = EntryFor(t, "pending", NoResult)
              /\ Effectful(t) => seq[t] \in disk.effectful
        /\ pc[t] = "done" =>
              /\ disk.entries[seq[t]].kind \in {"ok", "none"}
              /\ disk.entries[seq[t]].key = key[t]
              /\ disk.entries[seq[t]].run = run

\* Reused calls are a prefix of the call order: nothing is reused behind a call
\* that ran live, failed or was cancelled in this execution.
CachedPrefix ==
    \A t, u \in Tasks :
        pc[t] = "reused" /\ seq[u] < seq[t] => pc[u] = "reused"

\* A snapshot is one consistent history: all its entries were made under its own
\* fingerprint, and no entry is older than one at an earlier position.
SnapshotCoherent ==
    \A p, q \in Positions :
        LET early == disk.entries[p]
            late  == disk.entries[q]
        IN  /\ early.kind # "absent" => early.fp = disk.fp
            /\ p < q /\ early.kind # "absent" /\ late.kind # "absent" =>
                    early.run <= late.run

\* A position at which one execution acted is acted at by no later one, unless
\* the call there asks for replay="rerun".
EffectOncePerPosition ==
    \A x, y \in acted :
        x.pos = y.pos /\ x.run < y.run => Script[y.task].rerun

\* The journal never loses what this execution paid for: a call that went live
\* keeps its own entry whatever later calls look up, reject or cancel.
LiveKept ==
    \A t \in Tasks :
        pc[t] \in Underway \cup {"done"} =>
            /\ journal.entries[seq[t]].key = key[t]
            /\ journal.entries[seq[t]].run = run

\* Every admitted step leaves exactly one entry of this execution in the
\* journal, and nothing else does: cached steps are not charged, charged ones
\* are not lost, so agent_steps and the journal tell the same story.
ChargesMatchJournal ==
    alive => budget.calls = Cardinality(
        {p \in Positions : /\ journal.entries[p].kind # "absent"
                           /\ journal.entries[p].run = run})

\* A run reports "completed" only if every call it made returned a result and
\* no verifier tried to call agent(), whoever caught the exceptions.
CompletedIsWhole ==
    [][ alive /\ ~ alive' /\ status' = "completed" =>
        /\ \A t \in Tasks :
               \/ pc[t] = "idle"
               \/ pc[t] \in Returned /\ outputs[t] # NoResult
        /\ reentered = {} ]_vars

WithinTotal ==
    Limited =>
        IF Unit = "calls"
        THEN budget.calls <= Total
        ELSE budget.output + MaxOutput * (Concurrency - slots)
                < Total + MaxOutput * Concurrency

\* An execution reserves at most as many positions as the cap on agent() calls
\* allows, reused calls included, and admits at most a step for each.  The call
\* budget is never exceeded; the token budget is overshot by at most the calls
\* already in flight (Budget's docstring, workflow.py:118-121).
BudgetRespected ==
    /\ budget.calls <= nextSeq
    /\ nextSeq <= MaxCalls
    /\ WithinTotal

\* After unknown usage the token budget starts no model call any more.
UnknownBlocks ==
    [][ Limited /\ Unit = "tokens" /\ budget.unknown > 0 =>
        \A t \in Tasks : pc'[t] = "running" => pc[t] = "running" ]_vars

\* The semaphore's value and the calls that hold it always add up, so no slot
\* leaks or is given back twice whichever way a call ends.
SlotsAccounted ==
    slots + Cardinality({t \in Tasks : pc[t] = "running"}) = Concurrency

\* phases are recorded in call order, in a replay as in a live run, although
\* branches decide and answer in any order; so meta's phases can be compared.
PhasesInCallOrder ==
    \A i, j \in DOMAIN phases : i < j => seq[phases[i]] < seq[phases[j]]

\* Every call that was started settles, unless the process ends: no two calls
\* wait for each other's decision or for a semaphore slot that never comes.
EverySettles ==
    \A t \in Tasks : pc[t] \in Active ~> pc[t] \notin Active

-----------------------------------------------------------------------------
(***************************************************************************)
(* What documents of the repository say and the code does not do.          *)
(***************************************************************************)

\* docs/workflow-reliability.md:93-95: "A prior external step that cannot be
\* reconciled raises ResumeUnsafeError".  So no external step acts again in a
\* later execution without replay="rerun".
EffectOncePerStep ==
    \A x, y \in acted :
        x.task = y.task /\ x.run < y.run => Script[y.task].rerun

\* docs/workflow-reliability.md:119: "The journal snapshot records its terminal
\* execution state."  So a snapshot in a terminal state hides no started call.
TerminalStateTrue ==
    disk.terminal # "running" =>
        \A p \in Positions : disk.entries[p].kind # "pending"
=============================================================================
