------------------------------- MODULE Repair -------------------------------
(***************************************************************************)
(* IterativeRepairEngine and verify of src/dialectica/repair.py: generate, *)
(* verify, and repair against the failures while the verdict is "fail".    *)
(* A candidate is named by the number of its attempt; what matters of a    *)
(* prompt is which model gets it and which failed attempts it shows.       *)
(***************************************************************************)
EXTENDS Integers, Sequences

CONSTANTS Models,      \* the roster, a sequence of model configurations
          MaxAttempts  \* the max_attempts argument, any integer

ASSUME RosterAssumption == Models \in Seq(STRING) /\ Len(Models) > 0
ASSUME AttemptsAssumption == MaxAttempts \in Int

VARIABLES
  rpc,         \* solve, verify, done, raised
  attempt,     \* the attempt under way
  failed,      \* the attempts whose failure a repair prompt shows
  history,     \* the local history: [attempt, model, status]
  lastHistory, \* the engine's last_history, evidence when run raises
  prompts      \* observed: [model, shows] of every prompt sent

repairVars == <<rpc, attempt, failed, history, lastHistory, prompts>>

Verdicts == {"pass", "fail", "indeterminate"}

(* What a verifier may do, and what verify makes of it: a result is taken  *)
(* as it is, a (bool, str) tuple is pass or fail, anything else and any    *)
(* Exception are indeterminate.                                            *)
VerifierActs == [returns : {"result"}, value : Verdicts]
           \cup [returns : {"tuple"}, value : {"true", "false"}]
           \cup [returns : {"junk", "raise"}, value : {"none"}]

Verify(act) ==
  CASE act.returns = "result" -> act.value
    [] act.returns = "tuple" -> IF act.value = "true" THEN "pass" ELSE "fail"
    [] OTHER -> "indeterminate"

(* max(1, max_attempts) *)
Bound == IF MaxAttempts < 1 THEN 1 ELSE MaxAttempts

ModelFor(n) == Models[((n - 1) % Len(Models)) + 1]

RepairInit ==
  /\ rpc = "solve" /\ attempt = 1
  /\ failed = <<>> /\ history = <<>> /\ lastHistory = <<>> /\ prompts = <<>>

(* agent() answers the solve prompt, or a repair prompt with the failures. *)
Candidate ==
  /\ rpc = "solve"
  /\ prompts' = Append(prompts, [model |-> ModelFor(attempt), shows |-> failed])
  /\ rpc' = "verify"
  /\ UNCHANGED <<attempt, failed, history, lastHistory>>

(* agent() raises (no budget, a refused or failed call, cancellation). *)
AgentRaises ==
  /\ rpc = "solve"
  /\ rpc' = "raised"
  /\ UNCHANGED <<attempt, failed, history, lastHistory, prompts>>

(* Only cancellation passes through verify. *)
VerifyCancelled ==
  /\ rpc = "verify"
  /\ rpc' = "raised"
  /\ UNCHANGED <<attempt, failed, history, lastHistory, prompts>>

TriesAgain_AnyVerdict(status) == status # "pass" /\ attempt < Bound
TriesAgain(status) == status = "fail" /\ attempt < Bound

NextPrompt_LastOnly == <<attempt>>
NextPrompt == Append(failed, attempt)

Judge(act) ==
  /\ rpc = "verify"
  /\ LET status == Verify(act)
     IN /\ history' = Append(history, [attempt |-> attempt,
                                       model |-> ModelFor(attempt),
                                       status |-> status])
        /\ IF TriesAgain(status)
           THEN /\ rpc' = "solve" /\ attempt' = attempt + 1
                /\ failed' = NextPrompt
           ELSE /\ rpc' = "done" /\ UNCHANGED <<attempt, failed>>
  /\ lastHistory' = history'
  /\ UNCHANGED prompts

RepairNext == \/ Candidate \/ AgentRaises \/ VerifyCancelled
              \/ \E act \in VerifierActs : Judge(act)

RepairSpec == RepairInit /\ [][RepairNext]_repairVars

-----------------------------------------------------------------------------
(* Candidates are bounded by max_attempts, and no candidate follows a      *)
(* verdict other than "fail": a pass is final, and after an indeterminate  *)
(* check (a broken checker) the engine stops instead of burning attempts   *)
(* (the loop condition of run).                                            *)
StopsInTime ==
  /\ Len(prompts) <= Bound
  /\ \A n \in 1..Len(history) :
       n < Len(prompts) => history[n].status = "fail"

(* Every repair prompt shows all the failed attempts before it, in order,  *)
(* and goes to the next model of the roster; whether run returns or        *)
(* raises, last_history is the evidence of every candidate that was        *)
(* verified.                                                               *)
EvidenceWhole ==
  /\ \A n \in 1..Len(prompts) :
       /\ prompts[n].shows = [i \in 1..(n - 1) |-> i]
       /\ prompts[n].model = ModelFor(n)
  /\ lastHistory = history
  /\ Len(prompts) - Len(history) \in
       IF rpc \in {"verify", "raised"} THEN {0, 1} ELSE {0}
  /\ \A n \in 1..Len(history) : history[n].attempt = n
=============================================================================
