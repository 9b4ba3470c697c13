------------------------------- MODULE Bugfix -------------------------------
(***************************************************************************)
(* The bug-fix host: BugfixHost and structured_bugfix of                   *)
(* src/examples/bugfix_workflow.py and run_arm of                          *)
(* src/evals/workflow_bugfix_eval.py.  The model's tools rewrite the       *)
(* target and run the fixed tests; the run is cut off by wait_for, which   *)
(* cancels the script but not a tool or a test run in its thread.  A       *)
(* version of target.py is named by what the tests do with it: they fail   *)
(* on "broken" (the fixture's) and "wrong", pass on "fixed", and           *)
(* "tampering" code rewrites the test file while they run.                 *)
(***************************************************************************)
EXTENDS Sequences

VARIABLES
  bpc,        \* initial, agent, verify, over, checked, recorded
  arm,        \* "single" or "workflow"
  stage,      \* the call under way: single, diagnose, patch, repair
  target,     \* target.py
  tests,      \* test_target.py: fixed, modified
  initial,    \* the verdict on the broken fixture
  report,     \* the status of the workflow's report, or "none"
  error,      \* an exception reached run_arm
  thread,     \* a write that outlived its script: none, running
  final,      \* the verdict after the run
  record      \* the record that is written: [completed, patch]

bugfixVars == <<bpc, arm, stage, target, tests, initial, report, error, thread,
                final, record>>

Versions == {"broken", "wrong", "fixed", "tampering"}

(* BugfixHost.verify: the bytes of the tests are compared before and after *)
(* they run (PermissionError is an OSError); a timeout or an OSError makes *)
(* any check indeterminate.                                                *)
TestRun(file) ==
  IF tests = "modified" \/ file = "tampering"
  THEN {"indeterminate"}
  ELSE {"indeterminate", IF file = "fixed" THEN "pass" ELSE "fail"}

TestsAfter(file) == IF file = "tampering" THEN "modified" ELSE tests

Unrecorded == [completed |-> FALSE, patch |-> "broken"]

BugfixInit ==
  /\ bpc = "initial" /\ arm \in {"single", "workflow"} /\ stage = "none"
  /\ target = "broken" /\ tests = "fixed" /\ initial = "none"
  /\ report = "none" /\ error = FALSE /\ thread = "none" /\ final = "none"
  /\ record = Unrecorded

(* The first check; a fixture that does not fail is refused before any     *)
(* workflow starts.                                                        *)
Baseline ==
  /\ bpc = "initial"
  /\ initial' \in TestRun(target)
  /\ tests' = TestsAfter(target)
  /\ IF initial' = "fail"
     THEN /\ bpc' = "agent"
          /\ stage' = IF arm = "single" THEN "single" ELSE "diagnose"
          /\ UNCHANGED error
     ELSE bpc' = "over" /\ error' = TRUE /\ UNCHANGED stage
  /\ UNCHANGED <<arm, target, report, thread, final, record>>

(* write_file replaces the target with anything; run_tests shows the model *)
(* a verdict, which changes nothing unless the target tampers.             *)
UseTools ==
  /\ bpc = "agent"
  /\ \/ target' \in Versions /\ UNCHANGED tests
     \/ tests' = TestsAfter(target) /\ UNCHANGED target
  /\ UNCHANGED <<bpc, arm, stage, initial, report, error, thread, final, record>>

AgentReturns ==
  /\ bpc = "agent"
  /\ IF stage = "diagnose"
     THEN stage' = "patch" /\ UNCHANGED bpc
     ELSE bpc' = "verify" /\ UNCHANGED stage
  /\ UNCHANGED <<arm, target, tests, initial, report, error, thread, final, record>>

(* One bounded repair, on "fail" only; then the script returns. *)
RepairsOn(verdict) == stage = "patch" /\ verdict = "fail"

ScriptVerify ==
  /\ bpc = "verify"
  /\ \E verdict \in TestRun(target) :
       IF RepairsOn(verdict)
       THEN bpc' = "agent" /\ stage' = "repair" /\ UNCHANGED report
       ELSE bpc' = "over" /\ report' = "completed" /\ UNCHANGED stage
  /\ tests' = TestsAfter(target)
  /\ UNCHANGED <<arm, target, initial, error, thread, final, record>>

(* The turn limit, a failed call, or wait_for's timeout ends the script; a *)
(* tool may still be writing.                                              *)
ScriptEnds ==
  /\ bpc \in {"agent", "verify"}
  /\ bpc' = "over" /\ error' = TRUE
  /\ report' \in {"failed", "cancelled"}
  /\ thread' = IF report' = "cancelled" /\ bpc = "agent" THEN "running" ELSE "none"
  /\ UNCHANGED <<arm, stage, target, tests, initial, final, record>>

LateTool ==
  /\ thread = "running" /\ bpc # "recorded"
  /\ target' \in Versions /\ thread' = "none"
  /\ UNCHANGED <<bpc, arm, stage, tests, initial, report, error, final, record>>

FinalVerify ==
  /\ bpc = "over"
  /\ final' \in TestRun(target)
  /\ tests' = TestsAfter(target)
  /\ bpc' = "checked"
  /\ UNCHANGED <<arm, stage, target, initial, report, error, thread, record>>

Completed_ByTests == initial = "fail" /\ final = "pass" /\ target # "broken"
Completed == /\ error = FALSE /\ report = "completed"
             /\ initial = "fail" /\ final = "pass" /\ target # "broken"

(* The diff against the original and the verdicts become the record. *)
Record ==
  /\ bpc = "checked"
  /\ record' = [completed |-> Completed, patch |-> target]
  /\ bpc' = "recorded"
  /\ UNCHANGED <<arm, stage, target, tests, initial, report, error, thread, final>>

BugfixNext == \/ Baseline \/ UseTools \/ AgentReturns \/ ScriptVerify
              \/ ScriptEnds \/ LateTool \/ FinalVerify \/ Record

-----------------------------------------------------------------------------
(* A record that says completed carries a patch that passes the original   *)
(* tests: nothing changed the target between the last check and the diff,  *)
(* and nobody touched the tests.  A run that was cut off, whose tools may  *)
(* still write, is never counted (run_arm's condition for completed).      *)
CompletedIsVerified ==
  record.completed => record.patch = "fixed" /\ tests = "fixed"
=============================================================================
