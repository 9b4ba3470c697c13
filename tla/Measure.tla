------------------------------ MODULE Measure ------------------------------
(***************************************************************************)
(* src/evals/measurement.py: concurrent arms of an experiment, each with a *)
(* receipt its calls are metered on.  A task finds the receipt in the      *)
(* context it was created in, so a task an arm leaves behind keeps it.     *)
(***************************************************************************)
EXTENDS Integers, FiniteSets

CONSTANTS Arms, Tasks,
          ArmOf,     \* task |-> the arm whose context it was created in
          Main,      \* arm |-> the task that awaits run()
          MaxCalls,  \* bound: calls one task starts
          MaxTokens  \* bound: tokens one call reports

ASSUME MeasureAssumption ==
  /\ ArmOf \in [Tasks -> Arms] /\ Main \in [Arms -> Tasks]
  /\ \A a \in Arms : ArmOf[Main[a]] = a
  /\ IsFiniteSet(Tasks) /\ MaxTokens \in Nat

VARIABLES
  arm,      \* running, draining, returned or cancelled
  active,   \* receipt._active
  error,    \* receipt.error: "None", "Error" or "UnjoinedArmCalls"
  receipt,  \* its counters: calls, failures, unknown, tokens, open records
  task,     \* idle, calling or gone
  stopped,  \* the task was cancelled
  begun,    \* calls the task started, refused ones included
  truth     \* history: what the calls of each arm really used

measureVars == <<arm, active, error, receipt, task, stopped, begun, truth>>

Empty == [calls |-> 0, failures |-> 0, unknown |-> 0, tokens |-> 0, open |-> 0]
InCall(a) == {t \in Tasks : ArmOf[t] = a /\ task[t] = "calling"}

MeasureInit ==
  /\ arm = [a \in Arms |-> "running"]
  /\ active = [a \in Arms |-> TRUE]
  /\ error = [a \in Arms |-> "None"]
  /\ receipt = [a \in Arms |-> Empty]
  /\ task = [t \in Tasks |-> "idle"]
  /\ stopped = [t \in Tasks |-> FALSE]
  /\ begun = [t \in Tasks |-> 0]
  /\ truth = [a \in Arms |-> Empty]

(* observed(): the call opens a record on the task's receipt, or is        *)
(* refused when its arm has finished.                                      *)
Open_Unchecked(t) == TRUE
Open(t) == active[ArmOf[t]]
BeginCall(t) ==
  LET a == ArmOf[t] IN
  /\ task[t] = "idle" /\ begun[t] < MaxCalls
  /\ begun' = [begun EXCEPT ![t] = @ + 1]
  /\ \/ /\ Open(t)
        /\ receipt' = [receipt EXCEPT ![a].calls = @ + 1, ![a].open = @ + 1]
        /\ truth' = [truth EXCEPT ![a].calls = @ + 1]
        /\ task' = [task EXCEPT ![t] = "calling"]
     \/ ~Open(t) /\ UNCHANGED <<receipt, truth, task>>
  /\ UNCHANGED <<arm, active, error, stopped>>

(* The call returns (failed = 0) or raises (1).  The usage is what the     *)
(* response or the error carries, else (-1) one unknown call.              *)
Bill(r, failed, unknown, tokens) ==
  [calls |-> r.calls, failures |-> r.failures + failed,
   unknown |-> r.unknown + unknown, tokens |-> r.tokens + tokens,
   open |-> r.open]
Closed(r) == [r EXCEPT !.open = @ - 1]
EndCall(t, failed, n) ==
  LET a == ArmOf[t]
      unknown == IF n = -1 THEN 1 ELSE 0
      tokens == IF n = -1 THEN 0 ELSE n
  IN
  /\ task[t] = "calling"
  /\ receipt' = [receipt EXCEPT ![a] =
                   Bill(Closed(receipt[a]), failed, unknown, tokens)]
  /\ truth' = [truth EXCEPT ![a] = Bill(truth[a], failed, unknown, tokens)]
  /\ task' = [task EXCEPT ![t] = "idle"]
  /\ UNCHANGED <<arm, active, error, stopped, begun>>

(* A task other than run() itself ends. *)
TaskEnds(t) ==
  /\ task[t] = "idle" /\ t # Main[ArmOf[t]]
  /\ task' = [task EXCEPT ![t] = "gone"]
  /\ UNCHANGED <<arm, active, error, receipt, stopped, begun, truth>>

(* run() is over: no further call is let in, and if calls of tasks it left *)
(* behind are under way the measurement is void and they are cancelled.    *)
Pending_Ignored(a) == {}
Pending(a) == InCall(a)
RunEnds(a, outcome) ==
  /\ arm[a] = "running" /\ task[Main[a]] = "idle"
  /\ task' = [task EXCEPT ![Main[a]] = "gone"]
  /\ active' = [active EXCEPT ![a] = FALSE]
  /\ stopped' = [t \in Tasks |-> stopped[t] \/ t \in Pending(a)]
  /\ error' = [error EXCEPT ![a] = IF Pending(a) # {} THEN "UnjoinedArmCalls"
                                   ELSE outcome]
  /\ arm' = [arm EXCEPT ![a] = IF Pending(a) # {} THEN "draining"
                               ELSE "returned"]
  /\ UNCHANGED <<receipt, begun, truth>>

(* gather() waits for the cancelled tasks, not only for their calls. *)
Drained(a) ==
  /\ arm[a] = "draining"
  /\ \A t \in Tasks : ArmOf[t] = a /\ stopped[t] => task[t] = "gone"
  /\ arm' = [arm EXCEPT ![a] = "returned"]
  /\ UNCHANGED <<active, error, receipt, task, stopped, begun, truth>>

(* A cancellation of the experiment while it drains: no receipt is         *)
(* returned.                                                               *)
DrainCancelled(a) ==
  /\ arm[a] = "draining" /\ arm' = [arm EXCEPT ![a] = "cancelled"]
  /\ UNCHANGED <<active, error, receipt, task, stopped, begun, truth>>

MeasureNext ==
  \/ \E t \in Tasks : \/ BeginCall(t) \/ TaskEnds(t)
                      \/ \E f \in {0, 1}, n \in -1..MaxTokens : EndCall(t, f, n)
  \/ \E a \in Arms : \/ \E o \in {"None", "Error"} : RunEnds(a, o)
                     \/ Drained(a) \/ DrainCancelled(a)

-----------------------------------------------------------------------------
(* A returned receipt is the final account of its arm: every call its      *)
(* tasks ever made is on it, closed and billed, whatever tasks run() left  *)
(* behind, and none of another arm; one with a call to void has no clean   *)
(* result.  About measure_arm and observe_runtime.                         *)
ReceiptFinal ==
  \A a \in Arms : arm[a] = "returned" =>
    /\ InCall(a) = {} /\ receipt[a] = truth[a]
    /\ (\E t \in Tasks : ArmOf[t] = a /\ stopped[t]) =>
         error[a] = "UnjoinedArmCalls"
=============================================================================
