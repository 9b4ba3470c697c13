--------------------------- MODULE MetaReasoning ---------------------------
(***************************************************************************)
(* MetaReasoningEngine of src/examples/patterns/meta_reasoning_pattern.py: *)
(* a controller decides, cycle by cycle, which worker to run on which      *)
(* stored artifacts or which artifact to submit, within an allowance of    *)
(* its own and a call pool it shares with the rest of the workflow.        *)
(* Artifact i is artifact-(i-1) of the code, kept as its set of parents.   *)
(***************************************************************************)
EXTENDS Integers, Sequences, FiniteSets

CONSTANTS Allowance,   \* max_calls
          Workers,     \* size of the roster
          MaxPool      \* bound: calls the workflow's pool starts with

ASSUME MetaAssumption == Allowance \in Nat \ {0} /\ Workers \in Nat \ {0}

VARIABLES
  mpc,        \* first, cycle, assess, propose, evaluate, dispatch, direct,
              \* check, work, returned, raised
  mode,       \* staged or direct
  used,       \* calls the engine counted
  pool,       \* calls left in the workflow's pool
  artifacts,  \* the parents of each stored artifact
  selected,   \* the artifact to submit
  forced,     \* forced_stop
  decided,    \* status of each decided action; "open" while undecided
  proposal,   \* the option chosen among the proposals
  action      \* the action dispatched

metaVars == <<mpc, mode, used, pool, artifacts, selected, forced, decided,
              proposal, action>>

(* What a controller may name: stored artifacts or one that is not, and a  *)
(* worker index that may be out of range.  The schema itself rejects a stop with  *)
(* new work and a run that submits.                                        *)
Ids == 1..(Len(artifacts) + 1)
Actions ==
  [kind : {"run"}, ids : {S \in SUBSET Ids : Cardinality(S) <= 2},
   worker : 0..Workers]
    \cup [kind : {"stop"}, ids : {{i} : i \in Ids}, worker : 0..Workers]
FirstWork == [kind |-> "run", ids |-> {}, worker |-> 0]

Affordable(n) == Allowance - used >= n /\ pool >= n
Valid_Unchecked(a) == a.worker < Workers
Valid(a) == a.ids \subseteq 1..Len(artifacts) /\ a.worker < Workers

(* A dispatch may refine a run's instruction and context, nothing else. *)
Preserves(a, p) == /\ a.kind = p.kind /\ a.worker = p.worker
                   /\ a.kind = "stop" => a.ids = p.ids

MetaInit ==
  /\ mpc = "first" /\ mode \in {"staged", "direct"}
  /\ used = 0 /\ pool \in 0..MaxPool
  /\ artifacts = <<>> /\ selected = 1 /\ forced = TRUE /\ decided = <<>>
  /\ proposal = FirstWork /\ action = FirstWork

Calls == {"first", "assess", "propose", "evaluate", "dispatch", "direct",
          "work"}
Charge == /\ Affordable(1)
          /\ used' = used + 1 /\ pool' = pool - 1

(* Another branch of the workflow makes a call. *)
OthersCall ==
  /\ mpc \in Calls /\ pool > 0 /\ pool' = pool - 1
  /\ UNCHANGED <<mpc, mode, used, artifacts, selected, forced, decided,
                 proposal, action>>

StartCycle ==
  /\ mpc = "cycle"
  /\ mpc' = IF ~Affordable(IF mode = "staged" THEN 4 ELSE 1) THEN "returned"
            ELSE IF mode = "staged" THEN "assess" ELSE "direct"
  /\ UNCHANGED <<mode, used, pool, artifacts, selected, forced, decided,
                 proposal, action>>

Assess ==
  /\ mpc = "assess" /\ Charge /\ mpc' = "propose"
  /\ UNCHANGED <<mode, artifacts, selected, forced, decided, proposal, action>>

(* The proposals, of which p will be the one that counts: every option is  *)
(* validated, so one that refers to nothing ends the run.                  *)
Propose(p) ==
  /\ mpc = "propose" /\ Charge
  /\ \/ Valid(p) /\ mpc' = "evaluate" /\ proposal' = p
     \/ ~Valid(p) /\ mpc' = "raised" /\ UNCHANGED proposal
  /\ UNCHANGED <<mode, artifacts, selected, forced, decided, action>>

Evaluate ==
  /\ mpc = "evaluate" /\ Charge /\ mpc' = "dispatch"
  /\ UNCHANGED <<mode, artifacts, selected, forced, decided, proposal, action>>

(* The dispatched action of a staged cycle, the only one of a direct one. *)
Decide(a) ==
  /\ mpc \in {"dispatch", "direct"} /\ Charge
  /\ \/ /\ mpc = "direct" \/ Preserves(a, proposal)
        /\ mpc' = "check" /\ action' = a
     \/ /\ mpc = "dispatch" /\ ~Preserves(a, proposal)
        /\ mpc' = "raised" /\ UNCHANGED action
  /\ UNCHANGED <<mode, artifacts, selected, forced, decided, proposal>>

(* A valid action is recorded, then submits, runs or is skipped. *)
Check ==
  LET status == IF action.kind = "stop" THEN "stopped"
                ELSE IF Affordable(1) THEN "open" ELSE "skipped_budget"
  IN
  /\ mpc = "check"
  /\ \/ /\ Valid(action)
        /\ decided' = Append(decided, status)
        /\ mpc' = IF status = "open" THEN "work" ELSE "returned"
        /\ IF status = "stopped"
           THEN selected' = (CHOOSE i \in action.ids : TRUE) /\ forced' = FALSE
           ELSE UNCHANGED <<selected, forced>>
     \/ /\ ~Valid(action)
        /\ mpc' = "raised" /\ UNCHANGED <<decided, selected, forced>>
  /\ UNCHANGED <<mode, used, pool, artifacts, proposal, action>>

Work ==
  /\ mpc \in {"first", "work"} /\ Charge
  /\ artifacts' = Append(artifacts, action.ids)
  /\ selected' = Len(artifacts')
  /\ decided' = IF mpc = "first" THEN decided
                ELSE [decided EXCEPT ![Len(decided)] = "executed"]
  /\ mpc' = "cycle"
  /\ UNCHANGED <<mode, forced, proposal, action>>

(* The allowance or the pool is used up, or the call itself finds it       *)
(* overdrawn: within a cycle the stored work is submitted.                 *)
Exhausted ==
  /\ mpc \in Calls
  /\ mpc' = IF mpc = "first" THEN "raised" ELSE "returned"
  /\ decided' = IF mpc = "work"
                THEN [decided EXCEPT ![Len(decided)] = "skipped_budget"]
                ELSE decided
  /\ UNCHANGED <<mode, used, pool, artifacts, selected, forced, proposal,
                 action>>

(* A call fails, or answers with what is not its schema or no option. *)
MetaFails ==
  /\ mpc \in Calls /\ Affordable(1)
  /\ mpc' = "raised"
  /\ UNCHANGED <<mode, used, pool, artifacts, selected, forced, decided,
                 proposal, action>>

MetaNext ==
  \/ OthersCall \/ StartCycle \/ Assess \/ Evaluate
  \/ \E a \in Actions : Propose(a) \/ Decide(a)
  \/ Check \/ Work \/ Exhausted \/ MetaFails

-----------------------------------------------------------------------------
(* Wherever the budget ends, mid-cycle included, the engine submits an     *)
(* artifact a worker produced, the newest unless the controller stopped at *)
(* another one; an action that could not be afforded is recorded as        *)
(* skipped and leaves no artifact; an artifact's parents are older than    *)
(* itself, and no more calls are made than allowed.  About                 *)
(* MetaReasoningEngine.run.                                                *)
MetaHonest ==
  /\ used <= Allowance
  /\ \A i \in DOMAIN artifacts : artifacts[i] \subseteq 1..(i - 1)
  /\ mpc = "returned" =>
       /\ selected \in DOMAIN artifacts
       /\ Len(artifacts) =
            1 + Cardinality({k \in DOMAIN decided : decided[k] = "executed"})
       /\ \A k \in DOMAIN decided : k < Len(decided) => decided[k] = "executed"
       /\ ~forced <=> decided # <<>> /\ decided[Len(decided)] = "stopped"
       /\ forced => selected = Len(artifacts)
=============================================================================
