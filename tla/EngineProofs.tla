---------------------------- MODULE EngineProofs ----------------------------
(***************************************************************************)
(* Theorems about the engines of src/: module Repair, for every roster and *)
(* every max_attempts, negative ones included; MetaReasoning, for every    *)
(* allowance, roster and pool; Ensemble, for every roster, number of calls *)
(* and scores; Dialectic, for every number of rounds and perspectives; and *)
(* the host side of a call, Worktree and Bugfix.                           *)
(***************************************************************************)
EXTENDS Repair, MetaReasoning, Ensemble, Dialectic, Worktree, Bugfix,
        SequenceTheorems, FiniteSetTheorems, TLAPS

Entry == [attempt : Nat, model : STRING, status : Verdicts]
Prompt == [model : STRING, shows : Seq(Nat)]

RTypeOK ==
  /\ rpc \in {"solve", "verify", "done", "raised"}
  /\ attempt \in Nat /\ 1 <= attempt /\ attempt <= Bound
  /\ failed \in Seq(Nat)
  /\ history \in Seq(Entry)
  /\ prompts \in Seq(Prompt)

(* How far the two logs are, by the state of the loop. *)
Progress ==
  /\ rpc = "solve" => Len(prompts) = attempt - 1 /\ Len(history) = attempt - 1
  /\ rpc = "verify" => Len(prompts) = attempt /\ Len(history) = attempt - 1
  /\ rpc = "done" => Len(prompts) = attempt /\ Len(history) = attempt
  /\ rpc = "raised" => /\ Len(history) = attempt - 1
                       /\ Len(prompts) \in {attempt - 1, attempt}

Shown ==
  /\ failed = [i \in 1..(attempt - 1) |-> i]
  /\ \A n \in 1..Len(prompts) :
       /\ prompts[n].shows = [i \in 1..(n - 1) |-> i]
       /\ prompts[n].model = ModelFor(n)

Failures ==
  /\ \A n \in 1..Len(history) : history[n].attempt = n
  /\ \A n \in 1..Len(history) : n < attempt => history[n].status = "fail"
  /\ lastHistory = history

RInv == RTypeOK /\ Progress /\ Shown /\ Failures

LEMMA BoundType == Bound \in Nat /\ 1 <= Bound
BY AttemptsAssumption DEF Bound

LEMMA ModelType == \A n \in Nat \ {0} : ModelFor(n) \in STRING
<1> SUFFICES ASSUME NEW n \in Nat \ {0} PROVE ModelFor(n) \in STRING
  OBVIOUS
<1> DEFINE k == ((n - 1) % Len(Models)) + 1
<1>1. Len(Models) \in Nat \ {0} /\ n - 1 \in Nat
  BY RosterAssumption
<1>2. k \in 1..Len(Models)
  BY <1>1
<1> QED BY <1>2, RosterAssumption DEF ModelFor

LEMMA VerifyType == \A act \in VerifierActs : Verify(act) \in Verdicts
BY DEF VerifierActs, Verify, Verdicts

LEMMA RepairStart == RepairInit => RInv
<1> SUFFICES ASSUME RepairInit PROVE RInv
  OBVIOUS
<1>1. RTypeOK
  BY BoundType DEF RepairInit, RTypeOK
<1>2. Progress /\ Failures
  BY DEF RepairInit, Progress, Failures
<1>3. Shown
  BY DEF RepairInit, Shown
<1> QED BY <1>1, <1>2, <1>3 DEF RInv

LEMMA CandidateStep == RInv /\ Candidate => RInv'
<1> SUFFICES ASSUME RInv, Candidate PROVE RInv'
  OBVIOUS
<1> DEFINE p == [model |-> ModelFor(attempt), shows |-> failed]
<1>1. prompts \in Seq(Prompt) /\ p \in Prompt /\ prompts' = Append(prompts, p)
  BY ModelType DEF RInv, RTypeOK, Candidate, Prompt
<1>2. /\ prompts' \in Seq(Prompt) /\ Len(prompts') = Len(prompts) + 1
      /\ \A n \in 1..Len(prompts) : prompts'[n] = prompts[n]
      /\ prompts'[Len(prompts) + 1] = p
  BY <1>1
<1>3. RTypeOK'
  BY <1>2 DEF RInv, RTypeOK, Candidate
<1>4. Progress'
  BY <1>2 DEF RInv, RTypeOK, Progress, Candidate
<1>5. Failures'
  BY DEF RInv, Failures, Candidate
<1>6. Shown'
  <2>1. Len(prompts) = attempt - 1 /\ attempt \in Nat /\ attempt >= 1
    BY DEF RInv, RTypeOK, Progress, Candidate
  <2>2. failed' = [i \in 1..(attempt' - 1) |-> i] /\ failed' = failed
    BY DEF RInv, Shown, Candidate
  <2>3. ASSUME NEW n \in 1..Len(prompts')
        PROVE  /\ prompts'[n].shows = [i \in 1..(n - 1) |-> i]
               /\ prompts'[n].model = ModelFor(n)
    <3>1. CASE n \in 1..Len(prompts)
      BY <1>2, <3>1 DEF RInv, Shown
    <3>2. CASE n = Len(prompts) + 1
      <4>1. n = attempt /\ prompts'[n] = p
        BY <1>2, <2>1, <3>2
      <4> QED BY <4>1 DEF RInv, Shown
    <3>3. Len(prompts) \in Nat
      BY <1>1
    <3> QED BY <1>2, <3>1, <3>2, <3>3
  <2> QED BY <2>2, <2>3 DEF Shown, ModelFor
<1> QED BY <1>3, <1>4, <1>5, <1>6 DEF RInv

LEMMA JudgeStep ==
  ASSUME RInv, NEW act \in VerifierActs, Judge(act) PROVE RInv'
<1> DEFINE status == Verify(act)
           e == [attempt |-> attempt, model |-> ModelFor(attempt),
                 status |-> status]
<1>0. attempt \in Nat /\ 1 <= attempt /\ attempt <= Bound /\ Bound \in Nat
  BY BoundType DEF RInv, RTypeOK
<1>1. history \in Seq(Entry) /\ e \in Entry /\ history' = Append(history, e)
  BY <1>0, ModelType, VerifyType DEF RInv, RTypeOK, Judge, Entry
<1>2. /\ history' \in Seq(Entry) /\ Len(history') = Len(history) + 1
      /\ \A n \in 1..Len(history) : history'[n] = history[n]
      /\ history'[Len(history) + 1] = e
  BY <1>1
<1>3. /\ rpc = "verify" /\ Len(history) = attempt - 1 /\ Len(prompts) = attempt
      /\ prompts' = prompts /\ lastHistory' = history'
  BY DEF RInv, Progress, Judge
<1>4. \A n \in 1..Len(history') : history'[n].attempt = n
  <2> SUFFICES ASSUME NEW n \in 1..Len(history')
               PROVE  history'[n].attempt = n
    OBVIOUS
  <2>1. CASE n \in 1..Len(history)
    BY <1>2, <2>1 DEF RInv, Failures
  <2>2. CASE n = Len(history) + 1
    BY <1>0, <1>2, <1>3, <2>2
  <2>3. Len(history) \in Nat
    BY <1>1
  <2> QED BY <1>2, <2>1, <2>2, <2>3
<1>5. \A n \in 1..Len(history) : history'[n].status = "fail"
  <2> SUFFICES ASSUME NEW n \in 1..Len(history)
               PROVE  history'[n].status = "fail"
    OBVIOUS
  <2>1. n < attempt
    BY <1>0, <1>3
  <2> QED BY <1>2, <2>1 DEF RInv, Failures
<1>6. CASE TriesAgain(status)
  <2>1. /\ status = "fail" /\ attempt < Bound
        /\ rpc' = "solve" /\ attempt' = attempt + 1 /\ failed' = NextPrompt
    BY <1>6 DEF Judge, TriesAgain
  <2>2. failed \in Seq(Nat) /\ failed = [i \in 1..(attempt - 1) |-> i]
    BY DEF RInv, RTypeOK, Shown
  <2>3. failed' = Append(failed, attempt)
    BY <2>1 DEF NextPrompt
  <2>4. /\ failed' \in Seq(Nat) /\ Len(failed') = Len(failed) + 1
        /\ \A i \in 1..Len(failed) : failed'[i] = failed[i]
        /\ failed'[Len(failed) + 1] = attempt
    <3>1. failed \in Seq(Nat) /\ attempt \in Nat
      BY <1>0, <2>2
    <3> QED BY <2>3, <3>1
  <2>5. Len(failed) = attempt - 1
    BY <1>0, <2>2
  <2>6. failed' = [i \in 1..(attempt' - 1) |-> i]
    <3>1. ASSUME NEW i \in 1..attempt PROVE failed'[i] = i
      <4>1. CASE i = attempt
        BY <1>0, <2>4, <2>5, <4>1
      <4>2. CASE i # attempt
        <5>1. i \in 1..(attempt - 1)
          BY <1>0, <4>2
        <5>2. failed[i] = i
          BY <2>2, <5>1
        <5> QED BY <2>4, <2>5, <5>1, <5>2
      <4> QED BY <4>1, <4>2
    <3>2. DOMAIN failed' = 1..attempt /\ (attempt' - 1) = attempt
      BY <1>0, <2>1, <2>4, <2>5
    <3>3. failed' = [i \in DOMAIN failed' |-> failed'[i]]
      BY <2>4
    <3>4. failed' = [i \in 1..attempt |-> failed'[i]]
      BY <3>2, <3>3, Zenon
    <3>5. failed' = [i \in 1..attempt |-> i]
      BY <3>1, <3>4, Zenon
    <3>6. 1..(attempt' - 1) = 1..attempt
      BY <3>2
    <3>7. [i \in 1..(attempt' - 1) |-> i] = [i \in 1..attempt |-> i]
      BY <3>6
    <3> QED BY <3>5, <3>7
  <2>7. RTypeOK'
    <3>1. attempt' \in Nat /\ 1 <= attempt' /\ attempt' <= Bound
      BY <1>0, <2>1
    <3>2. history' \in Seq(Entry) /\ failed' \in Seq(Nat)
      BY <1>2, <2>4
    <3>3. prompts' \in Seq(Prompt) /\ rpc' \in {"solve"}
      BY <1>3, <2>1 DEF RInv, RTypeOK
    <3> QED BY <3>1, <3>2, <3>3 DEF RTypeOK, Bound
  <2>8. Progress'
    BY <1>0, <1>2, <1>3, <2>1 DEF Progress
  <2>9. Shown'
    BY <1>3, <2>6 DEF RInv, Shown, ModelFor
  <2>10. \A n \in 1..Len(history') : history'[n].status = "fail"
    <3>1. history'[Len(history) + 1].status = "fail"
      BY <1>2, <2>1
    <3>2. Len(history) \in Nat
      BY <1>1
    <3> QED BY <1>2, <1>5, <3>1, <3>2
  <2> QED BY <1>3, <1>4, <2>7, <2>8, <2>9, <2>10 DEF RInv, Failures
<1>7. CASE ~TriesAgain(status)
  <2>1. rpc' = "done" /\ attempt' = attempt /\ failed' = failed
    BY <1>7 DEF Judge
  <2>2. RTypeOK'
    BY <1>2, <1>3, <2>1 DEF RInv, RTypeOK, Bound
  <2>3. Progress'
    BY <1>0, <1>2, <1>3, <2>1 DEF Progress
  <2>4. Shown'
    BY <1>3, <2>1 DEF RInv, Shown, ModelFor
  <2>5. \A n \in 1..Len(history') : n < attempt' =>
          history'[n].status = "fail"
    BY <1>0, <1>2, <1>3, <1>5, <2>1
  <2> QED BY <1>3, <1>4, <2>2, <2>3, <2>4, <2>5 DEF RInv, Failures
<1> QED BY <1>6, <1>7

LEMMA RepairStep == RInv /\ [RepairNext]_repairVars => RInv'
<1> SUFFICES ASSUME RInv, [RepairNext]_repairVars PROVE RInv'
  OBVIOUS
<1>1. CASE Candidate
  BY <1>1, CandidateStep
<1>2. CASE AgentRaises \/ VerifyCancelled
  <2>1. /\ rpc \in {"solve", "verify"} /\ rpc' = "raised"
        /\ UNCHANGED <<attempt, failed, history, lastHistory, prompts>>
    BY <1>2 DEF AgentRaises, VerifyCancelled
  <2>2. RTypeOK'
    BY <2>1 DEF RInv, RTypeOK, Bound
  <2>3. Progress'
    BY <2>1 DEF RInv, Progress
  <2>4. Shown' /\ Failures'
    BY <2>1 DEF RInv, Shown, Failures, ModelFor
  <2> QED BY <2>2, <2>3, <2>4 DEF RInv
<1>3. ASSUME NEW act \in VerifierActs, Judge(act) PROVE RInv'
  BY <1>3, JudgeStep
<1>4. CASE UNCHANGED repairVars
  BY <1>4 DEF repairVars, RInv, RTypeOK, Progress, Shown, Failures, ModelFor,
     Bound
<1> QED BY <1>1, <1>2, <1>3, <1>4 DEF RepairNext

(* At most max(1, max_attempts) candidates, and none after a verdict other *)
(* than "fail", whatever the verifier returns or raises.                   *)
THEOREM RepairStopsInTime == RepairSpec => []StopsInTime
<1>1. RInv => StopsInTime
  <2> SUFFICES ASSUME RInv PROVE StopsInTime
    OBVIOUS
  <2>1. attempt \in Nat /\ attempt <= Bound /\ Bound \in Nat
        /\ Len(prompts) \in Nat /\ Len(prompts) <= attempt
    BY BoundType DEF RInv, RTypeOK, Progress
  <2> QED BY <2>1 DEF RInv, Failures, StopsInTime
<1> QED BY <1>1, RepairStart, RepairStep, PTL DEF RepairSpec

(* Each prompt shows exactly the failures before it, each attempt has its  *)
(* model of the rotation, and last_history is complete when run raises.    *)
THEOREM RepairKeepsEvidence == RepairSpec => []EvidenceWhole
<1>1. RInv => EvidenceWhole
  <2> SUFFICES ASSUME RInv PROVE EvidenceWhole
    OBVIOUS
  <2>1. Len(prompts) - Len(history) \in
          IF rpc \in {"verify", "raised"} THEN {0, 1} ELSE {0}
    BY DEF RInv, RTypeOK, Progress
  <2> QED BY <2>1 DEF RInv, Shown, Failures, EvidenceWhole
<1> QED BY <1>1, RepairStart, RepairStep, PTL DEF RepairSpec

-----------------------------------------------------------------------------
(***************************************************************************)
(* The meta-reasoning engine.  Its log and its store grow together: while  *)
(* a cycle is under way every decided action was executed and left one     *)
(* artifact; between its decision and its work the last one is open.       *)
(***************************************************************************)
MetaSpec == MetaInit /\ [][MetaNext]_metaVars

InCycle == {"cycle", "assess", "propose", "evaluate", "dispatch", "direct",
            "check"}
Statuses == {"open", "executed", "skipped_budget", "stopped"}

\* Every decided action up to n was executed.
Executed(n) == \A k \in 1..n : decided[k] = "executed"
Parents(n) == \A i \in 1..n : artifacts[i] \subseteq 1..(i - 1)

MetaTypes ==
  /\ used \in Nat /\ used <= Allowance
  /\ artifacts \in Seq(SUBSET Nat) /\ Parents(Len(artifacts))
  /\ decided \in Seq(Statuses)
  /\ mpc \in InCycle \cup {"first", "work", "returned", "raised"}

Phases ==
  /\ mpc = "first" =>
       /\ artifacts = <<>> /\ decided = <<>> /\ forced = TRUE
       /\ action.ids = {}
  /\ mpc \in InCycle =>
       /\ Len(artifacts) = 1 + Len(decided) /\ Executed(Len(decided))
       /\ forced = TRUE /\ selected = Len(artifacts)
  /\ mpc = "check" /\ action.kind = "stop" => action.ids # {}
  /\ mpc = "work" =>
       /\ Len(artifacts) = Len(decided) /\ Len(decided) > 0
       /\ Executed(Len(decided) - 1) /\ decided[Len(decided)] = "open"
       /\ forced = TRUE /\ selected = Len(artifacts)
       /\ action.ids \subseteq 1..Len(artifacts)
  /\ mpc = "returned" =>
       \/ /\ Len(artifacts) = 1 + Len(decided) /\ Executed(Len(decided))
          /\ forced = TRUE /\ selected = Len(artifacts)
       \/ /\ Len(artifacts) = Len(decided) /\ Len(decided) > 0
          /\ Executed(Len(decided) - 1)
          /\ \/ /\ decided[Len(decided)] = "skipped_budget" /\ forced = TRUE
                /\ selected = Len(artifacts)
             \/ /\ decided[Len(decided)] = "stopped" /\ forced = FALSE
                /\ selected \in 1..Len(artifacts)

MetaInv == MetaTypes /\ Phases

LEMMA MetaStart == MetaInit => MetaInv
<1> SUFFICES ASSUME MetaInit PROVE MetaInv
  OBVIOUS
<1>1. MetaTypes
  BY MetaAssumption DEF MetaInit, MetaTypes, Parents
<1>2. Phases
  BY DEF MetaInit, Phases, FirstWork, InCycle
<1> QED BY <1>1, <1>2 DEF MetaInv

\* A step that only moves within a cycle, or ends in an error.
LEMMA MetaWithin ==
  ASSUME MetaInv, UNCHANGED <<artifacts, decided, forced, selected>>,
         used' = used \/ (used' = used + 1 /\ used < Allowance),
         \/ mpc \in InCycle /\ mpc' \in InCycle \ {"check"}
         \/ /\ mpc \in InCycle /\ mpc' = "check"
            /\ action'.kind = "stop" => action'.ids # {}
         \/ mpc \in InCycle /\ mpc' = "returned"
         \/ mpc' = "raised"
         \/ mpc' = mpc /\ action' = action
  PROVE  MetaInv'
<1>1. MetaTypes'
  BY MetaAssumption DEF MetaInv, MetaTypes, Parents, InCycle
<1>2. Phases'
  BY DEF MetaInv, MetaTypes, Phases, Executed, InCycle
<1> QED BY <1>1, <1>2 DEF MetaInv

LEMMA ChargeFits ==
  ASSUME MetaInv, Charge PROVE used' = used + 1 /\ used < Allowance
BY MetaAssumption DEF MetaInv, MetaTypes, Charge, Affordable

LEMMA MetaChecks == ASSUME MetaInv, Check PROVE MetaInv'
<1> DEFINE n == Len(decided)
           status == IF action.kind = "stop" THEN "stopped"
                     ELSE IF Affordable(1) THEN "open" ELSE "skipped_budget"
<1>1. CASE ~ Valid(action)
  BY <1>1, MetaWithin DEF Check
<1>2. CASE Valid(action)
  <2>1. /\ decided' = Append(decided, status)
        /\ mpc' = IF status = "open" THEN "work" ELSE "returned"
        /\ UNCHANGED <<artifacts, used, action>> /\ mpc \in InCycle
        /\ action.ids \subseteq 1..Len(artifacts)
    BY <1>2 DEF Check, Valid, InCycle
  <2>2. \/ status = "stopped" /\ selected' = (CHOOSE i \in action.ids : TRUE)
                              /\ forced' = FALSE
        \/ status \in {"open", "skipped_budget"}
             /\ selected' = selected /\ forced' = forced
    BY <1>2 DEF Check
  <2>3. /\ n \in Nat /\ Len(artifacts) = 1 + n /\ Executed(n)
        /\ forced = TRUE /\ selected = Len(artifacts)
        /\ decided \in Seq(Statuses)
    BY <2>1 DEF MetaInv, MetaTypes, Phases
  <2>4. status \in Statuses
    BY DEF Statuses
  <2> HIDE DEF status
  <2>5. /\ decided' \in Seq(Statuses) /\ Len(decided') = n + 1
        /\ decided'[n + 1] = status
        /\ \A k \in 1..n : decided'[k] = decided[k]
    BY <2>1, <2>3, <2>4
  <2>6. \A k \in 1..n : decided'[k] = "executed"
    BY <2>3, <2>5 DEF Executed
  <2>7. status = "stopped" => selected' \in 1..Len(artifacts)
    <3>1. status = "stopped" => action.ids # {}
      BY <1>2 DEF status, Check, MetaInv, Phases
    <3> QED BY <2>1, <2>2, <3>1
  <2>8. Phases'
    <3>1. (Executed(Len(decided) - 1))'
      BY <2>3, <2>5, <2>6 DEF Executed
    <3> HIDE DEF n
    <3>2. CASE status = "open"
      BY <2>1, <2>2, <2>3, <2>5, <3>1, <3>2 DEF Phases, InCycle
    <3>3. CASE status = "skipped_budget"
      BY <2>1, <2>2, <2>3, <2>5, <3>1, <3>3 DEF Phases, InCycle
    <3>4. CASE status = "stopped"
      BY <2>1, <2>2, <2>3, <2>5, <2>7, <3>1, <3>4 DEF Phases, InCycle
    <3> QED BY <2>2, <3>2, <3>3, <3>4
  <2>9. MetaTypes'
    BY <2>1, <2>5 DEF MetaInv, MetaTypes, Parents
  <2> QED BY <2>8, <2>9 DEF MetaInv
<1> QED BY <1>1, <1>2

LEMMA MetaWorks == ASSUME MetaInv, Work PROVE MetaInv'
<1> DEFINE n == Len(artifacts)
           m == Len(decided)
<1>0. /\ n \in Nat /\ m \in Nat /\ artifacts \in Seq(SUBSET Nat)
      /\ decided \in Seq(Statuses) /\ Parents(n)
  BY DEF MetaInv, MetaTypes
<1>1. /\ artifacts' = Append(artifacts, action.ids) /\ selected' = Len(artifacts')
      /\ mpc' = "cycle" /\ mpc \in {"first", "work"} /\ forced' = forced
      /\ used' = used + 1 /\ used < Allowance
  BY ChargeFits DEF Work
<1>2. action.ids \subseteq 1..n /\ forced = TRUE
  BY <1>1 DEF MetaInv, Phases
<1>3. action.ids \in SUBSET Nat
  BY <1>0, <1>2
<1>4. /\ artifacts' \in Seq(SUBSET Nat) /\ Len(artifacts') = n + 1
      /\ artifacts'[n + 1] = action.ids
      /\ \A i \in 1..n : artifacts'[i] = artifacts[i]
  BY <1>0, <1>1, <1>3
<1>5. (Parents(Len(artifacts)))'
  <2>1. \A i \in 1..(n + 1) : artifacts'[i] \subseteq 1..(i - 1)
    BY <1>0, <1>2, <1>4 DEF Parents
  <2> QED BY <1>4, <2>1 DEF Parents
<1>6. /\ decided' \in Seq(Statuses) /\ Len(decided') = Len(artifacts)
      /\ Executed(Len(decided))'
  <2>1. CASE mpc = "first"
    BY <1>0, <2>1 DEF MetaInv, Phases, Work, Executed
  <2>2. CASE mpc = "work"
    <3>1. decided' = [decided EXCEPT ![m] = "executed"] /\ m > 0 /\ m = n
          /\ Executed(m - 1)
      BY <2>2 DEF Work, MetaInv, Phases
    <3>2. /\ decided' \in Seq(Statuses) /\ Len(decided') = m
          /\ \A k \in 1..m : decided'[k] = IF k = m THEN "executed" ELSE decided[k]
      BY <1>0, <3>1 DEF Statuses
    <3> QED BY <1>0, <3>1, <3>2 DEF Executed
  <2> QED BY <1>1, <2>1, <2>2
<1>7. MetaTypes'
  <2>1. (used \in Nat /\ used <= Allowance)'
    BY <1>1, MetaAssumption DEF MetaInv, MetaTypes
  <2> QED BY <1>1, <1>4, <1>5, <1>6, <2>1 DEF MetaTypes, InCycle
<1>8. Phases'
  BY <1>0, <1>1, <1>2, <1>4, <1>6 DEF Phases, InCycle
<1> QED BY <1>7, <1>8 DEF MetaInv

LEMMA MetaExhausts == ASSUME MetaInv, Exhausted PROVE MetaInv'
<1>1. /\ UNCHANGED <<used, artifacts, selected, forced>>
      /\ mpc' = IF mpc = "first" THEN "raised" ELSE "returned"
      /\ mpc \in InCycle \cup {"first", "work"}
  BY DEF Exhausted, Calls, InCycle
<1>2. CASE mpc # "work"
  BY <1>1, <1>2, MetaWithin DEF Exhausted
<1>3. CASE mpc = "work"
  <2> DEFINE m == Len(decided)
  <2>1. /\ m \in Nat /\ m > 0 /\ decided \in Seq(Statuses)
        /\ decided' = [decided EXCEPT ![m] = "skipped_budget"]
        /\ Executed(m - 1) /\ Len(artifacts) = m
        /\ forced = TRUE /\ selected = Len(artifacts)
    BY <1>3 DEF Exhausted, MetaInv, MetaTypes, Phases
  <2>2. /\ decided' \in Seq(Statuses) /\ Len(decided') = m
        /\ \A k \in 1..m : decided'[k] = IF k = m THEN "skipped_budget" ELSE decided[k]
    BY <2>1 DEF Statuses
  <2>3. Executed(m - 1)'
    BY <2>1, <2>2 DEF Executed
  <2>4. Phases'
    BY <1>1, <1>3, <2>1, <2>2, <2>3 DEF Phases, InCycle
  <2>5. MetaTypes'
    BY <1>1, <2>2 DEF MetaInv, MetaTypes, Parents
  <2> QED BY <2>4, <2>5 DEF MetaInv
<1> QED BY <1>2, <1>3

LEMMA MetaStep == MetaInv /\ [MetaNext]_metaVars => MetaInv'
<1> SUFFICES ASSUME MetaInv, [MetaNext]_metaVars PROVE MetaInv'
  OBVIOUS
<1>1. CASE OthersCall
  BY <1>1, MetaWithin DEF OthersCall
<1>2. CASE StartCycle
  BY <1>2, MetaWithin DEF StartCycle, InCycle
<1>3. CASE Assess \/ Evaluate
  BY <1>3, ChargeFits, MetaWithin DEF Assess, Evaluate, InCycle
<1>4. ASSUME NEW a \in Actions, Propose(a) PROVE MetaInv'
  BY <1>4, ChargeFits, MetaWithin DEF Propose, InCycle
<1>7. ASSUME NEW a \in Actions, Decide(a) PROVE MetaInv'
  <2>1. a.kind = "stop" => a.ids # {}
    BY DEF Actions
  <2> QED BY <1>7, <2>1, ChargeFits, MetaWithin DEF Decide, InCycle
<1>5. CASE MetaFails
  BY <1>5, MetaWithin DEF MetaFails
<1>6. CASE UNCHANGED metaVars
  BY <1>6, MetaWithin DEF metaVars
<1> QED
  BY <1>1, <1>2, <1>3, <1>4, <1>5, <1>6, <1>7, MetaChecks, MetaWorks, MetaExhausts
  DEF MetaNext

LEMMA CardUpTo == ASSUME NEW n \in Nat PROVE Cardinality(1..n) = n
<1>1. 1 \in Int /\ n \in Int
  OBVIOUS
<1>2. Cardinality(1..n) = IF 1 > n THEN 0 ELSE n - 1 + 1
  BY <1>1, FS_Interval
<1> QED BY <1>2

\* How many of the decided actions were executed, read off the log.
LEMMA CountExecuted ==
  ASSUME MetaInv, mpc = "returned"
  PROVE  Len(artifacts) =
           1 + Cardinality({k \in DOMAIN decided : decided[k] = "executed"})
<1> DEFINE E == {k \in DOMAIN decided : decided[k] = "executed"}
           m == Len(decided)
<1>0. m \in Nat /\ DOMAIN decided = 1..m
  BY DEF MetaInv, MetaTypes
<1>1. CASE Len(artifacts) = 1 + m /\ Executed(m)
  <2>1. E = 1..m
    BY <1>0, <1>1 DEF Executed
  <2>2. Cardinality(E) = m
    BY <1>0, <2>1, CardUpTo
  <2> QED BY <1>1, <2>2
<1>2. CASE /\ Len(artifacts) = m /\ m > 0 /\ Executed(m - 1)
           /\ decided[m] # "executed"
  <2>0. m - 1 \in Nat
    BY <1>0, <1>2
  <2>1. E = 1..(m - 1)
    BY <1>0, <1>2 DEF Executed
  <2> HIDE DEF E
  <2>2. Cardinality(E) = m - 1
    BY <2>0, <2>1, CardUpTo
  <2>3. Len(artifacts) = 1 + Cardinality(E)
    BY <1>0, <1>2, <2>2
  <2> QED BY <2>3 DEF E
<1> QED BY <1>1, <1>2 DEF MetaInv, Phases

(* For every allowance, roster and pool, and whatever the controller says: *)
(* MetaReasoningEngine.run submits an artifact that a worker produced, and *)
(* its record says exactly which decisions were carried out.               *)
THEOREM MetaIsHonest == MetaSpec => []MetaHonest
<1>1. MetaInv => MetaHonest
  <2> SUFFICES ASSUME MetaInv PROVE MetaHonest
    OBVIOUS
  <2>1. used <= Allowance /\ \A i \in DOMAIN artifacts : artifacts[i] \subseteq 1..(i - 1)
    BY DEF MetaInv, MetaTypes, Parents
  <2>2. ASSUME mpc = "returned"
        PROVE  /\ selected \in DOMAIN artifacts
               /\ \A k \in DOMAIN decided :
                    k < Len(decided) => decided[k] = "executed"
               /\ ~forced <=> decided # <<>> /\ decided[Len(decided)] = "stopped"
               /\ forced => selected = Len(artifacts)
    <3>0. /\ Len(decided) \in Nat /\ DOMAIN decided = 1..Len(decided)
          /\ Len(artifacts) \in Nat /\ DOMAIN artifacts = 1..Len(artifacts)
          /\ decided # <<>> <=> Len(decided) > 0
      BY DEF MetaInv, MetaTypes
    <3>1. CASE /\ Len(artifacts) = 1 + Len(decided) /\ Executed(Len(decided))
               /\ forced = TRUE /\ selected = Len(artifacts)
      BY <3>0, <3>1 DEF Executed
    <3>2. CASE /\ Len(artifacts) = Len(decided) /\ Len(decided) > 0
               /\ Executed(Len(decided) - 1)
               /\ \/ /\ decided[Len(decided)] = "skipped_budget" /\ forced = TRUE
                     /\ selected = Len(artifacts)
                  \/ /\ decided[Len(decided)] = "stopped" /\ forced = FALSE
                     /\ selected \in 1..Len(artifacts)
      BY <3>0, <3>2 DEF Executed
    <3> QED BY <2>2, <3>1, <3>2 DEF MetaInv, Phases
  <2> QED BY <2>1, <2>2, CountExecuted DEF MetaHonest
<1> QED BY <1>1, MetaStart, MetaStep, PTL DEF MetaSpec

-----------------------------------------------------------------------------
(* Ensemble.                                                                *)

EnsembleSpec == EnsembleInit /\ [][EnsembleNext]_ensembleVars

Ways == {"wider", "deeper"}
Tried == [score : Int, model : Arms, action : Ways, parent : Nat,
              failed : {"yes", "no"}]
Arm == [alpha : Int, beta : Int]

ETypeOK ==
  /\ epc \in {"run", "returned", "raised"}
  /\ cands \in Seq(Tried)
  /\ best \in 0..Len(cands) /\ (best = 0 => cands = <<>>)
  /\ modelArms \in [Arms -> Arm]
  /\ actionArms \in [Ways -> Arm]

(* What the search has tried, by candidate. *)
Ranked ==
  \A i \in 1..Len(cands) :
    /\ cands[i].score <= cands[best].score
    /\ i < best => cands[i].score < cands[best].score
    /\ cands[i].score >= Solved => i = Len(cands)
    /\ cands[i].action = "deeper" =>
         /\ cands[i].parent \in 1..(i - 1)
         /\ cands[i].model = cands[cands[i].parent].model
         /\ \A j \in 1..(i - 1) :
              cands[j].score <= cands[cands[i].parent].score

(* What the arms have learnt. *)
Credited ==
  /\ \A m \in Arms :
       /\ Added(modelArms[m]) = Cardinality(AnsweredBy(m)) * One
       /\ modelArms[m].alpha >= One /\ modelArms[m].beta >= One
  /\ \A x \in Ways :
       /\ Added(actionArms[x]) = Cardinality(MovedBy(x)) * One
       /\ actionArms[x].alpha >= One /\ actionArms[x].beta >= One

EInv == ETypeOK /\ Ranked /\ Credited
        /\ (epc = "returned" => ~Searching)

(* The reward lies in the unit interval whatever the scorer said. *)
LEMMA RewardRange ==
  ASSUME NEW s \in Int, best = 0 \/ cands[best].score \in Int
  PROVE  Reward(s) \in Int /\ 0 <= Reward(s) /\ Reward(s) <= One
BY EnsembleAssumption DEF Reward, Clamp

(* Evidence of a reward in the unit interval adds exactly One. *)
LEMMA EvidenceAdds ==
  ASSUME NEW a \in Arm, NEW r \in Int, 0 <= r, r <= One,
         a.alpha >= One, a.beta >= One
  PROVE  /\ Evidence(a, r) \in Arm
         /\ Added(Evidence(a, r)) = Added(a) + One
         /\ Evidence(a, r).alpha >= One /\ Evidence(a, r).beta >= One
BY EnsembleAssumption DEF Evidence, Added, Arm

(* One answer more is One of evidence more. *)
LEMMA OneMore == ASSUME NEW n \in Nat PROVE (n + 1) * One = n * One + One
BY EnsembleAssumption

(* The types of what the search compares. *)
LEMMA ScoresTyped ==
  ASSUME ETypeOK
  PROVE  /\ Len(cands) \in Nat /\ DOMAIN cands = 1..Len(cands)
         /\ best \in 0..Len(cands) /\ (best = 0 => Len(cands) = 0)
         /\ \A i \in 1..Len(cands) : cands[i] \in Tried
                                     /\ cands[i].score \in Int
         /\ best = 0 \/ cands[best].score \in Int
<1>1. Len(cands) \in Nat /\ DOMAIN cands = 1..Len(cands)
      /\ best \in 0..Len(cands) /\ (best = 0 => Len(cands) = 0)
  BY DEF ETypeOK
<1>2. \A i \in 1..Len(cands) : cands[i] \in Tried
  BY ElementOfSeq DEF ETypeOK
<1>3. \A i \in 1..Len(cands) : cands[i].score \in Int
  BY <1>2 DEF Tried
<1> QED BY <1>1, <1>2, <1>3

(* The invariant of Ensemble holds at first. *)
LEMMA EnsembleStart == EnsembleInit => EInv
<1> SUFFICES ASSUME EnsembleInit PROVE EInv
  OBVIOUS
<1>1. ETypeOK
  BY EnsembleAssumption DEF EnsembleInit, ETypeOK, Prior, Arm, Ways
<1>2. Ranked
  BY DEF EnsembleInit, Ranked
<1>3. Credited
  <2>1. \A m : AnsweredBy(m) = {} /\ MovedBy(m) = {}
    BY DEF EnsembleInit, AnsweredBy, MovedBy
  <2>2. Cardinality({}) * One = 0
    BY FS_EmptySet, EnsembleAssumption
  <2>3. Added(Prior) = 0 /\ Prior.alpha >= One /\ Prior.beta >= One
    BY EnsembleAssumption DEF Added, Prior
  <2> QED BY <2>1, <2>2, <2>3 DEF EnsembleInit, Credited, Ways
<1> QED BY <1>1, <1>2, <1>3 DEF EInv, EnsembleInit

(* What the arms' evidence counts is finite. *)
LEMMA CandidatesFinite ==
  ASSUME ETypeOK, NEW m
  PROVE  IsFiniteSet(AnsweredBy(m)) /\ IsFiniteSet(MovedBy(m))
<1>1. Len(cands) \in Nat /\ DOMAIN cands = 1..Len(cands)
  BY DEF ETypeOK
<1>2. IsFiniteSet(1..Len(cands))
  BY <1>1, FS_Interval
<1> QED BY <1>1, <1>2, FS_Subset DEF AnsweredBy, MovedBy

(* A step of the search keeps the types. *)
LEMMA StepTypes ==
  ASSUME EInv, NEW move \in Moves, NEW s \in Int, NEW f \in {"yes", "no"},
         Step(move, s, f)
  PROVE  /\ move.model \in Arms /\ move.action \in Ways
         /\ ETypeOK' /\ Len(cands') = Len(cands) + 1
         /\ \A i \in 1..Len(cands) : cands'[i] = cands[i]
         /\ cands'[Len(cands) + 1].score = s
         /\ cands'[Len(cands) + 1].model = move.model
         /\ cands'[Len(cands) + 1].action = move.action
         /\ cands'[Len(cands) + 1].parent = best
<1> DEFINE c == [score |-> s, model |-> move.model, action |-> move.action,
                 parent |-> best, failed |-> f]
<1>0. ETypeOK
  BY DEF EInv
<1>1. move.model \in Arms /\ move.action \in Ways
  <2>1. best # 0 => cands[best] \in Tried
    BY <1>0 DEF ETypeOK
  <2> QED BY <2>1 DEF Moves, Ways, Tried
<1>2. c \in Tried
  BY <1>0, <1>1 DEF Tried, ETypeOK
<1>3. cands' = Append(cands, c)
  BY DEF Step
<1>4. cands \in Seq(Tried)
  BY <1>0 DEF ETypeOK
<1>5. /\ cands' \in Seq(Tried) /\ Len(cands') = Len(cands) + 1
      /\ \A i \in 1..Len(cands) : cands'[i] = cands[i]
      /\ cands'[Len(cands) + 1] = c
  <2> HIDE DEF c
  <2> QED BY <1>2, <1>3, <1>4, AppendProperties
<1>6. best' \in 0..Len(cands') /\ best' # 0
  BY <1>0, <1>5, <1>4 DEF Step, ETypeOK, Improves
<1>7. modelArms' \in [Arms -> Arm] /\ actionArms' \in [Ways -> Arm]
  <2>1. best = 0 \/ cands[best].score \in Int
    BY <1>0, ScoresTyped
  <2>2. /\ Reward(s) \in Int /\ 0 <= Reward(s) /\ Reward(s) <= One
    BY <2>1, RewardRange
  <2>3. Evidence(modelArms[move.model], Reward(s)) \in Arm
    BY <1>0, <1>1, <2>2, EvidenceAdds DEF EInv, Credited, ETypeOK
  <2>4. Evidence(actionArms[move.action], Reward(s)) \in Arm
    BY <1>0, <1>1, <2>2, EvidenceAdds DEF EInv, Credited, ETypeOK
  <2> QED BY <1>0, <2>3, <2>4 DEF Step, ETypeOK
<1>8. epc' \in {"run", "returned", "raised"}
  BY DEF Step
<1>9. ETypeOK'
  BY <1>5, <1>6, <1>7, <1>8 DEF ETypeOK
<1> QED BY <1>1, <1>5, <1>9

(* It keeps the best candidate the best. *)
LEMMA StepRanked ==
  ASSUME EInv, NEW move \in Moves, NEW s \in Int, NEW f \in {"yes", "no"},
         Step(move, s, f)
  PROVE  Ranked'
<1> DEFINE n == Len(cands)
<1>1. /\ cands \in Seq(Tried) /\ n \in Nat /\ best \in 0..n
      /\ best = 0 => n = 0
      /\ \A i \in 1..n : cands[i].score \in Int
  BY ScoresTyped DEF EInv, ETypeOK
<1>2. /\ Len(cands') = n + 1
      /\ \A i \in 1..n : cands'[i] = cands[i]
      /\ cands'[n + 1].score = s
      /\ cands'[n + 1].model = move.model
      /\ cands'[n + 1].action = move.action
      /\ cands'[n + 1].parent = best
  BY StepTypes
<1>3. best' = IF best = 0 \/ s > cands[best].score THEN n + 1 ELSE best
  BY DEF Step, Improves
<1>4. best # 0 => cands[best].score < Solved
  BY DEF Step, Searching
<1>5. move.action = "deeper" => best # 0 /\ move.model = cands[best].model
  BY DEF Moves
<1>6. Ranked
  BY DEF EInv
<1> HIDE DEF n
<1> SUFFICES ASSUME NEW i \in 1..(n + 1)
             PROVE  /\ cands'[i].score <= cands'[best'].score
                    /\ i < best' => cands'[i].score < cands'[best'].score
                    /\ cands'[i].score >= Solved => i = n + 1
                    /\ cands'[i].action = "deeper" =>
                         /\ cands'[i].parent \in 1..(i - 1)
                         /\ cands'[i].model = cands'[cands'[i].parent].model
                         /\ \A j \in 1..(i - 1) : cands'[j].score
                              <= cands'[cands'[i].parent].score
  BY <1>2 DEF Ranked
<1>7. \A j \in 1..n : /\ cands[j].score <= cands[best].score
                      /\ j < best => cands[j].score < cands[best].score
                      /\ cands[j].score < Solved
  <2> SUFFICES ASSUME NEW j \in 1..n
               PROVE  /\ cands[j].score <= cands[best].score
                      /\ j < best => cands[j].score < cands[best].score
                      /\ cands[j].score < Solved
    OBVIOUS
  <2>1. /\ cands[j].score <= cands[best].score
        /\ j < best => cands[j].score < cands[best].score
    BY <1>6 DEF Ranked, n
  <2>2. best \in 1..n
    BY <1>1
  <2> QED BY <2>1, <2>2, <1>1, <1>4, EnsembleAssumption
<1>8. /\ cands'[i].score <= cands'[best'].score
      /\ i < best' => cands'[i].score < cands'[best'].score
      /\ cands'[i].score >= Solved => i = n + 1
  <2>1. CASE best = 0
    BY <2>1, <1>1, <1>2, <1>3
  <2>2. CASE best # 0 /\ s > cands[best].score
    <3>1. best' = n + 1 /\ best \in 1..n
      BY <2>2, <1>1, <1>3
    <3>2. \A j \in 1..n : cands[j].score < s
      BY <2>2, <1>1, <1>7
    <3> QED BY <3>1, <3>2, <1>1, <1>2, <1>7, EnsembleAssumption
  <2>3. CASE best # 0 /\ ~(s > cands[best].score)
    <3>1. best' = best /\ best \in 1..n
      BY <2>3, <1>1, <1>3
    <3>2. CASE i = n + 1
      BY <2>3, <3>1, <3>2, <1>1, <1>2
    <3>3. CASE i # n + 1
      <4>1. i \in 1..n
        BY <3>3, <1>1
      <4> QED BY <4>1, <3>1, <1>1, <1>2, <1>7, EnsembleAssumption
    <3> QED BY <3>2, <3>3
  <2> QED BY <2>1, <2>2, <2>3
<1>9. ASSUME cands'[i].action = "deeper"
      PROVE  /\ cands'[i].parent \in 1..(i - 1)
             /\ cands'[i].model = cands'[cands'[i].parent].model
             /\ \A j \in 1..(i - 1) : cands'[j].score
                  <= cands'[cands'[i].parent].score
  <2>1. CASE i = n + 1
    <3>1. best \in 1..n /\ cands'[best] = cands[best]
      BY <1>1, <1>2, <1>5, <1>9, <2>1
    <3> QED BY <1>1, <1>2, <1>5, <1>7, <1>9, <2>1, <3>1
  <2>2. CASE i # n + 1
    <3>1. i \in 1..n /\ cands'[i] = cands[i]
      BY <1>1, <1>2, <2>2
    <3>2. /\ cands[i].parent \in 1..(i - 1)
          /\ cands[i].model = cands[cands[i].parent].model
          /\ \A j \in 1..(i - 1) : cands[j].score
               <= cands[cands[i].parent].score
      BY <1>6, <1>9, <3>1 DEF Ranked, n
    <3>3. \A j \in 1..(i - 1) : j \in 1..n /\ cands'[j] = cands[j]
      BY <1>1, <1>2, <3>1
    <3> QED BY <3>1, <3>2, <3>3
  <2> QED BY <2>1, <2>2
<1> QED BY <1>8, <1>9

(* It credits the arm that answered, and no other. *)
LEMMA StepCredited ==
  ASSUME EInv, NEW move \in Moves, NEW s \in Int, NEW f \in {"yes", "no"},
         Step(move, s, f)
  PROVE  Credited'
<1> DEFINE n == Len(cands)
<1>0. ETypeOK
  BY DEF EInv
<1>1. n \in Nat /\ DOMAIN cands = 1..n
  BY <1>0 DEF ETypeOK
<1>2. /\ move.model \in Arms /\ move.action \in Ways
      /\ ETypeOK' /\ Len(cands') = n + 1
      /\ \A i \in 1..n : cands'[i] = cands[i]
      /\ cands'[n + 1].model = move.model
      /\ cands'[n + 1].action = move.action
  BY StepTypes
<1>3. DOMAIN cands' = 1..(n + 1)
  BY <1>2 DEF ETypeOK
<1>4. Reward(s) \in Int /\ 0 <= Reward(s) /\ Reward(s) <= One
  <2>1. best = 0 \/ cands[best].score \in Int
    BY <1>0, ScoresTyped
  <2> QED BY <2>1, RewardRange
<1>5. /\ modelArms \in [Arms -> Arm] /\ actionArms \in [Ways -> Arm]
      /\ \A m \in Arms : modelArms'[m] =
           IF m = move.model THEN Evidence(modelArms[m], Reward(s))
           ELSE modelArms[m]
      /\ \A x \in Ways : actionArms'[x] =
           IF x = move.action THEN Evidence(actionArms[x], Reward(s))
           ELSE actionArms[x]
  BY <1>0 DEF Step, ETypeOK
<1>6. Credited
  BY DEF EInv
<1> HIDE DEF n
<1>7. ASSUME NEW m \in Arms
      PROVE  /\ Added(modelArms'[m]) = Cardinality(AnsweredBy(m)') * One
             /\ modelArms'[m].alpha >= One /\ modelArms'[m].beta >= One
  <2>0. /\ Added(modelArms[m]) = Cardinality(AnsweredBy(m)) * One
        /\ modelArms[m].alpha >= One /\ modelArms[m].beta >= One
    BY <1>6 DEF Credited
  <2>1. CASE m = move.model
    <3>1. AnsweredBy(m)' = AnsweredBy(m) \cup {n + 1}
      BY <1>1, <1>2, <1>3, <2>1 DEF AnsweredBy
    <3>2. n + 1 \notin AnsweredBy(m)
      BY <1>1 DEF AnsweredBy
    <3>3. /\ Cardinality(AnsweredBy(m)') = Cardinality(AnsweredBy(m)) + 1
          /\ Cardinality(AnsweredBy(m)) \in Nat
      BY <1>0, <3>1, <3>2, CandidatesFinite, FS_AddElement, FS_CardinalityType
    <3>4. Cardinality(AnsweredBy(m)') * One
            = Cardinality(AnsweredBy(m)) * One + One
      BY <3>3, OneMore
    <3>5. modelArms'[m] = Evidence(modelArms[m], Reward(s))
      BY <1>5, <2>1
    <3> QED BY <1>4, <1>5, <2>0, <3>4, <3>5, EvidenceAdds
  <2>2. CASE m # move.model
    <3>1. AnsweredBy(m)' = AnsweredBy(m)
      BY <1>1, <1>2, <1>3, <2>2 DEF AnsweredBy
    <3> QED BY <1>5, <2>0, <2>2, <3>1
  <2> QED BY <2>1, <2>2
<1>8. ASSUME NEW x \in Ways
      PROVE  /\ Added(actionArms'[x]) = Cardinality(MovedBy(x)') * One
             /\ actionArms'[x].alpha >= One /\ actionArms'[x].beta >= One
  <2>0. /\ Added(actionArms[x]) = Cardinality(MovedBy(x)) * One
        /\ actionArms[x].alpha >= One /\ actionArms[x].beta >= One
    BY <1>6 DEF Credited
  <2>1. CASE x = move.action
    <3>1. MovedBy(x)' = MovedBy(x) \cup {n + 1}
      BY <1>1, <1>2, <1>3, <2>1 DEF MovedBy
    <3>2. n + 1 \notin MovedBy(x)
      BY <1>1 DEF MovedBy
    <3>3. /\ Cardinality(MovedBy(x)') = Cardinality(MovedBy(x)) + 1
          /\ Cardinality(MovedBy(x)) \in Nat
      BY <1>0, <3>1, <3>2, CandidatesFinite, FS_AddElement, FS_CardinalityType
    <3>4. Cardinality(MovedBy(x)') * One
            = Cardinality(MovedBy(x)) * One + One
      BY <3>3, OneMore
    <3>5. actionArms'[x] = Evidence(actionArms[x], Reward(s))
      BY <1>5, <2>1
    <3> QED BY <1>4, <1>5, <2>0, <3>4, <3>5, EvidenceAdds
  <2>2. CASE x # move.action
    <3>1. MovedBy(x)' = MovedBy(x)
      BY <1>1, <1>2, <1>3, <2>2 DEF MovedBy
    <3> QED BY <1>5, <2>0, <2>2, <3>1
  <2> QED BY <2>1, <2>2
<1> QED BY <1>7, <1>8 DEF Credited, Added

(* Every step of Ensemble keeps its invariant. *)
LEMMA EnsembleStep == EInv /\ [EnsembleNext]_ensembleVars => EInv'
<1> SUFFICES ASSUME EInv, [EnsembleNext]_ensembleVars PROVE EInv'
  OBVIOUS
<1>1. ASSUME NEW move \in Moves, NEW s \in Int, NEW f \in {"yes", "no"},
             Step(move, s, f)
      PROVE  EInv'
  <2>1. ETypeOK' /\ Ranked' /\ Credited'
    BY <1>1, StepTypes, StepRanked, StepCredited
  <2>2. epc' # "returned"
    BY <1>1 DEF Step
  <2> QED BY <2>1, <2>2 DEF EInv
<1>2. CASE \E move \in Moves : \/ Step(move, 0, "yes")
                               \/ \E s \in Scores : Step(move, s, "no")
  BY <1>1, <1>2, EnsembleAssumption
<1>3. CASE ScorerRaises \/ Return
  BY <1>3 DEF ScorerRaises, Return, EInv, ETypeOK, Ranked, Credited, Searching,
              AnsweredBy, MovedBy
<1>4. CASE UNCHANGED ensembleVars
  BY <1>4 DEF ensembleVars, EInv, ETypeOK, Ranked, Credited, Searching,
              AnsweredBy, MovedBy
<1> QED BY <1>2, <1>3, <1>4 DEF EnsembleNext

(* For every roster, budget and scoring function, the search of            *)
(* ensemble_pattern.py returns the first of its best candidates, goes      *)
(* deeper only from the best so far, and the evidence of each arm is       *)
(* exactly what its own answers earned.                                    *)
THEOREM SearchKeepsBest == EnsembleSpec => []EnsembleBest
<1>1. EInv => EnsembleBest
  <2> SUFFICES ASSUME EInv PROVE EnsembleBest
    OBVIOUS
  <2>1. DOMAIN cands = 1..Len(cands) /\ Len(cands) \in Nat
        /\ DOMAIN actionArms = Ways
        /\ best \in 0..Len(cands) /\ (best = 0 => Len(cands) = 0)
        /\ \A i \in 1..Len(cands) : cands[i].score \in Int
    BY ScoresTyped DEF EInv, ETypeOK
  <2>2. Ranked /\ Credited
    BY DEF EInv
  <2>3. ASSUME epc = "returned"
        PROVE  /\ Len(cands) > 0
               /\ Passed <=> \E i \in DOMAIN cands : cands[i].score >= Solved
    <3>1. Len(cands) > 0
      BY <2>1, <2>3, EnsembleAssumption DEF EInv, Searching
    <3>2. best \in 1..Len(cands)
      BY <2>1, <3>1
    <3>3. \A i \in 1..Len(cands) : cands[i].score <= cands[best].score
      BY <2>2 DEF Ranked
    <3> QED BY <2>1, <3>1, <3>2, <3>3, EnsembleAssumption DEF Passed
  <2> QED BY <2>1, <2>2, <2>3 DEF EnsembleBest, Ranked, Credited
<1> QED BY <1>1, EnsembleStart, EnsembleStep, PTL DEF EnsembleSpec

-----------------------------------------------------------------------------
(* Dialectic.                                                               *)

DialecticSpec == DialecticInit /\ [][DialecticNext]_dialecticVars

Roles == {"tension", "thesis", "antithesis", "synthesis"}
Text == [role : Roles, round : Nat, score : Int]

DTypeOK ==
  /\ dpc \in {"tension", "thesis", "score", "oppose", "synthesize", "rate",
              "returned", "raised"}
  /\ needed \in {"unknown", "yes", "no"}
  /\ round \in Nat /\ rivals \in Nat /\ scored \in Nat
  /\ thesis \in [at : Nat, score : Int]
  /\ prior \in Seq(Text) /\ dhistory \in Seq(Text)

(* How far the run is: a round that is under way is the one after that of  *)
(* the thesis.                                                             *)
Standing ==
  /\ dpc = "tension" => needed = "unknown"
  /\ dpc \in {"tension", "thesis", "score"} =>
       prior = <<>> /\ thesis.at = 0 /\ round = 0
  /\ dpc \in {"tension", "thesis"} => scored = 0
  /\ dpc \in {"thesis", "returned"} => needed # "unknown"
  /\ dpc \in {"score", "oppose", "synthesize", "rate"} => needed = "yes"
  /\ dpc \in {"oppose", "synthesize", "rate"} => thesis.at = round - 1
  /\ dpc = "returned" /\ needed = "no" => scored = 0 /\ Len(dhistory) = 2

(* From the first verdict on, the thesis is the best of the scored texts   *)
(* and nothing is reported of a later round than the one after it.         *)
Judged == needed = "yes"
          /\ dpc \in {"oppose", "synthesize", "rate", "returned"}

BestSoFar ==
  /\ thesis.score \in 0..TopScore
  /\ \A i \in ScoredTexts :
       /\ dhistory[i].score <= thesis.score
       /\ dhistory[i].round < thesis.at => dhistory[i].score < thesis.score
       /\ dhistory[i].score \in 0..TopScore

Reported ==
  /\ Len(dhistory) > 0
  /\ \A i \in 1..Len(dhistory) :
       /\ dhistory[i].round <= thesis.at + 1
       /\ dpc # "returned" => dhistory[i].round <= thesis.at
  /\ Len(prior) = Cardinality(Antitheses)
                  + (IF dpc \in {"synthesize", "rate"} THEN rivals ELSE 0)

DInv == DTypeOK /\ Standing /\ (Judged => BestSoFar /\ Reported)

(* A clamped score is on the scale. *)
LEMMA ClampRange ==
  ASSUME NEW v \in Int
  PROVE  ClampScore(v) \in 0..TopScore
BY DialecticAssumption DEF ClampScore, NoScore

(* A list of drafts. *)
LEMMA DraftsType ==
  ASSUME NEW role \in Roles, NEW n \in Nat, NEW count \in Nat
  PROVE  /\ Drafts(role, n, count) \in Seq(Text)
         /\ Len(Drafts(role, n, count)) = count
         /\ \A i \in 1..count : Drafts(role, n, count)[i] =
              [role |-> role, round |-> n, score |-> NoScore]
<1> DEFINE d == [role |-> role, round |-> n, score |-> NoScore]
<1>1. d \in Text
  BY DEF Text, NoScore
<1>2. Drafts(role, n, count) = [i \in 1..count |-> d]
  BY DEF Drafts
<1> HIDE DEF d
<1>3. [i \in 1..count |-> d] \in Seq(Text)
  BY <1>1
<1>4. Len([i \in 1..count |-> d]) = count
  OBVIOUS
<1> QED BY <1>2, <1>3, <1>4 DEF d

(* The reported antitheses are finitely many. *)
LEMMA AntithesesFinite ==
  ASSUME DTypeOK
  PROVE  IsFiniteSet(Antitheses) /\ Cardinality(Antitheses) \in Nat
<1>1. DOMAIN dhistory = 1..Len(dhistory) /\ Len(dhistory) \in Nat
  BY DEF DTypeOK
<1>2. IsFiniteSet(1..Len(dhistory))
  BY <1>1, FS_Interval
<1>3. IsFiniteSet(Antitheses)
  BY <1>1, <1>2, FS_Subset DEF Antitheses
<1> QED BY <1>3, FS_CardinalityType

(* The invariant of Dialectic holds at first. *)
LEMMA DialecticStart == DialecticInit => DInv
BY DEF DialecticInit, DInv, DTypeOK, Standing, Judged, NoScore, Text

(* The first report: the tension and the thesis. *)
LEMMA FirstReport ==
  ASSUME NEW s \in Int
  PROVE  LET h == Drafts("tension", 0, 1) \o
                    <<[role |-> "thesis", round |-> 0, score |-> s]>>
         IN /\ h \in Seq(Text) /\ Len(h) = 2
            /\ h[1] = [role |-> "tension", round |-> 0, score |-> NoScore]
            /\ h[2] = [role |-> "thesis", round |-> 0, score |-> s]
<1> DEFINE a == Drafts("tension", 0, 1)
           t == [role |-> "thesis", round |-> 0, score |-> s]
           b == <<t>>
<1>1. /\ a \in Seq(Text) /\ Len(a) = 1
      /\ a[1] = [role |-> "tension", round |-> 0, score |-> NoScore]
  <2>1. "tension" \in Roles /\ 1 \in 1..1 /\ 1 \in Nat /\ 0 \in Nat
    BY DEF Roles
  <2> QED BY <2>1, DraftsType
<1>2. b \in Seq(Text) /\ Len(b) = 1 /\ b[1] = t
  BY DEF Text, Roles
<1> HIDE DEF a, t, b
<1>3. a \o b \in Seq(Text) /\ Len(a \o b) = 2
      /\ (a \o b)[1] = a[1] /\ (a \o b)[2] = b[1]
  <2>1. /\ a \o b \in Seq(Text) /\ Len(a \o b) = Len(a) + Len(b)
        /\ \A i \in 1..(Len(a) + Len(b)) :
             (a \o b)[i] = IF i <= Len(a) THEN a[i] ELSE b[i - Len(a)]
    BY <1>1, <1>2, ConcatProperties
  <2>2. 1 \in 1..(Len(a) + Len(b)) /\ 2 \in 1..(Len(a) + Len(b))
    BY <1>1, <1>2
  <2> QED BY <1>1, <1>2, <2>1, <2>2
<1> QED BY <1>1, <1>2, <1>3 DEF a, t, b

(* The thesis is written. *)
LEMMA WriteThesisKeeps ==
  ASSUME DInv, WriteThesis
  PROVE  DInv'
<1>1. CASE needed = "no"
  <2>1. Drafts("thesis", 0, 1) =
          <<[role |-> "thesis", round |-> 0, score |-> NoScore]>>
    BY DEF Drafts
  <2>2. dhistory' \in Seq(Text) /\ Len(dhistory') = 2
    BY <1>1, <2>1, FirstReport DEF WriteThesis, NoScore
  <2> QED BY <1>1, <2>2 DEF WriteThesis, DInv, DTypeOK, Standing, Judged
<1>2. CASE needed # "no"
  BY <1>2 DEF WriteThesis, DInv, DTypeOK, Standing, Judged
<1> QED BY <1>1, <1>2

(* The thesis gets its score. *)
LEMMA ScoreThesisKeeps ==
  ASSUME DInv, NEW verdict \in Int, ScoreThesis(verdict)
  PROVE  DInv'
<1> DEFINE s == ClampScore(verdict)
<1>1. s \in 0..TopScore /\ s \in Int
  BY ClampRange, DialecticAssumption
<1>2. thesis' = [at |-> 0, score |-> s]
  BY DEF ScoreThesis, DInv, DTypeOK, Standing
<1> HIDE DEF s
<1> DEFINE h == Drafts("tension", 0, 1) \o
                  <<[role |-> "thesis", round |-> 0, score |-> s]>>
<1>3. /\ dhistory' \in Seq(Text) /\ Len(dhistory') = 2
      /\ dhistory'[1] = [role |-> "tension", round |-> 0, score |-> NoScore]
      /\ dhistory'[2] = [role |-> "thesis", round |-> 0, score |-> s]
  <2>1. thesis'.score = s
    BY <1>2
  <2>2. dhistory' = h
    BY <2>1 DEF ScoreThesis
  <2>3. /\ h \in Seq(Text) /\ Len(h) = 2
        /\ h[1] = [role |-> "tension", round |-> 0, score |-> NoScore]
        /\ h[2] = [role |-> "thesis", round |-> 0, score |-> s]
    BY <1>1, FirstReport
  <2> HIDE DEF h
  <2> QED BY <2>2, <2>3
<1>4. DOMAIN dhistory' = 1..2
  BY <1>3
<1>5. DTypeOK' /\ Standing'
  <2>1. /\ dpc' \in {"oppose", "returned"} /\ needed' = needed
        /\ needed = "yes" /\ scored' = scored + 1 /\ scored \in Nat
        /\ rivals' = rivals /\ rivals \in Nat
        /\ prior' = prior /\ prior \in Seq(Text)
        /\ round' = IF dpc' = "oppose" THEN 1 ELSE 0
    BY DEF ScoreThesis, DInv, DTypeOK, Standing
  <2>2. thesis' \in [at : Nat, score : Int] /\ thesis'.at = 0
    BY <1>1, <1>2
  <2>3. DTypeOK'
    BY <1>3, <2>1, <2>2 DEF DTypeOK
  <2>4. dpc' = "oppose" => thesis'.at = round' - 1
    BY <2>1, <2>2
  <2>5. needed' = "yes"
    BY <2>1
  <2>6. dpc' = "oppose" \/ dpc' = "returned"
    BY <2>1
  <2>7. Standing'
    BY <2>4, <2>5, <2>6 DEF Standing
  <2> QED BY <2>3, <2>7
<1>6. BestSoFar'
  BY <1>1, <1>2, <1>3, <1>4 DEF BestSoFar, ScoredTexts
<1>7. Reported'
  <2>1. prior' = <<>> /\ dpc' \in {"oppose", "returned"}
    BY DEF ScoreThesis, DInv, Standing
  <2>2. Antitheses' = {}
    BY <1>3, <1>4 DEF Antitheses
  <2>3. Cardinality(Antitheses') = 0
    BY <2>2, FS_EmptySet
  <2> QED BY <1>2, <1>3, <2>1, <2>3 DEF Reported
<1> QED BY <1>5, <1>6, <1>7 DEF DInv

(* The antitheses of a round are written. *)
LEMMA OpposeKeeps ==
  ASSUME DInv, NEW count \in Nat, Oppose(count)
  PROVE  DInv'
<1> DEFINE d == Drafts("antithesis", round, count)
<1>0. DTypeOK /\ Standing /\ Judged /\ BestSoFar /\ Reported
  BY DEF DInv, Oppose, Judged, Standing
<1>1. d \in Seq(Text) /\ Len(d) = count
  <2>1. "antithesis" \in Roles
    BY DEF Roles
  <2> QED BY <1>0, <2>1, DraftsType DEF DTypeOK
<1> HIDE DEF d
<1>2. prior' = prior \o d
  BY DEF Oppose, d
<1>3. prior' \in Seq(Text) /\ Len(prior') = Len(prior) + count
  BY <1>0, <1>1, <1>2, ConcatProperties DEF DTypeOK
<1>4. DTypeOK' /\ Standing' /\ Judged' /\ BestSoFar'
  BY <1>0, <1>3 DEF Oppose, DTypeOK, Standing, Judged, BestSoFar, ScoredTexts
<1>5. Antitheses' = Antitheses
  BY DEF Oppose, Antitheses
<1>6. Reported'
  <2>1. /\ dhistory' = dhistory /\ thesis' = thesis /\ rivals' = count
        /\ dpc = "oppose" /\ dpc' = "synthesize"
    BY DEF Oppose
  <2>2. Len(prior) = Cardinality(Antitheses) + 0 /\ Len(prior) \in Nat
    BY <1>0, <2>1 DEF Reported, DTypeOK
  <2>3. Cardinality(Antitheses) \in Nat
    BY <1>0, AntithesesFinite
  <2>4. Len(prior') = Cardinality(Antitheses') + rivals'
    BY <1>3, <1>5, <2>1, <2>2, <2>3
  <2> QED BY <1>0, <2>1, <2>4 DEF Reported
<1> QED BY <1>4, <1>6 DEF DInv

(* The report of a round: its rivals, then its synthesis. *)
LEMMA RoundReport ==
  ASSUME DInv, NEW verdict \in Int, RateSynthesis(verdict)
  PROVE  LET n == Len(dhistory)
             m == Len(dhistory) + rivals
         IN /\ n \in Nat /\ m \in Nat
            /\ dhistory' \in Seq(Text) /\ Len(dhistory') = m + 1
            /\ \A i \in 1..n : dhistory'[i] = dhistory[i]
            /\ \A i \in (n + 1)..m : dhistory'[i] =
                 [role |-> "antithesis", round |-> round, score |-> NoScore]
            /\ dhistory'[m + 1] =
                 [role |-> "synthesis", round |-> round,
                  score |-> ClampScore(verdict)]
<1> DEFINE a == Drafts("antithesis", round, rivals)
           t == [role |-> "synthesis", round |-> round,
                 score |-> ClampScore(verdict)]
           b == <<t>>
           n == Len(dhistory)
<1>0. /\ dhistory \in Seq(Text) /\ round \in Nat /\ rivals \in Nat
      /\ n \in Nat
  BY DEF DInv, DTypeOK
<1>1. /\ a \in Seq(Text) /\ Len(a) = rivals
      /\ \A i \in 1..rivals : a[i] =
           [role |-> "antithesis", round |-> round, score |-> NoScore]
  <2>1. "antithesis" \in Roles
    BY DEF Roles
  <2> QED BY <1>0, <2>1, DraftsType
<1>2. t \in Text
  BY <1>0, ClampRange, DialecticAssumption DEF Text, Roles
<1>3. dhistory' = (dhistory \o a) \o b
  BY DEF RateSynthesis
<1>4. b \in Seq(Text) /\ Len(b) = 1 /\ b[1] = t
  BY <1>2
<1> DEFINE c == dhistory \o a
<1> HIDE DEF a, t, b
<1>5. /\ c \in Seq(Text) /\ Len(c) = n + rivals
      /\ \A i \in 1..(n + rivals) :
           c[i] = IF i <= n THEN dhistory[i] ELSE a[i - n]
  BY <1>0, <1>1, ConcatProperties
<1>6. dhistory' = c \o b
  BY <1>3
<1> HIDE DEF c
<1>7. /\ dhistory' \in Seq(Text) /\ Len(dhistory') = n + rivals + 1
      /\ \A i \in 1..(n + rivals + 1) :
           dhistory'[i] = IF i <= n + rivals THEN c[i] ELSE b[i - (n + rivals)]
  <2>1. /\ c \o b \in Seq(Text) /\ Len(c \o b) = Len(c) + Len(b)
        /\ \A i \in 1..(Len(c) + Len(b)) :
             (c \o b)[i] = IF i <= Len(c) THEN c[i] ELSE b[i - Len(c)]
    <3>1. c \in Seq(Text) /\ b \in Seq(Text)
      BY <1>4, <1>5
    <3> QED BY ONLY <3>1, ConcatProperties
  <2> QED BY <1>4, <1>5, <1>6, <2>1
<1> HIDE DEF n
<1>8. \A i \in 1..n : dhistory'[i] = dhistory[i]
  <2> TAKE i \in 1..n
  <2>1. i \in 1..(n + rivals + 1) /\ i \in 1..(n + rivals)
        /\ i <= n + rivals /\ i <= n
    BY <1>0
  <2> QED BY <1>5, <1>7, <2>1
<1>9. \A i \in (n + 1)..(n + rivals) : dhistory'[i] = a[i - n]
                                       /\ i - n \in 1..rivals
  BY <1>0, <1>5, <1>7
<1>10. dhistory'[n + rivals + 1] = t
  BY <1>0, <1>4, <1>7
<1> QED BY <1>0, <1>1, <1>7, <1>8, <1>9, <1>10 DEF n, t

(* The synthesis of a round is rated, and kept if it is better. *)
LEMMA RateKeeps ==
  ASSUME DInv, NEW verdict \in Int, RateSynthesis(verdict)
  PROVE  DInv'
<1> DEFINE s == ClampScore(verdict)
           n == Len(dhistory)
           m == n + rivals
<1>0. DTypeOK /\ Standing /\ Judged /\ BestSoFar /\ Reported
  BY DEF DInv, RateSynthesis, Judged, Standing
<1>1. s \in 0..TopScore /\ s \in Int
  BY ClampRange, DialecticAssumption
<1>2. /\ n \in Nat /\ m \in Nat
      /\ dhistory' \in Seq(Text) /\ Len(dhistory') = m + 1
      /\ \A i \in 1..n : dhistory'[i] = dhistory[i]
      /\ \A i \in (n + 1)..m : dhistory'[i] =
           [role |-> "antithesis", round |-> round, score |-> NoScore]
      /\ dhistory'[m + 1] =
           [role |-> "synthesis", round |-> round, score |-> s]
  BY RoundReport
<1>3. DOMAIN dhistory' = 1..(m + 1) /\ DOMAIN dhistory = 1..n
  BY <1>0, <1>2 DEF DTypeOK
<1>4. /\ rivals \in Nat /\ round \in Nat /\ thesis.at \in Nat
      /\ thesis.score \in Int /\ thesis.at = round - 1
      /\ thesis = [at |-> thesis.at, score |-> thesis.score]
      /\ m = n + rivals /\ dpc = "rate" /\ needed = "yes"
  BY <1>0 DEF DTypeOK, Standing, RateSynthesis
<1>5. /\ needed' = "yes" /\ prior' = prior /\ rivals' = rivals
      /\ scored' = scored + 1
      /\ thesis' = IF s > thesis.score THEN [at |-> round, score |-> s]
                   ELSE thesis
      /\ \/ s > thesis.score /\ dpc' = "oppose" /\ round' = round + 1
         \/ dpc' = "returned" /\ round' = round
  BY <1>4 DEF RateSynthesis, Surpasses
<1> HIDE DEF s, n, m
<1>6. DTypeOK' /\ Standing'
  <2>1. thesis' \in [at : Nat, score : Int]
    BY <1>0, <1>1, <1>4, <1>5 DEF DTypeOK
  <2>2. DTypeOK'
    BY <1>0, <1>2, <1>4, <1>5, <2>1 DEF DTypeOK
  <2>3. dpc' = "oppose" => thesis'.at = round' - 1
    BY <1>4, <1>5
  <2> QED BY <1>5, <2>2, <2>3 DEF Standing
<1>7. BestSoFar'
  <2>1. ScoredTexts' \subseteq ScoredTexts \cup {m + 1}
    <3> SUFFICES ASSUME NEW i \in ScoredTexts', i # m + 1
                 PROVE  i \in ScoredTexts
      OBVIOUS
    <3>1. i \in 1..(m + 1) /\ dhistory'[i].role # "antithesis"
      BY <1>3 DEF ScoredTexts
    <3>2. i \in 1..n \/ i \in (n + 1)..m
      BY <1>2, <1>4, <3>1
    <3>3. i \notin (n + 1)..m
      BY <1>2, <3>1
    <3>4. i \in 1..n /\ dhistory'[i] = dhistory[i]
      BY <1>2, <3>2, <3>3
    <3> QED BY <1>3, <3>1, <3>4 DEF ScoredTexts
  <2>2. thesis'.score \in 0..TopScore /\ thesis'.score >= thesis.score
        /\ thesis'.score >= s
    BY <1>0, <1>1, <1>4, <1>5 DEF BestSoFar
  <2>3. ASSUME NEW i \in ScoredTexts
        PROVE  /\ dhistory'[i].score <= thesis'.score
               /\ dhistory'[i].round < thesis'.at =>
                    dhistory'[i].score < thesis'.score
               /\ dhistory'[i].score \in 0..TopScore
    <3>1. i \in 1..n
      BY <1>3 DEF ScoredTexts
    <3>2. dhistory'[i] = dhistory[i]
      BY <1>2, <3>1
    <3>3. /\ dhistory[i].score <= thesis.score
          /\ dhistory[i].round < thesis.at => dhistory[i].score < thesis.score
          /\ dhistory[i].score \in 0..TopScore
      BY <1>0 DEF BestSoFar
    <3> QED BY <1>1, <1>4, <1>5, <2>2, <3>2, <3>3, DialecticAssumption
  <2>4. /\ dhistory'[m + 1].score <= thesis'.score
        /\ ~(dhistory'[m + 1].round < thesis'.at)
        /\ dhistory'[m + 1].score \in 0..TopScore
    BY <1>1, <1>2, <1>4, <1>5, <2>2
  <2> QED BY <2>1, <2>2, <2>3, <2>4 DEF BestSoFar
<1>8. Reported'
  <2>1. ASSUME NEW i \in 1..(m + 1)
        PROVE  /\ dhistory'[i].round <= thesis'.at + 1
               /\ dpc' # "returned" => dhistory'[i].round <= thesis'.at
    <3>1. dhistory'[i].round <= round
      <4>1. CASE i \in 1..n
        <5>1. dhistory[i].round <= thesis.at /\ dhistory[i] \in Text
          <6>1. dhistory[i] \in Text
            BY <1>0, <4>1, ElementOfSeq DEF DTypeOK, n
          <6> QED BY <1>0, <1>4, <4>1, <6>1 DEF Reported, n
        <5>2. dhistory[i].round \in Nat
          BY <5>1 DEF Text
        <5> QED BY <1>2, <1>4, <4>1, <5>1, <5>2
      <4>2. CASE i \in (n + 1)..m
        BY <1>2, <1>4, <4>2
      <4>3. CASE i = m + 1
        BY <1>2, <1>4, <4>3
      <4> QED BY <1>2, <1>4, <4>1, <4>2, <4>3
    <3>2. dhistory'[i] \in Text
      BY <1>2, ElementOfSeq
    <3>3. dhistory'[i].round \in Nat
      BY <3>2 DEF Text
    <3> QED BY <1>4, <1>5, <3>1, <3>3
  <2>2. Antitheses' = Antitheses \cup ((n + 1)..m)
    BY <1>2, <1>3, <1>4 DEF Antitheses
  <2>3. Antitheses \cap ((n + 1)..m) = {}
    BY <1>2, <1>3 DEF Antitheses
  <2>4. IsFiniteSet(Antitheses)
    BY <1>0, AntithesesFinite
  <2>5. IsFiniteSet((n + 1)..m) /\ Cardinality((n + 1)..m) = rivals
    <3>1. n + 1 \in Int /\ m \in Int
      BY <1>2
    <3>2. /\ IsFiniteSet((n + 1)..m)
          /\ Cardinality((n + 1)..m) =
               IF n + 1 > m THEN 0 ELSE m - (n + 1) + 1
      BY <3>1, FS_Interval
    <3> QED BY <1>2, <1>4, <3>2
  <2>6. Cardinality(Antitheses') = Cardinality(Antitheses) + rivals
    <3>1. Cardinality({}) = 0
      BY FS_EmptySet
    <3>2. Cardinality(Antitheses') =
            Cardinality(Antitheses) + Cardinality((n + 1)..m)
              - Cardinality(Antitheses \cap ((n + 1)..m))
      BY <2>2, <2>4, <2>5, FS_Union
    <3>3. Cardinality(Antitheses) \in Nat
      BY <1>0, AntithesesFinite
    <3>4. Cardinality(Antitheses \cap ((n + 1)..m)) = 0
      BY <2>3, <3>1
    <3>5. Cardinality((n + 1)..m) = rivals
      BY <2>5
    <3> HIDE DEF m
    <3> QED BY <1>4, <3>2, <3>3, <3>4, <3>5
  <2>7. Len(prior) = Cardinality(Antitheses) + rivals
    BY <1>0, <1>4 DEF Reported
  <2>8. Cardinality(Antitheses) + rivals + 0 = Cardinality(Antitheses) + rivals
        /\ dpc' \notin {"synthesize", "rate"}
    BY <1>4, <1>5, <1>0, AntithesesFinite
  <2>9. Len(dhistory') > 0
    BY <1>2
  <2> QED BY <1>2, <1>5, <2>1, <2>6, <2>7, <2>8, <2>9 DEF Reported
<1> QED BY <1>6, <1>7, <1>8 DEF DInv

(* Every step of Dialectic keeps its invariant. *)
LEMMA DialecticStep == DInv /\ [DialecticNext]_dialecticVars => DInv'
<1> SUFFICES ASSUME DInv, [DialecticNext]_dialecticVars PROVE DInv'
  OBVIOUS
<1>1. CASE WriteThesis
  BY <1>1, WriteThesisKeeps
<1>2. CASE \E count \in 1..Perspectives : Oppose(count)
  BY <1>2, OpposeKeeps, DialecticAssumption
<1>3. CASE \E verdict \in RawScores \cup {NoScore} :
             ScoreThesis(verdict) \/ RateSynthesis(verdict)
  <2>1. RawScores \cup {NoScore} \subseteq Int
    BY DialecticAssumption DEF NoScore
  <2> QED BY <1>3, <2>1, ScoreThesisKeeps, RateKeeps
<1>4. CASE IdentifyTension \/ Synthesize \/ OpposeExhausted \/ DialecticRaises
           \/ UNCHANGED dialecticVars
  <2>1. /\ dhistory' = dhistory /\ thesis' = thesis /\ prior' = prior
        /\ rivals' = rivals /\ round' = round /\ scored' = scored
    BY <1>4 DEF IdentifyTension, Synthesize, OpposeExhausted, DialecticRaises,
                dialecticVars
  <2>2. DTypeOK' /\ Standing'
    BY <1>4, <2>1 DEF IdentifyTension, Synthesize, OpposeExhausted,
       DialecticRaises, dialecticVars, DInv, DTypeOK, Standing
  <2>3. Judged' => Judged /\ (dpc' \in {"synthesize", "rate"}
                              <=> dpc \in {"synthesize", "rate"})
                   /\ (dpc # "returned" \/ dpc' = "returned")
    BY <1>4 DEF IdentifyTension, Synthesize, OpposeExhausted, DialecticRaises,
       dialecticVars, DInv, DTypeOK, Standing, Judged
  <2>4. BestSoFar => BestSoFar'
    BY <2>1 DEF BestSoFar, ScoredTexts
  <2>5. Judged' /\ Reported => Reported'
    <3>1. Antitheses' = Antitheses
      BY <2>1 DEF Antitheses
    <3> QED BY <2>1, <2>3, <3>1 DEF Reported
  <2> QED BY <2>2, <2>3, <2>4, <2>5 DEF DInv
<1> QED BY <1>1, <1>2, <1>3, <1>4 DEF DialecticNext

(* For every number of rounds and perspectives and every verdict, missing  *)
(* ones and ones off the scale included, the answer of the dialectic       *)
(* engine is the first of the best scored texts it reports, and every      *)
(* antithesis shown was reported.                                          *)
THEOREM AnswerIsBest == DialecticSpec => []DialecticBest
<1>1. DInv => DialecticBest
  <2> SUFFICES ASSUME DInv, dpc = "returned", needed = "yes"
               PROVE  /\ \A i \in ScoredTexts :
                           /\ dhistory[i].score <= thesis.score
                           /\ dhistory[i].round < thesis.at =>
                                dhistory[i].score < thesis.score
                           /\ dhistory[i].score >= 0
                           /\ dhistory[i].score <= TopScore
                      /\ dhistory[Len(dhistory)].round <= thesis.at + 1
                      /\ Len(prior) = Cardinality(Antitheses)
    BY DEF DInv, Standing, DialecticBest
  <2>1. BestSoFar /\ Reported /\ DTypeOK
    BY DEF DInv, Judged
  <2>2. \A i \in ScoredTexts : dhistory[i].score >= 0
                               /\ dhistory[i].score <= TopScore
    BY <2>1, DialecticAssumption DEF BestSoFar
  <2>3. Len(dhistory) \in 1..Len(dhistory)
    BY <2>1 DEF Reported, DTypeOK
  <2>4. Len(prior) = Cardinality(Antitheses)
    <3>2. Cardinality(Antitheses) \in Nat
      BY <2>1, AntithesesFinite
    <3> QED BY <2>1, <3>2 DEF Reported
  <2> QED BY <2>1, <2>2, <2>3, <2>4 DEF BestSoFar, Reported
<1> QED BY <1>1, DialecticStart, DialecticStep, PTL DEF DialecticSpec

-----------------------------------------------------------------------------
(* Worktree and Bugfix.                                                     *)

WorktreeSpec == WorktreeInit /\ [][WorktreeNext]_worktreeVars

(* Before the tree is added there is no work; while it is used it and its  *)
(* branch are there, unless a tool removed the tree; and what the exit     *)
(* concluded is wrong only for a tool that wrote after the check, or on    *)
(* the safe side.                                                          *)
SessionInv ==
  /\ wpc \in {"new", "rooted"} => work = "clean" /\ commits = "none"
  /\ wpc = "new" => dir = "none"
  /\ wpc \in {"open", "left", "checked"} =>
       branch = "made" /\ dir \in {"tree", "gone"}
  /\ wpc = "checked" =>
       /\ dir = "tree"
       /\ judged = "clean" => work = "clean" \/ late = "raced"
       /\ judged = "dirty" => work = "dirty" \/ trouble = "yes"
  /\ late # "no" => wpc \notin {"new", "rooted", "open"}
  /\ work \in {"clean", "dirty"} /\ commits \in {"none", "some"}
  /\ WorkKeptExactly

(* The invariant of Worktree holds at first. *)
LEMMA SessionStart == WorktreeInit => SessionInv
BY DEF WorktreeInit, SessionInv, WorkKeptExactly

(* Every step of a session keeps its invariant. *)
LEMMA SessionStep == SessionInv /\ [WorktreeNext]_worktreeVars => SessionInv'
<1> SUFFICES ASSUME SessionInv, [WorktreeNext]_worktreeVars
             PROVE  SessionInv'
  OBVIOUS
<1> USE DEF SessionInv, WorkKeptExactly
<1>1. CASE FindRoot \/ AddTree \/ AddFails
  BY <1>1 DEF FindRoot, AddTree, AddFails
<1>2. CASE UseTree \/ LeaveTree
  BY <1>2 DEF UseTree, LeaveTree
<1>3. CASE LateWrite
  BY <1>3 DEF LateWrite
<1>4. CASE Status \/ StatusRaises
  BY <1>4 DEF Status, StatusRaises, OnStatusError
<1>5. CASE Close
  BY <1>5 DEF Close
<1>6. CASE ProcessDies
  BY <1>6 DEF ProcessDies
<1>7. CASE UNCHANGED worktreeVars
  BY <1>7 DEF worktreeVars
<1> QED
  BY <1>1, <1>2, <1>3, <1>4, <1>5, <1>6, <1>7 DEF WorktreeNext

(* However git fails, whenever the process dies and whatever a tool thread *)
(* that outlived its call writes, worktree_session loses uncommitted work  *)
(* only in the race it cannot see: a tool that wrote between a status that *)
(* found the tree clean and its removal.  A session that ends leaves a     *)
(* directory behind only for work or after a failure of git or of rmtree.  *)
THEOREM WorkKept == WorktreeSpec => []WorkKeptExactly
<1>1. SessionInv => WorkKeptExactly
  BY DEF SessionInv
<1> QED BY <1>1, SessionStart, SessionStep, PTL DEF WorktreeSpec

-----------------------------------------------------------------------------
BugfixSpec == BugfixInit /\ [][BugfixNext]_bugfixVars

(* A tool that still runs belongs to a script that was cut off; a clean    *)
(* run that passed its last check has a fixed target and untouched tests.  *)
FixInv ==
  /\ thread \in {"none", "running"} /\ tests \in {"fixed", "modified"}
  /\ bpc = "initial" => thread = "none"
  /\ bpc \in {"initial", "agent", "verify"} => thread = "none"
  /\ thread = "running" => error = TRUE
  /\ bpc \in {"checked", "recorded"} /\ final = "pass" /\ error = FALSE =>
       target = "fixed" /\ tests = "fixed"
  /\ bpc # "recorded" => record = Unrecorded
  /\ CompletedIsVerified

(* The invariant of Bugfix holds at first. *)
LEMMA FixStart == BugfixInit => FixInv
BY DEF BugfixInit, FixInv, CompletedIsVerified, Unrecorded

(* Every step of a bug fix keeps its invariant. *)
LEMMA FixStep == FixInv /\ [BugfixNext]_bugfixVars => FixInv'
<1> SUFFICES ASSUME FixInv, [BugfixNext]_bugfixVars PROVE FixInv'
  OBVIOUS
<1> USE DEF FixInv, CompletedIsVerified, Unrecorded
<1>1. CASE Baseline
  BY <1>1 DEF Baseline, TestsAfter
<1>2. CASE UseTools \/ AgentReturns
  BY <1>2 DEF UseTools, AgentReturns, TestsAfter
<1>3. CASE ScriptVerify
  BY <1>3 DEF ScriptVerify, TestsAfter
<1>4. CASE ScriptEnds
  BY <1>4 DEF ScriptEnds
<1>5. CASE LateTool
  BY <1>5 DEF LateTool
<1>6. CASE FinalVerify
  <2>1. final' = "pass" => target = "fixed" /\ tests = "fixed" /\ tests' = "fixed"
    BY <1>6 DEF FinalVerify, TestRun, TestsAfter
  <2> QED BY <1>6, <2>1 DEF FinalVerify, TestsAfter
<1>7. CASE Record
  <2>1. record'.completed => /\ error = FALSE /\ final = "pass"
    BY <1>7 DEF Record, Completed
  <2>2. record'.patch = target
    BY <1>7 DEF Record
  <2> QED BY <1>7, <2>1, <2>2 DEF Record
<1>8. CASE UNCHANGED bugfixVars
  BY <1>8 DEF bugfixVars
<1> QED
  BY <1>1, <1>2, <1>3, <1>4, <1>5, <1>6, <1>7, <1>8 DEF BugfixNext

(* No rewriting of the target, no tool that outlives the cut-off and no    *)
(* tampering code makes run_arm record a completed fix that does not pass  *)
(* the original tests.                                                     *)
THEOREM FixVerified == BugfixSpec => []CompletedIsVerified
<1>1. FixInv => CompletedIsVerified
  BY DEF FixInv
<1> QED BY <1>1, FixStart, FixStep, PTL DEF BugfixSpec
=============================================================================
