------------------------------ MODULE Ensemble ------------------------------
(***************************************************************************)
(* EnsembleSearchEngine of src/examples/patterns/ensemble_pattern.py:      *)
(* adaptive search over a roster of models.  A step goes wider (a fresh    *)
(* candidate) or deeper (refine the best with the model that made it), as  *)
(* an injected policy says; the policy may say anything of its types.      *)
(* Scores are integers in units of which One make the 1.0 of the code; a   *)
(* candidate is its score, its model, its action and its parent.           *)
(***************************************************************************)
EXTENDS Integers, Sequences, FiniteSets

CONSTANTS Roster,       \* number of model arms
          MaxCalls,     \* the max_calls argument
          One,          \* the units of 1.0
          Solved,       \* solved_score
          Scores        \* what the scorer may return

ASSUME EnsembleAssumption ==
  Roster \in Nat \ {0} /\ MaxCalls \in Int /\ One \in Nat \ {0}
  /\ Solved \in Int /\ Scores \subseteq Int

VARIABLES
  epc,          \* run, returned, raised
  cands,        \* the candidates: [score, model, action, parent, failed]
  best,         \* index of the best candidate, 0 before the first
  modelArms,    \* per model arm: [alpha, beta], in units
  actionArms    \* for "wider" and "deeper" too

ensembleVars == <<epc, cands, best, modelArms, actionArms>>

Arms == 1..Roster
Prior == [alpha |-> One, beta |-> One]

EnsembleInit ==
  /\ epc = "run" /\ cands = <<>> /\ best = 0
  /\ modelArms = [m \in Arms |-> Prior]
  /\ actionArms = [x \in {"wider", "deeper"} |-> Prior]

Clamp(n, lo, hi) == IF n < lo THEN lo ELSE IF n > hi THEN hi ELSE n

(* The loop goes on below max_calls until a candidate has solved it. *)
Searching == /\ Len(cands) < (IF MaxCalls < 1 THEN 1 ELSE MaxCalls)
             /\ best # 0 => cands[best].score < Solved

(* Deeper needs a best candidate and goes to the arm that made it. *)
Moves == {[action |-> "wider", model |-> m] : m \in Arms}
         \cup IF best = 0 THEN {}
              ELSE {[action |-> "deeper", model |-> cands[best].model]}

Reward_Raw(score) == IF best = 0 THEN One ELSE score - cands[best].score
Reward(score) ==
  IF best = 0 THEN One ELSE Clamp(score - cands[best].score, 0, One)

Evidence(arm, reward) ==
  [alpha |-> arm.alpha + reward, beta |-> arm.beta + One - reward]

Improves_OrEqual(score) == best = 0 \/ score >= cands[best].score
Improves(score) == best = 0 \/ score > cands[best].score

(* One call: a model that raises (no budget included) is a candidate of    *)
(* score 0; the evidence goes to the action and to the model.              *)
Step(move, score, failed) ==
  /\ epc = "run" /\ Searching
  /\ cands' = Append(cands, [score |-> score, model |-> move.model,
                             action |-> move.action, parent |-> best,
                             failed |-> failed])
  /\ modelArms' = [modelArms EXCEPT ![move.model] = Evidence(@, Reward(score))]
  /\ actionArms' = [actionArms EXCEPT ![move.action] =
                      Evidence(@, Reward(score))]
  /\ best' = IF Improves(score) THEN Len(cands) + 1 ELSE best
  /\ UNCHANGED epc

(* A scorer that raises is the caller's bug and surfaces; so does          *)
(* cancellation.                                                           *)
ScorerRaises ==
  /\ epc = "run" /\ Searching
  /\ epc' = "raised"
  /\ UNCHANGED <<cands, best, modelArms, actionArms>>

Return ==
  /\ epc = "run" /\ ~Searching
  /\ epc' = "returned"
  /\ UNCHANGED <<cands, best, modelArms, actionArms>>

Passed == best # 0 /\ cands[best].score >= Solved

EnsembleNext ==
  \/ \E move \in Moves :
       \/ Step(move, 0, "yes")
       \/ \E score \in Scores : Step(move, score, "no")
  \/ ScorerRaises
  \/ Return

-----------------------------------------------------------------------------
Added(arm) == arm.alpha + arm.beta - 2 * One
AnsweredBy(m) == {i \in DOMAIN cands : cands[i].model = m}
MovedBy(x) == {i \in DOMAIN cands : cands[i].action = x}

(* The search ends with the earliest of the best candidates, passed tells  *)
(* exactly whether any candidate reached the solved score, and no call was *)
(* spent after one did; each deeper move refined what was best before it,  *)
(* with the model that had made it; and every call adds exactly 1.0 to the *)
(* arm of the model that answered it and to the arm of its action, none of *)
(* which falls below its prior, so the bandit's Beta parameters stay       *)
(* positive (the loop of run).                                             *)
EnsembleBest ==
  /\ epc = "returned" =>
       /\ Len(cands) > 0
       /\ Passed <=> \E i \in DOMAIN cands : cands[i].score >= Solved
  /\ \A i \in DOMAIN cands :
       /\ cands[i].score <= cands[best].score
       /\ i < best => cands[i].score < cands[best].score
       /\ cands[i].score >= Solved => i = Len(cands)
       /\ cands[i].action = "deeper" =>
            /\ cands[i].parent \in 1..(i - 1)
            /\ cands[i].model = cands[cands[i].parent].model
            /\ \A j \in 1..(i - 1) :
                 cands[j].score <= cands[cands[i].parent].score
  /\ \A m \in Arms :
       /\ Added(modelArms[m]) = Cardinality(AnsweredBy(m)) * One
       /\ modelArms[m].alpha >= One /\ modelArms[m].beta >= One
  /\ \A x \in DOMAIN actionArms :
       /\ Added(actionArms[x]) = Cardinality(MovedBy(x)) * One
       /\ actionArms[x].alpha >= One /\ actionArms[x].beta >= One
=============================================================================
