----------------------------- MODULE Selection -----------------------------
(***************************************************************************)
(* Which answer of a trajectory is submitted: the policies of              *)
(* src/examples/patterns/self_refine_pattern.py, the rules of              *)
(* src/evals/selection_rules.py on saved answers, the model's own pick in  *)
(* src/evals/selection_study.py, the sampling arms of                      *)
(* src/evals/meta_ablation.py and the claim-weighted consensus of          *)
(* src/examples/patterns/claim_falsification_pattern.py.  An answer is its *)
(* text without fence and blanks; a parser gives its prediction, or fails. *)
(***************************************************************************)
EXTENDS Integers, Sequences, SequencesExt, FiniteSets, FiniteSetsExt

CONSTANTS Texts,      \* stripped answer texts
          KeyOf,      \* text |-> prediction_key, or Unparsed
          Unparsed,   \* ValueError
          Worth,     \* feasible prediction |-> its total reward
          MaxSteps,   \* steps of the trajectory, samples of the consensus
          Survivals   \* numbers of surviving claims, of ClaimCount
ClaimCount == 5

ASSUME SelectionAssumption == MaxSteps \in Nat \ {0}
                              /\ Survivals \subseteq 0..ClaimCount

VARIABLES
  selpc,       \* generate, assess, pick, selected
  answers,   \* the trajectory
  converged, \* answers when policy "convergence" stopped, 0 before
  survived,  \* surviving claims of each answer
  picked     \* llm_pick: an index, or 0 for None

selectionVars == <<selpc, answers, converged, survived, picked>>

Key(as, i) == KeyOf[as[i]]
Parsed(as) == {i \in DOMAIN as : Key(as, i) # Unparsed}
Count(as, i) == Cardinality({j \in DOMAIN as : Key(as, j) = Key(as, i)})
FirstOf(as, i) == Min({j \in DOMAIN as : Key(as, j) = Key(as, i)})
LatestOf(as, i) == Max({j \in DOMAIN as : Key(as, j) = Key(as, i)})

(* The rules give an index, 0 for None. *)
PluralityIndex_First(as) ==
  LET most == {i \in Parsed(as) : \A j \in Parsed(as) : Count(as, j) <= Count(as, i)}
  IN IF most = {} THEN 0 ELSE LatestOf(as, Min(most))
PluralityIndex(as) ==
  LET most == {i \in Parsed(as) :
                 \A j \in Parsed(as) : Count(as, j) <= Count(as, i)}
  IN IF most = {} THEN 0 ELSE Max({LatestOf(as, i) : i \in most})
ConvergenceIndex(as) ==
  LET confirmed == {i \in Parsed(as) : i > 1 /\ Key(as, i) = Key(as, i - 1)}
  IN IF confirmed # {} THEN Min(confirmed)
     ELSE IF Parsed(as) # {} THEN Max(Parsed(as)) ELSE 0
CheckerIndex(as) ==
  LET ok == {i \in Parsed(as) : Key(as, i) \in DOMAIN Worth}
      best == {i \in ok : \A j \in ok : Worth[Key(as, j)] <= Worth[Key(as, i)]}
  IN IF ok = {} THEN 0 ELSE Max(best)

(* select_candidate: equivalent answers sum the reliability of their       *)
(* claims, here in units of 1/ClaimCount^ClaimCount; the prediction of the *)
(* largest support, of several the first, gives its first answer.          *)
Reliability(n) == n * n * n * n * n   \* n ^ ClaimCount
Total(w, n) ==
  LET sum[k \in 0..n] == IF k = 0 THEN 0 ELSE sum[k - 1] + w[k] IN sum[n]
Support(as, sv, i) ==
  Total([j \in DOMAIN as |-> IF Key(as, j) = Key(as, i)
                             THEN Reliability(sv[j]) ELSE 0], Len(as))
Favoured(as, sv) == {i \in Parsed(as) : \A j \in Parsed(as) :
                                   Support(as, sv, j) <= Support(as, sv, i)}
SelectCandidate_Latest(as, sv) ==
  IF Parsed(as) = {} THEN 0 ELSE Max(Favoured(as, sv))
SelectCandidate(as, sv) ==
  IF Parsed(as) = {} THEN 0 ELSE FirstOf(as, Min(Favoured(as, sv)))

(* The unweighted consensus: every claim survives. *)
Consensus(as) == SelectCandidate(as, [i \in DOMAIN as |-> ClaimCount])

SelectionInit ==
  /\ selpc = "generate" /\ answers = <<>> /\ converged = 0
  /\ survived = <<>> /\ picked = 0

(* The next refinement step.  The policy "convergence" stops when a text   *)
(* repeats; the saved trajectory of the studies goes on.                   *)
Answer(t) ==
  /\ selpc = "generate"
  /\ answers' = Append(answers, t)
  /\ converged' = IF converged = 0 /\ answers # <<>> /\ Last(answers) = t
                  THEN Len(answers') ELSE converged
  /\ selpc' = IF Len(answers') = MaxSteps THEN "assess" ELSE selpc
  /\ UNCHANGED <<survived, picked>>

(* The claims of the next answer are assessed: n of them survive. *)
AssessClaims(n) ==
  /\ selpc = "assess"
  /\ survived' = Append(survived, n)
  /\ selpc' = IF Len(survived') = Len(answers) THEN "pick" ELSE selpc
  /\ UNCHANGED <<answers, converged, picked>>

(* llm_pick: with several distinct predictions the model chooses, or gives *)
(* no valid choice.                                                        *)
Distinct == {FirstOf(answers, i) : i \in Parsed(answers)}
LlmPick(i) ==
  /\ selpc = "pick" /\ selpc' = "selected"
  /\ IF Cardinality(Distinct) = 1 THEN i \in Distinct
     ELSE i \in Distinct \cup {0}
  /\ picked' = i
  /\ UNCHANGED <<answers, converged, survived>>

SelectionNext ==
  \/ \E t \in Texts : Answer(t)
  \/ \E n \in Survivals : AssessClaims(n)
  \/ \E i \in 0..MaxSteps : LlmPick(i)

-----------------------------------------------------------------------------
(* A rule answers None only when nothing it accepts was said; the          *)
(* plurality's prediction is said most often, and of equals latest; the    *)
(* offline convergence index needs no answer that follows it, and never    *)
(* lies after the answer where the online engine stopped, if that one      *)
(* parses: stopping early costs no step the rule would have saved.  About  *)
(* plurality_index, convergence_index and SelfRefineEngine.run.            *)
RulesDeployable ==
  LET p == PluralityIndex(answers)
      c == ConvergenceIndex(answers)
      confirmed == c > 1 /\ Key(answers, c) = Key(answers, c - 1)
      n == converged
  IN selpc = "selected" =>
       /\ 0 \in {p, c} => Parsed(answers) = {} /\ picked = 0
       /\ \A i \in Parsed(answers) :
            \/ Count(answers, i) < Count(answers, p)
            \/ Count(answers, i) = Count(answers, p) /\ i <= p
       /\ confirmed => ConvergenceIndex(SubSeq(answers, 1, c)) = c
       /\ n # 0 /\ n \in Parsed(answers) => confirmed /\ c <= n

(* Refuting another claim of an answer with another prediction, or letting *)
(* another claim of the selected prediction survive, never unseats the     *)
(* selection; with no claim refuted the selection is the earliest answer   *)
(* of a most frequent prediction.  About select_candidate.                 *)
ClaimsMonotone ==
  LET w == SelectCandidate(answers, survived)
      same(j) == Key(answers, j) = Key(answers, w)
      u == Consensus(answers)
  IN selpc = "selected" /\ w # 0 =>
       /\ \A j \in DOMAIN answers, n \in Survivals :
            (n > survived[j]) = same(j) =>
              SelectCandidate(answers, [survived EXCEPT ![j] = n]) = w
       /\ u = FirstOf(answers, u)
       /\ \A i \in Parsed(answers) : Count(answers, i) <= Count(answers, u)
=============================================================================
