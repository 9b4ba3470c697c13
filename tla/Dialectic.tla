------------------------------ MODULE Dialectic ------------------------------
(***************************************************************************)
(* DialecticEngine of src/examples/patterns/dialectic_pattern.py with the  *)
(* scoring of src/examples/patterns/_scoring.py: a thesis is opposed, a    *)
(* synthesis replaces it while it scores strictly better.  A text is known *)
(* by its place in the history and its score; what a model's verdict holds *)
(* besides the score does not matter here.                                 *)
(***************************************************************************)
EXTENDS Integers, Sequences, FiniteSets

CONSTANTS MaxRounds,      \* the max_rounds argument
          Perspectives,   \* rivals per round, at least 1
          RawScores,      \* scores a model may write, in or out of range
          TopScore        \* the 10 of the scale

ASSUME DialecticAssumption ==
  MaxRounds \in Int /\ Perspectives \in Nat \ {0} /\ TopScore \in Nat
  /\ RawScores \subseteq Int

VARIABLES
  dpc,        \* tension, thesis, score, oppose, synthesize, rate, returned,
              \* raised
  needed,     \* the tension names a real contradiction
  round,      \* the round under way, 0 before the first
  thesis,     \* [at: round that made it, score] of the current thesis
  rivals,     \* antitheses of the round under way
  prior,      \* antitheses of all rounds: [round, number]
  dhistory,   \* what run reports: [role, round, score]
  scored      \* observed: calls of the discriminator

dialecticVars == <<dpc, needed, round, thesis, rivals, prior, dhistory, scored>>

NoScore == -1

(* clamp_score: no verdict scores 0, any other is put into the range. *)
ClampScore(verdict) ==
  CASE verdict = NoScore -> 0
    [] verdict > TopScore -> TopScore
    [] verdict < 0 -> 0
    [] OTHER -> verdict

Drafts(role, n, count) ==
  [i \in 1..count |-> [role |-> role, round |-> n, score |-> NoScore]]

DialecticInit ==
  /\ dpc = "tension" /\ needed = "unknown" /\ round = 0
  /\ thesis = [at |-> 0, score |-> NoScore]
  /\ rivals = 0 /\ prior = <<>> /\ dhistory = <<>> /\ scored = 0

(* "NONE" means that there is no tension to work on. *)
IdentifyTension ==
  /\ dpc = "tension"
  /\ needed' \in {"yes", "no"}
  /\ dpc' = "thesis"
  /\ UNCHANGED <<round, thesis, rivals, prior, dhistory, scored>>

(* The thesis; without a tension it is returned unscored. *)
WriteThesis ==
  /\ dpc = "thesis"
  /\ dpc' = IF needed = "no" THEN "returned" ELSE "score"
  /\ dhistory' = IF needed = "no"
                 THEN Drafts("tension", 0, 1) \o Drafts("thesis", 0, 1)
                 ELSE dhistory
  /\ UNCHANGED <<needed, round, thesis, rivals, prior, scored>>

ScoreThesis(verdict) ==
  /\ dpc = "score"
  /\ scored' = scored + 1
  /\ thesis' = [thesis EXCEPT !.score = ClampScore(verdict)]
  /\ dhistory' = Drafts("tension", 0, 1) \o
       <<[role |-> "thesis", round |-> 0, score |-> thesis'.score]>>
  /\ dpc' = IF MaxRounds >= 1 THEN "oppose" ELSE "returned"
  /\ round' = IF MaxRounds >= 1 THEN 1 ELSE 0
  /\ UNCHANGED <<needed, rivals, prior>>

(* Up to Perspectives rivals, none of them among the earlier ones. *)
Oppose(count) ==
  /\ dpc = "oppose"
  /\ rivals' = count
  /\ prior' = prior \o Drafts("antithesis", round, count)
  /\ dpc' = "synthesize"
  /\ UNCHANGED <<needed, round, thesis, dhistory, scored>>

(* The only rival is "EXHAUSTED". *)
OpposeExhausted ==
  /\ dpc = "oppose"
  /\ dpc' = "returned"
  /\ UNCHANGED <<needed, round, thesis, rivals, prior, dhistory, scored>>

Synthesize ==
  /\ dpc = "synthesize"
  /\ dpc' = "rate"
  /\ UNCHANGED <<needed, round, thesis, rivals, prior, dhistory, scored>>

Surpasses_OrEqual(score) == score >= thesis.score
Surpasses(score) == score > thesis.score

RateSynthesis(verdict) ==
  LET score == ClampScore(verdict) IN
  /\ dpc = "rate"
  /\ scored' = scored + 1
  /\ dhistory' = dhistory \o Drafts("antithesis", round, rivals) \o
       <<[role |-> "synthesis", round |-> round, score |-> score]>>
  /\ thesis' = IF Surpasses(score) THEN [at |-> round, score |-> score]
               ELSE thesis
  /\ IF Surpasses(score) /\ round < MaxRounds
     THEN dpc' = "oppose" /\ round' = round + 1
     ELSE dpc' = "returned" /\ UNCHANGED round
  /\ UNCHANGED <<needed, rivals, prior>>

DialecticRaises ==
  /\ dpc \notin {"returned", "raised"}
  /\ dpc' = "raised"
  /\ UNCHANGED <<needed, round, thesis, rivals, prior, dhistory, scored>>

DialecticNext ==
  \/ IdentifyTension \/ WriteThesis \/ Synthesize \/ OpposeExhausted
  \/ \E count \in 1..Perspectives : Oppose(count)
  \/ \E verdict \in RawScores \cup {NoScore} :
       ScoreThesis(verdict) \/ RateSynthesis(verdict)
  \/ DialecticRaises

-----------------------------------------------------------------------------
Antitheses == {i \in DOMAIN dhistory : dhistory[i].role = "antithesis"}
ScoredTexts == {i \in DOMAIN dhistory : dhistory[i].role # "tension"
                                        /\ dhistory[i].role # "antithesis"}

(* The answer of a dialectic is the best text it ever scored, and the      *)
(* earliest of equals; each thesis beats the one before it, so only the    *)
(* last synthesis may have failed to; every rival of a finished round is   *)
(* in the report, and a problem without a tension is answered without a    *)
(* single verdict (run of DialecticEngine).                                *)
DialecticBest ==
  dpc = "returned" =>
    /\ needed = "no" => scored = 0 /\ Len(dhistory) = 2
    /\ needed = "yes" =>
         /\ \A i \in ScoredTexts :
              /\ dhistory[i].score <= thesis.score
              /\ dhistory[i].round < thesis.at =>
                   dhistory[i].score < thesis.score
              /\ dhistory[i].score >= 0 /\ dhistory[i].score <= TopScore
         /\ dhistory[Len(dhistory)].round <= thesis.at + 1
         /\ Len(prior) = Cardinality(Antitheses)
=============================================================================
