------------------------------ MODULE Verdicts ------------------------------
(***************************************************************************)
(* How answers are compared: the blind judge of src/evals/judge.py, the    *)
(* panel of src/evals/evidence_eval.py and src/evals/evidence_ablation.py, *)
(* and what src/evals/evidence_analysis.py counts as known.                *)
(* A judge sees the two answers as A and B, then swapped.                  *)
(***************************************************************************)
EXTENDS Integers, Sequences, FiniteSets

CONSTANTS Judges,     \* the panel
          Families,   \* families a judge's model may turn out to be of
          Declared,   \* judge |-> its declared family
          Repeats     \* comparisons of one task

ASSUME VerdictsAssumption == /\ Declared \in [Judges -> Families]
                             /\ IsFiniteSet(Judges)
                             /\ Cardinality(Judges) >= 2 /\ Repeats \in Nat

VARIABLES
  vpc,         \* calibrate, judge, done; blind, raised
  calibrated,  \* judge |-> passed its calibration
  family,      \* judge |-> verified family, or "None"
  said,        \* judge |-> its two verdicts in the comparison, <<>> before
  comparison,  \* [status, winner] of the last comparison
  known,       \* winners of the valid comparisons of the task
  unknown,     \* number of the others
  attempt,     \* blind judge: attempts at the order it is in
  heard,       \* blind judge: positions it named so far
  letters,     \* history: the blind judge's verdicts so far
  tally        \* blind judge: wins, losses and ties of the engine

verdictVars == <<vpc, calibrated, family, said, comparison, known, unknown,
                 attempt, heard, letters, tally>>

Letters == {"A", "B", "tie"}
Said == Letters \cup {"abstain"}

(* A verdict in the first and in the swapped order names a side. *)
First(v) == CASE v = "A" -> "candidate" [] v = "B" -> "baseline" [] OTHER -> v
Second_NotSwapped(v) == First(v)
Second(v) == CASE v = "A" -> "baseline" [] v = "B" -> "candidate" [] OTHER -> v

(* compare_answers; a judge that failed or answered what is no verdict is  *)
(* a measurement that failed.                                              *)
Result(pair) ==
  IF pair = <<"failed">> THEN [status |-> "measurement_failed", winner |-> "None"]
  ELSE IF "abstain" \in {pair[1], pair[2]}
  THEN [status |-> "abstained", winner |-> "None"]
  ELSE IF First(pair[1]) = Second(pair[2])
  THEN [status |-> "valid", winner |-> First(pair[1])]
  ELSE [status |-> "position_disagreement", winner |-> "None"]
Pairs == (Said \X Said) \cup {<<"failed">>}

NoWinner(status) == [status |-> status, winner |-> "None"]
AggregateJudges(results, passed, families) ==
  LET winners == {results[j].winner : j \in Judges} IN
  IF \E j \in Judges : ~passed[j] THEN NoWinner("uncalibrated")
  ELSE IF \/ \E j \in Judges : families[j] = "None"
          \/ Cardinality({families[j] : j \in Judges}) # Cardinality(Judges)
  THEN NoWinner("independence_unverified")
  ELSE IF \E j \in Judges : results[j].status # "valid"
  THEN NoWinner("inconclusive")
  ELSE IF Cardinality(winners) # 1 THEN NoWinner("judge_disagreement")
  ELSE [status |-> "valid", winner |-> CHOOSE w \in winners : TRUE]

VerdictsInit ==
  /\ vpc \in {"calibrate", "blind"}
  /\ calibrated = <<>> /\ family = <<>> /\ said = <<>>
  /\ comparison = NoWinner("none") /\ known = <<>> /\ unknown = 0
  /\ attempt = 1 /\ heard = <<>> /\ letters = {}
  /\ tally = [engine |-> 0, baseline |-> 0, tie |-> 0]

Put(f, x, v) == [y \in DOMAIN f \cup {x} |-> IF y = x THEN v ELSE f[y]]

(* A judge passes if it prefers, in both orders, the sound answer; its     *)
(* recorded model must be of the declared family.                          *)
Calibrate(j, pair, observed) ==
  /\ vpc = "calibrate" /\ j \notin DOMAIN calibrated
  /\ calibrated' = Put(calibrated, j, Result(pair).winner = "candidate")
  /\ family' = Put(family, j, IF observed = Declared[j] THEN observed ELSE "None")
  /\ vpc' = IF DOMAIN calibrated' = Judges THEN "judge" ELSE vpc
  /\ UNCHANGED <<said, comparison, known, unknown, attempt, heard, letters, tally>>

Judge(j, pair) ==
  /\ vpc = "judge" /\ j \notin DOMAIN said
  /\ said' = Put(said, j, pair)
  /\ UNCHANGED <<vpc, calibrated, family, comparison, known, unknown, attempt,
                 heard, letters, tally>>

(* All judges are heard: the comparison is aggregated, the families being  *)
(* those recorded in calibration and now.  Generation may have failed, or  *)
(* an answer may not be grounded.                                          *)
Compare(observed, sound) ==
  LET now == [j \in Judges |-> IF observed[j] = family[j] THEN family[j]
                               ELSE "None"]
      c == IF sound # "sound" THEN NoWinner(sound)
           ELSE AggregateJudges([j \in Judges |-> Result(said[j])],
                                calibrated, now)
  IN
  /\ vpc = "judge" /\ DOMAIN said = Judges
  /\ comparison' = c
  /\ IF c.status = "valid"
     THEN known' = Append(known, c.winner) /\ UNCHANGED unknown
     ELSE unknown' = unknown + 1 /\ UNCHANGED known
  /\ vpc' = IF Len(known') + unknown' = Repeats THEN "done" ELSE "next"
  /\ UNCHANGED <<calibrated, family, said, attempt, heard, letters, tally>>
NextRepeat ==
  /\ vpc = "next" /\ vpc' = "judge" /\ said' = <<>>
  /\ UNCHANGED <<calibrated, family, comparison, known, unknown, attempt,
                 heard, letters, tally>>

(* BlindJudge: an order is asked anew when no verdict can be parsed, three *)
(* times in all; orders that disagree make a tie.                          *)
BlindVerdict(v) ==
  /\ vpc = "blind" /\ tally.engine + tally.baseline + tally.tie < Repeats
  /\ IF v = "failed"
     THEN /\ vpc' = IF attempt = 3 THEN "raised" ELSE vpc
          /\ attempt' = attempt + 1
          /\ UNCHANGED <<heard, letters, tally>>
     ELSE /\ attempt' = 1 /\ letters' = letters \cup {v} /\ UNCHANGED vpc
          /\ IF heard = <<>> THEN heard' = <<v>> /\ UNCHANGED tally
             ELSE LET w == IF First(heard[1]) = Second(v) THEN First(heard[1])
                           ELSE "tie"
                      k == IF w = "candidate" THEN "engine" ELSE w
                  IN tally' = [tally EXCEPT ![k] = @ + 1] /\ heard' = <<>>
  /\ UNCHANGED <<calibrated, family, said, comparison, known, unknown>>

VerdictsNext ==
  \/ \E j \in Judges, p \in Pairs, f \in Families : Calibrate(j, p, f)
  \/ \E j \in Judges, p \in Pairs : Judge(j, p)
  \/ \E o \in [Judges -> Families],
        s \in {"sound", "generation_failed", "grounding_failed"} : Compare(o, s)
  \/ NextRepeat
  \/ \E v \in Letters \cup {"failed"} : BlindVerdict(v)

-----------------------------------------------------------------------------
(* A side wins a comparison only if every judge named it in both orders,   *)
(* had passed calibration and was of a family of its own: a judge that     *)
(* always prefers the first answer, or the second, makes no winner here    *)
(* nor in the blind judge's tally, and what could not be measured counts   *)
(* as unknown, not as a tie.  About compare_answers, aggregate_judges,     *)
(* evidence_ablation.run, evidence_analysis.analyze and BlindJudge.compare.*)
PanelHonest ==
  /\ vpc \in {"next", "done"} /\ comparison.status = "valid" =>
       \A j \in Judges :
         /\ calibrated[j] /\ family[j] = Declared[j]
         /\ \A i \in Judges \ {j} : family[i] # family[j]
         /\ said[j] = CASE comparison.winner = "candidate" -> <<"A", "B">>
                        [] comparison.winner = "baseline" -> <<"B", "A">>
                        [] comparison.winner = "tie" -> <<"tie", "tie">>
  /\ letters \in {{"A"}, {"B"}} => tally.engine = 0 /\ tally.baseline = 0
  /\ vpc = "done" => Len(known) + unknown = Repeats
=============================================================================
