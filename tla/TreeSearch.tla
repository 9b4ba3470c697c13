----------------------------- MODULE TreeSearch -----------------------------
(***************************************************************************)
(* The Coordinator of src/examples/patterns/tot_gan_pattern.py: beam       *)
(* search over a tree of thoughts, each thought scored and refined in      *)
(* rounds.  A thought is the path of child numbers that leads to it, the   *)
(* root the empty path.  A batch of siblings is scored one after the       *)
(* other: they share nothing, so their interleavings all end alike, and    *)
(* nothing reads the scores of a batch with a failed branch.  Scores are   *)
(* only compared, with each other and with zero, so integers stand for the *)
(* numbers of the code.                                                    *)
(***************************************************************************)
EXTENDS Orderings, SequencesExt

CONSTANTS MaxDepth,      \* max_depth
          BeamWidth,     \* beam_width
          MaxGanRounds,  \* max_gan_rounds
          Threshold,     \* score_threshold and gan_score_threshold, which
                         \* are equal unless the caller gives both
          TreeScores,    \* clamped scores a verdict may give
          MaxThoughts    \* bound: thoughts one expansion lists (8 in the code)

ASSUME TreeAssumption ==
  /\ MaxDepth \in Nat
  /\ BeamWidth \in Nat \ {0} /\ MaxGanRounds \in Nat \ {0}
  /\ Threshold \in Int /\ TreeScores \subseteq Int /\ MaxThoughts \in Nat

VARIABLES
  tpc,        \* expand, score, synthesize, returned, raised
  tries,      \* attempts at the first strategies
  nodes,      \* thought_tree: the thoughts in the order they were added
  score,      \* scored thought |-> its score
  beam,       \* active_beam
  parents,    \* of the batch: still to be expanded
  expanded,   \* history: every thought that was expanded
  siblings,   \* of the batch: all its children, in order
  todo,       \* of those, still to be scored
  scoring,    \* the thought scored last
  rounds,     \* its history: the scores of its rounds
  offered     \* thoughts shown to the synthesizer

treeVars == <<tpc, tries, nodes, score, beam, parents, expanded, siblings,
              todo, scoring, rounds, offered>>

Root == <<>>
NoVerdict == -1
ScoreOf(n) == IF n \in DOMAIN score THEN score[n] ELSE 0

(* sorted(..., reverse=True) is stable: equal scores keep their order. *)
Better(ids) ==
  {p \in (DOMAIN ids) \X (DOMAIN ids) :
     \/ ScoreOf(ids[p[1]]) > ScoreOf(ids[p[2]])
     \/ ScoreOf(ids[p[1]]) = ScoreOf(ids[p[2]]) /\ p[1] < p[2]}
ByScore(ids) == Arranged(ids, DOMAIN ids, Better(ids))
Top(ids, n) == SubSeq(ids, 1, IF Len(ids) < n THEN Len(ids) ELSE n)
Clears(ids) == Keep(ids, {i \in DOMAIN ids : ScoreOf(ids[i]) >= Threshold})

TreeInit ==
  /\ tpc = "expand" /\ tries = 1
  /\ nodes = <<Root>> /\ score = <<>>
  /\ beam = <<>> /\ parents = <<Root>> /\ expanded = {}
  /\ siblings = <<>> /\ todo = <<>> /\ scoring = Root /\ rounds = <<>>
  /\ offered = <<>>

(* _expand of the next parent lists some thoughts, perhaps none; the first *)
(* expansion is tried up to three times.                                   *)
Children(p, count) == [i \in 1..count |-> Append(p, i)]

Expand(count) ==
  /\ tpc = "expand" /\ parents # <<>>
  /\ LET p == Head(parents)
         new == Children(p, count)
         again == p = Root /\ count = 0 /\ tries < 3
     IN /\ nodes' = nodes \o new
        /\ siblings' = siblings \o new
        /\ parents' = IF again THEN parents ELSE Tail(parents)
        /\ tries' = IF again THEN tries + 1 ELSE tries
        /\ expanded' = expanded \cup {p}
  /\ UNCHANGED <<tpc, score, beam, todo, scoring, rounds, offered>>

StartScoring ==
  /\ tpc = "expand" /\ parents = <<>>
  /\ tpc' = "score" /\ todo' = siblings
  /\ UNCHANGED <<tries, nodes, score, beam, parents, expanded, siblings,
                 scoring, rounds, offered>>

(* What _score_and_refine keeps of its rounds: the best, not the last. *)
Kept_Last(rs) == rs[Len(rs)]
Kept(rs) == CHOOSE s \in ToSet(rs) : \A t \in ToSet(rs) : t <= s

(* One round: a verdict (a missing one scores 0), then the loop ends, with *)
(* the verdict, the threshold or the rounds, or the thought is refined.    *)
ScoreRound(verdict, terminate) ==
  LET s == IF verdict = NoVerdict THEN 0 ELSE verdict
      now == Head(todo)
      done == Append(IF scoring = now THEN rounds ELSE <<>>, s)
      ends == \/ verdict # NoVerdict /\ terminate
              \/ s >= Threshold
              \/ Len(done) >= MaxGanRounds
  IN
  /\ tpc = "score" /\ todo # <<>>
  /\ scoring' = now /\ rounds' = done
  /\ \/ /\ ends
        /\ score' = [n \in DOMAIN score \cup {now} |->
                       IF n = now THEN Kept(done) ELSE score[n]]
        /\ todo' = Tail(todo)
     \/ ~ends /\ UNCHANGED <<score, todo>>
  /\ UNCHANGED <<tpc, tries, nodes, beam, parents, expanded, siblings, offered>>

(* The batch is scored: the thoughts that clear the threshold are the next *)
(* beam, or the best strategies if no strategy does.  Exploration goes on  *)
(* with the best of the beam until the depth is reached or it is empty.    *)
Frontier_Unsorted(ids) == Top(ids, BeamWidth)
Frontier(ids) == Top(ByScore(ids), BeamWidth)
EndBatch ==
  LET first == siblings # <<>> /\ Len(siblings[1]) = 1
      clear == Clears(siblings)
      next == IF first /\ clear = <<>> THEN Top(ByScore(siblings), BeamWidth)
              ELSE clear
      depth == IF siblings = <<>> THEN 0 ELSE Len(siblings[1])
      on == next # <<>> /\ depth < MaxDepth
  IN
  /\ tpc = "score" /\ todo = <<>>
  /\ beam' = next
  /\ parents' = IF on THEN Frontier(next) ELSE <<>>
  /\ tpc' = IF on THEN "expand" ELSE "synthesize"
  /\ siblings' = <<>>
  /\ UNCHANGED <<tries, nodes, score, expanded, todo, scoring, rounds,
                 offered>>

(* The synthesizer is shown the ten best scored thoughts; without any, the *)
(* answer is a fixed text.                                                 *)
Scored == Keep(nodes, {i \in DOMAIN nodes : nodes[i] \in DOMAIN score})
SynthesizeBest ==
  /\ tpc = "synthesize" /\ tpc' = "returned"
  /\ offered' = Top(ByScore(Scored), 10)
  /\ UNCHANGED <<tries, nodes, score, beam, parents, expanded, siblings, todo,
                 scoring, rounds>>

(* A failed call fails its batch, and the batch the search. *)
TreeFails ==
  /\ \/ tpc = "expand" /\ parents # <<>>
     \/ tpc = "score" /\ todo # <<>>
     \/ tpc = "synthesize" /\ DOMAIN score # {}
  /\ tpc' = "raised"
  /\ UNCHANGED <<tries, nodes, score, beam, parents, expanded, siblings, todo,
                 scoring, rounds, offered>>

(* _best_path: from the root to the first thought of the highest score. *)
BestPath ==
  IF Scored = <<>> THEN <<Root>>
  ELSE LET best == ByScore(Scored)[1]
       IN [i \in 1..(Len(best) + 1) |-> SubSeq(best, 1, i - 1)]

TreeNext ==
  \/ \E count \in 0..MaxThoughts : Expand(count)
  \/ StartScoring
  \/ \E v \in TreeScores \cup {NoVerdict}, t \in BOOLEAN : ScoreRound(v, t)
  \/ EndBatch
  \/ SynthesizeBest
  \/ TreeFails

-----------------------------------------------------------------------------
(* A thought keeps the best of its rounds, and is refined only below the   *)
(* threshold; it is expanded before any worse thought of its depth, at     *)
(* most BeamWidth of a depth are, and below the strategies only those that *)
(* cleared the threshold; the answer is written with the end of the best   *)
(* path in view, and every thought on that path was expanded.  About       *)
(* Coordinator._score_and_refine, _initialize, _explore, _synthesize and   *)
(* _best_path.                                                             *)
TreeSound ==
  LET at(d) == {n \in expanded : Len(n) = d}
      last == scoring \in DOMAIN score
  IN
  /\ \A i \in DOMAIN rounds :
       /\ last => rounds[i] <= score[scoring]
       /\ (last => i < Len(rounds)) => rounds[i] < Threshold
  /\ \A d \in 1..MaxDepth : Cardinality(at(d)) <= BeamWidth
  /\ at(MaxDepth) \subseteq {Root}
  /\ \A n \in expanded \ {Root} :
       /\ n \in DOMAIN score /\ (Len(n) > 1 => ScoreOf(n) >= Threshold)
       /\ tpc = "returned" =>
            \A m \in DOMAIN score \ expanded :
              Len(m) = Len(n) => ScoreOf(m) <= ScoreOf(n)
  /\ tpc = "returned" /\ offered # <<>> =>
       /\ BestPath[Len(BestPath)] = offered[1]
       /\ ToSet(Front(BestPath)) \subseteq expanded
=============================================================================
