------------------------------- MODULE Stages -------------------------------
(***************************************************************************)
(* The staged workflows: ReflectionEngine of                               *)
(* src/examples/patterns/reflection_pattern.py in its two forms (prior     *)
(* outputs inlined, or named by access lists), and the adversarial and     *)
(* dialectic modes of src/examples/patterns/quality_workflow_pattern.py.   *)
(* A text is named by the label of the call that wrote it; a call is       *)
(* observed by the labels of the texts its prompt shows.  The calls of one *)
(* stage share a batch whose failure is raised when all have settled.      *)
(***************************************************************************)
EXTENDS Orderings, SequencesExt

CONSTANTS Angles,      \* the angles, a sequence without repetition
          StageModes   \* a subset of {"inline","access","adversarial","dialectic"}

ASSUME StagesAssumption ==
  /\ Len(Angles) \in Nat /\ IsInjective(Angles)
  /\ StageModes \subseteq {"inline", "access", "adversarial", "dialectic"}

VARIABLES
  smode,      \* the form of this execution
  spc,        \* gather, frame, critique, rival, thesis, antithesis, synth,
              \* returned, raised
  batch,      \* outcome of each call of the stage's batch so far
  outputs,    \* labels in step_outputs: what sees= can name
  findings,   \* gather labels with a nonempty text, in the order of angles
  critiques,  \* critique labels with a nonempty text, in order
  trace,      \* the report's history: labels in order
  shown       \* observed: label of a call |-> labels its prompt shows

stagesVars == <<smode, spc, batch, outputs, findings, critiques, trace, shown>>

G(i) == <<"g", i>>
C(i) == <<"c", i>>
Solo(name) == <<name, 0>>

Indices(s) == 1..Len(s)

StagesInit ==
  /\ smode \in StageModes
  /\ spc = IF smode = "dialectic" THEN "frame" ELSE "gather"
  /\ batch = <<>> /\ outputs = {} /\ findings = <<>> /\ critiques = <<>>
  /\ trace = <<>> /\ shown = <<>>

Asked(label, texts) == shown' = [l \in DOMAIN shown \cup {label} |->
                                   IF l = label THEN texts ELSE shown[l]]

(* What an access list brings: labels with an output; others are skipped. *)
Sees(labels) == labels \cap outputs

-----------------------------------------------------------------------------
(* A batch: every call ends with a text, an empty text or a failure; the   *)
(* batch is over when all have, and raises if one failed.                  *)
Batch == IF spc = "gather" THEN [i \in Indices(Angles) |-> G(i)]
         ELSE [i \in Indices(findings) |-> C(i)]

(* Critique i is about the i-th finding that survived the gather stage. *)
Criticised_ByAngle(i) == G(i)
Criticised(i) == findings[i]

PromptOf(i) ==
  IF spc = "gather" THEN {}
  ELSE IF smode = "access" THEN Sees({Criticised(i)}) ELSE {Criticised(i)}

CallEnds(i, outcome) ==
  /\ spc \in {"gather", "critique"}
  /\ i \in Indices(Batch) /\ i \notin DOMAIN batch
  /\ batch' = [j \in DOMAIN batch \cup {i} |->
                 IF j = i THEN outcome ELSE batch[j]]
  /\ outputs' = IF outcome = "failed" THEN outputs ELSE outputs \cup {Batch[i]}
  /\ Asked(Batch[i], PromptOf(i))
  /\ UNCHANGED <<smode, spc, findings, critiques, trace>>

Settled == Indices(Batch) \subseteq DOMAIN batch
BatchFailed == \E i \in DOMAIN batch : batch[i] = "failed"

(* Empty texts are dropped, the others keep their order. *)
Nonempty == Keep(Batch, {i \in DOMAIN batch : batch[i] = "text"})

BatchSettles ==
  /\ spc \in {"gather", "critique"} /\ Settled
  /\ IF BatchFailed
     THEN spc' = "raised" /\ UNCHANGED <<findings, critiques, trace>>
     ELSE /\ trace' = trace \o Nonempty
          /\ IF spc = "gather"
             THEN spc' = "frame" /\ findings' = Nonempty
                  /\ UNCHANGED critiques
             ELSE /\ spc' = IF smode = "adversarial" THEN "rival" ELSE "synth"
                  /\ critiques' = Nonempty /\ UNCHANGED findings
  /\ batch' = <<>>
  /\ UNCHANGED <<smode, outputs, shown>>

-----------------------------------------------------------------------------
(* The single calls. *)

Single(at, label, texts, to) ==
  /\ spc = at
  /\ spc' = to
  /\ outputs' = outputs \cup {Solo(label)}
  /\ trace' = Append(trace, Solo(label))
  /\ Asked(Solo(label), texts)
  /\ UNCHANGED <<smode, batch, findings, critiques>>

Frame == /\ smode # "dialectic"
         /\ Single("frame", "tension", {}, "critique")

Rival == Single("rival", "rival", {Solo("tension")}, "synth")

(* "NONE": the thesis is the answer. *)
Tension == /\ smode = "dialectic"
           /\ \E to \in {"thesis", "direct"} : Single("frame", "tension", {}, to)
Thesis == Single("thesis", "thesis", {}, "antithesis")
DirectThesis == Single("direct", "thesis", {}, "returned")
Antithesis == Single("antithesis", "antithesis",
                     {Solo("thesis"), Solo("tension")}, "synth")

SynthesisShows ==
  CASE smode = "access" ->
         Sees({Solo("tension")} \cup ToSet(critiques))
    [] smode = "inline" ->
         {Solo("tension")} \cup ToSet(findings) \cup ToSet(critiques)
    [] smode = "adversarial" ->
         {Solo("tension"), Solo("rival")} \cup ToSet(findings)
           \cup ToSet(critiques)
    [] OTHER -> {Solo("tension"), Solo("thesis"), Solo("antithesis")}

Synth == Single("synth", "synth", SynthesisShows, "returned")

StageRaises ==
  /\ spc \notin {"gather", "critique", "returned", "raised"}
  /\ spc' = "raised"
  /\ UNCHANGED <<smode, batch, outputs, findings, critiques, trace, shown>>

StagesNext ==
  \/ \E i \in Indices(Batch), outcome \in {"text", "empty", "failed"} :
       CallEnds(i, outcome)
  \/ BatchSettles \/ Frame \/ Rival \/ Tension \/ Thesis \/ DirectThesis
  \/ Antithesis \/ Synth \/ StageRaises

-----------------------------------------------------------------------------
(* Nothing is lost or mixed up between the stages, although calls settle   *)
(* in any order and empty answers shift the positions of later ones: each  *)
(* critique shows exactly one nonempty analysis, different critiques show  *)
(* different ones, the synthesis shows the tension and every nonempty      *)
(* critique, the report lists what was passed on, nothing of it twice, and *)
(* no text of a batch with a failure is used (run of the engines).         *)
Asking(kind) == {l \in DOMAIN shown : l[1] = kind}

StagesInformed ==
  /\ \A l \in Asking("c") : \E f \in ToSet(findings) : shown[l] = {f}
  /\ \A l, k \in Asking("c") : shown[l] = shown[k] => l = k
  /\ Solo("synth") \in DOMAIN shown =>
       /\ shown[Solo("synth")] = shown[Solo("synth")] \cap ToSet(trace)
       /\ Solo("tension") \in shown[Solo("synth")]
       /\ ToSet(critiques) \subseteq shown[Solo("synth")]
       /\ smode \in {"inline", "adversarial"} =>
            shown[Solo("synth")] = ToSet(trace) \ {Solo("synth")}
       /\ smode = "access" =>
            UNION {shown[l] : l \in Asking("c")} = ToSet(findings)
  /\ IsInjective(trace)
=============================================================================
