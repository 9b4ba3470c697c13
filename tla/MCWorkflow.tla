----------------------------- MODULE MCWorkflow -----------------------------
(***************************************************************************)
(* Scripts for the runs of Workflow.                                       *)
(***************************************************************************)
EXTENDS Workflow, TLC

CONSTANTS a, b, c, d, r1, r2, f1, f2, p1, p2

Plain == [behind |-> {}, after |-> {}, strict |-> TRUE, reads |-> {},
          tools |-> FALSE, isolated |-> FALSE, schema |-> FALSE, attempts |-> 1,
          verify |-> FALSE, reenters |-> FALSE, rerun |-> FALSE,
          refused |-> FALSE, opaque |-> FALSE, phase |-> NoPhase]

NoMeta == <<>>
NoUsage == {[output |-> 0, unknown |-> 0]}

\* parallel(a, b), then c which reads a's output: a can be verified, b acts.
ReplayScript ==
    (a :> [Plain EXCEPT !.verify = TRUE, !.phase = p1]) @@
    (b :> [Plain EXCEPT !.tools = TRUE, !.verify = TRUE, !.phase = p2]) @@
    (c :> [Plain EXCEPT !.after = {a, b}, !.strict = FALSE, !.reads = {a}])

\* A call that may act after one that may not, without a verifier; its answer
\* may be unusable.
FaultScript ==
    (a :> [Plain EXCEPT !.verify = TRUE]) @@
    (b :> [Plain EXCEPT !.isolated = TRUE, !.behind = {a}, !.schema = TRUE])

\* Three branches under a token budget: a asks twice, b can act, c asks once; d
\* is refused by tool policy.
TokenScript ==
    (a :> [Plain EXCEPT !.schema = TRUE, !.attempts = 2]) @@
    (b :> [Plain EXCEPT !.schema = TRUE, !.attempts = 2, !.tools = TRUE]) @@
    (c :> Plain) @@
    (d :> [Plain EXCEPT !.after = {a}, !.refused = TRUE])

TokenUsages == {[output |-> 0, unknown |-> 0], [output |-> 2, unknown |-> 0],
                [output |-> 0, unknown |-> 1]}

\* Four branches, one more than the run may start: one whose verifier may call
\* agent(), one authorised rerun, one without a stable key.
CallsScript ==
    (a :> [Plain EXCEPT !.verify = TRUE, !.reenters = TRUE, !.phase = p1]) @@
    (b :> [Plain EXCEPT !.tools = TRUE, !.rerun = TRUE, !.verify = TRUE,
                        !.phase = p2]) @@
    (c :> [Plain EXCEPT !.opaque = TRUE, !.schema = TRUE, !.attempts = 2]) @@
    (d :> Plain)

TwoPhases == <<p1, p2>>

\* pipeline of two items and two stages; the second stage uses tools.
PipelineScript ==
    (a :> Plain) @@
    (b :> [Plain EXCEPT !.behind = {a}]) @@
    (c :> [Plain EXCEPT !.after = {a}, !.tools = TRUE]) @@
    (d :> [Plain EXCEPT !.after = {b}, !.tools = TRUE])

\* One call.
SingleScript == (a :> Plain)
=============================================================================
