----------------------------- MODULE MCBranches -----------------------------
(***************************************************************************)
(* Trees for the runs of Branches: two branches, and a batch inside one of *)
(* them.                                                                   *)
(***************************************************************************)
EXTENDS Branches, TLC

CONSTANTS root, left, right, inner

Pair == (root :> NoNode) @@ (left :> root) @@ (right :> root)
PairAbove == (root :> {}) @@ (left :> {root}) @@ (right :> {root})

Deep == Pair @@ (inner :> left)
DeepAbove == PairAbove @@ (inner :> {root, left})
=============================================================================
