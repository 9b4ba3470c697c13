----------------------------- MODULE MCRunAgent -----------------------------
(***************************************************************************)
(* Instances of RunAgent: two callers that share a limiter of one and the  *)
(* turn guard; one of them may have tools.                                 *)
(***************************************************************************)
EXTENDS RunAgent, TLC

CONSTANTS plain, tooled
=============================================================================
