----------------------------- MODULE MCEngines -----------------------------
(***************************************************************************)
(* The engines built on the workflow, and what their hosts use besides it: *)
(* they share no state, so a behaviour exercises the one it chose.         *)
(***************************************************************************)
EXTENDS Repair, Worktree, Bugfix, Ensemble, Dialectic, Stages, TreeSearch,
        MetaReasoning, Selection, TLC

VARIABLE part

hostsVars == <<repairVars, worktreeVars, bugfixVars>>
loopsVars == <<ensembleVars, dialecticVars, stagesVars>>
searchVars == <<treeVars, metaVars, selectionVars>>

EnginesInit ==
  /\ part \in {"repair", "worktree", "bugfix", "ensemble", "dialectic",
               "stages", "tree", "meta", "selection"}
  /\ RepairInit /\ WorktreeInit /\ BugfixInit
  /\ EnsembleInit /\ DialecticInit /\ StagesInit
  /\ TreeInit /\ MetaInit /\ SelectionInit
  /\ part # "bugfix" => arm = "single"   \* idle parts start alike
  /\ part # "stages" => smode = "inline"
  /\ part # "meta" => mode = "direct" /\ pool = 0

HostsNext ==
  \/ part = "repair" /\ RepairNext /\ UNCHANGED <<worktreeVars, bugfixVars>>
  \/ part = "worktree" /\ WorktreeNext /\ UNCHANGED <<repairVars, bugfixVars>>
  \/ part = "bugfix" /\ BugfixNext /\ UNCHANGED <<repairVars, worktreeVars>>
LoopsNext ==
  \/ /\ part = "ensemble" /\ EnsembleNext
     /\ UNCHANGED <<dialecticVars, stagesVars>>
  \/ /\ part = "dialectic" /\ DialecticNext
     /\ UNCHANGED <<ensembleVars, stagesVars>>
  \/ /\ part = "stages" /\ StagesNext
     /\ UNCHANGED <<ensembleVars, dialecticVars>>
SearchNext ==
  \/ part = "tree" /\ TreeNext /\ UNCHANGED <<metaVars, selectionVars>>
  \/ part = "meta" /\ MetaNext /\ UNCHANGED <<treeVars, selectionVars>>
  \/ part = "selection" /\ SelectionNext /\ UNCHANGED <<treeVars, metaVars>>

EnginesNext ==
  /\ UNCHANGED part
  /\ \/ HostsNext /\ UNCHANGED <<loopsVars, searchVars>>
     \/ LoopsNext /\ UNCHANGED <<hostsVars, searchVars>>
     \/ SearchNext /\ UNCHANGED <<hostsVars, loopsVars>>

EnginesSpec ==
  EnginesInit /\ [][EnginesNext]_<<part, hostsVars, loopsVars, searchVars>>

MCModels == <<"m1", "m2">>
MCAngles == <<"x", "y", "z">>
MCScores == {-1, 0, 1, 2, 4}
MCRaw == {-3, 1, 2, 9}
MCKeyOf == ("x" :> "kx") @@ ("x spaced" :> "kx") @@ ("y" :> "ky") @@
           ("prose" :> "unparsed")
MCWorth == ("kx" :> 1) @@ ("ky" :> 2)
=============================================================================
