------------------------------ MODULE Worktree ------------------------------
(***************************************************************************)
(* worktree_session of src/dialectica/workflow_worktree.py: the directory  *)
(* and the branch an isolated agent() works in, with every git command     *)
(* that may fail, tools that still write when a cancelled call has left    *)
(* its session (tool threads are not cancelled), and the death of the      *)
(* process.  Directory and branch have fresh names, so sessions meet only  *)
(* in git's own commands, whose failures are choices here.                 *)
(***************************************************************************)
VARIABLES
  wpc,       \* new, rooted, open, left, checked, closed, raised, dead
  dir,       \* none, empty, tree (a git worktree), gone (a tool removed it)
  branch,    \* none, made: the branch ref in the repository
  work,      \* clean, dirty: changes git status would show
  commits,   \* none, some: commits on the branch
  late,      \* no, running, wrote, raced: a tool thread that outlived its
             \* call (raced: it wrote after the check, before the removal)
  judged,    \* what the exit concluded: none, clean, dirty
  trouble    \* observed: a git command or the removal of tmp failed

worktreeVars == <<wpc, dir, branch, work, commits, late, judged, trouble>>

WorktreeInit ==
  /\ wpc = "new" /\ dir = "none" /\ branch = "none" /\ work = "clean"
  /\ commits = "none" /\ late = "no" /\ judged = "none" /\ trouble = "no"

(* git rev-parse --show-toplevel, then mkdtemp. *)
FindRoot ==
  /\ wpc = "new"
  /\ \/ wpc' = "rooted" /\ dir' = "empty"
     \/ wpc' = "raised" /\ UNCHANGED dir
  /\ UNCHANGED <<branch, work, commits, late, judged, trouble>>

(* git worktree add -b *)
AddTree ==
  /\ wpc = "rooted"
  /\ wpc' = "open" /\ dir' = "tree" /\ branch' = "made"
  /\ UNCHANGED <<work, commits, late, judged, trouble>>

(* It fails, with or without the new branch, and the directory goes; or    *)
(* git does not even start, or rmtree raises, and the directory stays.     *)
AddFails ==
  /\ wpc = "rooted"
  /\ wpc' = "raised" /\ branch' \in {"none", "made"}
  /\ \/ dir' = "none" /\ UNCHANGED trouble
     \/ trouble' = "yes" /\ UNCHANGED dir
  /\ UNCHANGED <<work, commits, late, judged>>

(* The tools of the call: change files, commit all of them, undo, or       *)
(* remove the whole directory.                                             *)
UseTree ==
  /\ wpc = "open" /\ dir = "tree"
  /\ \/ work' \in {"clean", "dirty"} /\ UNCHANGED <<dir, commits>>
     \/ work' = "clean" /\ commits' = "some" /\ UNCHANGED dir
     \/ dir' = "gone" /\ UNCHANGED <<work, commits>>
  /\ UNCHANGED <<wpc, branch, late, judged, trouble>>

(* The call returns or raises; one that is cancelled may leave a tool      *)
(* running in its thread.                                                  *)
LeaveTree ==
  /\ wpc = "open"
  /\ wpc' = "left" /\ late' \in {"no", "running"}
  /\ UNCHANGED <<dir, branch, work, commits, judged, trouble>>

(* It writes, as often as it likes; a removed tree takes nothing more. *)
LateWrite ==
  /\ late # "no" /\ wpc # "dead"
  /\ late' = IF wpc = "checked" \/ late = "raced" THEN "raced" ELSE "wrote"
  /\ work' = IF dir = "tree" THEN "dirty" ELSE work
  /\ UNCHANGED <<wpc, dir, branch, commits, judged, trouble>>

(* git status --porcelain: an error counts as dirty. *)
OnStatusError_Clean == "clean"
OnStatusError == "dirty"

Status ==
  /\ wpc = "left" /\ dir = "tree"
  /\ wpc' = "checked"
  /\ \/ judged' = work /\ UNCHANGED trouble
     \/ judged' = OnStatusError /\ trouble' = "yes"
  /\ UNCHANGED <<dir, branch, work, commits, late>>

(* subprocess.run raises: its directory does not exist any more, or git    *)
(* does not start.                                                         *)
StatusRaises ==
  /\ wpc = "left"
  /\ wpc' = "raised"
  /\ \/ dir = "gone" /\ UNCHANGED trouble
     \/ trouble' = "yes"
  /\ UNCHANGED <<dir, branch, work, commits, late, judged>>

(* git worktree remove --force, of a tree judged clean only; a failure is  *)
(* logged, and git that does not start raises.                             *)
Close ==
  /\ wpc = "checked"
  /\ \/ judged = "dirty" /\ wpc' = "closed" /\ UNCHANGED <<dir, trouble>>
     \/ /\ judged = "clean" /\ wpc' = "closed"
        /\ dir' = "none" /\ UNCHANGED trouble
     \/ /\ judged = "clean" /\ wpc' \in {"closed", "raised"}
        /\ trouble' = "yes" /\ UNCHANGED dir
  /\ UNCHANGED <<branch, work, commits, late, judged>>

ProcessDies ==
  /\ wpc \notin {"closed", "raised", "dead"}
  /\ wpc' = "dead"
  /\ UNCHANGED <<dir, branch, work, commits, late, judged, trouble>>

WorktreeNext == \/ FindRoot \/ AddTree \/ AddFails \/ UseTree \/ LeaveTree
                \/ LateWrite \/ Status \/ StatusRaises \/ Close \/ ProcessDies

-----------------------------------------------------------------------------
(* Work is kept but for one race.  Uncommitted work is still in its tree,  *)
(* or a tool removed that tree itself, or the exit had found the tree      *)
(* clean and a tool that outlived its call wrote between that check and    *)
(* the removal: only then is work lost.  What was committed is on a branch *)
(* nobody deletes.  And a session that ended, by closing or by an          *)
(* exception, leaves a directory behind only for such work or after a      *)
(* failure of git or of rmtree (a dead process may leave a clean one).     *)
(* About worktree_session.                                                 *)
WorkKeptExactly ==
  /\ work = "dirty" => \/ dir \in {"tree", "gone"}
                       \/ judged = "clean" /\ late = "raced"
  /\ commits = "some" => branch = "made"
  /\ wpc \in {"closed", "raised"} /\ dir \in {"empty", "tree"} =>
       work = "dirty" \/ trouble = "yes"
=============================================================================
