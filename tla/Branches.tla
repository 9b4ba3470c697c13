------------------------------ MODULE Branches ------------------------------
(***************************************************************************)
(* The task tree of one run: batches (parallel, pipeline), cancellation,   *)
(* and child workflows (workflow()), of dialectica/workflow.py.            *)
(*                                                                         *)
(* A node is a coroutine of the script: the root is the script itself, the *)
(* others are branches, which run as asyncio tasks that the batch of their *)
(* parent creates and gathers.  What a script does is left open: a node    *)
(* that works may start its batch, enter or leave a child workflow, return *)
(* or raise.  One batch of a node is modelled, and no agent() call: those  *)
(* are the subject of Workflow.  A cancellation is requested first and     *)
(* raised at the node's next step; asyncio passes a request down through   *)
(* all the batches at once, here each level is a step of its own.          *)
(***************************************************************************)
EXTENDS Naturals

CONSTANTS
    Nodes,
    Root,       \* the script of the run
    NoNode,
    Parent,     \* the node whose batch a node belongs to
    Above,      \* the nodes a node is a branch of, at any distance
    Handles,    \* nodes whose script may carry on after a CancelledError
    MaxCancels  \* bound: cancellations of the run by its host

ASSUME NodeAssumption ==
    /\ Root \in Nodes
    /\ NoNode \notin Nodes
    /\ Handles \subseteq Nodes
    /\ MaxCancels \in Nat

\* Parent and Above describe one tree.
ASSUME TreeAssumption ==
    /\ Parent \in [Nodes -> Nodes \cup {NoNode}]
    /\ Above \in [Nodes -> SUBSET Nodes]
    /\ Parent[Root] = NoNode /\ Above[Root] = {}
    /\ \A n \in Nodes \ {Root} :
        /\ Parent[n] \in Nodes
        /\ Above[n] = Above[Parent[n]] \cup {Parent[n]}
        /\ n \notin Above[n] /\ Root \in Above[n]
        /\ \A a \in Above[n] :
            \E c \in Nodes : Parent[c] = a /\ (c = n \/ c \in Above[n])

VARIABLES
    pc,             \* where each node is
    result,         \* how it ended
    requested,      \* the nodes with a cancellation that is not yet raised
    interrupted,    \* the nodes whose gather was cancelled
    inside,         \* the nodes that execute a child workflow
    home,           \* the child workflow a branch was started in
    prevArgs,       \* prev_args of workflow()
    ctx,            \* depth and args of the run's context
    failures,       \* ctx.outcomes: the branches recorded as failed
    returned,       \* history: the nodes whose batch returned its outcomes
    cancels,        \* history: how often the host cancelled the run
    report          \* Workflow.report.status

vars == <<pc, result, requested, interrupted, inside, home, prevArgs, ctx,
          failures, returned, cancels, report>>

-----------------------------------------------------------------------------
PCs == {"unborn", "created", "working", "gathering", "settling", "unwinding",
        "done"}

Alive(n) == pc[n] \notin {"unborn", "done"}

Children(n) == {c \in Nodes : Parent[c] = n}

\* Whose args a node should see: those of the child workflow it executes, or
\* was started in; NoNode stands for the outer script.
Scope(n) == IF n \in inside THEN n ELSE home[n]

Goto(n, p) == pc' = [pc EXCEPT ![n] = p]

Init ==
    /\ pc = [n \in Nodes |-> IF n = Root THEN "working" ELSE "unborn"]
    /\ result = [n \in Nodes |-> "none"]
    /\ requested = {}
    /\ interrupted = {}
    /\ inside = {}
    /\ home = [n \in Nodes |-> NoNode]
    /\ prevArgs = [n \in Nodes |-> NoNode]
    /\ ctx = [depth |-> 0, args |-> NoNode]
    /\ failures = {}
    /\ returned = {}
    /\ cancels = 0
    /\ report = "running"

-----------------------------------------------------------------------------
\* The host cancels the run.
CancelRun ==
    /\ pc[Root] # "done"
    /\ cancels < MaxCancels
    /\ cancels' = cancels + 1
    /\ requested' = requested \cup {Root}
    /\ UNCHANGED <<pc, result, interrupted, inside, home, prevArgs, ctx,
                   failures, returned, report>>

\* A branch begins to execute.
Begin(n) ==
    /\ pc[n] = "created"
    /\ n \notin requested
    /\ Goto(n, "working")
    /\ UNCHANGED <<result, requested, interrupted, inside, home, prevArgs,
                   ctx, failures, returned, cancels, report>>

\* A branch that is cancelled before it begins never does.
CancelUnstarted(n) ==
    /\ pc[n] = "created"
    /\ n \in requested
    /\ Goto(n, "done")
    /\ result' = [result EXCEPT ![n] = "cancelled"]
    /\ requested' = requested \ {n}
    /\ UNCHANGED <<interrupted, inside, home, prevArgs, ctx, failures,
                   returned, cancels, report>>

\* CancelledError is raised at the await where the node's own code is.
Interrupt(n) ==
    /\ pc[n] \in {"working", "unwinding"}
    /\ n \in requested
    /\ Goto(n, "unwinding")
    /\ requested' = requested \ {n}
    /\ UNCHANGED <<result, interrupted, inside, home, prevArgs, ctx,
                   failures, returned, cancels, report>>

\* The script catches the CancelledError (asyncio.timeout does).
Handle(n) ==
    /\ pc[n] = "unwinding"
    /\ n \in Handles \ requested
    /\ Goto(n, "working")
    /\ UNCHANGED <<result, requested, interrupted, inside, home, prevArgs,
                   ctx, failures, returned, cancels, report>>

-----------------------------------------------------------------------------
(***************************************************************************)
(* Batches: _gather_settled and _batch_result.                             *)
(***************************************************************************)

\* The tasks of the batch are created and gathered.
StartBatch(n) ==
    /\ pc[n] = "working"
    /\ n \notin requested
    /\ Children(n) # {}
    /\ \A c \in Children(n) : pc[c] = "unborn"
    /\ pc' = [m \in Nodes |-> IF m = n THEN "gathering"
                              ELSE IF m \in Children(n) THEN "created"
                              ELSE pc[m]]
    /\ home' = [m \in Nodes |-> IF m \in Children(n) THEN Scope(n) ELSE home[m]]
    /\ UNCHANGED <<result, requested, interrupted, inside, prevArgs, ctx,
                   failures, returned, cancels, report>>

Unfinished(n) == {c \in Children(n) : pc[c] # "done"}

\* Cancelling a node that gathers cancels what it gathers.
PassOn(n) ==
    /\ pc[n] \in {"gathering", "settling"}
    /\ n \in requested
    /\ requested' = (requested \ {n}) \cup Unfinished(n)
    /\ interrupted' = interrupted \cup {n}
    /\ UNCHANGED <<pc, result, inside, home, prevArgs, ctx, failures,
                   returned, cancels, report>>

\* Mutant of GatherReturns: the batch of a cancelled branch returns like any
\* other, but records no outcomes.
GatherReturns_SkipsCancelled(n) ==
    /\ pc[n] = "gathering"
    /\ n \notin requested \cup interrupted
    /\ \A c \in Children(n) : result[c] # "none"
    /\ failures' = IF \E c \in Children(n) : result[c] = "cancelled"
                   THEN failures
                   ELSE failures \cup {c \in Children(n) : result[c] = "failed"}
    /\ returned' = returned \cup {n}
    /\ Goto(n, "working")
    /\ UNCHANGED <<result, requested, interrupted, inside, home, prevArgs,
                   ctx, cancels, report>>

\* Every branch returned an outcome; which are recorded, and BatchFailed or
\* the list goes to the script.
GatherReturns(n) ==
    /\ pc[n] = "gathering"
    /\ n \notin requested \cup interrupted
    /\ \A c \in Children(n) : result[c] \in {"completed", "failed"}
    /\ failures' = failures \cup {c \in Children(n) : result[c] = "failed"}
    /\ returned' = returned \cup {n}
    /\ Goto(n, "working")
    /\ UNCHANGED <<result, requested, interrupted, inside, home, prevArgs,
                   ctx, cancels, report>>

\* Mutant of GatherRaises: the siblings of a cancelled branch are not settled.
GatherRaises_Unsettled(n) ==
    /\ pc[n] = "gathering"
    /\ n \notin requested
    /\ \/ \E c \in Children(n) : result[c] = "cancelled"
       \/ n \in interrupted /\ Unfinished(n) = {}
    /\ requested' = requested \cup Unfinished(n)
    /\ interrupted' = interrupted \ {n}
    /\ Goto(n, "unwinding")
    /\ UNCHANGED <<result, inside, home, prevArgs, ctx, failures, returned,
                   cancels, report>>

\* Mutant of GatherRaises: the siblings are awaited, but not cancelled.
GatherRaises_Uncancelled(n) ==
    /\ pc[n] = "gathering"
    /\ n \notin requested
    /\ \/ \E c \in Children(n) : result[c] = "cancelled"
       \/ n \in interrupted /\ Unfinished(n) = {}
    /\ Goto(n, "settling")
    /\ UNCHANGED <<result, requested, interrupted, inside, home, prevArgs,
                   ctx, failures, returned, cancels, report>>

\* A branch was cancelled, or the gather was and its branches are done: the
\* remaining tasks are cancelled and gathered again.
GatherRaises(n) ==
    /\ pc[n] = "gathering"
    /\ n \notin requested
    /\ \/ \E c \in Children(n) : result[c] = "cancelled"
       \/ n \in interrupted /\ Unfinished(n) = {}
    /\ requested' = requested \cup Unfinished(n)
    /\ Goto(n, "settling")
    /\ UNCHANGED <<result, interrupted, inside, home, prevArgs, ctx,
                   failures, returned, cancels, report>>

\* Every task of the batch is done; the CancelledError goes to the script.
Settled(n) ==
    /\ pc[n] = "settling"
    /\ n \notin requested
    /\ Unfinished(n) = {}
    /\ interrupted' = interrupted \ {n}
    /\ Goto(n, "unwinding")
    /\ UNCHANGED <<result, requested, inside, home, prevArgs, ctx,
                   failures, returned, cancels, report>>

-----------------------------------------------------------------------------
(***************************************************************************)
(* Child workflows.                                                        *)
(***************************************************************************)

\* Mutant of MayEnter: only a node's own nesting counts, the context is shared.
MayEnter_Local(n) == Scope(n) = NoNode

MayEnter(n) == ctx.depth = 0

\* workflow() joins the run: the context has the child's args meanwhile.  What it
\* does not admit it answers with a RuntimeError in the script, which changes
\* nothing here and may end the script (Finish).
EnterChild(n) ==
    /\ pc[n] = "working"
    /\ n \notin requested \cup inside
    /\ MayEnter(n)
    /\ prevArgs' = [prevArgs EXCEPT ![n] = ctx.args]
    /\ ctx' = [depth |-> 1, args |-> n]
    /\ inside' = inside \cup {n}
    /\ UNCHANGED <<pc, result, requested, interrupted, home, failures,
                   returned, cancels, report>>

\* Mutant of LeaveChild: the context is restored only after a normal return.
LeaveChild_NoFinally(n) ==
    /\ pc[n] \in {"working", "unwinding"}
    /\ n \in inside \ requested
    /\ ctx' = IF pc[n] = "working" THEN [depth |-> 0, args |-> prevArgs[n]]
              ELSE ctx
    /\ inside' = inside \ {n}
    /\ UNCHANGED <<pc, result, requested, interrupted, home, prevArgs,
                   failures, returned, cancels, report>>

\* The child script returned or raised.
LeaveChild(n) ==
    /\ pc[n] \in {"working", "unwinding"}
    /\ n \in inside \ requested
    /\ ctx' = [depth |-> 0, args |-> prevArgs[n]]
    /\ inside' = inside \ {n}
    /\ UNCHANGED <<pc, result, requested, interrupted, home, prevArgs,
                   failures, returned, cancels, report>>

-----------------------------------------------------------------------------
\* Mutant of StatusOf: only the failure of the script itself counts.
StatusOf_IgnoresOutcomes(r) == r

\* How the run is reported when its script ends.
StatusOf(r) == IF r = "completed" /\ failures # {} THEN "partial" ELSE r

\* A node's script is over.  One that unwinds raises the CancelledError on; one
\* that works may also raise it itself.
Finish(n, r) ==
    /\ \/ pc[n] = "working"
       \/ pc[n] = "unwinding" /\ r = "cancelled"
    /\ n \notin requested \cup inside
    /\ Goto(n, "done")
    /\ result' = [result EXCEPT ![n] = r]
    /\ report' = IF n = Root THEN StatusOf(r) ELSE report
    /\ UNCHANGED <<requested, interrupted, inside, home, prevArgs, ctx,
                   failures, returned, cancels>>

\* The steps of asyncio and of this code, and how a cancelled script goes on.
Settle(n) ==
    \/ CancelUnstarted(n)
    \/ Interrupt(n)
    \/ PassOn(n)
    \/ GatherReturns(n)
    \/ GatherRaises(n)
    \/ Settled(n)
    \/ pc[n] = "unwinding" /\ (LeaveChild(n) \/ Finish(n, "cancelled"))

\* What a script may do.
Work(n) ==
    \/ Begin(n)
    \/ Handle(n)
    \/ StartBatch(n)
    \/ EnterChild(n)
    \/ pc[n] = "working" /\ LeaveChild(n)
    \/ pc[n] = "working" /\ \E r \in {"completed", "failed", "cancelled"} :
                                Finish(n, r)

Next == CancelRun \/ \E n \in Nodes : Settle(n) \/ Work(n)

Spec == Init /\ [][Next]_vars

\* The event loop runs what is ready.  A script that nobody cancels may wait
\* for ever.
FairSpec == Spec /\ \A n \in Nodes : WF_vars(Settle(n))

-----------------------------------------------------------------------------
\* Every variable has its type, and a node has a result when it is done.
TypeOK ==
    /\ pc \in [Nodes -> PCs]
    /\ result \in [Nodes -> {"none", "completed", "failed", "cancelled"}]
    /\ \A n \in Nodes : pc[n] = "done" <=> result[n] # "none"
    /\ requested \subseteq Nodes
    /\ interrupted \subseteq Nodes
    /\ inside \subseteq Nodes
    /\ home \in [Nodes -> Nodes \cup {NoNode}]
    /\ prevArgs \in [Nodes -> Nodes \cup {NoNode}]
    /\ ctx \in [depth : 0 .. 1, args : Nodes \cup {NoNode}]
    /\ failures \subseteq Nodes
    /\ returned \subseteq Nodes
    /\ cancels \in 0 .. MaxCancels
    /\ report \in {"running", "completed", "partial", "failed", "cancelled"}

\* A branch lives only while every node above it waits for it; in particular no
\* branch outlives the run and works on its journal.
NothingOutlives ==
    \A n \in Nodes : Alive(n) =>
        \A a \in Above[n] : pc[a] \in {"gathering", "settling"}

\* Code that runs in a child workflow, its branches included, sees the args the
\* child was called with.
ChildArgs ==
    \A n \in Nodes : Alive(n) /\ Scope(n) # NoNode => ctx.args = Scope(n)

\* While no child workflow is under way, and so also after one was cancelled,
\* the context is that of the outer script.
ContextRestored == inside = {} => ctx = [depth |-> 0, args |-> NoNode]

\* A run with a failed branch, at any depth, is not reported completed, with one
\* exception: the branch's batch did not return but raised a CancelledError,
\* which discards its outcomes (workflow.py:732-737), and a script above the
\* branch carried on after that.
FailureReported ==
    report = "completed" =>
        \A n \in Nodes : result[n] = "failed" =>
            /\ Parent[n] \notin returned
            /\ Above[n] \cap Handles # {}

\* Once a branch was cancelled its siblings settle, and once the run was the
\* CancelledError reaches its script, also when no script would end by itself.
\* Scripts below that carry on after a cancellation are excepted.
CancellationSettles ==
    /\ \A n \in Nodes \ {Root} :
        (\A h \in Handles : Parent[n] \notin Above[h]) =>
            (result[n] = "cancelled" ~> Unfinished(Parent[n]) = {})
    /\ Root \in requested ~> pc[Root] \in {"unwinding", "done"}

\* args(): "The args value passed to Workflow(...), verbatim."
ArgsVerbatim ==
    \A n \in Nodes : Alive(n) /\ Scope(n) = NoNode => ctx.args = NoNode
=============================================================================
