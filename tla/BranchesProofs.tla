--------------------------- MODULE BranchesProofs ---------------------------
(***************************************************************************)
(* Theorems about Branches, for every tree of branches.                    *)
(***************************************************************************)
EXTENDS Branches, TLAPS

-----------------------------------------------------------------------------
(***************************************************************************)
(* The tree: between a branch and a node above it there is a child of the  *)
(* node, so that a node whose children are done has nothing alive below.   *)
(***************************************************************************)

Waits(n) == pc[n] \in {"gathering", "settling"}

TreeInv == TypeOK /\ NothingOutlives /\ pc[Root] # "unborn"

LEMMA ChildFacts ==
  ASSUME NEW n \in Nodes, NEW c \in Children(n)
  PROVE  c \in Nodes /\ c # Root /\ Above[c] = Above[n] \cup {n}
  BY NodeAssumption, TreeAssumption DEF Children

LEMMA BelowDone ==
  ASSUME NothingOutlives, NEW n \in Nodes, Unfinished(n) = {},
         NEW m \in Nodes, Alive(m)
  PROVE  n \notin Above[m]
<1> SUFFICES ASSUME n \in Above[m] PROVE FALSE
  OBVIOUS
<1>1. m # Root
  BY TreeAssumption
<1>2. PICK c \in Nodes : Parent[c] = n /\ (c = m \/ c \in Above[m])
  BY <1>1, TreeAssumption
<1>3. pc[c] = "done"
  BY <1>2 DEF Unfinished, Children
<1> QED
  BY <1>2, <1>3 DEF NothingOutlives, Alive

\* A step that keeps the living waiting keeps NothingOutlives: no node becomes
\* alive, and one that stops to wait has nothing alive below it.
LEMMA OutlivesFrame ==
  ASSUME NothingOutlives, NEW n \in Nodes, NEW p,
         pc \in [Nodes -> PCs], pc' = [pc EXCEPT ![n] = p],
         Alive(n),
         \/ p \in {"gathering", "settling"}
         \/ ~ Waits(n)
         \/ Unfinished(n) = {}
  PROVE  NothingOutlives'
<1> SUFFICES ASSUME NEW m \in Nodes, Alive(m)', NEW a \in Above[m]
             PROVE  pc'[a] \in {"gathering", "settling"}
  BY DEF NothingOutlives
<1>1. Alive(m)
  BY DEF Alive
<1>2. Waits(a) /\ a \in Nodes
  BY <1>1, TreeAssumption DEF NothingOutlives, Waits
<1>3. CASE a = n
  BY <1>1, <1>2, <1>3, BelowDone DEF Waits
<1>4. CASE a # n
  BY <1>2, <1>4 DEF Waits
<1> QED
  BY <1>3, <1>4

Step(n) == Settle(n) \/ Work(n)

\* The steps of a node, without the order in which Next lists them.
LEMMA StepCases ==
  ASSUME NEW n \in Nodes, Step(n)
  PROVE  \/ Begin(n) \/ CancelUnstarted(n) \/ Interrupt(n) \/ Handle(n)
         \/ StartBatch(n) \/ PassOn(n) \/ GatherReturns(n) \/ GatherRaises(n)
         \/ Settled(n) \/ EnterChild(n) \/ LeaveChild(n)
         \/ \E r \in {"completed", "failed", "cancelled"} : Finish(n, r)
  BY DEF Step, Settle, Work

LEMMA TypeInit == Init => TypeOK
  BY NodeAssumption DEF Init, TypeOK, PCs

LEMMA TypeCancelRun == TypeOK /\ CancelRun => TypeOK'
<1> SUFFICES ASSUME TypeOK, CancelRun PROVE TypeOK'
  OBVIOUS
<1>1. cancels' \in 0 .. MaxCancels
  BY NodeAssumption DEF TypeOK, CancelRun
<1> QED
  BY <1>1, NodeAssumption DEF TypeOK, CancelRun

LEMMA TypeStep ==
  ASSUME TypeOK, NEW n \in Nodes, Step(n)
  PROVE  TypeOK'
<1>1. CASE Begin(n)
  BY <1>1 DEF TypeOK, PCs, Begin, Goto
<1>2. CASE CancelUnstarted(n)
  BY <1>2 DEF TypeOK, PCs, CancelUnstarted, Goto
<1>3. CASE Interrupt(n)
  BY <1>3 DEF TypeOK, PCs, Interrupt, Goto
<1>4. CASE Handle(n)
  BY <1>4 DEF TypeOK, PCs, Handle, Goto
<1>5. CASE StartBatch(n)
  <2>1. pc' \in [Nodes -> PCs]
    BY <1>5 DEF TypeOK, PCs, StartBatch
  <2>2. Scope(n) \in Nodes \cup {NoNode}
    BY DEF TypeOK, Scope
  <2>3. home' \in [Nodes -> Nodes \cup {NoNode}]
    BY <1>5, <2>2 DEF TypeOK, StartBatch
  <2>4. ASSUME NEW m \in Nodes
        PROVE  pc'[m] = "done" <=> result'[m] # "none"
    BY <1>5 DEF TypeOK, PCs, StartBatch
  <2> QED
    BY <1>5, <2>1, <2>3, <2>4 DEF TypeOK, StartBatch
<1>6. CASE PassOn(n)
  BY <1>6 DEF TypeOK, PassOn, Unfinished, Children
<1>7. CASE GatherReturns(n)
  BY <1>7 DEF TypeOK, PCs, GatherReturns, Goto, Children
<1>8. CASE GatherRaises(n)
  BY <1>8 DEF TypeOK, PCs, GatherRaises, Goto, Unfinished, Children
<1>9. CASE Settled(n)
  BY <1>9 DEF TypeOK, PCs, Settled, Goto
<1>10. CASE EnterChild(n)
  BY <1>10 DEF TypeOK, EnterChild
<1>12. CASE LeaveChild(n)
  BY <1>12 DEF TypeOK, LeaveChild
<1>13. ASSUME NEW r \in {"completed", "failed", "cancelled"}, Finish(n, r)
       PROVE  TypeOK'
  <2>1. report' \in {"running", "completed", "partial", "failed", "cancelled"}
    BY <1>13 DEF TypeOK, Finish, StatusOf
  <2> QED
    BY <1>13, <2>1 DEF TypeOK, PCs, Finish, Goto
<1> QED
  BY <1>1, <1>2, <1>3, <1>4, <1>5, <1>6, <1>7, <1>8, <1>9, <1>10,
     <1>12, <1>13, StepCases

-----------------------------------------------------------------------------
LEMMA TreeInit == Init => TreeInv
<1> SUFFICES ASSUME Init PROVE TreeInv
  OBVIOUS
<1>1. pc[Root] = "working" /\ \A n \in Nodes : Alive(n) => n = Root
  BY NodeAssumption DEF Init, Alive
<1>2. NothingOutlives
  BY <1>1, TreeAssumption DEF NothingOutlives
<1> QED
  BY <1>1, <1>2, TypeInit DEF TreeInv

LEMMA BatchStarts ==
  ASSUME TreeInv, NEW n \in Nodes, StartBatch(n)
  PROVE  NothingOutlives'
<1> SUFFICES ASSUME NEW m \in Nodes, Alive(m)', NEW a \in Above[m]
             PROVE  pc'[a] \in {"gathering", "settling"}
  BY DEF NothingOutlives
<1>1. /\ pc' = [x \in Nodes |-> IF x = n THEN "gathering"
                               ELSE IF x \in Children(n) THEN "created"
                               ELSE pc[x]]
      /\ \A c \in Children(n) : pc[c] = "unborn"
      /\ pc[n] = "working"
  BY DEF StartBatch
<1>2. Alive(n) /\ \A b \in Above[n] : Waits(b)
  BY <1>1 DEF Alive, TreeInv, NothingOutlives, Waits
<1>3. ASSUME Waits(a) PROVE pc'[a] \in {"gathering", "settling"}
  BY <1>1, <1>3, TreeAssumption DEF Waits
<1>4. CASE m \in Children(n)
  <2>1. a = n \/ a \in Above[n]
    BY <1>4, ChildFacts
  <2> QED
    BY <1>1, <1>2, <1>3, <2>1
<1>5. CASE m \notin Children(n)
  <2>1. Alive(m)
    BY <1>1, <1>2, <1>5 DEF Alive
  <2> QED
    BY <1>3, <2>1 DEF TreeInv, NothingOutlives, Waits
<1> QED
  BY <1>4, <1>5

LEMMA TreeStep == TreeInv /\ [Next]_vars => TreeInv'
<1> SUFFICES ASSUME TreeInv, [Next]_vars PROVE TreeInv'
  OBVIOUS
<1>1. pc \in [Nodes -> PCs] /\ NothingOutlives /\ pc[Root] # "unborn"
  BY DEF TreeInv, TypeOK
<1>2. CASE UNCHANGED vars
  BY <1>2 DEF vars, TreeInv, TypeOK, NothingOutlives, Alive
<1>3. CASE CancelRun
  <2>1. pc' = pc
    BY <1>3 DEF CancelRun
  <2> QED
    BY <1>3, <2>1, TypeCancelRun DEF TreeInv, NothingOutlives, Alive
<1>4. ASSUME NEW n \in Nodes, Step(n) PROVE TreeInv'
  <2>1. TypeOK'
    BY <1>4, TypeStep DEF TreeInv
  <2>2. CASE pc' = pc
    BY <2>1, <2>2 DEF TreeInv, NothingOutlives, Alive
  <2>3. CASE StartBatch(n)
    <3>1. pc'[Root] # "unborn"
      BY <1>1, <2>3, NodeAssumption DEF StartBatch
    <3> QED
      BY <2>1, <2>3, <3>1, BatchStarts DEF TreeInv
  <2>4. ASSUME NEW p \in PCs \ {"unborn"}, Goto(n, p), Alive(n),
               p \in {"gathering", "settling"} \/ ~ Waits(n) \/ Unfinished(n) = {}
        PROVE  TreeInv'
    <3>1. NothingOutlives'
      BY <1>1, <2>4, OutlivesFrame DEF Goto
    <3>2. pc'[Root] # "unborn"
      BY <1>1, <2>4, NodeAssumption DEF Goto
    <3> QED
      BY <2>1, <3>1, <3>2 DEF TreeInv
  <2>5. CASE Begin(n)
    <3>1. Goto(n, "working") /\ Alive(n) /\ ~ Waits(n)
      BY <2>5 DEF Begin, Alive, Waits
    <3> QED
      BY <2>4, <3>1 DEF PCs
  <2>6. CASE CancelUnstarted(n)
    <3>1. Goto(n, "done") /\ Alive(n) /\ ~ Waits(n)
      BY <2>6 DEF CancelUnstarted, Alive, Waits
    <3> QED
      BY <2>4, <3>1 DEF PCs
  <2>7. CASE Interrupt(n) \/ Handle(n)
    <3>1. /\ \E p \in {"working", "unwinding"} : Goto(n, p)
          /\ Alive(n) /\ ~ Waits(n)
      BY <2>7 DEF Interrupt, Handle, Alive, Waits
    <3> QED
      BY <2>4, <3>1 DEF PCs
  <2>8. CASE GatherReturns(n)
    <3>1. Goto(n, "working") /\ Alive(n)
      BY <2>8 DEF GatherReturns, Alive
    <3>2. Unfinished(n) = {}
      BY <2>8 DEF GatherReturns, Unfinished, Children, TreeInv, TypeOK
    <3> QED
      BY <2>4, <3>1, <3>2 DEF PCs
  <2>9. CASE GatherRaises(n)
    <3>1. Goto(n, "settling") /\ Alive(n)
      BY <2>9 DEF GatherRaises, Alive
    <3> QED
      BY <2>4, <3>1 DEF PCs
  <2>10. CASE Settled(n)
    <3>1. Goto(n, "unwinding") /\ Alive(n) /\ Unfinished(n) = {}
      BY <2>10 DEF Settled, Alive
    <3> QED
      BY <2>4, <3>1 DEF PCs
  <2>11. CASE PassOn(n) \/ EnterChild(n) \/ LeaveChild(n)
    BY <2>2, <2>11 DEF PassOn, EnterChild, LeaveChild
  <2>12. ASSUME NEW r \in {"completed", "failed", "cancelled"}, Finish(n, r)
         PROVE  TreeInv'
    <3>1. Goto(n, "done") /\ Alive(n) /\ ~ Waits(n)
      BY <2>12 DEF Finish, Alive, Waits
    <3> QED
      BY <2>4, <3>1 DEF PCs
  <2> QED
    BY <1>4, <2>3, <2>5, <2>6, <2>7, <2>8, <2>9, <2>10, <2>11, <2>12, StepCases
<1> QED
  BY <1>2, <1>3, <1>4 DEF Next, Step

\* Every reachable state is well typed.
THEOREM TypeCorrect == Spec => []TypeOK
<1>1. TreeInv => TypeOK
  BY DEF TreeInv
<1> QED
  BY TreeInit, TreeStep, <1>1, PTL DEF Spec

\* No branch, at any depth, lives longer than a batch it belongs to, however
\* often and wherever the run is cancelled.
THEOREM BranchesContained == Spec => []NothingOutlives
<1>1. TreeInv => NothingOutlives
  BY DEF TreeInv
<1> QED
  BY TreeInit, TreeStep, <1>1, PTL DEF Spec

-----------------------------------------------------------------------------
(***************************************************************************)
(* The shared context.  At most one node executes a child workflow, since  *)
(* the depth that all see is 1 while one does; the context is that child's *)
(* then, and what it will restore is the outer script's.  A branch started *)
(* in a child belongs to a batch below it, so that, by NothingOutlives, it *)
(* is over when the child ends: that is why ScopeInv needs TreeInv.        *)
(***************************************************************************)

CtxOf(s) == inside = {s} /\ ctx = [depth |-> 1, args |-> s] /\ prevArgs[s] = NoNode

OneChild ==
    \/ inside = {} /\ ctx = [depth |-> 0, args |-> NoNode]
    \/ \E s \in Nodes : CtxOf(s)

Homed(n) == home[n] # NoNode =>
                home[n] \in Above[n] /\ (Alive(n) => home[n] \in inside)

ScopeInv == TreeInv /\ OneChild /\ \A n \in Nodes : Homed(n)

LEMMA ScopeInit == Init => ScopeInv
<1> SUFFICES ASSUME Init PROVE ScopeInv
  OBVIOUS
<1>1. OneChild
  BY DEF Init, OneChild
<1>2. \A n \in Nodes : Homed(n)
  BY DEF Init, Homed
<1> QED
  BY <1>1, <1>2, TreeInit DEF ScopeInv

\* A step that starts no batch and neither enters nor leaves a child.
LEMMA ScopeFrame ==
  ASSUME OneChild, \A n \in Nodes : Homed(n),
         UNCHANGED <<inside, home, prevArgs, ctx>>,
         \A n \in Nodes : Alive(n)' => Alive(n)
  PROVE  OneChild' /\ \A n \in Nodes : Homed(n)'
<1>1. OneChild'
  BY DEF OneChild, CtxOf
<1>2. \A n \in Nodes : Homed(n)'
  BY DEF Homed
<1> QED
  BY <1>1, <1>2

LEMMA ScopeStep == ScopeInv /\ [Next]_vars => ScopeInv'
<1> SUFFICES ASSUME ScopeInv, [Next]_vars PROVE ScopeInv'
  OBVIOUS
<1>1. TreeInv' /\ TreeInv
  BY TreeStep DEF ScopeInv
<1>2. OneChild /\ \A n \in Nodes : Homed(n)
  BY DEF ScopeInv
<1>3. TypeOK /\ NothingOutlives
  BY <1>1 DEF TreeInv
<1>4. CASE /\ UNCHANGED <<inside, home, prevArgs, ctx>>
           /\ \A n \in Nodes : Alive(n)' => Alive(n)
  BY <1>1, <1>2, <1>4, ScopeFrame DEF ScopeInv
<1>5. CASE UNCHANGED vars \/ CancelRun
  BY <1>4, <1>5 DEF vars, CancelRun, Alive
<1>6. ASSUME NEW n \in Nodes, Step(n) PROVE ScopeInv'
  <2>1. CASE StartBatch(n)
    <3>1. UNCHANGED <<inside, prevArgs, ctx>> /\ Alive(n)
      BY <2>1 DEF StartBatch, Alive
    <3>2. OneChild'
      BY <1>2, <3>1 DEF OneChild, CtxOf
    <3>3. ASSUME NEW m \in Nodes, m \in Children(n) PROVE Homed(m)'
      <4>1. home'[m] = Scope(n)
        BY <2>1, <3>3 DEF StartBatch
      <4>2. Above[m] = Above[n] \cup {n}
        BY <3>3, ChildFacts
      <4>3. CASE n \in inside
        BY <3>1, <4>1, <4>2, <4>3 DEF Homed, Scope
      <4>4. CASE n \notin inside
        BY <1>2, <3>1, <4>1, <4>2, <4>4 DEF Homed, Scope
      <4> QED
        BY <4>3, <4>4
    <3>4. ASSUME NEW m \in Nodes, m \notin Children(n) PROVE Homed(m)'
      <4>1. home'[m] = home[m]
        BY <2>1, <3>4 DEF StartBatch
      <4>2. Alive(m)' => Alive(m)
        BY <2>1, <3>1, <3>4 DEF StartBatch, Alive
      <4> QED
        BY <1>2, <3>1, <4>1, <4>2 DEF Homed
    <3> QED
      BY <1>1, <3>2, <3>3, <3>4 DEF ScopeInv
  <2>2. CASE EnterChild(n)
    <3>1. inside = {} /\ ctx.args = NoNode
      BY <1>2, <2>2 DEF EnterChild, MayEnter, OneChild, CtxOf
    <3>2. inside' = {n} /\ ctx' = [depth |-> 1, args |-> n]
      BY <2>2, <3>1 DEF EnterChild
    <3>3. prevArgs'[n] = NoNode
      BY <1>3, <2>2, <3>1 DEF EnterChild, TypeOK
    <3>4. OneChild'
      BY <3>2, <3>3 DEF OneChild, CtxOf
    <3>5. UNCHANGED <<pc, home>>
      BY <2>2 DEF EnterChild
    <3>6. \A m \in Nodes : Homed(m)'
      BY <1>2, <3>1, <3>5 DEF Homed, Alive
    <3> QED
      BY <1>1, <3>4, <3>6 DEF ScopeInv
  <2>3. CASE LeaveChild(n)
    <3>1. inside = {n} /\ prevArgs[n] = NoNode
      BY <1>2, <2>3 DEF LeaveChild, OneChild, CtxOf
    <3>2. OneChild'
      BY <2>3, <3>1 DEF LeaveChild, OneChild
    <3>3. UNCHANGED <<pc, home>> /\ ~ Waits(n)
      BY <2>3 DEF LeaveChild, Waits
    <3>4. \A m \in Nodes : Alive(m) => n \notin Above[m]
      BY <1>3, <3>3 DEF NothingOutlives, Waits
    <3>5. \A m \in Nodes : Homed(m)'
      BY <1>2, <3>1, <3>3, <3>4 DEF Homed, Alive
    <3> QED
      BY <1>1, <3>2, <3>5 DEF ScopeInv
  <2>4. CASE \/ Begin(n) \/ CancelUnstarted(n) \/ Interrupt(n) \/ Handle(n)
             \/ GatherReturns(n) \/ GatherRaises(n) \/ Settled(n)
             \/ \E r \in {"completed", "failed", "cancelled"} : Finish(n, r)
    <3>1. UNCHANGED <<inside, home, prevArgs, ctx>>
      BY <2>4 DEF Begin, CancelUnstarted, Interrupt, Handle, GatherReturns,
                  GatherRaises, Settled, Finish
    <3>2. Alive(n) /\ \E p \in PCs : Goto(n, p)
      BY <2>4 DEF Begin, CancelUnstarted, Interrupt, Handle, GatherReturns,
                  GatherRaises, Settled, Finish, Alive, PCs
    <3>3. \A m \in Nodes : Alive(m)' => Alive(m)
      BY <1>3, <3>2 DEF Goto, Alive, TypeOK
    <3> QED
      BY <1>4, <3>1, <3>3
  <2>5. CASE PassOn(n)
    <3>1. UNCHANGED <<pc, inside, home, prevArgs, ctx>>
      BY <2>5 DEF PassOn
    <3> QED
      BY <1>4, <3>1 DEF Alive
  <2> QED
    BY <1>6, <2>1, <2>2, <2>3, <2>4, <2>5, StepCases
<1> QED
  BY <1>5, <1>6 DEF Next, Step

\* A child workflow and all its branches see the child's own args.
THEOREM ChildSeesItsArgs == Spec => []ChildArgs
<1>1. ScopeInv => ChildArgs
  BY DEF ScopeInv, ChildArgs, Homed, Scope, OneChild, CtxOf
<1> QED
  BY ScopeInit, ScopeStep, <1>1, PTL DEF Spec

\* When no child workflow is under way, however the last one ended, the context
\* is the outer script's.
THEOREM OuterContextRestored == Spec => []ContextRestored
<1>1. ScopeInv => ContextRestored
  BY DEF ScopeInv, ContextRestored, OneChild, CtxOf
<1> QED
  BY ScopeInit, ScopeStep, <1>1, PTL DEF Spec

-----------------------------------------------------------------------------
(***************************************************************************)
(* The report.  What a batch returned is recorded, results are final, and  *)
(* nothing is recorded any more once the script is over: its batches are.  *)
(***************************************************************************)

ReportInv ==
    /\ \A n \in returned : \A c \in Children(n) :
          result[c] # "none" /\ (result[c] = "failed" => c \in failures)
    /\ report = "completed" => pc[Root] = "done" /\ failures = {}

\* Results are written once, by a node that ends.
LEMMA ResultsFinal ==
  ASSUME TypeOK, [Next]_vars, NEW n \in Nodes, result[n] # "none"
  PROVE  pc[n] = "done" /\ pc'[n] = "done" /\ result'[n] = result[n]
<1>0. pc[n] = "done"
  BY DEF TypeOK
<1>1. ASSUME NEW m \in Nodes, Step(m)
      PROVE  pc'[n] = "done" /\ result'[n] = result[n]
  <2>1. CASE StartBatch(m)
    BY <1>0, <2>1 DEF StartBatch, Children
  <2>2. CASE ~ StartBatch(m)
    <3>1. pc[m] # "done" \/ (pc' = pc /\ result' = result)
      BY <1>1, <2>2, StepCases
      DEF Begin, CancelUnstarted, Interrupt, Handle, PassOn, GatherReturns,
          GatherRaises, Settled, EnterChild, LeaveChild, Finish
    <3>2. /\ pc' = pc \/ \E p : pc' = [pc EXCEPT ![m] = p]
          /\ result' = result \/ \E r : result' = [result EXCEPT ![m] = r]
      BY <1>1, <2>2, StepCases
      DEF Begin, CancelUnstarted, Interrupt, Handle, PassOn, GatherReturns,
          GatherRaises, Settled, EnterChild, LeaveChild, Finish, Goto
    <3> QED
      BY <1>0, <3>1, <3>2 DEF TypeOK
  <2> QED
    BY <2>1, <2>2
<1>2. CASE CancelRun
  BY <1>0, <1>2 DEF CancelRun
<1>3. CASE UNCHANGED vars
  BY <1>0, <1>3 DEF vars
<1> QED
  BY <1>0, <1>1, <1>2, <1>3 DEF Next, Step

LEMMA ReportStep == TreeInv /\ ReportInv /\ [Next]_vars => ReportInv'
<1> SUFFICES ASSUME TreeInv, ReportInv, [Next]_vars PROVE ReportInv'
  OBVIOUS
<1>0. TypeOK /\ NothingOutlives
  BY DEF TreeInv
<1>1. ASSUME NEW n \in Nodes, GatherReturns(n)
      PROVE  ReportInv'
  <2>1. /\ returned' = returned \cup {n} /\ result' = result
        /\ failures' = failures \cup {c \in Children(n) : result[c] = "failed"}
        /\ \A c \in Children(n) : result[c] \in {"completed", "failed"}
        /\ report' = report /\ pc[n] = "gathering"
    BY <1>1 DEF GatherReturns
  <2>2. pc[Root] # "done"
    <3>1. CASE n = Root
      BY <2>1, <3>1
    <3>2. CASE n # Root
      <4>1. Alive(n) /\ Root \in Above[n]
        BY <2>1, <3>2, TreeAssumption DEF Alive
      <4> QED
        BY <1>0, <4>1 DEF NothingOutlives
    <3> QED
      BY <3>1, <3>2
  <2> QED
    BY <2>1, <2>2 DEF ReportInv
<1>2. ASSUME UNCHANGED <<returned, failures>>, report' # "completed" \/
             (report' = report) \/ (pc'[Root] = "done" /\ failures = {})
      PROVE  ReportInv'
  <2>1. \A n \in returned : \A c \in Children(n) : result'[c] = result[c]
    BY <1>0, ResultsFinal DEF ReportInv, Children
  <2>2. report = "completed" => pc'[Root] = "done"
    <3>1. pc[Root] = "done" => result[Root] # "none"
      BY <1>0, NodeAssumption DEF TypeOK
    <3> QED
      BY <1>0, <3>1, ResultsFinal, NodeAssumption DEF ReportInv
  <2> QED
    BY <1>2, <2>1, <2>2 DEF ReportInv
<1>3. ASSUME NEW n \in Nodes, NEW r \in {"completed", "failed", "cancelled"},
             Finish(n, r)
      PROVE  ReportInv'
  <2>1. CASE n = Root
    <3>1. report' = StatusOf(r) /\ pc'[Root] = "done"
      BY <1>0, <1>3, <2>1 DEF Finish, Goto, TypeOK
    <3>2. report' = "completed" => failures = {}
      BY <3>1 DEF StatusOf
    <3> QED
      BY <1>2, <1>3, <3>1, <3>2 DEF Finish
  <2>2. CASE n # Root
    BY <1>2, <1>3, <2>2 DEF Finish
  <2> QED
    BY <2>1, <2>2
<1>4. ASSUME NEW n \in Nodes, Step(n), ~ GatherReturns(n),
             \A r \in {"completed", "failed", "cancelled"} : ~ Finish(n, r)
      PROVE  ReportInv'
  <2>1. UNCHANGED <<returned, failures, report>>
    BY <1>4, StepCases
    DEF Begin, CancelUnstarted, Interrupt, Handle, StartBatch, PassOn,
        GatherRaises, Settled, EnterChild, LeaveChild
  <2> QED
    BY <1>2, <2>1
<1>5. CASE CancelRun
  BY <1>2, <1>5 DEF CancelRun
<1>6. CASE UNCHANGED vars
  BY <1>2, <1>6 DEF vars
<1> QED
  BY <1>1, <1>3, <1>4, <1>5, <1>6 DEF Next, Step

-----------------------------------------------------------------------------
(***************************************************************************)
(* Failures that no batch returned.  Such a branch, like a cancelled one,  *)
(* keeps every node above it from completing, unless one of them handles   *)
(* the CancelledError: its own batch cannot return, the node of that batch *)
(* unwinds and ends cancelled, and so on to the root.                      *)
(***************************************************************************)

\* Its batch has not returned and, once it is cancelled, cannot.
Broken(c) ==
    \/ result[c] = "cancelled"
    \/ result[c] = "failed" /\ Parent[c] \notin returned

\* The node still waits for its batch, or its script is on the way out.
GoesDown(a) == Waits(a) \/ pc[a] = "unwinding" \/ result[a] = "cancelled"

LostInv ==
    \A c \in Nodes : Broken(c) /\ Above[c] \cap Handles = {} =>
        \A a \in Above[c] : GoesDown(a)

RootInv == report = "completed" => result[Root] = "completed"

\* A node on the way to a broken branch is no "completed" or "failed" child.
LEMMA BatchBroken ==
  ASSUME TypeOK, LostInv, NEW c \in Nodes, Broken(c), Above[c] \cap Handles = {},
         NEW n \in Above[c], GatherReturns(n)
  PROVE  Parent[c] = n /\ result[c] = "failed"
<1>1. c # Root
  BY TreeAssumption
<1>2. PICK d \in Nodes : Parent[d] = n /\ (d = c \/ d \in Above[c])
  BY <1>1, TreeAssumption
<1>3. result[d] \in {"completed", "failed"}
  BY <1>2 DEF GatherReturns, Children
<1>4. d \notin Above[c]
  BY <1>3 DEF LostInv, GoesDown, Waits, TypeOK
<1> QED
  BY <1>2, <1>3, <1>4 DEF Broken

\* A step of a node above a broken branch leaves it on its way.
LEMMA DownStep ==
  ASSUME TypeOK, NEW a \in Nodes, GoesDown(a), a \notin Handles,
         [Next]_vars, ~ GatherReturns(a)
  PROVE  GoesDown(a)'
<1>1. CASE result[a] = "cancelled"
  <2>1. result'[a] = result[a]
    BY <1>1, ResultsFinal
  <2> QED
    BY <1>1, <2>1 DEF GoesDown
<1>2. CASE Waits(a) \/ pc[a] = "unwinding"
  <2>0. pc \in [Nodes -> PCs] /\ result \in [Nodes ->
              {"none", "completed", "failed", "cancelled"}]
    BY DEF TypeOK
  <2>1. CASE UNCHANGED vars \/ CancelRun
    BY <1>2, <2>1 DEF vars, CancelRun, GoesDown, Waits
  <2>2. ASSUME NEW n \in Nodes, Step(n) PROVE GoesDown(a)'
    <3>1. CASE pc'[a] = pc[a]
      BY <1>2, <3>1 DEF GoesDown, Waits
    <3>2. CASE StartBatch(n)
      BY <1>2, <2>0, <3>2 DEF StartBatch, Children, GoesDown, Waits
    <3>3. CASE Begin(n) \/ CancelUnstarted(n)
      <4>1. n # a /\ \E p : Goto(n, p)
        BY <1>2, <3>3 DEF Begin, CancelUnstarted, Waits
      <4> QED
        BY <2>0, <3>1, <4>1 DEF Goto
    <3>4. CASE Handle(n)
      <4>1. n # a /\ \E p : Goto(n, p)
        BY <3>4 DEF Handle
      <4> QED
        BY <2>0, <3>1, <4>1 DEF Goto
    <3>5. CASE GatherReturns(n)
      <4>1. n # a /\ \E p : Goto(n, p)
        BY <3>5 DEF GatherReturns
      <4> QED
        BY <2>0, <3>1, <4>1 DEF Goto
    <3>6. CASE Interrupt(n) \/ GatherRaises(n) \/ Settled(n)
      <4>1. \E p \in {"unwinding", "settling"} : Goto(n, p)
        BY <3>6 DEF Interrupt, GatherRaises, Settled
      <4> QED
        BY <2>0, <3>1, <4>1 DEF Goto, GoesDown, Waits
    <3>7. CASE PassOn(n) \/ EnterChild(n) \/ LeaveChild(n)
      BY <3>1, <3>7 DEF PassOn, EnterChild, LeaveChild
    <3>8. ASSUME NEW r \in {"completed", "failed", "cancelled"}, Finish(n, r)
          PROVE  GoesDown(a)'
      <4>1. CASE n # a
        BY <2>0, <3>1, <3>8, <4>1 DEF Finish, Goto
      <4>2. CASE n = a
        <5>1. r = "cancelled"
          BY <1>2, <3>8, <4>2 DEF Finish, Waits
        <5> QED
          BY <2>0, <3>8, <4>2, <5>1 DEF Finish, GoesDown
      <4> QED
        BY <4>1, <4>2
    <3> QED
      BY <2>2, <3>2, <3>3, <3>4, <3>5, <3>6, <3>7, <3>8, StepCases
  <2> QED
    BY <2>1, <2>2 DEF Next, Step
<1> QED
  BY <1>1, <1>2 DEF GoesDown

\* Whoever becomes broken was alive, or its batch is unchanged.
LEMMA BrokenBefore ==
  ASSUME TypeOK, [Next]_vars, NEW c \in Nodes, Broken(c)', ~ Broken(c)
  PROVE  Alive(c)
<1>1. result[c] # "none" => result'[c] = result[c]
  BY ResultsFinal
<1>2. returned \subseteq returned'
  <2>1. ASSUME NEW n \in Nodes, Step(n) PROVE returned \subseteq returned'
    BY <2>1, StepCases
    DEF Begin, CancelUnstarted, Interrupt, Handle, StartBatch, PassOn,
        GatherReturns, GatherRaises, Settled, EnterChild, LeaveChild, Finish
  <2> QED
    BY <2>1 DEF Next, Step, CancelRun, vars
<1>3. result[c] = "none" /\ result'[c] # "none"
  BY <1>1, <1>2 DEF Broken
<1>4. ASSUME pc[c] = "unborn" PROVE FALSE
  <2>1. ASSUME NEW n \in Nodes, Step(n) PROVE result'[c] = result[c]
    <3>1. \/ result' = result
          \/ pc[n] # "unborn" /\ \E r : result' = [result EXCEPT ![n] = r]
      BY <2>1, StepCases
      DEF Begin, CancelUnstarted, Interrupt, Handle, StartBatch, PassOn,
          GatherReturns, GatherRaises, Settled, EnterChild, LeaveChild, Finish
    <3> QED
      BY <1>4, <3>1 DEF TypeOK
  <2>2. result'[c] = result[c]
    BY <2>1 DEF Next, Step, CancelRun, vars
  <2> QED
    BY <1>3, <2>2
<1> QED
  BY <1>3, <1>4 DEF Alive, TypeOK

LEMMA LostStep == TreeInv /\ LostInv /\ [Next]_vars => LostInv'
<1> SUFFICES ASSUME TreeInv, LostInv, [Next]_vars, NEW c \in Nodes, Broken(c)',
                    Above[c] \cap Handles = {}, NEW a \in Above[c]
             PROVE  GoesDown(a)'
  BY DEF LostInv
<1>0. TypeOK /\ NothingOutlives /\ a \in Nodes /\ a \notin Handles
  BY TreeAssumption DEF TreeInv
<1>1. GoesDown(a)
  <2>1. CASE Broken(c)
    BY <2>1 DEF LostInv
  <2>2. CASE ~ Broken(c)
    <3>1. Alive(c)
      BY <1>0, <2>2, BrokenBefore
    <3> QED
      BY <1>0, <3>1 DEF NothingOutlives, GoesDown, Waits
  <2> QED
    BY <2>1, <2>2
<1>2. CASE ~ GatherReturns(a)
  BY <1>0, <1>1, <1>2, DownStep
<1>3. CASE GatherReturns(a)
  <2>1. result' = result /\ returned' = returned \cup {a}
    BY <1>3 DEF GatherReturns
  <2>2. Broken(c)
    BY <2>1 DEF Broken
  <2>3. Parent[c] = a /\ result[c] = "failed"
    BY <1>0, <1>3, <2>2, BatchBroken
  <2> QED
    BY <2>1, <2>3 DEF Broken
<1> QED
  BY <1>2, <1>3

LEMMA RootStep == TypeOK /\ RootInv /\ [Next]_vars => RootInv'
<1> SUFFICES ASSUME TypeOK, RootInv, [Next]_vars, report' = "completed"
             PROVE  result'[Root] = "completed"
  BY DEF RootInv
<1>1. CASE report = "completed"
  <2>1. result[Root] = "completed"
    BY <1>1 DEF RootInv
  <2> QED
    BY <2>1, ResultsFinal, NodeAssumption
<1>2. CASE report # "completed"
  <2>1. ASSUME NEW n \in Nodes, Step(n) PROVE result'[Root] = "completed"
    <3>1. PICK r \in {"completed", "failed", "cancelled"} : Finish(n, r)
      BY <1>2, <2>1, StepCases
      DEF Begin, CancelUnstarted, Interrupt, Handle, StartBatch, PassOn,
          GatherReturns, GatherRaises, Settled, EnterChild, LeaveChild
    <3>2. n = Root /\ StatusOf(r) = "completed"
      BY <1>2, <3>1 DEF Finish
    <3>3. r = "completed"
      BY <3>2 DEF StatusOf
    <3> QED
      BY <3>1, <3>2, <3>3, NodeAssumption DEF Finish, TypeOK
  <2> QED
    BY <1>2, <2>1 DEF Next, Step, CancelRun, vars
<1> QED
  BY <1>1, <1>2

\* Whatever fails in a tree of batches keeps the run from being reported
\* completed, unless its batch raised a CancelledError and a script above it
\* carried on; a failure in a batch that returned does so without exception.
THEOREM FailuresAreReported == Spec => []FailureReported
<1>1. Init => ReportInv /\ LostInv /\ RootInv
  BY DEF Init, ReportInv, LostInv, RootInv, Broken
<1>2. TreeInv /\ RootInv /\ [Next]_vars => RootInv'
  BY RootStep DEF TreeInv
<1>3. Spec => [](TreeInv /\ ReportInv /\ LostInv /\ RootInv)
  BY <1>1, <1>2, TreeInit, TreeStep, ReportStep, LostStep, PTL DEF Spec
<1>4. TreeInv /\ ReportInv /\ LostInv /\ RootInv => FailureReported
  <2> SUFFICES ASSUME TreeInv, ReportInv, LostInv, RootInv, report = "completed",
                      NEW n \in Nodes, result[n] = "failed"
               PROVE  Parent[n] \notin returned /\ Above[n] \cap Handles # {}
    BY DEF FailureReported
  <2>1. /\ result[Root] = "completed" /\ pc[Root] = "done" /\ failures = {}
        /\ n # Root
    BY DEF RootInv, ReportInv
  <2>2. Parent[n] \notin returned
    BY <2>1 DEF ReportInv, Children
  <2>3. ASSUME Above[n] \cap Handles = {} PROVE FALSE
    <3>1. GoesDown(Root)
      BY <2>1, <2>2, <2>3, TreeAssumption DEF LostInv, Broken
    <3> QED
      BY <2>1, <3>1 DEF GoesDown, Waits
  <2> QED
    BY <2>2, <2>3
<1> QED
  BY <1>3, <1>4, PTL
=============================================================================
