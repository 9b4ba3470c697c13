--------------------------- MODULE WorkflowProofs ---------------------------
(***************************************************************************)
(* Theorems about Workflow, for every script and every value of the other  *)
(* constants.                                                              *)
(***************************************************************************)
EXTENDS Workflow, FiniteSetTheorems, TLAPS

-----------------------------------------------------------------------------
(***************************************************************************)
(* The journal's operations keep its type.                                 *)
(***************************************************************************)

LEMMA NoEntryType == NoEntry \in Entries /\ NoEntries \in [Positions -> Entries]
  BY DEF NoEntry, NoEntries, Entries, Kinds

LEMMA InvalidateFromType ==
  ASSUME NEW j \in Journals, NEW s \in 0 .. MaxCalls
  PROVE  InvalidateFrom(j, s) \in Journals
  BY NoEntryType, MaxCallsAssumption DEF InvalidateFrom, Journals, Positions

LEMMA AfterLookupType ==
  ASSUME NEW j \in Journals, NEW s \in 0 .. MaxCalls, NEW k
  PROVE  AfterLookup(j, s, k) \in Journals
  BY InvalidateFromType DEF AfterLookup

LEMMA LookupType ==
  ASSUME NEW j \in Journals, NEW s \in 0 .. MaxCalls, NEW k
  PROVE  Lookup(j, s, k) \in Entries
  BY NoEntryType, MaxCallsAssumption DEF Lookup, Reusable, Journals, Positions

LEMMA AppendEntryType ==
  ASSUME NEW j \in Journals, NEW s, NEW e \in Entries
  PROVE  AppendEntry(j, s, e) \in Journals
  BY DEF AppendEntry, Journals

LEMMA SnapshotType ==
  ASSUME NEW j \in Journals
  PROVE  Snapshot(j) \in Snapshots
  BY DEF Snapshot, Journals, Snapshots

LEMMA ResumedJournalType ==
  ASSUME NEW d \in Snapshots, NEW f \in Fingerprints
  PROVE  ResumedJournal(d, f) \in Journals
  BY NoEntryType, MaxCallsAssumption
  DEF ResumedJournal, Snapshots, Journals, Unlimited

LEMMA SaveType ==
  ASSUME TypeOK, NEW j \in Journals, NEW saved, Save(j, saved)
  PROVE  journal' \in Journals /\ disk' \in Snapshots
  BY SnapshotType DEF Save, TypeOK

LEMMA KeyType ==
  ASSUME TypeOK, NEW t \in Tasks
  PROVE  KeyOf(t) \in Keys
  BY BoundAssumption DEF KeyOf, Keys, TypeOK

LEMMA EntryType ==
  ASSUME TypeOK, NEW t \in Tasks, NEW kind \in Kinds,
         NEW r \in Results \cup {NoResult}
  PROVE  EntryFor(t, kind, r) \in Entries
  BY DEF EntryFor, Entries, TypeOK, Journals

LEMMA IntentType ==
  ASSUME TypeOK, NEW t \in Tasks, seq[t] # NoSeq
  PROVE  WithIntent(t) \in Journals
<1>1. seq[t] \in 0 .. MaxCalls /\ seq[t] \in Positions
  BY MaxCallsAssumption DEF TypeOK, Positions, NoSeq
<1>2. InvalidateFrom(journal, seq[t]) \in Journals
  BY <1>1, InvalidateFromType DEF TypeOK
<1>3. EntryFor(t, "pending", NoResult) \in Entries
  BY EntryType DEF Kinds
<1> DEFINE J == [InvalidateFrom(journal, seq[t]) EXCEPT !.effectful =
                    IF Effectful(t) THEN @ \cup {seq[t]} ELSE @]
<1>4. J \in Journals
  BY <1>1, <1>2 DEF Journals
<1> QED
  BY <1>3, <1>4, AppendEntryType DEF WithIntent

-----------------------------------------------------------------------------
(***************************************************************************)
(* Type correctness.  It needs to know that a call which journals has a    *)
(* position; that positions are distinct is what later proofs need.        *)
(***************************************************************************)

Placed ==
    /\ \A t \in Tasks : pc[t] \notin {"idle", "failed"} => seq[t] # NoSeq
    /\ \A t \in Tasks : pc[t] = "idle" => seq[t] = NoSeq
    /\ \A t \in Tasks : seq[t] # NoSeq => seq[t] < nextSeq
    /\ \A t, u \in Tasks : seq[t] = seq[u] /\ seq[t] # NoSeq => t = u

TypeInv == TypeOK /\ Placed

LEMMA FreshTyped ==
  ASSUME FreshContext
  PROVE  /\ nextSeq' \in 0 .. MaxCalls
         /\ pc' \in [Tasks -> PCs]
         /\ seq' \in [Tasks -> 0 .. MaxCalls]
         /\ key' \in [Tasks -> Keys \cup {NoKey}]
         /\ held' \in [Tasks -> Entries]
         /\ usable' \in [Tasks -> BOOLEAN]
         /\ asks' \in [Tasks -> Nat]
         /\ outputs' \in [Tasks -> Results \cup {NoResult}]
         /\ phases' \in Seq(Tasks)
         /\ marred' \in BOOLEAN
         /\ reentered' \subseteq Tasks
         /\ budget' \in [calls : Nat, output : Nat, unknown : Nat]
         /\ slots' \in Nat
         /\ Placed'
<1>1. held' \in [Tasks -> Entries]
  BY NoEntryType DEF FreshContext
<1>2. phases' \in Seq(Tasks)
  BY DEF FreshContext
<1>3. Placed'
  BY DEF FreshContext, Placed
<1>4. usable' \in [Tasks -> BOOLEAN] /\ marred' \in BOOLEAN
  BY Zenon DEF FreshContext
<1> QED
  BY <1>1, <1>2, <1>3, <1>4, MaxCallsAssumption, BoundAssumption
  DEF FreshContext, PCs, NoSeq

LEMMA TypeInit == Init => TypeInv
<1> SUFFICES ASSUME Init PROVE TypeInv
  OBVIOUS
<1>1. journal \in Journals
  <2>1. PICK f \in Fingerprints : journal = NewJournal(f)
    BY DEF Init
  <2> QED
    BY <2>1, NoEntryType, MaxCallsAssumption
    DEF NewJournal, Journals, Unlimited, Terminals
<1>2. disk \in Snapshots
  BY NoEntryType DEF Init, NoSnapshot, Snapshots, Terminals
<1>3. held \in [Tasks -> Entries] /\ phases \in Seq(Tasks)
  BY NoEntryType DEF Init
<1>4. Placed
  BY DEF Init, Placed
<1>5. usable \in [Tasks -> BOOLEAN] /\ marred \in BOOLEAN /\ alive \in BOOLEAN
  BY Zenon DEF Init
<1>6. /\ pc \in [Tasks -> PCs]
      /\ seq \in [Tasks -> 0 .. MaxCalls]
      /\ nextSeq \in 0 .. MaxCalls
      /\ key \in [Tasks -> Keys \cup {NoKey}]
      /\ asks \in [Tasks -> Nat]
      /\ outputs \in [Tasks -> Results \cup {NoResult}]
      /\ budget \in [calls : Nat, output : Nat, unknown : Nat]
  BY MaxCallsAssumption DEF Init, PCs, NoSeq
<1> QED
  BY <1>1, <1>2, <1>3, <1>4, <1>5, <1>6, MaxCallsAssumption, BoundAssumption
  DEF Init, TypeInv, TypeOK, Terminals

\* What the script's call of agent() does up to the first await.
LEMMA TypeCalls ==
  ASSUME TypeInv, NEW t \in Tasks
  PROVE  /\ PreflightFails(t) => TypeInv'
         /\ Call(t) => TypeInv'
         /\ \A accepts, called \in BOOLEAN :
                Verdict(t, accepts, called) => TypeInv'
<1> USE DEF TypeInv
<1>1. ASSUME PreflightFails(t) PROVE TypeInv'
  BY <1>1 DEF PreflightFails, Reached, At, TypeOK, Placed, PCs
<1>2. ASSUME Call(t) PROVE TypeInv'
  <2> DEFINE k == KeyOf(t)
  <2>1. nextSeq \in 0 .. MaxCalls /\ nextSeq < MaxCalls /\ nextSeq \in Positions
    BY <1>2, MaxCallsAssumption DEF Call, CapReached, TypeOK, Positions
  <2>2. KeyOf(t) \in Keys
    BY KeyType
  <2>3. Lookup(journal, nextSeq, KeyOf(t)) \in Entries
    BY <2>1, LookupType DEF TypeOK
  <2>4. AfterLookup(journal, nextSeq, KeyOf(t)) \in Journals
    BY <2>1, AfterLookupType DEF TypeOK
  <2>5. /\ journal' \in Journals
        /\ key' \in [Tasks -> Keys \cup {NoKey}]
        /\ held' \in [Tasks -> Entries]
    BY <1>2, <2>2, <2>3, <2>4 DEF Call, TypeOK
  <2>6. usable' \in [Tasks -> BOOLEAN] /\ pc' \in [Tasks -> PCs]
    BY <1>2 DEF Call, TypeOK, PCs
  <2>7. /\ seq' = [seq EXCEPT ![t] = nextSeq]
        /\ nextSeq' = nextSeq + 1
    BY <1>2 DEF Call
  <2>8. Placed'
    <3>1. pc[t] = "idle" /\ seq[t] = NoSeq
      BY <1>2 DEF Call, Reached, At, Placed
    <3>2. \A u \in Tasks \ {t} : pc'[u] = pc[u]
      BY <1>2 DEF Call, TypeOK
    <3>3. pc'[t] # "idle"
      BY <1>2 DEF Call, TypeOK
    <3> QED
      BY SMTT(30), <2>1, <2>7, <3>1, <3>2, <3>3 DEF Placed, TypeOK, NoSeq
  <2> QED
    <3>1. /\ nextSeq' \in 0 .. MaxCalls
          /\ seq' \in [Tasks -> 0 .. MaxCalls]
      BY <2>1, <2>7, MaxCallsAssumption DEF TypeOK
    <3>2. UNCHANGED <<alive, run, status, disk, asks, outputs, phases, marred,
                      budget, slots, acted, reentered>>
      BY <1>2 DEF Call
    <3> QED
      BY <2>5, <2>6, <2>8, <3>1, <3>2 DEF TypeOK
<1>3. ASSUME NEW accepts \in BOOLEAN, NEW called \in BOOLEAN,
             Verdict(t, accepts, called)
      PROVE  TypeInv'
  BY <1>3 DEF Verdict, At, TypeOK, Placed, PCs
<1> QED
  BY <1>1, <1>2, <1>3

\* The cache decision.
LEMMA TypeDecisions ==
  ASSUME TypeInv, NEW t \in Tasks
  PROVE  /\ Reuse(t) => TypeInv'
         /\ RefuseUnsafe(t) => TypeInv'
         /\ OverBudget(t) => TypeInv'
         /\ CancelUndecided(t) => TypeInv'
         /\ \A saved \in BOOLEAN : GoLive(t, saved) => TypeInv'
<1> USE DEF TypeInv
<1>0. InvalidateFrom(journal, seq[t]) \in Journals
  BY InvalidateFromType DEF TypeOK
<1>1. ASSUME Reuse(t) PROVE TypeInv'
  <2>1. held[t].result \in Results \cup {NoResult}
    BY DEF TypeOK, Entries
  <2>2. phases' \in Seq(Tasks)
    BY <1>1 DEF Reuse, AppendPhase, TypeOK
  <2>3. TypeOK'
    BY <1>1, <2>1, <2>2 DEF Reuse, TypeOK, PCs
  <2>4. Placed'
    BY <1>1 DEF Reuse, Gate, At, Placed, TypeOK
  <2> QED
    BY <2>3, <2>4
<1>2. ASSUME RefuseUnsafe(t) PROVE TypeInv'
  BY <1>0, <1>2 DEF RefuseUnsafe, Gate, At, TypeOK, Placed, PCs
<1>3. ASSUME OverBudget(t) PROVE TypeInv'
  BY <1>0, <1>3 DEF OverBudget, Gate, At, TypeOK, Placed, PCs
<1>4. ASSUME CancelUndecided(t) PROVE TypeInv'
  BY <1>0, <1>4 DEF CancelUndecided, At, TypeOK, Placed, PCs
<1>5. ASSUME NEW saved \in BOOLEAN, GoLive(t, saved) PROVE TypeInv'
  <2>1. seq[t] # NoSeq
    BY <1>5 DEF GoLive, Gate, At, Placed
  <2>2. journal' \in Journals /\ disk' \in Snapshots
    BY <1>5, <2>1, IntentType, SaveType DEF GoLive
  <2>3. phases' \in Seq(Tasks)
    <3>1. phases' = phases \/ phases' = Append(phases, t)
      BY <1>5 DEF GoLive, AppendPhase
    <3>2. phases \in Seq(Tasks)
      BY DEF TypeOK
    <3> QED
      BY <3>1, <3>2
  <2>4. pc' \in [Tasks -> PCs]
    BY <1>5 DEF GoLive, TypeOK, PCs
  <2>7. budget' \in [calls : Nat, output : Nat, unknown : Nat]
    <3>1. budget' = [budget EXCEPT !.calls = @ + 1]
      BY <1>5 DEF GoLive
    <3>2. budget \in [calls : Nat, output : Nat, unknown : Nat]
      BY DEF TypeOK
    <3> QED
      BY <3>1, <3>2
  <2>6. marred' \in BOOLEAN
    BY <1>5, Zenon DEF GoLive, TypeOK
  <2>5. Placed'
    BY <1>5, <2>1 DEF GoLive, Gate, At, Placed, TypeOK
  <2> QED
    BY <1>5, <2>2, <2>3, <2>4, <2>5, <2>6, <2>7
    DEF GoLive, TypeOK
<1> QED
  BY <1>1, <1>2, <1>3, <1>4, <1>5

\* A live call that raises.
LEMMA TypeRaise ==
  ASSUME TypeInv, NEW t \in Tasks, NEW saved \in BOOLEAN, Raise(t, saved),
         seq[t] # NoSeq, slots' \in Nat,
         budget' \in [calls : Nat, output : Nat, unknown : Nat]
  PROVE  TypeInv'
<1> USE DEF TypeInv
<1>1. EntryFor(t, "error", NoResult) \in Entries
  BY EntryType DEF Kinds
<1>2. AppendEntry(journal, seq[t], EntryFor(t, "error", NoResult)) \in Journals
  BY <1>1, AppendEntryType DEF TypeOK
<1>3. journal' \in Journals /\ disk' \in Snapshots
  BY <1>2, SaveType DEF Raise
<1>4. Placed'
  BY DEF Raise, Placed, TypeOK
<1>5. /\ pc' \in [Tasks -> PCs]
      /\ marred' \in BOOLEAN
      /\ UNCHANGED <<alive, run, status, nextSeq, seq, key, held, usable, asks,
                     outputs, phases, acted, reentered>>
  BY DEF Raise, TypeOK, PCs
<1> QED
  BY <1>3, <1>4, <1>5 DEF TypeOK

LEMMA UsageType ==
  ASSUME TypeOK, NEW u \in Usages
  PROVE  Charged(u) \in [calls : Nat, output : Nat, unknown : Nat]
<1>1. u.output \in Nat /\ u.unknown \in Nat
  BY UsageAssumption DEF Usage
<1>2. budget \in [calls : Nat, output : Nat, unknown : Nat]
  BY DEF TypeOK
<1>3. budget.output + u.output \in Nat /\ budget.unknown + u.unknown \in Nat
  BY <1>1, <1>2
<1>4. Charged(u) = [[budget EXCEPT !.output = budget.output + u.output]
                        EXCEPT !.unknown = budget.unknown + u.unknown]
  BY <1>2 DEF Charged
<1> QED
  BY <1>2, <1>3, <1>4

\* The live call.
LEMMA TypeLive ==
  ASSUME TypeInv, NEW t \in Tasks
  PROVE  /\ Dispatch(t) => TypeInv'
         /\ \A saved \in BOOLEAN :
                /\ SetupFails(t, saved) => TypeInv'
                /\ DispatchRefused(t, saved) => TypeInv'
                /\ CancelQueued(t, saved) => TypeInv'
<1> USE DEF TypeInv
<1>0. budget \in [calls : Nat, output : Nat, unknown : Nat] /\ slots \in Nat
  BY DEF TypeOK
<1>1. ASSUME Dispatch(t) PROVE TypeInv'
  <2>1. seq[t] # NoSeq /\ seq[t] \in Positions
    <3>1. seq[t] # NoSeq
      BY <1>1 DEF Dispatch, At, Placed
    <3>2. seq[t] \in 0 .. MaxCalls
      BY DEF TypeOK
    <3> QED
      BY <3>1, <3>2, MaxCallsAssumption DEF Positions, NoSeq
  <2>2. acted' \subseteq [pos : Positions, task : Tasks, run : 1 .. MaxRuns]
    <3>1. [pos |-> seq[t], task |-> t, run |-> run]
            \in [pos : Positions, task : Tasks, run : 1 .. MaxRuns]
      BY <2>1 DEF TypeOK
    <3>2. \/ acted' = acted
          \/ acted' = acted \cup {[pos |-> seq[t], task |-> t, run |-> run]}
      BY <1>1 DEF Dispatch
    <3>3. acted \subseteq [pos : Positions, task : Tasks, run : 1 .. MaxRuns]
      BY DEF TypeOK
    <3> QED
      BY <3>1, <3>2, <3>3
  <2>3. slots' \in Nat
    BY <1>0, <1>1 DEF Dispatch
  <2>4. asks' \in [Tasks -> Nat] /\ pc' \in [Tasks -> PCs]
    BY <1>1 DEF Dispatch, TypeOK, PCs
  <2>5. Placed'
    BY <1>1 DEF Dispatch, At, Placed, TypeOK
  <2>6. UNCHANGED <<alive, run, status, journal, disk, nextSeq, seq, key, held,
                    usable, outputs, phases, marred, budget, reentered>>
    BY <1>1 DEF Dispatch
  <2> QED
    BY <2>2, <2>3, <2>4, <2>5, <2>6 DEF TypeOK
<1>2. ASSUME NEW saved \in BOOLEAN, SetupFails(t, saved) PROVE TypeInv'
  BY <1>0, <1>2, TypeRaise DEF SetupFails, At, Placed
<1>3. ASSUME NEW saved \in BOOLEAN, DispatchRefused(t, saved) PROVE TypeInv'
  BY <1>0, <1>3, TypeRaise DEF DispatchRefused, At, Placed
<1>4. ASSUME NEW saved \in BOOLEAN, CancelQueued(t, saved) PROVE TypeInv'
  <2>1. budget' \in [calls : Nat, output : Nat, unknown : Nat]
    BY <1>0, <1>4 DEF CancelQueued
  <2> QED
    BY <1>0, <1>4, <2>1, TypeRaise DEF CancelQueued, At, Placed
<1> QED
  BY <1>1, <1>2, <1>3, <1>4

\* What a model's answer does.
LEMMA TypeAnswers ==
  ASSUME TypeInv, NEW t \in Tasks, NEW u \in Usages
  PROVE  /\ \A r \in Results, saved \in BOOLEAN :
                Answer(t, u, r, saved) => TypeInv'
         /\ Reask(t, u) => TypeInv'
         /\ \A saved \in BOOLEAN :
                /\ Exhaust(t, u, saved) => TypeInv'
                /\ CallFails(t, u, saved) => TypeInv'
<1> USE DEF TypeInv
<1>0. ASSUME Receive(t, u)
      PROVE  /\ budget' \in [calls : Nat, output : Nat, unknown : Nat]
             /\ slots' \in Nat
             /\ pc[t] = "running"
             /\ seq[t] # NoSeq
  <2>1. slots \in Nat
    BY DEF TypeOK
  <2> QED
    BY <1>0, <2>1, UsageType DEF Receive, At, Placed
<1>1. ASSUME NEW r \in Results, NEW saved \in BOOLEAN, Answer(t, u, r, saved)
      PROVE  TypeInv'
  <2>0. Receive(t, u)
    BY <1>1 DEF Answer
  <2>1. EntryFor(t, "ok", r) \in Entries
    BY EntryType DEF Kinds
  <2>2. AppendEntry(journal, seq[t], EntryFor(t, "ok", r)) \in Journals
    BY <2>1, AppendEntryType DEF TypeOK
  <2>3. journal' \in Journals /\ disk' \in Snapshots
    BY <1>1, <2>2, SaveType DEF Answer
  <2>4. /\ pc' \in [Tasks -> PCs]
        /\ outputs' \in [Tasks -> Results \cup {NoResult}]
    BY <1>1 DEF Answer, TypeOK, PCs
  <2>5. marred' \in BOOLEAN
    BY <1>1 DEF Answer
  <2>6. Placed'
    BY <1>0, <1>1, <2>0 DEF Answer, Placed, TypeOK
  <2>7. UNCHANGED <<alive, run, status, nextSeq, seq, key, held, usable, asks,
                    phases, acted, reentered>>
    BY <1>1 DEF Answer
  <2> QED
    BY <1>0, <2>0, <2>3, <2>4, <2>5, <2>6, <2>7 DEF TypeOK
<1>2. ASSUME Reask(t, u) PROVE TypeInv'
  <2>0. Receive(t, u)
    BY <1>2 DEF Reask
  <2>1. pc' \in [Tasks -> PCs] /\ Placed'
    BY <1>0, <1>2, <2>0 DEF Reask, TypeOK, PCs, Placed
  <2>2. UNCHANGED <<alive, run, status, journal, disk, nextSeq, seq, key, held,
                    usable, asks, outputs, phases, marred, acted,
                    reentered>>
    BY <1>2 DEF Reask
  <2> QED
    BY <1>0, <2>0, <2>1, <2>2 DEF TypeOK
<1>3. ASSUME NEW saved \in BOOLEAN, Exhaust(t, u, saved) PROVE TypeInv'
  <2>0. Receive(t, u)
    BY <1>3 DEF Exhaust
  <2>1. EntryFor(t, "none", NoResult) \in Entries
    BY EntryType DEF Kinds
  <2>2. AppendEntry(journal, seq[t], EntryFor(t, "none", NoResult)) \in Journals
    BY <2>1, AppendEntryType DEF TypeOK
  <2>3. journal' \in Journals /\ disk' \in Snapshots
    BY <1>3, <2>2, SaveType DEF Exhaust
  <2>4. pc' \in [Tasks -> PCs] /\ marred' \in BOOLEAN /\ Placed'
    BY <1>0, <1>3, <2>0 DEF Exhaust, TypeOK, PCs, Placed
  <2>5. UNCHANGED <<alive, run, status, nextSeq, seq, key, held, usable, asks,
                    outputs, phases, acted, reentered>>
    BY <1>3 DEF Exhaust
  <2> QED
    BY <1>0, <2>0, <2>3, <2>4, <2>5 DEF TypeOK
<1>4. ASSUME NEW saved \in BOOLEAN, CallFails(t, u, saved) PROVE TypeInv'
  BY <1>0, <1>4, TypeRaise DEF CallFails
<1> QED
  BY <1>1, <1>2, <1>3, <1>4

\* The ends and starts of executions.
LEMMA TypeExecutions ==
  ASSUME TypeInv
  PROVE  /\ \A outcome \in {"returned", "raised", "cancelled"},
                saved \in BOOLEAN : EndRun(outcome, saved) => TypeInv'
         /\ Crash => TypeInv'
         /\ \A f \in Fingerprints : Resume(f) => TypeInv'
<1> USE DEF TypeInv
<1>1. ASSUME NEW outcome \in {"returned", "raised", "cancelled"},
             NEW saved \in BOOLEAN, EndRun(outcome, saved)
      PROVE  TypeInv'
  <2>1. FinalStatus(outcome) \in Terminals
    BY DEF FinalStatus, Terminals
  <2>2. [journal EXCEPT !.terminal = FinalStatus(outcome)] \in Journals
    BY <2>1 DEF TypeOK, Journals
  <2>3. journal' \in Journals /\ disk' \in Snapshots
    BY <1>1, <2>2, SaveType DEF EndRun
  <2>4. alive' \in BOOLEAN /\ status' \in Terminals \cup {"crashed"}
    BY <1>1, <2>1 DEF EndRun
  <2>5. FreshContext /\ UNCHANGED <<run, acted>>
    BY <1>1 DEF EndRun
  <2> QED
    BY <2>3, <2>4, <2>5, FreshTyped DEF TypeOK
<1>2. ASSUME Crash PROVE TypeInv'
  <2>1. /\ alive' \in BOOLEAN
        /\ status' \in Terminals \cup {"crashed"}
        /\ FreshContext
        /\ UNCHANGED <<run, journal, disk, acted>>
    BY <1>2 DEF Crash
  <2> QED
    BY <2>1, FreshTyped DEF TypeOK
<1>3. ASSUME NEW f \in Fingerprints, Resume(f) PROVE TypeInv'
  <2>1. journal' \in Journals
    BY <1>3, ResumedJournalType DEF Resume, TypeOK
  <2>2. run' \in 1 .. MaxRuns
    BY <1>3, BoundAssumption DEF Resume, TypeOK
  <2>3. /\ alive' \in BOOLEAN
        /\ status' \in Terminals \cup {"crashed"}
        /\ FreshContext
        /\ UNCHANGED <<disk, acted>>
    BY <1>3 DEF Resume, Terminals
  <2> QED
    BY <2>1, <2>2, <2>3, FreshTyped DEF TypeOK
<1> QED
  BY <1>1, <1>2, <1>3

LEMMA TypeStep == TypeInv /\ [Next]_vars => TypeInv'
<1> SUFFICES ASSUME TypeInv, [Next]_vars PROVE TypeInv'
  OBVIOUS
<1>1. ASSUME NEW t \in Tasks, TaskStep(t) PROVE TypeInv'
  BY <1>1, TypeCalls, TypeDecisions, TypeLive, TypeAnswers DEF TaskStep
<1>2. ASSUME NEW t \in Tasks, Disturbance(t) PROVE TypeInv'
  BY <1>2, TypeCalls, TypeDecisions, TypeLive DEF Disturbance
<1>3. CASE Execution
  BY <1>3, TypeExecutions DEF Execution
<1>4. CASE UNCHANGED vars
  BY <1>4 DEF vars, TypeInv, TypeOK, Placed
<1> QED
  BY <1>1, <1>2, <1>3, <1>4 DEF Next

\* Every reachable state of every script is well typed, and no two calls of an
\* execution share a position.
THEOREM TypeCorrect == Spec => []TypeOK
<1>1. Spec => []TypeInv
  BY TypeInit, TypeStep, PTL DEF Spec
<1> QED
  BY <1>1, PTL DEF TypeInv

-----------------------------------------------------------------------------
(***************************************************************************)
(* Effects.  A position is flagged in the snapshot before it is acted at,  *)
(* a flag is never lost again, and a resumed execution sees every flag the *)
(* snapshot has; so a call that went live at a flagged position was        *)
(* authorised to.                                                          *)
(***************************************************************************)

\* No earlier execution acted at t's position, or t may act there again.
Unacted(t) ==
    \/ Script[t].rerun
    \/ \A x \in acted : x.pos = seq[t] => x.run = run

EffectInv ==
    /\ \A x \in acted : x.run <= run /\ x.pos \in disk.effectful
    /\ alive => /\ disk.effectful \subseteq journal.effectful
                /\ run > 1 => journal.resuming
    /\ \A t \in Tasks : pc[t] # "idle" => alive
    /\ \A t \in Tasks : pc[t] \in Underway /\ Effectful(t) =>
            seq[t] \in disk.effectful /\ Unacted(t)
    /\ EffectOncePerPosition

LEMMA InvalidateFromKeeps ==
  ASSUME NEW j \in Journals, NEW s
  PROVE  /\ InvalidateFrom(j, s).effectful = j.effectful
         /\ InvalidateFrom(j, s).resuming = j.resuming
         /\ InvalidateFrom(j, s).fp = j.fp
  BY DEF InvalidateFrom, Journals

LEMMA AfterLookupKeeps ==
  ASSUME NEW j \in Journals, NEW s, NEW k
  PROVE  /\ AfterLookup(j, s, k).effectful = j.effectful
         /\ AfterLookup(j, s, k).resuming = j.resuming
         /\ AfterLookup(j, s, k).fp = j.fp
  BY InvalidateFromKeeps DEF AfterLookup

LEMMA AppendEntryKeeps ==
  ASSUME NEW j \in Journals, NEW s, NEW e
  PROVE  /\ AppendEntry(j, s, e).effectful = j.effectful
         /\ AppendEntry(j, s, e).resuming = j.resuming
         /\ AppendEntry(j, s, e).fp = j.fp
  BY DEF AppendEntry, Journals

\* A step that starts no live call and keeps the journal's flags.
LEMMA EffectFrame ==
  ASSUME TypeInv, EffectInv,
         UNCHANGED <<alive, run, acted>>,
         journal'.effectful = journal.effectful,
         journal'.resuming = journal.resuming,
         \/ disk'.effectful = disk.effectful
         \/ alive /\ disk'.effectful = journal.effectful,
         \A t \in Tasks : pc'[t] \in Underway =>
                            pc[t] \in Underway /\ seq'[t] = seq[t],
         \A t \in Tasks : pc'[t] # "idle" => alive
  PROVE  EffectInv'
<1>1. disk.effectful \subseteq disk'.effectful
  BY DEF EffectInv
<1>2. \A x \in acted' : x.run <= run' /\ x.pos \in disk'.effectful
  BY <1>1 DEF EffectInv
<1>3. alive' => /\ disk'.effectful \subseteq journal'.effectful
                /\ run' > 1 => journal'.resuming
  BY DEF EffectInv
<1>4. ASSUME NEW t \in Tasks, pc'[t] \in Underway, Effectful(t)
      PROVE  seq'[t] \in disk'.effectful /\ Unacted(t)'
  BY <1>1, <1>4 DEF EffectInv, Unacted
<1>5. EffectOncePerPosition'
  BY DEF EffectInv, EffectOncePerPosition
<1> QED
  BY <1>2, <1>3, <1>4, <1>5 DEF EffectInv, Effectful

LEMMA EffectInit == Init => EffectInv
  BY DEF Init, EffectInv, EffectOncePerPosition, NoSnapshot, Underway, NewJournal

\* Before it is admitted, a call disturbs no flag.
LEMMA EffectCalls ==
  ASSUME TypeInv, EffectInv, NEW t \in Tasks
  PROVE  /\ PreflightFails(t) => EffectInv'
         /\ Call(t) => EffectInv'
         /\ \A accepts, called \in BOOLEAN :
                Verdict(t, accepts, called) => EffectInv'
         /\ Reuse(t) => EffectInv'
         /\ RefuseUnsafe(t) => EffectInv'
         /\ OverBudget(t) => EffectInv'
         /\ CancelUndecided(t) => EffectInv'
<1>0. journal \in Journals /\ pc \in [Tasks -> PCs] /\ seq \in [Tasks -> 0 .. MaxCalls]
  BY DEF TypeInv, TypeOK
<1>i. /\ InvalidateFrom(journal, seq[t]).effectful = journal.effectful
      /\ InvalidateFrom(journal, seq[t]).resuming = journal.resuming
  BY <1>0, InvalidateFromKeeps
<1>a. \A u \in Tasks : pc[u] # "idle" => alive
  BY DEF EffectInv
<1>1. ASSUME PreflightFails(t) PROVE EffectInv'
  BY <1>0, <1>a, <1>1, EffectFrame DEF PreflightFails, Reached, Underway
<1>2. ASSUME Call(t) PROVE EffectInv'
  <2>1. /\ journal'.effectful = journal.effectful
        /\ journal'.resuming = journal.resuming
    BY <1>0, <1>2, AfterLookupKeeps DEF Call
  <2>2. \A u \in Tasks \ {t} : pc'[u] = pc[u] /\ seq'[u] = seq[u]
    BY <1>0, <1>2 DEF Call
  <2>3. pc'[t] \in Undecided /\ alive
    BY <1>0, <1>2 DEF Call, Reached, Undecided
  <2>4. UNCHANGED <<alive, run, acted, disk>>
    BY <1>2 DEF Call
  <2> QED
    BY <1>a, <2>1, <2>2, <2>3, <2>4, EffectFrame DEF Undecided, Underway
<1>3. ASSUME NEW accepts \in BOOLEAN, NEW called \in BOOLEAN,
             Verdict(t, accepts, called)
      PROVE  EffectInv'
  BY <1>0, <1>a, <1>3, EffectFrame DEF Verdict, At, Underway
<1>4. ASSUME Reuse(t) PROVE EffectInv'
  BY <1>0, <1>a, <1>4, EffectFrame DEF Reuse, Gate, At, Underway
<1>5. ASSUME RefuseUnsafe(t) PROVE EffectInv'
  BY <1>0, <1>i, <1>a, <1>5, EffectFrame DEF RefuseUnsafe, Gate, At, Underway
<1>6. ASSUME OverBudget(t) PROVE EffectInv'
  BY <1>0, <1>i, <1>a, <1>6, EffectFrame DEF OverBudget, Gate, At, Underway
<1>7. ASSUME CancelUndecided(t) PROVE EffectInv'
  BY <1>0, <1>i, <1>a, <1>7, EffectFrame DEF CancelUndecided, At, Underway
<1> QED
  BY <1>1, <1>2, <1>3, <1>4, <1>5, <1>6, <1>7

\* A snapshot of a journal with the same flags loses none.
LEMMA SaveKeeps ==
  ASSUME NEW j, NEW saved, Save(j, saved)
  PROVE  /\ journal' = j
         /\ disk' = disk \/ disk'.effectful = j.effectful
  BY DEF Save, Snapshot

\* Admission: the position is flagged and saved in the same step.
LEMMA EffectAdmission ==
  ASSUME TypeInv, EffectInv, NEW t \in Tasks, NEW saved \in BOOLEAN,
         GoLive(t, saved)
  PROVE  EffectInv'
<1> DEFINE J == InvalidateFrom(journal, seq[t])
           K == [J EXCEPT !.effectful =
                    IF Effectful(t) THEN @ \cup {seq[t]} ELSE @]
           flags == IF Effectful(t) THEN journal.effectful \cup {seq[t]}
                                    ELSE journal.effectful
<1>0. pc \in [Tasks -> PCs] /\ seq[t] \in Positions
  <2>1. seq[t] # NoSeq /\ seq[t] \in 0 .. MaxCalls
    BY DEF GoLive, Gate, At, TypeInv, TypeOK, Placed
  <2> QED
    BY <2>1, MaxCallsAssumption DEF TypeInv, TypeOK, Positions, NoSeq
<1>1. J \in Journals /\ J.effectful = journal.effectful
                     /\ J.resuming = journal.resuming
  BY <1>0, InvalidateFromType, InvalidateFromKeeps DEF TypeInv, TypeOK
<1>2. K \in Journals /\ K.effectful = flags /\ K.resuming = journal.resuming
  BY <1>0, <1>1 DEF Journals
<1>3. journal'.effectful = flags /\ journal'.resuming = journal.resuming
  <2>1. WithIntent(t) = AppendEntry(K, seq[t], EntryFor(t, "pending", NoResult))
    BY DEF WithIntent
  <2>2. WithIntent(t).effectful = flags /\ WithIntent(t).resuming = journal.resuming
    <3> HIDE DEF K, flags
    <3> QED
      BY <1>2, <2>1, AppendEntryKeeps
  <2>3. journal' = WithIntent(t)
    BY SaveKeeps DEF GoLive
  <2> QED
    BY <2>2, <2>3
<1>4. /\ alive
      /\ UNCHANGED <<alive, run, acted, seq>>
      /\ \A u \in Tasks \ {t} : pc'[u] = pc[u]
  BY <1>0 DEF GoLive, Gate, At, EffectInv
<1>5. disk' = disk \/ disk'.effectful = flags
  BY <1>3, SaveKeeps DEF GoLive
<1>6. disk.effectful \subseteq disk'.effectful
  BY <1>4, <1>5 DEF EffectInv
<1>7. ASSUME pc'[t] \in Underway, Effectful(t)
      PROVE  seq[t] \in disk'.effectful /\ Unacted(t)
  <2>1. saved
    BY <1>0, <1>7 DEF GoLive, Underway
  <2>2. seq[t] \in disk'.effectful
    BY <1>3, <1>7, <2>1 DEF GoLive, Save, Snapshot
  <2>3. Unacted(t)
    <3> SUFFICES ASSUME ~ Script[t].rerun, NEW x \in acted, x.pos = seq[t],
                        x.run # run
                 PROVE  FALSE
      BY DEF Unacted
    <3>1. x.run < run /\ x.run \in 1 .. MaxRuns /\ x.pos \in disk.effectful
      BY DEF EffectInv, TypeInv, TypeOK
    <3>2. run > 1
      BY <3>1 DEF TypeInv, TypeOK
    <3>3. PriorEffect(t)
      BY <1>4, <3>1, <3>2 DEF EffectInv, PriorEffect
    <3> QED
      BY <3>3 DEF GoLive, MustRefuse
  <2> QED
    BY <2>2, <2>3
<1>8. \A x \in acted' : x.run <= run' /\ x.pos \in disk'.effectful
  BY <1>4, <1>6 DEF EffectInv
<1>9. alive' => /\ disk'.effectful \subseteq journal'.effectful
                /\ run' > 1 => journal'.resuming
  BY <1>3, <1>4, <1>5 DEF EffectInv
<1>10. \A u \in Tasks : pc'[u] \in Underway /\ Effectful(u) =>
            seq'[u] \in disk'.effectful /\ Unacted(u)'
  BY <1>4, <1>6, <1>7 DEF EffectInv, Unacted
<1>11. EffectOncePerPosition'
  BY <1>4 DEF EffectInv, EffectOncePerPosition
<1> QED
  BY <1>4, <1>8, <1>9, <1>10, <1>11 DEF EffectInv, Effectful

\* The entries a live call appends disturb no flag.
LEMMA EffectAppends ==
  ASSUME TypeInv, EffectInv, NEW t \in Tasks, NEW e, NEW saved \in BOOLEAN,
         Save(AppendEntry(journal, seq[t], e), saved),
         UNCHANGED <<alive, run, acted, seq>>,
         pc[t] \in Underway, pc'[t] \in Settled,
         \A u \in Tasks \ {t} : pc'[u] = pc[u]
  PROVE  EffectInv'
<1>1. /\ journal'.effectful = journal.effectful
      /\ journal'.resuming = journal.resuming
  BY AppendEntryKeeps DEF Save, TypeInv, TypeOK
<1>2. disk'.effectful = disk.effectful \/ disk'.effectful = journal.effectful
  BY <1>1, SaveKeeps
<1>3. alive /\ \A u \in Tasks : pc[u] # "idle" => alive
  BY DEF EffectInv, Underway
<1>4. \A u \in Tasks : pc'[u] \in Underway => pc[u] \in Underway
  BY DEF Underway, Settled, Returned
<1> QED
  BY <1>1, <1>2, <1>3, <1>4, EffectFrame

LEMMA EffectLive ==
  ASSUME TypeInv, EffectInv, NEW t \in Tasks
  PROVE  /\ Dispatch(t) => EffectInv'
         /\ \A saved \in BOOLEAN :
                /\ SetupFails(t, saved) => EffectInv'
                /\ DispatchRefused(t, saved) => EffectInv'
                /\ CancelQueued(t, saved) => EffectInv'
         /\ \A u \in Usages :
                /\ Reask(t, u) => EffectInv'
                /\ \A r \in Results, saved \in BOOLEAN :
                        Answer(t, u, r, saved) => EffectInv'
                /\ \A saved \in BOOLEAN :
                        /\ Exhaust(t, u, saved) => EffectInv'
                        /\ CallFails(t, u, saved) => EffectInv'
<1>0. pc \in [Tasks -> PCs] /\ \A u \in Tasks : pc[u] # "idle" => alive
  BY DEF TypeInv, TypeOK, EffectInv
<1>1. ASSUME Dispatch(t) PROVE EffectInv'
  <2> DEFINE new == [pos |-> seq[t], task |-> t, run |-> run]
  <2>1. /\ UNCHANGED <<alive, run, journal, disk, seq>>
        /\ pc[t] = "queued" /\ pc'[t] = "running"
        /\ \A u \in Tasks \ {t} : pc'[u] = pc[u]
        /\ alive
    BY <1>0, <1>1 DEF Dispatch, At
  <2>2. acted' = IF Effectful(t) THEN acted \cup {new} ELSE acted
    BY <1>1 DEF Dispatch
  <2>3. Effectful(t) => seq[t] \in disk.effectful /\ Unacted(t)
    BY <2>1 DEF EffectInv, Underway
  <2>4. run \in Nat /\ \A x \in acted : x.run \in Nat
    BY BoundAssumption DEF TypeInv, TypeOK
  <2>5. \A x \in acted' : x.run <= run /\ x.pos \in disk.effectful
    BY <2>2, <2>3, <2>4 DEF EffectInv
  <2>6. \A u \in Tasks : pc'[u] \in Underway /\ Effectful(u) =>
            seq'[u] \in disk'.effectful /\ Unacted(u)'
    <3> SUFFICES ASSUME NEW u \in Tasks, pc'[u] \in Underway, Effectful(u)
                 PROVE  seq[u] \in disk.effectful /\ Unacted(u)'
      BY <2>1
    <3>1. pc[u] \in Underway
      BY <2>1 DEF Underway
    <3>2. seq[u] \in disk.effectful /\ Unacted(u)
      BY <3>1 DEF EffectInv
    <3> QED
      BY <2>1, <2>2, <3>2 DEF Unacted
  <2>7. EffectOncePerPosition'
    <3> SUFFICES ASSUME NEW x \in acted', NEW y \in acted',
                        x.pos = y.pos, x.run < y.run
                 PROVE  Script[y.task].rerun
      BY DEF EffectOncePerPosition
    <3>1. CASE x \in acted /\ y \in acted
      BY <3>1 DEF EffectInv, EffectOncePerPosition
    <3>2. CASE y \notin acted
      <4>1. Effectful(t) /\ y = new
        BY <2>2, <3>2
      <4>2. x \in acted
        BY <2>2, <2>4, <4>1
      <4> QED
        BY <2>3, <2>4, <4>1, <4>2 DEF Unacted
    <3>3. CASE x \notin acted
      <4>1. x = new
        BY <2>2, <3>3
      <4> QED
        BY <2>1, <2>2, <2>4, <2>5, <4>1 DEF EffectInv
    <3> QED
      BY <3>1, <3>2, <3>3
  <2>8. alive => /\ disk.effectful \subseteq journal.effectful
                 /\ run > 1 => journal.resuming
    BY DEF EffectInv
  <2>9. /\ \A x \in acted' : x.run <= run' /\ x.pos \in disk'.effectful
        /\ alive' => /\ disk'.effectful \subseteq journal'.effectful
                     /\ run' > 1 => journal'.resuming
        /\ \A u \in Tasks : pc'[u] # "idle" => alive'
    BY <2>1, <2>5, <2>8
  <2> QED
    BY <2>6, <2>7, <2>9 DEF EffectInv, Effectful
<1>2. ASSUME NEW saved \in BOOLEAN, SetupFails(t, saved) PROVE EffectInv'
  BY <1>0, <1>2, EffectAppends
  DEF SetupFails, Raise, At, Underway, Settled, Returned
<1>3. ASSUME NEW saved \in BOOLEAN, DispatchRefused(t, saved) PROVE EffectInv'
  BY <1>0, <1>3, EffectAppends
  DEF DispatchRefused, Raise, At, Underway, Settled, Returned
<1>4. ASSUME NEW saved \in BOOLEAN, CancelQueued(t, saved) PROVE EffectInv'
  BY <1>0, <1>4, EffectAppends
  DEF CancelQueued, Raise, At, Underway, Settled, Returned
<1>5. ASSUME NEW u \in Usages, Reask(t, u) PROVE EffectInv'
  <2>1. /\ UNCHANGED <<alive, run, acted, journal, disk, seq>>
        /\ \A w \in Tasks : pc'[w] \in Underway => pc[w] \in Underway
        /\ \A w \in Tasks : pc'[w] # "idle" => alive
    BY <1>0, <1>5 DEF Reask, Receive, At, Underway
  <2> QED
    BY <2>1, EffectFrame
<1>6. ASSUME NEW u \in Usages, NEW r \in Results, NEW saved \in BOOLEAN,
             Answer(t, u, r, saved)
      PROVE  EffectInv'
  BY <1>0, <1>6, EffectAppends
  DEF Answer, Receive, At, Underway, Settled, Returned
<1>7. ASSUME NEW u \in Usages, NEW saved \in BOOLEAN, Exhaust(t, u, saved)
      PROVE  EffectInv'
  BY <1>0, <1>7, EffectAppends
  DEF Exhaust, Receive, At, Underway, Settled, Returned
<1>8. ASSUME NEW u \in Usages, NEW saved \in BOOLEAN, CallFails(t, u, saved)
      PROVE  EffectInv'
  BY <1>0, <1>8, EffectAppends
  DEF CallFails, Receive, Raise, At, Underway, Settled, Returned
<1> QED
  BY <1>1, <1>2, <1>3, <1>4, <1>5, <1>6, <1>7, <1>8

LEMMA EffectExecutions ==
  ASSUME TypeInv, EffectInv
  PROVE  /\ \A outcome \in {"returned", "raised", "cancelled"},
                saved \in BOOLEAN : EndRun(outcome, saved) => EffectInv'
         /\ Crash => EffectInv'
         /\ \A f \in Fingerprints : Resume(f) => EffectInv'
<1>1. ASSUME NEW outcome \in {"returned", "raised", "cancelled"},
             NEW saved \in BOOLEAN, EndRun(outcome, saved)
      PROVE  EffectInv'
  <2>1. disk' = disk \/ disk'.effectful = journal.effectful
    BY <1>1 DEF EndRun, Save, Snapshot, TypeInv, TypeOK, Journals
  <2>2. disk.effectful \subseteq disk'.effectful
    BY <1>1, <2>1 DEF EndRun, EffectInv
  <2> QED
    BY <1>1, <2>2
    DEF EndRun, FreshContext, EffectInv, EffectOncePerPosition, Underway
<1>2. ASSUME Crash PROVE EffectInv'
  BY <1>2 DEF Crash, FreshContext, EffectInv, EffectOncePerPosition, Underway
<1>3. ASSUME NEW f \in Fingerprints, Resume(f) PROVE EffectInv'
  <2>1. journal'.effectful = disk.effectful /\ journal'.resuming
    BY <1>3, Zenon DEF Resume, ResumedJournal
  <2>2. \A x \in acted : x.run <= run + 1 /\ x.pos \in disk.effectful
    BY BoundAssumption DEF EffectInv, TypeInv, TypeOK
  <2> QED
    BY <1>3, <2>1, <2>2
    DEF Resume, FreshContext, EffectInv, EffectOncePerPosition, Underway
<1> QED
  BY <1>1, <1>2, <1>3

LEMMA EffectStep == TypeInv /\ EffectInv /\ [Next]_vars => EffectInv'
<1> SUFFICES ASSUME TypeInv, EffectInv, [Next]_vars PROVE EffectInv'
  OBVIOUS
<1>1. ASSUME NEW t \in Tasks, TaskStep(t) PROVE EffectInv'
  BY <1>1, EffectCalls, EffectAdmission, EffectLive DEF TaskStep
<1>2. ASSUME NEW t \in Tasks, Disturbance(t) PROVE EffectInv'
  BY <1>2, EffectCalls, EffectLive DEF Disturbance
<1>3. CASE Execution
  BY <1>3, EffectExecutions DEF Execution
<1>4. CASE UNCHANGED vars
  BY <1>4 DEF vars, EffectInv, EffectOncePerPosition, Unacted
<1> QED
  BY <1>1, <1>2, <1>3, <1>4 DEF Next

\* However often a run crashes and is resumed, with whatever script changes and
\* failing writes, no position is acted at by two executions unless the later
\* call authorised it with replay="rerun".
THEOREM EffectsNotRepeated == Spec => []EffectOncePerPosition
<1>1. Spec => [](TypeInv /\ EffectInv)
  BY TypeInit, TypeStep, EffectInit, EffectStep, PTL DEF Spec
<1> QED
  BY <1>1, PTL DEF EffectInv

-----------------------------------------------------------------------------
(***************************************************************************)
(* The order of decisions.  Calls decide in the order of their positions,  *)
(* so what a call drops from the journal lies behind all that went live,   *)
(* and what is saved for a live call stays saved.                          *)
(***************************************************************************)

Live == Underway \cup {"done"}

OrderInv ==
    \A t, u \in Tasks :
        pc[t] \in Live \cup {"reused"} /\ pc[u] \in Undecided => seq[t] < seq[u]

\* What a live call has in the journal, and in the snapshot.
Recorded(t) ==
    /\ pc[t] \in Underway =>
          journal.entries[seq[t]] = EntryFor(t, "pending", NoResult)
    /\ pc[t] = "done" =>
          /\ journal.entries[seq[t]].kind \in {"ok", "none"}
          /\ journal.entries[seq[t]].key = key[t]
          /\ journal.entries[seq[t]].run = run
    /\ pc[t] \in Live => disk.entries[seq[t]] = journal.entries[seq[t]]

\* One history, of executions up to r under the fingerprint f.
Coherent(entries, f, r) ==
    \A p, q \in Positions :
        /\ entries[p].kind # "absent" => entries[p].fp = f /\ entries[p].run <= r
        /\ p < q /\ entries[p].kind # "absent" /\ entries[q].kind # "absent" =>
                entries[p].run <= entries[q].run

\* A call that did not reuse ended the reusable prefix at its position, and an
\* entry that is offered is one.
PrefixInv ==
    /\ \A t \in Tasks : seq[t] # NoSeq /\ pc[t] \in Live \cup {"failed"} =>
            journal.liveFrom <= seq[t]
    /\ \A t \in Tasks : usable[t] => held[t] # NoEntry
    /\ \A t \in Tasks : pc[t] = "verifying" => held[t] # NoEntry
    /\ CachedPrefix

PhaseInv ==
    /\ \A i \in 1 .. Len(phases) :
            /\ seq[phases[i]] # NoSeq
            /\ \A u \in Tasks : pc[u] \in Undecided => seq[phases[i]] < seq[u]
    /\ PhasesInCallOrder

HistoryInv ==
    /\ \A t \in Tasks : Recorded(t)
    /\ Coherent(journal.entries, journal.fp, run)
    /\ Coherent(disk.entries, disk.fp, run)

DecisionInv == OrderInv /\ HistoryInv /\ PrefixInv /\ PhaseInv

LEMMA CutEntries ==
  ASSUME NEW j \in Journals, NEW s \in 0 .. MaxCalls
  PROVE  LET c == InvalidateFrom(j, s)
         IN  /\ \A p \in Positions :
                   c.entries[p] = IF p < s THEN j.entries[p] ELSE NoEntry
             /\ c.liveFrom <= s /\ c.liveFrom <= j.liveFrom
             /\ c.fp = j.fp
<1> DEFINE c == InvalidateFrom(j, s)
<1>1. c.entries = [p \in Positions |-> IF p < s THEN j.entries[p] ELSE NoEntry]
  BY DEF InvalidateFrom, Journals
<1>2. c.liveFrom = IF s < j.liveFrom THEN s ELSE j.liveFrom
  BY DEF InvalidateFrom, Journals
<1>3. j.liveFrom \in Nat /\ s \in Nat
  BY MaxCallsAssumption DEF Journals
<1> QED
  BY <1>1, <1>2, <1>3, InvalidateFromKeeps

LEMMA AppendedEntries ==
  ASSUME NEW j \in Journals, NEW s \in Positions, NEW e
  PROVE  LET c == AppendEntry(j, s, e)
         IN  /\ \A p \in Positions :
                   c.entries[p] = IF p = s THEN e ELSE j.entries[p]
             /\ c.liveFrom = j.liveFrom /\ c.fp = j.fp
  BY DEF AppendEntry, Journals

LEMMA CutCoherent ==
  ASSUME NEW j \in Journals, NEW s \in 0 .. MaxCalls, NEW f, NEW r,
         Coherent(j.entries, f, r)
  PROVE  Coherent(InvalidateFrom(j, s).entries, f, r)
<1>1. \A p \in Positions : InvalidateFrom(j, s).entries[p] =
        IF p < s THEN j.entries[p] ELSE NoEntry
  BY CutEntries
<1>2. NoEntry.kind = "absent"
  BY DEF NoEntry
<1> QED
  BY <1>1, <1>2 DEF Coherent

\* Whoever has a position has one in the journal.
LEMMA SeqFacts ==
  ASSUME TypeInv
  PROVE  /\ journal \in Journals /\ disk \in Snapshots /\ run \in Nat
         /\ pc \in [Tasks -> PCs] /\ seq \in [Tasks -> 0 .. MaxCalls]
         /\ nextSeq \in Nat /\ MaxCalls \in Nat
         /\ \A t \in Tasks : seq[t] \in Nat
         /\ \A t \in Tasks : pc[t] \in Active \cup Returned => seq[t] # NoSeq
         /\ \A t \in Tasks : seq[t] # NoSeq =>
                seq[t] \in Positions /\ seq[t] < nextSeq
         /\ \A t, u \in Tasks : seq[t] = seq[u] /\ seq[t] # NoSeq => t = u
<1>1. /\ journal \in Journals /\ disk \in Snapshots /\ run \in 1 .. MaxRuns
      /\ pc \in [Tasks -> PCs] /\ seq \in [Tasks -> 0 .. MaxCalls]
      /\ nextSeq \in 0 .. MaxCalls
  BY DEF TypeInv, TypeOK
<1>2. run \in Nat /\ nextSeq \in Nat /\ MaxCalls \in Nat
  BY <1>1, MaxCallsAssumption, BoundAssumption
<1>3. \A t \in Tasks : seq[t] \in 0 .. MaxCalls
  BY <1>1
<1>4. \A t \in Tasks : seq[t] \in Nat
  BY <1>2, <1>3
<1>5. \A t \in Tasks : seq[t] # NoSeq => seq[t] \in Positions
  BY <1>2, <1>3 DEF NoSeq, Positions
<1>6. \A t \in Tasks : pc[t] \in Active \cup Returned => seq[t] # NoSeq
  BY DEF TypeInv, Placed, Active, Undecided, Underway, Returned
<1> QED
  BY <1>1, <1>2, <1>4, <1>5, <1>6 DEF TypeInv, Placed

\* One call moves, and decides in its turn if it decides.
LEMMA OrderFrame ==
  ASSUME TypeInv, OrderInv, PhaseInv, NEW t \in Tasks,
         UNCHANGED seq, \A u \in Tasks \ {t} : pc'[u] = pc[u],
         pc'[t] \in Undecided => pc[t] \in Undecided,
         pc'[t] \in Live \cup {"reused"} =>
            \/ pc[t] \in Live \cup {"reused"}
            \/ pc[t] \in Undecided /\ EarlierDecided(t),
         \/ phases' = phases
         \/ /\ phases' = Append(phases, t) /\ pc[t] \in Undecided
            /\ pc'[t] \notin Undecided /\ EarlierDecided(t)
  PROVE  OrderInv' /\ PhaseInv'
<1>0. /\ \A u \in Tasks : seq[u] \in Nat
      /\ \A u \in Tasks : pc[u] \in Undecided => seq[u] # NoSeq
      /\ \A u, w \in Tasks : seq[u] = seq[w] /\ seq[u] # NoSeq => u = w
  BY SeqFacts DEF Active
<1>1. \A u \in Tasks : pc'[u] \in Undecided => pc[u] \in Undecided
  OBVIOUS
<1>2. pc[t] \in Undecided /\ EarlierDecided(t) =>
        \A u \in Tasks \ {t} : pc[u] \in Undecided => seq[t] < seq[u]
  BY <1>0 DEF EarlierDecided
<1>3. OrderInv'
  <2> SUFFICES ASSUME NEW x \in Tasks, NEW u \in Tasks,
                      pc'[x] \in Live \cup {"reused"}, pc'[u] \in Undecided
               PROVE  seq[x] < seq[u]
    BY DEF OrderInv
  <2>1. CASE pc[x] \in Live \cup {"reused"}
    BY <1>1, <2>1 DEF OrderInv
  <2>2. CASE pc[x] \notin Live \cup {"reused"}
    <3>1. x = t /\ pc[t] \in Undecided /\ EarlierDecided(t)
      BY <2>2
    <3>2. u # t
      BY <3>1 DEF Live, Underway, Undecided
    <3> QED
      BY <1>1, <1>2, <3>1, <3>2
  <2> QED
    BY <2>1, <2>2
<1>4. PhaseInv'
  <2>0. phases \in Seq(Tasks)
    BY DEF TypeInv, TypeOK
  <2>1. /\ \A i \in 1 .. Len(phases) :
            /\ seq[phases[i]] # NoSeq
            /\ \A u \in Tasks : pc[u] \in Undecided => seq[phases[i]] < seq[u]
        /\ \A i, j \in 1 .. Len(phases) : i < j => seq[phases[i]] < seq[phases[j]]
    BY <2>0 DEF PhaseInv, PhasesInCallOrder
  <2>2. CASE phases' = phases
    BY <1>1, <2>0, <2>1, <2>2 DEF PhaseInv, PhasesInCallOrder
  <2>3. CASE /\ phases' = Append(phases, t) /\ pc[t] \in Undecided
             /\ pc'[t] \notin Undecided /\ EarlierDecided(t)
    <3>1. /\ Len(phases') = Len(phases) + 1 /\ Len(phases) \in Nat
          /\ DOMAIN phases' = 1 .. Len(phases')
          /\ \A i \in 1 .. Len(phases) : phases'[i] = phases[i]
          /\ phases'[Len(phases) + 1] = t
      BY <2>0, <2>3
    <3>2. \A i \in 1 .. Len(phases') : i \in 1 .. Len(phases) \/ i = Len(phases) + 1
      BY <3>1
    <3>3. \A i \in 1 .. Len(phases') :
            /\ seq[phases'[i]] # NoSeq
            /\ \A u \in Tasks : pc'[u] \in Undecided => seq[phases'[i]] < seq[u]
      BY <1>0, <1>1, <1>2, <2>1, <2>3, <3>1, <3>2
    <3>4. \A i, j \in 1 .. Len(phases') : i < j => seq[phases'[i]] < seq[phases'[j]]
      <4> SUFFICES ASSUME NEW i \in 1 .. Len(phases'), NEW j \in 1 .. Len(phases'),
                          i < j
                   PROVE  seq[phases'[i]] < seq[phases'[j]]
        OBVIOUS
      <4>1. i \in 1 .. Len(phases)
        BY <3>1
      <4>2. CASE j \in 1 .. Len(phases)
        BY <2>1, <3>1, <4>1, <4>2
      <4>3. CASE j = Len(phases) + 1
        BY <2>1, <2>3, <3>1, <4>1, <4>3
      <4> QED
        BY <3>2, <4>2, <4>3
    <3> QED
      BY <3>1, <3>3, <3>4 DEF PhaseInv, PhasesInCallOrder
  <2> QED
    BY <2>2, <2>3
<1> QED
  BY <1>3, <1>4

LEMMA PrefixFrame ==
  ASSUME TypeInv, PrefixInv, NEW t \in Tasks,
         UNCHANGED <<seq, held>>, \A u \in Tasks \ {t} : pc'[u] = pc[u],
         journal' \in Journals, journal'.liveFrom <= journal.liveFrom,
         pc'[t] \in Live \cup {"failed"} =>
            journal'.liveFrom <= seq[t] \/ pc[t] \in Live \cup {"failed"}
            \/ seq[t] = NoSeq,
         \A u \in Tasks : usable'[u] => held[u] # NoEntry,
         pc'[t] \notin {"verifying", "reused"}, pc[t] # "reused"
  PROVE  PrefixInv'
<1>0. \A u \in Tasks : seq[u] \in Nat
  BY SeqFacts
<1>1. journal.liveFrom \in Nat /\ journal'.liveFrom \in Nat
  BY SeqFacts DEF Journals
<1>2. ASSUME NEW u \in Tasks, seq[u] # NoSeq, pc'[u] \in Live \cup {"failed"}
      PROVE  journal'.liveFrom <= seq[u]
  BY <1>0, <1>1, <1>2 DEF PrefixInv
<1>3. CachedPrefix'
  BY DEF PrefixInv, CachedPrefix
<1> QED
  BY <1>2, <1>3 DEF PrefixInv

LEMMA HistoryFrame ==
  ASSUME TypeInv, HistoryInv, NEW t \in Tasks,
         UNCHANGED <<run, seq, key>>, journal'.fp = journal.fp,
         \/ disk' = disk
         \/ disk'.entries = journal'.entries /\ disk'.fp = journal'.fp,
         \A u \in Tasks \ {t} :
            /\ pc'[u] = pc[u]
            /\ pc[u] \in Live =>
                    journal'.entries[seq[u]] = journal.entries[seq[u]],
         Recorded(t)', Coherent(journal'.entries, journal'.fp, run)
  PROVE  HistoryInv'
<1>1. ASSUME NEW u \in Tasks \ {t} PROVE Recorded(u)'
  <2>1. EntryFor(u, "pending", NoResult)' = EntryFor(u, "pending", NoResult)
    BY DEF EntryFor
  <2>2. pc[u] \in Live => disk'.entries[seq[u]] = journal'.entries[seq[u]]
    BY DEF HistoryInv, Recorded
  <2> QED
    BY <2>1, <2>2 DEF HistoryInv, Recorded, Live
<1>2. Coherent(disk'.entries, disk'.fp, run)
  BY DEF HistoryInv
<1> QED
  BY <1>1, <1>2 DEF HistoryInv

LEMMA SaveWrites ==
  ASSUME NEW j, NEW saved \in BOOLEAN, Save(j, saved)
  PROVE  /\ journal' = j
         /\ saved => disk'.entries = j.entries /\ disk'.fp = j.fp
         /\ ~ saved => disk' = disk
  BY DEF Save, Snapshot

-----------------------------------------------------------------------------
\* A call gives up its turn, and drops what lies behind it.
LEMMA DecisionDropped ==
  ASSUME TypeInv, DecisionInv, NEW t \in Tasks, pc[t] \in Undecided,
         pc' = [pc EXCEPT ![t] = "failed"],
         journal' = InvalidateFrom(journal, seq[t]),
         UNCHANGED <<run, disk, seq, key, held, usable, phases>>
  PROVE  DecisionInv'
<1>0. /\ \A u \in Tasks : pc'[u] = IF u = t THEN "failed" ELSE pc[u]
      /\ journal \in Journals /\ seq[t] \in 0 .. MaxCalls
      /\ \A u \in Tasks : pc[u] \in Live => seq[u] \in Positions
  BY SeqFacts DEF Active, Live, Returned
<1>1. OrderInv' /\ PhaseInv'
  BY <1>0, OrderFrame DEF DecisionInv, Undecided, Live, Underway
<1>2. /\ \A p \in Positions :
            journal'.entries[p] = IF p < seq[t] THEN journal.entries[p] ELSE NoEntry
      /\ journal'.liveFrom <= seq[t] /\ journal'.liveFrom <= journal.liveFrom
      /\ journal'.fp = journal.fp
  BY <1>0, CutEntries
<1>3. journal' \in Journals
  BY <1>0, InvalidateFromType
<1>4. PrefixInv'
  <2>1. \A u \in Tasks : usable'[u] => held[u] # NoEntry
    BY DEF DecisionInv, PrefixInv
  <2> QED
    BY <1>0, <1>2, <1>3, <2>1, PrefixFrame DEF DecisionInv, Undecided
<1>5. HistoryInv'
  <2>1. \A u \in Tasks : pc[u] \in Live => seq[u] < seq[t]
    BY DEF DecisionInv, OrderInv
  <2>2. Recorded(t)'
    BY <1>0 DEF Recorded, Live, Underway
  <2>3. Coherent(journal'.entries, journal'.fp, run)
    BY <1>0, <1>2, CutCoherent DEF DecisionInv, HistoryInv
  <2> QED
    BY <1>0, <1>2, <2>1, <2>2, <2>3, HistoryFrame DEF DecisionInv
<1> QED
  BY <1>1, <1>4, <1>5 DEF DecisionInv

\* Before the decision.
LEMMA DecisionCall ==
  ASSUME TypeInv, DecisionInv, NEW t \in Tasks, Call(t) PROVE DecisionInv'
<1> DEFINE k == KeyOf(t)
           found == Lookup(journal, nextSeq, k)
           offer == found # NoEntry /\ ~ Script[t].rerun
<1>0. /\ pc[t] = "idle" /\ seq[t] = NoSeq /\ nextSeq \in 0 .. MaxCalls
      /\ UNCHANGED <<run, disk, phases>>
  BY DEF Call, Reached, At, TypeInv, TypeOK, Placed
<1>1. \A u \in Tasks : /\ seq'[u] = IF u = t THEN nextSeq ELSE seq[u]
                       /\ u # t => /\ pc'[u] = pc[u] /\ key'[u] = key[u]
                                   /\ held'[u] = held[u] /\ usable'[u] = usable[u]
  BY DEF Call, TypeInv, TypeOK
<1>2. /\ pc'[t] \in Undecided /\ held'[t] = found
      /\ usable'[t] => found # NoEntry
      /\ pc'[t] = "verifying" => found # NoEntry
  <2>1. usable'[t] = (/\ offer /\ ~ Effectful(t)
                      /\ ~ (journal.resuming /\ nextSeq \in journal.effectful))
    BY DEF Call, TypeInv, TypeOK
  <2>2. pc'[t] = IF offer /\ Script[t].verify THEN "verifying"
                 ELSE IF \E u \in Tasks : pc[u] \in Undecided THEN "waiting"
                 ELSE "deciding"
    BY DEF Call, TypeInv, TypeOK
  <2>3. held'[t] = found
    BY DEF Call, TypeInv, TypeOK
  <2> QED
    BY <2>1, <2>2, <2>3 DEF Undecided
<1>3. /\ journal \in Journals /\ nextSeq \in Nat
      /\ \A u \in Tasks : seq[u] \in Nat
      /\ \A u \in Tasks : seq[u] # NoSeq => seq[u] \in Positions /\ seq[u] < nextSeq
      /\ \A u \in Tasks : pc[u] \in Live \cup Returned \cup Undecided => seq[u] # NoSeq
  BY SeqFacts DEF Active, Live, Returned
<1>4. journal' = journal \/ journal' = InvalidateFrom(journal, nextSeq)
  BY DEF Call, AfterLookup
<1>5. /\ \A p \in Positions : p < nextSeq => journal'.entries[p] = journal.entries[p]
      /\ journal'.liveFrom <= journal.liveFrom /\ journal'.fp = journal.fp
      /\ journal' \in Journals
      /\ Coherent(journal'.entries, journal'.fp, run)
  <2>1. CASE journal' = journal
    BY <1>3, <2>1, MaxCallsAssumption DEF DecisionInv, HistoryInv, Journals
  <2>2. CASE journal' = InvalidateFrom(journal, nextSeq)
    BY <1>0, <1>3, <2>2, CutEntries, CutCoherent, InvalidateFromType
    DEF DecisionInv, HistoryInv
  <2> QED
    BY <1>4, <2>1, <2>2
<1>n. nextSeq # NoSeq
  BY MaxCallsAssumption DEF Call, CapReached, NoSeq, TypeInv, TypeOK
<1>6. OrderInv'
  <2> SUFFICES ASSUME NEW x \in Tasks, NEW u \in Tasks,
                      pc'[x] \in Live \cup {"reused"}, pc'[u] \in Undecided
               PROVE  seq'[x] < seq'[u]
    BY DEF OrderInv
  <2>1. x # t /\ pc[x] \in Live \cup {"reused"} /\ seq[x] < nextSeq
    BY <1>1, <1>2, <1>3 DEF Undecided, Live, Underway, Returned
  <2> QED
    BY <1>1, <2>1 DEF DecisionInv, OrderInv
<1>7. HistoryInv'
  <2>1. ASSUME NEW u \in Tasks PROVE Recorded(u)'
    <3>1. CASE u = t
      BY <1>2, <3>1 DEF Recorded, Live, Underway, Undecided
    <3>2. CASE u # t
      <4>1. EntryFor(u, "pending", NoResult)' = EntryFor(u, "pending", NoResult)
        BY <1>0, <1>1, <1>5, <3>2 DEF EntryFor
      <4>2. pc[u] \in Live => journal'.entries[seq[u]] = journal.entries[seq[u]]
        BY <1>3, <1>5
      <4> QED
        BY <1>0, <1>1, <3>2, <4>1, <4>2 DEF DecisionInv, HistoryInv, Recorded, Live
    <3> QED
      BY <3>1, <3>2
  <2> QED
    BY <1>0, <1>5, <2>1 DEF DecisionInv, HistoryInv
<1>8. PrefixInv'
  <2>0. journal.liveFrom \in Nat /\ journal'.liveFrom \in Nat
    BY <1>3, <1>5, MaxCallsAssumption DEF Journals
  <2>1. \A u \in Tasks : seq'[u] # NoSeq /\ pc'[u] \in Live \cup {"failed"} =>
            journal'.liveFrom <= seq'[u]
    <3> SUFFICES ASSUME NEW u \in Tasks, seq'[u] # NoSeq,
                        pc'[u] \in Live \cup {"failed"}
                 PROVE  journal'.liveFrom <= seq'[u]
      OBVIOUS
    <3>1. u # t
      BY <1>2 DEF Undecided, Live, Underway
    <3>2. journal.liveFrom <= seq[u]
      BY <1>1, <3>1 DEF DecisionInv, PrefixInv
    <3> QED
      BY <1>1, <1>3, <1>5, <2>0, <3>1, <3>2
  <2>2. \A u \in Tasks : usable'[u] \/ pc'[u] = "verifying" => held'[u] # NoEntry
    BY <1>1, <1>2 DEF DecisionInv, PrefixInv
  <2>3. CachedPrefix'
    <3> SUFFICES ASSUME NEW x \in Tasks, NEW u \in Tasks,
                        pc'[x] = "reused", seq'[u] < seq'[x]
                 PROVE  pc'[u] = "reused"
      BY DEF CachedPrefix
    <3>1. x # t /\ pc[x] = "reused" /\ seq[x] < nextSeq
      BY <1>1, <1>2, <1>3 DEF Undecided, Returned
    <3>2. u # t
      BY <1>1, <1>3, <3>1
    <3> QED
      BY <1>1, <3>1, <3>2 DEF DecisionInv, PrefixInv, CachedPrefix
  <2> QED
    BY <2>1, <2>2, <2>3 DEF PrefixInv
<1>9. PhaseInv'
  <2>0. phases \in Seq(Tasks)
    BY DEF TypeInv, TypeOK
  <2>1. /\ \A i \in 1 .. Len(phases) :
            /\ seq[phases[i]] # NoSeq
            /\ \A u \in Tasks : pc[u] \in Undecided => seq[phases[i]] < seq[u]
        /\ \A i, j \in 1 .. Len(phases) : i < j => seq[phases[i]] < seq[phases[j]]
    BY <2>0 DEF DecisionInv, PhaseInv, PhasesInCallOrder
  <2>2. \A i \in 1 .. Len(phases) :
            /\ phases[i] \in Tasks /\ seq'[phases[i]] = seq[phases[i]]
            /\ seq[phases[i]] < nextSeq
    BY <1>0, <1>1, <1>3, <2>0, <2>1
  <2>3. \A i \in 1 .. Len(phases) : \A u \in Tasks :
            pc'[u] \in Undecided => seq'[phases[i]] < seq'[u]
    BY <1>1, <2>1, <2>2
  <2>4. \A i, j \in 1 .. Len(phases) : i < j => seq'[phases[i]] < seq'[phases[j]]
    BY <2>1, <2>2
  <2>5. phases' = phases /\ DOMAIN phases = 1 .. Len(phases)
    BY <1>0, <2>0
  <2> QED
    BY <2>1, <2>2, <2>3, <2>4, <2>5 DEF PhaseInv, PhasesInCallOrder
<1> QED
  BY <1>6, <1>7, <1>8, <1>9 DEF DecisionInv

LEMMA DecisionPreflight ==
  ASSUME TypeInv, DecisionInv, NEW t \in Tasks, PreflightFails(t)
  PROVE  DecisionInv'
<1>0. /\ \A u \in Tasks : pc'[u] = IF u = t THEN "failed" ELSE pc[u]
      /\ pc[t] = "idle" /\ seq[t] = NoSeq /\ journal \in Journals
      /\ UNCHANGED <<run, journal, disk, seq, key, held, usable, phases>>
  BY DEF PreflightFails, Reached, At, TypeInv, TypeOK, Placed
<1>1. OrderInv' /\ PhaseInv'
  BY <1>0, OrderFrame DEF DecisionInv, Undecided, Live, Underway
<1>2. PrefixInv'
  <2>1. \A u \in Tasks : usable'[u] => held[u] # NoEntry
    BY <1>0 DEF DecisionInv, PrefixInv
  <2>2. journal.liveFrom <= journal.liveFrom
    BY <1>0, MaxCallsAssumption DEF Journals
  <2> QED
    BY <1>0, <2>1, <2>2, PrefixFrame DEF DecisionInv
<1>3. HistoryInv'
  <2>1. Recorded(t)'
    BY <1>0 DEF Recorded, Live, Underway
  <2> QED
    BY <1>0, <2>1, HistoryFrame DEF DecisionInv, HistoryInv
<1> QED
  BY <1>1, <1>2, <1>3 DEF DecisionInv

LEMMA DecisionVerdict ==
  ASSUME TypeInv, DecisionInv, NEW t \in Tasks, NEW accepts \in BOOLEAN,
         NEW called \in BOOLEAN, Verdict(t, accepts, called)
  PROVE  DecisionInv'
<1>0. /\ \A u \in Tasks \ {t} : pc'[u] = pc[u] /\ usable'[u] = usable[u]
      /\ pc[t] = "verifying" /\ pc'[t] \in {"deciding", "waiting"}
      /\ journal \in Journals
      /\ UNCHANGED <<run, journal, disk, seq, key, held, phases>>
  BY DEF Verdict, At, TypeInv, TypeOK
<1>1. OrderInv' /\ PhaseInv'
  BY <1>0, OrderFrame DEF DecisionInv, Undecided, Live, Underway
<1>2. PrefixInv'
  <2>1. \A u \in Tasks : usable'[u] => held[u] # NoEntry
    BY <1>0 DEF DecisionInv, PrefixInv
  <2>2. journal.liveFrom <= journal.liveFrom
    BY <1>0, MaxCallsAssumption DEF Journals
  <2> QED
    BY <1>0, <2>1, <2>2, PrefixFrame DEF DecisionInv, Live, Underway
<1>3. HistoryInv'
  <2>1. Recorded(t)'
    BY <1>0 DEF Recorded, Live, Underway
  <2> QED
    BY <1>0, <2>1, HistoryFrame DEF DecisionInv, HistoryInv
<1> QED
  BY <1>1, <1>2, <1>3 DEF DecisionInv

\* The decision.
LEMMA DecisionReuse ==
  ASSUME TypeInv, DecisionInv, NEW t \in Tasks, Reuse(t) PROVE DecisionInv'
<1>0. /\ \A u \in Tasks : pc'[u] = IF u = t THEN "reused" ELSE pc[u]
      /\ pc[t] \in Undecided /\ EarlierDecided(t) /\ StillOffered(t)
      /\ phases' = phases \/ phases' = Append(phases, t)
      /\ UNCHANGED <<run, journal, disk, seq, key, held, usable>>
  BY DEF Reuse, Gate, At, TypeInv, TypeOK, Undecided, AppendPhase
<1>1. OrderInv' /\ PhaseInv'
  BY <1>0, OrderFrame DEF DecisionInv, Undecided, Live, Underway
<1>2. seq[t] < journal.liveFrom
  <2>1. held[t] # NoEntry /\ Lookup(journal, seq[t], key[t]) = held[t]
    BY <1>0 DEF StillOffered, DecisionInv, PrefixInv
  <2> QED
    BY <2>1 DEF Lookup, Reusable
<1>3. PrefixInv'
  <2>1. /\ \A u \in Tasks : seq'[u] # NoSeq /\ pc'[u] \in Live \cup {"failed"} =>
                journal'.liveFrom <= seq'[u]
        /\ \A u \in Tasks : usable'[u] => held'[u] # NoEntry
        /\ \A u \in Tasks : pc'[u] = "verifying" => held'[u] # NoEntry
    BY <1>0 DEF DecisionInv, PrefixInv, Live, Underway
  <2>2. ASSUME NEW u \in Tasks, seq[u] < seq[t] PROVE pc[u] = "reused"
    <3>1. /\ seq[u] \in Nat /\ seq[t] \in Nat /\ journal.liveFrom \in Nat
          /\ pc[u] \in PCs /\ seq[t] \in 0 .. MaxCalls /\ MaxCalls \in Nat
      BY SeqFacts DEF Journals
    <3>2. pc[u] \notin Undecided
      BY <1>0, <2>2, <3>1 DEF EarlierDecided
    <3>3. seq[u] # NoSeq
      BY <2>2, <3>1 DEF NoSeq
    <3>4. pc[u] \notin Live \cup {"failed"}
      BY <1>2, <2>2, <3>1, <3>3 DEF DecisionInv, PrefixInv
    <3>5. pc[u] # "idle"
      BY <3>3 DEF TypeInv, Placed
    <3> QED
      BY <3>1, <3>2, <3>4, <3>5 DEF PCs, Undecided, Live, Underway
  <2>3. CachedPrefix'
    <3> SUFFICES ASSUME NEW x \in Tasks, NEW u \in Tasks,
                        pc'[x] = "reused", seq[u] < seq[x]
                 PROVE  pc'[u] = "reused"
      BY <1>0 DEF CachedPrefix
    <3>1. CASE x = t
      BY <1>0, <2>2, <3>1
    <3>2. CASE x # t
      BY <1>0, <3>2 DEF DecisionInv, PrefixInv, CachedPrefix
    <3> QED
      BY <3>1, <3>2
  <2> QED
    BY <2>1, <2>3 DEF PrefixInv
<1>4. HistoryInv'
  <2>1. Recorded(t)'
    BY <1>0 DEF Recorded, Live, Underway
  <2> QED
    BY <1>0, <2>1, HistoryFrame DEF DecisionInv, HistoryInv
<1> QED
  BY <1>1, <1>3, <1>4 DEF DecisionInv

LEMMA DecisionGoLive ==
  ASSUME TypeInv, DecisionInv, NEW t \in Tasks, NEW saved \in BOOLEAN,
         GoLive(t, saved)
  PROVE  DecisionInv'
<1> DEFINE e == EntryFor(t, "pending", NoResult)
<1>0. /\ pc[t] \in Undecided /\ EarlierDecided(t)
      /\ UNCHANGED <<run, seq, key, held, usable>>
      /\ Save(WithIntent(t), saved)
  BY DEF GoLive, Gate, At, Undecided
<1>w. /\ journal' = WithIntent(t)
      /\ saved => disk'.entries = journal'.entries /\ disk'.fp = journal'.fp
      /\ ~ saved => disk' = disk
  BY <1>0, SaveWrites
<1>1. /\ \A u \in Tasks \ {t} : pc'[u] = pc[u]
      /\ pc'[t] = IF saved THEN "queued" ELSE "failed"
      /\ phases' = phases \/ phases' = Append(phases, t)
  BY DEF GoLive, AppendPhase, TypeInv, TypeOK
<1>2. /\ journal \in Journals /\ seq[t] \in Positions /\ seq[t] \in 0 .. MaxCalls
      /\ \A u \in Tasks : pc[u] \in Live => seq[u] \in Positions
  BY <1>0, SeqFacts DEF Active, Live, Returned
<1>3. OrderInv' /\ PhaseInv'
  <2>1. /\ pc'[t] \notin Undecided
        /\ pc'[t] \in Live \cup {"reused"} => pc[t] \in Undecided /\ EarlierDecided(t)
    BY <1>0, <1>1 DEF Undecided
  <2> QED
    BY <1>0, <1>1, <2>1, OrderFrame DEF DecisionInv
<1>4. /\ \A p \in Positions : journal'.entries[p] =
            IF p < seq[t] THEN journal.entries[p] ELSE IF p = seq[t] THEN e ELSE NoEntry
      /\ journal'.liveFrom <= seq[t] /\ journal'.liveFrom <= journal.liveFrom
      /\ journal'.fp = journal.fp
  <2> DEFINE c == InvalidateFrom(journal, seq[t])
  <2> DEFINE d == [c EXCEPT !.effectful = IF Effectful(t) THEN @ \cup {seq[t]} ELSE @]
  <2>1. c \in Journals
    BY <1>2, InvalidateFromType
  <2>2. /\ d \in Journals /\ d.entries = c.entries /\ d.liveFrom = c.liveFrom
        /\ d.fp = c.fp
    BY <1>2, <2>1 DEF Journals
  <2>3. /\ \A p \in Positions :
            c.entries[p] = IF p < seq[t] THEN journal.entries[p] ELSE NoEntry
        /\ c.liveFrom <= seq[t] /\ c.liveFrom <= journal.liveFrom
        /\ c.fp = journal.fp
    BY <1>2, CutEntries
  <2>4. WithIntent(t) = AppendEntry(d, seq[t], e)
    BY DEF WithIntent
  <2> HIDE DEF c, d, e
  <2>5. /\ \A p \in Positions :
            journal'.entries[p] = IF p = seq[t] THEN e ELSE d.entries[p]
        /\ journal'.liveFrom = d.liveFrom /\ journal'.fp = d.fp
    BY <1>w, <1>2, <2>2, <2>4, AppendedEntries
  <2>6. \A p \in Positions : p = seq[t] => ~(p < seq[t])
    BY MaxCallsAssumption DEF Positions
  <2> QED
    BY <2>2, <2>3, <2>5, <2>6
<1>5. journal' \in Journals
  <2>1. seq[t] # NoSeq
    BY <1>0, SeqFacts DEF Active
  <2> QED
    BY <1>w, <2>1, IntentType DEF TypeInv
<1>6. PrefixInv'
  <2>1. \A u \in Tasks : usable'[u] => held[u] # NoEntry
    BY <1>0 DEF DecisionInv, PrefixInv
  <2>2. pc'[t] \notin {"verifying", "reused"} /\ pc[t] # "reused"
    BY <1>0, <1>1 DEF Undecided
  <2> QED
    BY <1>0, <1>1, <1>4, <1>5, <2>1, <2>2, PrefixFrame DEF DecisionInv
<1>7. e.kind = "pending" /\ e.run = run /\ e.fp = journal.fp
  BY DEF EntryFor
<1>8. Coherent(journal'.entries, journal'.fp, run)
  <2> SUFFICES ASSUME NEW p \in Positions, NEW q \in Positions
               PROVE  /\ journal'.entries[p].kind # "absent" =>
                            /\ journal'.entries[p].fp = journal.fp
                            /\ journal'.entries[p].run <= run
                      /\ p < q /\ journal'.entries[p].kind # "absent"
                               /\ journal'.entries[q].kind # "absent" =>
                            journal'.entries[p].run <= journal'.entries[q].run
    BY <1>4 DEF Coherent
  <2>0. /\ run \in Nat /\ p \in Nat /\ q \in Nat /\ seq[t] \in Nat
        /\ NoEntry.kind = "absent"
    BY SeqFacts DEF NoEntry, Positions
  <2>1. /\ journal.entries[p].kind # "absent" =>
             /\ journal.entries[p].fp = journal.fp /\ journal.entries[p].run <= run
        /\ p < q /\ journal.entries[p].kind # "absent"
                 /\ journal.entries[q].kind # "absent" =>
             journal.entries[p].run <= journal.entries[q].run
    BY DEF DecisionInv, HistoryInv, Coherent
  <2> HIDE DEF e
  <2> QED
    BY <1>4, <1>7, <2>0, <2>1
<1>9. HistoryInv'
  <2>1. \A u \in Tasks : pc[u] \in Live => seq[u] < seq[t]
    BY <1>0 DEF DecisionInv, OrderInv
  <2>2. Recorded(t)'
    <3>1. EntryFor(t, "pending", NoResult)' = e
      BY <1>0, <1>4 DEF EntryFor
    <3>2. journal'.entries[seq[t]] = e
      BY <1>2, <1>4, MaxCallsAssumption DEF Positions
    <3>3. saved => disk'.entries = journal'.entries
      BY <1>w
    <3> HIDE DEF e
    <3>4. pc'[t] # "done" /\ (pc'[t] \in Live => saved)
      BY <1>1 DEF Live, Underway
    <3> QED
      BY <1>0, <3>1, <3>2, <3>3, <3>4 DEF Recorded
  <2>3. \/ disk' = disk
        \/ disk'.entries = journal'.entries /\ disk'.fp = journal'.fp
    BY <1>w
  <2> QED
    BY <1>0, <1>1, <1>2, <1>4, <1>8, <2>1, <2>2, <2>3, HistoryFrame DEF DecisionInv
<1> QED
  BY <1>3, <1>6, <1>9 DEF DecisionInv

-----------------------------------------------------------------------------
\* The live call.
LEMMA DecisionWithin ==
  ASSUME TypeInv, DecisionInv, NEW t \in Tasks, pc[t] \in Underway,
         NEW v \in Underway, pc' = [pc EXCEPT ![t] = v],
         UNCHANGED <<run, journal, disk, seq, key, held, usable, phases>>
  PROVE  DecisionInv'
<1>0. /\ \A u \in Tasks : pc'[u] = IF u = t THEN v ELSE pc[u]
      /\ journal \in Journals
  BY SeqFacts
<1>1. OrderInv' /\ PhaseInv'
  BY <1>0, OrderFrame DEF DecisionInv, Undecided, Live, Underway
<1>2. PrefixInv'
  <2>1. \A u \in Tasks : usable'[u] => held[u] # NoEntry
    BY DEF DecisionInv, PrefixInv
  <2>2. journal.liveFrom <= journal.liveFrom
    BY <1>0, MaxCallsAssumption DEF Journals
  <2> QED
    BY <1>0, <2>1, <2>2, PrefixFrame DEF DecisionInv, Live, Underway
<1>3. HistoryInv'
  <2>1. Recorded(t)'
    <3>1. Recorded(t) /\ pc[t] \in Underway /\ pc'[t] \in Underway
      BY <1>0 DEF DecisionInv, HistoryInv
    <3>2. EntryFor(t, "pending", NoResult)' = EntryFor(t, "pending", NoResult)
      BY DEF EntryFor
    <3> QED
      BY <3>1, <3>2 DEF Recorded, Live, Underway
  <2> QED
    BY <1>0, <2>1, HistoryFrame DEF DecisionInv, HistoryInv
<1> QED
  BY <1>1, <1>2, <1>3 DEF DecisionInv

LEMMA DecisionEnds ==
  ASSUME TypeInv, TypeInv', DecisionInv, NEW t \in Tasks, NEW saved \in BOOLEAN,
         NEW kind \in {"ok", "none", "error"}, NEW r, pc[t] \in Underway,
         Save(AppendEntry(journal, seq[t], EntryFor(t, kind, r)), saved),
         NEW v \in {"done", "failed"}, pc' = [pc EXCEPT ![t] = v],
         v = "done" => saved /\ kind \in {"ok", "none"},
         UNCHANGED <<run, seq, key, held, usable, phases>>
  PROVE  DecisionInv'
<1> DEFINE e == EntryFor(t, kind, r)
<1>0. /\ \A u \in Tasks : pc'[u] = IF u = t THEN v ELSE pc[u]
      /\ journal \in Journals /\ journal' \in Journals /\ seq[t] \in Positions
      /\ \A u \in Tasks : pc[u] \in Live => seq[u] \in Positions
      /\ \A u \in Tasks : seq[u] = seq[t] => u = t
  BY SeqFacts DEF Active, Live, Returned, TypeInv, TypeOK
<1>1. OrderInv' /\ PhaseInv'
  BY <1>0, OrderFrame DEF DecisionInv, Undecided, Live, Underway
<1>2. /\ \A p \in Positions :
            journal'.entries[p] = IF p = seq[t] THEN e ELSE journal.entries[p]
      /\ journal'.liveFrom = journal.liveFrom /\ journal'.fp = journal.fp
  <2> HIDE DEF e
  <2>1. journal' = AppendEntry(journal, seq[t], e)
    BY DEF Save, e
  <2> QED
    BY <1>0, <2>1, AppendedEntries
<1>3. \/ disk' = disk
      \/ disk'.entries = journal'.entries /\ disk'.fp = journal'.fp
  BY SaveWrites
<1>4. /\ e.kind = kind /\ e.run = run /\ e.fp = journal.fp /\ e.key = key[t]
  BY DEF EntryFor
<1>5. /\ journal.entries[seq[t]].kind = "pending"
      /\ journal.entries[seq[t]].run = run /\ journal.entries[seq[t]].fp = journal.fp
  <2>1. journal.entries[seq[t]] = EntryFor(t, "pending", NoResult)
    BY DEF DecisionInv, HistoryInv, Recorded
  <2> QED
    BY <2>1 DEF EntryFor
<1> HIDE DEF e
<1>6. PrefixInv'
  <2>1. \A u \in Tasks : usable'[u] => held[u] # NoEntry
    BY DEF DecisionInv, PrefixInv
  <2>2. journal'.liveFrom <= journal.liveFrom
    BY <1>0, <1>2, MaxCallsAssumption DEF Journals
  <2> QED
    BY <1>0, <2>1, <2>2, PrefixFrame DEF DecisionInv, Live, Underway
<1>7. Coherent(journal'.entries, journal'.fp, run)
  <2> SUFFICES ASSUME NEW p \in Positions, NEW q \in Positions
               PROVE  /\ journal'.entries[p].kind # "absent" =>
                            /\ journal'.entries[p].fp = journal.fp
                            /\ journal'.entries[p].run <= run
                      /\ p < q /\ journal'.entries[p].kind # "absent"
                               /\ journal'.entries[q].kind # "absent" =>
                            journal'.entries[p].run <= journal'.entries[q].run
    BY <1>2 DEF Coherent
  <2>0. run \in Nat
    BY SeqFacts
  <2>1. \A x \in Positions :
          /\ journal'.entries[x].kind # "absent" => journal.entries[x].kind # "absent"
          /\ journal'.entries[x].run = journal.entries[x].run
          /\ journal'.entries[x].fp = journal.entries[x].fp
    BY <1>2, <1>4, <1>5
  <2> QED
    BY <1>0, <2>1 DEF DecisionInv, HistoryInv, Coherent
<1>8. HistoryInv'
  <2>1. Recorded(t)'
    <3>1. journal'.entries[seq[t]] = e
      BY <1>0, <1>2
    <3>2. saved => disk'.entries = journal'.entries
      BY SaveWrites
    <3>3. pc'[t] \notin Underway /\ (pc'[t] \in Live => v = "done")
      BY <1>0 DEF Live, Underway
    <3> QED
      BY <1>0, <1>4, <3>1, <3>2, <3>3 DEF Recorded
  <2>2. \A u \in Tasks \ {t} :
            /\ pc'[u] = pc[u]
            /\ pc[u] \in Live => journal'.entries[seq[u]] = journal.entries[seq[u]]
    BY <1>0, <1>2
  <2> QED
    BY <1>2, <1>3, <1>7, <2>1, <2>2, HistoryFrame DEF DecisionInv
<1> QED
  BY <1>1, <1>6, <1>8 DEF DecisionInv

-----------------------------------------------------------------------------
\* The executions: nothing is under way, and a resumed run adopts the entries
\* of the snapshot only under its fingerprint.
LEMMA DecisionFresh ==
  ASSUME FreshContext, Coherent(journal'.entries, journal'.fp, run'),
         Coherent(disk'.entries, disk'.fp, run')
  PROVE  DecisionInv'
<1>1. /\ \A t \in Tasks : /\ pc'[t] = "idle" /\ seq'[t] = NoSeq
                          /\ held'[t] = NoEntry /\ usable'[t] = FALSE
      /\ phases' = <<>>
  BY DEF FreshContext
<1>2. OrderInv' /\ PrefixInv'
  BY <1>1 DEF OrderInv, PrefixInv, CachedPrefix, Undecided, Live, Underway
<1>3. PhaseInv'
  BY <1>1 DEF PhaseInv, PhasesInCallOrder
<1>4. HistoryInv'
  BY <1>1 DEF HistoryInv, Recorded, Live, Underway
<1> QED
  BY <1>2, <1>3, <1>4 DEF DecisionInv

LEMMA NoEntriesCoherent ==
  \A f, r : Coherent(NoEntries, f, r)
  BY DEF Coherent, NoEntries, NoEntry

LEMMA DecisionInit == Init => DecisionInv
<1> SUFFICES ASSUME Init PROVE DecisionInv
  OBVIOUS
<1>1. /\ \A t \in Tasks : /\ pc[t] = "idle" /\ seq[t] = NoSeq
                          /\ held[t] = NoEntry /\ usable[t] = FALSE
      /\ phases = <<>>
  BY DEF Init
<1>2. OrderInv /\ PrefixInv
  BY <1>1 DEF OrderInv, PrefixInv, CachedPrefix, Undecided, Live, Underway
<1>3. PhaseInv
  BY <1>1 DEF PhaseInv, PhasesInCallOrder
<1>4. journal.entries = NoEntries /\ disk.entries = NoEntries
  BY DEF Init, NewJournal, NoSnapshot
<1>5. HistoryInv
  BY <1>1, <1>4, NoEntriesCoherent DEF HistoryInv, Recorded, Live, Underway
<1> QED
  BY <1>2, <1>3, <1>5 DEF DecisionInv

LEMMA DecisionExecutions ==
  ASSUME TypeInv, DecisionInv
  PROVE  /\ \A outcome \in {"returned", "raised", "cancelled"},
                saved \in BOOLEAN : EndRun(outcome, saved) => DecisionInv'
         /\ Crash => DecisionInv'
         /\ \A f \in Fingerprints : Resume(f) => DecisionInv'
<1>0. /\ Coherent(journal.entries, journal.fp, run)
      /\ Coherent(disk.entries, disk.fp, run)
      /\ journal \in Journals /\ disk \in Snapshots /\ run \in Nat
  BY SeqFacts DEF DecisionInv, HistoryInv
<1>1. ASSUME NEW outcome \in {"returned", "raised", "cancelled"},
             NEW saved \in BOOLEAN, EndRun(outcome, saved)
      PROVE  DecisionInv'
  <2> DEFINE j == [journal EXCEPT !.terminal = FinalStatus(outcome)]
  <2>1. j.entries = journal.entries /\ j.fp = journal.fp
    BY <1>0 DEF Journals
  <2>2. Save(j, saved) /\ FreshContext /\ run' = run
    BY <1>1 DEF EndRun
  <2> HIDE DEF j
  <2>3. /\ journal' = j
        /\ saved => disk'.entries = j.entries /\ disk'.fp = j.fp
        /\ ~ saved => disk' = disk
    BY <2>2, SaveWrites
  <2>4. Coherent(journal'.entries, journal'.fp, run')
    BY <1>0, <2>1, <2>2, <2>3
  <2>5. Coherent(disk'.entries, disk'.fp, run')
    BY <1>0, <2>1, <2>2, <2>3
  <2> QED
    BY <2>2, <2>4, <2>5, DecisionFresh
<1>2. ASSUME Crash PROVE DecisionInv'
  <2>1. FreshContext /\ UNCHANGED <<run, journal, disk>>
    BY <1>2 DEF Crash
  <2> QED
    BY <1>0, <2>1, DecisionFresh
<1>3. ASSUME NEW f \in Fingerprints, Resume(f) PROVE DecisionInv'
  <2>1. /\ FreshContext /\ run' = run + 1 /\ disk' = disk
        /\ journal'.fp = f
        /\ journal'.entries = IF disk.fp = f THEN disk.entries ELSE NoEntries
    BY <1>3 DEF Resume, ResumedJournal
  <2>2. Coherent(disk.entries, disk.fp, run + 1)
    <3>1. \A p \in Positions : disk.entries[p].run \in Nat
      BY <1>0 DEF Snapshots, Entries
    <3> QED
      BY <1>0, <3>1 DEF Coherent
  <2>3. Coherent(journal'.entries, journal'.fp, run')
    BY <2>1, <2>2, NoEntriesCoherent
  <2> QED
    BY <2>1, <2>2, <2>3, DecisionFresh
<1> QED
  BY <1>1, <1>2, <1>3

LEMMA DecisionTask ==
  ASSUME TypeInv, TypeInv', DecisionInv, NEW t \in Tasks
  PROVE  (TaskStep(t) => DecisionInv') /\ (Disturbance(t) => DecisionInv')
<1>1. ASSUME RefuseUnsafe(t) \/ OverBudget(t) \/ CancelUndecided(t)
      PROVE  DecisionInv'
  <2>1. /\ pc[t] \in Undecided /\ pc' = [pc EXCEPT ![t] = "failed"]
        /\ journal' = InvalidateFrom(journal, seq[t])
        /\ UNCHANGED <<run, disk, seq, key, held, usable, phases>>
    BY <1>1 DEF RefuseUnsafe, OverBudget, CancelUndecided, Gate, At, Undecided
  <2> QED
    BY <2>1, DecisionDropped
<1>2. ASSUME Dispatch(t) \/ \E u \in Usages : Reask(t, u) PROVE DecisionInv'
  <2>1. PICK v \in Underway : pc' = [pc EXCEPT ![t] = v]
    BY <1>2 DEF Dispatch, Reask, Underway
  <2>2. /\ pc[t] \in Underway
        /\ UNCHANGED <<run, journal, disk, seq, key, held, usable, phases>>
    BY <1>2 DEF Dispatch, Reask, Receive, At, Underway
  <2> QED
    BY <2>1, <2>2, DecisionWithin
<1>3. ASSUME NEW saved \in BOOLEAN, Raise(t, saved), pc[t] \in Underway
      PROVE  DecisionInv'
  BY <1>3, DecisionEnds DEF Raise
<1>4. ASSUME NEW saved \in BOOLEAN,
             \/ SetupFails(t, saved) \/ DispatchRefused(t, saved)
             \/ CancelQueued(t, saved) \/ \E u \in Usages : CallFails(t, u, saved)
      PROVE  DecisionInv'
  <2>1. Raise(t, saved) /\ pc[t] \in Underway
    BY <1>4 DEF SetupFails, DispatchRefused, CancelQueued, CallFails, Receive, At,
                Underway
  <2> QED
    BY <1>3, <2>1
<1>5. ASSUME NEW u \in Usages, NEW r \in Results, NEW saved \in BOOLEAN,
             Answer(t, u, r, saved)
      PROVE  DecisionInv'
  <2>1. /\ Save(AppendEntry(journal, seq[t], EntryFor(t, "ok", r)), saved)
        /\ pc[t] \in Underway
        /\ UNCHANGED <<run, seq, key, held, usable, phases>>
    BY <1>5 DEF Answer, Receive, At, Underway
  <2>2. PICK v \in {"done", "failed"} :
          pc' = [pc EXCEPT ![t] = v] /\ (v = "done" => saved)
    BY <1>5 DEF Answer
  <2> QED
    BY <2>1, <2>2, DecisionEnds
<1>6. ASSUME NEW u \in Usages, NEW saved \in BOOLEAN, Exhaust(t, u, saved)
      PROVE  DecisionInv'
  <2>1. /\ Save(AppendEntry(journal, seq[t], EntryFor(t, "none", NoResult)), saved)
        /\ pc[t] \in Underway
        /\ UNCHANGED <<run, seq, key, held, usable, phases>>
    BY <1>6 DEF Exhaust, Receive, At, Underway
  <2>2. PICK v \in {"done", "failed"} :
          pc' = [pc EXCEPT ![t] = v] /\ (v = "done" => saved)
    BY <1>6 DEF Exhaust
  <2> QED
    BY <2>1, <2>2, DecisionEnds
<1> QED
  BY <1>1, <1>2, <1>4, <1>5, <1>6, DecisionCall, DecisionPreflight,
     DecisionVerdict, DecisionReuse, DecisionGoLive
  DEF TaskStep, Disturbance

LEMMA DecisionStep == TypeInv /\ DecisionInv /\ [Next]_vars => DecisionInv'
<1> SUFFICES ASSUME TypeInv, DecisionInv, [Next]_vars PROVE DecisionInv'
  OBVIOUS
<1>0. TypeInv'
  BY TypeStep
<1>1. CASE \E t \in Tasks : TaskStep(t) \/ Disturbance(t)
  BY <1>0, <1>1, DecisionTask
<1>2. CASE Execution
  BY <1>2, DecisionExecutions DEF Execution
<1>3. CASE UNCHANGED vars
  <2>1. OrderInv' /\ PrefixInv' /\ PhaseInv'
    BY <1>3 DEF vars, DecisionInv, OrderInv, PrefixInv, PhaseInv, CachedPrefix,
                PhasesInCallOrder
  <2>2. HistoryInv'
    BY <1>3 DEF vars, DecisionInv, HistoryInv, Recorded, EntryFor
  <2> QED
    BY <2>1, <2>2 DEF DecisionInv
<1> QED
  BY <1>1, <1>2, <1>3 DEF Next

LEMMA DecisionsKept == Spec => [](TypeInv /\ EffectInv /\ DecisionInv)
  BY TypeInit, TypeStep, EffectInit, EffectStep, DecisionInit, DecisionStep, PTL
  DEF Spec

\* A process death at any point hides no started call from the next execution:
\* intent and effect flag are in the snapshot before the call waits or acts.
THEOREM IntentIsDurable == Spec => []IntentDurable
<1>1. TypeInv /\ EffectInv /\ DecisionInv => IntentDurable
  <2> SUFFICES ASSUME TypeInv, EffectInv, DecisionInv, NEW t \in Tasks
               PROVE  /\ pc[t] \in Underway =>
                            /\ disk.entries[seq[t]] = EntryFor(t, "pending", NoResult)
                            /\ Effectful(t) => seq[t] \in disk.effectful
                      /\ pc[t] = "done" =>
                            /\ disk.entries[seq[t]].kind \in {"ok", "none"}
                            /\ disk.entries[seq[t]].key = key[t]
                            /\ disk.entries[seq[t]].run = run
    BY DEF IntentDurable
  <2>1. Recorded(t)
    BY DEF DecisionInv, HistoryInv
  <2>2. pc[t] \in Underway /\ Effectful(t) => seq[t] \in disk.effectful
    BY DEF EffectInv
  <2> QED
    BY <2>1, <2>2 DEF Recorded, Live
<1> QED
  BY <1>1, DecisionsKept, PTL

\* Whatever later calls look up, reject or cancel, what this execution paid for
\* stays in its journal.
THEOREM LiveIsKept == Spec => []LiveKept
<1>1. DecisionInv => LiveKept
  <2> SUFFICES ASSUME DecisionInv, NEW t \in Tasks,
                      pc[t] \in Underway \cup {"done"}
               PROVE  /\ journal.entries[seq[t]].key = key[t]
                      /\ journal.entries[seq[t]].run = run
    BY DEF LiveKept
  <2>1. Recorded(t)
    BY DEF DecisionInv, HistoryInv
  <2>2. CASE pc[t] \in Underway
    <3>1. journal.entries[seq[t]] = EntryFor(t, "pending", NoResult)
      BY <2>1, <2>2 DEF Recorded
    <3>2. /\ EntryFor(t, "pending", NoResult).key = key[t]
          /\ EntryFor(t, "pending", NoResult).run = run
      BY DEF EntryFor
    <3> QED
      BY <3>1, <3>2
  <2>3. CASE pc[t] = "done"
    BY <2>1, <2>3 DEF Recorded
  <2> QED
    BY <2>2, <2>3
<1> QED
  BY <1>1, DecisionsKept, PTL

\* Branches may verify and answer in any order: nothing is reused behind a call
\* that was not.
THEOREM ReuseIsPrefix == Spec => []CachedPrefix
<1>1. DecisionInv => CachedPrefix
  BY DEF DecisionInv, PrefixInv
<1> QED
  BY <1>1, DecisionsKept, PTL

\* The snapshot never mixes fingerprints or puts an old entry behind a new one.
THEOREM SnapshotIsCoherent == Spec => []SnapshotCoherent
<1>1. DecisionInv => SnapshotCoherent
  BY DEF DecisionInv, HistoryInv, Coherent, SnapshotCoherent
<1> QED
  BY <1>1, DecisionsKept, PTL

\* Phases are recorded in call order whatever order branches answer in.
THEOREM PhasesAreOrdered == Spec => []PhasesInCallOrder
<1>1. DecisionInv => PhasesInCallOrder
  BY DEF DecisionInv, PhaseInv
<1> QED
  BY <1>1, DecisionsKept, PTL

-----------------------------------------------------------------------------
(***************************************************************************)
(* The books: the semaphore, the budget and the charges add up.            *)
(***************************************************************************)

Running == {t \in Tasks : pc[t] = "running"}

SlotsInv == IsFiniteSet(Running) /\ SlotsAccounted

\* What a step does to the semaphore and its holders.
LEMMA SlotSteps ==
  ASSUME TypeInv, [Next]_vars
  PROVE  \/ Running' = {} /\ slots' = Concurrency
         \/ Running' = Running /\ slots' = slots
         \/ \E t \in Tasks \ Running :
                Running' = Running \cup {t} /\ slots' = slots - 1
         \/ \E t \in Running : Running' = Running \ {t} /\ slots' = slots + 1
<1>0. pc \in [Tasks -> PCs]
  BY SeqFacts
<1>1. CASE FreshContext
  <2>1. slots' = Concurrency /\ \A t \in Tasks : pc'[t] = "idle"
    BY <1>1 DEF FreshContext
  <2> QED
    BY <2>1 DEF Running
<1>2. ASSUME NEW t \in Tasks, NEW v, pc[t] # "running", v # "running",
             pc' = [pc EXCEPT ![t] = v]
      PROVE  Running' = Running
  BY <1>0, <1>2 DEF Running
<1>3. ASSUME NEW t \in Tasks, NEW v, pc[t] = "running", v # "running",
             pc' = [pc EXCEPT ![t] = v], slots' = slots + 1
      PROVE  \E x \in Running : Running' = Running \ {x} /\ slots' = slots + 1
  BY <1>0, <1>3 DEF Running
<1>4. ASSUME NEW t \in Tasks, TaskStep(t) \/ Disturbance(t), ~ Dispatch(t),
             \A u \in Usages : ~ Receive(t, u)
      PROVE  Running' = Running /\ slots' = slots
  <2>1. PICK v \in PCs \ {"running"} : pc' = [pc EXCEPT ![t] = v]
    BY <1>4 DEF TaskStep, Disturbance, PCs, Verdict, Reuse, RefuseUnsafe,
                OverBudget, GoLive, DispatchRefused, Answer, Reask, Exhaust,
                CallFails, Raise, Call, PreflightFails, CancelUndecided,
                SetupFails, CancelQueued
  <2>2. pc[t] # "running" /\ slots' = slots
    BY <1>4 DEF TaskStep, Disturbance, At, Gate, Reached, Verdict, Reuse,
                RefuseUnsafe, OverBudget, GoLive, DispatchRefused, Answer, Reask,
                Exhaust, CallFails, Call, PreflightFails, CancelUndecided,
                SetupFails, CancelQueued
  <2> QED
    BY <1>2, <2>1, <2>2
<1>5. ASSUME NEW t \in Tasks, Dispatch(t)
      PROVE  \E x \in Tasks \ Running :
                Running' = Running \cup {x} /\ slots' = slots - 1
  <2>1. pc[t] = "queued" /\ slots' = slots - 1 /\ pc' = [pc EXCEPT ![t] = "running"]
    BY <1>5 DEF Dispatch, At
  <2> QED
    BY <1>0, <2>1 DEF Running
<1>6. ASSUME NEW t \in Tasks, TaskStep(t) \/ Disturbance(t),
             NEW u \in Usages, Receive(t, u)
      PROVE  \E x \in Running : Running' = Running \ {x} /\ slots' = slots + 1
  <2>1. pc[t] = "running" /\ slots' = slots + 1
    BY <1>6 DEF Receive, At
  <2>2. PICK v \in PCs \ {"running"} : pc' = [pc EXCEPT ![t] = v]
    BY <1>6, <2>1 DEF TaskStep, Disturbance, PCs, Gate, At, Reached, Verdict,
                Reuse, RefuseUnsafe, OverBudget, GoLive, Dispatch,
                DispatchRefused, Answer, Reask, Exhaust, CallFails, Raise, Call,
                PreflightFails, CancelUndecided, SetupFails, CancelQueued
  <2> QED
    BY <1>3, <2>1, <2>2
<1>7. CASE UNCHANGED vars
  BY <1>7 DEF vars, Running
<1>8. CASE Execution
  BY <1>1, <1>8 DEF Execution, EndRun, Crash, Resume
<1> QED
  BY <1>4, <1>5, <1>6, <1>7, <1>8 DEF Next

LEMMA SlotsStep == TypeInv /\ SlotsInv /\ [Next]_vars => SlotsInv'
<1> SUFFICES ASSUME TypeInv, SlotsInv, [Next]_vars PROVE SlotsInv'
  OBVIOUS
<1>0. /\ slots \in Nat /\ Concurrency \in Nat /\ IsFiniteSet(Running)
      /\ Cardinality(Running) \in Nat
      /\ slots + Cardinality(Running) = Concurrency
  BY FS_CardinalityType, BoundAssumption
  DEF TypeInv, TypeOK, SlotsInv, SlotsAccounted, Running
<1>1. CASE Running' = {} /\ slots' = Concurrency
  BY <1>0, <1>1, FS_EmptySet DEF SlotsInv, SlotsAccounted, Running
<1>2. CASE Running' = Running /\ slots' = slots
  BY <1>0, <1>2 DEF SlotsInv, SlotsAccounted, Running
<1>3. ASSUME NEW t \in Tasks \ Running,
             Running' = Running \cup {t}, slots' = slots - 1
      PROVE  SlotsInv'
  <2>1. IsFiniteSet(Running') /\ Cardinality(Running') = Cardinality(Running) + 1
    BY <1>0, <1>3, FS_AddElement
  <2> QED
    BY <1>0, <1>3, <2>1 DEF SlotsInv, SlotsAccounted, Running
<1>4. ASSUME NEW t \in Running, Running' = Running \ {t}, slots' = slots + 1
      PROVE  SlotsInv'
  <2>1. IsFiniteSet(Running') /\ Cardinality(Running') = Cardinality(Running) - 1
    BY <1>0, <1>4, FS_RemoveElement
  <2> QED
    BY <1>0, <1>4, <2>1 DEF SlotsInv, SlotsAccounted, Running
<1> QED
  BY <1>1, <1>2, <1>3, <1>4, SlotSteps

\* No slot leaks or is given back twice, whichever way a call ends: the value of
\* the semaphore and the calls that hold it add up to its size.
THEOREM SlotsAddUp == Spec => []SlotsAccounted
<1>1. Init => SlotsInv
  <2> SUFFICES ASSUME Init PROVE SlotsInv
    OBVIOUS
  <2>1. Running = {} /\ slots = Concurrency
    BY DEF Init, Running
  <2> QED
    BY <2>1, FS_EmptySet, BoundAssumption DEF SlotsInv, SlotsAccounted, Running
<1>2. Spec => [](TypeInv /\ SlotsInv)
  BY <1>1, TypeInit, TypeStep, SlotsStep, PTL DEF Spec
<1> QED
  BY <1>2, PTL DEF SlotsInv

\* What a step does to the budget: an execution starts with an empty one, an
\* admitted call is one call more, and a call that returns reports its usage.
LEMMA BudgetSteps ==
  ASSUME TypeInv, [Next]_vars
  PROVE  \/ /\ FreshContext
            /\ budget' = [calls |-> 0, output |-> 0, unknown |-> 0]
            /\ slots' = Concurrency
         \/ /\ Admissible
            /\ budget' = [budget EXCEPT !.calls = @ + 1]
            /\ slots' = slots
         \/ /\ Dispatchable /\ slots > 0 /\ slots' = slots - 1
            /\ budget' = budget
         \/ \E u \in Usages : budget' = Charged(u) /\ slots' = slots + 1
         \/ budget' = [budget EXCEPT !.unknown = @ + 1] /\ slots' = slots
         \/ budget' = budget /\ slots' = slots
<1>1. CASE Execution
  <2>1. FreshContext
    BY <1>1 DEF Execution, EndRun, Crash, Resume
  <2> QED
    BY <2>1 DEF FreshContext
<1>2. CASE UNCHANGED vars
  BY <1>2 DEF vars
<1>3. ASSUME NEW t \in Tasks, TaskStep(t)
      PROVE  \/ /\ Admissible
                /\ budget' = [budget EXCEPT !.calls = @ + 1]
                /\ slots' = slots
             \/ /\ Dispatchable /\ slots > 0 /\ slots' = slots - 1
                /\ budget' = budget
             \/ \E u \in Usages : budget' = Charged(u) /\ slots' = slots + 1
             \/ budget' = budget /\ slots' = slots
  BY <1>3 DEF TaskStep, Verdict, Reuse, RefuseUnsafe, OverBudget, GoLive,
              Dispatch, DispatchRefused, Answer, Reask, Exhaust, CallFails, Receive
<1>4. ASSUME NEW t \in Tasks, Disturbance(t)
      PROVE  \/ budget' = [budget EXCEPT !.unknown = @ + 1] /\ slots' = slots
             \/ budget' = budget /\ slots' = slots
  BY <1>4 DEF Disturbance, Call, PreflightFails, CancelUndecided, SetupFails,
              CancelQueued
<1> QED
  BY <1>1, <1>2, <1>3, <1>4 DEF Next

\* MaxOutput for each call that may be in flight.
LEMMA InFlight ==
  ASSUME NEW m \in Nat, NEW c \in Nat, NEW s \in Nat
  PROVE  /\ m * (c - s) + m * s = m * c
         /\ m * (c - (s + 1)) = m * (c - s) - m
         /\ m * s \in Nat
         /\ m * (c - s) \in Int
  OBVIOUS

LEMMA BudgetStep ==
  TypeInv /\ WithinTotal /\ [Next]_vars => WithinTotal'
<1> SUFFICES ASSUME TypeInv, WithinTotal, [Next]_vars, Limited
             PROVE  IF Unit = "calls"
                    THEN budget'.calls <= Total
                    ELSE budget'.output + MaxOutput * (Concurrency - slots')
                            < Total + MaxOutput * Concurrency
  BY DEF WithinTotal
<1>0. /\ budget \in [calls : Nat, output : Nat, unknown : Nat]
      /\ slots \in Nat /\ Concurrency \in Nat /\ MaxOutput \in Nat
      /\ Total \in Nat \ {0} /\ Unit \in {"calls", "tokens"}
      /\ \A u \in Usages : /\ u.output \in Nat /\ u.unknown \in Nat
                           /\ u.output <= MaxOutput
  <2>1. budget \in [calls : Nat, output : Nat, unknown : Nat] /\ slots \in Nat
    BY DEF TypeInv, TypeOK
  <2>2. \A u \in Usages : /\ u.output \in Nat /\ u.unknown \in Nat
                          /\ u.output <= MaxOutput
    BY UsageAssumption DEF Usage
  <2> QED
    BY <2>1, <2>2, BoundAssumption, UsageAssumption
<1>1. CASE Unit = "calls"
  <2>1. budget.calls <= Total
    BY <1>1 DEF WithinTotal
  <2>2. Admissible => budget.calls < Total
    BY <1>1 DEF Admissible, Spent
  <2>3. \A u \in Usages : Charged(u).calls = budget.calls
    BY <1>0 DEF Charged
  <2> QED
    BY <1>0, <1>1, <2>1, <2>2, <2>3, BudgetSteps
<1>2. CASE Unit = "tokens"
  <2>1. budget.output + MaxOutput * (Concurrency - slots)
            < Total + MaxOutput * Concurrency
    BY <1>2 DEF WithinTotal
  <2>2. Dispatchable => budget.output < Total
    BY <1>2 DEF Dispatchable, Admissible, Spent
  <2>3. \A u \in Usages : Charged(u).output = budget.output + u.output
    BY <1>0 DEF Charged
  <2>4. ASSUME budget'.output = budget.output, slots' = slots
        PROVE  budget'.output + MaxOutput * (Concurrency - slots')
                    < Total + MaxOutput * Concurrency
    BY <2>1, <2>4
  <2>5. ASSUME budget'.output = 0, slots' = Concurrency
        PROVE  budget'.output + MaxOutput * (Concurrency - slots')
                    < Total + MaxOutput * Concurrency
    <3>1. MaxOutput * (Concurrency - slots') = 0 /\ MaxOutput * Concurrency \in Nat
      <4>1. Concurrency - slots' = 0
        BY <1>0, <2>5
      <4>2. MaxOutput * 0 = 0
        BY <1>0
      <4> QED
        BY <1>0, <4>1, <4>2, InFlight
    <3> QED
      BY <1>0, <2>5, <3>1
  <2>6. ASSUME Dispatchable, slots > 0, slots' = slots - 1, budget' = budget
        PROVE  budget'.output + MaxOutput * (Concurrency - slots')
                    < Total + MaxOutput * Concurrency
    <3>1. slots' \in Nat /\ MaxOutput \in Nat /\ Concurrency \in Nat
      BY <1>0, <2>6
    <3>2. /\ MaxOutput * (Concurrency - slots') + MaxOutput * slots'
                = MaxOutput * Concurrency
          /\ MaxOutput * slots' \in Nat /\ MaxOutput * (Concurrency - slots') \in Int
      BY <3>1, InFlight
    <3> DEFINE a == MaxOutput * (Concurrency - slots')
               b == MaxOutput * slots'
               d == MaxOutput * Concurrency
    <3>3. a + b = d /\ a \in Int /\ b \in Nat
      BY <3>2
    <3> HIDE DEF a, b, d
    <3>4. budget'.output + a < Total + d
      BY <1>0, <2>2, <2>6, <3>3
    <3> QED
      BY <3>4 DEF a, d
  <2>7. ASSUME NEW u \in Usages, budget' = Charged(u), slots' = slots + 1
        PROVE  budget'.output + MaxOutput * (Concurrency - slots')
                    < Total + MaxOutput * Concurrency
    <3>1. /\ MaxOutput * (Concurrency - slots')
                = MaxOutput * (Concurrency - slots) - MaxOutput
          /\ MaxOutput * (Concurrency - slots) \in Int
          /\ MaxOutput * Concurrency \in Nat
      BY <1>0, <2>7, InFlight
    <3> DEFINE a == MaxOutput * (Concurrency - slots')
               b == MaxOutput * (Concurrency - slots)
               d == MaxOutput * Concurrency
    <3>2. a = b - MaxOutput /\ b \in Int /\ d \in Nat
      BY <3>1
    <3>3. budget.output + b < Total + d
      BY <2>1
    <3>4. budget'.output = budget.output + u.output /\ u.output \in Nat
          /\ u.output <= MaxOutput
      BY <1>0, <2>3, <2>7
    <3> HIDE DEF a, b, d
    <3>5. budget'.output + a < Total + d
      BY <1>0, <3>2, <3>3, <3>4
    <3> QED
      BY <3>5 DEF a, d
  <2>8. /\ [budget EXCEPT !.calls = @ + 1].output = budget.output
        /\ [budget EXCEPT !.unknown = @ + 1].output = budget.output
    BY <1>0
  <2>9. \/ budget'.output = 0 /\ slots' = Concurrency
        \/ budget'.output = budget.output /\ slots' = slots
        \/ /\ Dispatchable /\ slots > 0 /\ slots' = slots - 1
           /\ budget' = budget
        \/ \E u \in Usages : budget' = Charged(u) /\ slots' = slots + 1
    <3> DEFINE one  == [budget EXCEPT !.calls = @ + 1]
               lost == [budget EXCEPT !.unknown = @ + 1]
               zero == [calls |-> 0, output |-> 0, unknown |-> 0]
    <3>1. /\ one.output = budget.output /\ lost.output = budget.output
          /\ zero.output = 0
      BY <2>8
    <3>2. \/ budget' = zero /\ slots' = Concurrency
          \/ budget' = one /\ slots' = slots
          \/ /\ Dispatchable /\ slots > 0 /\ slots' = slots - 1
             /\ budget' = budget
          \/ \E u \in Usages : budget' = Charged(u) /\ slots' = slots + 1
          \/ budget' = lost /\ slots' = slots
          \/ budget' = budget /\ slots' = slots
      BY BudgetSteps
    <3> HIDE DEF one, lost, zero
    <3> QED
      BY <3>1, <3>2
  <2> DEFINE Within == budget'.output + MaxOutput * (Concurrency - slots')
                            < Total + MaxOutput * Concurrency
  <2>10. Within
    <3>1. CASE budget'.output = 0 /\ slots' = Concurrency
      BY <2>5, <3>1
    <3>2. CASE budget'.output = budget.output /\ slots' = slots
      BY <2>4, <3>2
    <3>3. CASE /\ Dispatchable /\ slots > 0 /\ slots' = slots - 1
               /\ budget' = budget
      BY <2>6, <3>3
    <3>4. CASE \E u \in Usages : budget' = Charged(u) /\ slots' = slots + 1
      BY <2>7, <3>4
    <3> QED
      BY <2>9, <3>1, <3>2, <3>3, <3>4
  <2> QED
    BY <1>2, <2>10
<1> QED
  BY <1>0, <1>1, <1>2

\* Once a call's usage is unknown, no model call starts under a token budget
\* until the execution ends.
THEOREM UnknownUsageBlocks == Spec => UnknownBlocks
<1>1. TypeInv /\ [Next]_vars =>
        (Limited /\ Unit = "tokens" /\ budget.unknown > 0 =>
            \A t \in Tasks : pc'[t] = "running" => pc[t] = "running")
  <2> SUFFICES ASSUME TypeInv, [Next]_vars, Limited, Unit = "tokens",
                      budget.unknown > 0, NEW t \in Tasks,
                      pc'[t] = "running", pc[t] # "running"
               PROVE  FALSE
    OBVIOUS
  <2>1. \A x \in Tasks : ~ Dispatch(x)
    <3>1. budget.unknown # 0
      BY DEF TypeInv, TypeOK
    <3> QED
      BY <3>1 DEF Dispatch, Dispatchable, Admissible
  <2>2. ASSUME NEW x \in Tasks, TaskStep(x) \/ Disturbance(x) PROVE FALSE
    <3>1. PICK v \in PCs \ {"running"} : pc' = [pc EXCEPT ![x] = v]
      BY <2>1, <2>2 DEF TaskStep, Disturbance, PCs, Verdict, Reuse, RefuseUnsafe,
                OverBudget, GoLive, DispatchRefused, Answer, Reask, Exhaust,
                CallFails, Raise, Call, PreflightFails, CancelUndecided,
                SetupFails, CancelQueued
    <3> QED
      BY <3>1, SeqFacts
  <2>3. ~ UNCHANGED vars
    BY DEF vars
  <2>4. ~ Execution
    BY DEF Execution, EndRun, Crash, Resume, FreshContext
  <2> QED
    BY <2>2, <2>3, <2>4 DEF Next
<1>2. Spec => []TypeInv
  BY TypeInit, TypeStep, PTL DEF Spec
<1> QED
  BY <1>1, <1>2, PTL DEF Spec, UnknownBlocks

-----------------------------------------------------------------------------
\* The entries this execution made, all of them ahead of the undecided calls.
Own == {p \in Positions : /\ journal.entries[p].kind # "absent"
                          /\ journal.entries[p].run = run}

Ahead ==
    \A p \in Own :
        /\ p < nextSeq
        /\ \A u \in Tasks : pc[u] \in Undecided => p < seq[u]

ChargeInv == alive => Ahead /\ budget.calls = Cardinality(Own)

LEMMA OwnFinite == IsFiniteSet(Positions) /\ IsFiniteSet(Own)
<1>1. IsFiniteSet(Positions)
  BY MaxCallsAssumption, FS_Interval DEF Positions
<1>2. Own \subseteq Positions
  BY DEF Own
<1> QED
  BY <1>1, <1>2, FS_Subset

\* A step that leaves the execution's own entries and their charge alone.
LEMMA ChargeFrame ==
  ASSUME TypeInv, ChargeInv, NEW t \in Tasks, Own' = Own,
         UNCHANGED <<alive, seq, nextSeq>>, budget'.calls = budget.calls,
         \A u \in Tasks \ {t} : pc'[u] = pc[u],
         pc'[t] \in Undecided => pc[t] \in Undecided
  PROVE  ChargeInv'
<1> SUFFICES ASSUME alive PROVE Ahead' /\ budget'.calls = Cardinality(Own')
  BY DEF ChargeInv
<1>1. Ahead'
  BY DEF ChargeInv, Ahead
<1> QED
  BY <1>1 DEF ChargeInv

\* What is dropped at or behind the own entries leaves them there.
LEMMA CutKeepsOwn ==
  ASSUME TypeInv, NEW s \in 0 .. MaxCalls, \A p \in Own : p < s,
         journal' = InvalidateFrom(journal, s), run' = run
  PROVE  Own' = Own
<1>1. \A p \in Positions : journal'.entries[p] =
        IF p < s THEN journal.entries[p] ELSE NoEntry
  BY SeqFacts, CutEntries
<1>2. NoEntry.kind = "absent"
  BY DEF NoEntry
<1> QED
  BY <1>1, <1>2 DEF Own

LEMMA ChargeCall ==
  ASSUME TypeInv, ChargeInv, NEW t \in Tasks, Call(t) PROVE ChargeInv'
<1>0. /\ alive /\ UNCHANGED <<alive, run, budget>>
      /\ nextSeq' = nextSeq + 1 /\ nextSeq \in 0 .. MaxCalls /\ nextSeq \in Nat
      /\ seq' = [seq EXCEPT ![t] = nextSeq]
      /\ \A u \in Tasks \ {t} : pc'[u] = pc[u] /\ seq'[u] = seq[u]
      /\ seq'[t] = nextSeq
  BY SeqFacts DEF Call, Reached, TypeInv, TypeOK
<1>1. \A p \in Own : p < nextSeq /\ p \in Nat
  BY <1>0 DEF ChargeInv, Ahead, Own, Positions
<1>2. Own' = Own
  <2>1. \/ journal' = journal
        \/ journal' = InvalidateFrom(journal, nextSeq)
    BY DEF Call, AfterLookup
  <2>2. CASE journal' = journal
    BY <1>0, <2>2 DEF Own
  <2>3. CASE journal' = InvalidateFrom(journal, nextSeq)
    BY <1>0, <1>1, <2>3, CutKeepsOwn
  <2> QED
    BY <2>1, <2>2, <2>3
<1>3. Ahead'
  BY <1>0, <1>1, <1>2 DEF ChargeInv, Ahead
<1> QED
  BY <1>0, <1>2, <1>3 DEF ChargeInv

LEMMA ChargeDropped ==
  ASSUME TypeInv, ChargeInv, NEW t \in Tasks, alive, pc[t] \in Undecided,
         pc' = [pc EXCEPT ![t] = "failed"],
         journal' = InvalidateFrom(journal, seq[t]),
         UNCHANGED <<alive, run, seq, nextSeq, budget>>
  PROVE  ChargeInv'
<1>1. /\ \A u \in Tasks : pc'[u] = IF u = t THEN "failed" ELSE pc[u]
      /\ seq[t] \in 0 .. MaxCalls
  BY SeqFacts
<1>2. \A p \in Own : p < seq[t]
  BY DEF ChargeInv, Ahead
<1>3. Own' = Own
  BY <1>1, <1>2, CutKeepsOwn
<1> QED
  BY <1>1, <1>3, ChargeFrame DEF Undecided

LEMMA ChargeGoLive ==
  ASSUME TypeInv, DecisionInv, ChargeInv, alive, NEW t \in Tasks,
         NEW saved \in BOOLEAN, GoLive(t, saved)
  PROVE  ChargeInv'
<1> DEFINE e == EntryFor(t, "pending", NoResult)
<1>0. /\ pc[t] \in Undecided /\ EarlierDecided(t)
      /\ UNCHANGED <<alive, run, seq, nextSeq>>
      /\ budget' = [budget EXCEPT !.calls = @ + 1]
      /\ journal' = WithIntent(t)
      /\ \A u \in Tasks \ {t} : pc'[u] = pc[u]
      /\ pc'[t] \notin Undecided
  BY DEF GoLive, Gate, At, Undecided, Save, TypeInv, TypeOK
<1>1. /\ journal \in Journals /\ seq[t] \in Positions /\ seq[t] \in 0 .. MaxCalls
      /\ seq[t] # NoSeq /\ seq[t] < nextSeq
      /\ \A u \in Tasks : seq[u] \in Nat
      /\ \A u, w \in Tasks : seq[u] = seq[w] /\ seq[u] # NoSeq => u = w
  BY <1>0, SeqFacts DEF Active
<1>2. \A p \in Positions : journal'.entries[p] =
        IF p < seq[t] THEN journal.entries[p] ELSE IF p = seq[t] THEN e ELSE NoEntry
  <2> DEFINE c == InvalidateFrom(journal, seq[t])
  <2> DEFINE d == [c EXCEPT !.effectful = IF Effectful(t) THEN @ \cup {seq[t]} ELSE @]
  <2>1. c \in Journals
    BY <1>1, InvalidateFromType
  <2>2. d \in Journals /\ d.entries = c.entries
    BY <1>1, <2>1 DEF Journals
  <2>3. \A p \in Positions :
            c.entries[p] = IF p < seq[t] THEN journal.entries[p] ELSE NoEntry
    BY <1>1, CutEntries
  <2>4. WithIntent(t) = AppendEntry(d, seq[t], e)
    BY DEF WithIntent
  <2> HIDE DEF c, d, e
  <2>5. \A p \in Positions :
            journal'.entries[p] = IF p = seq[t] THEN e ELSE d.entries[p]
    BY <1>0, <1>1, <2>2, <2>4, AppendedEntries
  <2>6. \A p \in Positions : p = seq[t] => ~(p < seq[t])
    BY MaxCallsAssumption DEF Positions
  <2> QED
    BY <2>2, <2>3, <2>5, <2>6
<1>3. e.kind = "pending" /\ e.run = run /\ NoEntry.kind = "absent"
  BY DEF EntryFor, NoEntry
<1>4. \A p \in Own : p < seq[t] /\ p \in Nat
  BY <1>0 DEF ChargeInv, Ahead, Own, Positions
<1> HIDE DEF e
<1>5. Own' = Own \cup {seq[t]} /\ seq[t] \notin Own
  <2>1. \A p \in Positions : p \in Own' <=> p \in Own \/ p = seq[t]
    BY <1>0, <1>1, <1>2, <1>3, <1>4 DEF Own
  <2>2. seq[t] \notin Own
    BY <1>1, <1>4
  <2> QED
    BY <1>1, <2>1, <2>2 DEF Own
<1>6. Cardinality(Own') = Cardinality(Own) + 1
  BY <1>5, OwnFinite, FS_AddElement
<1>7. budget'.calls = budget.calls + 1
  BY <1>0 DEF TypeInv, TypeOK
<1>8. Ahead'
  <2>1. \A u \in Tasks \ {t} : pc[u] \in Undecided => seq[t] < seq[u]
    BY <1>0, <1>1 DEF EarlierDecided
  <2> QED
    BY <1>0, <1>1, <1>5, <2>1 DEF ChargeInv, Ahead
<1> QED
  BY <1>6, <1>7, <1>8 DEF ChargeInv

LEMMA ChargeEnds ==
  ASSUME TypeInv, DecisionInv, ChargeInv, NEW t \in Tasks,
         NEW kind \in {"ok", "none", "error"}, NEW r, pc[t] \in Underway,
         journal' = AppendEntry(journal, seq[t], EntryFor(t, kind, r)),
         NEW v \in {"done", "failed"}, pc' = [pc EXCEPT ![t] = v],
         budget'.calls = budget.calls,
         UNCHANGED <<alive, run, seq, nextSeq>>
  PROVE  ChargeInv'
<1> DEFINE e == EntryFor(t, kind, r)
<1>1. /\ \A u \in Tasks : pc'[u] = IF u = t THEN v ELSE pc[u]
      /\ journal \in Journals /\ seq[t] \in Positions
  BY SeqFacts DEF Active
<1>2. e.kind # "absent" /\ e.run = run
  BY DEF EntryFor
<1>3. journal.entries[seq[t]].kind # "absent" /\ journal.entries[seq[t]].run = run
  <2>1. journal.entries[seq[t]] = EntryFor(t, "pending", NoResult)
    BY DEF DecisionInv, HistoryInv, Recorded
  <2> QED
    BY <2>1 DEF EntryFor
<1>4. \A p \in Positions :
        journal'.entries[p] = IF p = seq[t] THEN e ELSE journal.entries[p]
  BY <1>1, AppendedEntries
<1> HIDE DEF e
<1>5. Own' = Own
  BY <1>1, <1>2, <1>3, <1>4 DEF Own
<1> QED
  BY <1>1, <1>5, ChargeFrame DEF Undecided

LEMMA ChargeTask ==
  ASSUME TypeInv, DecisionInv, ChargeInv, NEW t \in Tasks
  PROVE  (TaskStep(t) => ChargeInv') /\ (Disturbance(t) => ChargeInv')
<1>0. /\ budget \in [calls : Nat, output : Nat, unknown : Nat]
      /\ \A u \in Usages : Charged(u).calls = budget.calls
      /\ [budget EXCEPT !.unknown = @ + 1].calls = budget.calls
  <2>1. budget \in [calls : Nat, output : Nat, unknown : Nat]
    BY DEF TypeInv, TypeOK
  <2> QED
    BY <2>1 DEF Charged
<1>1. ASSUME RefuseUnsafe(t) \/ OverBudget(t) \/ CancelUndecided(t)
      PROVE  ChargeInv'
  <2>1. /\ pc[t] \in Undecided /\ pc' = [pc EXCEPT ![t] = "failed"]
        /\ journal' = InvalidateFrom(journal, seq[t])
        /\ UNCHANGED <<alive, run, seq, nextSeq, budget>>
    BY <1>1 DEF RefuseUnsafe, OverBudget, CancelUndecided, Gate, At, Undecided
  <2> QED
    BY <2>1, ChargeDropped DEF ChargeInv
<1>2. ASSUME NEW v, pc' = [pc EXCEPT ![t] = v],
             v \in Undecided => pc[t] \in Undecided,
             UNCHANGED <<alive, run, journal, seq, nextSeq>>,
             budget'.calls = budget.calls
      PROVE  ChargeInv'
  <2>1. \A u \in Tasks : pc'[u] = IF u = t THEN v ELSE pc[u]
    BY <1>2, SeqFacts
  <2>2. Own' = Own
    BY <1>2 DEF Own
  <2> QED
    BY <1>2, <2>1, <2>2, ChargeFrame
<1>3. ASSUME \/ PreflightFails(t) \/ Reuse(t) \/ Dispatch(t)
             \/ \E u \in Usages : Reask(t, u)
             \/ \E accepts, called \in BOOLEAN : Verdict(t, accepts, called)
      PROVE  ChargeInv'
  <2>1. \E v : /\ pc' = [pc EXCEPT ![t] = v]
               /\ v \in Undecided => pc[t] \in Undecided
    <3>1. ASSUME NEW v \in {"failed", "reused", "running", "queued"},
                 pc' = [pc EXCEPT ![t] = v]
          PROVE  \E x : /\ pc' = [pc EXCEPT ![t] = x]
                        /\ x \in Undecided => pc[t] \in Undecided
      BY <3>1 DEF Undecided
    <3>2. ASSUME NEW accepts \in BOOLEAN, NEW called \in BOOLEAN,
                 Verdict(t, accepts, called)
          PROVE  \E x : /\ pc' = [pc EXCEPT ![t] = x]
                        /\ x \in Undecided => pc[t] \in Undecided
      BY <3>2 DEF Verdict, At, Undecided
    <3> QED
      BY <1>3, <3>1, <3>2 DEF PreflightFails, Reuse, Dispatch, Reask
  <2>2. UNCHANGED <<alive, run, journal, seq, nextSeq>>
    BY <1>3 DEF PreflightFails, Reuse, Dispatch, Reask, Verdict
  <2>3. budget'.calls = budget.calls
    BY <1>0, <1>3 DEF PreflightFails, Reuse, Dispatch, Reask, Verdict, Receive
  <2> QED
    BY <1>2, <2>1, <2>2, <2>3
<1>4. ASSUME NEW saved \in BOOLEAN, Raise(t, saved), pc[t] \in Underway,
             UNCHANGED nextSeq, budget'.calls = budget.calls
      PROVE  ChargeInv'
  <2>1. /\ journal' = AppendEntry(journal, seq[t], EntryFor(t, "error", NoResult))
        /\ pc' = [pc EXCEPT ![t] = "failed"]
        /\ UNCHANGED <<alive, run, seq>>
    BY <1>4 DEF Raise, Save
  <2> QED
    BY <1>4, <2>1, ChargeEnds
<1>5. ASSUME NEW saved \in BOOLEAN,
             \/ SetupFails(t, saved) \/ DispatchRefused(t, saved)
             \/ CancelQueued(t, saved) \/ \E u \in Usages : CallFails(t, u, saved)
      PROVE  ChargeInv'
  <2>1. Raise(t, saved) /\ pc[t] \in Underway /\ UNCHANGED nextSeq
    BY <1>5 DEF SetupFails, DispatchRefused, CancelQueued, CallFails, Receive, At,
                Underway, Raise
  <2>2. budget'.calls = budget.calls
    BY <1>0, <1>5 DEF SetupFails, DispatchRefused, CancelQueued, CallFails, Receive
  <2> QED
    BY <1>4, <2>1, <2>2
<1>6. ASSUME NEW u \in Usages, NEW r \in Results, NEW saved \in BOOLEAN,
             Answer(t, u, r, saved)
      PROVE  ChargeInv'
  <2>1. /\ journal' = AppendEntry(journal, seq[t], EntryFor(t, "ok", r))
        /\ pc[t] \in Underway
        /\ UNCHANGED <<alive, run, seq, nextSeq>>
    BY <1>6 DEF Answer, Receive, At, Underway, Save
  <2>2. PICK v \in {"done", "failed"} : pc' = [pc EXCEPT ![t] = v]
    BY <1>6 DEF Answer
  <2>3. budget'.calls = budget.calls
    BY <1>0, <1>6 DEF Answer, Receive
  <2> QED
    BY <2>1, <2>2, <2>3, ChargeEnds
<1>7. ASSUME NEW u \in Usages, NEW saved \in BOOLEAN, Exhaust(t, u, saved)
      PROVE  ChargeInv'
  <2>1. /\ journal' = AppendEntry(journal, seq[t], EntryFor(t, "none", NoResult))
        /\ pc[t] \in Underway
        /\ UNCHANGED <<alive, run, seq, nextSeq>>
    BY <1>7 DEF Exhaust, Receive, At, Underway, Save
  <2>2. PICK v \in {"done", "failed"} : pc' = [pc EXCEPT ![t] = v]
    BY <1>7 DEF Exhaust
  <2>3. budget'.calls = budget.calls
    BY <1>0, <1>7 DEF Exhaust, Receive
  <2> QED
    BY <2>1, <2>2, <2>3, ChargeEnds
<1>8. ASSUME NEW saved \in BOOLEAN, GoLive(t, saved) PROVE ChargeInv'
  <2>1. CASE alive
    BY <1>8, <2>1, ChargeGoLive
  <2>2. CASE ~ alive
    <3>1. alive' = alive
      BY <1>8 DEF GoLive
    <3> QED
      BY <2>2, <3>1 DEF ChargeInv
  <2> QED
    BY <2>1, <2>2
<1> QED
  BY <1>1, <1>3, <1>5, <1>6, <1>7, <1>8, ChargeCall DEF TaskStep, Disturbance

LEMMA ChargeStep ==
  TypeInv /\ DecisionInv /\ ChargeInv /\ [Next]_vars => ChargeInv'
<1> SUFFICES ASSUME TypeInv, DecisionInv, ChargeInv, [Next]_vars PROVE ChargeInv'
  OBVIOUS
<1>1. CASE \E t \in Tasks : TaskStep(t) \/ Disturbance(t)
  BY <1>1, ChargeTask
<1>2. CASE UNCHANGED vars
  BY <1>2 DEF vars, ChargeInv, Ahead, Own
<1>3. ASSUME NEW outcome, NEW saved, EndRun(outcome, saved) PROVE ChargeInv'
  BY <1>3 DEF EndRun, ChargeInv
<1>4. CASE Crash
  BY <1>4 DEF Crash, ChargeInv
<1>5. ASSUME NEW f \in Fingerprints, Resume(f) PROVE ChargeInv'
  <2>1. /\ FreshContext /\ run' = run + 1 /\ budget'.calls = 0
        /\ journal'.entries = IF disk.fp = f THEN disk.entries ELSE NoEntries
    BY <1>5 DEF Resume, ResumedJournal, FreshContext
  <2>2. /\ \A p \in Positions : disk.entries[p].kind # "absent" =>
                disk.entries[p].run <= run
        /\ \A p \in Positions : disk.entries[p].run \in Nat
        /\ run \in Nat
    <3>1. Coherent(disk.entries, disk.fp, run)
      BY DEF DecisionInv, HistoryInv
    <3> QED
      BY <3>1, SeqFacts DEF Coherent, Snapshots, Entries
  <2>3. \A p \in Positions : NoEntries[p].kind = "absent"
    BY DEF NoEntries, NoEntry
  <2>4. Own' = {}
    BY <2>1, <2>2, <2>3 DEF Own
  <2> QED
    BY <2>1, <2>4, FS_EmptySet DEF ChargeInv, Ahead
<1> QED
  BY <1>1, <1>2, <1>3, <1>4, <1>5 DEF Next, Execution

LEMMA ChargesKept == Spec => []ChargeInv
<1>1. Init => ChargeInv
  <2> SUFFICES ASSUME Init PROVE ChargeInv
    OBVIOUS
  <2>1. budget.calls = 0 /\ journal.entries = NoEntries
    BY DEF Init, NewJournal
  <2>2. Own = {}
    BY <2>1 DEF Own, NoEntries, NoEntry
  <2> QED
    BY <2>1, <2>2, FS_EmptySet DEF ChargeInv, Ahead
<1> QED
  BY <1>1, DecisionsKept, ChargeStep, PTL DEF Spec

\* What the budget says was called and what the journal says this execution did
\* are the same number, over every order of decisions, failures and resumes.
THEOREM ChargesAreJournalled == Spec => []ChargesMatchJournal
<1>1. ChargeInv => ChargesMatchJournal
  BY DEF ChargeInv, ChargesMatchJournal, Own
<1> QED
  BY <1>1, ChargesKept, PTL

-----------------------------------------------------------------------------
\* Between two executions nothing is charged and no call is under way.
AtRest == ~ alive => budget.calls = 0 /\ \A t \in Tasks : pc[t] = "idle"

LEMMA RestStep == TypeInv /\ AtRest /\ [Next]_vars => AtRest'
<1> SUFFICES ASSUME TypeInv, AtRest, [Next]_vars PROVE AtRest'
  OBVIOUS
<1>1. ASSUME NEW t \in Tasks, TaskStep(t) PROVE AtRest'
  <2>1. alive' = alive /\ pc[t] # "idle"
    BY <1>1 DEF TaskStep, Verdict, Reuse, RefuseUnsafe, OverBudget, GoLive,
                Dispatch, DispatchRefused, Answer, Reask, Exhaust, CallFails,
                Raise, Receive, Gate, At
  <2> QED
    BY <2>1 DEF AtRest
<1>2. ASSUME NEW t \in Tasks, Disturbance(t) PROVE AtRest'
  <2>1. alive' = alive /\ (alive \/ pc[t] # "idle")
    BY <1>2 DEF Disturbance, Call, PreflightFails, CancelUndecided, SetupFails,
                CancelQueued, Raise, Reached, At
  <2> QED
    BY <2>1 DEF AtRest
<1>3. CASE Execution
  <2>1. FreshContext
    BY <1>3 DEF Execution, EndRun, Crash, Resume
  <2> QED
    BY <2>1 DEF FreshContext, AtRest
<1>4. CASE UNCHANGED vars
  BY <1>4 DEF vars, AtRest
<1> QED
  BY <1>1, <1>2, <1>3, <1>4 DEF Next

\* What is charged has a position of its own, and positions are capped.
LEMMA ChargedHavePositions ==
  ASSUME TypeInv, ChargeInv, AtRest
  PROVE  budget.calls <= nextSeq /\ nextSeq <= MaxCalls
<1>1. nextSeq \in 0 .. MaxCalls /\ MaxCalls \in Nat
  BY MaxCallsAssumption DEF TypeInv, TypeOK
<1>2. CASE ~ alive
  BY <1>1, <1>2 DEF AtRest
<1>3. CASE alive
  <2>1. Own \subseteq 0 .. (nextSeq - 1)
    BY <1>1, <1>3 DEF ChargeInv, Ahead, Own, Positions
  <2>2. /\ IsFiniteSet(0 .. (nextSeq - 1))
        /\ Cardinality(0 .. (nextSeq - 1)) = nextSeq
    <3>1. /\ IsFiniteSet(0 .. (nextSeq - 1))
          /\ Cardinality(0 .. (nextSeq - 1)) =
                IF 0 > nextSeq - 1 THEN 0 ELSE (nextSeq - 1) - 0 + 1
      BY <1>1, FS_Interval
    <3> QED
      BY <1>1, <3>1
  <2>3. Cardinality(Own) <= nextSeq
    BY <2>1, <2>2, FS_Subset
  <2> QED
    BY <1>1, <1>3, <2>3 DEF ChargeInv
<1> QED
  BY <1>2, <1>3

\* No execution gives more calls a position than the cap allows or charges more
\* steps than that.  A call budget is never exceeded; tokens reported, and those
\* the calls in flight may still report, stay below the budget plus one full
\* report per slot.
THEOREM BudgetIsRespected == Spec => []BudgetRespected
<1>1. Init => WithinTotal
  <2> SUFFICES ASSUME Init PROVE WithinTotal
    OBVIOUS
  <2>1. budget.calls = 0 /\ budget.output = 0 /\ slots = Concurrency
    BY DEF Init
  <2>2. /\ MaxOutput * (Concurrency - slots) = 0 /\ MaxOutput * Concurrency \in Nat
        /\ Total \in Nat \ {0}
    BY <2>1, BoundAssumption, UsageAssumption
  <2> QED
    BY <2>1, <2>2 DEF WithinTotal
<1>2. Init => AtRest
  BY DEF Init, AtRest
<1>3. Spec => [](TypeInv /\ ChargeInv /\ AtRest /\ WithinTotal)
  BY <1>1, <1>2, TypeInit, TypeStep, BudgetStep, RestStep, ChargesKept, PTL DEF Spec
<1>4. TypeInv /\ ChargeInv /\ AtRest /\ WithinTotal => BudgetRespected
  BY ChargedHavePositions DEF BudgetRespected
<1> QED
  BY <1>3, <1>4, PTL

-----------------------------------------------------------------------------
\* What may be reused is an answer; and a call that failed, or returned none, or
\* was refused to a verifier has marred the outcome of its execution.
Answers(entries) ==
    \A p \in Positions : entries[p].kind = "ok" => entries[p].result # NoResult

WholeInv ==
    /\ Answers(journal.entries) /\ Answers(disk.entries)
    /\ ~ marred => \A t \in Tasks :
          /\ pc[t] # "failed"
          /\ pc[t] \in Returned => outputs[t] # NoResult
    /\ ~ marred => reentered = {}

LEMMA CutAnswers ==
  ASSUME NEW j \in Journals, NEW s \in 0 .. MaxCalls, Answers(j.entries)
  PROVE  Answers(InvalidateFrom(j, s).entries)
<1>1. \A p \in Positions : InvalidateFrom(j, s).entries[p] =
        IF p < s THEN j.entries[p] ELSE NoEntry
  BY CutEntries
<1>2. NoEntry.kind = "absent"
  BY DEF NoEntry
<1> QED
  BY <1>1, <1>2 DEF Answers

LEMMA AppendAnswers ==
  ASSUME NEW j \in Journals, NEW s \in Positions, NEW e, Answers(j.entries),
         e.kind = "ok" => e.result # NoResult
  PROVE  Answers(AppendEntry(j, s, e).entries)
<1>1. \A p \in Positions : AppendEntry(j, s, e).entries[p] =
        IF p = s THEN e ELSE j.entries[p]
  BY AppendedEntries
<1> QED
  BY <1>1 DEF Answers

LEMMA SaveAnswers ==
  ASSUME NEW j, NEW saved \in BOOLEAN, Save(j, saved), Answers(j.entries),
         Answers(disk.entries)
  PROVE  Answers(journal'.entries) /\ Answers(disk'.entries)
  BY SaveWrites

LEMMA WholeJournal ==
  ASSUME TypeInv, WholeInv, NEW t \in Tasks, TaskStep(t) \/ Disturbance(t)
  PROVE  Answers(journal'.entries) /\ Answers(disk'.entries)
<1>0. /\ journal \in Journals /\ Answers(journal.entries) /\ Answers(disk.entries)
      /\ pc[t] \in Active => seq[t] \in Positions /\ seq[t] \in 0 .. MaxCalls
  BY SeqFacts DEF WholeInv
<1>1. ASSUME NEW s \in 0 .. MaxCalls, disk' = disk,
             journal' = journal \/ journal' = InvalidateFrom(journal, s)
      PROVE  Answers(journal'.entries) /\ Answers(disk'.entries)
  BY <1>0, <1>1, CutAnswers
<1>2. ASSUME NEW kind, NEW r, kind = "ok" => r # NoResult, NEW saved \in BOOLEAN,
             pc[t] \in Underway,
             Save(AppendEntry(journal, seq[t], EntryFor(t, kind, r)), saved)
      PROVE  Answers(journal'.entries) /\ Answers(disk'.entries)
  <2> DEFINE e == EntryFor(t, kind, r)
  <2>1. e.kind = "ok" => e.result # NoResult
    BY <1>2 DEF EntryFor
  <2> HIDE DEF e
  <2>2. Answers(AppendEntry(journal, seq[t], e).entries)
    BY <1>0, <1>2, <2>1, AppendAnswers DEF Active
  <2>3. Save(AppendEntry(journal, seq[t], e), saved)
    BY <1>2 DEF e
  <2> QED
    BY <1>0, <1>2, <2>2, <2>3, SaveAnswers
<1>3. ASSUME Call(t) PROVE Answers(journal'.entries) /\ Answers(disk'.entries)
  <2>1. nextSeq \in 0 .. MaxCalls /\ disk' = disk
    BY <1>3 DEF Call, TypeInv, TypeOK
  <2>2. journal' = journal \/ journal' = InvalidateFrom(journal, nextSeq)
    BY <1>3 DEF Call, AfterLookup
  <2> QED
    BY <1>1, <2>1, <2>2
<1>4. ASSUME RefuseUnsafe(t) \/ OverBudget(t) \/ CancelUndecided(t)
      PROVE  Answers(journal'.entries) /\ Answers(disk'.entries)
  <2>1. /\ pc[t] \in Undecided /\ disk' = disk
        /\ journal' = InvalidateFrom(journal, seq[t])
    BY <1>4 DEF RefuseUnsafe, OverBudget, CancelUndecided, Gate, At, Undecided
  <2> QED
    BY <1>0, <1>1, <2>1 DEF Active
<1>5. ASSUME NEW saved \in BOOLEAN, GoLive(t, saved)
      PROVE  Answers(journal'.entries) /\ Answers(disk'.entries)
  <2> DEFINE e == EntryFor(t, "pending", NoResult)
  <2> DEFINE c == InvalidateFrom(journal, seq[t])
  <2> DEFINE d == [c EXCEPT !.effectful = IF Effectful(t) THEN @ \cup {seq[t]} ELSE @]
  <2>1. Save(WithIntent(t), saved) /\ pc[t] \in Undecided
    BY <1>5 DEF GoLive, Gate, At, Undecided
  <2>2. seq[t] \in Positions /\ seq[t] \in 0 .. MaxCalls
    BY <1>0, <2>1 DEF Active
  <2>3. c \in Journals /\ Answers(c.entries)
    BY <1>0, <2>2, InvalidateFromType, CutAnswers
  <2>4. d \in Journals /\ d.entries = c.entries
    BY <2>2, <2>3 DEF Journals
  <2>5. WithIntent(t) = AppendEntry(d, seq[t], e)
    BY DEF WithIntent
  <2>6. e.kind = "pending"
    BY DEF EntryFor
  <2> HIDE DEF c, d, e
  <2>7. Answers(AppendEntry(d, seq[t], e).entries)
    BY <2>2, <2>3, <2>4, <2>6, AppendAnswers
  <2> QED
    BY <1>0, <2>1, <2>5, <2>7, SaveAnswers
<1>6. ASSUME \/ PreflightFails(t) \/ Reuse(t) \/ Dispatch(t)
             \/ \E u \in Usages : Reask(t, u)
             \/ \E accepts, called \in BOOLEAN : Verdict(t, accepts, called)
      PROVE  Answers(journal'.entries) /\ Answers(disk'.entries)
  BY <1>0, <1>6 DEF PreflightFails, Reuse, Dispatch, Reask, Verdict
<1>7. ASSUME NEW saved \in BOOLEAN,
             \/ SetupFails(t, saved) \/ DispatchRefused(t, saved)
             \/ CancelQueued(t, saved) \/ \E u \in Usages : CallFails(t, u, saved)
      PROVE  Answers(journal'.entries) /\ Answers(disk'.entries)
  <2>1. Raise(t, saved) /\ pc[t] \in Underway
    BY <1>7 DEF SetupFails, DispatchRefused, CancelQueued, CallFails, Receive, At,
                Underway
  <2> QED
    BY <1>2, <2>1 DEF Raise
<1>8. ASSUME NEW u \in Usages, NEW r \in Results, NEW saved \in BOOLEAN,
             Answer(t, u, r, saved)
      PROVE  Answers(journal'.entries) /\ Answers(disk'.entries)
  BY <1>2, <1>8, NamesAssumption DEF Answer, Receive, At, Underway
<1>9. ASSUME NEW u \in Usages, NEW saved \in BOOLEAN, Exhaust(t, u, saved)
      PROVE  Answers(journal'.entries) /\ Answers(disk'.entries)
  BY <1>2, <1>9 DEF Exhaust, Receive, At, Underway
<1> QED
  BY <1>3, <1>4, <1>5, <1>6, <1>7, <1>8, <1>9 DEF TaskStep, Disturbance

\* A step mars the outcome, keeps the calls that returned, or returns an answer.
LEMMA WholeOutcome ==
  ASSUME TypeInv, DecisionInv, WholeInv, NEW t \in Tasks,
         TaskStep(t) \/ Disturbance(t), ~ marred'
  PROVE  \A x \in Tasks : /\ pc'[x] # "failed"
                          /\ pc'[x] \in Returned => outputs'[x] # NoResult
<1>0. /\ pc \in [Tasks -> PCs] /\ outputs \in [Tasks -> Results \cup {NoResult}]
      /\ held \in [Tasks -> Entries]
  BY DEF TypeInv, TypeOK
<1>1. ~ marred => \A x \in Tasks : /\ pc[x] # "failed"
                                   /\ pc[x] \in Returned => outputs[x] # NoResult
  BY DEF WholeInv
<1>2. ASSUME NEW v \in Undecided \cup Underway, pc' = [pc EXCEPT ![t] = v],
             outputs' = outputs, ~ marred
      PROVE  \A x \in Tasks : /\ pc'[x] # "failed"
                              /\ pc'[x] \in Returned => outputs'[x] # NoResult
  BY <1>0, <1>1, <1>2 DEF Undecided, Underway, Returned
<1>3. ASSUME NEW v \in Returned, pc' = [pc EXCEPT ![t] = v],
             NEW r, r # NoResult, outputs' = [outputs EXCEPT ![t] = r], ~ marred
      PROVE  \A x \in Tasks : /\ pc'[x] # "failed"
                              /\ pc'[x] \in Returned => outputs'[x] # NoResult
  BY <1>0, <1>1, <1>3 DEF Returned
<1>4. ASSUME Reuse(t)
      PROVE  \A x \in Tasks : /\ pc'[x] # "failed"
                              /\ pc'[x] \in Returned => outputs'[x] # NoResult
  <2>1. /\ usable[t] /\ Lookup(journal, seq[t], key[t]) = held[t]
        /\ pc[t] \in Undecided /\ ~ marred
        /\ pc' = [pc EXCEPT ![t] = "reused"]
        /\ outputs' = [outputs EXCEPT ![t] = held[t].result]
    BY <1>4 DEF Reuse, StillOffered, Gate, At, Undecided
  <2>2. held[t] # NoEntry
    BY <2>1 DEF DecisionInv, PrefixInv
  <2>3. /\ held[t] = journal.entries[seq[t]] /\ held[t].kind = "ok"
        /\ seq[t] \in Positions
    BY <2>1, <2>2, SeqFacts DEF Lookup, Reusable, Active
  <2>4. held[t].result # NoResult
    BY <2>3 DEF WholeInv, Answers
  <2> QED
    BY <1>3, <2>1, <2>4 DEF Returned
<1>5. ASSUME NEW u \in Usages, NEW r \in Results, NEW saved \in BOOLEAN,
             Answer(t, u, r, saved)
      PROVE  \A x \in Tasks : /\ pc'[x] # "failed"
                              /\ pc'[x] \in Returned => outputs'[x] # NoResult
  <2>1. saved /\ ~ marred
    BY <1>5 DEF Answer
  <2>2. /\ pc' = [pc EXCEPT ![t] = "done"]
        /\ outputs' = [outputs EXCEPT ![t] = r]
    BY <1>5, <2>1 DEF Answer
  <2> QED
    BY <1>3, <2>1, <2>2, NamesAssumption DEF Returned
<1>6. ASSUME \/ Call(t) \/ Dispatch(t) \/ \E u \in Usages : Reask(t, u)
             \/ \E saved \in BOOLEAN : GoLive(t, saved)
             \/ \E accepts, called \in BOOLEAN : Verdict(t, accepts, called)
      PROVE  \A x \in Tasks : /\ pc'[x] # "failed"
                              /\ pc'[x] \in Returned => outputs'[x] # NoResult
  <2>1. outputs' = outputs
    BY <1>6 DEF Call, Dispatch, Reask, GoLive, Verdict
  <2>3. ~ marred
    <3>1. CASE \E accepts, called \in BOOLEAN : Verdict(t, accepts, called)
      <4>1. PICK called \in BOOLEAN : marred' = (marred \/ called)
        BY <3>1 DEF Verdict
      <4> QED
        BY <4>1, Zenon
    <3>2. CASE \E saved \in BOOLEAN : GoLive(t, saved)
      <4>1. marred' = marred \/ marred' = TRUE
        BY <3>2 DEF GoLive
      <4> QED
        BY <4>1, Zenon
    <3>3. CASE Call(t) \/ Dispatch(t) \/ \E u \in Usages : Reask(t, u)
      <4>1. marred' = marred
        BY <3>3 DEF Call, Dispatch, Reask
      <4> QED
        BY <4>1, Zenon
    <3> QED
      BY <1>6, <3>1, <3>2, <3>3
  <2>2. \E v \in Undecided \cup Underway : pc' = [pc EXCEPT ![t] = v]
    <3>1. ASSUME NEW saved \in BOOLEAN, GoLive(t, saved)
          PROVE  pc' = [pc EXCEPT ![t] = "queued"]
      <4>1. CASE saved
        BY <3>1, <4>1 DEF GoLive
      <4>2. CASE ~ saved
        <5>1. marred' = TRUE
          BY <3>1, <4>2 DEF GoLive
        <5> QED
          BY <5>1
      <4> QED
        BY <4>1, <4>2
    <3>2. CASE Call(t)
      BY <3>2 DEF Call, Undecided
    <3>3. CASE \E accepts, called \in BOOLEAN : Verdict(t, accepts, called)
      BY <3>3 DEF Verdict, Undecided
    <3>4. CASE Dispatch(t) \/ \E u \in Usages : Reask(t, u)
      BY <3>4 DEF Dispatch, Reask, Underway
    <3> QED
      BY <1>6, <3>1, <3>2, <3>3, <3>4 DEF Underway
  <2> QED
    BY <1>2, <2>1, <2>2, <2>3
<1>7. \/ Reuse(t)
      \/ \E u \in Usages, r \in Results, saved \in BOOLEAN : Answer(t, u, r, saved)
      \/ Call(t) \/ Dispatch(t) \/ \E u \in Usages : Reask(t, u)
      \/ \E saved \in BOOLEAN : GoLive(t, saved)
      \/ \E accepts, called \in BOOLEAN : Verdict(t, accepts, called)
  BY DEF TaskStep, Disturbance, RefuseUnsafe, OverBudget, DispatchRefused, Exhaust,
         CallFails, SetupFails, CancelQueued, CancelUndecided, PreflightFails, Raise
<1> QED
  BY <1>4, <1>5, <1>6, <1>7

\* A verifier that calls agent() mars the outcome, and nothing unmars it.
LEMMA WholeVerifiers ==
  ASSUME TypeInv, WholeInv, NEW t \in Tasks, TaskStep(t) \/ Disturbance(t),
         ~ marred'
  PROVE  reentered' = {}
<1>0. marred \in BOOLEAN /\ (~ marred => reentered = {})
  BY DEF TypeInv, TypeOK, WholeInv
<1>1. ASSUME NEW accepts \in BOOLEAN, NEW called \in BOOLEAN,
             Verdict(t, accepts, called)
      PROVE  reentered' = {}
  <2>1. /\ marred' = (marred \/ called)
        /\ reentered' = IF called THEN reentered \cup {t} ELSE reentered
    BY <1>1 DEF Verdict
  <2>2. ~ marred /\ ~ called
    BY <2>1, Zenon
  <2> QED
    BY <1>0, <2>1, <2>2
<1>2. ASSUME reentered' = reentered, ~ marred PROVE reentered' = {}
  BY <1>0, <1>2
<1>3. ASSUME \/ Reuse(t) \/ Call(t) \/ Dispatch(t)
             \/ \E u \in Usages : Reask(t, u)
      PROVE  reentered' = {}
  <2>1. reentered' = reentered /\ marred' = marred
    BY <1>3 DEF Reuse, Call, Dispatch, Reask
  <2>2. ~ marred
    BY <2>1, Zenon
  <2> QED
    BY <1>2, <2>1, <2>2
<1>4. ASSUME NEW saved \in BOOLEAN,
             GoLive(t, saved) \/ \E u \in Usages, r \in Results : Answer(t, u, r, saved)
      PROVE  reentered' = {}
  <2>1. /\ reentered' = reentered
        /\ marred' = marred \/ marred' = TRUE \/ marred' = (marred \/ ~ saved)
    BY <1>4 DEF GoLive, Answer
  <2>2. ~ marred
    BY <2>1, Zenon
  <2> QED
    BY <1>2, <2>1, <2>2
<1>5. ASSUME \/ RefuseUnsafe(t) \/ OverBudget(t) \/ PreflightFails(t)
             \/ CancelUndecided(t)
             \/ \E saved \in BOOLEAN :
                  \/ SetupFails(t, saved) \/ DispatchRefused(t, saved)
                  \/ CancelQueued(t, saved)
                  \/ \E u \in Usages : Exhaust(t, u, saved) \/ CallFails(t, u, saved)
      PROVE  FALSE
  BY <1>5 DEF RefuseUnsafe, OverBudget, PreflightFails, CancelUndecided,
              SetupFails, DispatchRefused, CancelQueued, Exhaust, CallFails, Raise
<1> QED
  BY <1>1, <1>3, <1>4, <1>5 DEF TaskStep, Disturbance

LEMMA WholeStep ==
  TypeInv /\ DecisionInv /\ WholeInv /\ [Next]_vars => WholeInv'
<1> SUFFICES ASSUME TypeInv, DecisionInv, WholeInv, [Next]_vars PROVE WholeInv'
  OBVIOUS
<1>1. CASE \E t \in Tasks : TaskStep(t) \/ Disturbance(t)
  BY <1>1, WholeJournal, WholeOutcome, WholeVerifiers DEF WholeInv
<1>2. CASE UNCHANGED vars
  BY <1>2 DEF vars, WholeInv, Answers
<1>3. ASSUME FreshContext, Answers(journal'.entries), Answers(disk'.entries)
      PROVE  WholeInv'
  <2>1. reentered' = {} /\ \A t \in Tasks : pc'[t] = "idle"
    BY <1>3 DEF FreshContext
  <2> QED
    BY <1>3, <2>1 DEF WholeInv, Returned
<1>4. journal \in Journals /\ Answers(journal.entries) /\ Answers(disk.entries)
  BY SeqFacts DEF WholeInv
<1>5. ASSUME NEW outcome, NEW saved \in BOOLEAN, EndRun(outcome, saved)
      PROVE  WholeInv'
  <2> DEFINE j == [journal EXCEPT !.terminal = FinalStatus(outcome)]
  <2>1. j.entries = journal.entries
    BY <1>4 DEF Journals
  <2>2. Save(j, saved) /\ FreshContext
    BY <1>5 DEF EndRun
  <2> HIDE DEF j
  <2> QED
    BY <1>3, <1>4, <2>1, <2>2, SaveAnswers
<1>6. CASE Crash
  BY <1>3, <1>4, <1>6 DEF Crash
<1>7. ASSUME NEW f \in Fingerprints, Resume(f) PROVE WholeInv'
  <2>1. /\ FreshContext /\ disk' = disk
        /\ journal'.entries = IF disk.fp = f THEN disk.entries ELSE NoEntries
    BY <1>7 DEF Resume, ResumedJournal
  <2>2. Answers(NoEntries)
    BY DEF Answers, NoEntries, NoEntry
  <2> QED
    BY <1>3, <1>4, <2>1, <2>2
<1> QED
  BY <1>1, <1>2, <1>5, <1>6, <1>7 DEF Next, Execution

\* "completed" is only reported when no call of the execution failed, every call
\* that returned gave an answer, also one it took from the snapshot, and no
\* verifier was refused a call.
THEOREM CompletionIsWhole == Spec => CompletedIsWhole
<1>1. Init => WholeInv
  <2> SUFFICES ASSUME Init PROVE WholeInv
    OBVIOUS
  <2>1. /\ \A t \in Tasks : pc[t] = "idle"
        /\ journal.entries = NoEntries /\ disk.entries = NoEntries
        /\ reentered = {}
    BY DEF Init, NewJournal, NoSnapshot
  <2>2. Answers(NoEntries)
    BY DEF Answers, NoEntries, NoEntry
  <2> QED
    BY <2>1, <2>2 DEF WholeInv, Returned
<1>2. Spec => [](TypeInv /\ WholeInv)
  BY <1>1, DecisionsKept, WholeStep, PTL DEF Spec
<1>3. TypeInv /\ WholeInv /\ [Next]_vars =>
        (alive /\ ~ alive' /\ status' = "completed" =>
            /\ \A t \in Tasks :
                   \/ pc[t] = "idle"
                   \/ pc[t] \in Returned /\ outputs[t] # NoResult
            /\ reentered = {})
  <2> SUFFICES ASSUME TypeInv, WholeInv, [Next]_vars, alive, ~ alive',
                      status' = "completed"
               PROVE  /\ \A t \in Tasks :
                             \/ pc[t] = "idle"
                             \/ pc[t] \in Returned /\ outputs[t] # NoResult
                      /\ reentered = {}
    OBVIOUS
  <2>1. PICK outcome \in {"returned", "raised", "cancelled"}, saved \in BOOLEAN :
          EndRun(outcome, saved)
    <3>1. ~ UNCHANGED vars
      BY DEF vars
    <3>2. ASSUME NEW x \in Tasks, TaskStep(x) \/ Disturbance(x) PROVE FALSE
      BY <3>2 DEF TaskStep, Disturbance, Verdict, Reuse, RefuseUnsafe, OverBudget,
                  GoLive, Dispatch, DispatchRefused, Answer, Reask, Exhaust,
                  CallFails, Raise, Call, PreflightFails, CancelUndecided,
                  SetupFails, CancelQueued
    <3>3. ~ Crash
      BY DEF Crash
    <3>4. \A f : ~ Resume(f)
      BY DEF Resume
    <3> QED
      BY <3>1, <3>2, <3>3, <3>4 DEF Next, Execution
  <2>2. /\ FinalStatus(outcome) = "completed"
        /\ \A t \in Tasks : pc[t] \notin Active
    BY <2>1 DEF EndRun
  <2>3. ~ marred
    BY <2>2 DEF FinalStatus
  <2>4. ASSUME NEW t \in Tasks, pc[t] # "idle"
        PROVE  pc[t] \in Returned /\ outputs[t] # NoResult
    <3>1. pc[t] \in PCs /\ pc[t] # "failed"
      BY <2>3, SeqFacts DEF WholeInv
    <3>2. pc[t] \in Returned
      BY <2>2, <2>4, <3>1 DEF PCs, Active, Undecided, Underway, Returned
    <3> QED
      BY <2>3, <3>2 DEF WholeInv
  <2> QED
    BY <2>3, <2>4 DEF WholeInv
<1> QED
  BY <1>2, <1>3, PTL DEF Spec, CompletedIsWhole

-----------------------------------------------------------------------------
(***************************************************************************)
(* Resuming.  That a run keeps its promise needs to know where everything  *)
(* comes from that a call may be offered or that is written anew: an entry *)
(* from the snapshot or from a call that could not save it, an offer from  *)
(* the conditions under which the call made it, and a flag from the        *)
(* snapshot or from a call that can act.                                   *)
(***************************************************************************)

\* What an entry that may be reused goes back to: the snapshot, or a call of this
\* execution whose answer could not be saved.
Sourced ==
    \A p \in Positions : journal.entries[p].kind = "ok" =>
        \/ disk.fp = journal.fp /\ disk.entries[p] = journal.entries[p]
        \/ \E t \in Tasks : /\ pc[t] = "failed" /\ seq[t] = p
                            /\ journal.entries[p].key = key[t]
                            /\ journal.entries[p].result = outputs[t]

\* What an offer to a call presupposes.
Allowed(t) ==
    pc[t] \in Undecided /\ (usable[t] \/ pc[t] = "verifying") =>
        /\ ~ Script[t].rerun
        /\ Script[t].verify \/ ~ (Effectful(t) \/ PriorEffect(t))

\* The flags that only memory has belong to calls whose intent was not saved.
FlagsOwned ==
    journal.effectful \subseteq
        disk.effectful \cup {seq[t] : t \in {u \in Tasks : Effectful(u)}}

\* Between two executions nothing was asked.
Blank ==
    /\ seq = [t \in Tasks |-> NoSeq]
    /\ key = [t \in Tasks |-> NoKey]
    /\ outputs = [t \in Tasks |-> NoResult]

ContractInv ==
    /\ alive => Sourced /\ FlagsOwned
    /\ ~ alive => Blank
    /\ \A t \in Tasks : Allowed(t)
    /\ \A t \in Tasks : pc[t] = "reused" =>
            disk.entries[seq[t]] = journal.entries[seq[t]]
    /\ disk.exists => disk.fp # NoFingerprint

\* One call moves, and the snapshot is written whole or not at all.
LEMMA ContractFrame ==
  ASSUME TypeInv, ContractInv, alive, NEW t \in Tasks,
         UNCHANGED <<alive, seq, key>>,
         journal'.fp = journal.fp, journal'.resuming = journal.resuming,
         journal \in Journals, journal'.fp # NoFingerprint,
         \A u \in Tasks \ {t} : /\ pc'[u] = pc[u] /\ usable'[u] = usable[u]
                                /\ outputs'[u] = outputs[u],
         pc[t] \notin {"failed", "reused"},
         \/ journal'.effectful = journal.effectful
         \/ /\ Effectful(t) /\ seq[t] # NoSeq
            /\ journal'.effectful = journal.effectful \cup {seq[t]},
         disk' = disk \/ disk' = Snapshot(journal'),
         \A p \in Positions : journal'.entries[p].kind = "ok" =>
            \/ journal'.entries[p] = journal.entries[p]
            \/ disk' = Snapshot(journal')
            \/ /\ pc'[t] = "failed" /\ seq[t] = p
               /\ journal'.entries[p].key = key[t]
               /\ journal'.entries[p].result = outputs'[t],
         \A u \in Tasks : pc[u] = "reused" =>
            journal'.entries[seq[u]] = journal.entries[seq[u]],
         pc'[t] = "reused" => disk'.entries[seq[t]] = journal'.entries[seq[t]],
         Allowed(t)'
  PROVE  ContractInv'
<1>1. \/ disk' = disk
      \/ /\ disk'.entries = journal'.entries /\ disk'.fp = journal'.fp
         /\ disk'.effectful = journal'.effectful
  BY DEF Snapshot
<1>2. Sourced'
  <2> SUFFICES ASSUME NEW p \in Positions, journal'.entries[p].kind = "ok",
                      ~ (disk'.fp = journal'.fp
                         /\ disk'.entries[p] = journal'.entries[p])
               PROVE  \E u \in Tasks : /\ pc'[u] = "failed" /\ seq'[u] = p
                                       /\ journal'.entries[p].key = key'[u]
                                       /\ journal'.entries[p].result = outputs'[u]
    BY DEF Sourced
  <2>1. disk' = disk /\ disk' # Snapshot(journal')
    BY <1>1 DEF Snapshot
  <2>2. CASE journal'.entries[p] = journal.entries[p]
    <3>1. PICK u \in Tasks : /\ pc[u] = "failed" /\ seq[u] = p
                             /\ journal.entries[p].key = key[u]
                             /\ journal.entries[p].result = outputs[u]
      BY <2>1, <2>2 DEF ContractInv, Sourced
    <3> QED BY <2>2, <3>1
  <2>3. CASE journal'.entries[p] # journal.entries[p]
    BY <2>1, <2>3
  <2> QED BY <2>2, <2>3
<1>3. FlagsOwned'
  <2>1. journal.effectful \subseteq
          disk.effectful \cup {seq[u] : u \in {w \in Tasks : Effectful(w)}}
    BY DEF ContractInv, FlagsOwned
  <2>2. journal'.effectful \subseteq
          disk.effectful \cup {seq[u] : u \in {w \in Tasks : Effectful(w)}}
    BY <2>1
  <2> QED BY <1>1, <2>2 DEF FlagsOwned, Effectful
<1>4. ASSUME NEW u \in Tasks PROVE Allowed(u)'
  <2>1. CASE u = t
    BY <2>1
  <2>2. CASE u # t
    <3>1. Allowed(u) /\ pc'[u] = pc[u] /\ usable'[u] = usable[u]
      BY <2>2 DEF ContractInv
    <3>2. pc[u] \in Undecided => seq[u] # NoSeq
      BY SeqFacts DEF Active
    <3>3. seq[u] = seq[t] /\ seq[u] # NoSeq => u = t
      BY SeqFacts
    <3>4. pc[u] \in Undecided => (PriorEffect(u)' <=> PriorEffect(u))
      BY <2>2, <3>2, <3>3 DEF PriorEffect
    <3> QED BY <3>1, <3>4 DEF Allowed, Effectful
  <2> QED BY <2>1, <2>2
<1>5. ASSUME NEW u \in Tasks, pc'[u] = "reused"
      PROVE  disk'.entries[seq'[u]] = journal'.entries[seq'[u]]
  <2>1. CASE u = t
    BY <1>5, <2>1
  <2>2. CASE u # t
    BY <1>1, <1>5, <2>2 DEF ContractInv
  <2> QED BY <2>1, <2>2
<1>6. disk'.exists => disk'.fp # NoFingerprint
  BY <1>1 DEF ContractInv
<1> QED BY <1>2, <1>3, <1>4, <1>5, <1>6 DEF ContractInv

-----------------------------------------------------------------------------
\* What an admission does to journal and snapshot.
LEMMA AdmissionWrites ==
  ASSUME TypeInv, NEW t \in Tasks, NEW saved \in BOOLEAN, GoLive(t, saved)
  PROVE  /\ \A p \in Positions : journal'.entries[p] =
               IF p < seq[t] THEN journal.entries[p]
               ELSE IF p = seq[t] THEN EntryFor(t, "pending", NoResult)
               ELSE NoEntry
         /\ journal'.fp = journal.fp /\ journal'.resuming = journal.resuming
         /\ journal'.effectful = IF Effectful(t)
                                 THEN journal.effectful \cup {seq[t]}
                                 ELSE journal.effectful
         /\ disk' = IF saved THEN Snapshot(journal') ELSE disk
<1> DEFINE e == EntryFor(t, "pending", NoResult)
           c == InvalidateFrom(journal, seq[t])
           d == [c EXCEPT !.effectful = IF Effectful(t) THEN @ \cup {seq[t]} ELSE @]
<1>1. pc[t] \in Undecided /\ Save(WithIntent(t), saved)
  BY DEF GoLive, Gate, At, Undecided
<1>2. /\ journal \in Journals /\ seq[t] \in Positions /\ seq[t] \in 0 .. MaxCalls
      /\ seq[t] \in Nat /\ MaxCalls \in Nat
  BY <1>1, SeqFacts DEF Active
<1>3. c \in Journals
  BY <1>2, InvalidateFromType
<1>4. /\ \A p \in Positions :
            c.entries[p] = IF p < seq[t] THEN journal.entries[p] ELSE NoEntry
      /\ c.fp = journal.fp /\ c.resuming = journal.resuming
      /\ c.effectful = journal.effectful
  BY <1>2, CutEntries, InvalidateFromKeeps
<1> HIDE DEF c
<1>5. /\ d \in Journals /\ d.entries = c.entries /\ d.fp = c.fp
      /\ d.resuming = c.resuming
      /\ d.effectful = IF Effectful(t) THEN c.effectful \cup {seq[t]}
                       ELSE c.effectful
  BY <1>2, <1>3 DEF Journals
<1>6. journal' = AppendEntry(d, seq[t], e)
  BY <1>1 DEF Save, WithIntent, c
<1> HIDE DEF d, e
<1>7. /\ \A p \in Positions :
            journal'.entries[p] = IF p = seq[t] THEN e ELSE d.entries[p]
      /\ journal'.fp = d.fp /\ journal'.resuming = d.resuming
      /\ journal'.effectful = d.effectful
  BY <1>2, <1>5, <1>6, AppendedEntries, AppendEntryKeeps
<1>8. disk' = IF saved THEN Snapshot(journal') ELSE disk
  BY <1>1 DEF Save
<1>9. \A p \in Positions : p = seq[t] => ~ (p < seq[t])
  BY <1>2
<1>10. \A p \in Positions : journal'.entries[p] =
         IF p < seq[t] THEN journal.entries[p]
         ELSE IF p = seq[t] THEN e ELSE NoEntry
  BY <1>4, <1>5, <1>7, <1>9
<1> QED BY <1>4, <1>5, <1>7, <1>8, <1>10 DEF e

\* What the end of a live call does to them.
LEMMA EndWrites ==
  ASSUME TypeInv, NEW t \in Tasks, NEW saved \in BOOLEAN, NEW kind, NEW r,
         pc[t] \in Underway,
         Save(AppendEntry(journal, seq[t], EntryFor(t, kind, r)), saved)
  PROVE  /\ \A p \in Positions : journal'.entries[p] =
               IF p = seq[t] THEN EntryFor(t, kind, r) ELSE journal.entries[p]
         /\ journal'.fp = journal.fp /\ journal'.resuming = journal.resuming
         /\ journal'.effectful = journal.effectful
         /\ disk' = IF saved THEN Snapshot(journal') ELSE disk
<1> DEFINE e == EntryFor(t, kind, r)
<1>1. journal \in Journals /\ seq[t] \in Positions
  BY SeqFacts DEF Active
<1>2. journal' = AppendEntry(journal, seq[t], e)
  BY DEF Save
<1> HIDE DEF e
<1>3. /\ \A p \in Positions :
            journal'.entries[p] = IF p = seq[t] THEN e ELSE journal.entries[p]
      /\ journal'.fp = journal.fp /\ journal'.resuming = journal.resuming
      /\ journal'.effectful = journal.effectful
  BY <1>1, <1>2, AppendedEntries, AppendEntryKeeps
<1>4. disk' = IF saved THEN Snapshot(journal') ELSE disk
  BY DEF Save
<1> QED BY <1>3, <1>4 DEF e

\* A live call is behind all that was reused or has returned.
LEMMA DecidedBefore ==
  ASSUME TypeInv, DecisionInv, NEW t \in Tasks, NEW u \in Tasks,
         pc[u] \in Returned, pc[t] \in Active
  PROVE  /\ pc[t] \in Undecided => seq[u] < seq[t]
         /\ seq[u] # seq[t] /\ seq[u] \in Positions
<1>1. pc[u] \in Live \cup {"reused"}
  BY DEF Returned, Live
<1>2. pc[t] \in Undecided => seq[u] < seq[t]
  BY <1>1 DEF DecisionInv, OrderInv
<1>3. u # t
  BY DEF Returned, Active, Undecided, Underway
<1> QED BY <1>2, <1>3, SeqFacts DEF Active

\* The admission of a call keeps the invariant.
LEMMA ContractGoLive ==
  ASSUME TypeInv, DecisionInv, EffectInv, ContractInv, NEW t \in Tasks,
         NEW saved \in BOOLEAN, GoLive(t, saved)
  PROVE  ContractInv'
<1>1. /\ pc[t] \in Undecided /\ alive /\ UNCHANGED <<alive, seq, key>>
      /\ usable' = usable /\ outputs' = outputs
  BY DEF GoLive, Gate, At, Undecided, EffectInv
<1>2. /\ \A u \in Tasks \ {t} : pc'[u] = pc[u]
      /\ pc'[t] \in {"queued", "failed"}
  BY DEF GoLive, TypeInv, TypeOK
<1>3. /\ journal \in Journals /\ seq[t] # NoSeq
      /\ journal.fp \in Fingerprints
  BY <1>1, SeqFacts DEF Active, Journals
<1>4. \A p \in Positions : journal'.entries[p].kind = "ok" =>
        journal'.entries[p] = journal.entries[p]
  <2>1. EntryFor(t, "pending", NoResult).kind = "pending" /\ NoEntry.kind = "absent"
    BY DEF EntryFor, NoEntry
  <2> QED BY <2>1, AdmissionWrites
<1>5. \A u \in Tasks : pc[u] = "reused" =>
        journal'.entries[seq[u]] = journal.entries[seq[u]]
  BY <1>1, DecidedBefore, AdmissionWrites DEF Returned, Active
<1>6. Allowed(t)'
  BY <1>2 DEF Allowed, Undecided
<1>7. /\ journal'.fp = journal.fp /\ journal'.resuming = journal.resuming
      /\ \/ journal'.effectful = journal.effectful
         \/ /\ Effectful(t)
            /\ journal'.effectful = journal.effectful \cup {seq[t]}
      /\ disk' = disk \/ disk' = Snapshot(journal')
  BY AdmissionWrites
<1>8. pc[t] \notin {"failed", "reused"} /\ pc'[t] # "reused"
  BY <1>1, <1>2 DEF Undecided
<1> QED
  BY <1>1, <1>2, <1>3, <1>4, <1>5, <1>6, <1>7, <1>8, NamesAssumption,
     ContractFrame

\* The end of a live call does.
LEMMA ContractEnds ==
  ASSUME TypeInv, DecisionInv, EffectInv, ContractInv, NEW t \in Tasks,
         NEW saved \in BOOLEAN, NEW kind \in {"ok", "none", "error"}, NEW r,
         pc[t] \in Underway,
         Save(AppendEntry(journal, seq[t], EntryFor(t, kind, r)), saved),
         NEW v \in {"done", "failed"}, pc' = [pc EXCEPT ![t] = v],
         v = "done" => saved,
         outputs' = IF kind = "ok" THEN [outputs EXCEPT ![t] = r] ELSE outputs,
         UNCHANGED <<alive, run, seq, key, usable>>
  PROVE  ContractInv'
<1>1. /\ alive /\ pc[t] # "idle" /\ journal \in Journals /\ seq[t] \in Positions
      /\ journal.fp \in Fingerprints
      /\ pc[t] \notin {"failed", "reused"}
  BY SeqFacts DEF EffectInv, Underway, Active, Journals
<1>2. /\ \A u \in Tasks \ {t} : pc'[u] = pc[u] /\ outputs'[u] = outputs[u]
      /\ pc'[t] = v /\ (kind = "ok" => outputs'[t] = r)
  BY DEF TypeInv, TypeOK
<1>3. \A p \in Positions : journal'.entries[p].kind = "ok" =>
        \/ journal'.entries[p] = journal.entries[p]
        \/ disk' = Snapshot(journal')
        \/ /\ pc'[t] = "failed" /\ seq[t] = p
           /\ journal'.entries[p].key = key[t]
           /\ journal'.entries[p].result = outputs'[t]
  <2> SUFFICES ASSUME NEW p \in Positions, journal'.entries[p].kind = "ok",
                      p = seq[t], ~ saved
               PROVE  /\ pc'[t] = "failed"
                      /\ journal'.entries[p].key = key[t]
                      /\ journal'.entries[p].result = outputs'[t]
    BY EndWrites
  <2>1. journal'.entries[p] = EntryFor(t, kind, r)
    BY EndWrites
  <2>2. kind = "ok" /\ v = "failed"
    BY <2>1 DEF EntryFor
  <2> QED BY <1>2, <2>1, <2>2 DEF EntryFor
<1>4. \A u \in Tasks : pc[u] = "reused" =>
        journal'.entries[seq[u]] = journal.entries[seq[u]]
  BY DecidedBefore, EndWrites DEF Returned, Active
<1>5. Allowed(t)'
  BY <1>2 DEF Allowed, Undecided
<1>6. /\ journal'.fp = journal.fp /\ journal'.resuming = journal.resuming
      /\ journal'.effectful = journal.effectful
      /\ disk' = disk \/ disk' = Snapshot(journal')
  BY EndWrites
<1> QED
  BY <1>1, <1>2, <1>3, <1>4, <1>5, <1>6, NamesAssumption, ContractFrame

-----------------------------------------------------------------------------
\* A step that writes nothing and reuses nothing does.
LEMMA ContractQuiet ==
  ASSUME TypeInv, ContractInv, alive, NEW t \in Tasks,
         UNCHANGED <<alive, journal, disk, seq, key, outputs>>,
         \A u \in Tasks \ {t} : pc'[u] = pc[u] /\ usable'[u] = usable[u],
         pc[t] \notin {"failed", "reused"}, pc'[t] # "reused", Allowed(t)'
  PROVE  ContractInv'
<1>1. journal \in Journals /\ journal.fp \in Fingerprints
  BY SeqFacts DEF Journals
<1>2. journal'.fp # NoFingerprint
  BY <1>1, NamesAssumption
<1>3. \A p \in Positions : journal'.entries[p] = journal.entries[p]
  OBVIOUS
<1> QED
  BY <1>1, <1>2, <1>3, ContractFrame

\* What a call that gives up its turn drops does.
LEMMA ContractDropped ==
  ASSUME TypeInv, DecisionInv, ContractInv, alive, NEW t \in Tasks,
         pc[t] \in Undecided, pc' = [pc EXCEPT ![t] = "failed"],
         journal' = InvalidateFrom(journal, seq[t]),
         UNCHANGED <<alive, disk, seq, key, usable, outputs>>
  PROVE  ContractInv'
<1>1. /\ journal \in Journals /\ journal.fp \in Fingerprints
      /\ seq[t] \in 0 .. MaxCalls
  BY SeqFacts DEF Journals
<1>2. /\ \A p \in Positions : journal'.entries[p] =
            IF p < seq[t] THEN journal.entries[p] ELSE NoEntry
      /\ journal'.fp = journal.fp /\ journal'.resuming = journal.resuming
      /\ journal'.effectful = journal.effectful
  BY <1>1, CutEntries, InvalidateFromKeeps
<1>3. /\ \A u \in Tasks \ {t} : pc'[u] = pc[u]
      /\ pc'[t] = "failed" /\ pc[t] \notin {"failed", "reused"}
  BY DEF TypeInv, TypeOK, Undecided
<1>4. \A p \in Positions : journal'.entries[p].kind = "ok" =>
        journal'.entries[p] = journal.entries[p]
  BY <1>2 DEF NoEntry
<1>5. \A u \in Tasks : pc[u] = "reused" =>
        journal'.entries[seq[u]] = journal.entries[seq[u]]
  BY <1>2, DecidedBefore DEF Returned, Active
<1>6. Allowed(t)'
  BY <1>3 DEF Allowed, Undecided
<1>7. journal'.fp # NoFingerprint
  BY <1>1, <1>2, NamesAssumption
<1> QED
  BY <1>1, <1>2, <1>3, <1>4, <1>5, <1>6, <1>7, ContractFrame

\* An entry that is offered was read from the snapshot.
LEMMA ReuseSource ==
  ASSUME TypeInv, EffectInv, DecisionInv, ContractInv, NEW t \in Tasks, Reuse(t)
  PROVE  /\ alive /\ pc[t] \in Undecided /\ usable[t] /\ seq[t] \in Positions
         /\ disk.fp = journal.fp
         /\ disk.entries[seq[t]] = journal.entries[seq[t]]
         /\ journal.entries[seq[t]] = held[t]
         /\ held[t].kind = "ok" /\ held[t].key = key[t]
<1>1. /\ pc[t] \in Undecided /\ StillOffered(t) /\ alive
      /\ seq[t] \in Positions /\ seq[t] # NoSeq
  BY SeqFacts DEF Reuse, Gate, At, Undecided, EffectInv, Active
<1>2. held[t] # NoEntry /\ Lookup(journal, seq[t], key[t]) = held[t] /\ usable[t]
  BY <1>1 DEF StillOffered, DecisionInv, PrefixInv
<1>3. /\ journal.entries[seq[t]] = held[t]
      /\ held[t].kind = "ok" /\ held[t].key = key[t]
  BY <1>2 DEF Lookup, Reusable
<1>4. \A u \in Tasks : pc[u] = "failed" => seq[u] # seq[t]
  <2>1. \A u \in Tasks : pc[u] = "failed" => u # t
    BY <1>1 DEF Undecided
  <2> QED BY <1>1, <2>1, SeqFacts
<1>5. disk.fp = journal.fp /\ disk.entries[seq[t]] = journal.entries[seq[t]]
  BY <1>1, <1>3, <1>4 DEF ContractInv, Sourced
<1> QED BY <1>1, <1>2, <1>3, <1>5

LEMMA ContractReuse ==
  ASSUME TypeInv, EffectInv, DecisionInv, ContractInv, NEW t \in Tasks, Reuse(t)
  PROVE  ContractInv'
<1>1. /\ alive /\ UNCHANGED <<alive, seq, key, journal, disk, usable>>
      /\ journal \in Journals /\ journal.fp \in Fingerprints
      /\ pc[t] \notin {"failed", "reused"}
  BY ReuseSource, SeqFacts DEF Reuse, Undecided, Journals
<1>2. /\ \A u \in Tasks \ {t} : pc'[u] = pc[u] /\ outputs'[u] = outputs[u]
      /\ pc'[t] = "reused"
  BY DEF Reuse, TypeInv, TypeOK
<1>3. disk'.entries[seq[t]] = journal'.entries[seq[t]]
  BY <1>1, ReuseSource
<1>4. Allowed(t)'
  BY <1>2 DEF Allowed, Undecided
<1>5. journal'.fp # NoFingerprint
  BY <1>1, NamesAssumption
<1>6. /\ \A p \in Positions : journal'.entries[p] = journal.entries[p]
      /\ \A u \in Tasks : journal'.entries[seq[u]] = journal.entries[seq[u]]
  BY <1>1
<1>7. \A u \in Tasks \ {t} : usable'[u] = usable[u]
  BY <1>1
<1> QED
  BY <1>1, <1>2, <1>3, <1>4, <1>5, <1>6, <1>7, ContractFrame

\* A call that is not decided yet is offered an entry only if it may reuse it.
LEMMA ContractCall ==
  ASSUME TypeInv, EffectInv, DecisionInv, ContractInv, NEW t \in Tasks, Call(t)
  PROVE  ContractInv'
<1> DEFINE found == Lookup(journal, nextSeq, KeyOf(t))
           offer == found # NoEntry /\ ~ Script[t].rerun
<1>1. /\ alive /\ pc[t] = "idle" /\ seq[t] = NoSeq /\ nextSeq \in 0 .. MaxCalls
      /\ UNCHANGED <<alive, disk, outputs>>
      /\ journal \in Journals
      /\ journal' = AfterLookup(journal, nextSeq, KeyOf(t))
  BY SeqFacts DEF Call, Reached, At, TypeInv, TypeOK, Placed
<1>2. \A u \in Tasks : /\ seq'[u] = IF u = t THEN nextSeq ELSE seq[u]
                       /\ u # t => /\ pc'[u] = pc[u] /\ key'[u] = key[u]
                                   /\ usable'[u] = usable[u]
  BY DEF Call, TypeInv, TypeOK
<1>3. usable'[t] = (/\ offer /\ ~ Effectful(t)
                    /\ ~ (journal.resuming /\ nextSeq \in journal.effectful))
  BY DEF Call, TypeInv, TypeOK
<1>4. pc'[t] = IF offer /\ Script[t].verify THEN "verifying"
               ELSE IF \E u \in Tasks : pc[u] \in Undecided THEN "waiting"
               ELSE "deciding"
  BY DEF Call, TypeInv, TypeOK
<1>5. /\ journal'.effectful = journal.effectful
      /\ journal'.resuming = journal.resuming /\ journal'.fp = journal.fp
      /\ \A p \in Positions :
            \/ journal'.entries[p] = journal.entries[p]
            \/ journal'.entries[p] = NoEntry /\ ~ (p < nextSeq)
  <2>1. journal' = journal \/ journal' = InvalidateFrom(journal, nextSeq)
    BY <1>1 DEF AfterLookup
  <2>2. \A p \in Positions :
            \/ journal'.entries[p] = journal.entries[p]
            \/ journal'.entries[p] = NoEntry /\ ~ (p < nextSeq)
    BY <1>1, <2>1, CutEntries
  <2> QED BY <1>1, <2>2, AfterLookupKeeps
<1>6. Sourced'
  <2> SUFFICES ASSUME NEW p \in Positions, journal'.entries[p].kind = "ok"
               PROVE  \/ disk'.fp = journal'.fp
                         /\ disk'.entries[p] = journal'.entries[p]
                      \/ \E u \in Tasks : /\ pc'[u] = "failed" /\ seq'[u] = p
                                          /\ journal'.entries[p].key = key'[u]
                                          /\ journal'.entries[p].result = outputs'[u]
    BY DEF Sourced
  <2>1. journal'.entries[p] = journal.entries[p]
    BY <1>5 DEF NoEntry
  <2>2. \A u \in Tasks : pc[u] = "failed" => u # t
    BY <1>1
  <2> QED
    BY <1>1, <1>2, <1>5, <2>1, <2>2 DEF ContractInv, Sourced
<1>7. FlagsOwned'
  <2>1. \A u \in {w \in Tasks : Effectful(w)} :
          seq'[u] = seq[u] \/ seq[u] \notin journal.effectful
    <3>1. NoSeq \notin journal.effectful
      BY <1>1, MaxCallsAssumption DEF Journals, Positions, NoSeq
    <3> QED BY <1>1, <1>2, <3>1
  <2>2. journal.effectful \subseteq
          disk.effectful \cup {seq[u] : u \in {w \in Tasks : Effectful(w)}}
    BY <1>1 DEF ContractInv, FlagsOwned
  <2>3. ASSUME NEW p \in journal.effectful, p \notin disk.effectful
        PROVE  p \in {seq'[u] : u \in {w \in Tasks : Effectful(w)}}
    BY <2>1, <2>2, <2>3
  <2> QED BY <1>1, <1>5, <2>3 DEF FlagsOwned, Effectful
<1>8. ASSUME NEW u \in Tasks PROVE Allowed(u)'
  <2>1. CASE u = t
    <3>1. PriorEffect(t)' <=> journal.resuming /\ nextSeq \in journal.effectful
      BY <1>2, <1>5 DEF PriorEffect
    <3>2. pc'[t] = "verifying" => offer /\ Script[t].verify
      BY <1>4
    <3>3. usable'[t] => /\ offer /\ ~ Effectful(t)
                        /\ ~ (journal.resuming /\ nextSeq \in journal.effectful)
      BY <1>3
    <3> HIDE DEF found
    <3> QED BY <2>1, <3>1, <3>2, <3>3 DEF Allowed, Effectful
  <2>2. CASE u # t
    <3>1. /\ Allowed(u) /\ pc'[u] = pc[u] /\ usable'[u] = usable[u]
          /\ seq'[u] = seq[u]
      BY <1>2, <2>2 DEF ContractInv
    <3>2. PriorEffect(u)' <=> PriorEffect(u)
      BY <1>5, <3>1 DEF PriorEffect
    <3> QED BY <3>1, <3>2 DEF Allowed, Effectful
  <2> QED BY <2>1, <2>2
<1>9. ASSUME NEW u \in Tasks, pc'[u] = "reused"
      PROVE  disk'.entries[seq'[u]] = journal'.entries[seq'[u]]
  <2>1. u # t
    BY <1>4, <1>9
  <2>2. pc[u] = "reused" /\ seq'[u] = seq[u]
    BY <1>2, <1>9, <2>1
  <2>3. seq[u] \in Positions /\ seq[u] < nextSeq /\ nextSeq \in Nat /\ seq[u] \in Nat
    BY <2>2, SeqFacts DEF Active, Returned
  <2>4. journal'.entries[seq[u]] = journal.entries[seq[u]]
    BY <1>5, <2>3
  <2> QED BY <1>1, <2>2, <2>4 DEF ContractInv
<1> QED
  BY <1>1, <1>6, <1>7, <1>8, <1>9 DEF ContractInv

LEMMA ContractInit == Init => ContractInv
<1> SUFFICES ASSUME Init PROVE ContractInv
  OBVIOUS
<1>1. /\ \A t \in Tasks : pc[t] = "idle" /\ usable[t] = FALSE
      /\ disk = NoSnapshot
      /\ journal.entries = NoEntries /\ journal.effectful = {}
  BY DEF Init, NewJournal
<1>2. Sourced /\ FlagsOwned
  BY <1>1 DEF Sourced, FlagsOwned, NoEntries, NoEntry
<1>3. \A t \in Tasks : Allowed(t) /\ pc[t] # "reused"
  BY <1>1 DEF Allowed, Undecided
<1>4. ~ disk.exists
  BY <1>1 DEF NoSnapshot
<1>5. alive
  BY DEF Init
<1> QED BY <1>2, <1>3, <1>4, <1>5 DEF ContractInv

\* What the end of an execution does to journal and snapshot.
LEMMA EndRunWrites ==
  ASSUME TypeInv, NEW outcome, NEW saved \in BOOLEAN, EndRun(outcome, saved)
  PROVE  /\ journal'.entries = journal.entries /\ journal'.fp = journal.fp
         /\ journal'.effectful = journal.effectful
         /\ disk' = IF saved THEN Snapshot(journal') ELSE disk
<1>1. journal \in Journals
  BY SeqFacts
<1>2. journal' = [journal EXCEPT !.terminal = FinalStatus(outcome)]
  BY DEF EndRun, Save
<1>3. disk' = IF saved THEN Snapshot(journal') ELSE disk
  BY DEF EndRun, Save
<1> QED BY <1>1, <1>2, <1>3 DEF Journals

LEMMA ContractExecutions ==
  ASSUME TypeInv, ContractInv, Execution PROVE ContractInv'
<1>1. /\ \A t \in Tasks : pc'[t] = "idle" /\ usable'[t] = FALSE
      /\ \A t \in Tasks : Allowed(t)' /\ pc'[t] # "reused"
  BY DEF Execution, EndRun, Crash, Resume, FreshContext, Allowed, Undecided
<1>2. ASSUME NEW outcome, NEW saved \in BOOLEAN, EndRun(outcome, saved)
      PROVE  ~ alive' /\ Blank' /\ (disk'.exists => disk'.fp # NoFingerprint)
  <2>1. journal.fp \in Fingerprints
    BY SeqFacts DEF Journals
  <2>2. disk' = Snapshot(journal') \/ disk' = disk
    BY <1>2, EndRunWrites
  <2>3. journal'.fp = journal.fp /\ ~ alive' /\ Blank'
    BY <1>2, EndRunWrites DEF EndRun, FreshContext, Blank
  <2> QED
    BY <2>1, <2>2, <2>3, NamesAssumption DEF Snapshot, ContractInv
<1>3. ASSUME Crash
      PROVE  ~ alive' /\ Blank' /\ (disk'.exists => disk'.fp # NoFingerprint)
  BY <1>3 DEF Crash, FreshContext, Blank, ContractInv
<1>4. ASSUME NEW f \in Fingerprints, Resume(f)
      PROVE  /\ alive' /\ Sourced' /\ FlagsOwned'
             /\ disk'.exists => disk'.fp # NoFingerprint
  <2>1. /\ disk' = disk /\ journal'.fp = f /\ journal'.effectful = disk.effectful
        /\ journal'.entries = IF disk.fp = f THEN disk.entries ELSE NoEntries
    BY <1>4 DEF Resume, ResumedJournal
  <2>2. Sourced'
    BY <2>1 DEF Sourced, NoEntries, NoEntry
  <2>3. FlagsOwned'
    BY <2>1 DEF FlagsOwned
  <2>4. alive'
    BY <1>4 DEF Resume
  <2> QED BY <2>1, <2>2, <2>3, <2>4 DEF ContractInv
<1> QED
  BY <1>1, <1>2, <1>3, <1>4 DEF Execution, ContractInv

LEMMA ContractTask ==
  ASSUME TypeInv, EffectInv, DecisionInv, ContractInv, NEW t \in Tasks,
         TaskStep(t) \/ Disturbance(t)
  PROVE  ContractInv'
<1>1. pc[t] # "idle" => alive
  BY DEF EffectInv
<1>2. \A u \in Tasks \ {t} : \A v : [pc EXCEPT ![t] = v][u] = pc[u]
  BY DEF TypeInv, TypeOK
<1>3. ASSUME RefuseUnsafe(t) \/ OverBudget(t) \/ CancelUndecided(t)
      PROVE  ContractInv'
  <2>1. /\ pc[t] \in Undecided /\ pc' = [pc EXCEPT ![t] = "failed"]
        /\ journal' = InvalidateFrom(journal, seq[t])
        /\ UNCHANGED <<alive, disk, seq, key, usable, outputs>>
    BY <1>3 DEF RefuseUnsafe, OverBudget, CancelUndecided, Gate, At, Undecided
  <2>2. alive
    BY <1>1, <2>1 DEF Undecided
  <2> QED BY <2>1, <2>2, ContractDropped
<1>4. ASSUME \/ PreflightFails(t) \/ Dispatch(t)
             \/ \E u \in Usages : Reask(t, u)
      PROVE  ContractInv'
  <2>1. /\ UNCHANGED <<alive, journal, disk, seq, key, outputs, usable>>
        /\ pc[t] \in {"idle", "queued", "running"}
        /\ \/ pc' = [pc EXCEPT ![t] = "failed"] /\ alive
           \/ pc' = [pc EXCEPT ![t] = "running"]
           \/ pc' = [pc EXCEPT ![t] = "queued"]
    BY <1>4 DEF PreflightFails, Reached, Dispatch, Reask, Receive, At
  <2>2. pc'[t] \in {"failed", "running", "queued"}
    BY <2>1 DEF TypeInv, TypeOK
  <2>0. alive
    BY <1>1, <1>4 DEF PreflightFails, Reached, Dispatch, Reask, Receive, At
  <2>3. \A u \in Tasks \ {t} : pc'[u] = pc[u]
    BY <1>2, <2>1
  <2>4. Allowed(t)'
    BY <2>2 DEF Allowed, Undecided
  <2> QED BY <2>0, <2>1, <2>2, <2>3, <2>4, ContractQuiet
<1>5. ASSUME NEW accepts \in BOOLEAN, NEW called \in BOOLEAN,
             Verdict(t, accepts, called)
      PROVE  ContractInv'
  <2>1. /\ UNCHANGED <<alive, journal, disk, seq, key, outputs>>
        /\ pc[t] = "verifying" /\ alive
        /\ \A u \in Tasks \ {t} : pc'[u] = pc[u] /\ usable'[u] = usable[u]
        /\ pc'[t] \in {"deciding", "waiting"}
    BY <1>1, <1>5 DEF Verdict, At, TypeInv, TypeOK
  <2>2. ~ Script[t].rerun /\ (Script[t].verify \/ ~ (Effectful(t) \/ PriorEffect(t)))
    BY <2>1 DEF ContractInv, Allowed, Undecided
  <2>3. Allowed(t)'
    BY <2>1, <2>2 DEF Allowed, Effectful, PriorEffect
  <2> QED BY <2>1, <2>3, ContractQuiet
<1>6. ASSUME NEW saved \in BOOLEAN, Raise(t, saved), pc[t] \in Underway,
             UNCHANGED usable
      PROVE  ContractInv'
  BY <1>6, ContractEnds DEF Raise
<1>7. ASSUME NEW saved \in BOOLEAN,
             \/ SetupFails(t, saved) \/ DispatchRefused(t, saved)
             \/ CancelQueued(t, saved) \/ \E u \in Usages : CallFails(t, u, saved)
      PROVE  ContractInv'
  <2>1. Raise(t, saved) /\ pc[t] \in Underway /\ UNCHANGED usable
    BY <1>7 DEF SetupFails, DispatchRefused, CancelQueued, CallFails, Receive, At,
                Underway, Raise
  <2> QED BY <1>6, <2>1
<1>8. ASSUME NEW u \in Usages, NEW r \in Results, NEW saved \in BOOLEAN,
             Answer(t, u, r, saved)
      PROVE  ContractInv'
  <2>1. /\ Save(AppendEntry(journal, seq[t], EntryFor(t, "ok", r)), saved)
        /\ pc[t] \in Underway /\ outputs' = [outputs EXCEPT ![t] = r]
        /\ UNCHANGED <<alive, run, seq, key, usable>>
    BY <1>8 DEF Answer, Receive, At, Underway
  <2>2. PICK v \in {"done", "failed"} :
          pc' = [pc EXCEPT ![t] = v] /\ (v = "done" => saved)
    BY <1>8 DEF Answer
  <2>3. PICK kind \in {"ok", "none", "error"} : kind = "ok"
    OBVIOUS
  <2> QED BY <2>1, <2>2, <2>3, ContractEnds
<1>9. ASSUME NEW u \in Usages, NEW saved \in BOOLEAN, Exhaust(t, u, saved)
      PROVE  ContractInv'
  <2>1. /\ Save(AppendEntry(journal, seq[t], EntryFor(t, "none", NoResult)), saved)
        /\ pc[t] \in Underway /\ outputs' = outputs
        /\ UNCHANGED <<alive, run, seq, key, usable>>
    BY <1>9 DEF Exhaust, Receive, At, Underway
  <2>2. PICK v \in {"done", "failed"} :
          pc' = [pc EXCEPT ![t] = v] /\ (v = "done" => saved)
    BY <1>9 DEF Exhaust
  <2>3. PICK kind \in {"ok", "none", "error"} : kind = "none"
    OBVIOUS
  <2> QED BY <2>1, <2>2, <2>3, ContractEnds
<1> QED
  BY <1>3, <1>4, <1>5, <1>7, <1>8, <1>9, ContractCall, ContractReuse,
     ContractGoLive
  DEF TaskStep, Disturbance

LEMMA ContractStep ==
  TypeInv /\ EffectInv /\ DecisionInv /\ ContractInv /\ [Next]_vars => ContractInv'
<1> SUFFICES ASSUME TypeInv, EffectInv, DecisionInv, ContractInv, [Next]_vars
             PROVE  ContractInv'
  OBVIOUS
<1>1. CASE \E t \in Tasks : TaskStep(t) \/ Disturbance(t)
  BY <1>1, ContractTask
<1>2. CASE Execution
  BY <1>2, ContractExecutions
<1>3. CASE UNCHANGED vars
  BY <1>3 DEF vars, ContractInv, Sourced, FlagsOwned, Allowed, PriorEffect, Blank
<1> QED BY <1>1, <1>2, <1>3 DEF Next

-----------------------------------------------------------------------------
(***************************************************************************)
(* The run keeps the promise of ResumeContract.                            *)
(***************************************************************************)
\* Where the calls are, as the contract sees it.
LEMMA StageFacts ==
  ASSUME TypeInv, NEW t \in Tasks
  PROVE  /\ Stages[t] = "none" <=> seq[t] = NoSeq
         /\ Stages[t] = "asked" <=> pc[t] \in Undecided
         /\ Stages[t] = "live" <=> pc[t] \in Underway
         /\ Stages[t] = "reused" <=> pc[t] = "reused"
         /\ Stages[t] = "done" <=> pc[t] = "done"
         /\ Stages[t] = "failed" <=> pc[t] = "failed" /\ seq[t] # NoSeq
<1>1. Stages[t] = StageOf(t)
  BY DEF Stages
<1>2. /\ pc[t] \in Undecided \cup Underway \cup {"reused", "done"} => seq[t] # NoSeq
      /\ seq[t] # NoSeq => pc[t] # "idle"
      /\ pc[t] \in PCs
  BY SeqFacts DEF Active, Returned, TypeInv, Placed
<1> QED BY <1>1, <1>2 DEF StageOf, Undecided, Underway, PCs

\* One call moves.
LEMMA StageMoves ==
  ASSUME TypeInv, NEW t \in Tasks, NEW v, pc' = [pc EXCEPT ![t] = v],
         UNCHANGED seq, seq[t] # NoSeq
  PROVE  Stages' = [Stages EXCEPT ![t] = IF v \in Undecided THEN "asked"
                                         ELSE IF v \in Underway THEN "live"
                                         ELSE v]
<1>1. \A u \in Tasks : pc'[u] = IF u = t THEN v ELSE pc[u]
  BY SeqFacts
<1>2. Stages' = [u \in Tasks |-> StageOf(u)']
  BY DEF Stages
<1>3. \A u \in Tasks \ {t} : StageOf(u)' = StageOf(u)
  BY <1>1 DEF StageOf
<1>4. StageOf(t)' = IF v \in Undecided THEN "asked"
                    ELSE IF v \in Underway THEN "live" ELSE v
  BY <1>1 DEF StageOf
<1> QED BY <1>2, <1>3, <1>4 DEF Stages

\* The snapshot of a journal that lost nothing which was given to the script,
\* and holds nothing that nobody answered.
LEMMA WriteKept ==
  ASSUME TypeInv, DecisionInv, ContractInv, EffectInv, alive, NEW got,
         disk' = Snapshot(journal'), journal'.fp = journal.fp,
         \A p \in Positions : journal'.entries[p].kind = "ok" =>
            \/ journal'.entries[p] = journal.entries[p]
            \/ \E d \in Tasks : /\ pc[d] \in Underway /\ seq[d] = p
                                /\ journal'.entries[p].key = key[d]
                                /\ journal'.entries[p].result = got[d],
         \A d \in Tasks : pc[d] = "failed" => got[d] = outputs[d],
         \A d \in Tasks : pc[d] \in Returned =>
            journal'.entries[seq[d]] = journal.entries[seq[d]],
         journal.effectful \subseteq journal'.effectful,
         journal'.effectful \subseteq
            journal.effectful \cup {seq[d] : d \in {u \in Tasks : Effectful(u)}}
  PROVE  Contract!Write(got)
<1>1. /\ disk'.entries = journal'.entries /\ disk'.fp = journal.fp
      /\ disk'.effectful = journal'.effectful
  BY DEF Snapshot
<1>2. ASSUME NEW p \in DOMAIN Stored'
      PROVE  \/ disk.fp = journal.fp /\ p \in DOMAIN Stored /\ Stored'[p] = Stored[p]
             \/ \E d \in Tasks : /\ Stages[d] \in {"live", "failed"} /\ seq[d] = p
                                 /\ Stored'[p] = [key |-> key[d], result |-> got[d]]
  <2>1. /\ p \in Positions /\ journal'.entries[p].kind = "ok"
        /\ Stored'[p] = [key |-> journal'.entries[p].key,
                         result |-> journal'.entries[p].result]
    BY <1>1, <1>2 DEF Stored
  <2>2. CASE /\ disk.fp = journal.fp /\ journal'.entries[p] = journal.entries[p]
             /\ disk.entries[p] = journal.entries[p]
    BY <2>1, <2>2 DEF Stored
  <2>3. ASSUME NEW d \in Tasks, pc[d] \in Underway \/ pc[d] = "failed", seq[d] = p,
               journal'.entries[p].key = key[d],
               journal'.entries[p].result = got[d]
        PROVE  \E u \in Tasks : /\ Stages[u] \in {"live", "failed"} /\ seq[u] = p
                                /\ Stored'[p] = [key |-> key[u], result |-> got[u]]
    <3>1. seq[d] # NoSeq
      BY <2>1, <2>3, MaxCallsAssumption DEF Positions, NoSeq
    <3>2. Stages[d] \in {"live", "failed"}
      BY <2>3, <3>1, StageFacts
    <3> QED BY <2>1, <2>3, <3>2
  <2>4. CASE \E d \in Tasks : /\ pc[d] \in Underway /\ seq[d] = p
                              /\ journal'.entries[p].key = key[d]
                              /\ journal'.entries[p].result = got[d]
    BY <2>3, <2>4
  <2>5. CASE /\ journal'.entries[p] = journal.entries[p]
             /\ \E d \in Tasks : /\ pc[d] = "failed" /\ seq[d] = p
                                 /\ journal.entries[p].key = key[d]
                                 /\ journal.entries[p].result = outputs[d]
    BY <2>3, <2>5
  <2> QED BY <2>1, <2>2, <2>4, <2>5 DEF ContractInv, Sourced
<1>3. ASSUME NEW d \in Tasks, Stages[d] \in {"reused", "done"}
      PROVE  IF seq[d] \in DOMAIN Stored
             THEN seq[d] \in DOMAIN Stored' /\ Stored'[seq[d]] = Stored[seq[d]]
             ELSE seq[d] \notin DOMAIN Stored'
  <2>1. pc[d] \in Returned
    BY <1>3, StageFacts DEF Returned
  <2>2. disk.entries[seq[d]] = journal.entries[seq[d]]
    BY <2>1 DEF Returned, ContractInv, DecisionInv, HistoryInv, Recorded, Live
  <2>3. disk'.entries[seq[d]] = disk.entries[seq[d]]
    BY <1>1, <2>1, <2>2
  <2> QED BY <2>3 DEF Stored
<1>4. disk.effectful \subseteq disk'.effectful
  BY <1>1 DEF EffectInv
<1>5. disk'.effectful \subseteq
        disk.effectful \cup {seq[d] : d \in {u \in Tasks : Effectful(u)}}
  BY <1>1 DEF ContractInv, FlagsOwned
<1> QED BY <1>1, <1>2, <1>3, <1>4, <1>5 DEF Contract!Write

-----------------------------------------------------------------------------
\* Nothing that the contract speaks of changes.
LEMMA Stutters ==
  ASSUME UNCHANGED <<alive, run, seq, key, outputs, disk, acted>>,
         journal'.fp = journal.fp, Stages' = Stages
  PROVE  UNCHANGED Contract!vars
<1>1. Stored' = Stored
  BY DEF Stored
<1> QED BY <1>1 DEF Contract!vars

LEMMA CallAsks ==
  ASSUME TypeInv, DecisionInv, NEW t \in Tasks, Call(t)
  PROVE  \E k \in Keys, p \in Positions : Contract!Ask(t, k, p)
<1>1. /\ alive /\ pc[t] = "idle" /\ seq[t] = NoSeq
      /\ nextSeq \in Positions /\ nextSeq # NoSeq
      /\ KeyOf(t) \in Keys
  BY KeyType, MaxCallsAssumption
  DEF Call, Reached, At, CapReached, TypeInv, TypeOK, Placed, Positions, NoSeq
<1>2. /\ seq' = [seq EXCEPT ![t] = nextSeq] /\ key' = [key EXCEPT ![t] = KeyOf(t)]
      /\ UNCHANGED <<alive, run, disk, outputs, acted>>
  BY DEF Call
<1>3. journal'.fp = journal.fp
  BY SeqFacts, AfterLookupKeeps DEF Call
<1>4. /\ pc'[t] \in Undecided
      /\ \A u \in Tasks \ {t} : pc'[u] = pc[u] /\ seq'[u] = seq[u]
      /\ seq'[t] = nextSeq
  <2>1. pc' = [pc EXCEPT ![t] =
            IF /\ Lookup(journal, nextSeq, KeyOf(t)) # NoEntry /\ ~ Script[t].rerun
               /\ Script[t].verify
            THEN "verifying"
            ELSE IF \E u \in Tasks : pc[u] \in Undecided THEN "waiting"
            ELSE "deciding"]
    BY DEF Call
  <2> QED BY <1>2, <2>1, SeqFacts DEF Undecided
<1>5. Stages' = [Stages EXCEPT ![t] = "asked"]
  <2>1. StageOf(t)' = "asked"
    BY <1>1, <1>4 DEF StageOf
  <2>2. \A u \in Tasks \ {t} : StageOf(u)' = StageOf(u)
    BY <1>4 DEF StageOf
  <2>3. Stages' = [u \in Tasks |-> StageOf(u)']
    BY DEF Stages
  <2> QED BY <2>1, <2>2, <2>3 DEF Stages
<1>6. Stages[t] = "none"
  BY <1>1, StageFacts
<1>7. \A d \in Tasks : Stages[d] # "none" => seq[d] < nextSeq
  BY StageFacts, SeqFacts
<1>8. Stored' = Stored
  BY <1>2 DEF Stored
<1>9. Contract!Ask(t, KeyOf(t), nextSeq)
  BY <1>1, <1>2, <1>3, <1>5, <1>6, <1>7, <1>8
  DEF Contract!Ask, Contract!store
<1> QED BY <1>1, <1>9

LEMMA ReuseReuses ==
  ASSUME TypeInv, EffectInv, DecisionInv, DecisionInv', ContractInv,
         NEW t \in Tasks, Reuse(t)
  PROVE  Contract!Reuse(t)
<1>1. /\ UNCHANGED <<alive, run, journal, disk, seq, key, acted>>
      /\ pc' = [pc EXCEPT ![t] = "reused"]
      /\ outputs' = [outputs EXCEPT ![t] = held[t].result]
  BY DEF Reuse
<1>2. /\ alive /\ pc[t] \in Undecided /\ usable[t] /\ seq[t] \in Positions
      /\ disk.fp = journal.fp
      /\ disk.entries[seq[t]] = held[t]
      /\ held[t].kind = "ok" /\ held[t].key = key[t]
  BY ReuseSource
<1>3. /\ seq[t] \in DOMAIN Stored /\ Stored[seq[t]].key = key[t]
      /\ Stored[seq[t]].result = held[t].result
  BY <1>2 DEF Stored
<1>4. Stages' = [Stages EXCEPT ![t] = "reused"]
  <2>1. seq[t] # NoSeq /\ "reused" \notin Undecided \cup Underway
    BY <1>2, SeqFacts DEF Active, Undecided, Underway
  <2> QED BY <1>1, <2>1, StageMoves
<1>5. Stages[t] = "asked"
  BY <1>2, StageFacts
<1>6. \A d \in Contract!Earlier(t) : Stages[d] = "reused"
  <2> SUFFICES ASSUME NEW d \in Tasks, seq[d] < seq[t] PROVE pc[d] = "reused"
    BY StageFacts DEF Contract!Earlier
  <2>1. pc'[t] = "reused" /\ pc'[d] = pc[d]
    <3>1. d # t
      BY SeqFacts
    <3> QED BY <1>1, <3>1, SeqFacts
  <2>2. CachedPrefix'
    BY DEF DecisionInv, PrefixInv
  <2> QED BY <1>1, <2>1, <2>2 DEF CachedPrefix
<1>7. ~ Script[t].rerun /\ (Script[t].verify \/ ~ (Effectful(t) \/ PriorEffect(t)))
  BY <1>2 DEF ContractInv, Allowed
<1>8. Contract!MarkedBefore(t) => PriorEffect(t)
  BY <1>2 DEF Contract!MarkedBefore, PriorEffect, EffectInv
<1>9. Stored' = Stored
  BY <1>1 DEF Stored
<1> QED
  BY <1>1, <1>2, <1>3, <1>4, <1>5, <1>6, <1>7, <1>8, <1>9
  DEF Contract!Reuse, Contract!store

LEMMA AdmissionStarts ==
  ASSUME TypeInv, EffectInv, DecisionInv, ContractInv, NEW t \in Tasks,
         NEW saved \in BOOLEAN, GoLive(t, saved)
  PROVE  Contract!Start(t) \/ Contract!Fail(t)
<1>1. /\ pc[t] \in Undecided /\ alive /\ EarlierDecided(t) /\ ~ MustRefuse(t)
      /\ UNCHANGED <<alive, run, seq, key, outputs, acted>>
      /\ pc' = [pc EXCEPT ![t] = IF saved THEN "queued" ELSE "failed"]
      /\ seq[t] \in Positions /\ seq[t] # NoSeq
  BY SeqFacts DEF GoLive, Gate, At, Undecided, EffectInv, Active
<1>2. /\ \A p \in Positions : journal'.entries[p] =
            IF p < seq[t] THEN journal.entries[p]
            ELSE IF p = seq[t] THEN EntryFor(t, "pending", NoResult)
            ELSE NoEntry
      /\ journal'.fp = journal.fp
      /\ journal'.effectful = IF Effectful(t) THEN journal.effectful \cup {seq[t]}
                              ELSE journal.effectful
      /\ disk' = IF saved THEN Snapshot(journal') ELSE disk
  BY AdmissionWrites
<1>3. EntryFor(t, "pending", NoResult).kind = "pending" /\ NoEntry.kind = "absent"
  BY DEF EntryFor, NoEntry
<1>4. Stages[t] = "asked"
  BY <1>1, StageFacts
<1>5. CASE saved
  <2>1. Stages' = [Stages EXCEPT ![t] = "live"]
    <3>1. pc' = [pc EXCEPT ![t] = "queued"]
      BY <1>1, <1>5
    <3>2. "queued" \notin Undecided /\ "queued" \in Underway
      BY DEF Undecided, Underway
    <3> QED BY <1>1, <3>1, <3>2, StageMoves
  <2>2. PICK g : g = outputs
    OBVIOUS
  <2>3. Contract!Write(g)
    <3>1. \A p \in Positions : journal'.entries[p].kind = "ok" =>
            journal'.entries[p] = journal.entries[p]
      BY <1>2, <1>3
    <3>2. \A d \in Tasks : pc[d] \in Returned =>
            journal'.entries[seq[d]] = journal.entries[seq[d]]
      BY <1>1, <1>2, DecidedBefore DEF Active
    <3>3. /\ journal.effectful \subseteq journal'.effectful
          /\ journal'.effectful \subseteq
               journal.effectful \cup {seq[d] : d \in {u \in Tasks : Effectful(u)}}
      BY <1>2
    <3>4. disk' = Snapshot(journal')
      BY <1>2, <1>5
    <3> QED
      BY <1>1, <1>2, <2>2, <3>1, <3>2, <3>3, <3>4, WriteKept
  <2>4. \A p \in DOMAIN Stored' : p < seq[t]
    <3> SUFFICES ASSUME NEW p \in Positions, disk'.entries[p].kind = "ok"
                 PROVE  p < seq[t]
      BY DEF Stored
    <3>1. disk'.entries = journal'.entries
      BY <1>2, <1>5 DEF Snapshot
    <3> QED BY <1>2, <1>3, <3>1
  <2>5. Effectful(t) => seq[t] \in disk'.effectful
    BY <1>2, <1>5 DEF Snapshot
  <2>6. \A d \in Contract!Earlier(t) : Stages[d] # "asked"
    <3> SUFFICES ASSUME NEW d \in Tasks, seq[d] < seq[t], pc[d] \in Undecided
                 PROVE  FALSE
      BY StageFacts DEF Contract!Earlier
    <3>1. seq[t] <= seq[d] /\ seq[t] \in Nat /\ seq[d] \in Nat
      BY <1>1, SeqFacts DEF EarlierDecided
    <3> QED BY <3>1
  <2>7. Contract!MarkedBefore(t) => Script[t].rerun
    BY <1>1 DEF Contract!MarkedBefore, MustRefuse, PriorEffect, EffectInv
  <2>8. Contract!Write(outputs)
    BY <2>2, <2>3 DEF Contract!Write
  <2> QED
    BY <1>1, <1>2, <1>4, <2>1, <2>4, <2>5, <2>6, <2>7, <2>8
    DEF Contract!Start
<1>6. CASE ~ saved
  <2>1. Stages' = [Stages EXCEPT ![t] = "failed"]
    <3>1. pc' = [pc EXCEPT ![t] = "failed"]
      BY <1>1, <1>6
    <3>2. "failed" \notin Undecided \cup Underway
      BY DEF Undecided, Underway
    <3> QED BY <1>1, <3>1, <3>2, StageMoves
  <2>2. disk' = disk /\ Stored' = Stored
    BY <1>2, <1>6 DEF Stored
  <2> QED
    BY <1>1, <1>2, <1>4, <2>1, <2>2 DEF Contract!Fail, Contract!store
<1> QED BY <1>5, <1>6

LEMMA DroppedFails ==
  ASSUME TypeInv, NEW t \in Tasks, pc[t] \in Undecided,
         pc' = [pc EXCEPT ![t] = "failed"],
         journal' = InvalidateFrom(journal, seq[t]),
         UNCHANGED <<alive, run, disk, seq, key, outputs, acted>>
  PROVE  Contract!Fail(t)
<1>1. seq[t] # NoSeq /\ journal'.fp = journal.fp
  BY SeqFacts, InvalidateFromKeeps DEF Active
<1>2. Stages' = [Stages EXCEPT ![t] = "failed"]
  <2>1. "failed" \notin Undecided \cup Underway
    BY DEF Undecided, Underway
  <2> QED BY <1>1, <2>1, StageMoves
<1>3. Stages[t] = "asked" /\ Stored' = Stored
  BY StageFacts DEF Stored
<1> QED BY <1>1, <1>2, <1>3 DEF Contract!Fail, Contract!store

\* The answers of the script when the answer of t, if it is one, is r.
AnswersWith(got, t, kind, r) ==
    /\ kind = "ok" => got[t] = r
    /\ \A d \in Tasks \ {t} : got[d] = outputs[d]

\* What the end of a live call writes.
LEMMA EndsKept ==
  ASSUME TypeInv, EffectInv, DecisionInv, ContractInv, NEW t \in Tasks,
         NEW kind \in {"ok", "none", "error"}, NEW r, NEW got, NEW saved \in BOOLEAN,
         saved, pc[t] \in Underway,
         Save(AppendEntry(journal, seq[t], EntryFor(t, kind, r)), saved),
         AnswersWith(got, t, kind, r)
  PROVE  /\ Contract!Write(got)
         /\ disk'.entries[seq[t]] = EntryFor(t, kind, r)
<1>1. /\ alive /\ seq[t] \in Positions
  BY SeqFacts DEF EffectInv, Underway, Active
<1>2. /\ \A p \in Positions : journal'.entries[p] =
            IF p = seq[t] THEN EntryFor(t, kind, r) ELSE journal.entries[p]
      /\ journal'.fp = journal.fp
      /\ journal'.effectful = journal.effectful
      /\ disk' = Snapshot(journal')
  <2>1. /\ \A p \in Positions : journal'.entries[p] =
              IF p = seq[t] THEN EntryFor(t, kind, r) ELSE journal.entries[p]
        /\ journal'.fp = journal.fp /\ journal'.resuming = journal.resuming
        /\ journal'.effectful = journal.effectful
        /\ disk' = IF saved THEN Snapshot(journal') ELSE disk
    BY EndWrites
  <2> QED BY <2>1
<1>3. /\ EntryFor(t, kind, r).kind = kind /\ EntryFor(t, kind, r).key = key[t]
      /\ EntryFor(t, kind, r).result = r
  BY DEF EntryFor
<1>a. /\ kind = "ok" => got[t] = r
      /\ \A d \in Tasks \ {t} : got[d] = outputs[d]
  BY DEF AnswersWith
<1>4. \A p \in Positions : journal'.entries[p].kind = "ok" =>
        \/ journal'.entries[p] = journal.entries[p]
        \/ \E d \in Tasks : /\ pc[d] \in Underway /\ seq[d] = p
                            /\ journal'.entries[p].key = key[d]
                            /\ journal'.entries[p].result = got[d]
  BY <1>2, <1>3, <1>a
<1>5. \A d \in Tasks : pc[d] = "failed" => got[d] = outputs[d]
  BY <1>a DEF Underway
<1>6. \A d \in Tasks : pc[d] \in Returned =>
        journal'.entries[seq[d]] = journal.entries[seq[d]]
  BY <1>2, DecidedBefore DEF Active
<1>7. Contract!Write(got)
  BY <1>1, <1>2, <1>4, <1>5, <1>6, WriteKept
<1>8. disk'.entries = journal'.entries
  BY <1>2 DEF Snapshot
<1> QED BY <1>1, <1>2, <1>7, <1>8

LEMMA LiveEnds ==
  ASSUME TypeInv, NEW t \in Tasks, NEW saved \in BOOLEAN, NEW kind, NEW r,
         pc[t] \in Underway, UNCHANGED seq,
         NEW v \in {"done", "failed"}, pc' = [pc EXCEPT ![t] = v],
         Save(AppendEntry(journal, seq[t], EntryFor(t, kind, r)), saved)
  PROVE  /\ Stages[t] = "live" /\ Stages' = [Stages EXCEPT ![t] = v]
         /\ journal'.fp = journal.fp
         /\ ~ saved => disk' = disk /\ Stored' = Stored
<1>1. Stages[t] = "live"
  BY StageFacts
<1>2. Stages' = [Stages EXCEPT ![t] = v]
  <2>1. seq[t] # NoSeq /\ v \notin Undecided \cup Underway
    BY SeqFacts DEF Active, Undecided, Underway
  <2> QED BY <2>1, StageMoves
<1>3. journal'.fp = journal.fp /\ (~ saved => disk' = disk)
  BY EndWrites
<1>4. disk' = disk => Stored' = Stored
  BY DEF Stored
<1> QED BY <1>1, <1>2, <1>3, <1>4

LEMMA RaiseFails ==
  ASSUME TypeInv, EffectInv, DecisionInv, ContractInv, NEW t \in Tasks,
         NEW saved \in BOOLEAN, pc[t] \in Underway,
         NEW kind \in {"none", "error"}, UNCHANGED <<alive, run, seq, key, outputs, acted>>,
         pc' = [pc EXCEPT ![t] = "failed"],
         Save(AppendEntry(journal, seq[t], EntryFor(t, kind, NoResult)), saved)
  PROVE  Contract!Fail(t)
<1>1. /\ Stages[t] = "live" /\ Stages' = [Stages EXCEPT ![t] = "failed"]
      /\ journal'.fp = journal.fp
      /\ ~ saved => disk' = disk /\ Stored' = Stored
  <2>1. PICK v \in {"done", "failed"} : v = "failed"
    OBVIOUS
  <2>2. /\ Stages[t] = "live" /\ Stages' = [Stages EXCEPT ![t] = v]
        /\ journal'.fp = journal.fp
        /\ ~ saved => disk' = disk /\ Stored' = Stored
    BY <2>1, LiveEnds
  <2> QED BY <2>1, <2>2
<1>2. PICK g : g = outputs
  OBVIOUS
<1>3. saved => Contract!Write(g)
  <2>1. AnswersWith(g, t, kind, NoResult)
    BY <1>2 DEF AnswersWith
  <2> QED BY <2>1, EndsKept
<1>4. saved => Contract!Write(outputs)
  BY <1>2, <1>3 DEF Contract!Write
<1> QED
  BY <1>1, <1>4 DEF Contract!Fail, Contract!store

LEMMA AnswerDelivers ==
  ASSUME TypeInv, EffectInv, DecisionInv, ContractInv, NEW t \in Tasks,
         NEW u \in Usages, NEW r \in Results, NEW saved \in BOOLEAN,
         Answer(t, u, r, saved)
  PROVE  Contract!Deliver(t, r) \/ Contract!Fail(t)
<1>1. /\ Save(AppendEntry(journal, seq[t], EntryFor(t, "ok", r)), saved)
      /\ pc[t] \in Underway /\ outputs' = [outputs EXCEPT ![t] = r]
      /\ UNCHANGED <<alive, run, seq, key, acted>>
  BY DEF Answer, Receive, At, Underway
<1>2. PICK v \in {"done", "failed"} :
        pc' = [pc EXCEPT ![t] = v] /\ (v = "done" <=> saved)
  BY DEF Answer
<1>3. PICK kind \in {"ok", "none", "error"} : kind = "ok"
  OBVIOUS
<1>4. /\ Stages[t] = "live" /\ Stages' = [Stages EXCEPT ![t] = v]
      /\ journal'.fp = journal.fp
      /\ ~ saved => disk' = disk /\ Stored' = Stored
  BY <1>1, <1>2, <1>3, LiveEnds
<1>5. CASE saved
  <2>1. PICK g : g = outputs'
    OBVIOUS
  <2>2. g[t] = r /\ \A d \in Tasks \ {t} : g[d] = outputs[d]
    BY <1>1, <2>1 DEF TypeInv, TypeOK
  <2>s. Save(AppendEntry(journal, seq[t], EntryFor(t, kind, r)), saved)
    BY <1>1, <1>3
  <2>3. Contract!Write(g) /\ disk'.entries[seq[t]] = EntryFor(t, kind, r)
    <3>1. AnswersWith(g, t, kind, r) /\ pc[t] \in Underway
      BY <1>1, <2>2 DEF AnswersWith
    <3> QED BY <1>5, <2>s, <3>1, EndsKept
  <2>4. Contract!Write(outputs')
    BY <2>1, <2>3 DEF Contract!Write
  <2>5. seq[t] \in Positions
    BY <1>1, SeqFacts DEF Active
  <2>6. /\ seq[t] \in DOMAIN Stored'
        /\ Stored'[seq[t]] = [key |-> key[t], result |-> r]
    BY <1>3, <2>3, <2>5 DEF Stored, EntryFor
  <2> QED
    BY <1>1, <1>2, <1>4, <1>5, <2>4, <2>6 DEF Contract!Deliver
<1>6. CASE ~ saved
  BY <1>1, <1>2, <1>4, <1>6 DEF Contract!Fail, Contract!store
<1> QED BY <1>5, <1>6

LEMMA ExhaustDelivers ==
  ASSUME TypeInv, EffectInv, DecisionInv, ContractInv, NEW t \in Tasks,
         NEW u \in Usages, NEW saved \in BOOLEAN, Exhaust(t, u, saved)
  PROVE  Contract!DeliverNone(t) \/ Contract!Fail(t)
<1>1. /\ Save(AppendEntry(journal, seq[t], EntryFor(t, "none", NoResult)), saved)
      /\ pc[t] \in Underway
      /\ UNCHANGED <<alive, run, seq, key, outputs, acted>>
      /\ pc' = [pc EXCEPT ![t] = IF saved THEN "done" ELSE "failed"]
  BY DEF Exhaust, Receive, At, Underway
<1>2. PICK kind \in {"none", "error"} : kind = "none"
  OBVIOUS
<1>3. CASE ~ saved
  BY <1>1, <1>2, <1>3, RaiseFails
<1>4. CASE saved
  <2>1. PICK v \in {"done", "failed"} : v = "done"
    OBVIOUS
  <2>2. /\ Stages[t] = "live" /\ Stages' = [Stages EXCEPT ![t] = v]
        /\ journal'.fp = journal.fp
    BY <1>1, <1>4, <2>1, LiveEnds
  <2>3. PICK g : g = outputs
    OBVIOUS
  <2>4. Contract!Write(g) /\ disk'.entries[seq[t]] = EntryFor(t, kind, NoResult)
    <3>1. AnswersWith(g, t, kind, NoResult)
      BY <1>2, <2>3 DEF AnswersWith
    <3> QED BY <1>1, <1>2, <1>4, <3>1, EndsKept
  <2>5. Contract!Write(outputs)
    BY <2>3, <2>4 DEF Contract!Write
  <2>6. seq[t] \notin DOMAIN Stored'
    BY <1>2, <2>4 DEF Stored, EntryFor
  <2> QED
    BY <1>1, <2>1, <2>2, <2>5, <2>6 DEF Contract!DeliverNone
<1> QED BY <1>3, <1>4

LEMMA DispatchActs ==
  ASSUME TypeInv, NEW t \in Tasks, Dispatch(t)
  PROVE  Contract!Act(t) \/ UNCHANGED Contract!vars
<1>1. /\ pc[t] \in Underway /\ pc' = [pc EXCEPT ![t] = "running"]
      /\ UNCHANGED <<alive, run, journal, disk, seq, key, outputs>>
      /\ acted' = IF Effectful(t)
                  THEN acted \cup {[pos |-> seq[t], task |-> t, run |-> run]}
                  ELSE acted
  BY DEF Dispatch, At, Underway
<1>2. Stages[t] = "live" /\ Stages' = Stages
  <2>1. "running" \notin Undecided /\ "running" \in Underway /\ seq[t] # NoSeq
    BY <1>1, SeqFacts DEF Undecided, Underway, Active
  <2>2. Stages[t] = "live" /\ Stages' = [Stages EXCEPT ![t] = "live"]
    BY <1>1, <2>1, StageFacts, StageMoves
  <2> QED BY <2>2 DEF Stages
<1>3. Stored' = Stored
  BY <1>1 DEF Stored
<1>4. CASE Effectful(t)
  BY <1>1, <1>2, <1>3, <1>4 DEF Contract!Act, Contract!store
<1>5. CASE ~ Effectful(t)
  BY <1>1, <1>2, <1>5, Stutters
<1> QED BY <1>4, <1>5

\* A call that was refused before it had a position, one that is verified and
\* one that asks again are where they were.
LEMMA StaysPut ==
  ASSUME TypeInv, NEW t \in Tasks,
         UNCHANGED <<alive, run, journal, disk, seq, key, outputs, acted>>,
         NEW v, pc' = [pc EXCEPT ![t] = v],
         \/ pc[t] = "idle"
         \/ pc[t] \in Undecided /\ v \in Undecided
         \/ pc[t] \in Underway /\ v \in Underway
  PROVE  UNCHANGED Contract!vars
<1>1. CASE seq[t] = NoSeq
  <2>1. \A u \in Tasks : StageOf(u)' = StageOf(u)
    BY <1>1, SeqFacts DEF StageOf
  <2>2. Stages' = Stages
    BY <2>1 DEF Stages
  <2> QED BY <2>2, Stutters
<1>2. CASE seq[t] # NoSeq
  <2>1. pc[t] # "idle"
    BY <1>2 DEF TypeInv, Placed
  <2>2. Stages' = [Stages EXCEPT ![t] = Stages[t]]
    BY <1>2, <2>1, StageMoves, StageFacts DEF Undecided, Underway
  <2>3. Stages' = Stages
    BY <2>2 DEF Stages
  <2> QED BY <2>3, Stutters
<1> QED BY <1>1, <1>2

\* After the context was renewed nothing is asked.
LEMMA BlankStages ==
  (\A t \in Tasks : seq[t] = NoSeq) => Stages = [t \in Tasks |-> "none"]
  BY DEF Stages, StageOf

LEMMA FreshUnasked ==
  ASSUME FreshContext PROVE Contract!Unasked
<1>1. \A t \in Tasks : seq'[t] = NoSeq
  BY DEF FreshContext
<1>2. Stages' = [t \in Tasks |-> "none"]
  BY <1>1 DEF Stages, StageOf
<1> QED BY <1>2 DEF FreshContext, Contract!Unasked

LEMMA ExecutionsClose ==
  ASSUME TypeInv, EffectInv, DecisionInv, ContractInv, Execution
  PROVE  Contract!Close \/ \E f \in Fingerprints : Contract!Resume(f)
<1>1. ASSUME NEW outcome, NEW saved \in BOOLEAN, EndRun(outcome, saved)
      PROVE  Contract!Close
  <2>1. /\ alive /\ ~ alive' /\ FreshContext /\ UNCHANGED <<run, acted>>
        /\ \A t \in Tasks : pc[t] \notin Active
    BY <1>1 DEF EndRun
  <2>2. /\ journal'.entries = journal.entries /\ journal'.fp = journal.fp
        /\ journal'.effectful = journal.effectful
        /\ disk' = IF saved THEN Snapshot(journal') ELSE disk
    BY <1>1, EndRunWrites
  <2>3. ~ saved => disk' = disk /\ Stored' = Stored
    BY <2>2 DEF Stored
  <2>4. saved => Contract!Write(outputs)
    <3>1. PICK g : g = outputs
      OBVIOUS
    <3>2. saved => Contract!Write(g)
      BY <2>1, <2>2, <3>1, WriteKept
    <3> QED BY <3>1, <3>2 DEF Contract!Write
  <2>5. \A t \in Tasks : Stages[t] \notin {"asked", "live"}
    BY <2>1, StageFacts DEF Active
  <2>6. Contract!Unasked /\ alive' = FALSE
    BY <1>1, <2>1, FreshUnasked DEF EndRun
  <2> QED
    BY <2>1, <2>2, <2>3, <2>4, <2>5, <2>6 DEF Contract!Close, Contract!store
<1>2. ASSUME Crash PROVE Contract!Close
  <2>1. /\ alive /\ alive' = FALSE /\ FreshContext
        /\ UNCHANGED <<run, journal, disk, acted>>
    BY <1>2 DEF Crash
  <2>2. Stored' = Stored /\ Contract!Unasked
    BY <2>1, FreshUnasked DEF Stored
  <2> QED BY <2>1, <2>2 DEF Contract!Close, Contract!store
<1>3. ASSUME NEW f \in Fingerprints, Resume(f) PROVE Contract!Resume(f)
  <2>1. /\ ~ alive /\ alive' = TRUE /\ disk.exists /\ run' = run + 1
        /\ FreshContext /\ UNCHANGED <<disk, acted>> /\ journal'.fp = f
    BY <1>3 DEF Resume, ResumedJournal
  <2>2. Blank /\ disk.fp # NoFingerprint
    BY <2>1 DEF ContractInv
  <2>3. UNCHANGED <<seq, key, outputs>>
    BY <2>1, <2>2 DEF FreshContext, Blank
  <2>4. \A t \in Tasks : seq[t] = NoSeq /\ seq'[t] = NoSeq
    BY <2>2, <2>3 DEF Blank
  <2>5. Stages' = Stages /\ Stored' = Stored
    BY <2>1, <2>4 DEF Stages, StageOf, Stored
  <2> QED BY <2>1, <2>2, <2>3, <2>5 DEF Contract!Resume, Contract!store
<1> QED BY <1>1, <1>2, <1>3 DEF Execution

LEMMA TaskHonours ==
  ASSUME TypeInv, EffectInv, DecisionInv, DecisionInv', ContractInv,
         NEW t \in Tasks, TaskStep(t) \/ Disturbance(t)
  PROVE  Contract!Next \/ UNCHANGED Contract!vars
<1>1. CASE Call(t)
  BY <1>1, CallAsks DEF Contract!Next
<1>2. CASE Reuse(t)
  BY <1>2, ReuseReuses DEF Contract!Next
<1>3. CASE RefuseUnsafe(t) \/ OverBudget(t) \/ CancelUndecided(t)
  <2>1. /\ pc[t] \in Undecided /\ pc' = [pc EXCEPT ![t] = "failed"]
        /\ journal' = InvalidateFrom(journal, seq[t])
        /\ UNCHANGED <<alive, run, disk, seq, key, outputs, acted>>
    BY <1>3 DEF RefuseUnsafe, OverBudget, CancelUndecided, Gate, At, Undecided
  <2> QED BY <2>1, DroppedFails DEF Contract!Next
<1>4. CASE \E saved \in BOOLEAN : GoLive(t, saved)
  BY <1>4, AdmissionStarts DEF Contract!Next
<1>5. CASE Dispatch(t)
  BY <1>5, DispatchActs DEF Contract!Next
<1>6. ASSUME NEW saved \in BOOLEAN,
             \/ SetupFails(t, saved) \/ DispatchRefused(t, saved)
             \/ CancelQueued(t, saved) \/ \E u \in Usages : CallFails(t, u, saved)
      PROVE  Contract!Next
  <2>1. Raise(t, saved) /\ pc[t] \in Underway
    BY <1>6 DEF SetupFails, DispatchRefused, CancelQueued, CallFails, Receive, At,
                Underway
  <2>2. PICK kind \in {"none", "error"} : kind = "error"
    OBVIOUS
  <2>3. /\ UNCHANGED <<alive, run, seq, key, outputs, acted>>
        /\ pc' = [pc EXCEPT ![t] = "failed"]
        /\ Save(AppendEntry(journal, seq[t], EntryFor(t, kind, NoResult)), saved)
    BY <2>1, <2>2 DEF Raise
  <2> QED BY <2>1, <2>3, RaiseFails DEF Contract!Next
<1>7. CASE \E u \in Usages, r \in Results, saved \in BOOLEAN :
              Answer(t, u, r, saved)
  BY <1>7, AnswerDelivers DEF Contract!Next
<1>8. CASE \E u \in Usages, saved \in BOOLEAN : Exhaust(t, u, saved)
  BY <1>8, ExhaustDelivers DEF Contract!Next
<1>9. CASE \/ PreflightFails(t) \/ \E u \in Usages : Reask(t, u)
           \/ \E accepts, called \in BOOLEAN : Verdict(t, accepts, called)
  <2>1. /\ UNCHANGED <<alive, run, journal, disk, seq, key, outputs, acted>>
        /\ \E v : /\ pc' = [pc EXCEPT ![t] = v]
                  /\ \/ pc[t] = "idle"
                     \/ pc[t] \in Undecided /\ v \in Undecided
                     \/ pc[t] \in Underway /\ v \in Underway
    BY <1>9 DEF PreflightFails, Reached, Reask, Receive, Verdict, At, Undecided,
                Underway
  <2> QED BY <2>1, StaysPut
<1> QED
  BY <1>1, <1>2, <1>3, <1>4, <1>5, <1>6, <1>7, <1>8, <1>9
  DEF TaskStep, Disturbance

\* Over all its executions, through crashes and failed writes, a run keeps the
\* promise of ResumeContract: answers are given again in order, to the same
\* questions and under the same version; no call is made again where one acted,
\* unless the host allows it; and the snapshot is a step ahead of every call.
THEOREM ResumeKeepsPromise == Spec => HonoursContract
<1>1. Init => Contract!Init
  <2> SUFFICES ASSUME Init PROVE Contract!Init
    OBVIOUS
  <2>1. Stages = [t \in Tasks |-> "none"]
    BY BlankStages DEF Init
  <2>2. journal.fp \in Fingerprints
    BY DEF Init, NewJournal
  <2>3. Stored = <<>>
    <3>1. disk = NoSnapshot /\ \A p \in Positions : disk.entries[p].kind # "ok"
      BY DEF Init, NoSnapshot, NoEntries, NoEntry
    <3>2. {q \in Positions : disk.entries[q].kind = "ok"} = {}
      BY <3>1
    <3> QED BY <3>2 DEF Stored
  <2> QED
    BY <2>1, <2>2, <2>3 DEF Init, NoSnapshot, Contract!Init
<1>2. /\ TypeInv /\ EffectInv /\ DecisionInv /\ ContractInv
      /\ DecisionInv' /\ [Next]_vars
      => [Contract!Next]_Contract!vars
  <2> SUFFICES ASSUME TypeInv, EffectInv, DecisionInv, ContractInv, DecisionInv',
                      [Next]_vars
               PROVE  Contract!Next \/ UNCHANGED Contract!vars
    OBVIOUS
  <2>1. CASE \E t \in Tasks : TaskStep(t) \/ Disturbance(t)
    BY <2>1, TaskHonours
  <2>2. CASE Execution
    BY <2>2, ExecutionsClose DEF Contract!Next
  <2>3. CASE UNCHANGED vars
    BY <2>3, Stutters DEF vars, Stages, StageOf
  <2> QED BY <2>1, <2>2, <2>3 DEF Next
<1> QED
  BY <1>1, <1>2, DecisionsKept, ContractInit, ContractStep, PTL
  DEF Spec, HonoursContract, Contract!Spec
=============================================================================
