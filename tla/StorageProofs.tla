---------------------------- MODULE StorageProofs ----------------------------
(***************************************************************************)
(* Theorems about module Storage, for any set of hosts, any set of steps   *)
(* and any number of files left behind: the lock excludes, a host's memory *)
(* is based on the snapshot it will replace, receipts come first, and the  *)
(* directory implements RunStore.                                          *)
(***************************************************************************)
EXTENDS Storage, TLAPS

Holding == Active \cup {"loading"}
Newborn == {"made", "opened"}

(* The lock is held by exactly the host that is inside. *)
LockHeld == \A h \in Hosts : pc[h] \in Holding <=> owner = h

(* Until the host that drew the id has the lock, nobody has written. *)
NothingBefore ==
  /\ run = "none" => \A h \in Hosts : pc[h] = "out"
  /\ \A h \in Hosts : pc[h] \in Newborn =>
       /\ disk.kind = "absent"
       /\ \A g \in Hosts : g # h => pc[g] \notin Active \cup Newborn
  /\ run = "none" => disk.kind = "absent"
  /\ disk.kind = "absent" => disk.marks = {} /\ disk.done = {}

TempWritten == \A h \in Hosts : pc[h] = "full" => temp[h] = "whole"

Paid ==
  /\ \A h \in Hosts : \A s \in Steps : call[h][s] = "paid" => s \in receipts
  /\ \A h \in Hosts : got[h] \subseteq receipts
  /\ ReceiptsFirst

IInv == /\ TypeOK /\ LockHeld /\ NothingBefore /\ TempWritten
        /\ MemoryCurrent /\ Paid

LEMMA InitInvariant == Init => IInv
<1> SUFFICES ASSUME Init PROVE IInv
  OBVIOUS
<1>1. TypeOK
  BY LeftAssumption DEF Init, TypeOK, PCs, Idle
<1>2. LockHeld /\ TempWritten /\ MemoryCurrent
  BY NobodyAssumption DEF Init, LockHeld, TempWritten, MemoryCurrent, Holding,
     Active, Writing
<1>3. NothingBefore /\ Paid
  BY DEF Init, NothingBefore, Paid, ReceiptsFirst, Newborn, Active, Writing,
     Idle
<1> QED BY <1>1, <1>2, <1>3 DEF IInv

-----------------------------------------------------------------------------
(* The types, one lemma per group of actions. *)

LEMMA StartTypes ==
  ASSUME TypeOK, NEW h \in Hosts, Start(h) PROVE TypeOK'
<1>1. CASE Create(h)
  BY <1>1 DEF TypeOK, Create, Goes, files, PCs
<1>2. CASE OpenLock(h)
  BY <1>2 DEF TypeOK, OpenLock, Goes, files, memory, PCs
<1>3. CASE LockFresh(h)
  BY <1>3 DEF TypeOK, LockFresh, Goes, files, memory, PCs
<1>4. CASE FreshBusy(h)
  BY <1>4 DEF TypeOK, FreshBusy, Goes, files, memory, PCs
<1>5. CASE Resume(h)
  BY <1>5 DEF TypeOK, Resume, Goes, files, memory, PCs
<1>6. CASE LoadFails(h)
  BY <1>6 DEF TypeOK, LoadFails, Goes, files, memory, PCs
<1>7. CASE \E kept \in SUBSET disk.done : Load(h, kept)
  BY <1>7 DEF TypeOK, Load, Goes, files, PCs
<1> QED BY <1>1, <1>2, <1>3, <1>4, <1>5, <1>6, <1>7 DEF Start

LEMMA WorkTypes ==
  ASSUME TypeOK, NEW h \in Hosts, Work(h) PROVE TypeOK'
<1>1. CASE EndScript(h)
  BY <1>1 DEF TypeOK, EndScript, Persist, Goes, files, memory, PCs
<1>2. CASE Release(h)
  BY <1>2 DEF TypeOK, Release, Goes, files, PCs
<1>3. ASSUME NEW s \in Steps, NEW kept \in SUBSET got[h], Dispatch(h, s, kept)
      PROVE  TypeOK'
  BY <1>3 DEF TypeOK, Dispatch, Persist, Goes, files, PCs
<1>4. ASSUME NEW s \in Steps, Receipt(h, s) PROVE TypeOK'
  BY <1>4 DEF TypeOK, Receipt
<1>5. ASSUME NEW s \in Steps, Finish(h, s) PROVE TypeOK'
  BY <1>5 DEF TypeOK, Finish, Persist, Goes, files, PCs
<1>6. ASSUME NEW s \in Steps, CallError(h, s) PROVE TypeOK'
  BY <1>6 DEF TypeOK, CallError, Persist, Goes, files, PCs
<1> QED BY <1>1, <1>2, <1>3, <1>4, <1>5, <1>6 DEF Work

LEMMA WriteTypes ==
  ASSUME TypeOK, TempWritten, NEW h \in Hosts, Write(h) \/ Die(h)
  PROVE  TypeOK'
<1>1. CASE MakeTemp(h)
  BY <1>1 DEF TypeOK, MakeTemp, Goes, files, memory, PCs
<1>2. CASE Fill(h)
  BY <1>2 DEF TypeOK, Fill, Goes, files, memory, PCs
<1>3. CASE Replace(h)
  <2>1. Content(h).kind = "whole" /\ Content(h).marks \in SUBSET Steps
        /\ Content(h).done \in SUBSET Steps
    BY <1>3 DEF TypeOK, TempWritten, Replace, Content
  <2>2. disk' \in [kind : {"absent", "whole"},
                   marks : SUBSET Steps, done : SUBSET Steps]
    BY <1>3, <2>1 DEF Replace, Content
  <2> QED BY <1>3, <2>2 DEF TypeOK, Replace, Goes, memory, PCs
<1>4. CASE WriteFails(h)
  BY <1>4 DEF TypeOK, WriteFails, Goes, files, memory, PCs
<1>5. ASSUME NEW removed \in BOOLEAN, Cleanup(h, removed) PROVE TypeOK'
  <2>1. left' \in 0..MaxLeft
    BY <1>5, LeftAssumption DEF TypeOK, Cleanup
  <2> QED BY <1>5, <2>1 DEF TypeOK, Cleanup, Goes, memory, PCs
<1>6. CASE Die(h)
  <2>1. left' \in 0..MaxLeft
    BY <1>6, LeftAssumption DEF TypeOK, Die
  <2>2. Idle \in [Steps -> {"idle", "sent", "paid"}]
    BY DEF Idle
  <2> QED BY <1>6, <2>1, <2>2 DEF TypeOK, Die, Goes, PCs
<1> QED BY <1>1, <1>2, <1>3, <1>4, <1>5, <1>6 DEF Write

-----------------------------------------------------------------------------
(* A host moves alone: what the lock says of the others is untouched. *)

(* A step that writes nothing and makes its host neither new nor active    *)
(* leaves alone what is known before the first save.                       *)
LEMMA NothingFrame ==
  ASSUME NothingBefore, NEW h \in Hosts, disk' = disk, run' # "none",
         \A g \in Hosts : g # h => pc'[g] = pc[g],
         pc'[h] \in Newborn => pc[h] \in Newborn,
         pc'[h] \in Active => pc[h] \in Active
  PROVE  NothingBefore'
BY DEF NothingBefore

LEMMA StartInvariant ==
  ASSUME IInv, NEW h \in Hosts, Start(h) PROVE IInv'
<1> USE NobodyAssumption
<1>0. TypeOK' /\ TypeOK
  BY StartTypes DEF IInv
<1>1. LockHeld'
  BY SMTT(40), <1>0
  DEF IInv, LockHeld, TypeOK, Start, Create, OpenLock, LockFresh,
     FreshBusy, Resume, Load, LoadFails, Free, Goes, Holding, Active, Writing
<1>2. NothingBefore'
  <2>1. CASE Create(h)
    BY <1>0, <2>1 DEF IInv, NothingBefore, TypeOK, Create, Goes, files,
       Newborn, Active, Writing
  <2>2. CASE OpenLock(h)
    <3>1. disk' = disk /\ run' # "none" /\ pc[h] = "made"
      BY <2>2 DEF OpenLock, files
    <3>2. \A g \in Hosts : pc'[g] = IF g = h THEN "opened" ELSE pc[g]
      BY <1>0, <2>2 DEF TypeOK, OpenLock, Goes
    <3>3. pc'[h] \notin Active /\ pc[h] \in Newborn
      BY <3>1, <3>2 DEF Active, Writing, Newborn
    <3> QED BY <3>1, <3>2, <3>3, NothingFrame DEF IInv
  <2>5. CASE LockFresh(h)
    <3>1. pc[h] = "opened" /\ \A g \in Hosts : g # h => pc[g] \notin Newborn
      BY <2>5 DEF IInv, NothingBefore, LockFresh, Newborn
    <3>2. \A g \in Hosts : pc'[g] = IF g = h THEN "running" ELSE pc[g]
      BY <1>0, <2>5 DEF TypeOK, LockFresh, Goes
    <3>3. disk' = disk /\ run' = run
      BY <2>5 DEF LockFresh, files
    <3> QED BY <3>1, <3>2, <3>3 DEF IInv, NothingBefore, Newborn
  <2>6. CASE FreshBusy(h)
    <3>1. disk' = disk /\ run' # "none"
      BY <2>6 DEF FreshBusy, files, IInv, NothingBefore
    <3>2. \A g \in Hosts : pc'[g] = IF g = h THEN "out" ELSE pc[g]
      BY <1>0, <2>6 DEF TypeOK, FreshBusy, Goes
    <3>3. pc'[h] \notin Active \cup Newborn
      BY <3>2 DEF Active, Writing, Newborn
    <3> QED BY <3>1, <3>2, <3>3, NothingFrame DEF IInv
  <2>3. CASE Resume(h) \/ LoadFails(h)
    <3>1. disk' = disk /\ run' # "none"
      BY <2>3 DEF Resume, LoadFails, files, IInv, NothingBefore
    <3>2. /\ pc'[h] \in {"loading", "out"}
          /\ \A g \in Hosts : g # h => pc'[g] = pc[g]
      BY <1>0, <2>3 DEF TypeOK, Resume, LoadFails, Goes
    <3>3. pc'[h] \notin Active \cup Newborn
      BY <3>2 DEF Active, Writing, Newborn
    <3> QED BY <3>1, <3>2, <3>3, NothingFrame DEF IInv
  <2>4. CASE \E kept \in SUBSET disk.done : Load(h, kept)
    <3>1. disk' = disk /\ run' = run /\ disk.kind = "whole"
      BY <2>4 DEF Load, files
    <3>2. \A g \in Hosts : pc'[g] = IF g = h THEN "running" ELSE pc[g]
      BY <1>0, <2>4 DEF TypeOK, Load, Goes
    <3>3. \A g \in Hosts : pc[g] \notin Newborn
      BY <3>1 DEF IInv, NothingBefore
    <3>4. \A g \in Hosts : pc'[g] \notin Newborn
      BY <3>2, <3>3 DEF Newborn
    <3>5. run # "none"
      BY <2>4 DEF Load, IInv, NothingBefore
    <3> QED BY <3>1, <3>4, <3>5 DEF NothingBefore
  <2> QED BY <2>1, <2>2, <2>3, <2>4, <2>5, <2>6 DEF Start
<1>3. TempWritten'
  BY <1>0 DEF IInv, TempWritten, TypeOK, Start, Create, OpenLock, LockFresh,
     FreshBusy, Resume, Load, LoadFails, Goes
<1>4. MemoryCurrent'
  <2>1. CASE LockFresh(h)
    BY <1>0, <2>1 DEF IInv, MemoryCurrent, NothingBefore, TypeOK, LockFresh,
       Goes, files, memory, Newborn, Active, Writing
  <2>2. CASE Create(h) \/ OpenLock(h) \/ FreshBusy(h) \/ Resume(h)
             \/ LoadFails(h)
    BY SMTT(40), <1>0, <2>2 DEF IInv, MemoryCurrent, TypeOK, Create, OpenLock,
       FreshBusy, Resume, LoadFails, Goes, files, memory, Active, Writing
  <2>3. CASE \E kept \in SUBSET disk.done : Load(h, kept)
    BY <1>0, <2>3 DEF IInv, MemoryCurrent, TypeOK, Load, Goes, files,
       Active, Writing
  <2> QED BY <2>1, <2>2, <2>3 DEF Start
<1>5. Paid'
  BY SMTT(40), <1>0
  DEF IInv, Paid, ReceiptsFirst, TypeOK, Start, Create, OpenLock,
     LockFresh, FreshBusy, Resume, Load, LoadFails, files, memory
<1> QED BY <1>0, <1>1, <1>2, <1>3, <1>4, <1>5 DEF IInv

LEMMA WorkInvariant ==
  ASSUME IInv, NEW h \in Hosts, Work(h) PROVE IInv'
<1> USE NobodyAssumption
<1>0. TypeOK' /\ TypeOK
  BY WorkTypes DEF IInv
<1>1. LockHeld'
  BY <1>0 DEF IInv, LockHeld, TypeOK, Work, EndScript, Release, Dispatch,
     Receipt, Finish, CallError, Persist, Goes, Holding, Active, Writing
<1>2. NothingBefore'
  <2>1. pc[h] \in {"running", "leaving"} /\ disk' = disk /\ run' = run
    BY DEF Work, EndScript, Release, Dispatch, Receipt, Finish, CallError,
       files
  <2>2. \A g \in Hosts : g # h => pc'[g] = pc[g]
    BY <1>0 DEF TypeOK, Work, EndScript, Release, Dispatch, Receipt, Finish,
       CallError, Persist, Goes
  <2>3. pc'[h] \notin Newborn
    BY <1>0 DEF TypeOK, Work, EndScript, Release, Dispatch, Receipt, Finish,
       CallError, Persist, Goes, Newborn
  <2>4. \A g \in Hosts : pc[g] \notin Newborn
    BY <2>1 DEF IInv, NothingBefore, Newborn, Active
  <2> QED BY <2>1, <2>2, <2>3, <2>4 DEF IInv, NothingBefore
<1>3. TempWritten'
  BY <1>0 DEF IInv, TempWritten, TypeOK, Work, EndScript, Release, Dispatch,
     Receipt, Finish, CallError, Persist, Goes
<1>4. MemoryCurrent'
  BY SMTT(40), <1>0
  DEF IInv, MemoryCurrent, TypeOK, Work, EndScript, Release, Dispatch,
     Receipt, Finish, CallError, Persist, Goes, files, memory, Active, Writing
<1>5. Paid'
  <2>1. CASE EndScript(h) \/ Release(h)
    BY SMTT(40), <1>0, <2>1
    DEF IInv, Paid, ReceiptsFirst, TypeOK, EndScript, Release,
       Persist, files, memory
  <2>2. ASSUME NEW s \in Steps, NEW kept \in SUBSET got[h],
               Dispatch(h, s, kept)
        PROVE  Paid'
    BY <1>0, <2>2 DEF IInv, Paid, ReceiptsFirst, TypeOK, Dispatch, files
  <2>3. ASSUME NEW s \in Steps, Receipt(h, s) PROVE Paid'
    BY <1>0, <2>3 DEF IInv, Paid, ReceiptsFirst, TypeOK, Receipt
  <2>4. ASSUME NEW s \in Steps, Finish(h, s) PROVE Paid'
    BY <1>0, <2>4 DEF IInv, Paid, ReceiptsFirst, TypeOK, Finish, MayFinish,
       files
  <2>5. ASSUME NEW s \in Steps, CallError(h, s) PROVE Paid'
    BY <1>0, <2>5 DEF IInv, Paid, ReceiptsFirst, TypeOK, CallError, files
  <2> QED BY <2>1, <2>2, <2>3, <2>4, <2>5 DEF Work
<1> QED BY <1>0, <1>1, <1>2, <1>3, <1>4, <1>5 DEF IInv

LEMMA WriteInvariant ==
  ASSUME IInv, NEW h \in Hosts, Write(h) \/ Die(h) PROVE IInv'
<1> USE NobodyAssumption
<1>0. TypeOK' /\ TypeOK
  BY WriteTypes DEF IInv
<1>1. LockHeld'
  BY <1>0 DEF IInv, LockHeld, TypeOK, Write, MakeTemp, Fill, Replace,
     WriteFails, Cleanup, Die, Goes, Holding, Active, Writing
<1>2. CASE Replace(h)
  <2>1. /\ disk'.kind = "whole"
        /\ disk'.marks = mem[h] /\ disk'.done = got[h]
    BY <1>2 DEF IInv, TempWritten, Replace, Content
  <2>2. \A g \in Hosts : g # h => pc[g] \notin Active
    BY <1>2 DEF IInv, LockHeld, Replace, Holding, Active, Writing
  <2>3. \A g \in Hosts : pc[g] \notin Newborn
    BY <1>2 DEF IInv, NothingBefore, Replace, Newborn, Active, Writing
  <2>4. \A g \in Hosts : pc'[g] = IF g = h THEN after[h] ELSE pc[g]
    BY <1>0, <1>2 DEF TypeOK, Replace, Goes
  <2>5. after[h] \notin Newborn \cup {"full"} /\ run' # "none"
    BY <1>0, <1>2 DEF TypeOK, IInv, NothingBefore, Replace, Newborn
  <2>6. NothingBefore'
    BY <2>1, <2>3, <2>4, <2>5 DEF NothingBefore
  <2>7. TempWritten'
    BY <1>0, <1>2, <2>4, <2>5 DEF IInv, TempWritten, TypeOK, Replace
  <2>8. MemoryCurrent'
    <3> SUFFICES ASSUME NEW g \in Hosts, pc'[g] \in Active
                 PROVE  disk'.marks \subseteq mem'[g]
      BY DEF MemoryCurrent
    <3>1. g = h
      BY <2>2, <2>4
    <3> QED BY <1>2, <2>1, <3>1 DEF Replace, memory
  <2>9. Paid'
    BY <1>2, <2>1 DEF IInv, Paid, ReceiptsFirst, Replace, memory
  <2> QED BY <1>0, <1>1, <2>6, <2>7, <2>8, <2>9 DEF IInv
<1>3. CASE MakeTemp(h) \/ Fill(h) \/ WriteFails(h)
  <2>1. NothingBefore'
    <3>1. pc[h] \in Writing /\ disk' = disk /\ run' = run
      BY <1>3 DEF MakeTemp, Fill, WriteFails, files, Writing
    <3>2. \A g \in Hosts : g # h => pc'[g] = pc[g]
      BY <1>0, <1>3 DEF TypeOK, MakeTemp, Fill, WriteFails, Goes
    <3>a. after[h] \in {"running", "leaving"}
      BY <1>0 DEF TypeOK
    <3>b. pc'[h] \in {"filling", "full", "cleanup", after[h]}
      <4>0. pc \in [Hosts -> PCs]
        BY <1>0 DEF TypeOK
      <4>1. CASE MakeTemp(h) \/ Fill(h)
        BY <4>0, <4>1 DEF MakeTemp, Fill, Goes
      <4>2. CASE WriteFails(h)
        <5>1. PICK to \in {"cleanup", after[h]} : Goes(h, to)
          BY <4>2 DEF WriteFails
        <5> QED BY <4>0, <5>1 DEF Goes
      <4> QED BY <1>3, <4>1, <4>2
    <3>3. pc'[h] \notin Newborn
      BY <3>a, <3>b DEF Newborn
    <3>4. \A g \in Hosts : pc[g] \notin Newborn
      BY <3>1 DEF IInv, NothingBefore, Newborn, Active, Writing
    <3> QED BY <3>1, <3>2, <3>3, <3>4 DEF IInv, NothingBefore, Writing
  <2>2. TempWritten'
    <3>0. pc \in [Hosts -> PCs] /\ temp \in [Hosts -> {"none", "partial", "whole"}]
      BY <1>0 DEF TypeOK
    <3>a. after[h] # "full"
      BY <1>0 DEF TypeOK
    <3>1. CASE MakeTemp(h)
      BY <3>0, <3>1 DEF IInv, TempWritten, MakeTemp, Goes
    <3>2. CASE Fill(h)
      BY <3>0, <3>2 DEF IInv, TempWritten, Fill, Goes
    <3>3. CASE WriteFails(h)
      <4>1. PICK to \in {"cleanup", after[h]} : Goes(h, to)
        BY <3>3 DEF WriteFails
      <4> QED BY <3>0, <3>a, <3>3, <4>1 DEF IInv, TempWritten, WriteFails, Goes
    <3> QED BY <1>3, <3>1, <3>2, <3>3
  <2>3. MemoryCurrent'
    BY SMTT(40), <1>0, <1>3
    DEF IInv, MemoryCurrent, TypeOK, MakeTemp, Fill, WriteFails,
       Goes, files, memory, Active, Writing
  <2>4. Paid'
    BY <1>3 DEF IInv, Paid, ReceiptsFirst, MakeTemp, Fill, WriteFails,
       files, memory
  <2> QED BY <1>0, <1>1, <2>1, <2>2, <2>3, <2>4 DEF IInv
<1>4. ASSUME NEW removed \in BOOLEAN, Cleanup(h, removed) PROVE IInv'
  <2>1. NothingBefore'
    <3>1. disk' = disk /\ run' # "none" /\ pc[h] \in Active
      BY <1>4 DEF Cleanup, IInv, NothingBefore, Active, Writing
    <3>2. \A g \in Hosts : pc'[g] = IF g = h THEN after[h] ELSE pc[g]
      BY <1>0, <1>4 DEF TypeOK, Cleanup, Goes
    <3>3. after[h] \notin Newborn
      BY <1>0 DEF TypeOK, Newborn
    <3> QED BY <3>1, <3>2, <3>3, NothingFrame DEF IInv
  <2>2. TempWritten'
    BY <1>0, <1>4 DEF IInv, TempWritten, TypeOK, Cleanup, Goes
  <2>3. MemoryCurrent'
    BY <1>0, <1>4 DEF IInv, MemoryCurrent, TypeOK, Cleanup, Goes, memory,
       Active, Writing
  <2>4. Paid'
    BY <1>4 DEF IInv, Paid, ReceiptsFirst, Cleanup, memory
  <2> QED BY <1>0, <1>1, <2>1, <2>2, <2>3, <2>4 DEF IInv
<1>5. CASE Die(h)
  <2>1. NothingBefore'
    <3>1. disk' = disk /\ run' # "none"
      BY <1>5 DEF Die, IInv, NothingBefore
    <3>2. \A g \in Hosts : pc'[g] = IF g = h THEN "out" ELSE pc[g]
      BY <1>0, <1>5 DEF TypeOK, Die, Goes
    <3>3. pc'[h] \notin Active \cup Newborn
      BY <3>2 DEF Active, Writing, Newborn
    <3> QED BY <3>1, <3>2, <3>3, NothingFrame DEF IInv
  <2>2. TempWritten'
    BY <1>0, <1>5 DEF IInv, TempWritten, TypeOK, Die, Goes
  <2>3. MemoryCurrent'
    BY <1>0, <1>5 DEF IInv, MemoryCurrent, TypeOK, Die, Goes, Active, Writing
  <2>4. Paid'
    BY <1>0, <1>5 DEF IInv, Paid, ReceiptsFirst, TypeOK, Die, Idle
  <2> QED BY <1>0, <1>1, <2>1, <2>2, <2>3, <2>4 DEF IInv
<1> QED BY <1>2, <1>3, <1>4, <1>5 DEF Write

LEMMA NextInvariant == IInv /\ [Next]_vars => IInv'
<1> SUFFICES ASSUME IInv, [Next]_vars PROVE IInv'
  OBVIOUS
<1>1. CASE Next
  BY <1>1, StartInvariant, WorkInvariant, WriteInvariant DEF Next
<1>2. CASE UNCHANGED vars
  BY <1>2 DEF vars, files, memory, IInv, TypeOK, LockHeld, NothingBefore,
     TempWritten, MemoryCurrent, Paid, ReceiptsFirst
<1> QED BY <1>1, <1>2

THEOREM Invariance == Spec => []IInv
BY InitInvariant, NextInvariant, PTL DEF Spec

-----------------------------------------------------------------------------
(* Every reachable state of the directory and its hosts is well typed; in  *)
(* particular journal.jsonl is never half written.                         *)
THEOREM TypeCorrect == Spec => []TypeOK
<1>1. IInv => TypeOK
  BY DEF IInv
<1> QED BY <1>1, Invariance, PTL

(* No two hosts execute the run at the same time. *)
THEOREM OneHost ==
  Spec => [](\A g, h \in Hosts : pc[g] \in Active /\ pc[h] \in Active => g = h)
<1>1. IInv => \A g, h \in Hosts : pc[g] \in Active /\ pc[h] \in Active => g = h
  BY DEF IInv, LockHeld, Holding
<1> QED BY <1>1, Invariance, PTL

(* The journal a host will save shows every effect the snapshot shows. *)
THEOREM NoLostUpdate == Spec => []MemoryCurrent
<1>1. IInv => MemoryCurrent
  BY DEF IInv
<1> QED BY <1>1, Invariance, PTL

(* A reusable result on disk has its receipt on disk. *)
THEOREM ReceiptBeforeResult == Spec => []ReceiptsFirst
<1>1. IInv => ReceiptsFirst
  BY DEF IInv, Paid
<1> QED BY <1>1, Invariance, PTL

-----------------------------------------------------------------------------
(* The refinement: every step is a step of RunStore or leaves it alone. *)

LEMMA StepSimulates ==
  ASSUME IInv, NEW h \in Hosts, Start(h) \/ Work(h) \/ Write(h) \/ Die(h)
  PROVE  RS!Next \/ UNCHANGED RS!vars
<1>0. TypeOK /\ LockHeld
  BY DEF IInv
<1>1. CASE Start(h)
  <2>1. CASE LockFresh(h) \/ Resume(h)
    <3>1. RS!Acquire(h)
      BY <2>1 DEF LockFresh, Resume, Free, files, RS!Acquire
    <3> QED BY <3>1 DEF RS!Next
  <2>2. CASE LoadFails(h)
    <3>1. RS!Release(h)
      BY <1>0, <2>2 DEF LoadFails, LockHeld, Holding, files, RS!Release
    <3> QED BY <3>1 DEF RS!Next
  <2>3. CASE Create(h) \/ OpenLock(h) \/ FreshBusy(h)
             \/ \E kept \in SUBSET disk.done : Load(h, kept)
    BY <2>3 DEF Create, OpenLock, FreshBusy, Load, files, RS!vars
  <2> QED BY <1>1, <2>1, <2>2, <2>3 DEF Start
<1>2. CASE Work(h)
  <2>1. CASE Release(h)
    <3>1. RS!Release(h)
      BY <1>0, <2>1 DEF Release, LockHeld, Holding, Active, files, RS!Release
    <3> QED BY <3>1 DEF RS!Next
  <2>2. CASE ~Release(h)
    BY <1>2, <2>2 DEF Work, EndScript, Dispatch, Receipt, Finish, CallError,
       files, RS!vars
  <2> QED BY <2>1, <2>2
<1>3. CASE Write(h)
  <2>1. CASE Replace(h)
    <3>1. owner = h
      BY <1>0, <2>1 DEF Replace, LockHeld, Holding, Active, Writing
    <3>2. disk'.kind = "whole" /\ disk'.marks = mem[h]
      BY <2>1 DEF IInv, TempWritten, Replace, Content
    <3>3. disk.marks \subseteq mem[h] /\ mem[h] \in SUBSET Steps
      BY <1>0, <2>1 DEF IInv, MemoryCurrent, TypeOK, Replace, Active, Writing
    <3>4. RS!Save(h)
      BY <2>1, <3>1, <3>2, <3>3 DEF Replace, RS!Save
    <3> QED BY <3>4 DEF RS!Next
  <2>2. CASE ~Replace(h)
    BY <1>3, <2>2 DEF Write, MakeTemp, Fill, WriteFails, Cleanup, files,
       RS!vars
  <2> QED BY <2>1, <2>2
<1>4. CASE Die(h)
  <2>1. CASE owner = h
    <3>1. RS!Release(h)
      BY <1>4, <2>1 DEF Die, RS!Release
    <3> QED BY <3>1 DEF RS!Next
  <2>2. CASE owner # h
    BY <1>4, <2>2 DEF Die, RS!vars
  <2> QED BY <2>1, <2>2
<1> QED BY <1>1, <1>2, <1>3, <1>4

(* The directory with its lock and temporary files implements RunStore:    *)
(* one host at a time, whole snapshots, and effect marks that only grow.   *)
THEOREM StorageImplementsRunStore == Spec => Implements
<1>1. Init => RS!Init
  BY DEF Init, RS!Init
<1>2. IInv /\ [Next]_vars => [RS!Next]_RS!vars
  <2> SUFFICES ASSUME IInv, [Next]_vars PROVE RS!Next \/ UNCHANGED RS!vars
    OBVIOUS
  <2>1. CASE Next
    BY <2>1, StepSimulates DEF Next
  <2>2. CASE UNCHANGED vars
    BY <2>2 DEF vars, files, RS!vars
  <2> QED BY <2>1, <2>2
<1> QED BY <1>1, <1>2, Invariance, PTL DEF Spec, Implements, RS!Spec
=============================================================================
