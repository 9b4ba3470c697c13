------------------------------- MODULE Storage -------------------------------
(***************************************************************************)
(* The directory of one run and the processes that write it: run and _run  *)
(* of src/dialectica/workflow.py with journal_lock, _atomic_write, persist,*)
(* load and record_usage of src/dialectica/workflow_journal.py.  A host    *)
(* takes the run's lock (it never waits for it), reads the snapshot,       *)
(* appends billing receipts and replaces the snapshot through a temporary  *)
(* file.  Every file operation may fail, and a process may die between any *)
(* two of them.                                                            *)
(*                                                                         *)
(* Simplifications: every step modelled leaves external effects; which     *)
(* entries a lookup or a changed fingerprint drops (module Journal) is any *)
(* subset; persist runs to its end without an await, so a host's memory    *)
(* does not change while its file is being written.                        *)
(***************************************************************************)
EXTENDS Naturals

CONSTANTS Hosts,      \* processes that may start or resume the run
          Steps,      \* the run's steps
          Nobody,     \* no host
          MaxLeft     \* bound: temporary files left behind

ASSUME NobodyAssumption == Nobody \notin Hosts
ASSUME LeftAssumption == MaxLeft \in Nat

VARIABLES
  run,        \* "none", "named" (id drawn, no directory yet) or "there"
  owner,      \* who holds the lock of the directory
  disk,       \* journal.jsonl: [kind, marks, done]
  receipts,   \* usage.jsonl: the steps it has receipts of
  left,       \* temporary files nobody will remove
  pc,         \* what each host does
  after,      \* where a host goes when its write is over
  temp,       \* the temporary file of a host's write: none, partial, whole
  mem,        \* effectful_sequences of a host's journal
  got,        \* steps with a result among the entries of a host's journal
  call        \* the host's calls of this execution: idle, sent, paid

files == <<disk, receipts, left>>
memory == <<mem, got, call>>
vars == <<run, owner, files, pc, after, temp, memory>>

PCs == {"out", "made", "opened", "loading", "running", "creating", "filling",
        "full", "cleanup", "leaving"}

Writing == {"creating", "filling", "full", "cleanup"}
Active == Writing \cup {"running", "leaving"}

TypeOK ==
  /\ run \in {"none", "named", "there"}
  /\ owner \in Hosts \cup {Nobody}
  /\ disk \in [kind : {"absent", "whole"},
               marks : SUBSET Steps, done : SUBSET Steps]
  /\ receipts \in SUBSET Steps
  /\ left \in 0..MaxLeft
  /\ pc \in [Hosts -> PCs]
  /\ after \in [Hosts -> {"running", "leaving"}]
  /\ temp \in [Hosts -> {"none", "partial", "whole"}]
  /\ mem \in [Hosts -> SUBSET Steps]
  /\ got \in [Hosts -> SUBSET Steps]
  /\ call \in [Hosts -> [Steps -> {"idle", "sent", "paid"}]]

Idle == [s \in Steps |-> "idle"]

Init ==
  /\ run = "none"
  /\ owner = Nobody
  /\ disk = [kind |-> "absent", marks |-> {}, done |-> {}]
  /\ receipts = {}
  /\ left = 0
  /\ pc = [h \in Hosts |-> "out"]
  /\ after = [h \in Hosts |-> "running"]
  /\ temp = [h \in Hosts |-> "none"]
  /\ mem = [h \in Hosts |-> {}]
  /\ got = [h \in Hosts |-> {}]
  /\ call = [h \in Hosts |-> Idle]

Goes(h, to) == pc' = [pc EXCEPT ![h] = to]

-----------------------------------------------------------------------------
(* Taking the run. *)

(* A new run: the journal is made in memory under a fresh id. *)
Create(h) ==
  /\ run = "none" /\ pc[h] = "out"
  /\ run' = "named"
  /\ mem' = [mem EXCEPT ![h] = {}]
  /\ got' = [got EXCEPT ![h] = {}]
  /\ Goes(h, "made")
  /\ UNCHANGED <<owner, files, after, temp, call>>

(* journal_lock makes the directory and opens .lock in it; from then on    *)
(* others can find the run.                                                *)
OpenLock(h) ==
  /\ pc[h] = "made"
  /\ run' = "there"
  /\ Goes(h, "opened")
  /\ UNCHANGED <<owner, files, after, temp, memory>>

(* flock(LOCK_EX | LOCK_NB) is granted only while nobody holds the lock. *)
Free_Blind == TRUE
Free == owner = Nobody

LockFresh(h) ==
  /\ pc[h] = "opened" /\ Free
  /\ owner' = h
  /\ Goes(h, "running")
  /\ UNCHANGED <<run, files, after, temp, memory>>

(* JournalBusyError: somebody tried to resume the run before it began. *)
FreshBusy(h) ==
  /\ pc[h] = "opened" /\ ~Free
  /\ Goes(h, "out")
  /\ UNCHANGED <<run, owner, files, after, temp, memory>>

(* Workflow.run of a resume: the lock comes before the load. *)
Resume(h) ==
  /\ run = "there" /\ pc[h] = "out" /\ Free
  /\ owner' = h
  /\ Goes(h, "loading")
  /\ UNCHANGED <<run, files, after, temp, memory>>

(* RunJournal.load and create: the effect marks of the snapshot are kept,  *)
(* its entries only under equal fingerprints.                              *)
Load_Forgets(h, kept) ==
  /\ pc[h] = "loading" /\ disk.kind = "whole"
  /\ mem' = [mem EXCEPT ![h] = kept]
  /\ got' = [got EXCEPT ![h] = kept]
  /\ Goes(h, "running")
  /\ UNCHANGED <<run, owner, files, after, temp, call>>

Load(h, kept) ==
  /\ pc[h] = "loading" /\ disk.kind = "whole"
  /\ mem' = [mem EXCEPT ![h] = disk.marks]
  /\ got' = [got EXCEPT ![h] = kept]
  /\ Goes(h, "running")
  /\ UNCHANGED <<run, owner, files, after, temp, call>>

(* "legacy or damaged journal cannot safely resume" *)
LoadFails(h) ==
  /\ pc[h] = "loading" /\ disk.kind # "whole"
  /\ owner' = Nobody
  /\ Goes(h, "out")
  /\ UNCHANGED <<run, files, after, temp, memory>>

-----------------------------------------------------------------------------
(* The calls of agent() of a host that has the run. *)

Persist(h, then) ==
  /\ Goes(h, "creating")
  /\ after' = [after EXCEPT ![h] = then]

(* The intent: the suffix is dropped, the effect marked, the journal saved. *)
Dispatch(h, s, kept) ==
  /\ pc[h] = "running" /\ call[h][s] = "idle"
  /\ call' = [call EXCEPT ![h] = [@ EXCEPT ![s] = "sent"]]
  /\ mem' = [mem EXCEPT ![h] = @ \cup {s}]
  /\ got' = [got EXCEPT ![h] = kept]
  /\ Persist(h, "running")
  /\ UNCHANGED <<run, owner, files, temp>>

(* record_usage appends the receipt of a call that has ended. *)
Receipt(h, s) ==
  /\ pc[h] = "running" /\ call[h][s] = "sent"
  /\ receipts' = receipts \cup {s}
  /\ call' = [call EXCEPT ![h] = [@ EXCEPT ![s] = "paid"]]
  /\ UNCHANGED <<run, owner, disk, left, pc, after, temp, mem, got>>

(* The result becomes an entry, after its receipt. *)
MayFinish_Unpaid(h, s) == call[h][s] # "idle"
MayFinish(h, s) == call[h][s] = "paid"

Finish(h, s) ==
  /\ pc[h] = "running" /\ MayFinish(h, s)
  /\ got' = [got EXCEPT ![h] = @ \cup {s}]
  /\ call' = [call EXCEPT ![h] = [@ EXCEPT ![s] = "idle"]]
  /\ Persist(h, "running")
  /\ UNCHANGED <<run, owner, files, temp, mem>>

(* The call fails or is cancelled, with or without a receipt (whose append *)
(* may fail too): an error entry is saved.                                 *)
CallError(h, s) ==
  /\ pc[h] = "running" /\ call[h][s] # "idle"
  /\ call' = [call EXCEPT ![h] = [@ EXCEPT ![s] = "idle"]]
  /\ Persist(h, "running")
  /\ UNCHANGED <<run, owner, files, temp, mem, got>>

(* The script is over: one last save, then the lock. *)
EndScript(h) ==
  /\ pc[h] = "running" /\ call[h] = Idle
  /\ Persist(h, "leaving")
  /\ UNCHANGED <<run, owner, files, temp, memory>>

Release(h) ==
  /\ pc[h] = "leaving"
  /\ owner' = Nobody
  /\ mem' = [mem EXCEPT ![h] = {}]
  /\ got' = [got EXCEPT ![h] = {}]
  /\ Goes(h, "out")
  /\ UNCHANGED <<run, files, after, temp, call>>

-----------------------------------------------------------------------------
(* persist and _atomic_write *)

MakeTemp_InPlace(h) ==
  /\ pc[h] = "creating"
  /\ temp' = [temp EXCEPT ![h] = "partial"]
  /\ disk' = [disk EXCEPT !.kind = "partial"]
  /\ Goes(h, "filling")
  /\ UNCHANGED <<run, owner, receipts, left, after, memory>>

MakeTemp(h) ==
  /\ pc[h] = "creating"
  /\ temp' = [temp EXCEPT ![h] = "partial"]
  /\ Goes(h, "filling")
  /\ UNCHANGED <<run, owner, files, after, memory>>

Fill(h) ==
  /\ pc[h] = "filling"
  /\ temp' = [temp EXCEPT ![h] = "whole"]
  /\ Goes(h, "full")
  /\ UNCHANGED <<run, owner, files, after, memory>>

(* os.replace: the temporary file becomes the snapshot. *)
Content(h) == [kind |-> temp[h], marks |-> mem[h], done |-> got[h]]

Replace(h) ==
  /\ pc[h] = "full"
  /\ disk' = Content(h)
  /\ temp' = [temp EXCEPT ![h] = "none"]
  /\ Goes(h, after[h])
  /\ UNCHANGED <<run, owner, receipts, left, after, memory>>

(* OSError before there is a temporary file, or while there is one: the    *)
(* exception passes through agent() and the script goes on or ends.        *)
WriteFails(h) ==
  /\ pc[h] \in {"creating", "filling", "full"}
  /\ Goes(h, IF pc[h] = "creating" THEN after[h] ELSE "cleanup")
  /\ UNCHANGED <<run, owner, files, after, temp, memory>>

(* The finally clause removes the temporary file, unless that fails too. *)
Cleanup(h, removed) ==
  /\ pc[h] = "cleanup"
  /\ left' = IF removed THEN left ELSE left + 1
  /\ left' <= MaxLeft
  /\ temp' = [temp EXCEPT ![h] = "none"]
  /\ Goes(h, after[h])
  /\ UNCHANGED <<run, owner, disk, receipts, after, memory>>

(* The process dies: the system drops its lock, its file stays. *)
Die(h) ==
  /\ pc[h] # "out"
  /\ left' = IF temp[h] = "none" THEN left ELSE left + 1
  /\ left' <= MaxLeft
  /\ owner' = IF owner = h THEN Nobody ELSE owner
  /\ temp' = [temp EXCEPT ![h] = "none"]
  /\ mem' = [mem EXCEPT ![h] = {}]
  /\ got' = [got EXCEPT ![h] = {}]
  /\ call' = [call EXCEPT ![h] = Idle]
  /\ Goes(h, "out")
  /\ UNCHANGED <<run, disk, receipts, after>>

Start(h) == Create(h) \/ OpenLock(h) \/ LockFresh(h) \/ FreshBusy(h)
            \/ Resume(h) \/ LoadFails(h)
            \/ \E kept \in SUBSET disk.done : Load(h, kept)

Work(h) == \/ EndScript(h)
           \/ Release(h)
           \/ \E s \in Steps :
                \/ \E kept \in SUBSET (got[h] \ {s}) : Dispatch(h, s, kept)
                \/ Receipt(h, s) \/ Finish(h, s) \/ CallError(h, s)

Write(h) == \/ MakeTemp(h) \/ Fill(h) \/ Replace(h) \/ WriteFails(h)
            \/ \E removed \in BOOLEAN : Cleanup(h, removed)

Next == \E h \in Hosts : Start(h) \/ Work(h) \/ Write(h) \/ Die(h)

Spec == Init /\ [][Next]_vars

-----------------------------------------------------------------------------
(* Whoever has a run's journal in memory to save it has, at least, every   *)
(* effect mark the snapshot shows: no save of one host can undo another's  *)
(* (journal_lock around load and persist).                                 *)
MemoryCurrent == \A h \in Hosts : pc[h] \in Active => disk.marks \subseteq mem[h]

(* A result that a resumed run may reuse has its billing receipt on disk,  *)
(* however the process that wrote them ended (record_usage comes before    *)
(* the entry is appended and saved).                                       *)
ReceiptsFirst == disk.done \subseteq receipts

(* The directory with its lock and its temporary files is a run store: see *)
(* RunStore for the promise.                                               *)
RS == INSTANCE RunStore WITH saved <- disk.kind, shown <- disk.marks
Implements == RS!Spec
=============================================================================
