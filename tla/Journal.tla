------------------------------ MODULE Journal ------------------------------
(***************************************************************************)
(* The operations of a run's journal (dialectica/workflow_journal.py).     *)
(*                                                                         *)
(* A RunJournal is a record.  "entries" maps a call position to its entry  *)
(* (append keeps one entry for a position, so the Python list is a         *)
(* function here), "liveFrom" is _live_from with MaxCalls for None,        *)
(* "effectful" is effectful_sequences.  A snapshot is what persist writes: *)
(* everything but the flags "resuming" and "liveFrom", which live in       *)
(* memory only.                                                            *)
(*                                                                         *)
(* Two fields of an entry are not in the code: "run" (the execution that   *)
(* appended it, 1 for the first) and "fp" (the fingerprint that execution  *)
(* had).  They let properties say where an entry came from; no operator    *)
(* decides anything by them.  The text of a prompt and the usage copied    *)
(* into an entry are left out.                                             *)
(***************************************************************************)
EXTENDS Naturals

CONSTANTS
    MaxCalls,       \* _MAX_AGENT_CALLS: how many agent() calls a run may make
    NoKey,          \* the cache key of no entry
    NoResult,       \* Python's None as a step's result
    NoFingerprint   \* the fingerprint of no entry

ASSUME MaxCallsAssumption == MaxCalls \in Nat \ {0}

Positions == 0 .. MaxCalls - 1
Unlimited == MaxCalls                       \* _live_from is None

\* result_kind; "ok" stands for "text" and "schema", "absent" for no entry.
Kinds == {"absent", "pending", "error", "none", "ok"}

NoEntry == [kind |-> "absent", key |-> NoKey, result |-> NoResult,
            run |-> 0, fp |-> NoFingerprint]

NoEntries == [p \in Positions |-> NoEntry]

\* Mutant of InvalidateFrom: the boundary is off by one.
InvalidateFrom_OffByOne(j, s) ==
    [j EXCEPT !.liveFrom = IF s < @ THEN s ELSE @,
              !.entries  = [p \in Positions |->
                                IF p + 1 < s THEN @[p] ELSE NoEntry]]

InvalidateFrom(j, s) ==
    [j EXCEPT !.liveFrom = IF s < @ THEN s ELSE @,
              !.entries  = [p \in Positions |-> IF p < s THEN @[p] ELSE NoEntry]]

\* The entry at s may be offered for reuse to a call with cache key k.
Reusable(j, s, k) ==
    /\ s < j.liveFrom
    /\ j.entries[s].kind = "ok"
    /\ j.entries[s].key = k

Lookup(j, s, k) == IF Reusable(j, s, k) THEN j.entries[s] ELSE NoEntry

\* A lookup that misses ends the reusable prefix at s; one at or beyond the
\* end of the prefix changes nothing.
AfterLookup(j, s, k) ==
    IF s < j.liveFrom /\ ~ Reusable(j, s, k) THEN InvalidateFrom(j, s) ELSE j

AppendEntry(j, s, e) == [j EXCEPT !.entries[s] = e]

Snapshot(j) ==
    [exists |-> TRUE, entries |-> j.entries, effectful |-> j.effectful,
     terminal |-> j.terminal, fp |-> j.fp]

NoSnapshot ==
    [exists |-> FALSE, entries |-> NoEntries, effectful |-> {},
     terminal |-> "running", fp |-> NoFingerprint]

\* RunJournal.create without resume_run_id.
NewJournal(f) ==
    [entries |-> NoEntries, liveFrom |-> Unlimited, effectful |-> {},
     resuming |-> FALSE, terminal |-> "running", fp |-> f]

\* Mutant of ResumedJournal: a changed fingerprint only sets the flag.
ResumedJournal_FlagOnly(d, f) ==
    [NewJournal(f) EXCEPT !.entries = d.entries,
                          !.liveFrom = IF d.fp = f THEN Unlimited ELSE 0,
                          !.effectful = d.effectful,
                          !.resuming = TRUE]

\* RunJournal.create with resume_run_id: load, then drop every entry if the
\* script or its arguments changed.  The effectful positions and the terminal
\* state of the snapshot stay.
ResumedJournal(d, f) ==
    [entries   |-> IF d.fp = f THEN d.entries ELSE NoEntries,
     liveFrom  |-> IF d.fp = f THEN Unlimited ELSE 0,
     effectful |-> d.effectful,
     resuming  |-> TRUE,
     terminal  |-> d.terminal,
     fp        |-> f]
=============================================================================
