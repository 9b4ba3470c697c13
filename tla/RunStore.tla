------------------------------ MODULE RunStore ------------------------------
(***************************************************************************)
(* What the directory of a run promises to the hosts that execute it:      *)
(* one host at a time has the run, only that host saves, a save replaces   *)
(* the whole snapshot at once, and no mark of an external effect that a    *)
(* snapshot ever showed is missing from a later one.                       *)
(***************************************************************************)
CONSTANTS Hosts,      \* processes that may start or resume the run
          Steps,      \* steps of the run that leave external effects
          Nobody      \* no host

VARIABLES owner,      \* the host that has the run, or Nobody
          saved,      \* "absent" until the first save, then "whole"
          shown       \* the effect marks in the snapshot

vars == <<owner, saved, shown>>

Init == owner = Nobody /\ saved = "absent" /\ shown = {}

Acquire(h) == owner = Nobody /\ owner' = h /\ UNCHANGED <<saved, shown>>

(* A host gives the run back, or dies. *)
Release(h) == owner = h /\ owner' = Nobody /\ UNCHANGED <<saved, shown>>

Save(h) == /\ owner = h
           /\ saved' = "whole"
           /\ shown' \in SUBSET Steps
           /\ shown \subseteq shown'
           /\ UNCHANGED owner

Next == \E h \in Hosts : Acquire(h) \/ Release(h) \/ Save(h)

Spec == Init /\ [][Next]_vars
=============================================================================
