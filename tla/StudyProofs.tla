----------------------------- MODULE StudyProofs -----------------------------
(***************************************************************************)
(* Theorems about how src/evals measures and compares: a returned receipt  *)
(* is final (module Measure, for any arms, any number of tasks and any     *)
(* usage), and a comparison's winner is everybody's (module Verdicts, for  *)
(* any panel).                                                             *)
(***************************************************************************)
EXTENDS Measure, Verdicts, FiniteSetTheorems, TLAPS

MeasureSpec == MeasureInit /\ [][MeasureNext]_measureVars

(* The counters but for the open records. *)
Counted(r) == <<r.calls, r.failures, r.unknown, r.tokens>>

Counters == [calls : Int, failures : Int, unknown : Int, tokens : Int, open : Int]

MeasureTypes ==
  /\ arm \in [Arms -> {"running", "draining", "returned", "cancelled"}]
  /\ active \in [Arms -> BOOLEAN]
  /\ error \in [Arms -> {"None", "Error", "UnjoinedArmCalls"}]
  /\ receipt \in [Arms -> Counters]
  /\ truth \in [Arms -> Counters]
  /\ task \in [Tasks -> {"idle", "calling", "gone"}]
  /\ stopped \in [Tasks -> BOOLEAN]

(* The books agree but for the calls under way. *)
Booked ==
  \A a \in Arms :
    /\ Counted(receipt[a]) = Counted(truth[a])
    /\ truth[a].open = 0
    /\ receipt[a].open = Cardinality(InCall(a))

(* After run() nothing is let in, and what is under way is being stopped. *)
Shut ==
  \A a \in Arms :
    /\ arm[a] # "running" => ~active[a]
    /\ arm[a] = "draining" => \A t \in InCall(a) : stopped[t]
    /\ arm[a] = "returned" => InCall(a) = {}
    /\ \A t \in Tasks : ArmOf[t] = a /\ stopped[t] =>
         arm[a] # "running" /\ error[a] = "UnjoinedArmCalls"

MInv == MeasureTypes /\ Booked /\ Shut

LEMMA InCallFinite == \A a \in Arms : IsFiniteSet(InCall(a))
<1>1. \A a \in Arms : InCall(a) \subseteq Tasks
  BY DEF InCall
<1> QED BY <1>1, FS_Subset, MeasureAssumption

LEMMA MeasureStart == MeasureInit => MInv
<1> SUFFICES ASSUME MeasureInit PROVE MInv
  OBVIOUS
<1>1. MeasureTypes
  BY DEF MeasureInit, MeasureTypes, Empty, Counters
<1>2. \A a \in Arms : InCall(a) = {}
  BY DEF MeasureInit, InCall
<1>3. Booked
  BY <1>2, FS_EmptySet DEF MeasureInit, Booked, Counted, Empty
<1>4. Shut
  BY <1>2 DEF MeasureInit, Shut
<1> QED BY <1>1, <1>3, <1>4 DEF MInv

LEMMA MeasureFrame ==
  ASSUME MInv, UNCHANGED <<arm, active, error, receipt, task, stopped, truth>>
  PROVE  MInv'
<1>1. \A a \in Arms : InCall(a)' = InCall(a)
  BY DEF InCall
<1>2. MeasureTypes'
  BY DEF MInv, MeasureTypes
<1>3. Booked'
  BY <1>1 DEF MInv, Booked, Counted
<1>4. Shut'
  BY <1>1 DEF MInv, Shut
<1> QED BY <1>2, <1>3, <1>4 DEF MInv

-----------------------------------------------------------------------------
(* The calls. *)

(* When the only task that moves belongs to another arm, the calls of an   *)
(* arm stay.                                                               *)
LEMMA OthersInCall ==
  ASSUME NEW t \in Tasks, NEW v, MeasureTypes,
         task' = [task EXCEPT ![t] = v], NEW a \in Arms
  PROVE  InCall(a)' = IF ArmOf[t] # a THEN InCall(a)
                      ELSE IF v = "calling" THEN InCall(a) \cup {t}
                      ELSE InCall(a) \ {t}
<1>1. task \in [Tasks -> {"idle", "calling", "gone"}]
  BY DEF MeasureTypes
<1>2. \A u \in Tasks : task'[u] = IF u = t THEN v ELSE task[u]
  BY <1>1
<1> QED BY <1>2 DEF InCall

LEMMA BeginStep ==
  ASSUME MInv, NEW t \in Tasks, BeginCall(t) PROVE MInv'
<1> DEFINE a == ArmOf[t]
<1>0. a \in Arms /\ MeasureTypes /\ task[t] = "idle" /\ t \notin InCall(a)
  BY MeasureAssumption DEF MInv, BeginCall, InCall
<1>1. UNCHANGED <<arm, active, error, stopped>>
  BY DEF BeginCall
<1>2. CASE /\ Open(t)
           /\ receipt' = [receipt EXCEPT ![a].calls = @ + 1, ![a].open = @ + 1]
           /\ truth' = [truth EXCEPT ![a].calls = @ + 1]
           /\ task' = [task EXCEPT ![t] = "calling"]
  <2>1. MeasureTypes'
    BY <1>0, <1>1, <1>2 DEF MeasureTypes, Counters
  <2>2. \A b \in Arms : InCall(b)' = IF a = b THEN InCall(b) \cup {t}
                                     ELSE InCall(b)
    BY <1>0, <1>2, OthersInCall
  <2>3. Cardinality(InCall(a)') = Cardinality(InCall(a)) + 1
    BY <1>0, <2>2, InCallFinite, FS_AddElement
  <2>4. \A b \in Arms : b # a => receipt'[b] = receipt[b] /\ truth'[b] = truth[b]
    BY <1>0, <1>2 DEF MeasureTypes
  <2>5. /\ receipt'[a] = [receipt[a] EXCEPT !.calls = @ + 1, !.open = @ + 1]
        /\ truth'[a] = [truth[a] EXCEPT !.calls = @ + 1]
    BY <1>0, <1>2 DEF MeasureTypes, Counters
  <2>6. receipt[a] \in Counters /\ truth[a] \in Counters
    BY <1>0 DEF MeasureTypes
  <2>7. /\ Counted(receipt'[a]) = Counted(truth'[a])
        /\ truth'[a].open = 0
        /\ receipt'[a].open = Cardinality(InCall(a)')
    <3>1. /\ Counted(receipt[a]) = Counted(truth[a]) /\ truth[a].open = 0
          /\ receipt[a].open = Cardinality(InCall(a))
      BY <1>0 DEF MInv, Booked
    <3> QED BY <2>3, <2>5, <2>6, <3>1 DEF Counters, Counted
  <2>8. Booked'
    <3> SUFFICES ASSUME NEW b \in Arms
                 PROVE  /\ Counted(receipt'[b]) = Counted(truth'[b])
                        /\ truth'[b].open = 0
                        /\ receipt'[b].open = Cardinality(InCall(b)')
      BY DEF Booked, Counted
    <3>1. CASE b = a
      BY <2>7, <3>1
    <3>2. CASE b # a
      BY <2>2, <2>4, <3>2 DEF MInv, Booked
    <3> QED BY <3>1, <3>2
  <2>9. Shut'
    <3>1. arm[a] = "running"
      BY <1>0, <1>2 DEF MInv, MeasureTypes, Shut, Open
    <3> QED BY <1>0, <1>1, <2>2, <3>1 DEF MInv, Shut
  <2> QED BY <2>1, <2>8, <2>9 DEF MInv
<1>3. CASE ~Open(t) /\ UNCHANGED <<receipt, truth, task>>
  BY <1>1, <1>3, MeasureFrame
<1> QED BY <1>2, <1>3 DEF BeginCall

LEMMA BillFields ==
  ASSUME NEW r \in Counters, NEW f \in Int, NEW u \in Int, NEW n \in Int
  PROVE  /\ Bill(r, f, u, n) \in Counters
         /\ Bill(r, f, u, n).open = r.open
         /\ Counted(Bill(r, f, u, n))
              = <<r.calls, r.failures + f, r.unknown + u, r.tokens + n>>
<1> DEFINE b == Bill(r, f, u, n)
<1>0. b = [calls |-> r.calls, failures |-> r.failures + f,
           unknown |-> r.unknown + u, tokens |-> r.tokens + n, open |-> r.open]
  BY DEF Bill
<1> HIDE DEF b
<1>1. b \in Counters
  BY <1>0 DEF Counters
<1>2. /\ b.calls = r.calls /\ b.failures = r.failures + f /\ b.open = r.open
      /\ b.unknown = r.unknown + u /\ b.tokens = r.tokens + n
  BY <1>0
<1> QED BY <1>1, <1>2 DEF Counted, b

LEMMA ClosedFields ==
  ASSUME NEW r \in Counters
  PROVE  /\ Closed(r) \in Counters /\ Closed(r).open = r.open - 1
         /\ Counted(Closed(r)) = Counted(r)
BY DEF Closed, Counters, Counted

LEMMA BillSame ==
  ASSUME NEW r \in Counters, NEW s \in Counters, Counted(r) = Counted(s),
         NEW f \in Int, NEW u \in Int, NEW n \in Int
  PROVE  Counted(Bill(Closed(r), f, u, n)) = Counted(Bill(s, f, u, n))
<1> DEFINE q == Closed(r)
<1>1. q \in Counters /\ Counted(q) = Counted(s)
  BY ClosedFields
<1> HIDE DEF q
<1>2. /\ q.calls = s.calls /\ q.failures = s.failures
      /\ q.unknown = s.unknown /\ q.tokens = s.tokens
  BY <1>1 DEF Counted
<1>3. Counted(Bill(q, f, u, n)) = Counted(Bill(s, f, u, n))
  BY <1>1, <1>2, BillFields
<1> QED BY <1>3 DEF q

LEMMA EndStep ==
  ASSUME MInv, NEW t \in Tasks, NEW failed \in {0, 1}, NEW n \in -1..MaxTokens,
         EndCall(t, failed, n)
  PROVE  MInv'
<1> DEFINE a == ArmOf[t]
<1> DEFINE u == IF n = -1 THEN 1 ELSE 0
<1> DEFINE k == IF n = -1 THEN 0 ELSE n
<1> DEFINE billed == Bill(Closed(receipt[a]), failed, u, k)
<1> DEFINE truly == Bill(truth[a], failed, u, k)
<1>0. a \in Arms /\ MeasureTypes /\ t \in InCall(a)
  BY MeasureAssumption DEF MInv, EndCall, InCall
<1>u. u \in Int /\ k \in Int /\ failed \in Int
  BY MeasureAssumption
<1>1. /\ UNCHANGED <<arm, active, error, stopped>>
      /\ task' = [task EXCEPT ![t] = "idle"]
      /\ truth' = [truth EXCEPT ![a] = truly]
      /\ receipt' = [receipt EXCEPT ![a] = billed]
  BY Zenon DEF EndCall
<1>2. receipt[a] \in Counters /\ truth[a] \in Counters
  BY <1>0 DEF MeasureTypes
<1>c. Closed(receipt[a]) \in Counters /\ Closed(receipt[a]).open = receipt[a].open - 1
  BY <1>2, ClosedFields
<1>s. Counted(receipt[a]) = Counted(truth[a]) => Counted(billed) = Counted(truly)
  BY <1>2, <1>u, BillSame
<1>4. /\ billed \in Counters /\ truly \in Counters
      /\ billed.open = receipt[a].open - 1 /\ truly.open = truth[a].open
  BY <1>2, <1>c, <1>u, BillFields
<1> HIDE DEF billed, truly, u, k
<1>3. \A b \in Arms : /\ receipt'[b] = IF b = a THEN billed ELSE receipt[b]
                      /\ truth'[b] = IF b = a THEN truly ELSE truth[b]
  BY <1>0, <1>1 DEF MeasureTypes
<1>5. MeasureTypes'
  <2>1. receipt' \in [Arms -> Counters] /\ truth' \in [Arms -> Counters]
    BY <1>0, <1>1, <1>4 DEF MeasureTypes
  <2>2. task' \in [Tasks -> {"idle", "calling", "gone"}]
    BY <1>0, <1>1 DEF MeasureTypes
  <2> QED BY <1>0, <1>1, <2>1, <2>2 DEF MeasureTypes
<1>6. \A b \in Arms : InCall(b)' = IF a = b THEN InCall(b) \ {t} ELSE InCall(b)
  <2>1. task' = [task EXCEPT ![t] = "idle"]
    BY <1>1
  <2> SUFFICES ASSUME NEW b \in Arms
               PROVE  InCall(b)' = IF a = b THEN InCall(b) \ {t} ELSE InCall(b)
    OBVIOUS
  <2>2. InCall(b)' = IF ArmOf[t] # b THEN InCall(b)
                     ELSE IF "idle" = "calling" THEN InCall(b) \cup {t}
                     ELSE InCall(b) \ {t}
    BY <1>0, <2>1, OthersInCall
  <2> QED BY <2>2
<1>7. Cardinality(InCall(a)') = Cardinality(InCall(a)) - 1
  BY <1>0, <1>6, InCallFinite, FS_RemoveElement
<1>8. /\ Counted(receipt'[a]) = Counted(truth'[a])
      /\ truth'[a].open = 0
      /\ receipt'[a].open = Cardinality(InCall(a)')
  <2>1. /\ Counted(receipt[a]) = Counted(truth[a]) /\ truth[a].open = 0
        /\ receipt[a].open = Cardinality(InCall(a))
    BY <1>0 DEF MInv, Booked
  <2>2. receipt'[a] = billed /\ truth'[a] = truly
    BY <1>0, <1>3
  <2> QED BY <1>4, <1>7, <1>s, <2>1, <2>2
<1>9. Booked'
  <2> SUFFICES ASSUME NEW b \in Arms
               PROVE  /\ Counted(receipt'[b]) = Counted(truth'[b])
                      /\ truth'[b].open = 0
                      /\ receipt'[b].open = Cardinality(InCall(b)')
    BY DEF Booked, Counted
  <2>1. CASE b = a
    BY <1>8, <2>1
  <2>2. CASE b # a
    BY <1>3, <1>6, <2>2 DEF MInv, Booked
  <2> QED BY <2>1, <2>2
<1>10. Shut'
  BY <1>1, <1>6 DEF MInv, Shut
<1> QED BY <1>5, <1>9, <1>10 DEF MInv

-----------------------------------------------------------------------------
(* The ends of tasks and arms. *)

LEMMA TaskEndStep ==
  ASSUME MInv, NEW t \in Tasks, task[t] = "idle",
         task' = [task EXCEPT ![t] = "gone"]
  PROVE  /\ \A a \in Arms : InCall(a)' = InCall(a)
         /\ task' \in [Tasks -> {"idle", "calling", "gone"}]
<1>1. MeasureTypes /\ \A a \in Arms : t \notin InCall(a)
  BY DEF MInv, InCall
<1>2. \A a \in Arms : InCall(a)' = InCall(a)
  <2> SUFFICES ASSUME NEW a \in Arms PROVE InCall(a)' = InCall(a)
    OBVIOUS
  <2>1. InCall(a)' = IF ArmOf[t] # a THEN InCall(a) ELSE InCall(a) \ {t}
    BY <1>1, OthersInCall
  <2> QED BY <1>1, <2>1
<1>3. task' \in [Tasks -> {"idle", "calling", "gone"}]
  BY <1>1 DEF MeasureTypes
<1> QED BY <1>2, <1>3

LEMMA RunEndStep ==
  ASSUME MInv, NEW a \in Arms, NEW outcome \in {"None", "Error"},
         RunEnds(a, outcome)
  PROVE  MInv'
<1>0. MeasureTypes /\ Main[a] \in Tasks /\ arm[a] = "running"
  BY MeasureAssumption DEF MInv, RunEnds
<1>1. /\ \A b \in Arms : InCall(b)' = InCall(b)
      /\ task' \in [Tasks -> {"idle", "calling", "gone"}]
  BY <1>0, TaskEndStep DEF RunEnds
<1>2. \A b \in Arms : /\ active'[b] = IF b = a THEN FALSE ELSE active[b]
                      /\ b # a => error'[b] = error[b] /\ arm'[b] = arm[b]
  BY <1>0 DEF RunEnds, MeasureTypes
<1>3. /\ InCall(a) # {} => error'[a] = "UnjoinedArmCalls" /\ arm'[a] = "draining"
      /\ InCall(a) = {} => arm'[a] = "returned"
  BY <1>0 DEF RunEnds, MeasureTypes, Pending
<1>4. \A t \in Tasks : stopped'[t] = (stopped[t] \/ t \in InCall(a))
  BY DEF RunEnds, Pending
<1>5. MeasureTypes'
  <2>1. /\ arm' \in [Arms -> {"running", "draining", "returned", "cancelled"}]
        /\ error' \in [Arms -> {"None", "Error", "UnjoinedArmCalls"}]
    BY <1>0 DEF RunEnds, MeasureTypes
  <2>2. active' \in [Arms -> BOOLEAN]
    BY <1>0 DEF RunEnds, MeasureTypes
  <2>3. stopped' \in [Tasks -> BOOLEAN]
    BY <1>0 DEF RunEnds, MeasureTypes
  <2>4. UNCHANGED <<receipt, truth>>
    BY DEF RunEnds
  <2> QED BY <1>0, <1>1, <2>1, <2>2, <2>3, <2>4 DEF MeasureTypes
<1>6. Booked'
  BY <1>1 DEF MInv, Booked, Counted, RunEnds
<1>7. Shut'
  <2> SUFFICES ASSUME NEW b \in Arms
               PROVE  /\ arm'[b] # "running" => ~active'[b]
                      /\ arm'[b] = "draining" =>
                           \A t \in InCall(b) : stopped'[t]
                      /\ arm'[b] = "returned" => InCall(b) = {}
                      /\ \A t \in Tasks : ArmOf[t] = b /\ stopped'[t] =>
                           arm'[b] # "running" /\ error'[b] = "UnjoinedArmCalls"
    BY <1>1 DEF Shut
  <2>1. CASE b # a
    <3>1. \A t \in Tasks : ArmOf[t] = b => (stopped'[t] = stopped[t])
      BY <1>4, <2>1 DEF InCall, MInv, MeasureTypes
    <3>2. InCall(b) \subseteq Tasks /\ \A t \in InCall(b) : ArmOf[t] = b
      BY DEF InCall
    <3> QED BY <1>2, <2>1, <3>1, <3>2 DEF MInv, Shut
  <2>2. CASE b = a
    <3>1. \A t \in Tasks : ArmOf[t] = a => ~stopped[t]
      BY <1>0 DEF MInv, Shut
    <3>2. \A t \in InCall(a) : stopped'[t]
      BY <1>4 DEF InCall
    <3>3. \A t \in Tasks : ArmOf[t] = a /\ stopped'[t] => t \in InCall(a)
      BY <1>4, <3>1
    <3> QED BY <1>2, <1>3, <2>2, <3>2, <3>3
  <2> QED BY <2>1, <2>2
<1> QED BY <1>5, <1>6, <1>7 DEF MInv

LEMMA DrainStep ==
  ASSUME MInv, NEW a \in Arms, Drained(a) \/ DrainCancelled(a) PROVE MInv'
<1>0. /\ MeasureTypes /\ arm[a] = "draining"
      /\ UNCHANGED <<active, error, receipt, task, stopped, begun, truth>>
  BY DEF MInv, Drained, DrainCancelled
<1>1. /\ arm'[a] \in {"returned", "cancelled"}
      /\ \A b \in Arms : b # a => arm'[b] = arm[b]
      /\ arm' \in [Arms -> {"running", "draining", "returned", "cancelled"}]
  BY <1>0 DEF Drained, DrainCancelled, MeasureTypes
<1>2. arm'[a] = "returned" => InCall(a) = {}
  <2> SUFFICES ASSUME arm'[a] = "returned", NEW t \in InCall(a) PROVE FALSE
    OBVIOUS
  <2>1. Drained(a)
    BY <1>0, <1>1 DEF DrainCancelled, Drained, MeasureTypes
  <2>2. stopped[t] /\ t \in Tasks /\ ArmOf[t] = a /\ task[t] = "calling"
    BY <1>0 DEF MInv, Shut, InCall
  <2> QED BY <2>1, <2>2 DEF Drained
<1>3. MeasureTypes' /\ Booked'
  <2>1. \A b \in Arms : InCall(b)' = InCall(b)
    BY <1>0 DEF InCall
  <2>2. Booked'
    BY <1>0, <2>1 DEF MInv, Booked, Counted
  <2>3. MeasureTypes'
    BY <1>0, <1>1 DEF MeasureTypes
  <2> QED BY <2>2, <2>3
<1>4. Shut'
  <2>1. \A b \in Arms : InCall(b)' = InCall(b)
    BY <1>0 DEF InCall
  <2> QED BY <1>0, <1>1, <1>2, <2>1 DEF MInv, Shut
<1> QED BY <1>3, <1>4 DEF MInv

LEMMA MeasureStep == MInv /\ [MeasureNext]_measureVars => MInv'
<1> SUFFICES ASSUME MInv, [MeasureNext]_measureVars PROVE MInv'
  OBVIOUS
<1>1. ASSUME NEW t \in Tasks, BeginCall(t) PROVE MInv'
  BY <1>1, BeginStep
<1>2. ASSUME NEW t \in Tasks, NEW f \in {0, 1}, NEW n \in -1..MaxTokens,
             EndCall(t, f, n)
      PROVE  MInv'
  BY <1>2, EndStep
<1>3. ASSUME NEW t \in Tasks, TaskEnds(t) PROVE MInv'
  <2>1. /\ \A a \in Arms : InCall(a)' = InCall(a)
        /\ task' \in [Tasks -> {"idle", "calling", "gone"}]
    BY <1>3, TaskEndStep DEF TaskEnds
  <2> QED BY <1>3, <2>1 DEF TaskEnds, MInv, MeasureTypes, Booked, Shut, Counted
<1>4. ASSUME NEW a \in Arms, NEW o \in {"None", "Error"}, RunEnds(a, o)
      PROVE  MInv'
  BY <1>4, RunEndStep
<1>5. ASSUME NEW a \in Arms, Drained(a) \/ DrainCancelled(a) PROVE MInv'
  BY <1>5, DrainStep
<1>6. CASE UNCHANGED measureVars
  BY <1>6, MeasureFrame DEF measureVars
<1> QED BY <1>1, <1>2, <1>3, <1>4, <1>5, <1>6 DEF MeasureNext

(* Whatever tasks run() leaves behind and however they end, the receipt    *)
(* that measure_arm returns is the whole account of its arm.               *)
THEOREM ReceiptIsFinal == MeasureSpec => []ReceiptFinal
<1>1. MInv => ReceiptFinal
  <2> SUFFICES ASSUME MInv, NEW a \in Arms, arm[a] = "returned"
               PROVE  /\ InCall(a) = {} /\ receipt[a] = truth[a]
                      /\ (\E t \in Tasks : ArmOf[t] = a /\ stopped[t]) =>
                           error[a] = "UnjoinedArmCalls"
    BY DEF ReceiptFinal
  <2>1. InCall(a) = {}
    BY DEF MInv, Shut
  <2>2. receipt[a].open = 0 /\ truth[a].open = 0
    BY <2>1, FS_EmptySet DEF MInv, Booked
  <2>3. Counted(receipt[a]) = Counted(truth[a])
    BY DEF MInv, Booked
  <2>4. receipt[a] \in Counters /\ truth[a] \in Counters
    BY DEF MInv, MeasureTypes
  <2>5. receipt[a] = truth[a]
    BY <2>2, <2>3, <2>4 DEF Counters, Counted
  <2> QED BY <2>1, <2>5 DEF MInv, Shut
<1> QED BY <1>1, MeasureStart, MeasureStep, PTL DEF MeasureSpec
-----------------------------------------------------------------------------
(***************************************************************************)
(* The comparisons of answers.                                             *)
(***************************************************************************)
VerdictsSpec == VerdictsInit /\ [][VerdictsNext]_verdictVars

(* A judge's recorded family is the one it was declared to have. *)
Calibrations ==
  /\ DOMAIN family = DOMAIN calibrated /\ DOMAIN family \subseteq Judges
  /\ \A j \in DOMAIN family : family[j] = Declared[j] \/ family[j] = "None"
  /\ vpc \in {"judge", "next", "done"} => DOMAIN family = Judges

Heard == DOMAIN said \subseteq Judges /\ \A j \in DOMAIN said : said[j] \in Pairs

Unanimous(w) ==
  \A j \in Judges :
    /\ calibrated[j] /\ family[j] = Declared[j]
    /\ \A i \in Judges \ {j} : family[i] # family[j]
    /\ said[j] = CASE w = "candidate" -> <<"A", "B">>
                   [] w = "baseline" -> <<"B", "A">>
                   [] w = "tie" -> <<"tie", "tie">>

Panel == vpc \in {"next", "done"} /\ comparison.status = "valid" =>
           Unanimous(comparison.winner)

(* A judge that names one position only has made nothing but ties. *)
Blind ==
  /\ letters \subseteq Letters
  /\ heard = <<>> \/ \E v \in letters : heard = <<v>>
  /\ tally \in [engine : Nat, baseline : Nat, tie : Nat]
  /\ letters \subseteq {"A"} \/ letters \subseteq {"B"} =>
       tally.engine = 0 /\ tally.baseline = 0

AllCompared == vpc = "done" => Len(known) + unknown = Repeats

VInv == Calibrations /\ Heard /\ Panel /\ Blind /\ AllCompared

LEMMA ResultValid ==
  ASSUME NEW p \in Pairs, Result(p).status = "valid"
  PROVE  p = CASE Result(p).winner = "candidate" -> <<"A", "B">>
               [] Result(p).winner = "baseline" -> <<"B", "A">>
               [] Result(p).winner = "tie" -> <<"tie", "tie">>
<1>1. PICK a \in Said, b \in Said : p = <<a, b>>
  BY DEF Pairs, Result
<1>2. p # <<"failed">> /\ p[1] = a /\ p[2] = b
  BY <1>1
<1>3. a \in Letters /\ b \in Letters /\ First(a) = Second(b)
      /\ Result(p) = [status |-> "valid", winner |-> First(a)]
  BY <1>2 DEF Result, Said
<1>4. CASE a = "A"
  BY <1>1, <1>3, <1>4 DEF Letters, First, Second
<1>5. CASE a = "B"
  BY <1>1, <1>3, <1>5 DEF Letters, First, Second
<1>6. CASE a = "tie"
  BY <1>1, <1>3, <1>6 DEF Letters, First, Second
<1> QED BY <1>3, <1>4, <1>5, <1>6 DEF Letters

(* As many values as arguments: no two arguments share one. *)
LEMMA AllDifferent ==
  ASSUME NEW S, IsFiniteSet(S), NEW f,
         Cardinality({f[x] : x \in S}) = Cardinality(S)
  PROVE  \A x, y \in S : f[x] = f[y] => x = y
<1> DEFINE T == {f[x] : x \in S}
           g == [x \in S |-> f[x]]
<1>1. g \in Surjection(S, T)
  BY DEF Surjection
<1>2. g \in Injection(S, T)
  BY <1>1, FS_Surjection
<1>3. \A x, y \in S : g[x] = g[y] => x = y
  BY <1>2 DEF Injection, IsInjective
<1> QED BY <1>3

LEMMA FiniteImage ==
  ASSUME NEW S, IsFiniteSet(S), NEW f
  PROVE  IsFiniteSet({f[x] : x \in S})
<1> DEFINE T == {f[x] : x \in S}
           g == [x \in S |-> f[x]]
<1>1. g \in Surjection(S, T)
  BY DEF Surjection
<1> QED BY <1>1, FS_Surjection

LEMMA VerdictsStart == VerdictsInit => VInv
<1> SUFFICES ASSUME VerdictsInit PROVE VInv
  OBVIOUS
<1>1. Calibrations /\ Heard /\ Panel /\ AllCompared
  BY DEF VerdictsInit, Calibrations, Heard, Panel, AllCompared
<1>2. Blind
  BY DEF VerdictsInit, Blind
<1> QED BY <1>1, <1>2 DEF VInv

LEMMA CalibrateStep ==
  ASSUME VInv, NEW j \in Judges, NEW p \in Pairs, NEW f \in Families,
         Calibrate(j, p, f)
  PROVE  VInv'
<1>1. /\ vpc = "calibrate" /\ vpc' \in {"calibrate", "judge"}
      /\ DOMAIN calibrated' = DOMAIN calibrated \cup {j}
      /\ DOMAIN family' = DOMAIN family \cup {j}
      /\ family'[j] = Declared[j] \/ family'[j] = "None"
      /\ \A i \in DOMAIN family : i # j => family'[i] = family[i]
      /\ vpc' = "judge" => DOMAIN calibrated' = Judges
  BY DEF Calibrate, Put
<1>2. Calibrations'
  BY <1>1 DEF VInv, Calibrations
<1>3. (Heard /\ Panel /\ Blind /\ AllCompared)'
  BY <1>1 DEF VInv, Heard, Panel, Blind, AllCompared, Calibrate
<1> QED BY <1>2, <1>3 DEF VInv

LEMMA JudgedStep ==
  ASSUME VInv, NEW j \in Judges, NEW p \in Pairs, Judge(j, p)
  PROVE  VInv'
<1>1. /\ DOMAIN said' = DOMAIN said \cup {j} /\ said'[j] = p
      /\ \A i \in DOMAIN said : i # j => said'[i] = said[i]
  BY DEF Judge, Put
<1>2. Heard'
  BY <1>1 DEF VInv, Heard
<1>3. (Calibrations /\ Panel /\ Blind /\ AllCompared)'
  BY DEF VInv, Calibrations, Panel, Blind, AllCompared, Judge
<1> QED BY <1>2, <1>3 DEF VInv

LEMMA ComparedStep ==
  ASSUME VInv, NEW o \in [Judges -> Families],
         NEW s \in {"sound", "generation_failed", "grounding_failed"},
         Compare(o, s)
  PROVE  VInv'
<1> DEFINE now == [j \in Judges |-> IF o[j] = family[j] THEN family[j] ELSE "None"]
           results == [j \in Judges |-> Result(said[j])]
           winners == {results[j].winner : j \in Judges}
<1>1. /\ vpc = "judge" /\ DOMAIN said = Judges /\ vpc' \in {"next", "done"}
      /\ UNCHANGED <<calibrated, family, said, heard, letters, tally>>
      /\ vpc' = "done" => Len(known') + unknown' = Repeats
      /\ comparison' = IF s # "sound" THEN NoWinner(s)
                       ELSE AggregateJudges(results, calibrated, now)
  BY DEF Compare
<1>2. ASSUME comparison'.status = "valid" PROVE Unanimous(comparison'.winner)
  <2>1. comparison' = AggregateJudges(results, calibrated, now)
    BY <1>1, <1>2 DEF NoWinner
  <2>2. /\ \A j \in Judges : calibrated[j]
        /\ \A j \in Judges : now[j] # "None"
        /\ Cardinality({now[j] : j \in Judges}) = Cardinality(Judges)
        /\ \A j \in Judges : results[j].status = "valid"
        /\ Cardinality(winners) = 1
        /\ comparison'.winner = CHOOSE w \in winners : TRUE
    <3> HIDE DEF now, results
    <3> QED BY <1>2, <2>1 DEF AggregateJudges, NoWinner
  <2>3. \A j \in Judges : now[j] = family[j] /\ family[j] = Declared[j]
    BY <1>1, <2>2 DEF VInv, Calibrations
  <2>4. \A i, j \in Judges : family[i] = family[j] => i = j
    <3>1. \A i, j \in Judges : now[i] = now[j] => i = j
      <4> HIDE DEF now
      <4> QED BY <2>2, AllDifferent, VerdictsAssumption
    <3> QED BY <2>3, <3>1
  <2>5. \A j \in Judges : results[j].winner = comparison'.winner
    <3> DEFINE win == [j \in Judges |-> results[j].winner]
               wins == {win[j] : j \in Judges}
    <3>0. wins = winners
      BY DEF win
    <3>1. IsFiniteSet(wins)
      <4> HIDE DEF win
      <4> QED BY FiniteImage, VerdictsAssumption
    <3>2. PICK w : wins = {w}
      <4>1. Cardinality(wins) = 1
        BY <2>2, <3>0
      <4> HIDE DEF wins
      <4> QED BY <3>1, <4>1, FS_Singleton
    <3>3. winners = {w}
      BY <3>0, <3>2
    <3> QED BY <2>2, <3>3
  <2>6. \A j \in Judges : said[j] \in Pairs /\ results[j] = Result(said[j])
    BY <1>1 DEF VInv, Heard
  <2>7. \A j \in Judges : Result(said[j]).status = "valid"
                          /\ Result(said[j]).winner = comparison'.winner
    BY <2>2, <2>5, <2>6
  <2> HIDE DEF now, results, winners
  <2>8. \A j \in Judges : said[j] = CASE comparison'.winner = "candidate" -> <<"A", "B">>
                                      [] comparison'.winner = "baseline" -> <<"B", "A">>
                                      [] comparison'.winner = "tie" -> <<"tie", "tie">>
    <3> TAKE j \in Judges
    <3>1. said[j] = CASE Result(said[j]).winner = "candidate" -> <<"A", "B">>
                      [] Result(said[j]).winner = "baseline" -> <<"B", "A">>
                      [] Result(said[j]).winner = "tie" -> <<"tie", "tie">>
      BY <2>6, <2>7, ResultValid
    <3> QED BY <2>7, <3>1
  <2> QED BY <2>2, <2>3, <2>4, <2>8, Zenon DEF Unanimous
<1>3. Panel'
  BY <1>1, <1>2 DEF Panel, Unanimous
<1>4. (Calibrations /\ Heard /\ Blind /\ AllCompared)'
  BY <1>1 DEF VInv, Calibrations, Heard, Blind, AllCompared
<1> QED BY <1>3, <1>4 DEF VInv

LEMMA NextRepeatStep == ASSUME VInv, NextRepeat PROVE VInv'
BY DEF VInv, NextRepeat, Calibrations, Heard, Panel, Blind, AllCompared

LEMMA BlindStep ==
  ASSUME VInv, NEW v \in Letters \cup {"failed"}, BlindVerdict(v)
  PROVE  VInv'
<1>1. (Calibrations /\ Heard /\ Panel /\ AllCompared)'
  BY DEF VInv, BlindVerdict, Calibrations, Heard, Panel, AllCompared
<1>2. CASE v = "failed"
  BY <1>1, <1>2 DEF VInv, BlindVerdict, Blind
<1>3. CASE v # "failed"
  <2>1. letters' = letters \cup {v} /\ v \in Letters
    BY <1>3 DEF BlindVerdict
  <2>2. CASE heard = <<>>
    <3>1. heard' = <<v>> /\ tally' = tally
      BY <1>3, <2>2 DEF BlindVerdict
    <3>2. Blind'
      BY <2>1, <3>1 DEF VInv, Blind
    <3> QED BY <1>1, <3>2 DEF VInv
  <2>3. CASE heard # <<>>
    <3> DEFINE w == IF First(heard[1]) = Second(v) THEN First(heard[1]) ELSE "tie"
               k == IF w = "candidate" THEN "engine" ELSE w
    <3>1. PICK u \in letters : heard = <<u>>
      BY <2>3 DEF VInv, Blind
    <3>2. u \in Letters /\ u \in letters' /\ heard[1] = u
      BY <2>1, <3>1 DEF VInv, Blind
    <3>3. k \in {"engine", "baseline", "tie"} /\ (u = v /\ u # "tie" => k = "tie")
      BY <2>1, <3>2 DEF Letters, First, Second
    <3>4. tally' = [tally EXCEPT ![k] = @ + 1] /\ heard' = <<>>
      BY <1>3, <2>3 DEF BlindVerdict
    <3> HIDE DEF k
    <3>5. tally \in [engine : Nat, baseline : Nat, tie : Nat]
      BY DEF VInv, Blind
    <3>6. /\ tally' \in [engine : Nat, baseline : Nat, tie : Nat]
          /\ k = "tie" => tally'.engine = tally.engine
                          /\ tally'.baseline = tally.baseline
      BY <3>3, <3>4, <3>5
    <3>7. letters' \subseteq {"A"} \/ letters' \subseteq {"B"} => k = "tie"
      BY <2>1, <3>2, <3>3
    <3>8. letters' \subseteq {"A"} => letters \subseteq {"A"}
      BY <2>1
    <3>9. letters' \subseteq {"B"} => letters \subseteq {"B"}
      BY <2>1
    <3>10. letters' \subseteq Letters
      BY <2>1 DEF VInv, Blind
    <3>11. Blind'
      BY <3>4, <3>6, <3>7, <3>8, <3>9, <3>10 DEF VInv, Blind
    <3> QED BY <1>1, <3>11 DEF VInv
  <2> QED BY <2>2, <2>3
<1> QED BY <1>2, <1>3

LEMMA VerdictsStep == VInv /\ [VerdictsNext]_verdictVars => VInv'
<1> SUFFICES ASSUME VInv, [VerdictsNext]_verdictVars PROVE VInv'
  OBVIOUS
<1>1. CASE UNCHANGED verdictVars
  BY <1>1 DEF verdictVars, VInv, Calibrations, Heard, Panel, Unanimous, Blind,
     AllCompared
<1>2. CASE VerdictsNext
  BY <1>2, CalibrateStep, JudgedStep, ComparedStep, NextRepeatStep, BlindStep
  DEF VerdictsNext
<1> QED BY <1>1, <1>2

(* For every panel and every number of repeats: a side wins a comparison   *)
(* of evidence_eval only if every judge named it in both orders and had    *)
(* shown to be sound and of a family of its own; a blind judge that sees   *)
(* nothing but positions makes only ties.                                  *)
THEOREM PanelIsHonest == VerdictsSpec => []PanelHonest
<1>1. VInv => PanelHonest
  <2> SUFFICES ASSUME VInv PROVE PanelHonest
    OBVIOUS
  <2>1. letters \in {{"A"}, {"B"}} => tally.engine = 0 /\ tally.baseline = 0
    BY DEF VInv, Blind
  <2>2. vpc \in {"next", "done"} /\ comparison.status = "valid" =>
          Unanimous(comparison.winner)
    BY DEF VInv, Panel
  <2> QED BY <2>1, <2>2, Zenon DEF VInv, AllCompared, Unanimous, PanelHonest
<1> QED BY <1>1, VerdictsStart, VerdictsStep, PTL DEF VerdictsSpec
=============================================================================
