--------------------------- MODULE RunAgentProofs ---------------------------
(***************************************************************************)
(* Theorems about RunAgent, for any number of callers and attempts, any    *)
(* retry budgets, limiter and turn limit.                                  *)
(***************************************************************************)
EXTENDS RunAgent, FiniteSetTheorems, TLAPS

-----------------------------------------------------------------------------
(***************************************************************************)
(* The tracker.  A turn without a final report is open or given up, so the *)
(* complete ones are fewer than the begun ones while a slot is open; and   *)
(* the output counts what the slot holds.                                  *)
(***************************************************************************)

TrackerOK(k) ==
    /\ k.slot <= k.output
    /\ k.complete <= k.turns
    /\ k.last = "open" => k.complete < k.turns

LEMMA NewTrackerOK == NewTracker \in Trackers /\ TrackerOK(NewTracker)
  BY DEF NewTracker, Trackers, TrackerOK

LEMMA WithTurnOK ==
  ASSUME NEW k \in Trackers, TrackerOK(k)
  PROVE  WithTurn(k) \in Trackers /\ TrackerOK(WithTurn(k))
  BY DEF WithTurn, Trackers, TrackerOK

LEMMA WithReportOK ==
  ASSUME NEW k \in Trackers, TrackerOK(k), k.last = "open",
         NEW o \in Nat, NEW final \in BOOLEAN
  PROVE  WithReport(k, o, final) \in Trackers /\ TrackerOK(WithReport(k, o, final))
  BY DEF WithReport, Trackers, TrackerOK

LEMMA NoUsageType == NoUsage \in UsageRecord
  BY DEF NoUsage, UsageRecord

LEMMA CombineType ==
  ASSUME NEW u \in UsageRecord, NEW v \in UsageRecord
  PROVE  Combine(u, v) \in UsageRecord
  BY DEF Combine, UsageRecord

LEMMA UsageOfType ==
  ASSUME NEW k \in Trackers, TrackerOK(k)
  PROVE  UsageOf(k) \in UsageRecord
  BY DEF UsageOf, UsageRecord, Trackers, TrackerOK

LEMMA NothingSpent ==
  ASSUME NEW u \in UsageRecord
  PROVE  Combine(u, UsageOf(NewTracker)) = u
  BY DEF Combine, UsageOf, NewTracker, UsageRecord

-----------------------------------------------------------------------------
(***************************************************************************)
(* A call's books.  Between attempts what was spent is what its failed     *)
(* attempts accumulated; in an attempt the tracker adds the rest; and when *)
(* the call is over, its scope says all of it.                             *)
(***************************************************************************)

Ledger(c) ==
    /\ TrackerOK(tracker[c])
    /\ pc[c] \in {"idle", "waiting", "sleeping"} => spent[c] = accumulated[c]
    /\ pc[c] = "calling" =>
           spent[c] = Combine(accumulated[c], UsageOf(tracker[c]))
    /\ pc[c] \in {"closing", "settled"} => scope[c] = spent[c]

UsageInv == TypeOK /\ \A c \in Callers : Ledger(c)

Step(c) == Start(c) \/ Proceed(c) \/ Cancel(c)

LEMMA NextStep == Next => \E c \in Callers : Step(c)
  BY DEF Next, Step

\* A step of one call leaves the books of the others alone.
LEMMA OthersUnchanged ==
  ASSUME TypeOK, NEW c \in Callers, NEW d \in Callers, d # c, Step(c)
  PROVE  /\ pc'[d] = pc[d] /\ tracker'[d] = tracker[d]
         /\ accumulated'[d] = accumulated[d]
         /\ spent'[d] = spent[d] /\ scope'[d] = scope[d]
         /\ failures'[d] = failures[d] /\ hits'[d] = hits[d]
         /\ attempts'[d] = attempts[d]
<1>1. CASE Start(c)
  BY <1>1 DEF Start, Goto, TypeOK
<1>2. CASE Attempt(c)
  BY <1>2 DEF Attempt, Goto, TypeOK
<1>3. CASE Turn(c)
  BY <1>3 DEF Turn, TypeOK
<1>4. ASSUME NEW o \in Outputs, NEW final \in BOOLEAN, Report(c, o, final)
      PROVE  /\ pc' = pc /\ tracker'[d] = tracker[d] /\ spent'[d] = spent[d]
             /\ UNCHANGED <<accumulated, scope, failures, hits, attempts>>
  BY <1>4 DEF Report, TypeOK
<1>5. CASE Succeed(c)
  BY <1>5 DEF Succeed, Leave, Goto, TypeOK
<1>6. ASSUME NEW error \in Errors, Fail(c, error)
      PROVE  /\ pc'[d] = pc[d] /\ tracker'[d] = tracker[d]
             /\ accumulated'[d] = accumulated[d] /\ scope'[d] = scope[d]
             /\ failures'[d] = failures[d] /\ hits'[d] = hits[d]
             /\ UNCHANGED <<attempts, spent>>
  <2>1. /\ tracker'[d] = tracker[d] /\ accumulated'[d] = accumulated[d]
        /\ scope'[d] = scope[d] /\ UNCHANGED <<attempts, spent>>
    BY <1>6 DEF Fail, Leave, TypeOK
  <2>2. pc'[d] = pc[d] /\ failures'[d] = failures[d] /\ hits'[d] = hits[d]
    BY ZenonT(60), <1>6 DEF Fail, Goto, TypeOK
  <2> QED
    BY <2>1, <2>2
<1>7. CASE Wake(c)
  BY <1>7 DEF Wake, Goto, TypeOK
<1>8. CASE Cancel(c)
  BY <1>8 DEF Cancel, Goto, TypeOK
<1>9. ASSUME NEW closed \in BOOLEAN, Close(c, closed)
      PROVE  /\ pc'[d] = pc[d]
             /\ UNCHANGED <<tracker, accumulated, scope, failures, hits, attempts,
                            spent>>
  BY <1>9 DEF Close, Goto, TypeOK
<1> QED
  BY <1>1, <1>2, <1>3, <1>4, <1>5, <1>6, <1>7, <1>8, <1>9 DEF Step, Proceed

LEMMA OthersLedger ==
  ASSUME TypeOK, NEW c \in Callers, NEW d \in Callers, d # c, Step(c), Ledger(d)
  PROVE  Ledger(d)'
  BY OthersUnchanged DEF Ledger

\* The usage of an attempt that ends.
LEMMA AttemptUsage ==
  ASSUME TypeOK, NEW c \in Callers, Ledger(c)
  PROVE  /\ accumulated[c] \in UsageRecord /\ tracker[c] \in Trackers
         /\ UsageOf(tracker[c]) \in UsageRecord
         /\ Combine(accumulated[c], UsageOf(tracker[c])) \in UsageRecord
  BY UsageOfType, CombineType DEF TypeOK, Ledger

LEMMA UsageInit == Init => UsageInv
  BY NewTrackerOK, NoUsageType, RetryAssumption, CallerAssumption
  DEF Init, UsageInv, TypeOK, PCs, Ledger

\* A step keeps its own call's books, and every type.
LEMMA UsageOwn ==
  ASSUME TypeOK, NEW c \in Callers, Ledger(c), Step(c)
  PROVE  TypeOK' /\ Ledger(c)'
<1>1. CASE Start(c)
  BY <1>1 DEF Start, Goto, TypeOK, PCs, Ledger
<1>2. CASE Attempt(c)
  <2>1. TypeOK'
    <3>1. limiter' \in Nat
      BY <1>2 DEF Attempt, TypeOK
    <3> QED
      BY <1>2, <3>1, NewTrackerOK DEF Attempt, Goto, TypeOK, PCs
  <2>2. spent[c] \in UsageRecord /\ spent[c] = accumulated[c]
    BY <1>2 DEF Attempt, TypeOK, Ledger
  <2>3. /\ tracker'[c] = NewTracker /\ pc'[c] = "calling"
        /\ UNCHANGED <<spent, accumulated, scope>>
    BY <1>2 DEF Attempt, Goto, TypeOK
  <2> QED
    BY <2>1, <2>2, <2>3, NewTrackerOK, NothingSpent DEF Ledger
<1>3. CASE Turn(c)
  <2>1. /\ pc[c] = "calling" /\ pc' = pc
        /\ tracker'[c] = WithTurn(tracker[c])
        /\ spent'[c] = [turns |-> spent[c].turns + 1,
                        unknown |-> spent[c].unknown + 1,
                        output |-> spent[c].output]
        /\ UNCHANGED <<accumulated, scope>>
    BY <1>3 DEF Turn, TypeOK
  <2>2. WithTurn(tracker[c]) \in Trackers /\ TrackerOK(WithTurn(tracker[c]))
    BY WithTurnOK DEF TypeOK, Ledger
  <2>3. spent'[c] = Combine(accumulated[c], UsageOf(WithTurn(tracker[c])))
    <3>1. spent[c] = Combine(accumulated[c], UsageOf(tracker[c]))
      BY <2>1 DEF Ledger
    <3> QED
      BY <2>1, <3>1, AttemptUsage
      DEF Combine, UsageOf, WithTurn, UsageRecord, Trackers
  <2>4. spent'[c] \in UsageRecord
    BY <2>2, <2>3, AttemptUsage, UsageOfType, CombineType
  <2>5. TypeOK'
    BY <1>3, <2>1, <2>2, <2>4 DEF Turn, TypeOK
  <2> QED
    BY <2>1, <2>2, <2>3, <2>5 DEF Ledger
<1>4. ASSUME NEW o \in Outputs, NEW final \in BOOLEAN, Report(c, o, final)
      PROVE  TypeOK' /\ Ledger(c)'
  <2> DEFINE n == IF final THEN 1 ELSE 0
  <2>1. /\ pc[c] = "calling" /\ pc' = pc
        /\ tracker'[c] = WithReport(tracker[c], o, final)
        /\ spent'[c] = [turns |-> spent[c].turns,
                        unknown |-> spent[c].unknown - n,
                        output |-> (spent[c].output - tracker[c].slot) + o]
        /\ UNCHANGED <<accumulated, scope>>
    BY <1>4 DEF Report, TypeOK
  <2>2. /\ WithReport(tracker[c], o, final) \in Trackers
        /\ TrackerOK(WithReport(tracker[c], o, final))
    BY <1>4, WithReportOK, RetryAssumption DEF TypeOK, Ledger, Report
  <2>3. spent'[c] = Combine(accumulated[c],
                            UsageOf(WithReport(tracker[c], o, final)))
    <3>1. spent[c] = Combine(accumulated[c], UsageOf(tracker[c]))
      BY <2>1 DEF Ledger
    <3>2. o \in Nat /\ n \in Nat
      BY RetryAssumption
    <3> HIDE DEF n
    <3>3. UsageOf(WithReport(tracker[c], o, final)) =
             [turns |-> tracker[c].turns,
              unknown |-> tracker[c].turns - (tracker[c].complete + n),
              output |-> (tracker[c].output - tracker[c].slot) + o]
      BY DEF UsageOf, WithReport, n
    <3> QED
      BY <2>1, <3>1, <3>2, <3>3, AttemptUsage
      DEF Combine, UsageOf, UsageRecord, Trackers
  <2>4. spent'[c] \in UsageRecord
    BY <2>2, <2>3, AttemptUsage, UsageOfType, CombineType
  <2>5. TypeOK'
    BY <1>4, <2>1, <2>2, <2>4 DEF Report, TypeOK
  <2> QED
    BY <2>1, <2>2, <2>3, <2>5 DEF Ledger
<1>5. CASE Succeed(c)
  <2>1. limiter' \in Nat
    BY <1>5 DEF Succeed, Leave, TypeOK
  <2>2. TypeOK'
    BY <1>5, <2>1, AttemptUsage DEF Succeed, Leave, Goto, TypeOK, PCs
  <2>3. Ledger(c)'
    BY <1>5 DEF Succeed, Leave, Goto, TypeOK, Ledger
  <2> QED
    BY <2>2, <2>3
<1>6. ASSUME NEW error \in Errors, Fail(c, error)
      PROVE  TypeOK' /\ Ledger(c)'
  <2> DEFINE total == Combine(accumulated[c], UsageOf(tracker[c]))
  <2>1. /\ pc[c] = "calling" /\ limiter' = limiter + 1
        /\ scope' = [scope EXCEPT ![c] = total]
        /\ accumulated' = [accumulated EXCEPT ![c] = total]
        /\ tracker' = [tracker EXCEPT ![c] = NewTracker]
        /\ UNCHANGED <<admitted, attempts, spent>>
    BY <1>6 DEF Fail, Leave
  <2>2. spent[c] = total /\ total \in UsageRecord
    BY <2>1, AttemptUsage DEF Ledger
  <2> HIDE DEF total
  <2>3. HitsAfter(c, error) \in Nat /\ FailuresAfter(c, error) \in Nat
    <3>1. hits[c] \in Nat /\ failures[c] \in Nat
      BY DEF TypeOK
    <3>2. HitsAfter(c, error) \in {hits[c], hits[c] + 1}
      BY Zenon DEF HitsAfter
    <3>3. FailuresAfter(c, error) \in {failures[c], failures[c] + 1}
      BY Zenon DEF FailuresAfter
    <3> QED
      BY <3>1, <3>2, <3>3
  <2>4. /\ pc' \in [Callers -> PCs] /\ hits' \in [Callers -> Nat]
        /\ failures' \in [Callers -> Nat]
        /\ outcome' \in [Callers -> {"none", "response", "error"}]
        /\ pc'[c] \in {"closing", "sleeping"}
    <3>1. /\ pc \in [Callers -> PCs] /\ hits \in [Callers -> Nat]
          /\ failures \in [Callers -> Nat]
          /\ outcome \in [Callers -> {"none", "response", "error"}]
      BY DEF TypeOK
    <3>2. CASE Fatal(c, error)
      BY <1>6, <3>1, <3>2 DEF Fail, Goto, PCs
    <3>3. CASE ~ Fatal(c, error) /\ Spent(c, error)
      BY <1>6, <2>3, <3>1, <3>3 DEF Fail, Goto, PCs
    <3>4. CASE ~ Fatal(c, error) /\ ~ Spent(c, error)
      BY <1>6, <2>3, <3>1, <3>4 DEF Fail, Goto, PCs
    <3> QED
      BY <3>2, <3>3, <3>4
  <2>5. limiter' \in Nat
    BY <2>1 DEF TypeOK
  <2>6. TypeOK'
    BY <2>1, <2>2, <2>4, <2>5, NewTrackerOK DEF TypeOK
  <2>7. /\ scope'[c] = total /\ accumulated'[c] = total
        /\ tracker'[c] = NewTracker /\ spent'[c] = total
    BY <2>1, <2>2 DEF TypeOK
  <2> QED
    BY <2>4, <2>6, <2>7, NewTrackerOK DEF Ledger
<1>7. CASE Wake(c)
  BY <1>7 DEF Wake, Goto, TypeOK, PCs, Ledger
<1>8. CASE Cancel(c)
  BY <1>8 DEF Cancel, Goto, TypeOK, PCs, Ledger
<1>9. ASSUME NEW closed \in BOOLEAN, Close(c, closed)
      PROVE  TypeOK' /\ Ledger(c)'
  BY <1>9 DEF Close, Goto, TypeOK, PCs, Ledger
<1> QED
  BY <1>1, <1>2, <1>3, <1>4, <1>5, <1>6, <1>7, <1>8, <1>9 DEF Step, Proceed

LEMMA UsageStep == UsageInv /\ [Next]_vars => UsageInv'
<1> SUFFICES ASSUME UsageInv, [Next]_vars PROVE UsageInv'
  OBVIOUS
<1>1. CASE Next
  <2>1. PICK c \in Callers : Step(c)
    BY <1>1, NextStep
  <2>2. TypeOK' /\ Ledger(c)'
    BY <2>1, UsageOwn DEF UsageInv
  <2>3. \A d \in Callers : d # c => Ledger(d)'
    BY <2>1, OthersLedger DEF UsageInv
  <2> QED
    BY <2>2, <2>3 DEF UsageInv
<1>2. CASE UNCHANGED vars
  BY <1>2 DEF vars, UsageInv, TypeOK, Ledger
<1> QED
  BY <1>1, <1>2

\* Every reachable state is well typed.
THEOREM TypeCorrect == Spec => []TypeOK
<1>1. UsageInv => TypeOK
  BY DEF UsageInv
<1> QED
  BY UsageInit, UsageStep, <1>1, PTL DEF Spec

\* However a call ends, and after whatever failed attempts, the usage it
\* reports is the usage of all its attempts.
THEOREM UsageKept == Spec => []UsageConserved
<1>1. UsageInv => UsageConserved
  BY DEF UsageInv, UsageConserved, Ledger
<1> QED
  BY UsageInit, UsageStep, <1>1, PTL DEF Spec

-----------------------------------------------------------------------------
(***************************************************************************)
(* Attempts.  A call without tools that will try again has made one        *)
(* attempt for each failure counted in its two budgets, neither of which   *)
(* is used up; the attempt that uses one up is the last.  A call with      *)
(* tools never sleeps, so that it never attempts a second time.            *)
(***************************************************************************)

BudgetsLeft(c) == failures[c] < MaxAttempts /\ hits[c] <= MaxRateLimitRetries

Retries(c) ==
    /\ c \in Tooled => /\ pc[c] # "sleeping"
                       /\ pc[c] \in {"idle", "waiting"} => attempts[c] = 0
                       /\ attempts[c] <= 1
    /\ c \notin Tooled =>
        /\ pc[c] \in {"idle", "waiting", "sleeping"} =>
               BudgetsLeft(c) /\ attempts[c] = failures[c] + hits[c]
        /\ pc[c] = "calling" =>
               BudgetsLeft(c) /\ attempts[c] = failures[c] + hits[c] + 1
        /\ attempts[c] <= MaxAttempts + MaxRateLimitRetries

RetryInv == UsageInv /\ \A c \in Callers : Retries(c)

LEMMA CountersType ==
  ASSUME TypeOK, NEW c \in Callers
  PROVE  /\ failures[c] \in Nat /\ hits[c] \in Nat /\ attempts[c] \in Nat
         /\ pc[c] \in PCs
  BY DEF TypeOK

LEMMA RetriesInit == Init => RetryInv
<1> SUFFICES ASSUME Init PROVE RetryInv
  OBVIOUS
<1>1. ASSUME NEW c \in Callers PROVE Retries(c)
  BY RetryAssumption DEF Init, Retries, BudgetsLeft
<1> QED
  BY <1>1, UsageInit DEF RetryInv

\* An attempt that ends with an answer, or by a failure that is not retried.
LEMMA RetriesLast ==
  ASSUME TypeOK, NEW c \in Callers, Retries(c), pc[c] = "calling",
         pc'[c] = "closing", attempts' = attempts
  PROVE  Retries(c)'
  BY CountersType, RetryAssumption DEF Retries

\* An attempt that failed and is retried.
LEMMA RetriesAgain ==
  ASSUME TypeOK, NEW c \in Callers, Retries(c),
         NEW error \in Errors, Fail(c, error),
         ~ Fatal(c, error), ~ Spent(c, error)
  PROVE  Retries(c)'
<1>1. /\ pc[c] = "calling" /\ pc'[c] = "sleeping" /\ attempts' = attempts
      /\ hits'[c] = HitsAfter(c, error)
      /\ failures'[c] = FailuresAfter(c, error)
  BY DEF Fail, Leave, Goto, TypeOK
<1>2. c \notin Tooled
  BY DEF Fatal
<1>3. BudgetsLeft(c) /\ attempts[c] = failures[c] + hits[c] + 1
  BY <1>1, <1>2 DEF Retries
<1>4. CASE error = "rate limit"
  <2>1. /\ HitsAfter(c, error) = hits[c] + 1 /\ ~ HitsAfter(c, error) > MaxRateLimitRetries
        /\ FailuresAfter(c, error) = failures[c]
    BY <1>4 DEF HitsAfter, FailuresAfter, Spent
  <2> QED
    BY <1>1, <1>2, <1>3, <2>1, CountersType, RetryAssumption
    DEF Retries, BudgetsLeft
<1>5. CASE error = "transient"
  <2>1. /\ HitsAfter(c, error) = hits[c]
        /\ FailuresAfter(c, error) = failures[c] + 1
        /\ ~ FailuresAfter(c, error) >= MaxAttempts
    BY <1>5 DEF HitsAfter, FailuresAfter, Spent
  <2> QED
    BY <1>1, <1>2, <1>3, <2>1, CountersType, RetryAssumption
    DEF Retries, BudgetsLeft
<1> QED
  BY <1>4, <1>5 DEF Fatal, Errors

LEMMA RetriesOwn ==
  ASSUME TypeOK, NEW c \in Callers, Retries(c), Step(c)
  PROVE  Retries(c)'
<1>1. CASE Start(c)
  BY <1>1 DEF Start, Goto, TypeOK, Retries, BudgetsLeft
<1>2. CASE Attempt(c)
  <2>1. /\ pc[c] = "waiting" /\ pc'[c] = "calling"
        /\ attempts'[c] = attempts[c] + 1 /\ UNCHANGED <<failures, hits>>
    BY <1>2 DEF Attempt, Goto, TypeOK
  <2> QED
    BY <2>1, CountersType, RetryAssumption DEF Retries, BudgetsLeft
<1>3. CASE Turn(c)
  BY <1>3 DEF Turn, Retries, BudgetsLeft
<1>4. ASSUME NEW o \in Outputs, NEW final \in BOOLEAN, Report(c, o, final)
      PROVE  Retries(c)'
  BY <1>4 DEF Report, Retries, BudgetsLeft
<1>5. CASE Succeed(c)
  <2>1. pc[c] = "calling" /\ pc'[c] = "closing" /\ attempts' = attempts
    BY <1>5 DEF Succeed, Leave, Goto, TypeOK
  <2> QED
    BY <2>1, RetriesLast
<1>6. ASSUME NEW error \in Errors, Fail(c, error)
      PROVE  Retries(c)'
  <2>1. CASE Fatal(c, error) \/ Spent(c, error)
    <3>1. pc[c] = "calling" /\ pc'[c] = "closing" /\ attempts' = attempts
      BY <1>6, <2>1 DEF Fail, Leave, Goto, TypeOK
    <3> QED
      BY <3>1, RetriesLast
  <2>2. CASE ~ Fatal(c, error) /\ ~ Spent(c, error)
    BY <1>6, <2>2, RetriesAgain
  <2> QED
    BY <2>1, <2>2
<1>7. CASE Wake(c)
  BY <1>7 DEF Wake, Goto, TypeOK, Retries, BudgetsLeft
<1>8. CASE Cancel(c)
  <2>1. pc'[c] = "closing" /\ attempts' = attempts
    BY <1>8 DEF Cancel, Goto, TypeOK
  <2> QED
    BY <2>1 DEF Retries
<1>9. ASSUME NEW closed \in BOOLEAN, Close(c, closed)
      PROVE  Retries(c)'
  <2>1. pc'[c] = "settled" /\ attempts' = attempts
    BY <1>9 DEF Close, Goto, TypeOK
  <2> QED
    BY <2>1 DEF Retries
<1> QED
  BY <1>1, <1>2, <1>3, <1>4, <1>5, <1>6, <1>7, <1>8, <1>9 DEF Step, Proceed

LEMMA RetriesStep == RetryInv /\ [Next]_vars => RetryInv'
<1> SUFFICES ASSUME RetryInv, [Next]_vars PROVE RetryInv'
  OBVIOUS
<1>1. UsageInv'
  BY UsageStep DEF RetryInv
<1>2. CASE Next
  <2>1. PICK c \in Callers : Step(c)
    BY <1>2, NextStep
  <2>2. Retries(c)'
    BY <2>1, RetriesOwn DEF RetryInv, UsageInv
  <2>3. ASSUME NEW d \in Callers, d # c PROVE Retries(d)'
    BY <2>1, <2>3, OthersUnchanged DEF RetryInv, UsageInv, Retries, BudgetsLeft
  <2> QED
    BY <1>1, <2>2, <2>3 DEF RetryInv
<1>3. CASE UNCHANGED vars
  BY <1>1, <1>3 DEF vars, RetryInv, Retries, BudgetsLeft
<1> QED
  BY <1>2, <1>3

\* Whatever mix of failures it meets, a call makes at most as many attempts as
\* its two retry budgets allow together, and one if it has tools.
THEOREM RetriesBounded == Spec => []AttemptsBounded
<1>1. RetryInv => AttemptsBounded
  BY DEF RetryInv, Retries, AttemptsBounded
<1> QED
  BY RetriesInit, RetriesStep, <1>1, PTL DEF Spec

-----------------------------------------------------------------------------
(***************************************************************************)
(* The limiter.  Its value and the callers that hold it add up in every    *)
(* step, so the invariant is inductive with the types.                     *)
(***************************************************************************)

Holders == {c \in Callers : pc[c] = "calling"}

LimiterInv == UsageInv /\ limiter + Cardinality(Holders) = LimiterSize

LEMMA HoldersFinite == IsFiniteSet(Holders) /\ Cardinality(Holders) \in Nat
  BY CallerAssumption, FS_Subset, FS_CardinalityType DEF Holders

LEMMA LimiterInit == Init => LimiterInv
<1> SUFFICES ASSUME Init PROVE LimiterInv
  OBVIOUS
<1>1. Holders = {}
  BY DEF Init, Holders
<1> QED
  BY <1>1, UsageInit, FS_EmptySet, RetryAssumption DEF Init, LimiterInv

LEMMA LimiterStep == LimiterInv /\ [Next]_vars => LimiterInv'
<1> SUFFICES ASSUME LimiterInv, [Next]_vars PROVE LimiterInv'
  OBVIOUS
<1>1. UsageInv'
  BY UsageStep DEF LimiterInv
<1>2. limiter \in Nat /\ TypeOK
  BY DEF LimiterInv, UsageInv, TypeOK
<1>3. CASE \E c \in Callers : Attempt(c)
  <2>1. PICK c \in Callers : Attempt(c)
    BY <1>3
  <2>2. Holders' = Holders \cup {c} /\ c \notin Holders /\ limiter' = limiter - 1
    BY <1>2, <2>1 DEF Attempt, Goto, Holders, TypeOK
  <2>3. Cardinality(Holders') = Cardinality(Holders) + 1
    BY <2>2, HoldersFinite, FS_AddElement
  <2> QED
    BY <1>1, <1>2, <2>2, <2>3, HoldersFinite DEF LimiterInv
<1>4. CASE \E c \in Callers : Leave(c) /\ pc' = [pc EXCEPT ![c] = pc'[c]]
                                       /\ pc'[c] # "calling"
  <2>1. PICK c \in Callers : /\ Leave(c) /\ pc' = [pc EXCEPT ![c] = pc'[c]]
                             /\ pc'[c] # "calling"
    BY <1>4
  <2>2. Holders' = Holders \ {c} /\ c \in Holders /\ limiter' = limiter + 1
    BY <1>2, <2>1 DEF Leave, Holders, TypeOK
  <2>3. Cardinality(Holders') = Cardinality(Holders) - 1
    BY <2>2, HoldersFinite, FS_RemoveElement
  <2> QED
    BY <1>1, <1>2, <2>2, <2>3, HoldersFinite, RetryAssumption DEF LimiterInv
<1>5. CASE Holders' = Holders /\ limiter' = limiter
  BY <1>1, <1>5 DEF LimiterInv
<1>6. ASSUME NEW c \in Callers, Start(c) \/ Wake(c) \/ Cancel(c)
      PROVE  Holders' = Holders /\ limiter' = limiter
  BY <1>2, <1>6 DEF Start, Wake, Cancel, Goto, Holders, TypeOK
<1>7. ASSUME NEW c \in Callers, NEW closed \in BOOLEAN, Close(c, closed)
      PROVE  Holders' = Holders /\ limiter' = limiter
  BY <1>2, <1>7 DEF Close, Goto, Holders, TypeOK
<1>8. ASSUME NEW c \in Callers, \/ Turn(c)
                                \/ \E o \in Outputs, final \in BOOLEAN :
                                       Report(c, o, final)
      PROVE  Holders' = Holders /\ limiter' = limiter
  BY <1>8 DEF Turn, Report, Holders
<1>9. ASSUME NEW c \in Callers, Succeed(c) \/ \E error \in Errors : Fail(c, error)
      PROVE  /\ Leave(c) /\ pc' = [pc EXCEPT ![c] = pc'[c]]
             /\ pc'[c] # "calling"
  BY ZenonT(60), <1>2, <1>9 DEF Succeed, Fail, Goto, TypeOK
<1>10. CASE UNCHANGED vars
  BY <1>5, <1>10 DEF vars, Holders
<1> QED
  BY <1>3, <1>4, <1>5, <1>6, <1>7, <1>8, <1>9, <1>10 DEF Next, Proceed

\* The limiter and the calls in an attempt add up: nobody keeps it while it
\* sleeps, and a failure gives it back.
THEOREM LimiterKept == Spec => []LimiterAccounted
<1>1. LimiterInv => LimiterAccounted
  BY DEF LimiterInv, LimiterAccounted, Holders
<1> QED
  BY LimiterInit, LimiterStep, <1>1, PTL DEF Spec
=============================================================================
