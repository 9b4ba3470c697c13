-------------------------- MODULE ResumeContract --------------------------
(***************************************************************************)
(* What a journalled run promises to whoever resumes it, of the many       *)
(* executions of its script seen together: which answers are given again,  *)
(* which calls are made again, and what the snapshot says in between.      *)
(* How the journal keeps the promise is left to the module Workflow.       *)
(***************************************************************************)
EXTENDS Naturals

CONSTANTS
  Calls,       \* the calls a script may make
  Positions,   \* the places they take in the order of an execution
  Questions,   \* cache keys: what a call asks
  Answers,
  Versions,    \* of the script and its arguments
  NoPlace, NoQuestion, NoAnswer, NoVersion,
  Acting,      \* calls that can act on the world
  Verified,    \* calls whose old answer the host verifies before it is reused
  Rerun        \* calls the host allows to act again

VARIABLES
  open,           \* an execution is under way
  execution,      \* how many have started
  version,        \* that of the present or last execution
  stage,          \* none, asked, reused, live, done or failed, of each call
  place,          \* the position it took
  question,       \* what it asked
  answer,         \* what came back
  stored,         \* the snapshot: position |-> question and answer to reuse
  storedVersion,  \* the version under which it was written
  marks,          \* the positions it marks as acted at
  effects         \* history: which call acted, where and in which execution

vars == <<open, execution, version, stage, place, question, answer,
          stored, storedVersion, marks, effects>>
store == <<stored, storedVersion, marks>>

Unasked ==
  /\ stage' = [c \in Calls |-> "none"]
  /\ place' = [c \in Calls |-> NoPlace]
  /\ question' = [c \in Calls |-> NoQuestion]
  /\ answer' = [c \in Calls |-> NoAnswer]

Init ==
  /\ open = TRUE /\ execution = 1 /\ version \in Versions
  /\ stage = [c \in Calls |-> "none"]
  /\ place = [c \in Calls |-> NoPlace]
  /\ question = [c \in Calls |-> NoQuestion]
  /\ answer = [c \in Calls |-> NoAnswer]
  /\ stored = <<>> /\ storedVersion = NoVersion /\ marks = {} /\ effects = {}

Earlier(c) == {d \in Calls : stage[d] # "none" /\ place[d] < place[c]}
MarkedBefore(c) == execution > 1 /\ place[c] \in marks

(* The snapshot is written anew, all at once.  It invents no answer: each  *)
(* was in the last snapshot, of the same version, or came back in this     *)
(* execution (got).  It loses none that the script was given, and no mark, *)
(* and only a call that can act leaves one.                                *)
Write(got) ==
  /\ storedVersion' = version
  /\ \A p \in DOMAIN stored' :
       \/ storedVersion = version /\ p \in DOMAIN stored /\ stored'[p] = stored[p]
       \/ \E d \in Calls : /\ stage[d] \in {"live", "failed"} /\ place[d] = p
                           /\ stored'[p] = [key |-> question[d], result |-> got[d]]
  /\ \A d \in Calls : stage[d] \in {"reused", "done"} =>
       IF place[d] \in DOMAIN stored
       THEN place[d] \in DOMAIN stored' /\ stored'[place[d]] = stored[place[d]]
       ELSE place[d] \notin DOMAIN stored'
  /\ marks \subseteq marks'
  /\ marks' \subseteq marks \cup {place[d] : d \in Acting}

(* A call takes the next place and asks.                                   *)
Ask(c, k, p) ==
  /\ open /\ stage[c] = "none"
  /\ \A d \in Calls : stage[d] # "none" => place[d] < p
  /\ stage' = [stage EXCEPT ![c] = "asked"]
  /\ place' = [place EXCEPT ![c] = p]
  /\ question' = [question EXCEPT ![c] = k]
  /\ UNCHANGED <<open, execution, version, answer, store, effects>>

(* An answer is given again only if everything before it was, if it        *)
(* answers the same question under the same version, and, where an earlier *)
(* execution acted, if the host verified it.                               *)
Reuse(c) ==
  /\ stage[c] = "asked"
  /\ \A d \in Earlier(c) : stage[d] = "reused"
  /\ storedVersion = version
  /\ place[c] \in DOMAIN stored /\ stored[place[c]].key = question[c]
  /\ c \notin Rerun
  /\ c \in Acting \/ MarkedBefore(c) => c \in Verified
  /\ stage' = [stage EXCEPT ![c] = "reused"]
  /\ answer' = [answer EXCEPT ![c] = stored[place[c]].result]
  /\ UNCHANGED <<open, execution, version, place, question, store, effects>>

(* A call is made, when those before it are decided, and never where an    *)
(* earlier execution acted unless the host allows it.  The snapshot says   *)
(* so first: it has the mark and nothing to reuse from here on.            *)
Start(c) ==
  /\ stage[c] = "asked"
  /\ \A d \in Earlier(c) : stage[d] # "asked"
  /\ MarkedBefore(c) => c \in Rerun
  /\ Write(answer)
  /\ \A p \in DOMAIN stored' : p < place[c]
  /\ c \in Acting => place[c] \in marks'
  /\ stage' = [stage EXCEPT ![c] = "live"]
  /\ UNCHANGED <<open, execution, version, place, question, answer, effects>>

Act(c) ==
  /\ stage[c] = "live" /\ c \in Acting
  /\ effects' = effects \cup {[pos |-> place[c], task |-> c, run |-> execution]}
  /\ UNCHANGED <<open, execution, version, stage, place, question, answer, store>>

(* The script is given the answer of a model when the snapshot has it.     *)
Deliver(c, r) ==
  /\ stage[c] = "live"
  /\ answer' = [answer EXCEPT ![c] = r]
  /\ Write(answer')
  /\ place[c] \in DOMAIN stored'
  /\ stored'[place[c]] = [key |-> question[c], result |-> r]
  /\ stage' = [stage EXCEPT ![c] = "done"]
  /\ UNCHANGED <<open, execution, version, place, question, effects>>

(* No answer was usable: the script is given none.                         *)
DeliverNone(c) ==
  /\ stage[c] = "live"
  /\ Write(answer) /\ place[c] \notin DOMAIN stored'
  /\ stage' = [stage EXCEPT ![c] = "done"]
  /\ UNCHANGED <<open, execution, version, place, question, answer, effects>>

(* A call is refused or fails; the answer it failed to store may be stored *)
(* by a later write.                                                       *)
Fail(c) ==
  /\ stage[c] \in {"asked", "live"}
  /\ stage' = [stage EXCEPT ![c] = "failed"]
  /\ \/ UNCHANGED <<answer, store>>
     \/ stage[c] = "live" /\ Write(answer) /\ UNCHANGED answer
     \/ /\ stage[c] = "live" /\ UNCHANGED store
        /\ \E r \in Answers : answer' = [answer EXCEPT ![c] = r]
  /\ UNCHANGED <<open, execution, version, place, question, effects>>

(* An execution ends by itself, with a last write, or at any time without. *)
Close ==
  /\ open /\ open' = FALSE /\ Unasked
  /\ \/ UNCHANGED store
     \/ (\A c \in Calls : stage[c] \notin {"asked", "live"}) /\ Write(answer)
  /\ UNCHANGED <<execution, version, effects>>

Resume(v) ==
  /\ ~ open /\ storedVersion # NoVersion
  /\ open' = TRUE /\ execution' = execution + 1 /\ version' = v
  /\ UNCHANGED <<stage, place, question, answer, store, effects>>

Next ==
  \/ \E c \in Calls :
       \/ \E k \in Questions, p \in Positions : Ask(c, k, p)
       \/ Reuse(c) \/ Start(c) \/ Act(c)
       \/ \E r \in Answers : Deliver(c, r)
       \/ DeliverNone(c) \/ Fail(c)
  \/ Close
  \/ \E v \in Versions : Resume(v)

Spec == Init /\ [][Next]_vars
=============================================================================
