# Dialectica: a verification project

Dialectica (`src/dialectica`) runs *workflow scripts*: Python coroutines that
call language models through `agent()`, in sequence, in `parallel()` or in a
`pipeline()`. A run keeps a journal, so that a run that died can be resumed and
finished calls are not paid for or carried out twice. The promise that is easy
to state and hard to keep is the one about resuming: *what was done is reused
only if nothing before it changed, what acted on the world is not silently done
again, and the snapshot on disk never says less than what was started.* Around
this core stand engines that search for a good answer with many calls
(`src/examples/patterns`, `repair.py`) and the tools that measure them
(`src/evals`); they promise that what they submit, report and count is what
really happened. This project specifies both in TLA+, checks them with TLC on
small instances and proves the safety properties that the runs check for all
instances with TLAPS.

## 1. Inventory

| component | source | state it keeps | operations | what makes it correct |
|---|---|---|---|---|
| run journal | `workflow_journal.py` | entries by call position, the end of the reusable prefix, effect flags, terminal state, fingerprints; the snapshot, the lock and the receipts in the run's directory | lookup, invalidate, append, persist, load, create, lock, record usage | a snapshot is one consistent history; a changed prefix ends reuse; effect flags outlive everything; one host at a time |
| workflow run | `workflow.py` | context: sequence counter, decision events, step outputs, outcomes, phases; budget; semaphore | `agent()`, `phase()`, `Workflow.run()` | reuse in call order; intent before dispatch; budget and semaphore balance; the report's status is true |
| batches | `workflow.py:710-798` | asyncio tasks | `parallel()`, `pipeline()` | all siblings settle before the batch raises; every failure is reported |
| child workflows | `workflow.py:801-837` | `depth`, `args`, `registry_name` in the shared context | `workflow()` | one level of nesting; a child's arguments are its own |
| agent runtime | `agent_runtime.py` | global limiter, usage trackers, model-turn guard | `run_agent()` with retries | no retry after effects; usage of failed attempts is kept; retries end |
| repair engine | `repair.py` | attempt counter, failures so far, history | `run()`, `verify()` | at most `max_attempts` candidates; only a failed one is followed by another; the evidence is whole |
| worktree isolation | `workflow_worktree.py` | a git worktree and its branch | `worktree_session()` | a tree that is seen to hold work is kept; clean worktrees are not left |
| reasoning patterns | `examples/patterns` | candidates, scores, arms of bandits, trees, artifacts | one engine per pattern | the selected answer is the best by the pattern's own criterion, whatever the models say |
| evaluation protocols | `evals` | receipts, verdicts, result files | arms, judges, campaigns, analyses | a receipt is final; a biased judge decides nothing; one author and one terminal record per study |
| example hosts | `examples/bugfix_workflow.py`, `evals/workflow_bugfix_eval.py` | target and test files | the bug-fix script and its measured arm | what is recorded as fixed is fixed |
| tool policy, registry, JSON repair, configuration, agent factory | the small modules | constants | pure functions | |

How they interact: a script runs inside `Workflow._run`, which puts a context
into a `ContextVar`; every primitive works on that one context. `agent()` asks
the journal, waits for the decisions of earlier calls, charges the budget, saves
its intent, waits for the semaphore and calls `run_agent` (in a worktree, if it
is isolated), whose usage it records whichever way the call ends. Batches start
branches as asyncio tasks on the same context. A child workflow is a script run
in its parent's context. Resuming means: take the run's lock, load the snapshot,
run the script again. The engines are scripts or are called by scripts; they see
the rest of the program as `agent()` calls that answer, fail or run out of
budget. A campaign runs arms, each of which is a script under a receipt.

The hard behaviours are the interleavings of branches between awaits (one event
loop, so code between two awaits is atomic), cancellation at every await, death
of the process between two saves or two file operations, failing writes, resuming
under a changed script, two hosts on one directory, limits (budget, cap,
semaphore, allowance) checked at one time and used at another, tasks and tool
threads that outlive whoever started them, and models that answer anything.
`PROJECT.json` lists them under `hazards`, each at its line.

## 2. Modules

### The run

`Journal.tla` has the journal's operations as operators on records: no state of
its own, so that other modules can use and prove things about them.
`InvalidateFrom`, `Lookup`/`AfterLookup`, `AppendEntry`, `Snapshot` and
`ResumedJournal` are `invalidate_from`, `lookup` (result and side effect),
`append`, `persist` and `load` with `create`. An entry carries two ghost fields,
the execution and the fingerprint it was made under; nothing reads them but
properties.

`Workflow.tla` extends it to one run with all its executions. A script is a set
of `Tasks`, one for each `agent()` call it may make, and `Script` gives each the
options of the call (`tools`, `schema`, `verify_cached`, `replay`, ...) and the
order the script imposes: `behind` for branches that start earlier, `after` for
calls awaited first. An action is the code between two awaits:

| action | code |
|---|---|
| `PreflightFails`, `Call` | checks, position, cache key, lookup, up to the verifier's await |
| `Verdict` | the verifier's answer; it may have tried to call `agent()` |
| `Reuse`, `RefuseUnsafe`, `OverBudget`, `GoLive` | the decision, after every earlier one; `GoLive` charges, flags, appends the pending entry and saves |
| `SetupFails`, `DispatchRefused`, `Dispatch` | agent object or worktree, the token check behind the semaphore, the model call |
| `Answer`, `Reask`, `Exhaust`, `CallFails` | the answer, with usage, entry and save |
| `CancelUndecided`, `CancelQueued` | cancellation at the other awaits (`CallFails` covers a running call) |
| `EndRun`, `Crash`, `Resume` | the end of an execution, in order or not, and the next one |

A call that reaches its decision without an await passes through `deciding`;
while one does, `At` lets no other call move, as the event loop would not.
`disk` is the snapshot; `Save(j, saved)` writes it or, where `DiskFaults` allows,
raises and leaves the old one: what `Storage` does in several file operations.
Two variables are history, which no guard reads: `acted`, the dispatches of calls
that can act, over all executions, and `reentered`, the calls of this execution
whose verifier tried to call `agent()`.

`ResumeContract.tla` is the abstract specification of all that: what a journalled
run promises to whoever resumes it. A call asks, and is then given an old answer
again (`Reuse`), made (`Start`, `Act`, `Deliver`, `DeliverNone`) or refused or
failed (`Fail`); executions end, in order or not, and are resumed. It has no
lookup, no invalidation, no reusable prefix, no budget, no semaphore and no
verifier's await: its snapshot is a function from positions to answers, and `Write`
says what any new snapshot must keep and may not invent. `HonoursContract` in
`Workflow` is the refinement. `StageOf` maps `pc` to the stages of the contract,
`Stored` the snapshot to the answers it offers; the calls that are refused before
they have a position are not seen there.

`Branches.tla` is the same run seen from above: the tree of coroutines that
`parallel`, `pipeline` and `workflow()` make of a script, any of which may be
cancelled. A node is the script or a branch; `Parent` and `Above` give the tree.

| action | code |
|---|---|
| `StartBatch`, `GatherReturns`, `GatherRaises`, `Settled` | `_gather_settled` and `_batch_result`: tasks created, gathered, cancelled and gathered again |
| `CancelRun`, `CancelUnstarted`, `Interrupt`, `PassOn` | what asyncio does with a cancellation: requested, raised at the next step, passed on to what a node gathers |
| `EnterChild`, `LeaveChild` | `workflow()`: the swap of the context where the depth admits it, its `finally`; what the depth does not admit is a `RuntimeError` in the script, which changes nothing here |
| `Begin`, `Handle`, `Finish` | the branch's own code, which is left open |

It has no `agent()` calls: to the tree a call is one of the awaits of a working
node. `Workflow` has the calls and takes the order among them as given; what
joins the two is that a cancelled call is `CancelQueued`, `CancelUndecided` or
`CallFails` there and an `Interrupt` here, and that `NothingOutlives` justifies
`EndRun`'s guard that no call is under way.

`RunAgent.tla` is the call below: `run_agent`, its retry loop with two budgets,
the process-wide limiter, the turn guard of the run and the usage tracker. An
attempt is `Attempt`, then `Turn`s and `Report`s, then `Succeed` or `Fail`; both
contain `Leave`, the release of the limiter and the update of the scope's usage.
The error that ends an attempt is one of the five kinds the code tells apart. Without
`DIALECTICA_MAX_CONCURRENCY` there is no limiter, which is a `LimiterSize` no smaller
than the number of callers. What a call reports here is what `Workflow`'s `Answer`
and `CallFails` record there (`Usages`).

`RunStore.tla` is the abstract specification of a run's directory: one host has
it, a save replaces the snapshot whole, and no mark of an effect disappears.
`Storage.tla` is the detailed one, with every file operation a step: `Create`,
`OpenLock`, `LockFresh` and `FreshBusy` (a run id is drawn, its directory made,
its lock taken), `Resume`, `Load`, `LoadFails`; `Dispatch`, `Receipt`, `Finish`,
`CallError` (a call: its intent saved, its receipt appended to `usage.jsonl`, its
result saved); `MakeTemp`, `Fill`, `Replace`, `WriteFails`, `Cleanup`
(`_atomic_write`); `EndScript`, `Release`, `Die`. `Implements` is the refinement.
It abstracts which entries a lookup drops (any subset) since `Journal` has that.

### The engines

| module | code | an action is |
|---|---|---|
| `Repair` | `IterativeRepairEngine.run`, `verify` | a generated candidate, or a verdict in any of the forms a verifier may return or raise |
| `Worktree` | `worktree_session` | one git command, or its failure or exception; the body of the session; a tool thread that writes after its call was cancelled, any number of times and also between the check and the removal; death |
| `Bugfix` | the bug-fix host and the arm that measures it | an answer with its edits, a run of the tests, the cut-off, a late tool thread, the final check, the record |
| `Ensemble` | the bandit search | the policy's choice, the call, the score |
| `Dialectic` | thesis, antitheses, synthesis | one model call or one verdict |
| `Stages` | reflection and quality workflow in four modes | one call of a batch, the end of a batch, one single call |
| `TreeSearch` | the `Coordinator` | one expansion, one round of scoring a thought, the end of a batch with the cut of the beam, the synthesis |
| `MetaReasoning` | the controller's cycles | one controller or worker call, the check of its action, another branch that spends the shared pool |
| `Selection` | which answer of a trajectory is submitted | one answer, one assessment, the rules on the finished trajectory |

They share no state, so `MCEngines` composes them as one choice: a behaviour runs
one of them. `Orderings` has the two things they do with lists, a comprehension
with a condition (`Keep`) and a stable sort (`Arranged`): the k-th element of the
result stands at the place that has exactly k places up to it. Said like this,
by rank and without recursion, both can be reasoned about.

### The studies

`Measure.tla` has concurrent arms whose receipts are metered by tasks that may
outlive their arm (`BeginCall`, `EndCall`, `TaskEnds`, `RunEnds`, `Drained`,
`DrainCancelled`). `Verdicts.tla` has a panel's calibration, judgement in two
orders and aggregation, and the blind judge with its attempts. `Campaign.tla` has
the hosts that may be started on one campaign directory, a file created at a
time: `Look`, `Archive`, `FreezeProtocol`, `OpenReport`, `NextStudy`, `Verify`,
the rows of the three kinds of study, `Analyse`, `WriteTerminal`, `SaveRow`,
`StudyFails`, `Crash` (which may leave a torn file) and `EditSource`. `MCStudies`
composes them as one choice.

### Conventions

`MCWorkflow`, `MCBranches`, `MCRunAgent`, `MCEngines` and `MCStudies` hold the
scripts, trees and tables the runs use. Definitions with a suffix
(`InvalidateFrom_OffByOne`) are mutants: forms of a definition with a plausible
bug, which no specification uses; a property is only kept if a mutant breaks it.
The modules `*Proofs` hold the theorems of section 4.

## 3. Runs

| run | question | properties |
|---|---|---|
| `replay` | two branches, one verified, one with tools, and a call that reads a branch's output; three executions with crashes and cancellations: is reuse a prefix, do live calls keep their entries, is no position acted at twice, do phases come in call order? | `CachedPrefix`, `LiveKept`, `EffectOncePerPosition`, `PhasesInCallOrder` |
| `faults` | every save may fail, the fingerprint may change at each of two resumes: are intents durable, is the snapshot of one fingerprint, does the run implement `ResumeContract`? | `IntentDurable`, `SnapshotCoherent`, `HonoursContract` |
| `tokens` | token budget 3, calls that report 0 or 2 tokens or nothing, two slots, re-asks, tools: is the overshoot bounded by the calls in flight, does a call of unknown usage block later dispatches? | `BudgetRespected`, `UnknownBlocks` |
| `calls` | call budget 2, cap 3, four branches, an authorised rerun, a verifier that calls `agent()`, a resume, one slot: do the cap on positions and the budget of steps hold, do charges and journal agree, does every started call settle, is only a whole run called completed, one without a call refused in a verifier? | `BudgetRespected`, `ChargesMatchJournal`, `EverySettles`, `CompletedIsWhole` |
| `retries` | a call with tools and one without, a limiter of one, turn limit 3, every mix of errors, cancellation in the queue and in a sleep, a runner that fails to close | `UsageConserved`, `AttemptsBounded`, `LimiterAccounted`, `CallSettles` |
| `branches` | a batch of two branches, one with a batch of its own, child workflows anywhere, two cancellations by the host, a script that carries on after one: what outlives what, whose arguments are seen, and which failures can be lost? | `NothingOutlives`, `ChildArgs`, `ContextRestored`, `FailureReported`, `CancellationSettles` |
| `storage` | two hosts, two steps, death between any two file operations: does `Storage` implement `RunStore`, is a host's memory never behind the snapshot it will replace, has every reusable result its receipt? | `Implements`, `MemoryCurrent`, `ReceiptsFirst` |
| `engines` | every engine under every answer of its models, verifiers, scorers and git | `StopsInTime`, `EvidenceWhole`, `WorkKeptExactly`, `CompletedIsVerified`, `EnsembleBest`, `DialecticBest`, `StagesInformed`, `TreeSound`, `MetaHonest`, `RulesDeployable`, `ClaimsMonotone` |
| `studies` | two arms with a task that is left behind; a panel of two and a blind judge; two hosts on one campaign directory | `ReceiptFinal`, `PanelHonest`, `OneAuthor`, `TerminalHonest` |
| `pipeline_effects`, `sibling_args`, `stale_terminal` | what the documents say and the code does not do | counterexamples, see section 6 |

Each property's comment says what it states and which code it is about.

Bounds of the runs of `Workflow`. Three calls are enough for every relation of the
properties, which speak of two calls or two positions and a third that disturbs
them; two executions give a replay, three give a replay of a replay, which is
where stale data that survived one resume would be used. One result value is
enough where only reuse matters; two are used where keys depend on results
(`faults`). The steps of `faults` map to every action of `ResumeContract`; an
authorised rerun, which is in `calls`, and refusals by a budget are in the theorem
about it only. Three attempts or more behave like two. `CHECK_DEADLOCK` is off
because runs, engines and studies end for good.

For `branches` a tree of depth two is the smallest in which a cancellation passes
through a node that gathers, and a child workflow has a branch of its own; the
second cancellation by the host arrives while the first one settles. For
`retries`, two attempts and one rate-limit retry reach both boundaries, alone and
mixed; two turns let one be reported in full and one not. For `storage`, two hosts
are enough for a lock, and `MaxLeft` bounds the temporary files that dead writers
leave, which nothing reads.

For `engines`: four repair attempts go round a roster of two twice; three
ensemble calls give a candidate, a better and an equal one; three dialectic rounds
and four raw scores (one out of range on either side) give a win, a tie and a
loss in a round after the first; a tree of depth three, two thoughts per expansion
and a beam of one cut both by score and by order; an allowance of six covers one
staged cycle of four calls and part of the next, with every smaller pool;
trajectories of four answers over four texts, one of them unparseable and two with
one prediction. For `studies`: one arm with two tasks and one with one; two judges
of two families; studies of all three kinds in one order, two rows, one edit of
the sources.

Fairness. `Workflow`'s `FairSpec` asks that some step of a started call happens as long as
one is possible: the event loop runs what is ready, and models and verifiers
answer or raise. The code has no timeout of its own around a model call, so that
part is a condition on the host (the documentation says so for verifiers). New
calls, cancellations, crashes and the end of a run are not forced. A call takes
a bounded number of steps, so weak fairness on all of them together suffices.
In `Branches` only asyncio, `_gather_settled` and a script that unwinds are fair:
a script that nobody cancels may wait for ever, which is the situation the code's
second `gather` is for. In `RunAgent` invocations and sleeps end (ADK's call limit
and the providers' timeouts see to the first), and a caller that finds the limiter
free again and again gets it (strong fairness: `asyncio.Semaphore` is first in,
first out). The other modules state no fairness: whether a model, git or a host
ever answers is not this code's promise.

## 4. Proofs

The theorems hold for any number of tasks, positions, executions, hosts, branches,
models and calls. Their assumptions are those stated with the constants: types,
and that the values that stand for "none" differ from the others. Each proof has
an inductive invariant of its own, stronger than the properties it gives.

`WorkflowProofs` proves every safety property that a run checks of `Workflow`.

* `TypeCorrect` needs `Placed`: a call past its first step has a position below
  `nextSeq`, and positions are distinct; without it the entry appended at `seq[t]`
  could be outside the journal.
* `EffectsNotRepeated` rests on `EffectInv`. The property alone is not inductive:
  a dispatch may add a second effect unless one knows that the call's admission
  looked. So the invariant says: every effect so far was at a position the
  *snapshot* flags; while a process lives, its journal has every flag of the
  snapshot, and knows that it is resuming from the second execution on; a call
  under way that can act is flagged in the snapshot and, unless it is an
  authorised rerun, no earlier execution acted at its position. `GoLive`
  establishes the last part, `EffectFrame` is the argument that all other steps
  leave it alone.
* `IntentIsDurable`, `LiveIsKept`, `ReuseIsPrefix`, `SnapshotIsCoherent` and
  `PhasesAreOrdered` share `DecisionInv`: decisions are made in the order of
  positions; what lies below the end of the reusable prefix was looked up by
  calls that are decided or about to be; an entry of this execution belongs to the
  call at its position, so that cutting the journal behind an undecided call drops
  nothing live; what is on disk is a journal this or an earlier execution had.
* `ResumeKeepsPromise` is the refinement: every step of a run, in every execution and
  whether a write fails or not, is a step of `ResumeContract` or none. It takes
  `EffectInv`, `DecisionInv` and a third invariant, `ContractInv`, about sources: an
  answer that the journal would offer is in the snapshot of the same fingerprint, or
  belongs to a call whose save failed (`Sourced`); an offer was made by a call that may
  reuse it (`Allowed`); a flag that only memory has belongs to a call that can act
  (`FlagsOwned`). `WriteKept` is the heart of it: whatever journal is saved, what the
  script was given stays, and the rest was in the snapshot before or was answered in
  this execution. So an answer whose own save failed may be stored by a later write,
  which the contract allows, and is never reused before that. That a reused call has
  nothing but reused ones before it is `CachedPrefix` after the step.
* `SlotsAddUp`, `BudgetIsRespected` and `ChargesAreJournalled` are sums and counts
  over the calls in flight, which change by one with each step. That no more steps
  are charged than have a position follows from the charged calls being as many as
  this execution's entries, which have positions below `nextSeq`.
  `UnknownUsageBlocks` and `CompletionIsWhole` are about steps: a dispatch behind
  the semaphore, and the step in which a run is called completed; the second needs
  that a call whose verifier was refused leaves the run marred.

`BranchesProofs`: `BranchesContained` is stated for every tree. A node may stop to
wait only when its children are done; that nothing *further* down is alive follows
because the living are waited for by every node above them, so a living node
below would have the child on its path waiting, not done. `Above` is a constant
with the facts that make it the ancestors in a tree, so that no induction over the
tree is needed. `ChildSeesItsArgs` and `OuterContextRestored` rest on `ScopeInv`,
which adds that at most one node executes a child workflow, that it will restore
the outer context, and that a branch started in a child is below it; when the
child ends, `NothingOutlives` says that such branches are over.
`FailuresAreReported` has two halves. A failed branch of a batch that returned is
counted when it returns, and results stay. A failed branch of a batch that did not
return is lost with the outcomes of the batch; it still keeps the run from
"completed" as long as no script above it handles a `CancelledError`: `LostInv`
says that then every node above it waits for a batch that cannot return any more,
unwinds, or was cancelled, up to the root (`RootInv`). The remaining case is the
exception the property names (section 6).

`RunAgentProofs`: `UsageKept` follows the books of a call (`Ledger`): between
attempts what was spent is what was accumulated, in an attempt the tracker adds
the rest, at the end the scope says all of it. Its tracker part (`TrackerOK`) is
also what keeps the count of unknown turns from going negative. `RetriesBounded`
counts: a call that will try again has made one attempt for each failure in its
two counters, neither used up. `LimiterKept` is the sum of the limiter and its
holders, a cardinality that changes by one with each step.

`StorageProofs`: `StorageImplementsRunStore` shows that every file operation is a
step of `RunStore` or none. The invariant says that the lock is held by exactly
the host that is inside (`OneHost`), that nobody writes before the host that drew
the id has the lock, that a temporary file is renamed only when whole, and that a
host inside remembers every mark of the snapshot (`NoLostUpdate`): without the
last, `Replace` would not be a `Save` that keeps the marks. `ReceiptBeforeResult`
follows the order of `Receipt` and `Finish` through the write.

`EngineProofs`: `RepairStopsInTime` and `RepairKeepsEvidence` for every roster and
every `max_attempts`, negative ones included; `MetaIsHonest` for every allowance,
roster and pool, from the fact that the log of decisions and the store of artifacts
grow together and differ only between a decision and its work; `FixVerified`
(`Bugfix`). `WorkKept` (`Worktree`) says which work is kept, and exactly when it is
not: a tool that outlived its call writes after `git status` found the tree clean
and before it is removed, which the session cannot see (or a tool removed the tree
itself). It also says that a session that closes or raises leaves a directory
only for work or after a failure of git or `rmtree`; of a process that dies it
claims no such thing. `SessionInv` adds what the exit may have concluded wrongly.

* `SearchKeepsBest` (`Ensemble`) rests on `EInv`: the best candidate is the earliest
  of the highest score among *all* so far, and an arm's evidence is one unit for
  each candidate of that arm. Each call adds one candidate to one set of each kind,
  and its reward, clamped, splits the unit in two.
* `AnswerIsBest` (`Dialectic`) rests on `DInv`. That the thesis is the best text so
  far is not inductive without the order of rounds: a running round is the one
  after the thesis's, every scored text of an earlier round than the thesis is
  strictly worse, and the antitheses that later prompts must avoid are those in the
  history and the ones of the running round.

`SearchProofs` has the patterns that choose among texts.

* Its first part is about the lists of `Orderings` and about sums. A nonempty set of
  naturals has a least member (the order is well founded), so a set that contains 0
  and the successor of each of its members contains all naturals: that is the
  induction the rest needs, stated about a *set* and not about a predicate.
  `EveryRank` says that each number up to the size of a finite ordered set is the
  rank of one member, `KeepIs` what a comprehension holds and in which order.
* `RulesAreDeployable` and `ClaimsAreMonotone` (`Selection`) need of the state only
  how long its lists are (`SelectionInv`); the rest is what the rules compute.
  `SupportGrows` says that the support of a prediction grows with the surviving
  claims of its own answers and does not depend on the others, which is why the
  selection stays (`SelectionStays`).
* `NothingIsLost` (`Stages`) rests on `StagesInv`: the lists of findings and critiques
  have no repetition (`Listed`), each form passes through its own stages (`Staged`),
  until the synthesis the report lists exactly what has been passed on (`Recorded`), a
  call of the batch that did not fail has an output (`Collected`), and every prompt
  shows what the code gave it at the time (`AsksFor`, `Synthesised`), which later
  stages no longer change.
* `BestIsFound` (`TreeSearch`) rests on `TreeInv`: the tree is closed under parents
  (`Rooted`), all work of the moment is at one depth (`Level`), what waits to be
  scored has no score yet (`Pending`), a thought keeps the best of its rounds
  (`Rounds`), and the thoughts that are or will be expanded are, at each depth, few
  and not worse than those left behind (`Chosen`). The last is disturbed only when a
  batch ends, where `FrontierIs` applies what is known of a sorted list cut short.
  The path that is reported ends in a thought of the highest score, and each thought
  before its end was expanded because its child is in the tree.

`StudyProofs`: `ReceiptIsFinal`, from books that agree but for the calls under way and
from the order in which an arm closes, drains and returns; `PanelIsHonest`, where the
distinctness of the families is a counting argument. `CampaignProofs`:
`FilesHaveOneAuthor` and `TerminalsAreHonest`: at most one host gets inside, the
others stop at a file that exists, and the invariant (`TInv`) relates that host's
step to the files that are there, also after its death.

Assumptions. Besides the types of the constants: `Roster` and scales are positive
where the code divides or draws; the angles of `Stages` are distinct, since its labels are
(`StagesAssumption`); the scores of `TreeSearch` are integers, since they are only
compared (`TreeAssumption`). TLC evaluates every one of them in the runs.

Only model-checked: the liveness properties `EverySettles`, `CallSettles` and
`CancellationSettles`, since fairness and ENABLED are out of the prover's reach. Every
other property of a passing run is the statement of a theorem.

## 5. What is left

1. Consequences of `ResumeContract` by itself, such as that an answer which was
   delivered stays in the snapshot until its position is asked again.
2. The extraction of a JSON value from an answer, as a fold over bracket kinds.

## 6. Where code and documents disagree

* `pipeline_effects`: effect flags belong to call *positions*. When a pipeline is
  resumed, its first branch reuses its cached first stage without awaiting, so
  its second stage reserves the position that belonged to the next branch. A tool
  step that acted before the crash is then admitted at an unflagged position and
  acts again, where the documentation promises `ResumeUnsafeError`. The theorem
  `EffectsNotRepeated` is the part of the promise that the code does keep.
* `sibling_args`: a child's args are put into the context that all branches share,
  so a sibling in the outer script that calls `args()` meanwhile gets them, where
  the docstring promises the value passed to `Workflow(...)`. `ChildSeesItsArgs` is
  the half that holds.
* `stale_terminal`: a resumed run keeps the terminal state it was loaded with, so
  its snapshots say "completed" next to pending entries.

Other consequences of the same code are part of the models without a run of their
own:

* a sibling that starts a child workflow while another one is under way is refused
  as nested (`MayEnter`);
* a call cancelled while it waits for the semaphore is counted as a model attempt of
  unknown usage and then blocks a token budget (`CancelQueued`). It makes the budget
  stricter, so no property here objects to it;
* a batch in which a branch failed and another one was cancelled raises
  `CancelledError` and discards its outcomes. If a script above handles that error
  and carries on, the run may be reported "completed", although the documentation
  says that a failure in a batch marks the run partial. `FailureReported` names
  exactly this case as its exception;
* a tool that outlives its call can lose what it writes while a worktree is being
  removed (`WorkKeptExactly` names the case).

## 7. Not modelled, and why

Fingerprint and key computation (hashes: only equality matters; the model has an
uncacheable call and a changing fingerprint), prompts and the texts of errors,
logging and the run's log, explicit `phase()` calls, leaving a worktree after the
answer (in `Workflow` merged with the answer; `Worktree` has it by itself; a late tool
there only writes, it does not commit or undo, and a removed tree takes nothing
more). The
tool policy is a pure check whose refusal is an option of a call (`refused`); the
registry is a dictionary; JSON repair is string surgery on one text, whose result
is an outcome of a call; configuration and the agent factory have no protocol.

Of the patterns: prompts, the random draws of Thompson sampling (the policy may
choose anything) and `agentic_pattern.py`, which is one call with tools. The
rosters of `Ensemble` have distinct arms, as its callers give them. `TreeSearch` has
one `Threshold` for `score_threshold` and `gan_score_threshold`, which are equal
unless a caller gives both. Of the
evaluations: task loading, the layout of reports and the statistics, which are
arithmetic on finished results; the analysis process of a cancelled study, which
runs on and may still write a file that nobody reads; scores that the code keeps as floats are integers
in units small enough for the comparisons the code makes. The other examples only
call the components above.
