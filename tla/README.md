# TEMMS in TLA+

TEMMS selects, for each *slot* of an application, the best model that is feasible
in the current context, activates it through an injected runtime, and passes
inference through to whatever is active. The library is small (about 700 lines);
what makes it hard is what happens *between* its awaits: reconciliations of one
slot that queue behind each other, loads that run in executor threads while their
caller is cancelled, inference that is admitted by one session and finishes after
another has been published. The repository's examples add programs with
concurrency of their own: a comparison harness with a background replacement, a
paced demonstration, a resumable download, and a qualification of the whole in a
constrained container, audited by a separate verifier.

This directory has TLA+ models of these parts, TLC runs that check them, and
proofs that TLAPS checks of what matters most. Line numbers refer to files of the
repository; `PROJECT.json` has the complete map from definitions to lines.

## 1. Inventory

### The library (`src/temms`)

| Component | State | Operations | Interacts with | What is hard | What makes it correct |
|---|---|---|---|---|---|
| **Engine** `engine.py` | one `asyncio.Lock` per slot (holder, line of waiters) | `reconcile` (enter lock, `models`, `state`, `select`, `activate`, `state` again, leave), `infer` | calls `Selector` (pure) and `Runtime` (awaits) | four awaits under the lock; cancellation at each of them and in the line; runtimes that misreport | the lock spans exactly the transaction; decisions are never stale; success is true; every call ends |
| **Selector** `selector.py`, `types.py` | none | `select`: availability, constraints, ranking, reason | called by the engine; previewed by applications | Python's comparison semantics (NaN, mixed types, containers), ties, missing keys, duplicate inventory entries | best feasible model; stable ties; order of configuration irrelevant; namespaces apart |
| **ONNX adapter** `adapters/onnx.py` | the active session of each slot, resources, an `RLock` | `activate` (load in a thread, publish), `infer` (capture, run in a thread), `models`, `state`, `update_resources` | asyncio's default executor, ONNX Runtime | a cancelled caller's load runs on; several loads of a slot at once; swap during inference; threads run out | only activations that returned serve; inference is pinned to the session captured at admission |
| **In-memory adapter** `adapters/memory.py` | active model of each slot, resources | the same; handlers may return awaitables | handlers | models and handlers are registered apart; identities may be duplicated | what is active can serve; answers are attributed to the model that computed them |
| **Runtime protocol** `runtime.py` | - | the four calls the engine makes | - | any implementation may be injected | see Engine |

### The examples

| Component | State | What is hard | What makes it correct |
|---|---|---|---|
| **Comparison** `live_swap/compare.py` | active model, background task, fault, records of a worker; summaries of the workers | requests served while a replacement loads; drain at the end of each phase; interrupts; a temporary directory that threads read; a worker that fails after writing its summary | no infeasible serving, no needless abstention, complete traces, the fault confined to its phase, repetitions that agree |
| **Demonstration** `live_swap/run.py` | the same, evidence per stage, the inputs served | evidence joins values read at admission, at the result and after the transition; stages that wait for a load use up inputs | PASS is never wrong, MISSING has a reason, for a stage and for the whole run |
| **Assets** `live_swap/assets.py`, `workload.py` | files, temporary files, dataset pages | overlapping runs, failures at any read, kills, a dataset that changes revision | a run that ends `done` leaves verified files only; refusal comes before any download; a retry fetches only what was not verified, and settles |
| **Edge qualification** `edge/run.py` | runtime, artifact, event log, `summary.json` | a scripted sequence with deliberate corruption; any call may raise; a cgroup that goes on counting while its files are read one by one | nothing is served from a damaged file; abstention keeps the model |
| **CPU pressure** `edge/resources.py` | worker processes | processes that start late, die, resist signals; failures during cleanup | cleanup reaches all, reports survivors, keeps the first error |
| **Edge verifier** `edge/verify.py` | position in its table, expected model, served pairs | a second description of the exerciser's trace | accepts the logs of complete runs and no others |
| **Container orchestration** `edge/qualify.sh` | docker clients, containers, cidfiles, inspections | `timeout` kills a client and not its container; containers that hang; refused docker commands; signals anywhere, in the EXIT trap too; inspections that are rewritten after they were judged | exit status 0 is earned; cleanup leaves nothing running and loses no evidence; the script ends |
| **Session churn** `live_swap/churn.py` | sessions and who refers to them | a thread hands its result over before it lets go of it, so the event loop runs ahead of the thread | the program's checks on surviving sessions never fail a sound run |
| **Dispatch overhead** `live_swap/overhead.py` | none that changes | nothing: a serial timing loop over one session | *not modelled* |
| **Adaptive vision** `adaptive_vision.py` | none | nothing: two reconciliations in a row | covered by ControlLoop |

### How they interact

```
 application task --reconcile--> TEMMS --select--> BestFeasibleSelector (pure)
        |                          |  (slot lock)
        |                          +--models/state/activate--> Runtime
        |                                                        |
        +--infer--> TEMMS --infer------------------------------> OnnxRuntime
                                                                 |  await to_thread
                                                            executor threads
                                                        (load and warm up; run)
```

Everything above the threads runs on one event loop, so code between two awaits
is atomic with respect to other tasks. Threads touch no shared state of the
library: a load returns its session to the caller, an inference works on a session
it was given. `PROJECT.json` lists under `hazards` the places where this can go
wrong, each with the properties that would catch it.

## 2. Modules

| Module | Models | Extends / uses |
|---|---|---|
| `ModelRefs` | identity of a `ModelRef`, `None` | |
| `Selector` | `BestFeasibleSelector` as operators | ModelRefs |
| `ControlLoop` | sequences of decisions on one slot while context and resources change | Selector |
| `ThreadPool` | the default executor: queue, bounded workers, withdrawal (external) | |
| `OnnxRuntime` | `OnnxRuntime` with its calls cut at the two `to_thread` awaits | ModelRefs, ThreadPool |
| `SlotService` | **abstract**: slots change by transactions, at most one open on a slot, which commits against the model it was decided on; inference is pinned | ModelRefs |
| `Engine` | `TEMMS.reconcile` over **any** runtime, cut at every await, with a set of contract violations | ModelRefs, SlotService |
| `Temms` | `TEMMS` composed with the ONNX adapter and its threads | OnnxRuntime, SlotService |
| `InMemory` | `TEMMS` over `InMemoryRuntime` | Selector |
| `Scenario` | the seven phases and the policy the live-swap programs share | Selector |
| `LiveSwap` | `compare.py`: a worker, and the sequence of workers | Scenario |
| `Replay` | `run.py`'s demonstration | Scenario |
| `Assets` | `assets.prepare` and `prepare_workload` | |
| `CpuPressure` | `resources.cpu_pressure` and its workers | |
| `EdgeTrace` | `edge/run.py`'s exerciser against `edge/verify.py`'s table | Selector |
| `Qualify` | `edge/qualify.sh` with docker clients, daemon and containers apart | |
| `Churn` | `churn.py`'s `measure` and its checks | |
| `*_proofs` | theorems about the module of that name; `Temms_proofs` has those about `OnnxRuntime` too, `LiveSwap_proofs` those about `Replay` and `Churn`, `CpuPressure_proofs` those about `EdgeTrace` | TLAPS |
| `MC*` | instances for TLC | |

### State and actions against the code

**Selector.** The strings `id` and `digest` are numbers that stand for their place
in the lexicographic order. Values have a kind, because Python compares `bool`,
`int` and `float` with one another, finds values of other kinds unequal, raises
when it cannot order them (caught in `_constraint_failure`: not satisfied) and
finds NaN unequal to itself, yet in a container that holds that very object. `Better` is the sort key of `_rank`; `Rank` is
`min(...)`, which returns the first of equal items.

**OnnxRuntime.** A call of `activate()` or `infer()` is a task name; a session is
named by the `activate()` call that loaded it, so that two loads of one model are
two sessions. `ActivateBegin` is `activate` up to its await (`_find`, submission to
the pool); `ActivatePublish` is everything after it; `ActivateUnavailable` and
`Raise` are the exceptions. `InferAdmit` is `infer` up to its await: the capture of
the session under the `RLock`. Cancellation withdraws work that no thread has begun and abandons
work that one has; the thread then runs on to no effect. The `RLock` is not a
variable: each critical section lies within one action.

**Temms.** `CallAndEnter`, `CallAndWait` and `Enter` are the three ways into the
lock; from there to the load's await nothing suspends, so reading `models()` and
`state()`, deciding, and submitting the load are one action (`Transaction`), with
the branches of the code: nothing selected, identity unchanged, activation, model
not in the inventory. `Complete` publishes and leaves; `Fail` and the cancellations
leave too. `asyncio.Lock` is first-come-first-served, and a cancelled waiter passes
its turn on. Direct calls of `activate()`, which docs/architecture.md 62-68
forbids while TEMMS owns a slot, are the set `Direct`.

**Engine.** The same transaction over an arbitrary runtime: each of `models()`,
`state()`, `activate()`, `state()` suspends and may raise or be cancelled, the
selection is arbitrary, and publication is a step of the runtime somewhere during
`activate()`. `Faults[s]` chooses how the runtime breaks its contract for slot `s`:
reports another model, publishes another, publishes nothing, publishes after a
cancellation, lies in `state()`, or has another owner. The slots without faults
(`Honest`) are those the promises are about, whatever happens to the others.

**InMemory.** Nothing of a reconciliation suspends, so it is one action. Inference
suspends where a handler returns an awaitable.

**LiveSwap, Replay.** The main coroutine, the replacement task and the executor
thread take turns where the code awaits; records are sequences or the evidence
accumulated from them. `Interrupt` / `Abandon` unwind through the `finally`
clauses. Latencies and wording are left out. In `LiveSwap` a worker that comes to
its end is judged by its records (`Close`), and `Collect` is one turn of
`compare()`'s loop. In `Replay` the frames of a stage go through the inputs one
after the other, and `complete` is the program's exit status.

**Assets.** A run of `prepare` is a process that visits the manifest's files in
order. A file's content is absent, bad or good; a digest check tells good from
the rest. Runs overlap, fail, and are killed without cleanup. `found` is a history
variable: what was verified when the run began, against which its pages, its downloads
and the file it fails at are held.

**CpuPressure.** The context manager's loops go worker by worker; each wait either
succeeds or times out. Workers are processes with a life of their own. An
interrupt while `Popen` has started a process that is not in the list yet leaves it
to its own 120 second deadline (resources.py 16-19): the model has this, and the
cleanup properties speak of the workers in the list.

**EdgeTrace.** `Script` is the sequence of calls of `exercise()` and `main()`,
`Table` the events that follow from `PHASES`; they were translated from two files
independently of each other, and the run shows they agree. Selections are made by
`Selector`, activations of the large model depend on the artifact on disk. A
resource profile is three reads, between which the cgroup's counters advance;
`summary.json` is written after the log's last event, or not.

**Qualify.** The script, the docker client in its foreground, the daemon and the
containers are separate: a client writes the cidfile before it asks for the start,
`timeout` ends a client while its requests go on, and an inspection shows the state
of its moment. A container that was created and has not started shows exit code 0,
as Docker does. Bash runs a trap when the foreground command has ended; `errexit`
is off inside `if ! launch` and on in the EXIT trap. What each command's failure
does (`|| true`, `|| failed=1`, or the end of the script) is translated command by
command.

**Churn.** A session lives as long as somebody refers to it: the slot or the
variable `direct`, a result on its way to the loop, the executor's thread. `Release`
is the thread dropping its work item, which may come after the loop has gone on;
`Barrier` is the empty call the program makes to wait for that.

## 3. What is checked

Every run is exhaustive for its instance.

| Run | Instance | States | Shows |
|---|---|---|---|
| `control_loop` | every order of three policies over two priorities and three constraint lists, three inventories (one incomplete, one with a duplicate), contexts with a missing key, numbers, a string, NaN | 109,470 | best feasible model; the eight comparison operators agree with one another as Python's do (`ComparisonsObeyTheirLaws`); stable ties; configuration order irrelevant; namespaces apart; losing a key only excludes |
| `one_slot` | 3 reconciliations, 2 requests, 2 threads, changing resources and contexts, a selector that may name a model the runtime lacks, every call cancellable | 230,526 | the lock, freshness, activations are changes, implements `SlotService` |
| `hung_slot` | 2 slots, 3 threads, 2 reconciliations, a forbidden direct activation, a request; loads of one slot may never end | 256,118 | no contract error; only activations that returned serve; an inference keeps its session and names it; the other slot and inference go on |
| `any_runtime` | 2 slots, one for which the runtime keeps its contract and one with every fault but a lying `state()`; 2 reconciliations, models that differ in metadata only | 158,761 | the lock spans the transaction; every reconciliation ends; success is true; no false accusation; the honest slot implements `SlotService` |
| `in_memory` | 2 slots, duplicates, shared handlers, a model without one, a foreign selection | 7,754 | what is active can serve; no contract error; answers are attributed |
| `live_swap` | the code's 4 strategies, 3 rotated repetitions and 7 phases, 2 requests per phase, an interrupt anywhere | 160,648 | feasible serving, no needless abstention; accepted workers serve, abstain, publish and load as often as the scenario determines, whatever raced (`RepetitionsAgree`); the fault and the task stay in their phase, traces complete, directories outlive threads (`PhaseInv`) |
| `replay` | 3 frames per stage, 5 inputs, wrong outputs, failing loads | 115,640 | evidence is true; a stage missed or a run incomplete has a reason (`NoFalseMiss`); the fault stays in its stage, frames are feasible, exit status 0 means every output matched (`StageInv`) |
| `prepare_assets` | 3 files on 2 pages, one run of each kind, kills, revision change | 103,507 | `done` means verified, no litter, refusal comes first, what was verified when a run began is not fetched again nor in its way (`PreparationInv`); over a verified directory every run settles |
| `cpu_pressure` | 2 workers, 2 ticks, interrupts anywhere | 400,781 | survivors, cleanup, first error (`PressureInv`); contention witnessed; it ends |
| `edge_trace` | the real script and table: 139 records, 113 frames, 12 swaps; counters that advance once | 36,889 | exactly complete runs are accepted, however the counters move between two reads; damage is never served, abstention keeps the model, no two profiles contradict each other (`TraceInv`) |
| `qualify` | the code's 3 containers, 2 signals, 1 refused docker command, containers that hang | 1,387,352 | exit status 0 is earned by all three; a cleanup that ends leaves nothing that runs and loses no evidence (`CleanupInv`); the script ends |
| `churn` | the code's 31 steps, both backends, 3 strategies | 3,702 | no sound run is refused, one session to spare (`ChurnInv`) |

Where an invariant is the conjunction of several named statements, each of them
has its own comment in the module.

### Bounds, and why they are enough

*Three reconciliations of one slot* give one holder and two waiters: handing the
lock on, cancelling the first or the second waiter, and a holder that fails while
both wait all occur. A fourth adds a longer line only. *Two requests* allow one
admitted before and one after a swap; each is otherwise independent. *Three threads*
are what `hung_slot` needs: a hung load whose caller was cancelled keeps one, the
next caller's load a second, and one is left over.  *Two threads* let a load and an
inference, or an abandoned load and its successor, run at the same time. *Three models*, two of them with the
same id, tell identity by id from identity by id and digest; a third with other
metadata tells identity from equality. *Two requests per phase* in `live_swap` have
one that meets a running replacement and one that meets a finished one; *three
frames* in `replay` have one before, one at and one after the transition, and *five
inputs* are to three frames as the twenty of the workload are to the default of
twelve. *Two signals* are one that starts the cleanup and one that interrupts it; *one
refused docker command* is refused in turn at each place. *Two
runs* over the asset directory are the smallest overlap; *two files on one page*
share a cached page while the third does not. *Two ticks* are one before and one
after a sample. *Counters up to 1* can stand still or advance, once, between any two reads,
which is all a comparison of two profiles sees. But for them `edge_trace`, `churn` and, but for the requests per phase, `live_swap` are not
scaled down: their constants are the code's own.

`CHECK_DEADLOCK FALSE` stands where the modelled program ends: once every call has
been made and has returned nothing is left to do.

### Fairness

| Assumed | Why the code justifies it |
|---|---|
| weak fairness of each ready coroutine (`Resume`, `ResumeInfer`) | asyncio runs every ready callback in first-in first-out order |
| threads take queued work (`ThreadTakesWork`) | `ThreadPoolExecutor` workers loop on their queue |
| loads and inferences end (`ThreadEnds`) | an assumption on ONNX Runtime, which `hung_slot` makes of every slot but one |
| a runtime's calls return or raise (`Engine`) | the same for an arbitrary runtime |
| runs of `prepare` proceed (`Step`) | `urlopen` has a timeout; killed runs are exempt |
| the script takes its steps and `timeout` fires (`Script`, `Timeout`) | bash goes on when the command in its foreground has ended; nothing is asked of clients and containers, which may hang |
| the context manager proceeds (`Manager`) | `select`, both `wait` calls have timeouts; its block is exempt |

Cancellation, interrupts, worker deaths, failures and everything the environment
does are never fair.

### What the violated variants would say

With `Direct` not empty, `DecisionStaysFresh` and `ActivationIsAChange` do not
hold: a direct activation can publish under a transaction's load. That is the
documented prohibition, not a defect, so `hung_slot` checks what remains
true. A hung load holds its slot's lock and its thread for good; as many hung
loads as the pool has threads stop everything (docs/architecture.md 78:
"independent locks do not prevent thread
pool saturation"). In `qualify.sh`, `errexit` holds in the EXIT trap: a `cp` there
that fails, or a second signal, ends cleanup before the later containers are
removed, and a `docker kill` that fails on a container that hangs leaves the script
in `docker wait`. `CleanupInv` and `ScriptEnds` say so by their conditions
(`CleanedUp`, `Hanging`). The first two are consequences the documentation concedes;
no run of this project found the code to disagree with its documentation.

## 4. What is proved

Theorems hold for every set of slots, models, calls and threads, every selector, every
table of policies, and any number of files, runs, workers, strategies, repetitions,
requests, frames, inputs, steps, counters, signals and refused commands.

**The adapter alone** (first part of `Temms_proofs`): `AdapterTyping`,
`ServedSessionsWereReturned`, `InferenceIsPinned`, `CaptureIsForLife`. None of
the safety invariants is inductive by itself. `AdapterInv` adds `PoolInv` (work is in the
queue at most once, or with a thread, and only while it has no outcome), `LoadInv`
(an activation past `_find` has a slot and one of its models; one that returned was
loaded) and `CaptureInv` (a request past the capture has a session, one that has not
returned has no result). The pool's part is needed because a withdrawn call must
have left the queue for good: otherwise a thread could give an outcome to a call
that is over.

**The composition** (`Temms_proofs`): `Typing`, `LockIsHeldExactly`,
`NoContractError`, `AdapterPromisesHold`, `OwnedSlotsStayFresh`,
`NoRedundantActivation`, `TemmsImplementsSlotService`. Every step of `Temms` is a step of the adapter, so
`AdapterInv` comes for free; `EngineInv` adds the lock and, for a reconciliation
that awaits, that its `activate()` call was made for the slot and the model it
remembers. Where nobody activates directly (`Direct = {}`, the documented
ownership of a slot), `OwnerInv` adds that the model it read is still active,
which is what maps a publication to `SlotService`'s `Commit`, and that what it loads has
another identity, hence that every activation is a change.

**The engine over any runtime** (`Engine_proofs`): `LockIsHeldOverAnyRuntime`
and `SuccessIsNeverFeigned` whatever the faults; `HonestRuntimeIsNotAccused`,
`DecisionsStayFresh` and `EngineImplementsSlotService` for the slots without any, while
the runtime does what it likes to the others. The
invariant is the lock, what is known of a pending activation (`JobInv`), and, for an
honest slot, that it holds what the transaction read before publication
and what it selected after (`HonestInv`). The argument never asks who waits, so
the type of the lines of waiters is no part of it; `EngineTyping` adds it.

**The selector** (`ControlLoop_proofs`): `SelectionIsBest`, `OrderDecidesNothing`,
`ComparisonsAreLawful`, `TiesKeepTheCurrent`, `NamespacesDecideApart`, for every table,
inventory, context and resources. The only state is the slot, and `Configured` (the
configuration never changes, contexts and resources are what they may be) is all the
invariant there is; the work is in the operators. `SelectionIsBest` compares the selector
with the meaning of feasibility but takes the comparisons as they are;
`ComparisonsAreLawful` is about these. `BetterIsStrict` and `BetterIsTotal` show that the sort key orders evaluations of different identities
strictly; `BestExists` finds a best one among any number of them, by the least place
up to which there would be none (which needs transitivity only); `SelectIsBest` gives
what `select()` returns. Two best policies have the same identity, hence are the same
policy: so it does not matter which one `min()` meets first, which is
`SameContentSameSelection`.

**The in-memory adapter** (`InMemory_proofs`): `RuntimeIsSound`,
`AttributionIsRight`. They rest on what the dictionary of models gives back: an entry
with the identity asked for, and that same entry when it is asked for again
(`AvailableAgain`), so a model that was activated can be activated. `RequestInv` says
what a suspended request has looked up.

**Asset preparation** (`Assets_proofs`): `PreparationIsSound`. A verified file is never replaced by anything else
(`PublicationStep`), so what `RunInv` says of a run (the files before the one it is at
are verified, and all of them once it verifies the directory) outlasts what every other
run does, and so does what it found when it began (`FoundInv`).

**CPU pressure** (`CpuPressure_proofs`): `CleanupIsSound`, `ContentionIsReal`. The
context manager's loops go over the workers while these die on their own; the
invariant says, loop by loop, what is known of the workers already visited
(`FinishInv` of samples, `ReapInv` of reaped processes, `ListInv` of the list), and
that stays true because a dead worker stays dead and CPU time does not run backwards.

**The trace of the qualification** (the end of `CpuPressure_proofs`): `LogsAreTruthful`
(`LogInv`, which is `TraceInv` but for its types), `OnlyCompleteRunsAreAccepted`, for
counters of any size. `ScriptFollows` establishes what the script has at which of its
154 places: that a read of `memory.current` is followed by one of `memory.peak`, that the
header, the two profiles of the pressure and the summary come in this order, that the
abstention follows a frame and a switch without a context, and that `summary.json` is
the last call. `EvidenceInv` then says that a profile being read lags behind the cgroup
and is consistent but for the read that is next (`CountersInv`), that what the log has reported
lies below the profile at hand and, during the pressure, below the one before it
(`ReportsInv`), that the exerciser only goes on while its session is sound
(`SoundInv`), and that no event since the last frame has moved the active model when
the abstention is reported (`AbstainInv`).

**The comparison** (`LiveSwap_proofs`): `ServingIsFeasible`, `AbstentionIsNeeded`,
`PhasesAreKeptApart`. A record joins three moments: the decision taken when the phase
began, the model active when the request arrived, and a replacement that may be
published in between, and none of the three properties is inductive. The invariant
(`IInv`) adds where the coroutine can be while the replacement is under way (`TaskInv`),
that the trace so far is the records of the requests that were served, in order, with
the activation's somewhere among them once it is reported (`TraceInv`), that a captured model
was feasible and that only a failure or an empty selection leaves the slot without the
selected model (`ServeInv`), and that the records of the phase agree with its preview
(`RecordsInv`). What these steps need of the selector is `PreviewDecides`: the preview
is a function of the battery and of the active model. The code evaluates it again in
reconcile(), before anything could change; the model has one evaluation for both, so that
they agree (`DecisionIsPreviewed`) is used in the proof and not counted as a result.

**What the workers count** (`LiveSwap_proofs`): `AcceptedCountsAgree`, `SummariesAgree`.
Two accepted workers whose strategies follow the same policies counted as many requests
served and turned away, and as many models published and loaded. How many of their
answers are late, correct or in time does vary between repetitions
(`examples/live_swap/COMPARISON.md` 339) and is no part of it. A second invariant,
`WorkInv`, adds to `IInv` how a worker that was judged had ended (`EndedInv`), that the load belongs to the
reconciliation that awaits it and finds its model unavailable only when the large file
is missing (`LoadInv`), that a recorded activation is the one of its reconciliation
(`ReportInv`), and that where a phase starts, and until the records hold an error, the
account is what the strategy counts when nothing disturbs it (`CountsInv`). A phase
served under a load counts the same as one served after it: a request finds a feasible
model just when it would with the load over (`CanServe`), so the interleaving decides
which model answers but not how many are answered (`StageEffect`, `PhaseAdds`). The
recursion over the phases is unfolded (`UndisturbedIs`), since their number is fixed, and
what the undisturbed strategy counts depends on its policies only (`TallyOfPolicies`).

**The demonstration** (second part of `LiveSwap_proofs`): `EvidenceIsSound`,
`MissesAreExplained`, `DemoIsSound` (`EvidenceIsTrue`, `NoFalseMiss` and `StageInv`, which
it reaches through an instance of `Replay`). The scenario fixes which model every stage
finds active, selects and leaves behind unless it raises (`ScenarioFacts`); `StageDecision`
has it from the lemmas about LiveSwap's decisions, once `SamePreview` has shown that the
two instances of the selector decide alike. The invariant (`DemoInv`) says
what is true of the status, the evidence and the slot while the transition has not reported
and once it has (`TransitionInv`), that a frame admitted afterwards is served by what is
still active, so that a timely frame whose output matches counts (`FramesInv`), which
stages can have been missed (`VerdictsInv`), and that the fourth and the fifth stage, which are served from
their first frame on, go through `2 * Frames` successive inputs (`CoverInv`).
`MissesAreExplained` therefore assumes `Inputs <= 2 * Frames`; the bundled workload has
20 inputs, and 12 frames are the default. With more inputs a run can be incomplete though nothing
went wrong.

**Session churn** (the end of `LiveSwap_proofs`): `SoundRunsPass`. The thread lets go of
what it holds before it takes the next call, so the empty call of the barrier leaves nothing
but the owner's reference; `SessionsInv` says at each place of `measure()` how many
sessions were made, which one the owner has and what the thread may still hold.

**Container orchestration** (`Qualify_proofs`): `PassingIsEarned`,
`CleanupIsComplete`. The script, the clients and the daemon go on beside each other;
the invariant says what stands still meanwhile. Only the launch in the foreground has
a client that waits (`ClientInv`), no container starts without its cidfile, and one
that has ended stays ended until it is removed (`BoxInv`); `failed` unset stands for every earlier launch having
passed (`EarnedInv`), and cleanup has removed and inspected what comes before the label
it is at, but for refusals (`ProgressInv`). A signal during cleanup (`cut`) is the one
thing that ends it early.

**Assumptions.** Those of the constants, named in the modules and evaluated by TLC:
identities are unique in an inventory (checked in `OnnxRuntime.__init__`), call
names are distinct, `Nil` is no value, the selector returns a model or `None`,
policies have distinct identities (checked in `BestFeasibleSelector.__init__`) and
integer priorities, tables and inventories are sequences, so is `Strategies`, `Nil` is
neither a model of the scenario nor a record, there is at least one worker, file,
strategy, repetition, request, step, frame and input; and `Direct = {}` or
`Inputs <= 2 * Frames` where a theorem says so.
The bounds `MaxWorkers`, `MaxSignals`, `MaxRefusals`, `MaxTicks` and `MaxCount` are only
numbers.

**Model-checked only.** Liveness (out of the prover's reach here):
`InferenceEnds`, `OtherSlotsProgress`, `ReconcileEnds`, `RetrySettles`,
`ManagerEnds`, `ScriptEnds`. Of EdgeTrace: that a complete run is never rejected
(the other half of `AcceptsExactlyCompleteRuns`), and the bounds in its type invariant, are about
139 records of one fixed script against one fixed table. A proof would go through them one by one,
which is what the run does.

## 5. What is not modelled

- `overhead.py`: four ways to make the same call over one session, timed serially.
- `churn.py`'s memory and timing figures, which it only records, and its check that
  a retained output stays unchanged, which is about native memory.
- `qualify.sh` 1-32, checks of the host and of the output directory before the first
  container: a failure there ends the script before it has anything to clean up.
- The bundled workload of `workload.py`, whose files come from the checkout; the
  validation workload, which has to resolve pages first, is modelled.
- The caller's input buffers (`onnx.py` 92): borrowed by the thread; what happens
  if the caller writes to them is stated as forbidden and depends on native code.
- In `compare.py`, interrupts while the executor is being shut down (361-408): the first
  interrupt of a worker is taken anywhere in its scenario, and a second while the task is
  gathered changes nothing, but one that breaks off the executor's own joins would let the
  temporary directory go before a thread has ended.
- Reports: latencies, distributions, HTML, printed lines, wording of errors.
- Fields that the edge verifier compares with a fixed value (container, header,
  reference scores) and its comparison of two runs.
- ONNX Runtime, the executor, the operating system and the dataset server are
  modelled only as far as the code depends on them.

## 6. Plan

Done, in order: Selector and ControlLoop; OnnxRuntime over ThreadPool with its
proofs; SlotService; Temms with its proofs and refinement; Engine over any runtime
with its proofs and refinement; LiveSwap and Replay over one Scenario; InMemory;
Assets; CpuPressure; EdgeTrace, then with the profiles and `summary.json`; faults per
slot in Engine; Qualify; Churn; the verdicts of Replay and of LiveSwap's workers, and
the sequence of workers; the proofs of ControlLoop, InMemory, Assets and CpuPressure,
then of LiveSwap, Churn, Qualify and Replay, of what LiveSwap's workers count, and of what
EdgeTrace's logs say.

To come: the tail of `verify.py`: two runs compared, restart without reuse.
