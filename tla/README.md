# SpikeForge: a TLA+ verification project

SpikeForge trains, serves and shares spiking neural networks. This directory
holds TLA+ models of the parts of it that keep state across threads, tasks,
processes or files, TLC configurations that check them on small instances, and
proofs checked by TLAPS. Paths below are relative to the repository's `src/`.

## 1. Inventory

| Part | State it keeps | Operations | Interacts with |
|---|---|---|---|
| Job cap, `server/concurrency.py` | `_active` under a `threading.Lock` | `try_acquire`, `release` | both services of every session |
| Training service, `server/training.py` | `_thread`, `_stop`, `_engine`, `_history`, `queue` | `start`, `stop`, `clear`, `adopt`, `save`, the worker | job cap; handlers on the event loop; the drain task reads `queue` |
| Pipeline service, `server/pipeline_service.py`, runner `spikeforge_serve/pipeline_runner.py` | `_thread`, `_stop`, `queue` | `start`, `stop`, the worker | job cap; handlers; drain |
| Dashboard server, `server/app.py`, `server/session.py`, `server/handlers.py` | sessions, the inbox, the stream task, the send lock | read loop, dispatcher, drains, `_cleanup` | everything of a session |
| Downloads, `server/downloads.py`, `spikeforge_hub/downloads.py` | child process, status, prepared set | `ensure`, `cancel` | dispatcher awaits it; the read loop cancels it |
| Hub cache and transfer, `spikeforge_hub/transfer.py`, `download_cli.py`, `cache.py` | files under the hub directory | pull, pinned pull, download, import | child process of the downloads; CLI |
| Community index, `spikeforge_hub/community.py` | `index.json`, `index.etag` | `fetch_index`, `load_cached` | catalog; pulls |
| Governed registry, `spikeforge_hub/registry*.py` | one JSON document | load, add, promote, save | CLI processes |
| Model serving, `spikeforge_serve/service.py`, `routes.py` | sessions, bundle, an RLock, step counter | `predict`, `stream`, `reset` | route handlers, all on the event loop's one thread; threads of embedding callers and of `serve_window` (`spikeforge/streaming/serving.py`) |
| Pipeline graph, `spikeforge_serve/pipeline.py` | none (pure) | validation, `topological_order` | pipeline runner |
| Topologies and NIR plans, `spikeforge/topology/`, `spikeforge/nir_bridge/`, rewriting in `spikeforge_targets/rewrite.py` | one sweep's values, delayed values | validate, order, sweep; plan, run; rewrite for a target | serving, exporters, the C runtime |
| Stores, `spikeforge/network/model_store.py`, `spikeforge_serve/pipeline_store.py` | checkpoint and pipeline files | `save`, `load`, `list`, `delete` | handlers, hub |
| Dashboard client, `client/src/useTraining.ts`, `trainingMessages.ts` | what the browser believes of the run | message reducers, senders | the server's messages |
| Encoders, networks, exporters, targets, dataset adapters | tensors | numerical code | not for a model checker |

What is hard here: a run's worker thread shares unlocked fields with handlers on
the event loop (`_thread`, `_engine`, `_history`, and the stop event); the job
counter spans sessions and must be released exactly once on every path a run may
end on; a client may disconnect at any point; cancellation crosses tasks and
processes; files are replaced beside their metadata. What makes each part
correct: exact slot accounting and the cap; one run per session; histories that
mix a run with nothing but a checkpoint loaded under it; workers' messages heard in
the order of the runs; stop, unload and disconnect that last; progress
of what waits for a slot; promoted models that are the published ones, an index
that is whole and not older than its ETag; registry stages that were earned and stay;
a step counter that tells what was run; an inbox that holds its rate; and graphs that
compute the same before and after they are ordered, planned and rewritten.

## 2. The modules

* `Concurrency` -- the slot counter. `TryAcquire` and `Release` are one step each:
  the code holds its lock around them.
* `JobSlots` -- the abstract promise of the cap: jobs claim and free slots one at a
  time and never hold more than `Cap`. No counter appears in it.
* `TrainingService` -- one service per session and its worker threads (*jobs*).
  `pc[j]` is the point of `_build_and_run`/`_run` a worker has reached, `thread[s]`
  is `_thread`, and so on; `left` is the number of batches the training loop has
  still to yield. A model is named by the job or checkpoint it came from, and a
  history is the set of models its points belong to: nothing else of the data
  matters to the properties. Four variables are auxiliary: `asked` records what the client
  last asked of a running job, `over` the checkpoint last restored while a job was
  alive, `earlier` the runs started before a job, `heard` the runs whose messages
  have reached the client.
* `PipelineService` -- the same for pipeline runs, with the error path that clears
  `_thread` in `_error()` and again in the `finally`.
* `JobServer` -- both services of every session on one event loop and one counter,
  and `_cleanup`. It instantiates both services; the `others` of each is the number
  of slots the other one's jobs hold, so the two modules are open systems whose
  environment (`OtherClaims`, `OtherReleases`) is here the other service. Once its
  client is gone a dispatcher is gone too, or it outlives `_cleanup` (`SessionTasks`
  shows how) and handles messages until a send raises: training messages
  that change something are answered, so the first of them ends it, while a pipeline
  is started or stopped without an answer, as often as the inbox asks. `revived` is
  auxiliary: the services whose stop event such a dispatcher has cleared.
* `SessionTasks` -- the asyncio tasks of one session and the downloader child: the
  reader (`reader`), the dispatcher (`pc`, and `at`, the message it handles), the
  stream tasks (`stream`), and the process (`child`). A job is only alive or not
  here; the services have modules of their own. A stream may also fail by itself
  while its client is there (`StreamRaises`, with the constant `StreamMayRaise`), and
  the inference after `configure` and `select_sample` (`Infer`) ends in a result, a
  report of what is missing, or an exception. `landed`, `told` and `disk` are
  auxiliary: whether a cancel found the child running, what the client last heard,
  and what is completely on disk.
* `RateWindow` -- `Session.offer`: the deque of arrivals (`arrivals`), the inbox and the
  clock, which may move by any amount between two messages. `taken` is auxiliary:
  every arrival ever queued.
* `HubStore` -- one machine's hub cache, shared without a lock by processes that pull,
  pull a pinned version, download and import: `index.json` with its temporary file and
  its ETag, the bytes under the entry's directory, the checkpoint in the model store.
  Publication *n* of a model is document *n*, which names bytes *n*; a cut or altered
  file is `Torn`, a just opened one `Empty`. Every step may be a process's last, and
  transfers may fail or deliver altered bytes (`faults` bounds both). `overlap`
  and `raced` are auxiliary: which sections two processes were in at once, and
  whether the artifact changed between check and load.
* `Registry` -- the governed registry's document and the administrators who load it,
  check it, truncate it and write it, each step apart from the others, with a kill
  anywhere. The constant `Registered` holds the entries, of any stage, that
  callers of `Registry.add` put in; the command line only promotes. `promised` and `crossed` are auxiliary.
* `Serving` -- `ServingService` under its `RLock`: the sessions' steps, the
  step counter, and the calls of each thread, the innermost last, which say who holds the
  lock and how deep, streams that are suspended with it held included. A thread may go on
  with any of its suspended streams, not only the last (`Turns`). `performed` and `unfinished` are auxiliary.
* `PipelineGraph` -- a document of nodes and edges, the validation, and Kahn's algorithm
  with its in-degrees, ready list and remaining edges as state.
* `NirPlan` -- a topology with merges and delayed edges; its order, validation and sweep;
  the planner's graph; the rewriting of pools to a scaled form; and both graphs run by
  the interpreter beside the sweep. A node sums its
  inputs and the input is an impulse, so a value counts the ways of each delay into a
  node: a missing edge, a lost delay or a swapped end shows in it. A stage of several nodes is taken as one node.
  `Outputs` is `_outputs()` as a recursive function on `Resolved`, the stages that
  `_collect_edges` reaches; `Total` is `sum_inputs`; `Settled` gives every node the value
  of its inputs, which is what draining the graph in order computes; `Acyclic` says
  that the draining leaves nothing. Sets take the place of the code's orders, which
  change no sum.
* `MCTraining`, `MCPipeline`, `MCJobServer`, `MCSession`, `MCHub` -- values and symmetry
  for TLC. `MCLibrary` runs the six modules just above: they share no state and do not
  call one another, so `part`, chosen at the start, says which of them moves and the
  others rest in one initial state.
* `TrainingService_proofs`, `PipelineService_proofs`, `JobServer_proofs`,
  `SessionTasks_proofs`, `Hub_proofs`, `Serving_proofs` (of `Serving` and `PipelineGraph`),
  `NirPlan_proofs`, `Library_proofs` (of `RateWindow` and `MCLibrary`) -- theorems
  (section 5).

Grain. CPython switches threads only at calls and loop back-edges, so a worker's
step is the code between two such points that another thread can tell apart: a
message put, a flag read, an assignment to a shared field. A handler runs on the
event loop and is one step up to a point where others can run. `adopt()` builds a
model on the loop thread, which takes long, so it is three steps during which
workers move and handlers do not (`loop` is busy).

In `SessionTasks` a step runs from one `await` that may suspend to the next, as asyncio
does. `Task.cancel()` is a flag (`pending`) that takes effect when the task resumes,
except inside `Session.cancel()`, whose `contextlib.suppress(CancelledError)` cannot
tell the end of the awaited stream from its own task being cancelled: there the flag is
lost. Sends succeed until the reader has seen the client go, and may fail from the
moment it goes.

Operators whose comment begins with "Mutant:" are not part of the model: each is a
plausible bug in the operator it resembles, named in `PROJECT.json`, and shows that
the property listed with it can fail.

## 3. The runs

| Run | Instance | Shows |
|---|---|---|
| `MCTrainingSession` | 1 session, 2 jobs, 1 checkpoint, 2 batches, spawn may fail, cap 2 shared with others | runs of a session never overlap, share a history with nothing but a checkpoint loaded under them, and are heard in order; accounting exact; `JobSlots` implemented |
| `MCPipelineSession` | 1 session, 3 runs, 1 node, cap 2 shared with others | accounting and `JobSlots` for pipelines; a handle is lost only after a failed run |
| `MCJobServerCap` | 2 sessions, 1 job, 1 run, 1 batch, 1 node, cap 1, spawn may fail | one exact counter for both kinds; each service implements its module; disconnected clients' runs begin nothing more unless an outliving dispatcher has cleared their stop event |
| `MCJobServerFree` | 1 session, 1 job, 1 run, 1 checkpoint, cap 2, no batches or nodes, spawn may fail, fairness | disconnected clients' slots come back; a busy server is free again unless every slot has leaked |
| `MCTrainingStopLoad` | violation | `adopt()` revokes a stop: the run trains on |
| `MCTrainingUnload` | violation | a model unloaded during its build comes back |
| `MCPipelineOverlap` | violation | the second clearing of `_thread` loses a later run |
| `MCSession` | 2 configurations, 2 stream identities, inbox of 1, any subset of the datasets on disk, streams may raise, fairness | one stream, of the configured engine; stopped means stopped; cancels of downloads reach their own; complete datasets only; `_cleanup` ends |
| `MCSessionOrphan` | violation | a download outlives its session |
| `MCSessionTold` | violation; no stream fails by itself | a configure whose download is cancelled leaves the client believing that a stream runs |
| `MCLibrary`, hub | 2 processes, 3 commands, 2 publications, 2 faults | the index is whole and never older than its ETag; a promoted checkpoint is the published model |
| `MCLibrary`, registry | 2 administrators, 2 models, every entry of the first stage and one of the last registered by callers, 1 kill | stages are earned whatever races; a promotion stays unless commands cross |
| `MCLibrary`, serving | 2 threads, 2 sessions, 3 calls of 2 frames, lock depth 2 | the counter equals the frames run, but for those of failed calls |
| `MCLibrary`, graph | every document of up to 3 nodes and 3 edges | the order is topological; nodes are left out only for a cycle |
| `MCLibrary`, nir | every topology of 3 stages and up to 4 links, 2 of them pools, 3 steps | plan and rewriting compute what the topology computes; the C runtime loads them |
| `MCLibrary`, rate | burst 3, window 2, inbox 2, clock to 6 | no window holds more than the burst |
| `MCHubLatest` | violation | a model published again cannot be pulled any more |

Bounds. Two jobs of one session meet every overlap of an old and a new worker;
the pipeline's lost handle needs three runs (the failed one, the one that is lost,
the one that overlaps it). Two batches let a run be between batches with a point
in its history. `others` claims slots on its own, so the cap is contended with few
jobs. Each identity of `Job` and `Run` is used once; a finite set of them bounds
the number of runs, and the theorems lift that bound. Queues are bounded by the
messages the runs send. In `MCSession` a finished stream's identity is used again, so
behaviours are unbounded; two identities are enough because a stream is created only
after the one before it has ended, and `_cleanup` may still be about to resume for
that one. An inbox of one lets a message wait behind the one being handled.
`MCJobServerFree` needs no batches: a loop ends whether it had one or none, and what could
keep a slot for ever is a wait, which no step inside the loop adds. `MCJobServerCap` has both.

In `MCLibrary` two publications are enough for stale bytes, a stale index and a stale
ETag; the second has the first one's file name, as republishing gives it, and the pinned
file sorts before both, so that `_cached_artifact` meets the wrong file. Three commands
let a second process act between the steps of a first and a third one find what they
left. Three nodes and edges have every cycle shape there is with parallel edges and
self-loops, and the theorems lift that bound. Three stages with four links have
delayed cycles through a merge, nested merges and pools in a row; three steps let a
delayed value be seen once it has been delayed twice. Clock 6 is three windows.

`MCLibrary` and `MCHubLatest` stop when their commands, calls or steps are used up.
Deadlock is checked in the service runs. The server runs switch it off: when all
clients have gone and their runs have ended, the system stops; so does `MCSession`.

Fairness, in `JobServer!FairSpec`: a started thread is scheduled (weak
fairness of each worker), and a synchronous call on the loop thread returns.
Batches, builds and nodes are taken to end. Clients owe nothing: no fairness on
starts, stops or disconnects. In `SessionTasks!FairSpec`: the event loop resumes a task
that can go on, executor calls return, and a child that was sent SIGTERM dies. How long
a download takes is left open, and so are the client's doings.

## 4. What the violations say

* `adopt()` (`server/training.py:167`) clears the stop event without looking for a
  running worker; `handle_load_model` has no such test either. A client that stops a
  run and loads a model at once gets a run that goes on training in the old model,
  appending its points to the loaded model's history, and holding its slot.
  `HistoryOfOneRun` allows just this mixture: a live run's points with those of the
  checkpoint last loaded under it.
* `clear()` during a build is undone by `self._engine = engine`
  (`server/training.py:155`): the worker does not look at the stop event before it
  publishes.
* `_error()` and the `finally` of `_run` in `server/pipeline_service.py:107,98` both
  clear `_thread`. A run accepted between the two is lost to `is_running`.
* `_cleanup` (`server/app.py:100-114`) cancels the dispatcher while it polls a download;
  nothing terminates the child. The next session that needs the dataset starts a
  second one beside it.
* `handle_configure` (`server/handlers.py:71-73`) has stopped the stream when its download
  is cancelled, and returns without a `run_state`. (A stream that fails by itself does not tell
  the client either; the run leaves such failures out, so that it does not rest on them.)
* `_pull_latest` (`spikeforge_hub/transfer.py:411`) downloads only if the entry's directory
  is empty. Once a model has been published again, its old bytes are imported against the new
  checksum and refused, at every pull, until somebody removes the directory, or downloads
  the entry again where the file's name is still the same.

What the models show without a run of their own. `start()`
(`server/training.py:131-138`, `server/pipeline_service.py:43-49`) claims before
`Thread.start()`, which may raise, and nothing releases: the `leaked` jobs count for
ever, and once every slot has leaked the server stays busy. That is the exception in
`BusyIsTemporary`.

A dispatcher cancelled inside `Session.cancel()` goes on: after `_cleanup` it may
start a training run, load a model under one that was told to stop
(`JobServer!LateTrainHandler`), or start pipelines (`LatePipelineHandler`).
Such runs begin batches and nodes for a client that has gone; `DisconnectIsFinal`
excepts them and nothing else. If the dispatcher was replacing a stream, `_cleanup` drops
the handle of the new one (`SessionTasks!Replace` then `CleanupReturns`), so
`OneStream` and `StreamShowsEngine` speak of sessions that are not closed, and
`DisconnectEnds` allows a dispatcher left waiting.

`HeardInOrder` is about what workers send. `handle_train` itself sends `train_state` past
the queue (`server/handlers.py:148`), so an earlier run's `finished` that is still queued
may reach the client after it, and the client then takes the new run for ended.

The planner keeps a set of `(node, delayed)` pairs for a merge (`spikeforge/nir_bridge/planner.py:56,78,129`): two ways
from one node through merges that are both delayed or both not become one edge, and a
way delayed twice is delayed once, where the topology's sweep counts each.
`WaysAreDistinct`, the precondition of `PlanAgrees`, leaves such topologies out.

`IndexIsWhole`, `EtagNotAhead` and `PromotedIsPublished` are stated for refreshes and
imports that do not overlap (`overlap`, `raced`), for the code has no lock: two
processes that store an index at once share `index.json.tmp`, and a file replaced
between the gate and the load is promoted under the checksum of the one before.
Likewise `PromotionSurvives` speaks of commands that did not cross (`crossed`); kills,
failed transfers and every order of whole commands are in. `StagesAreEarned` says of every
entry that it was registered at its stage or promoted from the stage below.

## 5. The proofs

`TrainingService_proofs` proves, for every value of the constants:

* `TypeCorrect`: types.
* `TrackingHolds`, `OneRunHolds`: `RunsAreTracked` and `OneRunPerSession`. Neither is
  inductive: a handle is also read while its thread is only releasing its slot, and
  a worker's owner must be a session. `Tracked` adds `HandleNamesWorker`: `_thread` names
  nobody or a started job of that very session (so that no worker's
  clearing can hit another's handle). It may still name a job that has ended: a flush
  that raises leaves it bound.
* `SlotAccountingHolds`, `SlotRefinement`: the counter equals the slots held, the cap
  is never exceeded, and every step is a claim, a release or a stutter of
  `JobSlots`. The invariant is `SlotInv`; the counter's floor at zero in `release()`
  is never reached because the releasing job itself is counted.

`PipelineService_proofs` proves the same of `PipelineService`, and what remains of the
handle's promise there:

* `TypeCorrect`, `SlotAccountingHolds`, `SlotRefinement`, as above.
* `LossHolds`: `LostOnlyAfterFailure`. The property says who *once* did the damage, which
  is not inductive. `LossExplained` strengthens it: a live worker that `_thread` does
  not name has cleared `_thread` itself on an error path, or a different run of the
  session has (`Cleared`). `LocalState` ties where a worker is to its reason, so that the
  first clearing is known to follow an error. A start gives back a handle that
  names the fresh worker, so only a clearing can break the invariant, and it brings its
  own witness.

`SessionTasks_proofs` proves every safety property `MCSession` checks, for any
configurations, streams and inbox bound: `TypeCorrect`, `OneStreamHolds`,
`StoppedHolds`, `ShowsHolds`, `CancelHolds`, `PreparedHolds` and `SupervisedHolds`. They
share one inductive invariant, `Inv`, in three parts besides the types:

* `Local`: what the dispatcher can be handling at each await. It is cancelled only
  when the client is gone, so it never leaves a child behind while the client is there;
  and a message `run` builds an engine only when there is none.
* `Streams`: `OneStream`, and why it survives `Session.cancel` in two tasks at once. The
  stream the dispatcher awaits is the only one alive, so when it has ended, none is, and the
  handle may be dropped or replaced whatever `_cleanup` has done to it meanwhile. Between
  the end of that stream and the answer (`Quiet`) no stream is created, which is what
  `StoppedIsStopped` and `StreamShowsEngine` rest on.
* `Downloads`: from the first snapshot of a download to its settling, its status is
  "cancelled" just when a cancel has landed on its child, and a child that exited well
  has left its dataset on disk.

Assumptions: only those that the modules state of their constants
(`TrainingAssumption`, `HubAssumption` and so on). The set of holders grows by one job at
a time, so `Job` and `Run` need not be finite. TLC checks what the proofs strengthen on the
instances above.

`TrainingService_proofs` also has `HistoryHolds` and `MessagesHold`. `HistoryOfOneRun` is
inductive beside `Tracked`: a worker that has not cleared its handle is the only one of its
session, so a start, which empties the history, finds none alive, and what the history holds
later is the run's own or was restored under it. `HeardInOrder` needs `MessageInv`: what is
queued or heard was sent by runs that have started (`Senders`), and the runs started
before another send no more (`EarlierAreOver`), for `is_running` refused until their
handle was cleared or their thread was over.

`JobServer_proofs` proves `SlotAccountingHolds` for the shared counter, and
`TrainingRefinement` and `PipelineRefinement`: every step of the server is, seen from one
of the services, a step of that service, of its environment, or a stutter. The environment
of each is the other one, so its slots are counted by the cardinality of a set of
holders; the proofs show that a step of the other service changes it by at most one and
only by a claim or a release, also for a session whose client has left.

The same module instantiates the proofs of the two services, and gets from the
refinements what was proved of each alone: `TypesHold`, the types of the whole server, and
`TrainingSafetyHolds`, that one run at a time, unmixed histories and messages in order
survive other sessions, pipelines and disconnections. `DisconnectHolds` proves
`DisconnectIsFinal`; its invariant `GoneInv` says that each stop event of a session whose client
is gone is set, unless the service is in `revived`: `_cleanup` sets both, and only a handler
of a dispatcher that outlives it clears one again.

`Hub_proofs` is about the two sets of files that processes share without a lock.
For `HubStore`, with any processes, publications, file names and faults, `HubInv` adds
three parts to the types:

* `Verified`, for `PromotedHolds`: between the gate and the load, a process works on a file
  that holds what it verified, or it is marked as raced. The mark is set by
  every write to that file, so the proof has one lemma (`WritingKeeps`) for all of them.
* `StoresAlone`, for `IndexHolds`: the one process in `_store` writes to the file it moves,
  and what it moves has been loaded. With a second one the open file may
  already be the index, which is what the property excepts.
* `RefreshesAlone`, for `EtagHolds`: the answer on its way is at least as new as the index
  and at most what the server has; so the ETag, written last, is that of the index beside
  it or of one before.

For `Registry`: `EarnedHolds`, from the invariant that the document and every document
an administrator has loaded or is about to write are earned; so any mixture of races and
crashes writes an earned one. `SurvivalHolds`, from the invariant that, while no commands
have crossed, the one in the middle of a command is about to write everything that the
document holds or held before truncation.

`Serving_proofs`, of `Serving`: `ServingTypesHold` and `CountHolds`, from mutual exclusion
under the reentrant lock and an account of the frames each call in progress has run and
not yet counted.

`Serving_proofs`, of `PipelineGraph`: `GraphTypesHold`, `OrderHolds` and `CycleHolds`, for every
document. The invariant says
that an entry of the in-degree map is the number of remaining edges into that node, and
that the remaining edges are those whose source has not been taken.

`NirPlan_proofs` proves, for every finite topology, set of pools and number of steps:

* `NirTypesHold`: types.
* `ExecutableHolds`: `PlanIsExecutable`. A set of nodes of the plan in which each has an
  undelayed predecessor would give such a set of stages (the stages in it and those
  whose output it carries undelayed), and there is none in a valid topology (`PlanAcyclic`);
  the same set without its Scales answers for the rewritten graph (`RewireAcyclic`). What
  is reachable in the topology is fed in the plan (`OutputsNonempty`).
* `RewriteHolds`: `RewriteAgrees`, from the invariant that each Delay of the rewritten
  graph holds what its counterpart in the plan holds.
* `AgreesHold`: `PlanAgrees`. The invariant `AgreeInv` speaks of merge stages as well, which have
  no node: the value of a merge is the sum of the nodes that carry it, where none is
  delayed. That is what a delayed edge out of it reads a step later. A step is
  proved along the topology's own order: what arrives at a stage by its edges is, split up
  by `TotalOfTotals`, what arrives by the planned edges (`StageSum`); this is where
  `WaysAreDistinct` is used.

Three groups of lemmas carry these. Sums (`TotalOfTotals`, `TotalRenamed`, `TotalInsert`):
`Total` counts pairs, so sums are split and renamed by bijections. Recursion
(`Recursion`): a function defined along the edges of an acyclic graph exists, since the
part of the graph that no partial solution covers has a minimum. That gives the
equations of the two recursive definitions (`OutputsEquation`, `SettledEquation`), which is
all the rest uses of them. And `SameTopology`: what is computed of a topology that does
not change does not change.

`Library_proofs`, of `RateWindow`: `RateTypesHold` and `BurstHolds`. The code counts what is left of a
deque after expiry; the property is about all arrivals ever accepted. The invariant
ties the two: the deque is the tail of the accepted arrivals, in order, and everything
before it is older than a window. Of `MCLibrary`: `PartsHold`, that the composition TLC explores
implements the specification of each part, and with it `TypesHold`.

`NirAssumption` says that stages are named apart from the nodes that stand for no stage:
`input` and `output` are reserved (`spikeforge/nir_bridge/planner.py:25`), while that no stage
or other node is called like a Scale is something `spikeforge_targets/rewrite.py:84` takes for
granted. `JobServerAssumption` names what both services assume of their constants.

Only model-checked: liveness (`DisconnectFreesSlots`, `BusyIsTemporary`,
`CancelFreesDispatcher`, `DisconnectEnds`), which rests on fairness. Every safety
property of a passing run is the statement of a theorem.

## 6. Not modelled

* The HTTP and WebSocket routes of the serving package, its backends and
  authentication: they parse, call the service and format replies.
* Pushing to the hub, bundle formats, weight mapping: formats and numbers.
* The hub download managers: `SessionTasks` has the one of the datasets, of the same
  shape; what their child does to the cache is in `HubStore`.
* Deprecation, revocation, audits and signatures of the registry.
* Model and pipeline stores: files written in place, as the registry's.
* The dashboard client.
* Tensor arithmetic (encoders, networks, training arithmetic), exporters, ONNX, device cost
  models and simulators, quantisers, readers of data formats: numerical code or pure input
  and output, by far the larger part of the repository and the reason why the lines the
  models stand for are a small share of it.

`PROJECT.json` lists every part with its status and every hazard with the property that
covers it.
