-------------------------- MODULE TrainingService --------------------------
(***************************************************************************)
(* server/training.py: one TrainingService per session.  Its methods run   *)
(* on the event loop; each accepted run is a daemon thread, here a job.    *)
(*                                                                         *)
(* Grain.  CPython switches threads at calls and loop back-edges, so a     *)
(* worker step is the code between two such points that other threads can  *)
(* tell apart, and a method that makes no long call on the loop thread is  *)
(* one step.  adopt() builds a model on the loop thread while a worker may *)
(* be running: it is three steps, and `loop' keeps the other handlers and  *)
(* the drains waiting meanwhile.                                           *)
(*                                                                         *)
(* A model is named by what produced it: the job that built it, or the     *)
(* checkpoint it was loaded from.  A metric history is the set of the      *)
(* models its points belong to.                                            *)
(***************************************************************************)
EXTENDS Concurrency, FiniteSets, Sequences

CONSTANTS
  Session,       \* the connected clients, one service each
  Job,           \* identities for worker threads, each used at most once
  Checkpoint,    \* saved models a client may load
  None,          \* Python's None
  MaxBatches,    \* bound on the batches of a run (epochs * batches per epoch)
  SpawnCanFail   \* whether Thread.start() may raise "can't start new thread"

ASSUME TrainingAssumption ==
  /\ None \notin Session \union Job \union Checkpoint
  /\ Job \intersect Checkpoint = {}
  /\ MaxBatches \in Nat
  /\ SpawnCanFail \in BOOLEAN

VARIABLES
  others,    \* slots claimed by jobs of other services (pipelines)
  thread,    \* _thread of each session's service
  stop,      \* _stop, a threading.Event
  engine,    \* _engine
  history,   \* _history
  queue,     \* the asyncio.Queue from the worker to _drain_training
  loop,      \* what keeps the event loop busy: None, or the adopt() under way
  pc,        \* where each job is in _build_and_run / _run
  owner,     \* the session a job was started for
  left,      \* batches engine.train has left to yield
  \* History variables: the code keeps no such record.
  asked,     \* the last thing the client asked of a running job
  over,      \* the checkpoint whose history was last restored under a live job
  earlier,   \* the runs of its session that were started before a job
  heard      \* the runs whose messages have reached each session's client

record == <<asked, over, earlier, heard>>
vars == <<active, others, thread, stop, engine, history, queue, loop, pc,
          owner, left, record>>

\* A worker that has not cleared _thread yet.
Working == {"build", "unbuilt", "built", "check", "batch", "done", "flush"}

\* A worker that has not released its slot; a "leaked" one never started.
Holding == Working \union {"release", "leaked"}

Stage == Holding \union {"unborn", "dead"}

Model == Job \union Checkpoint

Msg == [kind : {"metrics", "error", "finished", "failed"}, job : Job]

Put(s, kinds, j) ==
  queue' = [queue EXCEPT
              ![s] = @ \o [i \in 1..Len(kinds) |-> [kind |-> kinds[i], job |-> j]]]

Goto(j, to) == pc' = [pc EXCEPT ![j] = to]

\* Mutant: a worker that was told to stop no longer counts.
IsRunningUnstopped(s) ==
  thread[s] # None /\ ~stop[s] /\ pc[thread[s]] \in Working \union {"release"}

\* is_running: a handle whose thread is alive.
IsRunning(s) == thread[s] # None /\ pc[thread[s]] \in Working \union {"release"}

JobsIn(s, stages) == {j \in Job : owner[j] = s /\ pc[j] \in stages}

RunsOf(s) == JobsIn(s, Stage \ {"unborn"})

\* __init__ of each session's service, and no worker yet.
ServiceInit ==
  /\ thread = [s \in Session |-> None]
  /\ stop = [s \in Session |-> FALSE]
  /\ engine = [s \in Session |-> None]
  /\ history = [s \in Session |-> {}]
  /\ queue = [s \in Session |-> <<>>]
  /\ loop = None
  /\ pc = [j \in Job |-> "unborn"]
  /\ owner = [j \in Job |-> None]
  /\ left = [j \in Job |-> 0]
  /\ asked = [j \in Job |-> "run"]
  /\ over = [j \in Job |-> None]
  /\ earlier = [j \in Job |-> {}]
  /\ heard = [s \in Session |-> {}]

Init == ServiceInit /\ active = 0 /\ others = 0
-----------------------------------------------------------------------------
(* The event loop: handlers and drains.                                    *)

\* Mutant: the history is left to the previous run's points.
ClaimKeepsHistory(s, j) ==
  /\ loop = None /\ ~IsRunning(s) /\ pc[j] = "unborn"
  /\ TryAcquire
  /\ stop' = [stop EXCEPT ![s] = FALSE]
  /\ thread' = [thread EXCEPT ![s] = j]
  /\ owner' = [owner EXCEPT ![j] = s]
  /\ earlier' = [earlier EXCEPT ![j] = RunsOf(s)]
  /\ UNCHANGED <<others, engine, history, queue, loop, asked, over, heard>>

\* handle_train past its is_running test, and start(): the slot is claimed
\* first, then the service is reset and the worker spawned.  Nothing else of
\* this session runs on the loop in between, and no worker of it is alive.
ClaimAndReset(s, j) ==
  /\ loop = None
  /\ ~IsRunning(s)
  /\ pc[j] = "unborn"
  /\ TryAcquire
  /\ stop' = [stop EXCEPT ![s] = FALSE]
  /\ history' = [history EXCEPT ![s] = {}]
  /\ thread' = [thread EXCEPT ![s] = j]
  /\ owner' = [owner EXCEPT ![j] = s]
  /\ earlier' = [earlier EXCEPT ![j] = RunsOf(s)]
  /\ UNCHANGED <<others, engine, queue, loop, asked, over, heard>>

Start(s, j) ==
  /\ ClaimAndReset(s, j)
  /\ Goto(j, "build")
  /\ \E n \in 0..MaxBatches : left' = [left EXCEPT ![j] = n]

\* Thread.start() raises: the exception leaves start() with the slot claimed
\* and _thread bound to a thread that never lives.
StartRaises(s, j) ==
  /\ SpawnCanFail
  /\ ClaimAndReset(s, j)
  /\ Goto(j, "leaked")
  /\ UNCHANGED left

Ask(s, what) ==
  /\ asked' = [j \in Job |-> IF j \in JobsIn(s, Working) /\ asked[j] # "unload"
                               THEN what ELSE asked[j]]
  /\ UNCHANGED <<over, earlier, heard>>

\* stop(): handle_stop_train, and _cleanup of a disconnected session.
Stop(s) ==
  /\ loop = None
  /\ stop' = [stop EXCEPT ![s] = TRUE]
  /\ Ask(s, "stop")
  /\ UNCHANGED <<active, others, thread, engine, history, queue, loop, pc,
                 owner, left>>

\* clear(): handle_new_model.
Clear(s) ==
  /\ loop = None
  /\ stop' = [stop EXCEPT ![s] = TRUE]
  /\ engine' = [engine EXCEPT ![s] = None]
  /\ Ask(s, "unload")
  /\ UNCHANGED <<active, others, thread, history, queue, loop, pc, owner, left>>

\* adopt(): handle_load_model has no is_running test.  _stop is cleared, the
\* model built on the loop thread (which may fail), then the history restored.
AdoptBegins(s, c) ==
  /\ loop = None
  /\ stop' = [stop EXCEPT ![s] = FALSE]
  /\ loop' = [at |-> "make", session |-> s, checkpoint |-> c]
  /\ UNCHANGED <<active, others, thread, engine, history, queue, pc, owner,
                 left, record>>

AdoptBuilds ==
  /\ loop # None /\ loop.at = "make"
  /\ engine' = [engine EXCEPT ![loop.session] = loop.checkpoint]
  /\ loop' = [loop EXCEPT !.at = "restore"]
  /\ UNCHANGED <<active, others, thread, stop, history, queue, pc, owner, left,
                 record>>

AdoptRestores ==
  /\ loop # None /\ loop.at = "restore"
  /\ \E h \in {{loop.checkpoint}, {}} :   \* {}: a checkpoint without meta
       history' = [history EXCEPT ![loop.session] = h]
  /\ loop' = None
  /\ over' = [j \in Job |-> IF j \in JobsIn(loop.session, Working)
                              THEN loop.checkpoint ELSE over[j]]
  /\ UNCHANGED <<active, others, thread, stop, engine, queue, pc, owner, left,
                 asked, earlier, heard>>

\* No model could be made, or the new one stays with the old one's history.
AdoptRaises ==
  /\ loop # None
  /\ loop' = None
  /\ UNCHANGED <<active, others, thread, stop, engine, history, queue, pc,
                 owner, left, record>>

\* _drain_training forwards one message.
Drain(s) ==
  /\ loop = None
  /\ queue[s] # <<>>
  /\ queue' = [queue EXCEPT ![s] = Tail(@)]
  /\ heard' = [heard EXCEPT ![s] = @ \union {Head(queue[s]).job}]
  /\ UNCHANGED <<active, others, thread, stop, engine, history, loop, pc,
                 owner, left, asked, over, earlier>>

\* A job of another service claims or frees a slot.
OtherClaims ==
  /\ loop = None
  /\ TryAcquire
  /\ others' = others + 1
  /\ UNCHANGED <<thread, stop, engine, history, queue, loop, pc, owner, left,
                 record>>

OtherReleases ==
  /\ others > 0
  /\ Release
  /\ others' = others - 1
  /\ UNCHANGED <<thread, stop, engine, history, queue, loop, pc, owner, left,
                 record>>
-----------------------------------------------------------------------------
(* A worker thread: _build_and_run and _run.                               *)

BuildSucceeds(j) ==
  /\ pc[j] = "build"
  /\ Goto(j, "built")
  /\ UNCHANGED <<active, others, thread, stop, engine, history, queue, loop,
                 owner, left, record>>

\* Mutant: the failed build returns outside the try whose finally releases.
BuildRaisesOutsideTry(j) ==
  /\ pc[j] = "build"
  /\ Put(owner[j], <<"error", "failed">>, j)
  /\ thread' = [thread EXCEPT ![owner[j]] = None]
  /\ Goto(j, "dead")
  /\ UNCHANGED <<active, others, stop, engine, history, loop, owner, left, record>>

BuildRaises(j) ==
  /\ pc[j] = "build"
  /\ Put(owner[j], <<"error", "failed">>, j)
  /\ left' = [left EXCEPT ![j] = 0]
  /\ Goto(j, "unbuilt")
  /\ UNCHANGED <<active, others, thread, stop, engine, history, loop, owner,
                 record>>

Publish(j) ==
  /\ pc[j] = "built"
  /\ engine' = [engine EXCEPT ![owner[j]] = j]
  /\ Goto(j, "check")
  /\ UNCHANGED <<active, others, thread, stop, history, queue, loop, owner,
                 left, record>>

\* Mutant: the loop does not look at the batches it has left.
CheckIgnoresLeft(j) ==
  /\ pc[j] = "check" /\ ~stop[owner[j]]
  /\ Goto(j, "batch")
  /\ UNCHANGED <<active, others, thread, stop, engine, history, queue, loop,
                 owner, left, record>>

\* engine.train looks at should_stop before each batch it has.
CheckContinues(j) ==
  /\ pc[j] = "check"
  /\ left[j] > 0 /\ ~stop[owner[j]]
  /\ Goto(j, "batch")
  /\ UNCHANGED <<active, others, thread, stop, engine, history, queue, loop,
                 owner, left, record>>

\* Mutant: _thread is cleared before the terminal state is queued.
CheckEndsAndClears(j) ==
  /\ pc[j] = "check" /\ (left[j] = 0 \/ stop[owner[j]])
  /\ thread' = [thread EXCEPT ![owner[j]] = None]
  /\ left' = [left EXCEPT ![j] = 0]
  /\ Goto(j, "done")
  /\ UNCHANGED <<active, others, stop, engine, history, queue, loop, owner, record>>

CheckEnds(j) ==
  /\ pc[j] = "check"
  /\ left[j] = 0 \/ stop[owner[j]]
  /\ left' = [left EXCEPT ![j] = 0]
  /\ Goto(j, "done")
  /\ UNCHANGED <<active, others, thread, stop, engine, history, queue, loop,
                 owner, record>>

\* The batch is trained, its point appended to whatever _history is now, and
\* its metrics queued.
Batch(j) ==
  /\ pc[j] = "batch"
  /\ left' = [left EXCEPT ![j] = @ - 1]
  /\ history' = [history EXCEPT ![owner[j]] = @ \union {j}]
  /\ Put(owner[j], <<"metrics">>, j)
  /\ Goto(j, "check")
  /\ UNCHANGED <<active, others, thread, stop, engine, loop, owner, record>>

\* Mutant: the error path clears _thread too, as PipelineService does.
TrainRaisesAndClears(j) ==
  /\ pc[j] \in {"check", "batch"}
  /\ Put(owner[j], <<"error", "failed">>, j)
  /\ thread' = [thread EXCEPT ![owner[j]] = None]
  /\ left' = [left EXCEPT ![j] = 0]
  /\ Goto(j, "flush")
  /\ UNCHANGED <<active, others, stop, engine, history, loop, owner, record>>

TrainRaises(j) ==
  /\ pc[j] \in {"check", "batch"}
  /\ Put(owner[j], <<"error", "failed">>, j)
  /\ left' = [left EXCEPT ![j] = 0]
  /\ Goto(j, "flush")
  /\ UNCHANGED <<active, others, thread, stop, engine, history, loop, owner,
                 record>>

Finish(j) ==
  /\ pc[j] = "done"
  /\ Put(owner[j], <<"finished">>, j)
  /\ Goto(j, "flush")
  /\ UNCHANGED <<active, others, thread, stop, engine, history, loop, owner,
                 left, record>>

\* `self._thread = None', after persistence.flush() or a failed build.
ClearHandle(j) ==
  /\ pc[j] \in {"flush", "unbuilt"}
  /\ thread' = [thread EXCEPT ![owner[j]] = None]
  /\ Goto(j, "release")
  /\ UNCHANGED <<active, others, stop, engine, history, queue, loop, owner,
                 left, record>>

\* persistence.flush() raises something else than the OSError it catches: the
\* thread goes to its end with _thread bound to it.
FlushRaises(j) ==
  /\ pc[j] = "flush"
  /\ Goto(j, "release")
  /\ UNCHANGED <<active, others, thread, stop, engine, history, queue, loop,
                 owner, left, record>>

\* Mutant: the worker ends without release().
ExitHolding(j) ==
  /\ pc[j] = "release"
  /\ Goto(j, "dead")
  /\ UNCHANGED <<active, others, thread, stop, engine, history, queue, loop,
                 owner, left, record>>

\* Mutant: the slot is kept until the client has taken every message.
ReleaseWaits(j) ==
  /\ pc[j] = "release" /\ queue[owner[j]] = <<>>
  /\ Release
  /\ Goto(j, "dead")
  /\ UNCHANGED <<others, thread, stop, engine, history, queue, loop, owner,
                 left, record>>

ReleaseSlot(j) ==
  /\ pc[j] = "release"
  /\ Release
  /\ Goto(j, "dead")
  /\ UNCHANGED <<others, thread, stop, engine, history, queue, loop, owner,
                 left, record>>

Worker(j) ==
  \/ BuildSucceeds(j) \/ BuildRaises(j) \/ Publish(j)
  \/ CheckContinues(j) \/ CheckEnds(j) \/ Batch(j) \/ TrainRaises(j)
  \/ Finish(j) \/ ClearHandle(j) \/ FlushRaises(j) \/ ReleaseSlot(j)

Adopt == AdoptBuilds \/ AdoptRestores \/ AdoptRaises

Handler(s) ==
  \/ \E j \in Job : Start(s, j) \/ StartRaises(s, j)
  \/ Stop(s) \/ Clear(s)
  \/ \E c \in Checkpoint : AdoptBegins(s, c)
  \/ Drain(s)

Next ==
  \/ \E j \in Job : Worker(j)
  \/ \E s \in Session : Handler(s)
  \/ Adopt
  \/ OtherClaims \/ OtherReleases

Spec == Init /\ [][Next]_vars
-----------------------------------------------------------------------------
Loop == {None} \union
        [at : {"make", "restore"}, session : Session, checkpoint : Checkpoint]

\* Types of the service's state and of the workers' local state.
TypeOK ==
  /\ active \in Nat /\ others \in Nat
  /\ thread \in [Session -> Job \union {None}]
  /\ stop \in [Session -> BOOLEAN]
  /\ engine \in [Session -> Model \union {None}]
  /\ history \in [Session -> SUBSET Model]
  /\ queue \in [Session -> Seq(Msg)]
  /\ loop \in Loop
  /\ pc \in [Job -> Stage]
  /\ owner \in [Job -> Session \union {None}]
  /\ left \in [Job -> 0..MaxBatches]
  /\ asked \in [Job -> {"run", "stop", "unload"}]
  /\ over \in [Job -> Checkpoint \union {None}]
  /\ earlier \in [Job -> SUBSET Job]
  /\ heard \in [Session -> SUBSET Job]

Holders == {j \in Job : pc[j] \in Holding}

\* The counter says how many slots are really held, through every path a run
\* may end on: a failed build, an error, a stop, the last batch, a thread that
\* could not be spawned.  try_acquire decides on the counter alone.
SlotAccounting == active = Cardinality(Holders) + others

\* The refusal of a second run "within one session" (concurrency.py:3-5) rests
\* on is_running alone, so a worker must be the one _thread names until it
\* clears it, and no clearing may hit the handle of a later run.
RunsAreTracked ==
  \A j \in Job : pc[j] \in Working => thread[owner[j]] = j

\* No two workers of one session train at once.
OneRunPerSession ==
  \A j, k \in Job :
    pc[j] \in Working /\ pc[k] \in Working /\ owner[j] = owner[k] => j = k

\* A history is of one model: save() stores it as that model's curve.  The one
\* exception is the run under which the client loaded a checkpoint, which
\* adopt() does not refuse (training.py:170): it goes on appending to the restored
\* points.  Points of two runs never meet, and those of an earlier run or of a
\* checkpoint loaded before are gone when a run begins.
HistoryOfOneRun ==
  /\ \A s \in Session :
       \/ \E m \in Model \union {None} : history[s] \subseteq {m}
       \/ \E j \in RunsOf(s) : history[s] = {j, over[j]}
  /\ \A j \in Job : pc[j] \in Working => history[owner[j]] \subseteq {j, over[j]}

\* What the workers of a session send reaches the client in the order of its runs:
\* behind a message of a run, forwarded or queued, no message of an earlier run is
\* left, so an old run's terminal state never passes for a newer run's.  (The
\* train_state that handle_train sends itself is not one of them.)
HeardInOrder ==
  \A s \in Session : \A b \in 1..Len(queue[s]) :
    /\ \A j \in heard[s] : queue[s][b].job \notin earlier[j]
    /\ \A a \in 1..b : queue[s][b].job \notin earlier[queue[s][a].job]

\* The counter never lets more jobs hold slots than the cap, and each step
\* claims or frees one at most: the jobs implement JobSlots.
Slots == INSTANCE JobSlots
           WITH Cap <- MaxConcurrentJobs, held <- Cardinality(Holders) + others

SlotsImplemented == Slots!Spec

\* stop(): "Signal the worker to stop after the current batch"
\* (training.py:199).  A run that was asked to stop begins no other batch.
StopIsFinal ==
  [][\A j \in Job : asked[j] # "run" /\ pc[j] # "batch" => pc'[j] # "batch"]_vars

\* handle_new_model: "Unload the current model so the next run starts from
\* scratch" (handlers.py:158).  The model of a run that was unloaded does not
\* come back as the session's model.
UnloadIsFinal ==
  \A s \in Session : engine[s] \in Job => asked[engine[s]] # "unload"
=============================================================================
