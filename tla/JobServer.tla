----------------------------- MODULE JobServer -----------------------------
(***************************************************************************)
(* The dashboard server's job core: every session's TrainingService and    *)
(* PipelineService (server/session.py), run by one event loop, sharing the *)
(* slot counter of server/concurrency.py, and _cleanup (server/app.py) of  *)
(* sessions whose client goes away.                                        *)
(*                                                                         *)
(* Each service sees the other's jobs only as slots taken: its `others' is *)
(* the number of slots the other one's jobs hold.                          *)
(***************************************************************************)
EXTENDS Integers, FiniteSets

CONSTANTS
  EnvCap, Session, None, SpawnCanFail,
  Job, Checkpoint, MaxBatches,           \* training
  Run, MaxNodes                          \* pipelines

ASSUME JobServerAssumption ==
  /\ EnvCap \in Int
  /\ None \notin Session \union Job \union Checkpoint \union Run
  /\ Job \intersect Checkpoint = {}
  /\ MaxBatches \in Nat /\ MaxNodes \in Nat
  /\ SpawnCanFail \in BOOLEAN

VARIABLES
  active,        \* concurrency._active
  loop,          \* what keeps the event loop busy
  dispatcher,    \* the task that handles each session's messages
  revived,       \* the services whose stop event it has cleared after its client
                 \* was gone (a history variable)
  tThread, tStop, tEngine, tHistory, tQueue, tPc, tOwner, tLeft,
  tAsked, tOver, tEarlier, tHeard,
  pThread, pStop, pQueue, pPc, pOwner, pLeft, pReason

tRecord == <<tAsked, tOver, tEarlier, tHeard>>
tVars == <<tThread, tStop, tEngine, tHistory, tQueue, tPc, tOwner, tLeft, tRecord>>
pVars == <<pThread, pStop, pQueue, pPc, pOwner, pLeft, pReason>>
dVars == <<dispatcher, revived>>
vars == <<active, loop, dVars, tVars, pVars>>

Held(pc) == Cardinality({w \in DOMAIN pc : pc[w] \notin {"unborn", "dead"}})

Training == INSTANCE TrainingService WITH
  others <- Held(pPc), thread <- tThread, stop <- tStop, engine <- tEngine,
  history <- tHistory, queue <- tQueue, pc <- tPc, owner <- tOwner,
  left <- tLeft, asked <- tAsked, over <- tOver, earlier <- tEarlier,
  heard <- tHeard

Pipeline == INSTANCE PipelineService WITH
  others <- Held(tPc), thread <- pThread, stop <- pStop, queue <- pQueue,
  pc <- pPc, owner <- pOwner, left <- pLeft, reason <- pReason

\* A dispatcher serves its client until the client is gone.  Session.cancel may
\* then swallow its cancellation: it outlives _cleanup until a send of its raises.
DispatcherState == {"serving", "outlives", "gone"}

Connected(s) == dispatcher[s] = "serving"

Init == /\ Training!ServiceInit
        /\ Pipeline!ServiceInit
        /\ active = 0
        /\ dispatcher = [s \in Session |-> "serving"]
        /\ revived = [s \in Session |-> {}]

\* A step of a training worker, or of adopt() on the loop thread.
TrainWorker(j) == UNCHANGED <<dVars, pVars>> /\ Training!Worker(j)

Adopt == UNCHANGED <<dVars, pVars>> /\ Training!Adopt

PipelineWorker(r) ==
  /\ UNCHANGED <<loop, dVars, tVars>>
  /\ Pipeline!Worker(r)

\* Mutant: the dispatcher goes on with the messages of a client that is gone.
TrainHandlerOfAnyone(s) ==
  /\ UNCHANGED <<dVars, pVars>>
  /\ Training!Handler(s)

\* dispatch() of a message, or a drain, for a client that is connected; the
\* event loop runs one at a time.
TrainHandler(s) ==
  /\ Connected(s)
  /\ UNCHANGED <<dVars, pVars>>
  /\ Training!Handler(s)

PipelineHandler(s) ==
  /\ Connected(s) /\ loop = None
  /\ UNCHANGED <<loop, dVars, tVars>>
  /\ Pipeline!Handler(s)

Revive(s, service, stop) ==
  revived' = [revived EXCEPT ![s] = IF stop'[s] THEN @ ELSE @ \union {service}]

\* A dispatcher that outlives its client handles a message.  Every training
\* message that changes something is answered: the send raises, in the report of
\* the error too, and ends the dispatcher, which is otherwise left waiting on its
\* inbox.  The drains have ended.
LateTrainHandler(s) ==
  /\ dispatcher[s] = "outlives"
  /\ dispatcher' = [dispatcher EXCEPT ![s] = "gone"]
  /\ UNCHANGED <<tQueue, pVars>>
  /\ Training!Handler(s)
  /\ Revive(s, "training", tStop)

\* A pipeline that is started or stopped is not answered: the dispatcher goes on
\* to the next message.  One whose thread cannot be started is reported.
LatePipelineHandler(s) ==
  /\ dispatcher[s] = "outlives" /\ loop = None
  /\ UNCHANGED <<loop, tVars>>
  /\ \/ UNCHANGED dispatcher /\ (Pipeline!Stop(s) \/ \E r \in Run : Pipeline!Start(s, r))
     \/ dispatcher' = [dispatcher EXCEPT ![s] = "gone"]
        /\ \E r \in Run : Pipeline!StartRaises(s, r)
  /\ Revive(s, "pipeline", pStop)

\* The dispatcher is cancelled, with effect or, in Session.cancel, without.
Leaves(s) ==
  \E to \in {"gone", "outlives"} : dispatcher' = [dispatcher EXCEPT ![s] = to]

\* Mutant: _cleanup also gives back a slot, which the worker does again.
DisconnectReleases(s) ==
  /\ Connected(s) /\ loop = None
  /\ tStop' = [tStop EXCEPT ![s] = TRUE]
  /\ pStop' = [pStop EXCEPT ![s] = TRUE]
  /\ active' = IF active > 0 THEN active - 1 ELSE 0
  /\ Training!Ask(s, "stop")
  /\ Leaves(s)
  /\ UNCHANGED <<loop, revived, tThread, tEngine, tHistory, tQueue, tPc, tOwner,
                 tLeft, pThread, pQueue, pPc, pOwner, pLeft, pReason>>

\* Mutant: _cleanup drops the handle of the training thread.
DisconnectForgets(s) ==
  /\ Connected(s) /\ loop = None
  /\ tStop' = [tStop EXCEPT ![s] = TRUE]
  /\ pStop' = [pStop EXCEPT ![s] = TRUE]
  /\ tThread' = [tThread EXCEPT ![s] = None]
  /\ Training!Ask(s, "stop")
  /\ Leaves(s)
  /\ UNCHANGED <<active, loop, revived, tEngine, tHistory, tQueue, tPc, tOwner,
                 tLeft, pThread, pQueue, pPc, pOwner, pLeft, pReason>>

\* _cleanup: both services are told to stop and the drains and the dispatcher
\* are cancelled.
Disconnect(s) ==
  /\ Connected(s) /\ loop = None
  /\ tStop' = [tStop EXCEPT ![s] = TRUE]
  /\ pStop' = [pStop EXCEPT ![s] = TRUE]
  /\ Training!Ask(s, "stop")
  /\ Leaves(s)
  /\ UNCHANGED <<active, loop, revived, tThread, tEngine, tHistory, tQueue, tPc,
                 tOwner, tLeft, pThread, pQueue, pPc, pOwner, pLeft, pReason>>

Next ==
  \/ \E j \in Job : TrainWorker(j)
  \/ \E r \in Run : PipelineWorker(r)
  \/ Adopt
  \/ \E s \in Session : TrainHandler(s) \/ PipelineHandler(s) \/ Disconnect(s)
                      \/ LateTrainHandler(s) \/ LatePipelineHandler(s)

Spec == Init /\ [][Next]_vars

\* Running threads are scheduled and calls on the loop thread return.
FairSpec ==
  /\ Spec
  /\ \A j \in Job : WF_vars(TrainWorker(j))
  /\ \A r \in Run : WF_vars(PipelineWorker(r))
  /\ WF_vars(Adopt)
-----------------------------------------------------------------------------
\* Types of the composed state.
TypeOK == /\ Training!TypeOK
          /\ Pipeline!TypeOK
          /\ dispatcher \in [Session -> DispatcherState]
          /\ revived \in [Session -> SUBSET {"training", "pipeline"}]

\* One counter serves both kinds of job: it is the number of slots held, by
\* training runs and pipeline runs together, of connected clients or not.
SlotAccounting == active = Held(tPc) + Held(pPc)

\* With the jobs of the other service as its environment, each service behaves
\* as its own module says: what is proved of TrainingService and of
\* PipelineService holds of the server.
TrainingImplemented == Training!Spec

PipelineImplemented == Pipeline!Spec

\* _cleanup: "Stop background work and forget the session" (app.py:107).  Once a
\* client is gone its runs begin no other batch and no other node, the batches of a
\* run under way included, unless the dispatcher has outlived _cleanup and then
\* cleared the stop event of just that service: by a train or load_model message
\* for training, by run_pipeline for pipelines.  What it starts then runs to its end.
DisconnectIsFinal ==
  [][\A s \in Session : ~Connected(s) =>
       /\ "training" \in revived[s] \/ \A j \in Job :
            tOwner[j] = s /\ tPc[j] # "batch" => tPc'[j] # "batch"
       /\ "pipeline" \in revived[s] \/ \A r \in Run :
            pOwner[r] = s /\ pPc[r] # "node" => pPc'[r] # "node"]_vars

\* A run of the session that holds its slot on a thread that lives.
HoldsSlot(s) ==
  \/ \E j \in Job : tOwner[j] = s /\ tPc[j] \notin {"leaked", "dead"}
  \/ \E r \in Run : pOwner[r] = s /\ pPc[r] \notin {"leaked", "dead"}

\* A client that goes away frees every slot its runs hold, one that its dispatcher
\* starts late included, so abandoned runs never keep the server busy.
DisconnectFreesSlots ==
  \A s \in Session : ~Connected(s) ~> ~HoldsSlot(s)

\* The slots of runs whose thread could not be started: start() has claimed them
\* and nobody gives them back (training.py:131-138, pipeline_service.py:43-49).
Leaked == Cardinality({j \in Job : tPc[j] = "leaked"})
            + Cardinality({r \in Run : pPc[r] = "leaked"})

\* SERVER_BUSY_MESSAGE says "try again shortly" (concurrency.py:24-27).  A server
\* at its cap has a slot free again, whatever its runs end on, as long as a slot is
\* left that has not leaked; when all have, it stays busy.
BusyIsTemporary ==
  ~Training!SlotFree ~> Training!SlotFree \/ Leaked = Training!MaxConcurrentJobs
=============================================================================
