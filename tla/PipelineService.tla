-------------------------- MODULE PipelineService --------------------------
(***************************************************************************)
(* server/pipeline_service.py: one PipelineService per session, running a  *)
(* graph of nodes in a daemon thread.  It mirrors TrainingService, with    *)
(* the same grain, but its error path clears _thread twice.                *)
(***************************************************************************)
EXTENDS Concurrency, FiniteSets, Sequences

CONSTANTS
  Session,       \* the connected clients, one service each
  Run,           \* identities for worker threads, each used at most once
  None,          \* Python's None
  MaxNodes,      \* bound on the nodes of a graph
  SpawnCanFail   \* whether Thread.start() may raise "can't start new thread"

ASSUME PipelineAssumption ==
  /\ None \notin Session \union Run
  /\ MaxNodes \in Nat
  /\ SpawnCanFail \in BOOLEAN

VARIABLES
  others,    \* slots claimed by jobs of other services (training)
  thread,    \* _thread of each session's service
  stop,      \* _stop, a threading.Event
  queue,     \* the asyncio.Queue from the worker to _drain_pipeline
  pc,        \* where each run is in _run_job / _run
  owner,     \* the session a run was started for
  left,      \* nodes run_pipeline has not reached yet
  reason     \* the reason in the run's last pipeline_run_state, or "none"

vars == <<active, others, thread, stop, queue, pc, owner, left, reason>>

\* A worker that may still clear _thread.
Working == {"begin", "parse", "malformed", "check", "node", "ran", "errored",
            "finally"}

\* A worker that has not released its slot; a "leaked" one never started.
Holding == Working \union {"release", "leaked"}

Stage == Holding \union {"unborn", "dead"}

Reason == {"none", "finished", "stopped", "error"}

Msg == [kind : {"running", "result", "error", "failed", "finished", "stopped"},
        run : Run]

Put(s, kinds, r) ==
  queue' = [queue EXCEPT
              ![s] = @ \o [i \in 1..Len(kinds) |-> [kind |-> kinds[i], run |-> r]]]

Goto(r, to) == pc' = [pc EXCEPT ![r] = to]

\* is_running: a handle whose thread is alive.
IsRunning(s) == thread[s] # None /\ pc[thread[s]] \in Working \union {"release"}

\* __init__ of each session's service, and no worker yet.
ServiceInit ==
  /\ thread = [s \in Session |-> None]
  /\ stop = [s \in Session |-> FALSE]
  /\ queue = [s \in Session |-> <<>>]
  /\ pc = [r \in Run |-> "unborn"]
  /\ owner = [r \in Run |-> None]
  /\ left = [r \in Run |-> 0]
  /\ reason = [r \in Run |-> "none"]

Init == ServiceInit /\ active = 0 /\ others = 0
-----------------------------------------------------------------------------
(* The event loop: handlers and drain.                                     *)

\* handle_run_pipeline past its is_running test, and start().  A worker of
\* this session that has cleared _thread once may still be in its finally:
\* its second clearing falls before or after this step.
ClaimAndReset(s, r) ==
  /\ ~IsRunning(s)
  /\ pc[r] = "unborn"
  /\ TryAcquire
  /\ stop' = [stop EXCEPT ![s] = FALSE]
  /\ thread' = [thread EXCEPT ![s] = r]
  /\ owner' = [owner EXCEPT ![r] = s]
  /\ UNCHANGED <<others, queue, reason>>

Start(s, r) ==
  /\ ClaimAndReset(s, r)
  /\ Goto(r, "begin")
  /\ \E n \in 0..MaxNodes : left' = [left EXCEPT ![r] = n]

StartRaises(s, r) ==
  /\ SpawnCanFail
  /\ ClaimAndReset(s, r)
  /\ Goto(r, "leaked")
  /\ UNCHANGED left

\* stop(): handle_stop_pipeline, and _cleanup of a disconnected session.
Stop(s) ==
  /\ stop' = [stop EXCEPT ![s] = TRUE]
  /\ UNCHANGED <<active, others, thread, queue, pc, owner, left, reason>>

\* _drain_pipeline forwards one message.
Drain(s) ==
  /\ queue[s] # <<>>
  /\ queue' = [queue EXCEPT ![s] = Tail(@)]
  /\ UNCHANGED <<active, others, thread, stop, pc, owner, left, reason>>

\* A job of another service claims or frees a slot.
OtherClaims ==
  /\ TryAcquire
  /\ others' = others + 1
  /\ UNCHANGED <<thread, stop, queue, pc, owner, left, reason>>

OtherReleases ==
  /\ others > 0
  /\ Release
  /\ others' = others - 1
  /\ UNCHANGED <<thread, stop, queue, pc, owner, left, reason>>
-----------------------------------------------------------------------------
(* A worker thread: _run_job, _run, _error and run_pipeline's loop.        *)

Begin(r) ==
  /\ pc[r] = "begin"
  /\ Put(owner[r], <<"running">>, r)
  /\ Goto(r, "parse")
  /\ UNCHANGED <<active, others, thread, stop, owner, left, reason>>

ParseSucceeds(r) ==
  /\ pc[r] = "parse"
  /\ Goto(r, "check")
  /\ UNCHANGED <<active, others, thread, stop, queue, owner, left, reason>>

\* Mutant: the error path releases the slot, and the finally again.
ErrorReleases(r, from, to) ==
  /\ pc[r] \in from
  /\ Put(owner[r], <<"error", "failed">>, r)
  /\ reason' = [reason EXCEPT ![r] = "error"]
  /\ left' = [left EXCEPT ![r] = 0]
  /\ Goto(r, to)
  /\ Release
  /\ UNCHANGED <<others, thread, stop, owner>>

\* _error(): both messages are queued, then _thread is cleared by the next step.
Error(r, from, to) ==
  /\ pc[r] \in from
  /\ Put(owner[r], <<"error", "failed">>, r)
  /\ reason' = [reason EXCEPT ![r] = "error"]
  /\ left' = [left EXCEPT ![r] = 0]
  /\ Goto(r, to)
  /\ UNCHANGED <<active, others, thread, stop, owner>>

\* Mutant: the early return skips the finally that releases the slot.
ParseRaisesOutsideTry(r) == Error(r, {"parse"}, "dead")

\* from_dict rejects the graph: _run returns without reaching the finally.
ParseRaises(r) == Error(r, {"parse"}, "malformed")

\* topological_order finds a cycle, or a node fails to build or to predict.
RunRaises(r) == Error(r, {"parse", "node"}, "errored")

\* Mutant: the loop does not look at the nodes it has left.
CheckIgnoresLeft(r) ==
  /\ pc[r] = "check" /\ ~stop[owner[r]]
  /\ Goto(r, "node")
  /\ UNCHANGED <<active, others, thread, stop, queue, owner, left, reason>>

CheckContinues(r) ==
  /\ pc[r] = "check"
  /\ left[r] > 0 /\ ~stop[owner[r]]
  /\ Goto(r, "node")
  /\ UNCHANGED <<active, others, thread, stop, queue, owner, left, reason>>

CheckEnds(r) ==
  /\ pc[r] = "check"
  /\ left[r] = 0 \/ stop[owner[r]]
  /\ left' = [left EXCEPT ![r] = 0]
  /\ Goto(r, "ran")
  /\ UNCHANGED <<active, others, thread, stop, queue, owner, reason>>

Node(r) ==
  /\ pc[r] = "node"
  /\ left' = [left EXCEPT ![r] = @ - 1]
  /\ Put(owner[r], <<"result">>, r)
  /\ Goto(r, "check")
  /\ UNCHANGED <<active, others, thread, stop, owner, reason>>

\* Mutant: the last message and the first clearing of _thread come together,
\* and the finally clears it again.
FinishAndClears(r) ==
  /\ pc[r] = "ran"
  /\ reason' = [reason EXCEPT ![r] = "finished"]
  /\ Put(owner[r], <<"finished">>, r)
  /\ thread' = [thread EXCEPT ![owner[r]] = None]
  /\ Goto(r, "finally")
  /\ UNCHANGED <<active, others, stop, owner, left>>

\* The reason is read from the event, whatever ended the loop.
Finish(r) ==
  /\ pc[r] = "ran"
  /\ LET why == IF stop[owner[r]] THEN "stopped" ELSE "finished"
     IN  /\ reason' = [reason EXCEPT ![r] = why]
         /\ Put(owner[r], <<why>>, r)
  /\ Goto(r, "finally")
  /\ UNCHANGED <<active, others, thread, stop, owner, left>>

ClearHandle(r, from, to) ==
  /\ pc[r] = from
  /\ thread' = [thread EXCEPT ![owner[r]] = None]
  /\ Goto(r, to)
  /\ UNCHANGED <<active, others, stop, queue, owner, left, reason>>

ErrorClears(r) == \/ ClearHandle(r, "malformed", "release")
                  \/ ClearHandle(r, "errored", "finally")

FinallyClears(r) == ClearHandle(r, "finally", "release")

ReleaseSlot(r) ==
  /\ pc[r] = "release"
  /\ Release
  /\ Goto(r, "dead")
  /\ UNCHANGED <<others, thread, stop, queue, owner, left, reason>>

Worker(r) ==
  \/ Begin(r) \/ ParseSucceeds(r) \/ ParseRaises(r) \/ RunRaises(r)
  \/ CheckContinues(r) \/ CheckEnds(r) \/ Node(r) \/ Finish(r)
  \/ ErrorClears(r) \/ FinallyClears(r) \/ ReleaseSlot(r)

Handler(s) ==
  \/ \E r \in Run : Start(s, r) \/ StartRaises(s, r)
  \/ Stop(s)
  \/ Drain(s)

Next ==
  \/ \E r \in Run : Worker(r)
  \/ \E s \in Session : Handler(s)
  \/ OtherClaims \/ OtherReleases

Spec == Init /\ [][Next]_vars
-----------------------------------------------------------------------------
\* Types of the service's state and of the workers' local state.
TypeOK ==
  /\ active \in Nat /\ others \in Nat
  /\ thread \in [Session -> Run \union {None}]
  /\ stop \in [Session -> BOOLEAN]
  /\ queue \in [Session -> Seq(Msg)]
  /\ pc \in [Run -> Stage]
  /\ owner \in [Run -> Session \union {None}]
  /\ left \in [Run -> 0..MaxNodes]
  /\ reason \in [Run -> Reason]

Holders == {r \in Run : pc[r] \in Holding}

\* The counter says how many slots are really held, on the error path with two
\* clearings of _thread as on every other, and with runs the handle lost.
SlotAccounting == active = Cardinality(Holders) + others

\* "PipelineService ... already refuse a second run within one session"
\* (concurrency.py:3-5): no two workers of one session run nodes at once.
OneRunPerSession ==
  \A q, r \in Run :
    pc[q] \in {"check", "node"} /\ pc[r] \in {"check", "node"} /\ owner[q] = owner[r]
      => q = r

\* The session's run is lost from is_running, so that another may overlap it,
\* only after a run of that session ended in an error: runs that are stopped
\* or complete never cost the handle of another run.
LostOnlyAfterFailure ==
  \A r \in Run :
    pc[r] \in Working \ {"finally"} /\ thread[owner[r]] # r
      => \E q \in Run : q # r /\ owner[q] = owner[r] /\ reason[q] = "error"

\* The jobs implement JobSlots: at most the cap, one claim or free a step.
Slots == INSTANCE JobSlots
           WITH Cap <- MaxConcurrentJobs, held <- Cardinality(Holders) + others

SlotsImplemented == Slots!Spec
=============================================================================
