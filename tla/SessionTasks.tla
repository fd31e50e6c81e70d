---------------------------- MODULE SessionTasks ----------------------------
(***************************************************************************)
(* The asyncio tasks of one dashboard session (server/app.py, session.py,  *)
(* handlers.py) and the child process of its dataset downloads             *)
(* (downloads.py): the reader of the WebSocket, the dispatcher of the      *)
(* inbox, the stream task, and _cleanup when the client goes away.         *)
(*                                                                         *)
(* A step runs from one await to the next; an await that cannot suspend is *)
(* no step boundary.  Task.cancel() takes effect when the cancelled task   *)
(* next resumes, with CancelledError raised at its await.                  *)
(***************************************************************************)
EXTENDS Naturals, Sequences

CONSTANTS
  Config,     \* encode configurations, each with the dataset it needs
  Stream,     \* identities for stream tasks; one that is done is free again
  None,       \* Python's None
  InboxMax,   \* INBOX_MAXSIZE
  StreamMayRaise  \* whether a stream may fail by itself

ASSUME SessionAssumption ==
  None \notin Config \union Stream /\ InboxMax \in Nat /\ StreamMayRaise \in BOOLEAN

VARIABLES
  reader,     \* the task of websocket_endpoint
  inbox,      \* the bounded asyncio.Queue
  pc,         \* the await the dispatcher is at
  at,         \* the message it handles
  pending,    \* it was cancelled and has not resumed since
  awaited,    \* the stream whose end it, or _cleanup, awaits, as [by, stream]
  task,       \* Session._task
  stream,     \* the stream tasks
  shows,      \* the engine each stream has read
  engine,     \* Session._engine, by its configuration
  told,       \* the last run_state the client was sent, or "failed" when an
              \* error followed a running one, which the client shows alike
  child,      \* the downloader child process
  status,     \* DownloadManager._status
  landed,     \* a cancel has found the child of the last download running
  prepared,   \* DownloadManager._prepared
  disk,       \* the datasets completely on disk
  job         \* whether a training worker of the session is alive

tasks == <<pending, awaited, task, stream, shows>>
download == <<child, status, landed, prepared, disk>>
vars == <<reader, inbox, pc, at, tasks, engine, told, download, job>>

\* select_sample is handled as configure is, load_model prepares as train does.
Message == [act : {"configure", "run", "train"}, cfg : Config] \union [act : {"stop"}]

Alive == {t \in Stream : stream[t] # "done"}

\* Session.is_running: the handle's task is not done.
Streaming == task \in Alive

\* The client has not gone as far as the reader knows, so that a send may
\* succeed; and a send that raises.
Open == reader \in {"serving", "leaving"}
Broken == reader # "serving"

Init ==
  /\ reader = "serving" /\ inbox = <<>>
  /\ pc = "idle" /\ at = None /\ pending = FALSE
  /\ awaited = [by \in {"dispatcher", "cleanup"} |-> None]
  /\ task = None
  /\ stream = [t \in Stream |-> "done"]
  /\ shows = [t \in Stream |-> None]
  /\ engine = None /\ told = "stopped"
  /\ child = "none" /\ status = "idle" /\ landed = FALSE
  /\ prepared = {} /\ disk \in SUBSET Config
  /\ job = FALSE
-----------------------------------------------------------------------------
(* Session.start and Session.cancel.                                       *)

\* cancel() up to its await of the stream: cancelling a task that is done
\* already is left out by its test.
CancelStream(by) ==
  /\ Streaming
  /\ stream' = [stream EXCEPT ![task] = "dying"]
  /\ awaited' = [awaited EXCEPT ![by] = task]
  /\ UNCHANGED task

NoStream == ~Streaming /\ task' = None /\ UNCHANGED <<stream, awaited>>

Ended(by) == awaited[by] \in Stream /\ stream[awaited[by]] = "done"

\* create_task: the coroutine runs from the next turn of the loop on.
CreateStream(t) ==
  /\ stream[t] = "done" /\ awaited["cleanup"] # t
  /\ stream' = [stream EXCEPT ![t] = "created"]
  /\ task' = t
-----------------------------------------------------------------------------
(* The dispatcher: one message at a time.                                  *)

Running(here) == pc = here /\ ~pending

\* What follows a prepared dataset: the engine is built in the executor, or
\* training.start() is called, which may refuse or raise.
Ensured(m) ==
  \/ m.act # "train" /\ pc' = "build" /\ UNCHANGED job
  \/ m.act = "train" /\ pc' = "started" /\ job' = TRUE
  \/ m.act = "train" /\ pc' = "report" /\ UNCHANGED job

\* DownloadManager.ensure up to its first await.
Ensure(m) ==
  \/ m.cfg \in prepared /\ Ensured(m)
  \/ m.cfg \notin prepared /\ pc' = "probe" /\ UNCHANGED job

\* Mutant: the engine is replaced under the stream, which start() cancels later.
ConfigureUnderStream(m) ==
  /\ m.act = "configure"
  /\ Ensure(m)
  /\ UNCHANGED <<stream, awaited, task>>

\* handle_configure and handle_select_sample cancel the stream first of all.
Configure(m) ==
  /\ m.act = "configure"
  /\ \/ CancelStream("dispatcher") /\ pc' = "cancel" /\ UNCHANGED job
     \/ NoStream /\ Ensure(m)

\* Mutant: cancel() does not await the end of the stream it cancels.
StopWithoutAwait(m) ==
  /\ m.act = "stop" /\ pc' = "stopped"
  /\ stream' = IF Streaming THEN [stream EXCEPT ![task] = "dying"] ELSE stream
  /\ task' = None
  /\ UNCHANGED <<awaited, job>>

\* handle_stop.
StopStream(m) ==
  /\ m.act = "stop"
  /\ \/ CancelStream("dispatcher") /\ pc' = "cancel"
     \/ NoStream /\ pc' = "stopped"
  /\ UNCHANGED job

\* handle_run and handle_train.
RunOrTrain(m) ==
  /\ \/ m.act = "run" /\ engine = None /\ Ensure(m)
     \/ m.act = "run" /\ engine # None /\ pc' = "announce" /\ UNCHANGED job
     \/ m.act = "train" /\ job /\ pc' = "idle" /\ UNCHANGED job
     \/ m.act = "train" /\ ~job /\ Ensure(m)
  /\ UNCHANGED <<stream, awaited, task>>

Dispatch ==
  /\ Running("idle") /\ inbox # <<>>
  /\ LET m == Head(inbox)
     IN  at' = m /\ (Configure(m) \/ StopStream(m) \/ RunOrTrain(m))
  /\ inbox' = Tail(inbox)
  /\ UNCHANGED <<reader, pending, shows, engine, told, download>>

\* The stream has ended: Session.cancel swallows the CancelledError, whether it
\* is the stream's own or the dispatcher itself has been cancelled meanwhile.
CancelReturns ==
  /\ pc = "cancel" /\ Ended("dispatcher")
  /\ task' = None /\ pending' = FALSE
  /\ awaited' = [awaited EXCEPT !["dispatcher"] = None]
  /\ \/ at.act = "configure" /\ Ensure(at)
     \/ at.act = "stop" /\ pc' = "stopped" /\ UNCHANGED job
  /\ UNCHANGED <<reader, inbox, at, stream, shows, engine, told, download>>

\* Mutant: _status is left from the last download.
ProbeKeepsStatus ==
  /\ Running("probe")
  /\ \/ at.cfg \in disk /\ prepared' = prepared \union {at.cfg} /\ Ensured(at)
        /\ UNCHANGED <<status, landed>>
     \/ at.cfg \notin disk /\ landed' = FALSE /\ pc' = "announced"
        /\ UNCHANGED <<status, prepared, job>>
     \/ pc' = "report" /\ UNCHANGED <<status, landed, prepared, job>>
  /\ UNCHANGED <<reader, inbox, at, tasks, engine, told, child, disk>>

\* The probe of the local copy comes back; without one _download begins, and
\* sends its first snapshot before there is a child.  It may raise what _loads
\* does not catch.
Probe ==
  /\ Running("probe")
  /\ \/ at.cfg \in disk /\ prepared' = prepared \union {at.cfg} /\ Ensured(at)
        /\ UNCHANGED <<status, landed>>
     \/ at.cfg \notin disk /\ status' = "downloading" /\ landed' = FALSE
        /\ pc' = "announced" /\ UNCHANGED <<prepared, job>>
     \/ pc' = "report" /\ UNCHANGED <<status, landed, prepared, job>>
  /\ UNCHANGED <<reader, inbox, at, tasks, engine, told, child, disk>>

Spawn ==
  /\ Running("announced") /\ Open
  /\ \/ child' = "running" /\ pc' = "poll"
     \/ UNCHANGED child /\ pc' = "report"
  /\ UNCHANGED <<reader, inbox, at, tasks, engine, told, status, landed,
                 prepared, disk, job>>

\* Mutant: a cancelled download is settled without waiting for the exit.
PollStopsWaiting ==
  /\ Running("poll")
  /\ child \notin {"running", "terminating"} \/ status = "cancelled"
  /\ status' = IF status = "cancelled" THEN status
               ELSE IF child = "failed" THEN "error" ELSE "done"
  /\ pc' = "settle"
  /\ UNCHANGED <<reader, inbox, at, tasks, engine, told, child, landed, prepared,
                 disk, job>>

\* Mutant: the exit code is not looked at.
PollTrusts ==
  /\ Running("poll")
  /\ child \notin {"running", "terminating"}
  /\ status' = IF status = "cancelled" THEN status ELSE "done"
  /\ pc' = "settle"
  /\ UNCHANGED <<reader, inbox, at, tasks, engine, told, child, landed, prepared,
                 disk, job>>

\* _poll's loop sees the exit, and _finish resolves the status.
PollEnds ==
  /\ Running("poll")
  /\ child \notin {"running", "terminating"}
  /\ status' = IF status = "cancelled" THEN status
               ELSE IF child = "failed" THEN "error" ELSE "done"
  /\ pc' = "settle"
  /\ UNCHANGED <<reader, inbox, at, tasks, engine, told, child, landed, prepared,
                 disk, job>>

\* The last snapshot is sent; a cancelled download ends the message quietly.
Settle ==
  /\ Running("settle") /\ Open
  /\ \/ status = "done" /\ prepared' = prepared \union {at.cfg} /\ Ensured(at)
     \/ status = "error" /\ pc' = "report" /\ UNCHANGED <<prepared, job>>
     \/ status = "cancelled" /\ pc' = "idle" /\ UNCHANGED <<prepared, job>>
  /\ UNCHANGED <<reader, inbox, at, tasks, engine, told, child, status, landed,
                 disk>>

Build ==
  /\ Running("build")
  /\ \/ engine' = at.cfg
        /\ pc' = IF at.act = "configure" THEN "acknowledge" ELSE "announce"
     \/ UNCHANGED engine /\ pc' = "report"
  /\ UNCHANGED <<reader, inbox, at, tasks, told, download, job>>

\* send_initial.
Acknowledge ==
  /\ Running("acknowledge") /\ Open
  /\ pc' = "announce"
  /\ UNCHANGED <<reader, inbox, at, tasks, engine, told, download, job>>

\* handle_run is over; configure and select_sample go on to handle_infer if there
\* is a model: it has a result to send, finds a blocker, or raises.
StreamStarted ==
  \/ pc' = "idle"
  \/ at.act = "configure" /\ pc' \in {"infer", "report"}

\* Mutant: Session.start does not cancel the stream it replaces.
AnnounceBeside ==
  /\ Running("announce") /\ Open
  /\ told' = "running"
  /\ StreamStarted /\ (\E t \in Stream : CreateStream(t)) /\ UNCHANGED awaited
  /\ UNCHANGED <<reader, inbox, at, pending, shows, engine, download, job>>

\* run_state has been sent; Session.start replaces the stream, if any.
Announce ==
  /\ Running("announce") /\ Open
  /\ told' = "running"
  /\ \/ CancelStream("dispatcher") /\ pc' = "replace"
     \/ ~Streaming /\ StreamStarted /\ (\E t \in Stream : CreateStream(t))
        /\ UNCHANGED awaited
  /\ UNCHANGED <<reader, inbox, at, pending, shows, engine, download, job>>

\* As CancelReturns, within Session.start.
Replace ==
  /\ pc = "replace" /\ Ended("dispatcher")
  /\ pending' = FALSE
  /\ awaited' = [awaited EXCEPT !["dispatcher"] = None]
  /\ (\E t \in Stream : CreateStream(t)) /\ StreamStarted
  /\ UNCHANGED <<reader, inbox, at, shows, engine, told, download, job>>

\* The inference and the activity have been sent.
Infer ==
  /\ Running("infer") /\ Open
  /\ pc' = "idle"
  /\ UNCHANGED <<reader, inbox, at, tasks, engine, told, download, job>>

\* The last send of a message: run_state for stop, train_state, or an error.
Reply ==
  /\ Running(pc) /\ pc \in {"stopped", "started", "report"} /\ Open
  /\ told' = CASE pc = "stopped" -> "stopped"
               [] pc = "report" /\ told = "running" -> "failed"
               [] OTHER -> told
  /\ pc' = "idle"
  /\ UNCHANGED <<reader, inbox, at, tasks, engine, download, job>>

\* A send raises, in the report of the error too, which ends the task.
SendFails ==
  /\ Broken
  /\ pc \in {"announced", "poll", "settle", "acknowledge", "announce", "infer",
             "stopped", "started", "report"}
  /\ pc' = "dead" /\ pending' = FALSE
  /\ UNCHANGED <<reader, inbox, at, awaited, task, stream, shows, engine, told,
                 download, job>>

\* CancelledError anywhere else ends the dispatcher at once.
Cancelled ==
  /\ pending /\ pc \notin {"cancel", "replace"}
  /\ pc' = "dead" /\ pending' = FALSE
  /\ UNCHANGED <<reader, inbox, at, awaited, task, stream, shows, engine, told,
                 download, job>>

Dispatcher ==
  \/ Dispatch \/ CancelReturns \/ Probe \/ Spawn \/ PollEnds \/ Settle \/ Build
  \/ Acknowledge \/ Announce \/ Replace \/ Infer \/ Reply \/ SendFails \/ Cancelled
-----------------------------------------------------------------------------
(* The stream tasks, stream_frames.                                        *)

StreamBegins(t) ==
  /\ stream[t] = "created"
  /\ stream' = [stream EXCEPT ![t] = "live"]
  /\ shows' = [shows EXCEPT ![t] = engine]
  /\ UNCHANGED <<reader, inbox, pc, at, pending, awaited, task, engine, told,
                 download, job>>

\* Cancelled, or a frame cannot be sent.
StreamEnds(t) ==
  /\ stream[t] = "dying" \/ (stream[t] = "live" /\ Broken)
  /\ stream' = [stream EXCEPT ![t] = "done"]
  /\ shows' = [shows EXCEPT ![t] = None]
  /\ UNCHANGED <<reader, inbox, pc, at, pending, awaited, task, engine, told,
                 download, job>>

\* stream_frames raises by itself while it is served: its task is done, and
\* nobody looks at the exception.
StreamRaises(t) ==
  /\ StreamMayRaise /\ stream[t] = "live"
  /\ stream' = [stream EXCEPT ![t] = "done"]
  /\ shows' = [shows EXCEPT ![t] = None]
  /\ UNCHANGED <<reader, inbox, pc, at, pending, awaited, task, engine, told,
                 download, job>>
-----------------------------------------------------------------------------
(* The reader: _serve, and _cleanup.                                       *)

\* Mutant: the queue is not bounded.
OfferAnyway(m) ==
  /\ reader = "serving"
  /\ Len(inbox) <= InboxMax
  /\ inbox' = Append(inbox, m)
  /\ UNCHANGED <<reader, pc, at, tasks, engine, told, download, job>>

\* Session.offer queues the message, or drops it: then nothing changes.
Offer(m) ==
  /\ reader = "serving"
  /\ Len(inbox) < InboxMax
  /\ inbox' = Append(inbox, m)
  /\ UNCHANGED <<reader, pc, at, tasks, engine, told, download, job>>

\* Mutant: the child is not told.
CancelInWords ==
  /\ reader = "serving" /\ pc = "poll" /\ child \in {"running", "terminating"}
  /\ status' = "cancelled" /\ landed' = TRUE
  /\ UNCHANGED <<reader, inbox, pc, at, tasks, engine, told, child, prepared,
                 disk, job>>

\* cancel_download bypasses the inbox; without a child that runs it does nothing.
CancelDownload ==
  /\ reader = "serving" /\ pc = "poll" /\ child \in {"running", "terminating"}
  /\ child' = "terminating" /\ status' = "cancelled" /\ landed' = TRUE
  /\ UNCHANGED <<reader, inbox, pc, at, tasks, engine, told, prepared, disk, job>>

ClientLeaves ==
  /\ reader = "serving"
  /\ reader' = "leaving"
  /\ UNCHANGED <<inbox, pc, at, tasks, engine, told, download, job>>

\* _cleanup up to its await: the dispatcher is cancelled unless it has ended,
\* then the stream.
Cleanup ==
  /\ reader = "leaving"
  /\ pending' = (pc # "dead")
  /\ \/ CancelStream("cleanup") /\ reader' = "cleanup"
     \/ NoStream /\ reader' = "closed"
  /\ UNCHANGED <<inbox, pc, at, shows, engine, told, download, job>>

\* Mutant: _cleanup awaits the dispatcher it has cancelled.
CleanupAwaitsDispatcher ==
  /\ reader = "cleanup" /\ Ended("cleanup")
  /\ pc = "dead"
  /\ task' = None /\ reader' = "closed"
  /\ awaited' = [awaited EXCEPT !["cleanup"] = None]
  /\ UNCHANGED <<inbox, pc, at, pending, stream, shows, engine, told, download, job>>

\* A dispatcher that awaits the same stream has awaited it first, and resumes
\* first.  The handle is dropped whatever it names by now.
CleanupReturns ==
  /\ reader = "cleanup" /\ Ended("cleanup")
  /\ awaited["dispatcher"] # awaited["cleanup"]
  /\ task' = None /\ reader' = "closed"
  /\ awaited' = [awaited EXCEPT !["cleanup"] = None]
  /\ UNCHANGED <<inbox, pc, at, pending, stream, shows, engine, told, download, job>>

Reader ==
  \/ \E m \in Message : Offer(m)
  \/ CancelDownload \/ ClientLeaves \/ Cleanup \/ CleanupReturns
-----------------------------------------------------------------------------
(* The child process, and the training worker.                             *)

\* The child exits; one that was told to terminate may still complete.
ChildExits ==
  /\ child \in {"running", "terminating"}
  /\ \/ child' = "ok" /\ disk' = disk \union {at.cfg}
     \/ child' = "failed" /\ UNCHANGED disk
  /\ UNCHANGED <<reader, inbox, pc, at, tasks, engine, told, status, landed,
                 prepared, job>>

JobEnds ==
  /\ job /\ job' = FALSE
  /\ UNCHANGED <<reader, inbox, pc, at, tasks, engine, told, download>>

Next ==
  \/ Dispatcher \/ Reader
  \/ \E t \in Stream : StreamBegins(t) \/ StreamEnds(t) \/ StreamRaises(t)
  \/ ChildExits \/ JobEnds

Spec == Init /\ [][Next]_vars

\* The event loop resumes every task that can go on, executor calls return, and
\* a terminated child dies.  Nothing is assumed of the client, or of how long a
\* download takes.
FairSpec ==
  /\ Spec
  /\ WF_vars(Dispatcher)
  /\ WF_vars(Cleanup) /\ WF_vars(CleanupReturns)
  /\ \A t \in Stream : WF_vars(StreamBegins(t)) /\ WF_vars(StreamEnds(t))
  /\ WF_vars(child = "terminating" /\ ChildExits)
-----------------------------------------------------------------------------
\* Types of the session's state; the inbox keeps its bound.
TypeOK ==
  /\ reader \in {"serving", "leaving", "cleanup", "closed"}
  /\ inbox \in Seq(Message) /\ Len(inbox) <= InboxMax
  /\ pc \in {"idle", "cancel", "stopped", "probe", "announced", "poll", "settle",
             "build", "acknowledge", "announce", "replace", "infer", "started",
             "report", "dead"}
  /\ at \in Message \union {None}
  /\ told \in {"stopped", "running", "failed"}
  /\ pending \in BOOLEAN /\ landed \in BOOLEAN /\ job \in BOOLEAN
  /\ awaited \in [{"dispatcher", "cleanup"} -> Stream \union {None}]
  /\ task \in Stream \union {None}
  /\ stream \in [Stream -> {"created", "live", "dying", "done"}]
  /\ shows \in [Stream -> Config \union {None}]
  /\ engine \in Config \union {None}
  /\ child \in {"none", "running", "terminating", "ok", "failed"}
  /\ status \in {"idle", "downloading", "cancelled", "error", "done"}
  /\ prepared \in SUBSET Config /\ disk \in SUBSET Config

\* A session never streams twice at once, and until _cleanup is through the
\* stream is the one _task names, so that it can be cancelled; also when
\* _cleanup and the dispatcher are in Session.cancel at the same time.
OneStream ==
  /\ \A t, u \in Alive : t = u
  /\ reader # "closed" => \A t \in Alive : t = task

\* "Cancel the active stream immediately and notify the client"
\* (handlers.py:61): once the client is told that nothing runs, no stream is
\* left that could send it another frame.
StoppedIsStopped == told = "stopped" => Alive = {}

\* The frames a client gets are of the engine the session is configured with:
\* configure and select_sample never replace it under a stream that goes on.
\* (A dispatcher that outlives _cleanup may: its stream has lost the handle.)
StreamShowsEngine ==
  Open => \A t \in Stream : stream[t] = "live" => shows[t] = engine

\* A download ends as cancelled just when a cancel has found its own child
\* running: none takes effect on a later download, none is overruled by the exit.
CancelIsOwn ==
  pc = "settle" => (status = "cancelled" <=> landed)

\* Only complete datasets are taken for prepared, whatever exits and cancels race.
PreparedIsOnDisk == prepared \subseteq disk

\* While the client is connected, a child that runs is polled by the dispatcher,
\* so that its progress is reported and a cancel finds it.
ChildIsSupervised ==
  child \in {"running", "terminating"} /\ reader = "serving" => pc = "poll"

\* "Cancels must bypass the queue so they land while a download blocks the
\* dispatcher" (app.py:162): a cancel that lands frees the dispatcher, however
\* long the download would have taken.
CancelFreesDispatcher == landed /\ pc = "poll" ~> pc \in {"idle", "dead"}

\* _cleanup returns, the stream ends, and the dispatcher ends too or, when it
\* swallowed its cancellation, is left waiting on an inbox that stays empty.
DisconnectEnds ==
  reader = "leaving" ~>
    /\ reader = "closed" /\ Alive = {}
    /\ pc = "dead" \/ (pc = "idle" /\ inbox = <<>>)

\* "Stop background work and forget the session" (app.py:107): a session that
\* is cleaned up leaves no download behind.
NoOrphan == reader = "closed" /\ pc = "dead" => child # "running"

\* "Tell the client whether a stream is currently running" (messages.py:108):
\* between two messages, the client is not told of a stream that has ended.
RunStateIsTrue ==
  told = "running" /\ reader = "serving" /\ pc = "idle" => Streaming
=============================================================================
