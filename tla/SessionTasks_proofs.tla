------------------------ MODULE SessionTasks_proofs ------------------------
(* Proofs about SessionTasks, for any configurations, streams and inbox.    *)
EXTENDS SessionTasks, SequenceTheorems, TLAPS

(***************************************************************************)
(* The inductive invariant, in three parts.                                *)
(***************************************************************************)
\* Where a dataset is being prepared and an engine built.
Path == {"probe", "announced", "poll", "settle", "build"}

Preparing == [act : {"configure", "run", "train"}, cfg : Config]

\* What the dispatcher is doing, wherever it is.
Local ==
  /\ pc \in Path => at \in Preparing
  /\ pc \in Path /\ at.act = "run" => engine = None
  /\ pc = "build" => at.act # "train"
  /\ pc = "acknowledge" => at.act = "configure"
  /\ pc = "cancel" => at \in Message
  /\ pc \in {"acknowledge", "announce", "replace"} => engine # None
  /\ pc = "replace" => told = "running"
  /\ pending => ~Open
  /\ pc = "dead" => Broken
  /\ child \in {"running", "terminating"} => pc \in {"poll", "dead"} /\ at \in Preparing

\* The type of the Boolean variables, which Zenon handles better than SMT.
Flags == pending \in BOOLEAN /\ landed \in BOOLEAN /\ job \in BOOLEAN

\* The dispatcher has cancelled the stream and created no other.
Quiet == pc = "stopped" \/ (pc \in Path \union {"acknowledge"} /\ at.act = "configure")

Streams ==
  /\ OneStream
  /\ pc \in {"cancel", "replace"} => Alive \subseteq {awaited["dispatcher"]}
  /\ reader # "closed" /\ Quiet => Alive = {}
  /\ engine = None => Alive = {}
  /\ StoppedIsStopped
  /\ StreamShowsEngine

Downloads ==
  /\ PreparedIsOnDisk
  /\ pc = "poll" => child # "none" /\ (child = "ok" => at.cfg \in disk)
  /\ pc \in {"announced", "poll"} => status \in {"downloading", "cancelled"}
  /\ pc \in {"announced", "poll", "settle"} => (status = "cancelled" <=> landed)
  /\ pc = "settle" /\ status = "done" => at.cfg \in disk

Inv == TypeOK /\ Local /\ Streams /\ Downloads
-----------------------------------------------------------------------------
LEMMA InvInit == Init => Inv
<1> SUFFICES ASSUME Init PROVE Inv
  OBVIOUS
<1> USE SessionAssumption DEF Init
<1>1. TypeOK
  <2>1. Flags
    BY Zenon DEF Flags
  <2>2. inbox \in Seq(Message) /\ Len(inbox) <= InboxMax
    OBVIOUS
  <2>3. QED
    BY <2>1, <2>2 DEF TypeOK, Flags
<1>2. Alive = {}
  BY DEF Alive
<1>3. Local
  BY DEF Local, Path
<1>4. Streams
  BY <1>2 DEF Streams, OneStream, Quiet, Path, StoppedIsStopped, StreamShowsEngine
<1>5. Downloads
  BY DEF Downloads, PreparedIsOnDisk
<1>6. QED
  BY <1>1, <1>3, <1>4, <1>5 DEF Inv

(***************************************************************************)
(* Type correctness, of the Boolean variables first.                       *)
(***************************************************************************)
LEMMA FlagsStep == Flags /\ [Next]_vars => Flags'
<1> SUFFICES ASSUME Flags, [Next]_vars PROVE Flags'
  OBVIOUS
<1> USE DEF Flags
<1>1. CASE Dispatch \/ CancelReturns
  BY <1>1, Zenon DEF Dispatch, CancelReturns, Configure, StopStream, RunOrTrain,
     Ensure, Ensured, tasks, download
<1>2. CASE Probe \/ Settle
  BY <1>2, Zenon DEF Probe, Settle, Ensured, tasks, download
<1>3. CASE Spawn \/ PollEnds \/ Build \/ Acknowledge \/ Reply
  BY <1>3, Zenon DEF Spawn, PollEnds, Build, Acknowledge, Reply, tasks, download
<1>4. CASE Announce \/ Replace \/ Infer \/ SendFails \/ Cancelled
  BY <1>4, Zenon DEF Announce, Replace, Infer, SendFails, Cancelled, tasks, download
<1>5. CASE Cleanup
  <2>1. pending' \in BOOLEAN
    BY <1>5, Zenon DEF Cleanup
  <2>2. UNCHANGED <<landed, job>>
    BY <1>5, Zenon DEF Cleanup, download
  <2>3. QED
    BY <2>1, <2>2, Zenon
<1>6. CASE ClientLeaves \/ CancelDownload \/ CleanupReturns
  BY <1>6, Zenon DEF ClientLeaves, CancelDownload, CleanupReturns, tasks, download
<1>7. CASE ChildExits \/ JobEnds
  BY <1>7, Zenon DEF ChildExits, JobEnds, tasks, download
<1>8. ASSUME NEW m \in Message, Offer(m) PROVE Flags'
  BY <1>8, Zenon DEF Offer, tasks, download
<1>9. ASSUME NEW t \in Stream, StreamBegins(t) \/ StreamEnds(t) \/ StreamRaises(t) PROVE Flags'
  BY <1>9, Zenon DEF StreamBegins, StreamEnds, StreamRaises, download
<1>10. CASE UNCHANGED vars
  BY <1>10, Zenon DEF vars, tasks, download
<1> QED
  BY <1>1, <1>2, <1>3, <1>4, <1>5, <1>6, <1>7, <1>8, <1>9, <1>10, Zenon
  DEF Next, Dispatcher, Reader

LEMMA TypeStep == TypeOK /\ Local /\ [Next]_vars => TypeOK'
<1> SUFFICES ASSUME TypeOK, Local, [Next]_vars PROVE TypeOK'
  OBVIOUS
<1>F. Flags'
  BY FlagsStep, Zenon DEF TypeOK, Flags
<1> USE <1>F, SessionAssumption DEF TypeOK, Flags, tasks, download
<1>1. CASE Dispatch
  BY <1>1
  DEF Dispatch, Running, Configure, StopStream, RunOrTrain, CancelStream, NoStream,
     Ensure, Ensured, Streaming, Alive
<1>2. CASE CancelReturns
  BY <1>2 DEF CancelReturns, Ensure, Ensured
<1>3. CASE Probe
  BY <1>3 DEF Probe, Running, Ensured, Local, Path, Preparing
<1>4. CASE Spawn
  BY <1>4 DEF Spawn, Running
<1>5. CASE PollEnds
  BY <1>5 DEF PollEnds, Running
<1>6. CASE Settle
  BY <1>6 DEF Settle, Running, Ensured, Local, Path, Preparing
<1>7. CASE Build
  BY <1>7 DEF Build, Running, Local, Path, Preparing
<1>8. CASE Acknowledge
  BY <1>8 DEF Acknowledge, Running
<1>9. CASE Announce
  BY <1>9 DEF Announce, Running, StreamStarted, CancelStream, CreateStream, Streaming, Alive
<1>10. CASE Replace
  BY <1>10 DEF Replace, StreamStarted, CreateStream
<1>11. CASE Reply
  BY <1>11 DEF Reply, Running
<1>12. CASE SendFails
  BY <1>12 DEF SendFails
<1>13. CASE Cancelled
  BY <1>13 DEF Cancelled
<1>14. CASE ClientLeaves
  BY <1>14 DEF ClientLeaves
<1>15. CASE CancelDownload
  BY <1>15 DEF CancelDownload
<1>16. CASE Cleanup
  BY <1>16 DEF Cleanup, CancelStream, NoStream, Streaming, Alive
<1>17. CASE CleanupReturns
  BY <1>17 DEF CleanupReturns
<1>18. CASE ChildExits
  BY <1>18 DEF ChildExits, Local, Path, Preparing
<1>19. CASE JobEnds
  BY <1>19 DEF JobEnds
<1>20. ASSUME NEW m \in Message, Offer(m) PROVE TypeOK'
  BY <1>20 DEF Offer
<1>21. ASSUME NEW t \in Stream, StreamBegins(t) \/ StreamEnds(t) \/ StreamRaises(t) PROVE TypeOK'
  BY <1>21 DEF StreamBegins, StreamEnds, StreamRaises
<1>22. CASE UNCHANGED vars
  BY <1>22 DEF vars
<1>23. CASE Infer
  BY <1>23 DEF Infer, Running
<1> QED
  BY <1>1, <1>2, <1>3, <1>4, <1>5, <1>6, <1>7, <1>8, <1>9, <1>10, <1>11, <1>12, <1>13,
     <1>14, <1>15, <1>16, <1>17, <1>18, <1>19, <1>20, <1>21, <1>22, <1>23
  DEF Next, Dispatcher, Reader

(***************************************************************************)
(* The three parts of the invariant.                                       *)
(***************************************************************************)
LEMMA LocalStep == TypeOK /\ Local /\ [Next]_vars => Local'
<1> SUFFICES ASSUME TypeOK, Local, [Next]_vars PROVE Local'
  OBVIOUS
<1> USE SessionAssumption DEF TypeOK, Local, Message, Preparing, Path, Open, Broken, tasks,
    download
<1>1. CASE Dispatch
  BY <1>1 DEF Dispatch, Running, Configure, StopStream, RunOrTrain, Ensure, Ensured
<1>2. CASE CancelReturns
  BY <1>2 DEF CancelReturns, Ensure, Ensured
<1>3. CASE Probe
  BY <1>3 DEF Probe, Running, Ensured
<1>4. CASE Spawn
  BY <1>4 DEF Spawn, Running
<1>5. CASE PollEnds
  BY <1>5 DEF PollEnds, Running
<1>6. CASE Settle
  BY <1>6 DEF Settle, Running, Ensured
<1>7. CASE Build
  BY <1>7 DEF Build, Running
<1>8. CASE Acknowledge
  BY <1>8 DEF Acknowledge, Running
<1>9. CASE Announce
  BY <1>9 DEF Announce, Running, StreamStarted
<1>10. CASE Replace
  BY <1>10 DEF Replace, StreamStarted
<1>11. CASE Reply
  BY <1>11 DEF Reply, Running
<1>12. CASE SendFails
  BY <1>12 DEF SendFails
<1>13. CASE Cancelled
  BY <1>13 DEF Cancelled
<1>14. CASE ClientLeaves
  BY <1>14 DEF ClientLeaves
<1>15. CASE CancelDownload
  BY <1>15 DEF CancelDownload
<1>16. CASE Cleanup
  BY <1>16 DEF Cleanup
<1>17. CASE CleanupReturns
  BY <1>17 DEF CleanupReturns
<1>18. CASE ChildExits
  BY <1>18 DEF ChildExits
<1>19. CASE JobEnds
  BY <1>19 DEF JobEnds
<1>20. ASSUME NEW m \in Message, Offer(m) PROVE Local'
  BY <1>20 DEF Offer
<1>21. ASSUME NEW t \in Stream, StreamBegins(t) \/ StreamEnds(t) \/ StreamRaises(t) PROVE Local'
  BY <1>21 DEF StreamBegins, StreamEnds, StreamRaises
<1>22. CASE UNCHANGED vars
  BY <1>22 DEF vars
<1>23. CASE Infer
  BY <1>23 DEF Infer, Running
<1> QED
  BY <1>1, <1>2, <1>3, <1>4, <1>5, <1>6, <1>7, <1>8, <1>9, <1>10, <1>11, <1>12, <1>13,
     <1>14, <1>15, <1>16, <1>17, <1>18, <1>19, <1>20, <1>21, <1>22, <1>23
  DEF Next, Dispatcher, Reader

LEMMA DownloadsStep == TypeOK /\ Local /\ Downloads /\ [Next]_vars => Downloads'
<1> SUFFICES ASSUME TypeOK, Local, Downloads, [Next]_vars PROVE Downloads'
  OBVIOUS
<1> USE SessionAssumption DEF TypeOK, Local, Path, Downloads, PreparedIsOnDisk, tasks,
    download
<1>1. CASE Dispatch
  BY <1>1 DEF Dispatch, Running, Configure, StopStream, RunOrTrain, Ensure, Ensured
<1>2. CASE CancelReturns
  BY <1>2 DEF CancelReturns, Ensure, Ensured
<1>3. CASE Probe
  BY <1>3 DEF Probe, Running, Ensured
<1>4. CASE Spawn
  BY <1>4 DEF Spawn, Running
<1>5. CASE PollEnds
  BY <1>5 DEF PollEnds, Running
<1>6. CASE Settle
  BY <1>6 DEF Settle, Running, Ensured
<1>7. CASE Build
  BY <1>7 DEF Build, Running
<1>8. CASE Acknowledge
  BY <1>8 DEF Acknowledge, Running
<1>9. CASE Announce
  BY <1>9 DEF Announce, Running, StreamStarted
<1>10. CASE Replace
  BY <1>10 DEF Replace, StreamStarted
<1>11. CASE Reply
  BY <1>11 DEF Reply, Running
<1>12. CASE SendFails
  BY <1>12 DEF SendFails
<1>13. CASE Cancelled
  BY <1>13 DEF Cancelled
<1>14. CASE ClientLeaves
  BY <1>14 DEF ClientLeaves
<1>15. CASE CancelDownload
  BY <1>15 DEF CancelDownload
<1>16. CASE Cleanup
  BY <1>16 DEF Cleanup
<1>17. CASE CleanupReturns
  BY <1>17 DEF CleanupReturns
<1>18. CASE ChildExits
  BY <1>18 DEF ChildExits
<1>19. CASE JobEnds
  BY <1>19 DEF JobEnds
<1>20. ASSUME NEW m \in Message, Offer(m) PROVE Downloads'
  BY <1>20 DEF Offer
<1>21. ASSUME NEW t \in Stream, StreamBegins(t) \/ StreamEnds(t) \/ StreamRaises(t) PROVE Downloads'
  BY <1>21 DEF StreamBegins, StreamEnds, StreamRaises
<1>22. CASE UNCHANGED vars
  BY <1>22 DEF vars
<1>23. CASE Infer
  BY <1>23 DEF Infer, Running
<1> QED
  BY <1>1, <1>2, <1>3, <1>4, <1>5, <1>6, <1>7, <1>8, <1>9, <1>10, <1>11, <1>12, <1>13,
     <1>14, <1>15, <1>16, <1>17, <1>18, <1>19, <1>20, <1>21, <1>22, <1>23
  DEF Next, Dispatcher, Reader

(***************************************************************************)
(* What the steps make of the streams.                                     *)
(***************************************************************************)
LEMMA AliveSame == stream' = stream => Alive' = Alive
  BY DEF Alive

LEMMA AliveCancel ==
  ASSUME TypeOK, NEW by \in {"dispatcher", "cleanup"}, CancelStream(by)
  PROVE  /\ Alive' = Alive /\ task \in Alive
         /\ awaited'[by] = task
         /\ \A t \in Stream : stream'[t] = "live" => stream[t] = "live"
  BY DEF TypeOK, CancelStream, Streaming, Alive

\* Until _cleanup is through, _task is the only stream there can be.
LEMMA NoneAlive ==
  ASSUME OneStream, reader # "closed", ~Streaming
  PROVE  Alive = {}
  BY DEF OneStream, Streaming

\* The stream a dispatcher awaits is the only one, so that its end is the end
\* of all.
LEMMA EndedAlive ==
  ASSUME Streams, pc \in {"cancel", "replace"}, Ended("dispatcher")
  PROVE  Alive = {}
  BY DEF Streams, Ended, Alive

LEMMA AliveCreate ==
  ASSUME TypeOK, NEW t \in Stream, CreateStream(t), Alive = {}
  PROVE  /\ Alive' = {t} /\ task' = t
         /\ \A u \in Stream : stream'[u] # "live"
  BY DEF TypeOK, CreateStream, Alive

LEMMA AliveEnds ==
  ASSUME TypeOK, NEW t \in Stream, StreamBegins(t) \/ StreamEnds(t) \/ StreamRaises(t)
  PROVE  Alive' \subseteq Alive
<1>1. \A u \in Stream : stream'[u] # "done" => stream[u] # "done"
  BY DEF TypeOK, StreamBegins, StreamEnds, StreamRaises
<1>2. QED
  BY <1>1 DEF Alive

LEMMA StreamsStep == TypeOK /\ Local /\ Streams /\ [Next]_vars => Streams'
<1> SUFFICES ASSUME TypeOK, Local, Streams, [Next]_vars PROVE Streams'
  OBVIOUS
<1> USE SessionAssumption DEF Streams, OneStream, StoppedIsStopped, StreamShowsEngine,
    Quiet, Path, Open, tasks, download
\* The streams are left alone, and where the dispatcher goes it may.
<1>1. ASSUME UNCHANGED <<stream, task, awaited, shows, engine>>,
             reader' = reader \/ (reader = "serving" /\ reader' = "leaving"),
             pc' \notin {"cancel", "replace"} \/ pc' = pc,
             reader' # "closed" /\ Quiet' => Quiet \/ Alive = {},
             told' = told \/ told' # "stopped" \/ Alive = {}
      PROVE  Streams'
  BY <1>1, AliveSame
<1>2. CASE Dispatch
  <2>1. UNCHANGED <<reader, shows, engine, told>> /\ at' = Head(inbox) /\ pc = "idle"
    BY <1>2 DEF Dispatch, Running
  <2>2. CASE CancelStream("dispatcher") /\ pc' = "cancel"
    <3>1. Alive' = Alive /\ Alive = {task} /\ awaited'["dispatcher"] = task /\ task' = task
      BY <2>2, AliveCancel DEF CancelStream
    <3>2. \A t \in Stream : stream'[t] = "live" => stream[t] = "live"
      BY <2>2, AliveCancel
    <3>3. OneStream' /\ (pc' \in {"cancel", "replace"} => Alive' \subseteq {awaited'["dispatcher"]})
      BY <2>1, <3>1
    <3>4. StoppedIsStopped' /\ StreamShowsEngine' /\ (engine' = None => Alive' = {})
      BY <2>1, <3>1, <3>2
    <3>5. QED
      BY <2>2, <3>3, <3>4
  <2>3. CASE UNCHANGED <<stream, awaited>> /\ task' = None /\ ~Streaming
             /\ pc' \in {"stopped", "probe", "build", "started", "report"}
    BY <2>1, <2>3, AliveSame, NoneAlive DEF Streaming
  <2>4. CASE RunOrTrain(at')
    <3>1. at'.act # "configure"
          /\ pc' \in {"idle", "announce", "probe", "build", "started", "report"}
      BY <2>4 DEF RunOrTrain, Ensure, Ensured
    <3>2. QED
      BY <2>1, <2>4, <3>1, <1>1 DEF RunOrTrain
  <2>5. QED
    BY <1>2, <2>1, <2>2, <2>3, <2>4
    DEF Dispatch, Configure, StopStream, NoStream, Ensure, Ensured
<1>3. CASE CancelReturns
  <2>1. Alive = {} /\ Alive' = {}
    BY <1>3, EndedAlive, AliveSame DEF CancelReturns
  <2>2. pc' \notin {"cancel", "replace"} /\ UNCHANGED <<reader, stream, shows, engine, told>>
    BY <1>3 DEF CancelReturns, Ensure, Ensured
  <2>3. QED
    BY <2>1, <2>2 DEF Alive
<1>4. CASE Probe
  BY <1>4, <1>1 DEF Probe, Running, Ensured
<1>5. CASE Spawn
  BY <1>5, <1>1 DEF Spawn, Running
<1>6. CASE PollEnds
  BY <1>6, <1>1 DEF PollEnds, Running
<1>7. CASE Settle
  BY <1>7, <1>1 DEF Settle, Running, Ensured
<1>8. CASE Build
  <2>1. UNCHANGED <<reader, awaited, task, stream, shows, told, at>> /\ pc = "build"
    BY <1>8 DEF Build, Running
  <2>2. CASE UNCHANGED engine /\ pc' = "report"
    BY <2>1, <2>2, <1>1
  <2>3. CASE engine' = at.cfg /\ pc' \in {"acknowledge", "announce"}
    <3>1. reader # "closed" => Alive = {}
      BY <2>1 DEF Local, Preparing
    <3>2. engine' # None
      BY <2>1, <2>3 DEF Local, Preparing
    <3>3. QED
      BY <2>1, <2>3, <3>1, <3>2, AliveSame DEF Alive
  <2>4. QED
    BY <1>8, <2>2, <2>3 DEF Build
<1>9. CASE Acknowledge
  BY <1>9, <1>1 DEF Acknowledge, Running
<1>10. CASE Announce
  <2>1. UNCHANGED <<reader, shows, engine>> /\ told' = "running" /\ Open /\ engine # None
    BY <1>10 DEF Announce, Running, Local
  <2>2. CASE CancelStream("dispatcher") /\ pc' = "replace"
    <3>1. Alive' = Alive /\ Alive = {task} /\ awaited'["dispatcher"] = task /\ task' = task
      BY <2>2, AliveCancel DEF CancelStream
    <3>2. \A t \in Stream : stream'[t] = "live" => stream[t] = "live"
      BY <2>2, AliveCancel
    <3>3. OneStream' /\ (pc' \in {"cancel", "replace"} => Alive' \subseteq {awaited'["dispatcher"]})
      BY <2>1, <3>1
    <3>4. StoppedIsStopped' /\ StreamShowsEngine' /\ (engine' = None => Alive' = {})
      BY <2>1, <3>1, <3>2
    <3>5. QED
      BY <2>2, <3>3, <3>4
  <2>3. ASSUME ~Streaming, StreamStarted, NEW t \in Stream, CreateStream(t)
        PROVE  Streams'
    BY <2>1, <2>3, NoneAlive, AliveCreate DEF StreamStarted
  <2>4. QED
    BY <1>10, <2>2, <2>3 DEF Announce
<1>11. CASE Replace
  <2>1. UNCHANGED <<reader, shows, engine, told>> /\ engine # None
        /\ pc' \in {"idle", "infer", "report"} /\ told = "running"
    BY <1>11 DEF Replace, StreamStarted, Local
  <2>2. PICK t \in Stream : CreateStream(t)
    BY <1>11 DEF Replace
  <2>3. Alive = {}
    BY <1>11, EndedAlive DEF Replace
  <2>4. QED
    BY <2>1, <2>2, <2>3, AliveCreate
<1>12. CASE Reply
  BY <1>12, <1>1 DEF Reply, Running
<1>13. CASE SendFails
  BY <1>13, <1>1 DEF SendFails
<1>14. CASE Cancelled
  BY <1>14, <1>1 DEF Cancelled
<1>15. CASE ClientLeaves
  BY <1>15, <1>1 DEF ClientLeaves
<1>16. CASE CancelDownload
  BY <1>16, <1>1 DEF CancelDownload
<1>17. CASE Cleanup
  <2>1. UNCHANGED <<pc, at, shows, engine, told>> /\ reader = "leaving"
    BY <1>17 DEF Cleanup
  <2>2. CASE CancelStream("cleanup") /\ reader' = "cleanup"
    <3>1. Alive' = Alive /\ task' = task /\ awaited'["dispatcher"] = awaited["dispatcher"]
      BY <2>2, AliveCancel DEF CancelStream, TypeOK
    <3>2. QED
      BY <2>1, <2>2, <3>1, AliveCancel
  <2>3. CASE NoStream /\ reader' = "closed"
    BY <2>1, <2>3, NoneAlive, AliveSame DEF NoStream, Alive
  <2>4. QED
    BY <1>17, <2>2, <2>3 DEF Cleanup
<1>18. CASE CleanupReturns
  <2>1. UNCHANGED <<pc, at, stream, shows, engine, told>> /\ reader' = "closed"
        /\ awaited'["dispatcher"] = awaited["dispatcher"]
    BY <1>18 DEF CleanupReturns, TypeOK
  <2>2. QED
    BY <2>1, AliveSame
<1>19. CASE ChildExits
  BY <1>19, <1>1 DEF ChildExits
<1>20. CASE JobEnds
  BY <1>20, <1>1 DEF JobEnds
<1>21. ASSUME NEW m \in Message, Offer(m) PROVE Streams'
  BY <1>21, <1>1 DEF Offer
<1>22. ASSUME NEW t \in Stream, StreamBegins(t) \/ StreamEnds(t) \/ StreamRaises(t) PROVE Streams'
  <2>1. UNCHANGED <<reader, pc, at, awaited, task, engine, told>>
    BY <1>22 DEF StreamBegins, StreamEnds, StreamRaises
  <2>2. \A u \in Stream : stream'[u] = "live" =>
          \/ stream[u] = "live" /\ shows'[u] = shows[u]
          \/ shows'[u] = engine
    BY <1>22 DEF StreamBegins, StreamEnds, StreamRaises, TypeOK
  <2>3. QED
    BY <1>22, <2>1, <2>2, AliveEnds
<1>23. CASE UNCHANGED vars
  BY <1>23, <1>1 DEF vars
<1>24. CASE Infer
  BY <1>24, <1>1 DEF Infer, Running
<1> QED
  BY <1>2, <1>3, <1>4, <1>5, <1>6, <1>7, <1>8, <1>9, <1>10, <1>11, <1>12, <1>13,
     <1>14, <1>15, <1>16, <1>17, <1>18, <1>19, <1>20, <1>21, <1>22, <1>23, <1>24
  DEF Next, Dispatcher, Reader
-----------------------------------------------------------------------------
LEMMA Invariance == Spec => []Inv
<1>1. Init => Inv
  BY InvInit
<1>2. Inv /\ [Next]_vars => Inv'
  BY TypeStep, LocalStep, StreamsStep, DownloadsStep DEF Inv
<1>3. QED
  BY <1>1, <1>2, PTL DEF Spec

\* The session's state keeps its types and its inbox its bound (session.py:105-124).
THEOREM TypeCorrect == Spec => []TypeOK
<1>1. Inv => TypeOK
  BY DEF Inv
<1>2. QED
  BY <1>1, Invariance, PTL

\* A session never streams twice at once, and can cancel the stream it has, with
\* Session.start, Session.cancel and _cleanup interleaved in any way (session.py:75-103).
THEOREM OneStreamHolds == Spec => []OneStream
<1>1. Inv => OneStream
  BY DEF Inv, Streams
<1>2. QED
  BY <1>1, Invariance, PTL

\* A client that was told that nothing runs gets no further frame (handlers.py:60-63).
THEOREM StoppedHolds == Spec => []StoppedIsStopped
<1>1. Inv => StoppedIsStopped
  BY DEF Inv, Streams
<1>2. QED
  BY <1>1, Invariance, PTL

\* Frames are of the engine the session is configured with (handlers.py:30-45).
THEOREM ShowsHolds == Spec => []StreamShowsEngine
<1>1. Inv => StreamShowsEngine
  BY DEF Inv, Streams
<1>2. QED
  BY <1>1, Invariance, PTL

\* A cancel takes effect on the download it was meant for, and on no other
\* (downloads.py).
THEOREM CancelHolds == Spec => []CancelIsOwn
<1>1. Inv => CancelIsOwn
  BY DEF Inv, Downloads, CancelIsOwn
<1>2. QED
  BY <1>1, Invariance, PTL

\* Only datasets completely on disk are taken for prepared (downloads.py).
THEOREM PreparedHolds == Spec => []PreparedIsOnDisk
<1>1. Inv => PreparedIsOnDisk
  BY DEF Inv, Downloads
<1>2. QED
  BY <1>1, Invariance, PTL

\* A downloader child of a connected client is polled (downloads.py).
THEOREM SupervisedHolds == Spec => []ChildIsSupervised
<1>1. Inv => ChildIsSupervised
  BY DEF Inv, Local, Broken, ChildIsSupervised
<1>2. QED
  BY <1>1, Invariance, PTL
=============================================================================
