----------------------- MODULE TrainingService_proofs -----------------------
(* Proofs about TrainingService, for any sessions, jobs, cap and bounds.    *)
EXTENDS TrainingService, FiniteSetTheorems, SequenceTheorems, TLAPS

(***************************************************************************)
(* The inductive invariant.  A worker's session is known from its start,   *)
(* and a worker in a batch has that batch to count.                        *)
(***************************************************************************)
LocalState ==
  /\ \A j \in Job : pc[j] # "unborn" => owner[j] \in Session
  /\ \A j \in Job : pc[j] = "batch" => left[j] > 0

\* A handle names a worker of its own session, which may have ended.
HandleNamesWorker ==
  \A s \in Session :
    thread[s] # None => owner[thread[s]] = s /\ pc[thread[s]] # "unborn"

Tracked == TypeOK /\ LocalState /\ RunsAreTracked /\ HandleNamesWorker

-----------------------------------------------------------------------------
LEMMA CapPositive == MaxConcurrentJobs \in Nat \ {0}
  BY EnvCapAssumption DEF MaxConcurrentJobs, DefaultMaxConcurrentJobs

LEMMA PutType ==
  ASSUME NEW s, NEW j \in Job, NEW kinds,
         kinds \in {<<"metrics">>, <<"finished">>, <<"error", "failed">>},
         queue \in [Session -> Seq(Msg)], Put(s, kinds, j)
  PROVE  queue' \in [Session -> Seq(Msg)]
<1> DEFINE new == [i \in 1..Len(kinds) |-> [kind |-> kinds[i], job |-> j]]
<1>1. Len(kinds) \in Nat /\ \A i \in 1..Len(kinds) :
        kinds[i] \in {"metrics", "error", "finished", "failed"}
  OBVIOUS
<1>2. new \in Seq(Msg)
  BY <1>1 DEF Msg
<1>3. ASSUME NEW t \in Session PROVE queue'[t] \in Seq(Msg)
  <2>1. CASE t = s
    <3>1. queue'[t] = queue[t] \o new
      BY <2>1 DEF Put
    <3>2. QED
      BY <1>2, <3>1, ConcatProperties
  <2>2. CASE t # s
    BY <2>2 DEF Put
  <2>3. QED
    BY <2>1, <2>2
<1>4. queue' = [t \in Session |-> queue'[t]]
  BY DEF Put
<1>5. QED
  BY <1>3, <1>4

(***************************************************************************)
(* Type correctness, with what a step needs to keep it.                    *)
(***************************************************************************)
LEMMA TrackedInit == Init => Tracked
<1> SUFFICES ASSUME Init PROVE Tracked
  OBVIOUS
<1> USE DEF Init, ServiceInit
<1>1. TypeOK
  <2>1. loop \in Loop /\ pc \in [Job -> Stage]
    BY DEF Loop, Stage
  <2>2. queue \in [Session -> Seq(Msg)] /\ left \in [Job -> 0..MaxBatches]
    BY TrainingAssumption
  <2>3. QED
    BY <2>1, <2>2 DEF TypeOK
<1>2. LocalState /\ RunsAreTracked /\ HandleNamesWorker
  BY DEF LocalState, RunsAreTracked, HandleNamesWorker, Working
<1>3. QED
  BY <1>1, <1>2 DEF Tracked

\* A closed generator has no batch left.
LEMMA LeftZero ==
  ASSUME NEW j \in Job, left \in [Job -> 0..MaxBatches],
         left' = [left EXCEPT ![j] = 0]
  PROVE  left' \in [Job -> 0..MaxBatches]
  BY TrainingAssumption

LEMMA TypeStep == Tracked /\ [Next]_vars => TypeOK'
<1> SUFFICES ASSUME Tracked, [Next]_vars PROVE TypeOK'
  OBVIOUS
<1> USE TrainingAssumption, CapPositive
    DEF Tracked, TypeOK, Goto, Stage, Holding, Working, record
<1>1. ASSUME NEW s \in Session, NEW j \in Job, ClaimAndReset(s, j)
      PROVE  /\ active' \in Nat /\ others' \in Nat
             /\ thread' \in [Session -> Job \union {None}]
             /\ stop' \in [Session -> BOOLEAN]
             /\ engine' \in [Session -> Model \union {None}]
             /\ history' \in [Session -> SUBSET Model]
             /\ queue' \in [Session -> Seq(Msg)]
             /\ loop' \in Loop
             /\ owner' \in [Job -> Session \union {None}]
             /\ asked' \in [Job -> {"run", "stop", "unload"}]
             /\ over' \in [Job -> Checkpoint \union {None}]
             /\ earlier' \in [Job -> SUBSET Job]
             /\ heard' \in [Session -> SUBSET Job]
  <2>1. RunsOf(s) \in SUBSET Job
    BY DEF RunsOf, JobsIn
  <2>2. QED
    BY <1>1, <2>1 DEF ClaimAndReset, TryAcquire
<1>2. ASSUME NEW s \in Session, NEW j \in Job, Start(s, j)
      PROVE  TypeOK'
  BY <1>1, <1>2 DEF Start
<1>3. ASSUME NEW s \in Session, NEW j \in Job, StartRaises(s, j)
      PROVE  TypeOK'
  BY <1>1, <1>3 DEF StartRaises
<1>4. ASSUME NEW s \in Session, Stop(s)
      PROVE  TypeOK'
  BY <1>4 DEF Stop, Ask
<1>5. ASSUME NEW s \in Session, Clear(s)
      PROVE  TypeOK'
  BY <1>5 DEF Clear, Ask
<1>6. ASSUME NEW s \in Session, NEW c \in Checkpoint, AdoptBegins(s, c)
      PROVE  TypeOK'
  BY <1>6 DEF AdoptBegins, Loop
<1>7. ASSUME NEW s \in Session, Drain(s)
      PROVE  TypeOK'
  <2>1. queue' \in [Session -> Seq(Msg)] /\ Head(queue[s]) \in Msg
    BY <1>7, HeadTailProperties DEF Drain
  <2>2. heard' \in [Session -> SUBSET Job]
    BY <1>7, <2>1 DEF Drain, Msg
  <2>3. QED
    BY <1>7, <2>1, <2>2 DEF Drain
<1>8. ASSUME Adopt
      PROVE  TypeOK'
  <2>1. CASE AdoptBuilds
    <3>1. engine' \in [Session -> Model \union {None}]
      BY <2>1 DEF AdoptBuilds, Loop, Model
    <3>2. loop' \in Loop
      BY <2>1 DEF AdoptBuilds, Loop
    <3>3. QED
      BY <2>1, <3>1, <3>2 DEF AdoptBuilds
  <2>2. CASE AdoptRestores
    <3>1. history' \in [Session -> SUBSET Model]
      BY <2>2 DEF AdoptRestores, Loop, Model
    <3>2. loop' \in Loop /\ over' \in [Job -> Checkpoint \union {None}]
      BY <2>2 DEF AdoptRestores, Loop
    <3>3. QED
      BY <2>2, <3>1, <3>2 DEF AdoptRestores
  <2>3. CASE AdoptRaises
    BY <2>3 DEF AdoptRaises, Loop
  <2>4. QED
    BY <1>8, <2>1, <2>2, <2>3 DEF Adopt
<1>9. ASSUME OtherClaims \/ OtherReleases
      PROVE  TypeOK'
  BY <1>9 DEF OtherClaims, OtherReleases, TryAcquire, Release
<1>10. ASSUME NEW j \in Job, Worker(j)
       PROVE  TypeOK'
  <2>1. CASE BuildSucceeds(j) \/ CheckContinues(j)
    BY <2>1 DEF BuildSucceeds, CheckContinues
  <2>2. CASE CheckEnds(j)
    BY <2>2, LeftZero DEF CheckEnds
  <2>3. CASE BuildRaises(j)
    <3>1. queue' \in [Session -> Seq(Msg)] /\ left' \in [Job -> 0..MaxBatches]
      BY <2>3, PutType, LeftZero DEF BuildRaises
    <3>2. QED
      BY <2>3, <3>1 DEF BuildRaises
  <2>4. CASE TrainRaises(j)
    <3>1. queue' \in [Session -> Seq(Msg)] /\ left' \in [Job -> 0..MaxBatches]
      BY <2>4, PutType, LeftZero DEF TrainRaises
    <3>2. QED
      BY <2>4, <3>1 DEF TrainRaises
  <2>5. CASE Finish(j)
    <3>1. queue' \in [Session -> Seq(Msg)]
      BY <2>5, PutType DEF Finish
    <3>2. QED
      BY <2>5, <3>1 DEF Finish
  <2>6. CASE Publish(j)
    BY <2>6 DEF Publish, Model
  <2>7. CASE Batch(j)
    <3>1. queue' \in [Session -> Seq(Msg)]
      BY <2>7, PutType DEF Batch
    <3>2. left' \in [Job -> 0..MaxBatches]
      BY <2>7 DEF Batch, LocalState
    <3>3. history' \in [Session -> SUBSET Model]
      BY <2>7 DEF Batch, Model
    <3>4. QED
      BY <2>7, <3>1, <3>2, <3>3 DEF Batch
  <2>8. CASE ClearHandle(j) \/ FlushRaises(j)
    BY <2>8 DEF ClearHandle, FlushRaises
  <2>9. CASE ReleaseSlot(j)
    BY <2>9 DEF ReleaseSlot, Release
  <2>10. QED
    BY <1>10, <2>1, <2>2, <2>3, <2>4, <2>5, <2>6, <2>7, <2>8, <2>9 DEF Worker
<1>11. CASE UNCHANGED vars
  BY <1>11 DEF vars
<1>12. QED
  BY <1>2, <1>3, <1>4, <1>5, <1>6, <1>7, <1>8, <1>9, <1>10, <1>11
     DEF Next, Handler

(***************************************************************************)
(* Steps by what they do to the workers.                                   *)
(***************************************************************************)
\* The handlers and the drain, adopt() and the other services' jobs leave the
\* workers alone.
Aside == UNCHANGED <<thread, pc, owner, left>>

NoSlotMoves == UNCHANGED <<active, others>>

\* A start binds the handle to a fresh worker, alive or not.
Begins(s, j) ==
  /\ ~IsRunning(s) /\ pc[j] = "unborn"
  /\ thread' = [thread EXCEPT ![s] = j]
  /\ owner' = [owner EXCEPT ![j] = s]
  /\ \E to \in {"build", "leaked"} : Goto(j, to)

\* A worker moves on and keeps its handle.
Moves(j) ==
  /\ pc[j] \in Working
  /\ \E to \in Working : Goto(j, to) /\ (to = "batch" => left'[j] > 0)
  /\ \A k \in Job \ {j} : left'[k] = left[k]
  /\ UNCHANGED <<thread, owner>>

\* A worker goes to its release, its handle cleared or not.
Leaves(j) == ClearHandle(j) \/ FlushRaises(j)

LEMMA StepKinds ==
  ASSUME Tracked, [Next]_vars
  PROVE  \/ NoSlotMoves /\ (Aside \/ \E j \in Job : Moves(j) \/ Leaves(j))
         \/ Aside /\ (OtherClaims \/ OtherReleases)
         \/ \E s \in Session, j \in Job : Start(s, j) \/ StartRaises(s, j)
         \/ \E j \in Job : ReleaseSlot(j)
<1> USE DEF NoSlotMoves
<1>1. ASSUME NEW s \in Session, Handler(s)
      PROVE  \/ Aside /\ NoSlotMoves
             \/ \E j \in Job : Start(s, j) \/ StartRaises(s, j)
  BY <1>1 DEF Handler, Stop, Clear, AdoptBegins, Drain, Aside
<1>2. ASSUME NEW j \in Job, Worker(j)
      PROVE  (NoSlotMoves /\ (Moves(j) \/ Leaves(j))) \/ ReleaseSlot(j)
  <2>1. CASE BuildSucceeds(j) \/ BuildRaises(j) \/ Publish(j)
    BY <2>1 DEF BuildSucceeds, BuildRaises, Publish, Moves, Goto, Working,
                Tracked, TypeOK
  <2>2. CASE CheckContinues(j)
    BY <2>2 DEF CheckContinues, Moves, Goto, Working, Tracked, TypeOK
  <2>3. CASE CheckEnds(j) \/ Finish(j) \/ TrainRaises(j)
    BY <2>3 DEF CheckEnds, Finish, TrainRaises, Moves, Goto, Working, Tracked,
                TypeOK
  <2>4. CASE Batch(j)
    BY <2>4 DEF Batch, Moves, Goto, Working, Tracked, TypeOK
  <2>5. QED
    BY <1>2, <2>1, <2>2, <2>3, <2>4 DEF Worker, Leaves, ClearHandle, FlushRaises
<1>3. ASSUME Adopt \/ UNCHANGED vars
      PROVE  Aside /\ NoSlotMoves
  BY <1>3 DEF Adopt, AdoptBuilds, AdoptRestores, AdoptRaises, vars, Aside
<1>4. ASSUME OtherClaims \/ OtherReleases
      PROVE  Aside
  BY <1>4 DEF OtherClaims, OtherReleases, Aside
<1>5. QED
  BY <1>1, <1>2, <1>3, <1>4 DEF Next

LEMMA StartBegins ==
  ASSUME NEW s \in Session, NEW j \in Job, Start(s, j) \/ StartRaises(s, j),
         left \in [Job -> 0..MaxBatches]
  PROVE  Begins(s, j) /\ \A k \in Job \ {j} : left'[k] = left[k]
<1>1. ClaimAndReset(s, j) /\ \E to \in {"build", "leaked"} : Goto(j, to)
  BY DEF Start, StartRaises
<1>2. \A k \in Job \ {j} : left'[k] = left[k]
  BY DEF Start, StartRaises
<1>3. QED
  BY <1>1, <1>2 DEF ClaimAndReset, Begins

LEMMA TrackedStep == Tracked /\ [Next]_vars => Tracked'
<1> SUFFICES ASSUME Tracked, [Next]_vars PROVE Tracked'
  OBVIOUS
<1>1. /\ TypeOK' /\ LocalState /\ RunsAreTracked /\ HandleNamesWorker
      /\ thread \in [Session -> Job \union {None}] /\ pc \in [Job -> Stage]
      /\ owner \in [Job -> Session \union {None}] /\ None \notin Job
      /\ left \in [Job -> 0..MaxBatches]
  BY TypeStep, TrainingAssumption DEF Tracked, TypeOK
<1>2. ASSUME Aside
      PROVE  LocalState' /\ RunsAreTracked' /\ HandleNamesWorker'
  BY <1>1, <1>2 DEF Aside, LocalState, RunsAreTracked, HandleNamesWorker
<1>3. ASSUME NEW s \in Session, NEW j \in Job, Start(s, j) \/ StartRaises(s, j)
      PROVE  LocalState' /\ RunsAreTracked' /\ HandleNamesWorker'
  <2>1. Begins(s, j) /\ \A k \in Job \ {j} : left'[k] = left[k]
    BY <1>1, <1>3, StartBegins
  <2>2. \A k \in Job : k # j => pc'[k] = pc[k] /\ owner'[k] = owner[k]
    BY <1>1, <2>1 DEF Begins, Goto
  <2>3. owner'[j] = s /\ pc'[j] \in {"build", "leaked"}
    BY <1>1, <2>1 DEF Begins, Goto
  <2>4. \A k \in Job : pc[k] \in Working => owner[k] # s
    BY <1>1, <2>1 DEF Begins, IsRunning, RunsAreTracked
  <2>5. thread'[s] = j /\ \A t \in Session \ {s} : thread'[t] = thread[t]
    BY <1>1, <2>1 DEF Begins
  <2>6. LocalState'
    BY <1>1, <2>1, <2>2, <2>3 DEF LocalState
  <2>7. RunsAreTracked'
    BY <1>1, <2>2, <2>3, <2>4, <2>5 DEF RunsAreTracked, LocalState, Working
  <2>8. HandleNamesWorker'
    <3>1. ASSUME NEW t \in Session, t # s, thread[t] # None
          PROVE  thread[t] # j
      BY <1>1, <3>1, <2>1 DEF HandleNamesWorker, Begins, Working
    <3>2. QED
      BY <1>1, <2>2, <2>3, <2>5, <3>1 DEF HandleNamesWorker, Working
  <2>9. QED
    BY <2>6, <2>7, <2>8
<1>4. ASSUME NEW j \in Job, Moves(j)
      PROVE  LocalState' /\ RunsAreTracked' /\ HandleNamesWorker'
  <2>1. /\ pc[j] \in Working /\ pc'[j] \in Working
        /\ pc'[j] = "batch" => left'[j] > 0
        /\ \A k \in Job \ {j} : pc'[k] = pc[k] /\ left'[k] = left[k]
        /\ thread' = thread /\ owner' = owner
    BY <1>1, <1>4 DEF Moves, Goto
  <2>2. RunsAreTracked' /\ HandleNamesWorker'
    BY <1>1, <2>1 DEF RunsAreTracked, HandleNamesWorker, Working
  <2>3. QED
    BY <1>1, <2>1, <2>2 DEF LocalState, Working
<1>5. ASSUME NEW j \in Job, ClearHandle(j)
      PROVE  LocalState' /\ RunsAreTracked' /\ HandleNamesWorker'
  <2>1. /\ pc[j] \in Working /\ pc'[j] = "release" /\ owner' = owner
        /\ \A k \in Job \ {j} : pc'[k] = pc[k]
        /\ thread' = [thread EXCEPT ![owner[j]] = None] /\ left' = left
    BY <1>1, <1>5 DEF ClearHandle, Goto, Working
  <2>2. owner[j] \in Session /\ thread[owner[j]] = j
    BY <1>1, <2>1 DEF LocalState, RunsAreTracked, Working
  <2>3. LocalState'
    BY <1>1, <2>1, <2>2 DEF LocalState
  <2>4. RunsAreTracked'
    BY <1>1, <2>1, <2>2 DEF RunsAreTracked, LocalState, Working
  <2>5. HandleNamesWorker'
    BY <1>1, <2>1, <2>2 DEF HandleNamesWorker
  <2>6. QED
    BY <2>3, <2>4, <2>5
<1>6. ASSUME NEW j \in Job, FlushRaises(j) \/ ReleaseSlot(j)
      PROVE  LocalState' /\ RunsAreTracked' /\ HandleNamesWorker'
  <2>1. /\ pc[j] \in {"flush", "release"} /\ pc'[j] \in {"release", "dead"}
        /\ \A k \in Job \ {j} : pc'[k] = pc[k]
        /\ thread' = thread /\ owner' = owner /\ left' = left
    BY <1>1, <1>6 DEF FlushRaises, ReleaseSlot, Goto
  <2>2. QED
    BY <1>1, <2>1 DEF LocalState, RunsAreTracked, HandleNamesWorker, Working
<1>7. QED
  BY <1>1, <1>2, <1>3, <1>4, <1>5, <1>6, StepKinds DEF Tracked, Leaves

\* The service's state has the types of TypeOK in every reachable state.
THEOREM TypeCorrect == Spec => []TypeOK
<1>1. Tracked => TypeOK
  BY DEF Tracked
<1>2. QED
  BY <1>1, TrackedInit, TrackedStep, PTL DEF Spec

\* A worker that has not cleared _thread is the one _thread names, so that
\* is_running cannot miss it.
THEOREM TrackingHolds == Spec => []RunsAreTracked
<1>1. Tracked => RunsAreTracked
  BY DEF Tracked
<1>2. QED
  BY <1>1, TrackedInit, TrackedStep, PTL DEF Spec

\* No two workers of one session run at once.
THEOREM OneRunHolds == Spec => []OneRunPerSession
<1>1. Tracked => OneRunPerSession
  BY DEF Tracked, RunsAreTracked, OneRunPerSession
<1>2. QED
  BY <1>1, TrackedInit, TrackedStep, PTL DEF Spec

(***************************************************************************)
(* The counter.  The set of holders is finite without any assumption on    *)
(* Job: it grows by one worker at a time.                                  *)
(***************************************************************************)
SlotInv == IsFiniteSet(Holders) /\ SlotAccounting

HeldNow == Cardinality(Holders) + others

LEMMA SlotInit == Init => SlotInv /\ HeldNow = 0
<1>1. Init => Holders = {}
  BY DEF Init, ServiceInit, Holders, Holding, Working
<1>2. QED
  BY <1>1, FS_EmptySet DEF Init, SlotInv, SlotAccounting, HeldNow

\* A step keeps the accounting, and changes what is held as JobSlots allows.
LEMMA SlotStep ==
  ASSUME Tracked, SlotInv, [Next]_vars
  PROVE  /\ SlotInv'
         /\ \/ HeldNow' = HeldNow
            \/ HeldNow < MaxConcurrentJobs /\ HeldNow' = HeldNow + 1
            \/ HeldNow > 0 /\ HeldNow' = HeldNow - 1
<1> USE DEF SlotInv, SlotAccounting, HeldNow
<1>1. /\ Cardinality(Holders) \in Nat /\ others \in Nat /\ active \in Nat
      /\ pc \in [Job -> Stage] /\ MaxConcurrentJobs \in Nat
  BY FS_CardinalityType, CapPositive DEF Tracked, TypeOK
<1>2. CASE NoSlotMoves /\ (Aside \/ \E j \in Job : Moves(j) \/ Leaves(j))
  <2>1. Holders' = Holders
    BY <1>1, <1>2 DEF Aside, Moves, Leaves, ClearHandle, FlushRaises, Goto, Holders,
                      Holding, Working
  <2>2. QED
    BY <1>2, <2>1 DEF NoSlotMoves
<1>3. CASE Aside /\ (OtherClaims \/ OtherReleases)
  <2>1. Holders' = Holders
    BY <1>3 DEF Aside, Holders
  <2>2. QED
    BY <1>1, <1>3, <2>1 DEF OtherClaims, OtherReleases, TryAcquire, SlotFree,
                            Release
<1>4. ASSUME NEW s \in Session, NEW j \in Job, Start(s, j) \/ StartRaises(s, j)
      PROVE  /\ SlotInv'
             /\ HeldNow < MaxConcurrentJobs /\ HeldNow' = HeldNow + 1
  <2>1. /\ pc[j] = "unborn" /\ others' = others
        /\ active < MaxConcurrentJobs /\ active' = active + 1
        /\ \E to \in {"build", "leaked"} : Goto(j, to)
    BY <1>4 DEF Start, StartRaises, ClaimAndReset, TryAcquire, SlotFree
  <2>2. j \notin Holders /\ Holders' = Holders \union {j}
    BY <1>1, <2>1 DEF Goto, Holders, Holding, Working
  <2>3. IsFiniteSet(Holders') /\ Cardinality(Holders') = Cardinality(Holders) + 1
    BY <2>2, FS_AddElement
  <2>4. QED
    BY <1>1, <2>1, <2>3
<1>5. ASSUME NEW j \in Job, ReleaseSlot(j)
      PROVE  SlotInv' /\ HeldNow > 0 /\ HeldNow' = HeldNow - 1
  <2>1. pc[j] = "release" /\ others' = others /\ Goto(j, "dead") /\ Release
    BY <1>5 DEF ReleaseSlot
  <2>2. j \in Holders /\ Holders' = Holders \ {j}
    BY <1>1, <2>1 DEF Goto, Holders, Holding, Working
  <2>3. IsFiniteSet(Holders') /\ Cardinality(Holders') = Cardinality(Holders) - 1
    BY <2>2, FS_RemoveElement
  <2>4. Cardinality(Holders) > 0
    BY <1>1, <2>2, FS_EmptySet
  <2>5. QED
    BY <1>1, <2>1, <2>3, <2>4 DEF Release
<1>6. QED
  BY <1>2, <1>3, <1>4, <1>5, StepKinds

\* The counter is the number of slots held, whatever the jobs end on.
THEOREM SlotAccountingHolds == Spec => []SlotAccounting
<1>1. Tracked /\ SlotInv /\ [Next]_vars => (Tracked /\ SlotInv)'
  BY TrackedStep, SlotStep
<1>2. SlotInv => SlotAccounting
  BY DEF SlotInv
<1>3. QED
  BY <1>1, <1>2, TrackedInit, SlotInit, PTL DEF Spec

\* The jobs implement the abstract job slots: never more than the cap, and a
\* release always has a slot to give back.
THEOREM SlotRefinement == Spec => SlotsImplemented
<1>1. Init => Slots!Init
  BY SlotInit DEF Slots!Init, HeldNow
<1>2. Tracked /\ SlotInv /\ [Next]_vars => (Tracked /\ SlotInv)'
  BY TrackedStep, SlotStep
<1>3. Tracked /\ SlotInv /\ [Next]_vars => [Slots!Next]_HeldNow
  BY SlotStep DEF Slots!Next, Slots!Claim, Slots!Free, HeldNow
<1>4. QED
  BY <1>1, <1>2, <1>3, TrackedInit, SlotInit, PTL
     DEF Spec, SlotsImplemented, Slots!Spec, HeldNow

(***************************************************************************)
(* Histories and messages.  A step adds at most one worker, and to a       *)
(* session that has none.                                                  *)
(***************************************************************************)
NoNewWorker ==
  /\ owner' = owner
  /\ \A k \in Job : pc'[k] \in Working => pc[k] \in Working
  /\ \A k \in Job : pc'[k] = "unborn" <=> pc[k] = "unborn"

NewWorker(s, j) ==
  /\ pc[j] = "unborn" /\ owner'[j] = s /\ pc'[j] # "unborn"
  /\ \A k \in Job : pc[k] \in Working => owner[k] # s
  /\ \A k \in Job \ {j} : pc'[k] = pc[k] /\ owner'[k] = owner[k]

Starts == \E s \in Session, j \in Job : Start(s, j) \/ StartRaises(s, j)

LEMMA StartIsNew ==
  ASSUME Tracked, NEW s \in Session, NEW j \in Job, Start(s, j) \/ StartRaises(s, j)
  PROVE  NewWorker(s, j)
<1>1. /\ pc \in [Job -> Stage] /\ owner \in [Job -> Session \union {None}]
      /\ left \in [Job -> 0..MaxBatches] /\ RunsAreTracked
      /\ thread \in [Session -> Job \union {None}] /\ None \notin Job
  BY TrainingAssumption DEF Tracked, TypeOK
<1>2. Begins(s, j)
  BY <1>1, StartBegins
<1>3. \A k \in Job : pc[k] \in Working => owner[k] # s
  BY <1>1, <1>2 DEF Begins, IsRunning, RunsAreTracked
<1>4. QED
  BY <1>1, <1>2, <1>3 DEF Begins, Goto, NewWorker

LEMMA OthersAreOld ==
  ASSUME Tracked, [Next]_vars, ~Starts
  PROVE  NoNewWorker
<1>1. /\ pc \in [Job -> Stage] /\ owner \in [Job -> Session \union {None}]
  BY DEF Tracked, TypeOK
<1>2. CASE Aside
  BY <1>2 DEF Aside, NoNewWorker
<1>3. ASSUME NEW j \in Job, Moves(j) \/ Leaves(j) \/ ReleaseSlot(j)
      PROVE  NoNewWorker
  BY <1>1, <1>3 DEF Moves, Leaves, ClearHandle, FlushRaises, ReleaseSlot, Goto,
                    NoNewWorker, Working
<1>4. QED
  BY <1>2, <1>3, StepKinds DEF Starts

\* The runs of a session are the jobs started for it.
LEMMA RunsAreStarted ==
  ASSUME pc \in [Job -> Stage], NEW s
  PROVE  RunsOf(s) = {j \in Job : owner[j] = s /\ pc[j] # "unborn"}
  BY DEF RunsOf, JobsIn, Stage, Holding, Working

\* What the steps do to the histories.
LEMMA HistoryKinds ==
  ASSUME Tracked, [Next]_vars
  PROVE  \/ UNCHANGED <<history, over>>
         \/ Starts
         \/ AdoptRestores
         \/ \E j \in Job : Batch(j)
<1> USE DEF record
<1>1. ASSUME NEW s \in Session, Handler(s)
      PROVE  UNCHANGED <<history, over>> \/ \E j \in Job : Start(s, j) \/ StartRaises(s, j)
  BY <1>1 DEF Handler, Stop, Clear, Ask, AdoptBegins, Drain
<1>2. ASSUME NEW j \in Job, Worker(j)
      PROVE  UNCHANGED <<history, over>> \/ Batch(j)
  BY <1>2 DEF Worker, BuildSucceeds, BuildRaises, Publish, CheckContinues, CheckEnds,
              TrainRaises, Finish, ClearHandle, FlushRaises, ReleaseSlot
<1>3. ASSUME Adopt \/ OtherClaims \/ OtherReleases \/ UNCHANGED vars
      PROVE  UNCHANGED <<history, over>> \/ AdoptRestores
  BY <1>3 DEF Adopt, AdoptBuilds, AdoptRaises, OtherClaims, OtherReleases, vars
<1>4. QED
  BY <1>1, <1>2, <1>3 DEF Next, Starts

\* One history, and that of one worker, of HistoryOfOneRun.
OneModel(s) ==
  \/ \E m \in Model \union {None} : history[s] \subseteq {m}
  \/ \E j \in RunsOf(s) : history[s] = {j, over[j]}

OwnPoints(j) == pc[j] \in Working => history[owner[j]] \subseteq {j, over[j]}

LEMMA HistoryParts ==
  HistoryOfOneRun <=> (\A s \in Session : OneModel(s)) /\ (\A j \in Job : OwnPoints(j))
  BY DEF HistoryOfOneRun, OneModel, OwnPoints

LEMMA HistoryInit == Init => HistoryOfOneRun
  BY DEF Init, ServiceInit, HistoryOfOneRun, Working

\* A run that was started stays one of its session's.
LEMMA RunsStay ==
  ASSUME Tracked, Tracked', NoNewWorker, NEW s
  PROVE  RunsOf(s)' = RunsOf(s)
<1>1. pc \in [Job -> Stage] /\ pc' \in [Job -> Stage]
  BY DEF Tracked, TypeOK
<1>2. RunsOf(s) = {j \in Job : owner[j] = s /\ pc[j] # "unborn"}
  BY <1>1, RunsAreStarted
<1>3. RunsOf(s)' = {j \in Job : owner'[j] = s /\ pc'[j] # "unborn"}
  BY <1>1 DEF RunsOf, JobsIn, Stage, Holding, Working
<1>4. QED
  BY <1>2, <1>3 DEF NoNewWorker

LEMMA HistoryStep == Tracked /\ HistoryOfOneRun /\ [Next]_vars => HistoryOfOneRun'
<1> SUFFICES ASSUME Tracked, HistoryOfOneRun, [Next]_vars
             PROVE  (\A s \in Session : OneModel(s)') /\ (\A j \in Job : OwnPoints(j)')
  BY HistoryParts DEF HistoryOfOneRun, OneModel, OwnPoints
<1>1. /\ Tracked' /\ \A s \in Session : OneModel(s)
      /\ \A j \in Job : OwnPoints(j)
  BY TrackedStep, HistoryParts
<1>2. /\ history \in [Session -> SUBSET Model] /\ over \in [Job -> Checkpoint \union {None}]
      /\ loop \in Loop /\ None \notin Job /\ pc \in [Job -> Stage]
      /\ RunsAreTracked /\ owner \in [Job -> Session \union {None}]
      /\ \A j \in Job : pc[j] # "unborn" => owner[j] \in Session
  BY TrainingAssumption DEF Tracked, TypeOK, LocalState
<1>3. ASSUME NEW s \in Session, NEW j \in Job, Start(s, j) \/ StartRaises(s, j)
      PROVE  (\A t \in Session : OneModel(t)') /\ (\A k \in Job : OwnPoints(k)')
  <2>1. NewWorker(s, j)
    BY <1>3, StartIsNew
  <2>2. history' = [history EXCEPT ![s] = {}] /\ over' = over
    BY <1>3 DEF Start, StartRaises, ClaimAndReset
  <2>3. pc' \in [Job -> Stage]
    BY <1>1 DEF Tracked, TypeOK
  <2>4. ASSUME NEW t \in Session PROVE OneModel(t)'
    <3>1. CASE t = s
      BY <1>2, <2>2, <3>1 DEF OneModel
    <3>2. CASE t # s
      <4>1. history'[t] = history[t]
        BY <1>2, <2>2, <3>2
      <4>2. \A k \in RunsOf(t) : k \in RunsOf(t)'
        BY <1>2, <2>1, <2>3 DEF RunsOf, JobsIn, NewWorker, Stage
      <4>3. QED
        BY <1>1, <2>2, <4>1, <4>2 DEF OneModel
    <3>3. QED
      BY <3>1, <3>2
  <2>5. ASSUME NEW k \in Job PROVE OwnPoints(k)'
    <3>1. CASE k = j
      BY <1>2, <2>1, <2>2, <3>1 DEF OwnPoints, NewWorker
    <3>2. CASE k # j /\ pc[k] \in Working
      <4>1. owner[k] # s /\ owner'[k] = owner[k] /\ owner[k] \in Session
        BY <1>2, <2>1, <3>2 DEF NewWorker, Working
      <4>2. QED
        BY <1>1, <1>2, <2>2, <3>2, <4>1 DEF OwnPoints
    <3>3. CASE k # j /\ pc[k] \notin Working
      BY <2>1, <3>3 DEF OwnPoints, NewWorker
    <3>4. QED
      BY <3>1, <3>2, <3>3
  <2>6. QED
    BY <2>4, <2>5
<1>4. ASSUME NoNewWorker, UNCHANGED <<history, over>>
      PROVE  (\A t \in Session : OneModel(t)') /\ (\A k \in Job : OwnPoints(k)')
  <2>1. \A t \in Session : RunsOf(t)' = RunsOf(t)
    BY <1>1, <1>4, RunsStay
  <2>2. QED
    BY <1>1, <1>4, <2>1 DEF OneModel, OwnPoints, NoNewWorker
<1>5. ASSUME NoNewWorker, AdoptRestores
      PROVE  (\A t \in Session : OneModel(t)') /\ (\A k \in Job : OwnPoints(k)')
  <2> DEFINE s == loop.session
             c == loop.checkpoint
  <2>1. s \in Session /\ c \in Checkpoint
    BY <1>2, <1>5 DEF AdoptRestores, Loop
  <2>2. PICK h \in {{c}, {}} : history' = [history EXCEPT ![s] = h]
    BY <1>5 DEF AdoptRestores
  <2>3. over' = [k \in Job |-> IF k \in JobsIn(s, Working) THEN c ELSE over[k]]
    BY <1>5 DEF AdoptRestores
  <2> HIDE DEF s, c
  <2>4. \A k \in Job : over'[k] = IF owner[k] = s /\ pc[k] \in Working THEN c ELSE over[k]
    BY <2>3 DEF JobsIn
  <2>5. history'[s] = h /\ \A t \in Session \ {s} : history'[t] = history[t]
    BY <1>2, <2>1, <2>2
  <2>6. ASSUME NEW t \in Session PROVE OneModel(t)'
    <3>1. CASE t = s
      <4>1. c \in Model /\ history'[t] \subseteq {c}
        BY <2>1, <2>5, <3>1 DEF Model
      <4>2. QED
        BY <4>1 DEF OneModel
    <3>2. CASE t # s
      <4>1. RunsOf(t)' = RunsOf(t)
        BY <1>1, <1>5, RunsStay
      <4>2. \A k \in RunsOf(t) : over'[k] = over[k]
        BY <1>2, <2>4, <3>2, RunsAreStarted
      <4>3. QED
        BY <1>1, <2>5, <3>2, <4>1, <4>2 DEF OneModel
    <3>3. QED
      BY <3>1, <3>2
  <2>7. ASSUME NEW k \in Job PROVE OwnPoints(k)'
    <3> SUFFICES ASSUME pc'[k] \in Working PROVE history'[owner'[k]] \subseteq {k, over'[k]}
      BY DEF OwnPoints
    <3>1. pc[k] \in Working /\ owner'[k] = owner[k] /\ owner[k] \in Session
      BY <1>2, <1>5 DEF NoNewWorker, Working
    <3>2. CASE owner[k] = s
      BY <2>4, <2>5, <3>1, <3>2
    <3>3. CASE owner[k] # s
      BY <1>1, <2>4, <2>5, <3>1, <3>3 DEF OwnPoints
    <3>4. QED
      BY <3>2, <3>3
  <2>8. QED
    BY <2>6, <2>7
<1>6. ASSUME NoNewWorker, NEW j \in Job, Batch(j)
      PROVE  (\A t \in Session : OneModel(t)') /\ (\A k \in Job : OwnPoints(k)')
  <2> DEFINE s == owner[j]
  <2>1. /\ history' = [history EXCEPT ![s] = @ \union {j}] /\ over' = over
        /\ pc[j] \in Working /\ s \in Session
    BY <1>2, <1>6 DEF Batch, Working, record
  <2>2. history[s] \subseteq {j, over[j]}
    BY <1>1, <2>1 DEF OwnPoints
  <2> HIDE DEF s
  <2>3. history'[s] = history[s] \union {j} /\ \A t \in Session \ {s} : history'[t] = history[t]
    BY <1>2, <2>1
  <2>4. history'[s] = {j} \/ history'[s] = {j, over[j]}
    BY <2>2, <2>3
  <2>5. \A t \in Session : RunsOf(t)' = RunsOf(t)
    BY <1>1, <1>6, RunsStay
  <2>6. j \in RunsOf(s) /\ j \in Model
    BY <1>2, <2>1, RunsAreStarted DEF s, Model, Working
  <2>7. ASSUME NEW t \in Session PROVE OneModel(t)'
    <3>1. CASE t = s
      BY <2>1, <2>4, <2>5, <2>6, <3>1 DEF OneModel
    <3>2. CASE t # s
      BY <1>1, <2>1, <2>3, <2>5, <3>2 DEF OneModel
    <3>3. QED
      BY <3>1, <3>2
  <2>8. ASSUME NEW k \in Job PROVE OwnPoints(k)'
    <3> SUFFICES ASSUME pc'[k] \in Working PROVE history'[owner'[k]] \subseteq {k, over'[k]}
      BY DEF OwnPoints
    <3>1. pc[k] \in Working /\ owner'[k] = owner[k] /\ owner[k] \in Session
      BY <1>2, <1>6 DEF NoNewWorker, Working
    <3>2. CASE owner[k] = s
      <4>1. k = j
        BY <1>2, <2>1, <3>1, <3>2 DEF RunsAreTracked, s
      <4>2. QED
        BY <2>1, <2>4, <3>1, <3>2, <4>1
    <3>3. CASE owner[k] # s
      BY <1>1, <2>1, <2>3, <3>1, <3>3 DEF OwnPoints
    <3>4. QED
      BY <3>2, <3>3
  <2>9. QED
    BY <2>7, <2>8
<1>7. CASE ~Starts
  BY <1>4, <1>5, <1>6, <1>7, HistoryKinds, OthersAreOld
<1>8. QED
  BY <1>3, <1>7 DEF Starts

\* A history is of one model, or of a run and the checkpoint that was loaded under
\* it; while a run is alive it has no point of another run, nor of a checkpoint
\* that was loaded before.
THEOREM HistoryHolds == Spec => []HistoryOfOneRun
  BY TrackedInit, TrackedStep, HistoryInit, HistoryStep, PTL DEF Spec

(***************************************************************************)
(* Messages.  Whoever is heard or queued was started, and the runs that    *)
(* were started before another one send no more.                           *)
(***************************************************************************)
Senders ==
  \A s \in Session :
    /\ \A a \in 1..Len(queue[s]) : pc[queue[s][a].job] # "unborn"
    /\ \A j \in heard[s] : pc[j] # "unborn"

EarlierAreOver ==
  \A j \in Job : \A k \in earlier[j] : pc[k] \notin Working \union {"unborn"}

MessageInv == Senders /\ EarlierAreOver /\ HeardInOrder

\* The queue of the worker's session gets some messages of its own.
Sends(j) ==
  /\ pc[j] \in Working /\ owner[j] \in Session
  /\ \E kinds \in {<<"metrics">>, <<"finished">>, <<"error", "failed">>} :
       Put(owner[j], kinds, j)

LEMMA MessageKinds ==
  ASSUME Tracked, [Next]_vars
  PROVE  \/ Starts
         \/ ~Starts /\ UNCHANGED <<queue, heard, earlier>>
         \/ ~Starts /\ \E s \in Session : Drain(s)
         \/ ~Starts /\ \E j \in Job : Sends(j) /\ UNCHANGED <<heard, earlier>>
<1> USE DEF record
<1>1. ASSUME NEW s \in Session, Handler(s)
      PROVE  Starts \/ UNCHANGED <<queue, heard, earlier>> \/ Drain(s)
  BY <1>1 DEF Handler, Stop, Clear, Ask, AdoptBegins, Starts
<1>2. ASSUME NEW j \in Job, Worker(j)
      PROVE  \/ UNCHANGED <<queue, heard, earlier>>
             \/ Sends(j) /\ UNCHANGED <<heard, earlier>>
  BY <1>2 DEF Worker, BuildSucceeds, BuildRaises, Publish, CheckContinues, CheckEnds,
              Batch, TrainRaises, Finish, ClearHandle, FlushRaises, ReleaseSlot, Sends,
              Working, Tracked, LocalState
<1>3. ASSUME Adopt \/ OtherClaims \/ OtherReleases \/ UNCHANGED vars
      PROVE  UNCHANGED <<queue, heard, earlier>>
  BY <1>3 DEF Adopt, AdoptBuilds, AdoptRestores, AdoptRaises, OtherClaims,
              OtherReleases, vars
<1>4. QED
  BY <1>1, <1>2, <1>3 DEF Next

LEMMA MessageInit == Init => MessageInv
  BY DEF Init, ServiceInit, MessageInv, Senders, EarlierAreOver, HeardInOrder

\* What sending does to a queue: old messages stay, the new ones are the run's.
LEMMA SentMessages ==
  ASSUME Tracked, NEW j \in Job, Sends(j)
  PROVE  LET s == owner[j] IN
         /\ \A t \in Session \ {s} : queue'[t] = queue[t]
         /\ Len(queue[s]) \in Nat /\ Len(queue'[s]) \in Nat
         /\ Len(queue[s]) <= Len(queue'[s])
         /\ \A a \in 1..Len(queue[s]) : queue'[s][a] = queue[s][a]
         /\ \A a \in (Len(queue[s]) + 1)..Len(queue'[s]) : queue'[s][a].job = j
<1> DEFINE s == owner[j]
<1>1. PICK kinds \in {<<"metrics">>, <<"finished">>, <<"error", "failed">>} :
        Put(s, kinds, j)
  BY DEF Sends
<1> DEFINE new == [i \in 1..Len(kinds) |-> [kind |-> kinds[i], job |-> j]]
<1>2. Len(kinds) \in Nat /\ \A i \in 1..Len(kinds) :
        kinds[i] \in {"metrics", "error", "finished", "failed"}
  BY <1>1
<1>3. new \in Seq(Msg) /\ Len(new) = Len(kinds) /\ \A i \in 1..Len(kinds) : new[i].job = j
  BY <1>2 DEF Msg
<1>4. s \in Session /\ queue \in [Session -> Seq(Msg)]
  BY DEF Sends, Tracked, TypeOK
<1>5. queue' = [queue EXCEPT ![s] = @ \o new]
  BY <1>1 DEF Put
<1> HIDE DEF new, s
<1>6. queue'[s] = queue[s] \o new /\ \A t \in Session \ {s} : queue'[t] = queue[t]
  BY <1>4, <1>5
<1>7. /\ Len(queue'[s]) = Len(queue[s]) + Len(new)
      /\ \A a \in 1..Len(queue'[s]) :
           queue'[s][a] = IF a <= Len(queue[s]) THEN queue[s][a] ELSE new[a - Len(queue[s])]
  <2> DEFINE old == queue[s]
  <2>1. old \in Seq(Msg) /\ new \in Seq(Msg) /\ queue'[s] = old \o new
    BY <1>3, <1>4, <1>6
  <2> HIDE DEF old
  <2>2. /\ Len(old \o new) = Len(old) + Len(new)
        /\ \A a \in 1..(Len(old) + Len(new)) :
             (old \o new)[a] = IF a <= Len(old) THEN old[a] ELSE new[a - Len(old)]
    BY <2>1, ConcatProperties
  <2>3. QED
    BY <2>1, <2>2 DEF old
<1>8. Len(queue[s]) \in Nat /\ Len(new) \in Nat
  BY <1>3, <1>4
<1>9. ASSUME NEW a \in (Len(queue[s]) + 1)..Len(queue'[s])
      PROVE  queue'[s][a].job = j
  <2>1. a \in 1..Len(queue'[s]) /\ ~(a <= Len(queue[s])) /\ a - Len(queue[s]) \in 1..Len(new)
    BY <1>7, <1>8
  <2>2. queue'[s][a] = new[a - Len(queue[s])]
    BY <1>7, <2>1
  <2>3. QED
    BY <1>3, <2>1, <2>2
<1>10. ASSUME NEW a \in 1..Len(queue[s])
       PROVE  queue'[s][a] = queue[s][a]
  <2>1. a \in 1..Len(queue'[s]) /\ a <= Len(queue[s])
    BY <1>7, <1>8
  <2>2. QED
    BY <1>7, <2>1
<1>11. QED
  BY <1>6, <1>7, <1>8, <1>9, <1>10 DEF s

\* Runs that were started before another one stay over.
LEMMA StayOver ==
  ASSUME EarlierAreOver, NoNewWorker, earlier' = earlier,
         earlier \in [Job -> SUBSET Job]
  PROVE  EarlierAreOver'
  BY DEF EarlierAreOver, NoNewWorker

LEMMA MessageStep == Tracked /\ MessageInv /\ [Next]_vars => MessageInv'
<1> SUFFICES ASSUME Tracked, MessageInv, [Next]_vars PROVE MessageInv'
  OBVIOUS
<1>1. /\ queue \in [Session -> Seq(Msg)] /\ heard \in [Session -> SUBSET Job]
      /\ earlier \in [Job -> SUBSET Job] /\ pc \in [Job -> Stage]
      /\ \A s \in Session : Len(queue[s]) \in Nat
      /\ \A s \in Session : \A a \in 1..Len(queue[s]) : queue[s][a].job \in Job
  <2>1. /\ queue \in [Session -> Seq(Msg)] /\ heard \in [Session -> SUBSET Job]
        /\ earlier \in [Job -> SUBSET Job] /\ pc \in [Job -> Stage]
    BY DEF Tracked, TypeOK
  <2>2. \A s \in Session :
          Len(queue[s]) \in Nat /\ \A a \in 1..Len(queue[s]) : queue[s][a] \in Msg
    BY <2>1
  <2>3. \A m \in Msg : m.job \in Job
    BY DEF Msg
  <2>4. QED
    BY <2>1, <2>2, <2>3
<1>2. Senders /\ EarlierAreOver /\ HeardInOrder
  BY DEF MessageInv
<1>3. ASSUME ~Starts, UNCHANGED <<queue, heard, earlier>>
      PROVE  MessageInv'
  <2>1. NoNewWorker
    BY <1>3, OthersAreOld
  <2>2. Senders'
    BY <1>1, <1>2, <1>3, <2>1 DEF Senders, NoNewWorker
  <2>3. QED
    BY <1>1, <1>2, <1>3, <2>1, <2>2, StayOver DEF MessageInv, HeardInOrder
<1>4. ASSUME NEW s \in Session, NEW j \in Job, Start(s, j) \/ StartRaises(s, j)
      PROVE  MessageInv'
  <2>1. NewWorker(s, j)
    BY <1>4, StartIsNew
  <2>2. queue' = queue /\ heard' = heard /\ earlier' = [earlier EXCEPT ![j] = RunsOf(s)]
    BY <1>4 DEF Start, StartRaises, ClaimAndReset
  <2>3. Senders'
    BY <1>1, <1>2, <2>1, <2>2 DEF Senders, NewWorker
  <2>4. EarlierAreOver'
    <3> SUFFICES ASSUME NEW i \in Job, NEW k \in earlier'[i]
                 PROVE  pc'[k] \notin Working \union {"unborn"}
      BY DEF EarlierAreOver
    <3>1. CASE i = j
      <4>1. k \in Job /\ owner[k] = s /\ pc[k] # "unborn"
        BY <1>1, <2>2, <3>1, RunsAreStarted
      <4>2. QED
        BY <2>1, <4>1 DEF NewWorker
    <3>2. CASE i # j
      <4>1. k \in Job /\ pc[k] \notin Working \union {"unborn"}
        BY <1>1, <1>2, <2>2, <3>2 DEF EarlierAreOver
      <4>2. QED
        BY <2>1, <4>1 DEF NewWorker
    <3>3. QED
      BY <3>1, <3>2
  <2>5. ASSUME NEW i \in Job, pc[i] # "unborn" PROVE earlier'[i] = earlier[i]
    BY <1>1, <2>1, <2>2, <2>5 DEF NewWorker
  <2>6. HeardInOrder'
    <3> SUFFICES ASSUME NEW t \in Session, NEW b \in 1..Len(queue[t])
                 PROVE  /\ \A i \in heard[t] : queue[t][b].job \notin earlier'[i]
                        /\ \A a \in 1..b : queue[t][b].job \notin earlier'[queue[t][a].job]
      BY <2>2 DEF HeardInOrder
    <3>1. \A a \in 1..b : a \in 1..Len(queue[t])
      BY <1>1
    <3>2. QED
      BY <1>1, <1>2, <2>5, <3>1 DEF HeardInOrder, Senders
  <2>7. QED
    BY <2>3, <2>4, <2>6 DEF MessageInv
<1>5. ASSUME ~Starts, NEW s \in Session, Drain(s)
      PROVE  MessageInv'
  <2>1. NoNewWorker
    BY <1>5, OthersAreOld
  <2>2. /\ \A t \in Session \ {s} : queue'[t] = queue[t]
        /\ Len(queue'[s]) + 1 = Len(queue[s]) /\ Len(queue'[s]) \in Nat
        /\ \A a \in 1..Len(queue'[s]) : queue'[s][a] = queue[s][a + 1]
    BY <1>1, <1>5, HeadTailProperties DEF Drain
  <2>3. /\ heard'[s] = heard[s] \union {queue[s][1].job} /\ earlier' = earlier
        /\ \A t \in Session \ {s} : heard'[t] = heard[t]
        /\ 1 \in 1..Len(queue[s])
    BY <1>1, <1>5, <2>2 DEF Drain
  <2>4. \A b \in 1..Len(queue'[s]) :
          /\ b + 1 \in 1..Len(queue[s]) /\ 1 \in 1..(b + 1)
          /\ \A a \in 1..b : a \in 1..Len(queue'[s]) /\ a + 1 \in 1..(b + 1)
    BY <2>2
  <2>5. Senders'
    <3> SUFFICES ASSUME NEW t \in Session
                 PROVE  /\ \A a \in 1..Len(queue'[t]) : pc'[queue'[t][a].job] # "unborn"
                        /\ \A j \in heard'[t] : pc'[j] # "unborn"
      BY DEF Senders
    <3>1. CASE t = s
      <4>1. ASSUME NEW a \in 1..Len(queue'[s]) PROVE pc'[queue'[s][a].job] # "unborn"
        <5>1. a + 1 \in 1..Len(queue[s]) /\ queue'[s][a] = queue[s][a + 1]
          BY <2>2, <2>4
        <5>2. queue[s][a + 1].job \in Job /\ pc[queue[s][a + 1].job] # "unborn"
          BY <1>1, <1>2, <5>1 DEF Senders
        <5>3. QED
          BY <2>1, <5>1, <5>2 DEF NoNewWorker
      <4>2. ASSUME NEW j \in heard'[s] PROVE pc'[j] # "unborn"
        <5>1. j \in Job /\ pc[j] # "unborn"
          BY <1>1, <1>2, <2>3 DEF Senders
        <5>2. QED
          BY <2>1, <5>1 DEF NoNewWorker
      <4>3. QED
        BY <3>1, <4>1, <4>2
    <3>2. CASE t # s
      BY <1>1, <1>2, <2>1, <2>2, <2>3, <3>2 DEF Senders, NoNewWorker
    <3>3. QED
      BY <3>1, <3>2
  <2>6. HeardInOrder'
    <3> SUFFICES ASSUME NEW t \in Session, NEW b \in 1..Len(queue'[t])
                 PROVE  /\ \A j \in heard'[t] : queue'[t][b].job \notin earlier[j]
                        /\ \A a \in 1..b : queue'[t][b].job \notin earlier[queue'[t][a].job]
      BY <2>3 DEF HeardInOrder
    <3>1. CASE t = s
      <4>1. /\ \A j \in heard[s] : queue[s][b + 1].job \notin earlier[j]
            /\ \A a \in 1..(b + 1) : queue[s][b + 1].job \notin earlier[queue[s][a].job]
        BY <1>2, <2>4, <3>1 DEF HeardInOrder
      <4>2. queue'[s][b] = queue[s][b + 1] /\ 1 \in 1..(b + 1)
        BY <2>2, <2>4, <3>1
      <4>3. \A j \in heard'[s] : queue'[s][b].job \notin earlier[j]
        BY <2>3, <4>1, <4>2
      <4>4. ASSUME NEW a \in 1..b PROVE queue'[s][b].job \notin earlier[queue'[s][a].job]
        <5>1. a + 1 \in 1..(b + 1) /\ queue'[s][a] = queue[s][a + 1]
          BY <2>2, <2>4, <3>1
        <5>2. QED
          BY <4>1, <4>2, <5>1
      <4>5. QED
        BY <3>1, <4>3, <4>4
    <3>2. CASE t # s
      BY <1>2, <2>2, <2>3, <3>2 DEF HeardInOrder
    <3>3. QED
      BY <3>1, <3>2
  <2>7. QED
    BY <1>1, <1>2, <2>1, <2>3, <2>5, <2>6, StayOver DEF MessageInv
<1>6. ASSUME ~Starts, NEW j \in Job, Sends(j), UNCHANGED <<heard, earlier>>
      PROVE  MessageInv'
  <2> DEFINE s == owner[j]
             n == Len(queue[s])
  <2>1. NoNewWorker
    BY <1>6, OthersAreOld
  <2>2. /\ pc[j] \in Working /\ s \in Session
        /\ \A t \in Session \ {s} : queue'[t] = queue[t]
        /\ n \in Nat /\ Len(queue'[s]) \in Nat
        /\ \A a \in 1..n : queue'[s][a] = queue[s][a]
        /\ \A a \in (n + 1)..Len(queue'[s]) : queue'[s][a].job = j
    BY <1>6, SentMessages DEF Sends
  <2>3. \A a \in 1..Len(queue'[s]) : a \in 1..n \/ a \in (n + 1)..Len(queue'[s])
    BY <2>2
  <2>4. \A k \in Job : j \notin earlier[k]
    BY <1>2, <2>2 DEF EarlierAreOver
  <2> HIDE DEF s
  <2>5. \A a \in 1..Len(queue'[s]) : queue'[s][a].job \in Job
    BY <1>1, <2>2, <2>3
  <2>6. Senders'
    <3> SUFFICES ASSUME NEW t \in Session
                 PROVE  /\ \A a \in 1..Len(queue'[t]) : pc'[queue'[t][a].job] # "unborn"
                        /\ \A k \in heard'[t] : pc'[k] # "unborn"
      BY DEF Senders
    <3>1. \A k \in heard'[t] : pc'[k] # "unborn"
      BY <1>1, <1>2, <1>6, <2>1 DEF Senders, NoNewWorker
    <3>2. CASE t # s
      <4>1. queue'[t] = queue[t]
        BY <2>2, <3>2
      <4>2. \A a \in 1..Len(queue[t]) : pc'[queue[t][a].job] # "unborn"
        BY <1>1, <1>2, <2>1 DEF Senders, NoNewWorker
      <4>3. QED
        BY <3>1, <4>1, <4>2
    <3>3. CASE t = s
      <4>1. \A a \in 1..n : pc'[queue'[s][a].job] # "unborn"
        BY <1>1, <1>2, <2>1, <2>2 DEF Senders, NoNewWorker
      <4>2. pc'[j] # "unborn"
        BY <2>1, <2>2 DEF NoNewWorker, Working
      <4>3. QED
        BY <2>2, <2>3, <3>1, <3>3, <4>1, <4>2
    <3>4. QED
      BY <3>2, <3>3
  <2>7. HeardInOrder'
    <3> SUFFICES ASSUME NEW t \in Session, NEW b \in 1..Len(queue'[t])
                 PROVE  /\ \A k \in heard[t] : queue'[t][b].job \notin earlier[k]
                        /\ \A a \in 1..b : queue'[t][b].job \notin earlier[queue'[t][a].job]
      BY <1>6 DEF HeardInOrder
    <3>1. CASE t # s
      BY <1>2, <2>2, <3>1 DEF HeardInOrder
    <3>2. CASE t = s /\ b \in 1..n
      <4>1. \A a \in 1..b : a \in 1..n
        BY <2>2, <3>2
      <4>2. /\ \A k \in heard[s] : queue[s][b].job \notin earlier[k]
            /\ \A a \in 1..b : queue[s][b].job \notin earlier[queue[s][a].job]
        BY <1>2, <2>2, <3>2 DEF HeardInOrder
      <4>3. QED
        BY <2>2, <3>2, <4>1, <4>2
    <3>3. CASE t = s /\ b \in (n + 1)..Len(queue'[s])
      <4>1. queue'[s][b].job = j /\ heard[s] \subseteq Job
        BY <1>1, <2>2, <3>3
      <4>2. \A a \in 1..b : queue'[s][a].job \in Job
        BY <2>2, <2>5, <3>3
      <4>3. QED
        BY <2>4, <3>3, <4>1, <4>2
    <3>4. QED
      BY <2>3, <3>1, <3>2, <3>3
  <2>8. QED
    BY <1>1, <1>2, <1>6, <2>1, <2>6, <2>7, StayOver DEF MessageInv
<1>7. QED
  BY <1>3, <1>4, <1>5, <1>6, MessageKinds DEF Starts

\* Whatever the drain and later runs do: no message of an earlier run is left when
\* a later run's has been forwarded, or was queued before it.
THEOREM MessagesHold == Spec => []HeardInOrder
<1>1. MessageInv => HeardInOrder
  BY DEF MessageInv
<1>2. QED
  BY <1>1, TrackedInit, TrackedStep, MessageInit, MessageStep, PTL DEF Spec
=============================================================================
