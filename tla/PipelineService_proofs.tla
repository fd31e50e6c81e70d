----------------------- MODULE PipelineService_proofs -----------------------
(* Proofs about PipelineService, for any sessions, runs, cap and bounds.    *)
EXTENDS PipelineService, FiniteSetTheorems, SequenceTheorems, TLAPS

(***************************************************************************)
(* The inductive invariant: local facts about a worker, and what it takes  *)
(* to lose a handle.                                                       *)
(***************************************************************************)
LocalState ==
  /\ \A r \in Run : pc[r] # "unborn" => owner[r] \in Session
  /\ \A r \in Run : pc[r] = "node" => left[r] > 0
  /\ \A r \in Run : pc[r] \in {"malformed", "errored"} => reason[r] = "error"
  /\ \A r \in Run :
       pc[r] \in {"unborn", "leaked", "begin", "parse", "check", "node", "ran"}
         => reason[r] # "error"

\* A run that ended in an error and has cleared _thread at least once.
Cleared(q) == reason[q] = "error" /\ pc[q] \in {"finally", "release", "dead"}

\* A live worker that _thread does not name has cleared it itself, or another
\* failed run of the session has.
LossExplained ==
  \A r \in Run :
    pc[r] \in Working /\ thread[owner[r]] # r
      => \/ Cleared(r)
         \/ \E q \in Run \ {r} : owner[q] = owner[r] /\ Cleared(q)

Inv == TypeOK /\ LocalState /\ LossExplained
-----------------------------------------------------------------------------
LEMMA CapPositive == MaxConcurrentJobs \in Nat \ {0}
  BY EnvCapAssumption DEF MaxConcurrentJobs, DefaultMaxConcurrentJobs

LEMMA PutType ==
  ASSUME NEW s, NEW r \in Run, NEW kinds,
         \/ kinds = <<"error", "failed">>
         \/ \E k \in {"running", "result", "finished", "stopped"} : kinds = <<k>>,
         queue \in [Session -> Seq(Msg)], Put(s, kinds, r)
  PROVE  queue' \in [Session -> Seq(Msg)]
<1> DEFINE new == [i \in 1..Len(kinds) |-> [kind |-> kinds[i], run |-> r]]
<1>1. Len(kinds) \in Nat /\ \A i \in 1..Len(kinds) :
        kinds[i] \in {"running", "result", "error", "failed", "finished", "stopped"}
  OBVIOUS
<1>2. new \in Seq(Msg)
  BY <1>1 DEF Msg
<1>3. ASSUME NEW t \in Session PROVE queue'[t] \in Seq(Msg)
  <2>1. CASE t = s
    <3>1. queue'[t] = queue[t] \o new
      BY <2>1 DEF Put
    <3>2. QED
      BY <1>2, <3>1, ConcatProperties
  <2>2. CASE t # s
    BY <2>2 DEF Put
  <2>3. QED
    BY <2>1, <2>2
<1>4. queue' = [t \in Session |-> queue'[t]]
  BY DEF Put
<1>5. QED
  BY <1>3, <1>4

\* The runner's loop is over: no node is left.
LEMMA LeftZero ==
  ASSUME NEW r \in Run, left \in [Run -> 0..MaxNodes],
         left' = [left EXCEPT ![r] = 0]
  PROVE  left' \in [Run -> 0..MaxNodes]
  BY PipelineAssumption

LEMMA InvInit == Init => Inv
<1> SUFFICES ASSUME Init PROVE Inv
  OBVIOUS
<1> USE DEF Init, ServiceInit
<1>1. TypeOK
  BY PipelineAssumption DEF TypeOK, Stage, Reason
<1>2. LocalState /\ LossExplained
  BY DEF LocalState, LossExplained, Working
<1>3. QED
  BY <1>1, <1>2 DEF Inv

(***************************************************************************)
(* Type correctness of a step.                                             *)
(***************************************************************************)
LEMMA TypeStep == Inv /\ [Next]_vars => TypeOK'
<1> SUFFICES ASSUME Inv, [Next]_vars PROVE TypeOK'
  OBVIOUS
<1> USE PipelineAssumption, CapPositive
    DEF Inv, TypeOK, Goto, Stage, Holding, Working, Reason
<1>1. ASSUME NEW s \in Session, NEW r \in Run, ClaimAndReset(s, r)
      PROVE  /\ active' \in Nat /\ others' \in Nat
             /\ thread' \in [Session -> Run \union {None}]
             /\ stop' \in [Session -> BOOLEAN]
             /\ queue' \in [Session -> Seq(Msg)]
             /\ owner' \in [Run -> Session \union {None}]
             /\ reason' \in [Run -> Reason]
  BY <1>1 DEF ClaimAndReset, TryAcquire
<1>2. ASSUME NEW s \in Session, Handler(s)
      PROVE  TypeOK'
  <2>1. ASSUME NEW r \in Run, Start(s, r)
        PROVE  TypeOK'
    BY <1>1, <2>1 DEF Start
  <2>2. ASSUME NEW r \in Run, StartRaises(s, r)
        PROVE  TypeOK'
    BY <1>1, <2>2 DEF StartRaises
  <2>3. CASE Stop(s)
    BY <2>3 DEF Stop
  <2>4. CASE Drain(s)
    BY <2>4, HeadTailProperties DEF Drain
  <2>5. QED
    BY <1>2, <2>1, <2>2, <2>3, <2>4 DEF Handler
<1>3. ASSUME OtherClaims \/ OtherReleases
      PROVE  TypeOK'
  BY <1>3 DEF OtherClaims, OtherReleases, TryAcquire, Release
<1>4. ASSUME NEW r \in Run, Worker(r)
      PROVE  TypeOK'
  <2>1. CASE ParseSucceeds(r) \/ CheckContinues(r)
    BY <2>1 DEF ParseSucceeds, CheckContinues
  <2>2. CASE Begin(r)
    <3>1. queue' \in [Session -> Seq(Msg)]
      BY <2>2, PutType DEF Begin
    <3>2. QED
      BY <2>2, <3>1 DEF Begin
  <2>3. ASSUME NEW from, NEW to \in Stage, Error(r, from, to)
        PROVE  TypeOK'
    <3>1. queue' \in [Session -> Seq(Msg)] /\ left' \in [Run -> 0..MaxNodes]
      BY <2>3, PutType, LeftZero DEF Error
    <3>2. QED
      BY <2>3, <3>1 DEF Error
  <2>4. CASE CheckEnds(r)
    BY <2>4, LeftZero DEF CheckEnds
  <2>5. CASE Node(r)
    <3>1. queue' \in [Session -> Seq(Msg)]
      BY <2>5, PutType DEF Node
    <3>2. left' \in [Run -> 0..MaxNodes]
      BY <2>5 DEF Node, LocalState
    <3>3. QED
      BY <2>5, <3>1, <3>2 DEF Node
  <2>6. CASE Finish(r)
    <3>1. PICK why \in {"stopped", "finished"} :
            reason' = [reason EXCEPT ![r] = why] /\ Put(owner[r], <<why>>, r)
      BY <2>6 DEF Finish
    <3>2. queue' \in [Session -> Seq(Msg)]
      BY <3>1, PutType
    <3>3. QED
      BY <2>6, <3>1, <3>2 DEF Finish
  <2>7. ASSUME NEW from, NEW to \in Stage, ClearHandle(r, from, to)
        PROVE  TypeOK'
    BY <2>7 DEF ClearHandle
  <2>8. CASE ReleaseSlot(r)
    BY <2>8 DEF ReleaseSlot, Release
  <2>9. QED
    BY <1>4, <2>1, <2>2, <2>3, <2>4, <2>5, <2>6, <2>7, <2>8
       DEF Worker, ParseRaises, RunRaises, ErrorClears, FinallyClears
<1>5. CASE UNCHANGED vars
  BY <1>5 DEF vars
<1>6. QED
  BY <1>2, <1>3, <1>4, <1>5 DEF Next

(***************************************************************************)
(* Steps by what they do to the workers.                                   *)
(***************************************************************************)
\* The handlers, the drain and the other services' jobs leave the workers alone.
Aside == UNCHANGED <<thread, pc, owner, left, reason>>

NoSlotMoves == UNCHANGED <<active, others>>

\* Every worker but r, and every run that has not started, stays as it is.
Others(r) ==
  \A q \in Run \ {r} : /\ pc'[q] = pc[q] /\ owner'[q] = owner[q]
                       /\ left'[q] = left[q] /\ reason'[q] = reason[q]

\* A start binds the handle to a fresh worker, alive or not.
Begins(s, r) ==
  /\ ~IsRunning(s) /\ pc[r] = "unborn"
  /\ thread' = [thread EXCEPT ![s] = r]
  /\ owner'[r] = s /\ pc'[r] \in {"begin", "leaked"} /\ reason'[r] = reason[r]
  /\ Others(r)

\* A worker that has not cleared _thread moves on.
Moves(r) ==
  /\ pc[r] \in {"begin", "parse", "check", "node", "ran"}
  /\ pc'[r] \in Working \ {"begin"}
  /\ pc'[r] = "node" => left'[r] > 0
  /\ pc'[r] \in {"malformed", "errored"} <=> reason'[r] = "error"
  /\ UNCHANGED <<thread, owner>>
  /\ Others(r)

\* A worker clears _thread, for the first or the second time.
Clears(r) ==
  /\ \/ pc[r] = "errored" /\ pc'[r] = "finally"
     \/ pc[r] \in {"malformed", "finally"} /\ pc'[r] = "release"
  /\ thread' = [thread EXCEPT ![owner[r]] = None]
  /\ UNCHANGED <<owner, reason>>
  /\ Others(r)

LEMMA StepKinds ==
  ASSUME Inv, [Next]_vars
  PROVE  \/ NoSlotMoves /\ (Aside \/ \E r \in Run : Moves(r) \/ Clears(r))
         \/ Aside /\ (OtherClaims \/ OtherReleases)
         \/ \E s \in Session, r \in Run : Start(s, r) \/ StartRaises(s, r)
         \/ \E r \in Run : ReleaseSlot(r)
<1> USE DEF NoSlotMoves
<1>1. /\ LocalState /\ pc \in [Run -> Stage] /\ reason \in [Run -> Reason]
      /\ left \in [Run -> 0..MaxNodes] /\ owner \in [Run -> Session \union {None}]
  BY DEF Inv, TypeOK
<1>2. ASSUME NEW s \in Session, Handler(s)
      PROVE  \/ Aside /\ NoSlotMoves
             \/ \E r \in Run : Start(s, r) \/ StartRaises(s, r)
  BY <1>2 DEF Handler, Stop, Drain, Aside
<1>3. ASSUME NEW r \in Run, Worker(r)
      PROVE  (NoSlotMoves /\ (Moves(r) \/ Clears(r))) \/ ReleaseSlot(r)
  <2> USE DEF Goto, Others
  <2>1. CASE Begin(r) \/ ParseSucceeds(r)
    BY <1>1, <2>1 DEF Begin, ParseSucceeds, Moves, Working, LocalState
  <2>2. CASE ParseRaises(r) \/ RunRaises(r)
    BY <1>1, <2>2 DEF ParseRaises, RunRaises, Error, Moves, Working, Reason
  <2>3. CASE CheckContinues(r) \/ CheckEnds(r)
    BY <1>1, <2>3 DEF CheckContinues, CheckEnds, Moves, Working, LocalState
  <2>4. CASE Node(r)
    BY <1>1, <2>4 DEF Node, Moves, Working, LocalState
  <2>5. CASE Finish(r)
    BY <1>1, <2>5 DEF Finish, Moves, Working
  <2>6. CASE ErrorClears(r) \/ FinallyClears(r)
    BY <1>1, <2>6 DEF ErrorClears, FinallyClears, ClearHandle, Clears
  <2>7. QED
    BY <1>3, <2>1, <2>2, <2>3, <2>4, <2>5, <2>6 DEF Worker
<1>4. ASSUME OtherClaims \/ OtherReleases
      PROVE  Aside
  BY <1>4 DEF OtherClaims, OtherReleases, Aside
<1>5. CASE UNCHANGED vars
  BY <1>5 DEF vars, Aside
<1>6. QED
  BY <1>2, <1>3, <1>4, <1>5 DEF Next

LEMMA StartBegins ==
  ASSUME NEW s \in Session, NEW r \in Run, Start(s, r) \/ StartRaises(s, r), TypeOK
  PROVE  Begins(s, r)
<1>1. /\ pc \in [Run -> Stage] /\ left \in [Run -> 0..MaxNodes]
      /\ owner \in [Run -> Session \union {None}]
  BY DEF TypeOK
<1>2. ClaimAndReset(s, r) /\ \E to \in {"begin", "leaked"} : Goto(r, to)
  BY DEF Start, StartRaises
<1>3. \A q \in Run \ {r} : left'[q] = left[q]
  BY <1>1 DEF Start, StartRaises
<1>4. QED
  BY <1>1, <1>2, <1>3 DEF ClaimAndReset, Goto, Begins, Others

(***************************************************************************)
(* The invariant is kept.                                                  *)
(***************************************************************************)
LEMMA InvStep == Inv /\ [Next]_vars => Inv'
<1> SUFFICES ASSUME Inv, [Next]_vars PROVE Inv'
  OBVIOUS
<1>1. /\ TypeOK' /\ LocalState /\ LossExplained /\ None \notin Run
      /\ thread \in [Session -> Run \union {None}] /\ pc \in [Run -> Stage]
      /\ owner \in [Run -> Session \union {None}]
  BY TypeStep, PipelineAssumption DEF Inv, TypeOK
<1>2. ASSUME Aside
      PROVE  LocalState' /\ LossExplained'
  BY <1>1, <1>2 DEF Aside, LocalState, LossExplained, Cleared
<1>3. ASSUME NEW s \in Session, NEW r \in Run, Begins(s, r)
      PROVE  LocalState' /\ LossExplained'
  <2>1. LocalState'
    <3>1. /\ pc[r] = "unborn" /\ pc'[r] \in {"begin", "leaked"} /\ owner'[r] = s
          /\ reason'[r] = reason[r] /\ Others(r)
      BY <1>3 DEF Begins
    <3>2. reason'[r] # "error"
      BY <1>1, <3>1 DEF LocalState
    <3>3. QED
      BY <1>1, <3>1, <3>2 DEF Others, LocalState
  <2>2. \A q \in Run : pc[q] \in Working /\ owner[q] = s => thread[s] # q
    BY <1>1, <1>3 DEF Begins, IsRunning
  <2>3. \A q \in Run : Cleared(q) => Cleared(q)' /\ q # r
    BY <1>3 DEF Begins, Others, Cleared
  <2>4. ASSUME NEW q \in Run \ {r}, pc'[q] \in Working, thread'[owner'[q]] # q
        PROVE  thread[owner[q]] # q
    BY <1>1, <1>3, <2>2, <2>4 DEF Begins, Others
  <2>5. thread'[owner'[r]] = r
    BY <1>1, <1>3 DEF Begins
  <2>6. ASSUME NEW q \in Run \ {r}, pc'[q] \in Working, thread'[owner'[q]] # q
        PROVE  Cleared(q)' \/ \E p \in Run \ {q} : owner'[p] = owner'[q] /\ Cleared(p)'
    <3>1. /\ pc[q] \in Working /\ owner'[q] = owner[q]
          /\ \A p \in Run \ {r} : owner'[p] = owner[p]
      BY <1>3, <2>6 DEF Begins, Others
    <3>2. Cleared(q) \/ \E p \in Run \ {q} : owner[p] = owner[q] /\ Cleared(p)
      BY <1>1, <2>4, <2>6, <3>1 DEF LossExplained
    <3>3. QED
      BY <2>3, <3>1, <3>2
  <2>7. QED
    BY <2>1, <2>5, <2>6 DEF LossExplained
<1>4. ASSUME NEW r \in Run, Moves(r)
      PROVE  LocalState' /\ LossExplained'
  <2>1. LocalState'
    BY <1>1, <1>4 DEF Moves, Others, LocalState, Working
  <2>2. pc[r] \in Working /\ ~Cleared(r)
    BY <1>4 DEF Moves, Cleared, Working
  <2>3. \A q \in Run \ {r} : Cleared(q)' <=> Cleared(q)
    BY <1>4 DEF Moves, Others, Cleared
  <2>4. QED
    BY <1>1, <1>4, <2>1, <2>2, <2>3 DEF LossExplained, Moves, Others
<1>5. ASSUME NEW r \in Run, Clears(r)
      PROVE  LocalState' /\ LossExplained'
  <2>1. LocalState'
    BY <1>1, <1>5 DEF Clears, Others, LocalState
  <2>2. pc[r] \in Working /\ owner[r] \in Session
    BY <1>1, <1>5 DEF Clears, LocalState, Working
  <2>3. reason[r] = "error" => Cleared(r)'
    BY <1>5 DEF Clears, Cleared
  <2>4. \A q \in Run : Cleared(q) => Cleared(q)'
    BY <1>1, <1>5 DEF Clears, Others, Cleared
  <2>5. pc'[r] \in Working => Cleared(r)'
    BY <1>1, <1>5, <2>3 DEF Clears, LocalState, Working
  <2>6. ASSUME NEW q \in Run \ {r}, pc'[q] \in Working, thread'[owner'[q]] # q
        PROVE  Cleared(q)' \/ \E p \in Run \ {q} : owner'[p] = owner'[q] /\ Cleared(p)'
    <3>1. pc[q] \in Working /\ owner'[q] = owner[q] /\ owner'[r] = owner[r]
      BY <1>5, <2>6 DEF Clears, Others
    <3>2. CASE thread[owner[q]] # q
      BY <1>1, <1>5, <2>4, <3>1, <3>2 DEF LossExplained, Clears
    <3>3. CASE thread[owner[q]] = q
      <4>1. owner[q] = owner[r] /\ thread[owner[r]] # r
        BY <1>1, <1>5, <2>2, <2>6, <3>1, <3>3 DEF Clears
      <4>2. CASE reason[r] = "error"
        BY <2>3, <3>1, <4>1, <4>2
      <4>3. CASE reason[r] # "error"
        <5>1. PICK p \in Run \ {r} : owner[p] = owner[r] /\ Cleared(p)
          BY <1>1, <2>2, <4>1, <4>3 DEF LossExplained, Cleared
        <5>2. QED
          BY <1>5, <2>4, <4>1, <5>1 DEF Clears
      <4>4. QED
        BY <4>2, <4>3
    <3>4. QED
      BY <3>2, <3>3
  <2>7. QED
    BY <2>1, <2>5, <2>6 DEF LossExplained
<1>6. ASSUME NEW r \in Run, ReleaseSlot(r)
      PROVE  LocalState' /\ LossExplained'
  <2>1. /\ pc[r] = "release" /\ pc'[r] = "dead" /\ thread' = thread
        /\ owner' = owner /\ left' = left /\ reason' = reason
        /\ \A q \in Run \ {r} : pc'[q] = pc[q]
    BY <1>1, <1>6 DEF ReleaseSlot, Goto
  <2>2. \A q \in Run : Cleared(q) => Cleared(q)'
    BY <2>1 DEF Cleared
  <2>3. QED
    BY <1>1, <2>1, <2>2 DEF LocalState, LossExplained, Working
<1>7. QED
  BY <1>1, <1>2, <1>3, <1>4, <1>5, <1>6, StepKinds, StartBegins DEF Inv

\* The service's state has the types of TypeOK in every reachable state.
THEOREM TypeCorrect == Spec => []TypeOK
<1>1. Inv => TypeOK
  BY DEF Inv
<1>2. QED
  BY <1>1, InvInit, InvStep, PTL DEF Spec

\* Runs that are stopped or complete never cost another run its handle: only a
\* failed run of the session does, which clears _thread twice.
THEOREM LossHolds == Spec => []LostOnlyAfterFailure
<1>1. Inv => LostOnlyAfterFailure
  <2>1. SUFFICES ASSUME Inv, NEW r \in Run, pc[r] \in Working \ {"finally"},
                        thread[owner[r]] # r
                 PROVE  \E q \in Run : q # r /\ owner[q] = owner[r] /\ reason[q] = "error"
    BY DEF LostOnlyAfterFailure
  <2>2. ~Cleared(r)
    BY <2>1 DEF Cleared, Working
  <2>3. QED
    BY <2>1, <2>2 DEF Inv, LossExplained, Cleared
<1>2. QED
  BY <1>1, InvInit, InvStep, PTL DEF Spec

(***************************************************************************)
(* The counter, on the error path as on the others.                        *)
(***************************************************************************)
SlotInv == IsFiniteSet(Holders) /\ SlotAccounting

HeldNow == Cardinality(Holders) + others

LEMMA SlotInit == Init => SlotInv /\ HeldNow = 0
<1>1. Init => Holders = {}
  BY DEF Init, ServiceInit, Holders, Holding, Working
<1>2. QED
  BY <1>1, FS_EmptySet DEF Init, SlotInv, SlotAccounting, HeldNow

\* A step keeps the accounting, and changes what is held as JobSlots allows.
LEMMA SlotStep ==
  ASSUME Inv, SlotInv, [Next]_vars
  PROVE  /\ SlotInv'
         /\ \/ HeldNow' = HeldNow
            \/ HeldNow < MaxConcurrentJobs /\ HeldNow' = HeldNow + 1
            \/ HeldNow > 0 /\ HeldNow' = HeldNow - 1
<1> USE DEF SlotInv, SlotAccounting, HeldNow
<1>1. /\ Cardinality(Holders) \in Nat /\ others \in Nat /\ active \in Nat
      /\ pc \in [Run -> Stage] /\ MaxConcurrentJobs \in Nat
  BY FS_CardinalityType, CapPositive DEF Inv, TypeOK
<1>2. CASE NoSlotMoves /\ (Aside \/ \E r \in Run : Moves(r) \/ Clears(r))
  <2>1. Holders' = Holders
    BY <1>1, <1>2 DEF Aside, Moves, Clears, Others, Holders, Holding, Working
  <2>2. QED
    BY <1>2, <2>1 DEF NoSlotMoves
<1>3. CASE Aside /\ (OtherClaims \/ OtherReleases)
  <2>1. Holders' = Holders
    BY <1>3 DEF Aside, Holders
  <2>2. QED
    BY <1>1, <1>3, <2>1 DEF OtherClaims, OtherReleases, TryAcquire, SlotFree,
                            Release
<1>4. ASSUME NEW s \in Session, NEW r \in Run, Start(s, r) \/ StartRaises(s, r)
      PROVE  /\ SlotInv'
             /\ HeldNow < MaxConcurrentJobs /\ HeldNow' = HeldNow + 1
  <2>1. /\ pc[r] = "unborn" /\ others' = others
        /\ active < MaxConcurrentJobs /\ active' = active + 1
        /\ \E to \in {"begin", "leaked"} : Goto(r, to)
    BY <1>4 DEF Start, StartRaises, ClaimAndReset, TryAcquire, SlotFree
  <2>2. r \notin Holders /\ Holders' = Holders \union {r}
    BY <1>1, <2>1 DEF Goto, Holders, Holding, Working
  <2>3. IsFiniteSet(Holders') /\ Cardinality(Holders') = Cardinality(Holders) + 1
    BY <2>2, FS_AddElement
  <2>4. QED
    BY <1>1, <2>1, <2>3
<1>5. ASSUME NEW r \in Run, ReleaseSlot(r)
      PROVE  SlotInv' /\ HeldNow > 0 /\ HeldNow' = HeldNow - 1
  <2>1. pc[r] = "release" /\ others' = others /\ Goto(r, "dead") /\ Release
    BY <1>5 DEF ReleaseSlot
  <2>2. r \in Holders /\ Holders' = Holders \ {r}
    BY <1>1, <2>1 DEF Goto, Holders, Holding, Working
  <2>3. IsFiniteSet(Holders') /\ Cardinality(Holders') = Cardinality(Holders) - 1
    BY <2>2, FS_RemoveElement
  <2>4. Cardinality(Holders) > 0
    BY <1>1, <2>2, FS_EmptySet
  <2>5. QED
    BY <1>1, <2>1, <2>3, <2>4 DEF Release
<1>6. QED
  BY <1>2, <1>3, <1>4, <1>5, StepKinds

\* The counter is the number of slots held, with two clearings of _thread as
\* with one, and with runs the handle has lost.
THEOREM SlotAccountingHolds == Spec => []SlotAccounting
<1>1. Inv /\ SlotInv /\ [Next]_vars => (Inv /\ SlotInv)'
  BY InvStep, SlotStep
<1>2. SlotInv => SlotAccounting
  BY DEF SlotInv
<1>3. QED
  BY <1>1, <1>2, InvInit, SlotInit, PTL DEF Spec

\* Pipeline jobs implement the abstract job slots.
THEOREM SlotRefinement == Spec => SlotsImplemented
<1>1. Init => Slots!Init
  BY SlotInit DEF Slots!Init, HeldNow
<1>2. Inv /\ SlotInv /\ [Next]_vars => (Inv /\ SlotInv)'
  BY InvStep, SlotStep
<1>3. Inv /\ SlotInv /\ [Next]_vars => [Slots!Next]_HeldNow
  BY SlotStep DEF Slots!Next, Slots!Claim, Slots!Free, HeldNow
<1>4. QED
  BY <1>1, <1>2, <1>3, InvInit, SlotInit, PTL
     DEF Spec, SlotsImplemented, Slots!Spec, HeldNow
=============================================================================
