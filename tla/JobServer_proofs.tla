--------------------------- MODULE JobServer_proofs ---------------------------
(* Proofs about JobServer, for any sessions, jobs, runs, cap and bounds: with   *)
(* the slots of the other service's jobs as its environment, each service does  *)
(* in the server what its own module lets it do.                                *)
EXTENDS JobServer, FiniteSetTheorems, TLAPS

HeldSet(pc) == {w \in DOMAIN pc : pc[w] \notin {"unborn", "dead"}}

(***************************************************************************)
(* The inductive invariant: the counter is the sum of the two kinds of     *)
(* holders, each of which is finite since it grows one at a time.          *)
(***************************************************************************)
TrainSide == tPc \in [Job -> Training!Stage] /\ IsFiniteSet(HeldSet(tPc))
RunSide == pPc \in [Run -> Pipeline!Stage] /\ IsFiniteSet(HeldSet(pPc))

Inv == TrainSide /\ RunSide /\ active \in Nat /\ SlotAccounting
-----------------------------------------------------------------------------
(* What one entry of a table of workers can do to the number of holders.   *)

LEMMA HeldIsNat ==
  ASSUME NEW pc, IsFiniteSet(HeldSet(pc))
  PROVE  Held(pc) \in Nat /\ Held(pc) = Cardinality(HeldSet(pc))
  BY FS_CardinalityType DEF Held, HeldSet

LEMMA HeldStays ==
  ASSUME NEW S, NEW T, NEW pc \in [S -> T], NEW w \in S, NEW to,
         pc[w] \notin {"unborn", "dead"}, to \notin {"unborn", "dead"}
  PROVE  HeldSet([pc EXCEPT ![w] = to]) = HeldSet(pc)
  BY DEF HeldSet

LEMMA HeldGains ==
  ASSUME NEW S, NEW T, NEW pc \in [S -> T], NEW w \in S, NEW to,
         pc[w] = "unborn", to \notin {"unborn", "dead"}, IsFiniteSet(HeldSet(pc))
  PROVE  /\ IsFiniteSet(HeldSet([pc EXCEPT ![w] = to]))
         /\ Held([pc EXCEPT ![w] = to]) = Held(pc) + 1
<1> DEFINE A == HeldSet(pc)
           B == HeldSet([pc EXCEPT ![w] = to])
<1>1. w \notin A /\ B = A \union {w}
  BY DEF HeldSet
<1> HIDE DEF A, B
<1>2. IsFiniteSet(B) /\ Cardinality(B) = Cardinality(A) + 1
  BY <1>1, FS_AddElement DEF A
<1>3. QED
  BY <1>2, HeldIsNat DEF A, B

LEMMA HeldLoses ==
  ASSUME NEW S, NEW T, NEW pc \in [S -> T], NEW w \in S,
         pc[w] \notin {"unborn", "dead"}, IsFiniteSet(HeldSet(pc))
  PROVE  /\ IsFiniteSet(HeldSet([pc EXCEPT ![w] = "dead"]))
         /\ Held(pc) > 0 /\ Held([pc EXCEPT ![w] = "dead"]) = Held(pc) - 1
<1> DEFINE A == HeldSet(pc)
           B == HeldSet([pc EXCEPT ![w] = "dead"])
<1>1. w \in A /\ B = A \ {w}
  BY DEF HeldSet
<1> HIDE DEF A, B
<1>2. IsFiniteSet(B) /\ Cardinality(B) = Cardinality(A) - 1
  BY <1>1, FS_RemoveElement DEF A
<1>3. Cardinality(A) \in Nat /\ Cardinality(A) # 0
  BY <1>1, FS_EmptySet, FS_CardinalityType DEF A
<1>4. QED
  BY <1>2, <1>3, HeldIsNat DEF A, B
-----------------------------------------------------------------------------
(* What the steps of each service do to its workers and the counter.       *)

TrainKeeps == active' = active /\ HeldSet(tPc') = HeldSet(tPc)
TrainClaims == Training!TryAcquire /\ Held(tPc') = Held(tPc) + 1
TrainFrees == Training!Release /\ Held(tPc) > 0 /\ Held(tPc') = Held(tPc) - 1

RunKeeps == active' = active /\ HeldSet(pPc') = HeldSet(pPc)
RunClaims == Pipeline!TryAcquire /\ Held(pPc') = Held(pPc) + 1
RunFrees == Pipeline!Release /\ Held(pPc) > 0 /\ Held(pPc') = Held(pPc) - 1

LEMMA TrainWorkerEffect ==
  ASSUME TrainSide, NEW j \in Job, Training!Worker(j)
  PROVE  TrainSide' /\ (TrainKeeps \/ TrainFrees)
<1>1. CASE Training!ReleaseSlot(j)
  <2>1. /\ tPc[j] = "release" /\ tPc' = [tPc EXCEPT ![j] = "dead"] /\ Training!Release
    BY <1>1 DEF Training!ReleaseSlot, Training!Goto
  <2>2. tPc' \in [Job -> Training!Stage]
    BY <2>1 DEF TrainSide, Training!Stage
  <2>3. QED
    BY <2>1, <2>2, HeldLoses DEF TrainSide, TrainFrees
<1>2. CASE ~Training!ReleaseSlot(j)
  <2>1. /\ tPc[j] \in Training!Working /\ active' = active
        /\ \E to \in Training!Working \union {"release"} : tPc' = [tPc EXCEPT ![j] = to]
    BY <1>2 DEF Training!Worker, Training!BuildSucceeds, Training!BuildRaises,
         Training!Publish, Training!CheckContinues, Training!CheckEnds, Training!Batch,
         Training!TrainRaises, Training!Finish, Training!ClearHandle,
         Training!FlushRaises, Training!Goto, Training!Working
  <2>2. tPc' \in [Job -> Training!Stage]
    BY <2>1 DEF TrainSide, Training!Stage, Training!Holding
  <2>3. HeldSet(tPc') = HeldSet(tPc)
    <3>1. PICK to \in Training!Working \union {"release"} : tPc' = [tPc EXCEPT ![j] = to]
      BY <2>1
    <3>2. tPc[j] \notin {"unborn", "dead"} /\ to \notin {"unborn", "dead"}
      BY <2>1, <3>1 DEF Training!Working
    <3>3. tPc \in [Job -> Training!Stage]
      BY DEF TrainSide
    <3>4. HeldSet([tPc EXCEPT ![j] = to]) = HeldSet(tPc)
      BY <3>2, <3>3, HeldStays
    <3>5. QED
      BY <3>1, <3>4
  <2>4. QED
    BY <2>1, <2>2, <2>3 DEF TrainSide, TrainKeeps
<1>3. QED
  BY <1>1, <1>2

LEMMA TrainHandlerEffect ==
  ASSUME TrainSide, NEW s \in Session, Training!Handler(s)
  PROVE  TrainSide' /\ (TrainKeeps \/ TrainClaims) /\ (TrainKeeps \/ loop = None)
<1>1. CASE \E j \in Job : Training!Start(s, j) \/ Training!StartRaises(s, j)
  <2>1. PICK j \in Job : Training!Start(s, j) \/ Training!StartRaises(s, j)
    BY <1>1
  <2>2. /\ tPc[j] = "unborn" /\ Training!TryAcquire /\ loop = None
        /\ \E to \in {"build", "leaked"} : tPc' = [tPc EXCEPT ![j] = to]
    BY <2>1 DEF Training!Start, Training!StartRaises, Training!ClaimAndReset,
         Training!Goto
  <2>3. tPc' \in [Job -> Training!Stage]
    BY <2>2 DEF TrainSide, Training!Stage, Training!Holding, Training!Working
  <2>4. IsFiniteSet(HeldSet(tPc')) /\ Held(tPc') = Held(tPc) + 1
    <3>1. PICK to \in {"build", "leaked"} : tPc' = [tPc EXCEPT ![j] = to]
      BY <2>2
    <3>2. tPc \in [Job -> Training!Stage] /\ IsFiniteSet(HeldSet(tPc))
      BY DEF TrainSide
    <3>3. tPc[j] = "unborn" /\ to \notin {"unborn", "dead"}
      BY <2>2
    <3>4. /\ IsFiniteSet(HeldSet([tPc EXCEPT ![j] = to]))
          /\ Held([tPc EXCEPT ![j] = to]) = Held(tPc) + 1
      BY <3>2, <3>3, HeldGains
    <3>5. QED
      BY <3>1, <3>4
  <2>5. QED
    BY <2>2, <2>3, <2>4 DEF TrainSide, TrainClaims
<1>2. CASE ~\E j \in Job : Training!Start(s, j) \/ Training!StartRaises(s, j)
  <2>1. active' = active /\ tPc' = tPc
    BY <1>2 DEF Training!Handler, Training!Stop, Training!Clear, Training!AdoptBegins,
         Training!Drain
  <2>2. QED
    BY <2>1 DEF TrainSide, TrainKeeps
<1>3. QED
  BY <1>1, <1>2

LEMMA RunWorkerEffect ==
  ASSUME RunSide, NEW r \in Run, Pipeline!Worker(r)
  PROVE  RunSide' /\ (RunKeeps \/ RunFrees)
<1>1. CASE Pipeline!ReleaseSlot(r)
  <2>1. /\ pPc[r] = "release" /\ pPc' = [pPc EXCEPT ![r] = "dead"] /\ Pipeline!Release
    BY <1>1 DEF Pipeline!ReleaseSlot, Pipeline!Goto
  <2>2. pPc' \in [Run -> Pipeline!Stage]
    BY <2>1 DEF RunSide, Pipeline!Stage
  <2>3. QED
    BY <2>1, <2>2, HeldLoses DEF RunSide, RunFrees
<1>2. CASE ~Pipeline!ReleaseSlot(r)
  <2>1. /\ pPc[r] \in Pipeline!Working /\ active' = active
        /\ \E to \in Pipeline!Working \union {"release"} : pPc' = [pPc EXCEPT ![r] = to]
    BY <1>2 DEF Pipeline!Worker, Pipeline!Begin, Pipeline!ParseSucceeds,
         Pipeline!ParseRaises, Pipeline!RunRaises, Pipeline!Error,
         Pipeline!CheckContinues, Pipeline!CheckEnds, Pipeline!Node, Pipeline!Finish,
         Pipeline!ErrorClears, Pipeline!FinallyClears, Pipeline!ClearHandle,
         Pipeline!Goto, Pipeline!Working
  <2>2. pPc' \in [Run -> Pipeline!Stage]
    BY <2>1 DEF RunSide, Pipeline!Stage, Pipeline!Holding
  <2>3. HeldSet(pPc') = HeldSet(pPc)
    <3>1. PICK to \in Pipeline!Working \union {"release"} : pPc' = [pPc EXCEPT ![r] = to]
      BY <2>1
    <3>2. pPc[r] \notin {"unborn", "dead"} /\ to \notin {"unborn", "dead"}
      BY <2>1, <3>1 DEF Pipeline!Working
    <3>3. pPc \in [Run -> Pipeline!Stage]
      BY DEF RunSide
    <3>4. HeldSet([pPc EXCEPT ![r] = to]) = HeldSet(pPc)
      BY <3>2, <3>3, HeldStays
    <3>5. QED
      BY <3>1, <3>4
  <2>4. QED
    BY <2>1, <2>2, <2>3 DEF RunSide, RunKeeps
<1>3. QED
  BY <1>1, <1>2

LEMMA RunHandlerEffect ==
  ASSUME RunSide, NEW s \in Session, Pipeline!Handler(s)
  PROVE  RunSide' /\ (RunKeeps \/ RunClaims)
<1>1. CASE \E r \in Run : Pipeline!Start(s, r) \/ Pipeline!StartRaises(s, r)
  <2>1. PICK r \in Run : Pipeline!Start(s, r) \/ Pipeline!StartRaises(s, r)
    BY <1>1
  <2>2. /\ pPc[r] = "unborn" /\ Pipeline!TryAcquire
        /\ \E to \in {"begin", "leaked"} : pPc' = [pPc EXCEPT ![r] = to]
    BY <2>1 DEF Pipeline!Start, Pipeline!StartRaises, Pipeline!ClaimAndReset,
         Pipeline!Goto
  <2>3. pPc' \in [Run -> Pipeline!Stage]
    BY <2>2 DEF RunSide, Pipeline!Stage, Pipeline!Holding, Pipeline!Working
  <2>4. IsFiniteSet(HeldSet(pPc')) /\ Held(pPc') = Held(pPc) + 1
    <3>1. PICK to \in {"begin", "leaked"} : pPc' = [pPc EXCEPT ![r] = to]
      BY <2>2
    <3>2. pPc \in [Run -> Pipeline!Stage] /\ IsFiniteSet(HeldSet(pPc))
      BY DEF RunSide
    <3>3. pPc[r] = "unborn" /\ to \notin {"unborn", "dead"}
      BY <2>2
    <3>4. /\ IsFiniteSet(HeldSet([pPc EXCEPT ![r] = to]))
          /\ Held([pPc EXCEPT ![r] = to]) = Held(pPc) + 1
      BY <3>2, <3>3, HeldGains
    <3>5. QED
      BY <3>1, <3>4
  <2>5. QED
    BY <2>2, <2>3, <2>4 DEF RunSide, RunClaims
<1>2. CASE ~\E r \in Run : Pipeline!Start(s, r) \/ Pipeline!StartRaises(s, r)
  <2>1. active' = active /\ pPc' = pPc
    BY <1>2 DEF Pipeline!Handler, Pipeline!Stop, Pipeline!Drain
  <2>2. QED
    BY <2>1 DEF RunSide, RunKeeps
<1>3. QED
  BY <1>1, <1>2
-----------------------------------------------------------------------------
(* The steps of the server, by the service that takes them.                *)

TrainStep ==
  /\ UNCHANGED pVars
  /\ \/ \E j \in Job : Training!Worker(j)
     \/ Training!Adopt
     \/ \E s \in Session : Training!Handler(s)

RunStep ==
  /\ UNCHANGED <<loop, tVars>>
  /\ \/ \E r \in Run : Pipeline!Worker(r)
     \/ loop = None /\ \E s \in Session : Pipeline!Handler(s)

LEMMA StepKinds ==
  ASSUME [Next]_vars
  PROVE  TrainStep \/ RunStep \/ (\E s \in Session : Disconnect(s)) \/ UNCHANGED vars
<1>1. ASSUME NEW j \in Job, TrainWorker(j) PROVE TrainStep
  BY <1>1 DEF TrainWorker, TrainStep
<1>2. ASSUME NEW r \in Run, PipelineWorker(r) PROVE RunStep
  BY <1>2 DEF PipelineWorker, RunStep
<1>3. ASSUME Adopt PROVE TrainStep
  BY <1>3 DEF Adopt, TrainStep
<1>4. ASSUME NEW s \in Session, TrainHandler(s) \/ LateTrainHandler(s) PROVE TrainStep
  BY <1>4 DEF TrainHandler, LateTrainHandler, TrainStep
<1>5. ASSUME NEW s \in Session, PipelineHandler(s) \/ LatePipelineHandler(s) PROVE RunStep
  BY <1>5 DEF PipelineHandler, LatePipelineHandler, RunStep, Pipeline!Handler
<1>6. QED
  BY <1>1, <1>2, <1>3, <1>4, <1>5 DEF Next

\* Training's steps: its workers keep, claim or free slots, the runs keep theirs.
LEMMA TrainStepEffect ==
  ASSUME Inv, TrainStep
  PROVE  /\ TrainSide' /\ RunSide' /\ pPc' = pPc
         /\ TrainKeeps \/ TrainFrees \/ (TrainClaims /\ loop = None)
<1>1. pPc' = pPc /\ RunSide'
  BY DEF Inv, TrainStep, pVars, RunSide
<1>2. CASE Training!Adopt
  <2>1. active' = active /\ tPc' = tPc
    BY <1>2 DEF Training!Adopt, Training!AdoptBuilds, Training!AdoptRestores,
         Training!AdoptRaises
  <2>2. QED
    BY <1>1, <2>1 DEF Inv, TrainSide, TrainKeeps
<1>3. QED
  BY <1>1, <1>2, TrainWorkerEffect, TrainHandlerEffect DEF Inv, TrainStep

LEMMA RunStepEffect ==
  ASSUME Inv, RunStep
  PROVE  /\ TrainSide' /\ RunSide' /\ tPc' = tPc /\ UNCHANGED <<loop, tVars>>
         /\ RunKeeps \/ RunFrees \/ (RunClaims /\ loop = None)
<1>1. tPc' = tPc /\ TrainSide' /\ UNCHANGED <<loop, tVars>>
  BY DEF Inv, RunStep, tVars, TrainSide
<1>2. QED
  BY <1>1, RunWorkerEffect, RunHandlerEffect DEF Inv, RunStep

\* _cleanup tells both services to stop and leaves workers and slots alone.
LEMMA DisconnectEffect ==
  ASSUME NEW s \in Session, Disconnect(s)
  PROVE  /\ loop = None /\ Training!Ask(s, "stop")
         /\ tStop' = [tStop EXCEPT ![s] = TRUE] /\ pStop' = [pStop EXCEPT ![s] = TRUE]
         /\ UNCHANGED <<active, loop, tThread, tEngine, tHistory, tQueue, tPc, tOwner,
                        tLeft, pThread, pQueue, pPc, pOwner, pLeft, pReason>>
  BY DEF Disconnect
-----------------------------------------------------------------------------
LEMMA NothingHeld ==
  ASSUME NEW S, NEW pc, pc = [w \in S |-> "unborn"]
  PROVE  HeldSet(pc) = {} /\ IsFiniteSet(HeldSet(pc)) /\ Held(pc) = 0
<1>1. HeldSet(pc) = {}
  BY DEF HeldSet
<1>2. QED
  BY <1>1, FS_EmptySet, HeldIsNat

LEMMA InvInit == Init => Inv /\ Training!Init /\ Pipeline!Init
<1> SUFFICES ASSUME Init PROVE Inv /\ Training!Init /\ Pipeline!Init
  OBVIOUS
<1>1. /\ tPc = [j \in Job |-> "unborn"] /\ pPc = [r \in Run |-> "unborn"] /\ active = 0
      /\ Training!ServiceInit /\ Pipeline!ServiceInit
  BY DEF Init, Training!ServiceInit, Pipeline!ServiceInit
<1>2. /\ IsFiniteSet(HeldSet(tPc)) /\ Held(tPc) = 0
      /\ IsFiniteSet(HeldSet(pPc)) /\ Held(pPc) = 0
  BY <1>1, NothingHeld
<1>3. TrainSide /\ RunSide
  BY <1>1, <1>2 DEF TrainSide, RunSide, Training!Stage, Pipeline!Stage
<1>4. QED
  BY <1>1, <1>2, <1>3 DEF Inv, SlotAccounting, Training!Init, Pipeline!Init

LEMMA InvNext == Inv /\ [Next]_vars => Inv'
<1> SUFFICES ASSUME Inv, [Next]_vars PROVE Inv'
  OBVIOUS
<1>1. Held(tPc) \in Nat /\ Held(pPc) \in Nat /\ active = Held(tPc) + Held(pPc)
  BY HeldIsNat DEF Inv, TrainSide, RunSide, SlotAccounting
<1>2. CASE TrainStep
  <2>1. /\ TrainSide' /\ RunSide' /\ pPc' = pPc
        /\ TrainKeeps \/ TrainFrees \/ (TrainClaims /\ loop = None)
    BY <1>2, TrainStepEffect
  <2>2. Held(tPc') \in Nat
    BY <2>1, HeldIsNat DEF TrainSide
  <2>3. TrainKeeps => Held(tPc') = Held(tPc)
    BY DEF TrainKeeps, Held, HeldSet
  <2>4. active' = Held(tPc') + Held(pPc) /\ active' \in Nat
    BY <1>1, <2>1, <2>2, <2>3
       DEF TrainKeeps, TrainFrees, TrainClaims, Training!TryAcquire, Training!Release
  <2>5. QED
    BY <2>1, <2>4 DEF Inv, SlotAccounting
<1>3. CASE RunStep
  <2>1. /\ TrainSide' /\ RunSide' /\ tPc' = tPc
        /\ RunKeeps \/ RunFrees \/ (RunClaims /\ loop = None)
    BY <1>3, RunStepEffect
  <2>2. Held(pPc') \in Nat
    BY <2>1, HeldIsNat DEF RunSide
  <2>3. RunKeeps => Held(pPc') = Held(pPc)
    BY DEF RunKeeps, Held, HeldSet
  <2>4. active' = Held(tPc) + Held(pPc') /\ active' \in Nat
    BY <1>1, <2>1, <2>2, <2>3
       DEF RunKeeps, RunFrees, RunClaims, Pipeline!TryAcquire, Pipeline!Release
  <2>5. QED
    BY <2>1, <2>4 DEF Inv, SlotAccounting
<1>4. ASSUME NEW s \in Session, Disconnect(s) PROVE Inv'
  <2>1. UNCHANGED <<active, tPc, pPc>>
    BY <1>4, DisconnectEffect
  <2>2. QED
    BY <2>1 DEF Inv, TrainSide, RunSide, SlotAccounting
<1>5. CASE UNCHANGED vars
  <2>1. UNCHANGED <<active, tPc, pPc>>
    BY <1>5 DEF vars, tVars, pVars
  <2>2. QED
    BY <2>1 DEF Inv, TrainSide, RunSide, SlotAccounting
<1>6. QED
  BY <1>2, <1>3, <1>4, <1>5, StepKinds

\* A step of the server is a step of the training services: its own, a slot
\* that a pipeline claims or frees, a stop, or none.
LEMMA TrainingNext == Inv /\ [Next]_vars => [Training!Next]_(Training!vars)
<1> SUFFICES ASSUME Inv, [Next]_vars PROVE [Training!Next]_(Training!vars)
  OBVIOUS
<1> USE DEF tRecord, Training!record
<1>1. CASE TrainStep
  BY <1>1 DEF TrainStep, Training!Next
<1>2. CASE RunStep
  <2>1. /\ tPc' = tPc /\ UNCHANGED <<loop, tVars>>
        /\ RunKeeps \/ RunFrees \/ (RunClaims /\ loop = None)
    BY <1>2, RunStepEffect
  <2>2. CASE RunKeeps
    <3>1. Held(pPc') = Held(pPc) /\ active' = active
      BY <2>2 DEF RunKeeps, Held, HeldSet
    <3>2. UNCHANGED Training!vars
      BY <2>1, <3>1 DEF Training!vars, tVars
    <3>3. QED
      BY <3>2
  <2>3. CASE RunFrees
    <3>1. Training!OtherReleases
      BY <2>1, <2>3 DEF RunFrees, Training!OtherReleases, tVars, Training!Release,
                        Pipeline!Release
    <3>2. QED
      BY <3>1 DEF Training!Next
  <2>4. CASE RunClaims /\ loop = None
    <3>1. Training!OtherClaims
      BY <2>1, <2>4 DEF RunClaims, Training!OtherClaims, tVars, Training!TryAcquire,
                        Pipeline!TryAcquire, Training!SlotFree, Pipeline!SlotFree,
                        Training!MaxConcurrentJobs, Pipeline!MaxConcurrentJobs,
                        Training!DefaultMaxConcurrentJobs,
                        Pipeline!DefaultMaxConcurrentJobs
    <3>2. QED
      BY <3>1 DEF Training!Next
  <2>5. QED
    BY <2>1, <2>2, <2>3, <2>4
<1>3. ASSUME NEW s \in Session, Disconnect(s) PROVE [Training!Next]_(Training!vars)
  <2>1. Training!Stop(s)
    BY <1>3, DisconnectEffect DEF Training!Stop
  <2>2. QED
    BY <2>1 DEF Training!Next, Training!Handler
<1>4. CASE UNCHANGED vars
  BY <1>4 DEF vars, tVars, pVars, Training!vars
<1>5. QED
  BY <1>1, <1>2, <1>3, <1>4, StepKinds

LEMMA PipelineNext == Inv /\ [Next]_vars => [Pipeline!Next]_(Pipeline!vars)
<1> SUFFICES ASSUME Inv, [Next]_vars PROVE [Pipeline!Next]_(Pipeline!vars)
  OBVIOUS
<1>1. CASE RunStep
  BY <1>1 DEF RunStep, Pipeline!Next
<1>2. CASE TrainStep
  <2>1. /\ pPc' = pPc /\ UNCHANGED pVars
        /\ TrainKeeps \/ TrainFrees \/ (TrainClaims /\ loop = None)
    BY <1>2, TrainStepEffect DEF TrainStep
  <2>2. CASE TrainKeeps
    <3>1. Held(tPc') = Held(tPc) /\ active' = active
      BY <2>2 DEF TrainKeeps, Held, HeldSet
    <3>2. UNCHANGED Pipeline!vars
      BY <2>1, <3>1 DEF Pipeline!vars, pVars
    <3>3. QED
      BY <3>2
  <2>3. CASE TrainFrees
    <3>1. Pipeline!OtherReleases
      BY <2>1, <2>3 DEF TrainFrees, Pipeline!OtherReleases, pVars, Training!Release,
                        Pipeline!Release
    <3>2. QED
      BY <3>1 DEF Pipeline!Next
  <2>4. CASE TrainClaims
    <3>1. Pipeline!OtherClaims
      BY <2>1, <2>4 DEF TrainClaims, Pipeline!OtherClaims, pVars, Training!TryAcquire,
                        Pipeline!TryAcquire, Training!SlotFree, Pipeline!SlotFree,
                        Training!MaxConcurrentJobs, Pipeline!MaxConcurrentJobs,
                        Training!DefaultMaxConcurrentJobs,
                        Pipeline!DefaultMaxConcurrentJobs
    <3>2. QED
      BY <3>1 DEF Pipeline!Next
  <2>5. QED
    BY <2>1, <2>2, <2>3, <2>4
<1>3. ASSUME NEW s \in Session, Disconnect(s) PROVE [Pipeline!Next]_(Pipeline!vars)
  <2>1. Pipeline!Stop(s)
    BY <1>3, DisconnectEffect DEF Pipeline!Stop
  <2>2. QED
    BY <2>1 DEF Pipeline!Next, Pipeline!Handler
<1>4. CASE UNCHANGED vars
  BY <1>4 DEF vars, tVars, pVars, Pipeline!vars
<1>5. QED
  BY <1>1, <1>2, <1>3, <1>4, StepKinds
-----------------------------------------------------------------------------
\* One counter serves both kinds of job: it is the number of slots that training
\* runs and pipeline runs hold together, of clients that stay or go away.
THEOREM SlotAccountingHolds == Spec => []SlotAccounting
<1>1. Inv => SlotAccounting
  BY DEF Inv
<1>2. QED
  BY <1>1, InvInit, InvNext, PTL DEF Spec

\* In the server the training services do what TrainingService lets them do:
\* the theorems about that module hold of the server.
THEOREM TrainingRefinement == Spec => TrainingImplemented
<1>1. QED
  BY InvInit, InvNext, TrainingNext, PTL DEF Spec, TrainingImplemented, Training!Spec

\* And the pipeline services what PipelineService lets them do.
THEOREM PipelineRefinement == Spec => PipelineImplemented
<1>1. QED
  BY InvInit, InvNext, PipelineNext, PTL DEF Spec, PipelineImplemented, Pipeline!Spec
-----------------------------------------------------------------------------
(* What is proved of each service, with the other's slots as its environment.  *)

TP == INSTANCE TrainingService_proofs WITH
  others <- Held(pPc), thread <- tThread, stop <- tStop, engine <- tEngine,
  history <- tHistory, queue <- tQueue, pc <- tPc, owner <- tOwner,
  left <- tLeft, asked <- tAsked, over <- tOver, earlier <- tEarlier,
  heard <- tHeard

PP == INSTANCE PipelineService_proofs WITH
  others <- Held(tPc), thread <- pThread, stop <- pStop, queue <- pQueue,
  pc <- pPc, owner <- pOwner, left <- pLeft, reason <- pReason

LEMMA SameTrainingInit == Training!Init => TP!Init
  BY DEF Training!Init, TP!Init, Training!ServiceInit, TP!ServiceInit

LEMMA SameTrainingNext == [Training!Next]_(Training!vars) => [TP!Next]_(TP!vars)
  BY DEF Training!Next, TP!Next, Training!Worker, TP!Worker, Training!Handler, TP!Handler,
     Training!Adopt, TP!Adopt, Training!vars, TP!vars, Training!Working,
     TP!Working, Training!JobsIn, TP!JobsIn, Training!Put, TP!Put, Training!Goto,
     TP!Goto, Training!IsRunning, TP!IsRunning, Training!ClaimAndReset,
     TP!ClaimAndReset, Training!Start, TP!Start, Training!StartRaises,
     TP!StartRaises, Training!Ask, TP!Ask, Training!Stop, TP!Stop, Training!Clear,
     TP!Clear, Training!AdoptBegins, TP!AdoptBegins, Training!AdoptBuilds,
     TP!AdoptBuilds, Training!AdoptRestores, TP!AdoptRestores,
     Training!AdoptRaises, TP!AdoptRaises, Training!Drain, TP!Drain,
     Training!OtherClaims, TP!OtherClaims, Training!OtherReleases,
     TP!OtherReleases, Training!BuildSucceeds, TP!BuildSucceeds,
     Training!BuildRaises, TP!BuildRaises, Training!Publish, TP!Publish,
     Training!CheckContinues, TP!CheckContinues, Training!CheckEnds, TP!CheckEnds,
     Training!Batch, TP!Batch, Training!TrainRaises, TP!TrainRaises,
     Training!Finish, TP!Finish, Training!ClearHandle, TP!ClearHandle,
     Training!FlushRaises, TP!FlushRaises, Training!RunsOf, TP!RunsOf,
     Training!record, TP!record, Training!Stage, TP!Stage, Training!Holding,
     TP!Holding,
     Training!ReleaseSlot, TP!ReleaseSlot, Training!SlotFree, TP!SlotFree,
     Training!TryAcquire, TP!TryAcquire, Training!Release, TP!Release,
     Training!MaxConcurrentJobs, TP!MaxConcurrentJobs,
     Training!DefaultMaxConcurrentJobs, TP!DefaultMaxConcurrentJobs

LEMMA SameTrainingTypes == TP!TypeOK => Training!TypeOK
  BY DEF Training!TypeOK, TP!TypeOK, Training!Model, TP!Model, Training!Msg, TP!Msg,
     Training!Loop, TP!Loop, Training!Stage, TP!Stage, Training!Holding,
     TP!Holding, Training!Working, TP!Working

LEMMA SamePipelineInit == Pipeline!Init => PP!Init
  BY DEF Pipeline!Init, PP!Init, Pipeline!ServiceInit, PP!ServiceInit

LEMMA SamePipelineNext == [Pipeline!Next]_(Pipeline!vars) => [PP!Next]_(PP!vars)
  BY DEF Pipeline!Next, PP!Next, Pipeline!Worker, PP!Worker, Pipeline!Handler, PP!Handler,
     Pipeline!vars, PP!vars, Pipeline!Working, PP!Working, Pipeline!Put, PP!Put,
     Pipeline!Goto, PP!Goto, Pipeline!IsRunning, PP!IsRunning,
     Pipeline!ClaimAndReset, PP!ClaimAndReset, Pipeline!Start, PP!Start,
     Pipeline!StartRaises, PP!StartRaises, Pipeline!Stop, PP!Stop, Pipeline!Drain,
     PP!Drain, Pipeline!OtherClaims, PP!OtherClaims, Pipeline!OtherReleases,
     PP!OtherReleases, Pipeline!Begin, PP!Begin, Pipeline!ParseSucceeds,
     PP!ParseSucceeds, Pipeline!Error, PP!Error, Pipeline!ParseRaises,
     PP!ParseRaises, Pipeline!RunRaises, PP!RunRaises, Pipeline!CheckContinues,
     PP!CheckContinues, Pipeline!CheckEnds, PP!CheckEnds, Pipeline!Node, PP!Node,
     Pipeline!Finish, PP!Finish, Pipeline!ClearHandle, PP!ClearHandle,
     Pipeline!ErrorClears, PP!ErrorClears, Pipeline!FinallyClears,
     PP!FinallyClears, Pipeline!ReleaseSlot, PP!ReleaseSlot, Pipeline!SlotFree,
     PP!SlotFree, Pipeline!TryAcquire, PP!TryAcquire, Pipeline!Release,
     PP!Release, Pipeline!MaxConcurrentJobs, PP!MaxConcurrentJobs,
     Pipeline!DefaultMaxConcurrentJobs, PP!DefaultMaxConcurrentJobs

LEMMA SamePipelineTypes == PP!TypeOK => Pipeline!TypeOK
  BY DEF Pipeline!TypeOK, PP!TypeOK, Pipeline!Msg, PP!Msg, Pipeline!Reason, PP!Reason,
     Pipeline!Stage, PP!Stage, Pipeline!Holding, PP!Holding, Pipeline!Working,
     PP!Working

LEMMA SameTrainingSafety ==
  /\ TP!OneRunPerSession => Training!OneRunPerSession
  /\ TP!HistoryOfOneRun => Training!HistoryOfOneRun
  /\ TP!HeardInOrder => Training!HeardInOrder
  BY DEF Training!OneRunPerSession, TP!OneRunPerSession, Training!Working, TP!Working,
         Training!HistoryOfOneRun, TP!HistoryOfOneRun, Training!Model, TP!Model,
         Training!RunsOf, TP!RunsOf, Training!JobsIn, TP!JobsIn, Training!Stage,
         TP!Stage, Training!Holding, TP!Holding, Training!HeardInOrder,
         TP!HeardInOrder

LEMMA SameTrainingSpec == Spec => TP!Spec
<1>1. QED
  BY TrainingRefinement, SameTrainingInit, SameTrainingNext, PTL
     DEF TrainingImplemented, Training!Spec, TP!Spec

LEMMA SamePipelineSpec == Spec => PP!Spec
<1>1. QED
  BY PipelineRefinement, SamePipelineInit, SamePipelineNext, PTL
     DEF PipelineImplemented, Pipeline!Spec, PP!Spec

DispatcherTyped ==
  /\ dispatcher \in [Session -> DispatcherState]
  /\ revived \in [Session -> SUBSET {"training", "pipeline"}]

LEMMA DispatcherTypedStep == DispatcherTyped /\ [Next]_vars => DispatcherTyped'
<1> SUFFICES ASSUME DispatcherTyped, [Next]_vars PROVE DispatcherTyped'
  OBVIOUS
<1> USE DEF DispatcherTyped, dVars
<1>1. CASE UNCHANGED dVars
  BY <1>1
<1>2. ASSUME NEW s \in Session, Disconnect(s) PROVE DispatcherTyped'
  BY <1>2 DEF Disconnect, Leaves, DispatcherState
<1>3. ASSUME NEW s \in Session, LateTrainHandler(s) \/ LatePipelineHandler(s)
      PROVE  DispatcherTyped'
  <2>1. dispatcher' \in [Session -> DispatcherState]
    BY <1>3 DEF LateTrainHandler, LatePipelineHandler, DispatcherState
  <2>2. revived' \in [Session -> SUBSET {"training", "pipeline"}]
    BY <1>3 DEF LateTrainHandler, LatePipelineHandler, Revive
  <2>3. QED
    BY <2>1, <2>2
<1>4. QED
  BY <1>1, <1>2, <1>3 DEF Next, vars, TrainWorker, Adopt, PipelineWorker, TrainHandler,
                          PipelineHandler

LEMMA DispatcherTypes == Spec => []DispatcherTyped
<1>1. Init => DispatcherTyped
  BY DEF Init, DispatcherTyped, DispatcherState
<1>2. QED
  BY <1>1, DispatcherTypedStep, PTL DEF Spec

\* The server's state has the types of TypeOK in every reachable state.
THEOREM TypesHold == Spec => []TypeOK
<1>1. TP!Spec => []TP!TypeOK
  BY TP!TypeCorrect, JobServerAssumption
<1>2. PP!Spec => []PP!TypeOK
  BY PP!TypeCorrect, JobServerAssumption
<1>3. Training!TypeOK /\ Pipeline!TypeOK /\ DispatcherTyped => TypeOK
  BY DEF TypeOK, DispatcherTyped
<1>4. QED
  BY <1>1, <1>2, <1>3, SameTrainingSpec, SamePipelineSpec, SameTrainingTypes,
     SamePipelineTypes, DispatcherTypes, PTL

\* What a client sees of its own training is not disturbed by other sessions,
\* pipelines or disconnections: one run at a time, no points of two runs in one
\* history, and the messages of its runs in their order.
THEOREM TrainingSafetyHolds ==
  Spec => [](/\ Training!OneRunPerSession
             /\ Training!HistoryOfOneRun
             /\ Training!HeardInOrder)
<1>1. TP!Spec => []TP!OneRunPerSession
  BY TP!OneRunHolds, JobServerAssumption
<1>2. TP!Spec => []TP!HistoryOfOneRun
  BY TP!HistoryHolds, JobServerAssumption
<1>3. TP!Spec => []TP!HeardInOrder
  BY TP!MessagesHold, JobServerAssumption
<1>4. QED
  BY <1>1, <1>2, <1>3, SameTrainingSpec, SameTrainingSafety, PTL
-----------------------------------------------------------------------------
(* A client that is gone.  The event of each of its services stays set, but   *)
(* for one that an outliving dispatcher has cleared, which `revived' records. *)

StopsSet(s) == /\ "training" \in revived[s] \/ tStop[s]
               /\ "pipeline" \in revived[s] \/ pStop[s]

GoneInv ==
  /\ DispatcherTyped
  /\ tStop \in [Session -> BOOLEAN] /\ pStop \in [Session -> BOOLEAN]
  /\ \A s \in Session : ~Connected(s) => StopsSet(s)

\* What a handler of session s may do to its event.
LEMMA TrainHandlerStops ==
  ASSUME NEW s \in Session, Training!Handler(s), tStop \in [Session -> BOOLEAN]
  PROVE  /\ tStop' \in [Session -> BOOLEAN]
         /\ \A t \in Session \ {s} : tStop'[t] = tStop[t]
  BY DEF Training!Handler, Training!Start, Training!StartRaises, Training!ClaimAndReset,
         Training!Stop, Training!Clear, Training!AdoptBegins, Training!Drain

LEMMA RunHandlerStops ==
  ASSUME NEW s \in Session, Pipeline!Handler(s), pStop \in [Session -> BOOLEAN]
  PROVE  /\ pStop' \in [Session -> BOOLEAN]
         /\ \A t \in Session \ {s} : pStop'[t] = pStop[t]
  BY DEF Pipeline!Handler, Pipeline!Start, Pipeline!StartRaises, Pipeline!ClaimAndReset,
         Pipeline!Stop, Pipeline!Drain

\* Workers and adopt() on the loop thread read the events only.
LEMMA WorkersKeepStops ==
  ASSUME \/ \E j \in Job : TrainWorker(j)
         \/ \E r \in Run : PipelineWorker(r)
         \/ Adopt
  PROVE  UNCHANGED <<dVars, tStop, pStop>>
<1>1. ASSUME NEW j \in Job, TrainWorker(j) PROVE UNCHANGED <<dVars, tStop, pStop>>
  BY <1>1 DEF TrainWorker, pVars, Training!Worker, Training!BuildSucceeds,
     Training!BuildRaises, Training!Publish, Training!CheckContinues, Training!CheckEnds,
     Training!Batch, Training!TrainRaises, Training!Finish, Training!ClearHandle,
     Training!FlushRaises, Training!ReleaseSlot
<1>2. ASSUME NEW r \in Run, PipelineWorker(r)
      PROVE  UNCHANGED <<dVars, tStop, pStop>>
  BY <1>2 DEF PipelineWorker, tVars, Pipeline!Worker, Pipeline!Begin,
     Pipeline!ParseSucceeds, Pipeline!ParseRaises, Pipeline!RunRaises, Pipeline!Error,
     Pipeline!CheckContinues, Pipeline!CheckEnds, Pipeline!Node, Pipeline!Finish,
     Pipeline!ErrorClears, Pipeline!FinallyClears, Pipeline!ClearHandle,
     Pipeline!ReleaseSlot
<1>3. CASE Adopt
  BY <1>3 DEF Adopt, pVars, Training!Adopt, Training!AdoptBuilds, Training!AdoptRestores,
     Training!AdoptRaises
<1>4. QED
  BY <1>1, <1>2, <1>3

\* A client that is connected has its messages handled: the others' events stay.
LEMMA HandlersKeepGone ==
  ASSUME GoneInv, NEW s \in Session, TrainHandler(s) \/ PipelineHandler(s)
  PROVE  GoneInv'
<1>1. Connected(s) /\ UNCHANGED <<dispatcher, revived>>
  BY DEF TrainHandler, PipelineHandler, dVars
<1>2. \/ Training!Handler(s) /\ pStop' = pStop
      \/ Pipeline!Handler(s) /\ tStop' = tStop
  BY DEF TrainHandler, PipelineHandler, pVars, tVars
<1>3. /\ tStop' \in [Session -> BOOLEAN] /\ pStop' \in [Session -> BOOLEAN]
      /\ \A t \in Session \ {s} : tStop'[t] = tStop[t] /\ pStop'[t] = pStop[t]
  BY <1>2, TrainHandlerStops, RunHandlerStops DEF GoneInv
<1>4. QED
  BY <1>1, <1>3 DEF GoneInv, Connected, StopsSet, DispatcherTyped

\* A dispatcher that outlives its client records the event it clears.
LEMMA LateHandlersKeepGone ==
  ASSUME GoneInv, GoneInv => DispatcherTyped', NEW s \in Session,
         LateTrainHandler(s) \/ LatePipelineHandler(s)
  PROVE  GoneInv'
<1>1. /\ dispatcher[s] = "outlives" /\ dispatcher \in [Session -> DispatcherState]
      /\ revived \in [Session -> SUBSET {"training", "pipeline"}]
      /\ \A t \in Session \ {s} : dispatcher'[t] = dispatcher[t] /\ revived'[t] = revived[t]
  BY DEF GoneInv, DispatcherTyped, LateTrainHandler, LatePipelineHandler, Revive
<1>2. StopsSet(s)
  BY <1>1 DEF GoneInv, Connected
<1>3. CASE LateTrainHandler(s)
  <2>1. Training!Handler(s) /\ pStop' = pStop /\ Revive(s, "training", tStop)
    BY <1>3 DEF LateTrainHandler, pVars
  <2>2. /\ tStop' \in [Session -> BOOLEAN] /\ pStop' \in [Session -> BOOLEAN]
        /\ \A t \in Session \ {s} : tStop'[t] = tStop[t]
    BY <2>1, TrainHandlerStops DEF GoneInv
  <2>3. revived'[s] = IF tStop'[s] THEN revived[s] ELSE revived[s] \union {"training"}
    BY <1>1, <2>1 DEF Revive
  <2>4. StopsSet(s)'
    BY <1>2, <2>1, <2>2, <2>3 DEF StopsSet
  <2>5. QED
    BY <1>1, <2>1, <2>2, <2>4 DEF GoneInv, Connected, StopsSet
<1>4. CASE LatePipelineHandler(s)
  <2>1. Pipeline!Handler(s) /\ tStop' = tStop /\ Revive(s, "pipeline", pStop)
    BY <1>4 DEF LatePipelineHandler, tVars, Pipeline!Handler
  <2>2. /\ tStop' \in [Session -> BOOLEAN] /\ pStop' \in [Session -> BOOLEAN]
        /\ \A t \in Session \ {s} : pStop'[t] = pStop[t]
    BY <2>1, RunHandlerStops DEF GoneInv
  <2>3. revived'[s] = IF pStop'[s] THEN revived[s] ELSE revived[s] \union {"pipeline"}
    BY <1>1, <2>1 DEF Revive
  <2>4. StopsSet(s)'
    BY <1>2, <2>1, <2>2, <2>3 DEF StopsSet
  <2>5. QED
    BY <1>1, <2>1, <2>2, <2>4 DEF GoneInv, Connected, StopsSet
<1>5. QED
  BY <1>3, <1>4

LEMMA GoneStep == GoneInv /\ [Next]_vars => GoneInv'
<1> SUFFICES ASSUME GoneInv, [Next]_vars PROVE GoneInv'
  OBVIOUS
<1>1. CASE \/ \E j \in Job : TrainWorker(j)
           \/ \E r \in Run : PipelineWorker(r)
           \/ Adopt
  BY <1>1, WorkersKeepStops DEF GoneInv, Connected, StopsSet, DispatcherTyped, dVars
<1>2. ASSUME NEW s \in Session, Disconnect(s) PROVE GoneInv'
  <2>1. DispatcherTyped'
    BY DispatcherTypedStep DEF GoneInv
  <2>2. /\ tStop' = [tStop EXCEPT ![s] = TRUE] /\ pStop' = [pStop EXCEPT ![s] = TRUE]
        /\ revived' = revived
    BY <1>2 DEF Disconnect
  <2>3. \A t \in Session \ {s} : dispatcher'[t] = dispatcher[t]
    BY <1>2 DEF Disconnect, Leaves, GoneInv, DispatcherTyped
  <2>4. QED
    BY <2>1, <2>2, <2>3 DEF GoneInv, Connected, StopsSet
<1>3. CASE UNCHANGED vars
  BY <1>3 DEF vars, dVars, tVars, pVars, GoneInv, Connected, StopsSet, DispatcherTyped
<1>4. GoneInv => DispatcherTyped'
  BY DispatcherTypedStep DEF GoneInv
<1>5. QED
  BY <1>1, <1>2, <1>3, <1>4, HandlersKeepGone, LateHandlersKeepGone DEF Next

\* The step of a worker that begins a batch or a node looks at its event.
LEMMA BatchNeedsNoStop ==
  ASSUME TrainSide, [Next]_vars, NEW j \in Job, tPc[j] # "batch", tPc'[j] = "batch"
  PROVE  ~tStop[tOwner[j]]
<1>1. ASSUME NEW k \in Job, Training!Worker(k) PROVE ~tStop[tOwner[j]]
  BY <1>1 DEF TrainSide, Training!Worker, Training!Goto, Training!BuildSucceeds,
     Training!BuildRaises, Training!Publish, Training!CheckContinues, Training!CheckEnds,
     Training!Batch, Training!TrainRaises, Training!Finish, Training!ClearHandle,
     Training!FlushRaises, Training!ReleaseSlot
<1>2. ASSUME NEW s \in Session, Training!Handler(s) PROVE FALSE
  BY <1>2 DEF TrainSide, Training!Handler, Training!Start, Training!StartRaises,
     Training!Goto, Training!Stop, Training!Clear, Training!AdoptBegins, Training!Drain
<1>3. ASSUME Training!Adopt PROVE FALSE
  BY <1>3 DEF Training!Adopt, Training!AdoptBuilds, Training!AdoptRestores,
     Training!AdoptRaises
<1>4. CASE RunStep
  BY <1>4 DEF RunStep, tVars
<1>5. QED
  BY <1>1, <1>2, <1>3, <1>4, StepKinds DEF TrainStep, Disconnect, vars, tVars

LEMMA NodeNeedsNoStop ==
  ASSUME RunSide, [Next]_vars, NEW r \in Run, pPc[r] # "node", pPc'[r] = "node"
  PROVE  ~pStop[pOwner[r]]
<1>1. ASSUME NEW k \in Run, Pipeline!Worker(k) PROVE ~pStop[pOwner[r]]
  BY <1>1 DEF RunSide, Pipeline!Worker, Pipeline!Goto, Pipeline!Begin,
     Pipeline!ParseSucceeds, Pipeline!ParseRaises, Pipeline!RunRaises, Pipeline!Error,
     Pipeline!CheckContinues, Pipeline!CheckEnds, Pipeline!Node, Pipeline!Finish,
     Pipeline!ErrorClears, Pipeline!FinallyClears, Pipeline!ClearHandle,
     Pipeline!ReleaseSlot
<1>2. ASSUME NEW s \in Session, Pipeline!Handler(s) PROVE FALSE
  BY <1>2 DEF RunSide, Pipeline!Handler, Pipeline!Start, Pipeline!StartRaises,
     Pipeline!Goto, Pipeline!Stop, Pipeline!Drain
<1>3. CASE TrainStep
  BY <1>3 DEF TrainStep, pVars
<1>4. QED
  BY <1>1, <1>2, <1>3, StepKinds DEF RunStep, Disconnect, vars, pVars

\* Once a client is gone none of its runs begins another batch or node, but for the
\* runs of a service whose event its dispatcher has cleared since.
THEOREM DisconnectHolds == Spec => DisconnectIsFinal
<1>1. Init => GoneInv
  BY DEF Init, Training!ServiceInit, Pipeline!ServiceInit, GoneInv, DispatcherTyped,
         DispatcherState, Connected
<1>2. ASSUME GoneInv, Inv, [Next]_vars, NEW s \in Session, ~Connected(s)
      PROVE  /\ "training" \in revived[s] \/ \A j \in Job :
                  tOwner[j] = s /\ tPc[j] # "batch" => tPc'[j] # "batch"
             /\ "pipeline" \in revived[s] \/ \A r \in Run :
                  pOwner[r] = s /\ pPc[r] # "node" => pPc'[r] # "node"
  <2>1. StopsSet(s)
    BY <1>2 DEF GoneInv
  <2>2. \A j \in Job : tPc[j] # "batch" /\ tPc'[j] = "batch" => ~tStop[tOwner[j]]
    BY <1>2, BatchNeedsNoStop DEF Inv
  <2>3. \A r \in Run : pPc[r] # "node" /\ pPc'[r] = "node" => ~pStop[pOwner[r]]
    BY <1>2, NodeNeedsNoStop DEF Inv
  <2>4. QED
    BY <2>1, <2>2, <2>3 DEF StopsSet
<1>3. GoneInv /\ Inv /\ [Next]_vars =>
        \A s \in Session : ~Connected(s) =>
          /\ "training" \in revived[s] \/ \A j \in Job :
               tOwner[j] = s /\ tPc[j] # "batch" => tPc'[j] # "batch"
          /\ "pipeline" \in revived[s] \/ \A r \in Run :
               pOwner[r] = s /\ pPc[r] # "node" => pPc'[r] # "node"
  BY <1>2
<1>4. QED
  BY <1>1, <1>3, GoneStep, InvInit, InvNext, PTL DEF Spec, DisconnectIsFinal
=============================================================================
