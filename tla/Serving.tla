------------------------------- MODULE Serving -------------------------------
(* The serving core (spikeforge_serve/service.py): inference sessions behind  *)
(* one reentrant lock, and the counter of steps that /metrics exports.        *)
(* Callers are threads.  stream() is a generator: it keeps the lock while its *)
(* caller handles a prediction or produces the next frame, and the same       *)
(* thread may call the service again in between.                              *)
EXTENDS Integers, Sequences

CONSTANTS
    Threads,      \* the callers
    Sids,         \* session ids
    MaxFrames,    \* frames of one call
    MaxSteps,     \* steps of one frame (a raw sample is encoded to several)
    MaxCalls,     \* calls a run of the model makes
    MaxDepth      \* nested calls of one thread

ASSUME ServingAssumption ==
    /\ MaxFrames \in Nat /\ MaxSteps \in Nat
    /\ MaxCalls \in Nat /\ MaxDepth \in Nat

VARIABLES
    steps,        \* the steps of every session since its reset
    counted,      \* the counter serve.steps
    calls,        \* per thread, the calls it is in, the innermost last
    performed,    \* steps that sessions have made, resets or not
    unfinished,   \* of these, the steps of calls that failed on a frame
    made

servingVars == <<steps, counted, calls, performed, unfinished, made>>

\* turn: whether the service handles a frame, or the generator is suspended.
Call == [op : {"predict", "stream"}, sid : Sids, left : 0..MaxFrames,
         before : Nat, turn : {"service", "caller"}]

ServingInit ==
    /\ steps = [s \in Sids |-> 0]
    /\ counted = 0 /\ performed = 0 /\ unfinished = 0 /\ made = 0
    /\ calls = [t \in Threads |-> <<>>]

Holds(t) == calls[t] # <<>>
Top(t) == calls[t][Len(calls[t])]
\* The lock is free, or this thread has it and its generator is suspended.
MayCall(t) ==
    IF Holds(t) THEN Top(t).turn = "caller"
                ELSE \A u \in Threads \ {t} : ~Holds(u)

Push(t, c) == calls' = [calls EXCEPT ![t] = Append(@, c)]
Becomes(t, c) == calls' = [calls EXCEPT ![t][Len(calls[t])] = c]
Pop(t) == calls' = [calls EXCEPT ![t] = SubSeq(@, 1, Len(@) - 1)]

\* predict() reads the session's steps before the first frame.
Predict(t, s, n) ==
    /\ MayCall(t) /\ made < MaxCalls /\ Len(calls[t]) < MaxDepth
    /\ made' = made + 1
    /\ Push(t, [op |-> "predict", sid |-> s, left |-> n,
                before |-> steps[s], turn |-> "service"])
    /\ UNCHANGED <<steps, counted, performed, unfinished>>

\* stream() has only found its session: it waits for its first frame.
Stream(t, s, n) ==
    /\ MayCall(t) /\ made < MaxCalls /\ Len(calls[t]) < MaxDepth
    /\ made' = made + 1
    /\ Push(t, [op |-> "stream", sid |-> s, left |-> n,
                before |-> steps[s], turn |-> "caller"])
    /\ UNCHANGED <<steps, counted, performed, unfinished>>

\* reset() takes the lock and is done.
Reset(t, s) ==
    /\ MayCall(t) /\ made < MaxCalls
    /\ made' = made + 1
    /\ steps' = [steps EXCEPT ![s] = 0]
    /\ UNCHANGED <<counted, calls, performed, unfinished>>

\* The thread goes back to a generator that it left suspended below the last.
Turns(t, i) ==
    LET c == calls[t]
    IN /\ Holds(t) /\ Top(t).turn = "caller" /\ i < Len(c)
       /\ calls' = [calls EXCEPT ![t] = [c EXCEPT ![i] = Top(t), ![Len(c)] = c[i]]]
       /\ UNCHANGED <<steps, counted, performed, unfinished, made>>

\* Mutant: the steps are read once, before the first frame.
NextFrameKeepsCount(t) ==
    /\ Holds(t) /\ Top(t).turn = "caller" /\ Top(t).left > 0
    /\ Becomes(t, [Top(t) EXCEPT !.turn = "service"])
    /\ UNCHANGED <<steps, counted, performed, unfinished, made>>

\* next(): the generator reads the session's steps again for every frame.
NextFrame(t) ==
    /\ Holds(t) /\ Top(t).turn = "caller" /\ Top(t).left > 0
    /\ Becomes(t, [Top(t) EXCEPT !.turn = "service", !.before = steps[Top(t).sid]])
    /\ UNCHANGED <<steps, counted, performed, unfinished, made>>

\* _step(): one frame, or one sample of several steps.
Frame(t, n) ==
    LET c == Top(t)
        now == steps[c.sid] + n
    IN /\ Holds(t) /\ Top(t).turn = "service" /\ Top(t).left > 0
       /\ steps' = [steps EXCEPT ![c.sid] = now]
       /\ performed' = performed + n
       /\ IF c.op = "predict"
          THEN /\ Becomes(t, [c EXCEPT !.left = @ - 1])
               /\ UNCHANGED counted
          ELSE /\ Becomes(t, [c EXCEPT !.left = @ - 1, !.turn = "caller"])
               /\ counted' = counted + (now - c.before)
       /\ UNCHANGED <<unfinished, made>>

\* A frame is refused after some of its steps; the exception leaves the call.
FrameFails(t, n) ==
    LET c == Top(t)
    IN /\ Holds(t) /\ Top(t).turn = "service" /\ Top(t).left > 0
       /\ steps' = [steps EXCEPT ![c.sid] = @ + n]
       /\ performed' = performed + n
       /\ unfinished' = unfinished + (steps[c.sid] + n - c.before)
       /\ Pop(t)
       /\ UNCHANGED <<counted, made>>

PredictReturns(t) ==
    /\ Holds(t) /\ Top(t).op = "predict" /\ Top(t).left = 0
    /\ counted' = counted + (steps[Top(t).sid] - Top(t).before)
    /\ Pop(t)
    /\ UNCHANGED <<steps, performed, unfinished, made>>

\* The generator is exhausted, or its caller closes or drops it.
StreamEnds(t) ==
    /\ Holds(t) /\ Top(t).turn = "caller"
    /\ Pop(t)
    /\ UNCHANGED <<steps, counted, performed, unfinished, made>>

ServingNext ==
    \E t \in Threads :
        \/ \E s \in Sids, n \in 0..MaxFrames : Predict(t, s, n) \/ Stream(t, s, n)
        \/ \E s \in Sids : Reset(t, s)
        \/ \E n \in 1..MaxSteps : Frame(t, n)
        \/ \E n \in 0..MaxSteps : FrameFails(t, n)
        \/ \E i \in DOMAIN calls[t] : Turns(t, i)
        \/ NextFrame(t) \/ PredictReturns(t) \/ StreamEnds(t)

ServingSpec == ServingInit /\ [][ServingNext]_servingVars

-----------------------------------------------------------------------------
ServingTypeOK ==
    /\ steps \in [Sids -> Nat]
    /\ counted \in Int /\ performed \in Nat /\ unfinished \in Int
    /\ calls \in [Threads -> Seq(Call)]
    /\ made \in 0..MaxCalls

\* A call that is between two of its frames.
Busy(t) == Holds(t) /\ Top(t).turn = "service"

\* The exported counter lags the work of the sessions only by the call that is
\* in progress and by the calls that failed on a frame: predict() counts once,
\* after its last frame, and stream() after each, under one lock, through
\* resets and nested calls.
StepsAreCounted ==
    (\A t \in Threads : ~Busy(t)) => counted + unfinished = performed
=============================================================================
