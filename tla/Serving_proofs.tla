---------------------------- MODULE Serving_proofs ----------------------------
(* Proofs about the serving package: Serving, for any number of callers, calls, *)
(* frames and steps, and PipelineGraph, for documents of any length over any    *)
(* ids.                                                                         *)
EXTENDS Serving, PipelineGraph, SequenceTheorems, FiniteSetTheorems, TLAPS

(***************************************************************************)
(* One thread is in calls at a time; below its innermost call there are    *)
(* only suspended generators; and the counter lacks the steps of that call *)
(* where it is busy.                                                       *)
(***************************************************************************)
Typed ==
  /\ steps \in [Sids -> Nat]
  /\ counted \in Int /\ performed \in Nat /\ unfinished \in Int
  /\ calls \in [Threads -> Seq(Call)]

OneHolder == \A t, u \in Threads : Holds(t) /\ Holds(u) => t = u

Suspended ==
  \A t \in Threads : \A i \in 1..Len(calls[t]) :
    /\ i < Len(calls[t]) => calls[t][i].turn = "caller"
    /\ calls[t][i].op = "predict" => calls[t][i].turn = "service"

Account ==
  /\ (\A t \in Threads : ~Busy(t)) => counted + unfinished = performed
  /\ \A t \in Threads :
       Busy(t) => counted + unfinished + (steps[Top(t).sid] - Top(t).before) = performed

ServingInv == Typed /\ OneHolder /\ Suspended /\ Account
-----------------------------------------------------------------------------
\* What a call to the service does to the stack of its thread.
LEMMA Pushed ==
  ASSUME calls \in [Threads -> Seq(Call)], NEW t \in Threads, NEW c \in Call, Push(t, c)
  PROVE  /\ calls' \in [Threads -> Seq(Call)]
         /\ \A u \in Threads \ {t} : calls'[u] = calls[u]
         /\ Len(calls[t]) \in Nat /\ Len(calls'[t]) = Len(calls[t]) + 1
         /\ \A i \in 1..Len(calls[t]) : calls'[t][i] = calls[t][i]
         /\ calls'[t][Len(calls[t]) + 1] = c
  BY DEF Push

LEMMA Replaced ==
  ASSUME calls \in [Threads -> Seq(Call)], NEW t \in Threads, NEW c \in Call, Holds(t),
         Becomes(t, c)
  PROVE  /\ calls' \in [Threads -> Seq(Call)]
         /\ \A u \in Threads \ {t} : calls'[u] = calls[u]
         /\ Len(calls[t]) \in Nat \ {0} /\ Len(calls'[t]) = Len(calls[t])
         /\ \A i \in 1..(Len(calls[t]) - 1) : calls'[t][i] = calls[t][i]
         /\ calls'[t][Len(calls[t])] = c
<1>1. calls[t] \in Seq(Call) /\ calls[t] # <<>> /\ Len(calls[t]) \in Nat \ {0}
  BY DEF Holds
<1>2. [calls[t] EXCEPT ![Len(calls[t])] = c] \in Seq(Call)
  BY <1>1
<1>3. calls' = [calls EXCEPT ![t] = [calls[t] EXCEPT ![Len(calls[t])] = c]]
  BY DEF Becomes
<1>4. QED
  BY <1>1, <1>2, <1>3

LEMMA Popped ==
  ASSUME calls \in [Threads -> Seq(Call)], NEW t \in Threads, Holds(t), Pop(t)
  PROVE  /\ calls' \in [Threads -> Seq(Call)]
         /\ \A u \in Threads \ {t} : calls'[u] = calls[u]
         /\ Len(calls[t]) \in Nat \ {0} /\ Len(calls'[t]) = Len(calls[t]) - 1
         /\ \A i \in 1..(Len(calls[t]) - 1) : calls'[t][i] = calls[t][i]
<1>1. calls[t] \in Seq(Call) /\ calls[t] # <<>> /\ Len(calls[t]) \in Nat \ {0}
  BY DEF Holds
<1> DEFINE n == Len(calls[t]) - 1
           s == SubSeq(calls[t], 1, n)
<1>2. n \in Nat /\ \A i \in 1..n : calls[t][i] \in Call
  BY <1>1
<1>3. /\ s \in Seq(Call) /\ Len(s) = IF 1 <= n THEN n - 1 + 1 ELSE 0
      /\ \A i \in 1..(n - 1 + 1) : s[i] = calls[t][1 + i - 1]
  BY <1>2, SubSeqProperties
<1>4. calls' = [calls EXCEPT ![t] = s]
  BY DEF Pop
<1> HIDE DEF s
<1>5. calls'[t] = s /\ calls' \in [Threads -> Seq(Call)]
  BY <1>3, <1>4
<1> HIDE DEF n
<1>6. Len(s) = n /\ \A i \in 1..n : s[i] = calls[t][i]
  <2>1. Len(s) = n /\ 1..(n - 1 + 1) = 1..n
    BY <1>2, <1>3
  <2>2. ASSUME NEW i \in 1..n PROVE s[i] = calls[t][i]
    <3>1. s[i] = calls[t][1 + i - 1] /\ 1 + i - 1 = i
      BY <1>2, <1>3, <2>1
    <3>2. QED
      BY <3>1
  <2>3. QED
    BY <2>1, <2>2
<1>7. QED
  BY <1>1, <1>4, <1>5, <1>6 DEF n

\* The innermost call of a thread is a call.
LEMMA TopIsCall ==
  ASSUME calls \in [Threads -> Seq(Call)], NEW t \in Threads, Holds(t)
  PROVE  /\ Len(calls[t]) \in 1..Len(calls[t]) /\ Top(t) \in Call
         /\ Top(t).sid \in Sids /\ Top(t).before \in Nat
<1>1. calls[t] \in Seq(Call) /\ calls[t] # <<>>
  BY DEF Holds
<1>2. Len(calls[t]) \in 1..Len(calls[t]) /\ calls[t][Len(calls[t])] \in Call
  BY <1>1
<1>3. \A c \in Call : c.sid \in Sids /\ c.before \in Nat
  BY DEF Call
<1>4. QED
  BY <1>2, <1>3 DEF Top

\* A stream that has made its frame is a suspended call.
LEMMA Yielded ==
  ASSUME NEW c \in Call, c.left > 0, c.op # "predict"
  PROVE  LET d == [c EXCEPT !.left = @ - 1, !.turn = "caller"]
         IN  d \in Call /\ d.op # "predict" /\ d.turn = "caller"
<1>1. c.left - 1 \in 0..MaxFrames
  BY ServingAssumption DEF Call
<1>2. QED
  BY <1>1 DEF Call

LEMMA HoldsByLength ==
  ASSUME calls \in [Threads -> Seq(Call)], NEW t \in Threads
  PROVE  Holds(t) <=> Len(calls[t]) > 0
  BY DEF Holds
-----------------------------------------------------------------------------
LEMMA ServingInvInit == ServingInit => ServingInv
<1> SUFFICES ASSUME ServingInit PROVE ServingInv
  OBVIOUS
<1>1. \A t \in Threads : calls[t] = <<>> /\ Len(calls[t]) = 0
  BY DEF ServingInit
<1>2. Typed
  BY DEF ServingInit, Typed
<1>3. OneHolder /\ Suspended
  BY <1>1 DEF OneHolder, Suspended, Holds
<1>4. Account
  BY <1>1 DEF ServingInit, Account, Busy, Holds
<1>5. QED
  BY <1>2, <1>3, <1>4 DEF ServingInv

\* Where a thread may call, no call is busy.
LEMMA NobodyBusy ==
  ASSUME ServingInv, NEW t \in Threads, MayCall(t)
  PROVE  /\ \A u \in Threads \ {t} : ~Holds(u)
         /\ Holds(t) => Top(t).turn = "caller"
         /\ counted + unfinished = performed
<1>1. \A u \in Threads \ {t} : ~Holds(u)
  BY DEF MayCall, ServingInv, OneHolder
<1>2. Holds(t) => Top(t).turn = "caller"
  BY DEF MayCall
<1>3. \A u \in Threads : ~Busy(u)
  BY <1>1, <1>2 DEF Busy
<1>4. QED
  BY <1>1, <1>2, <1>3 DEF ServingInv, Account

\* A new call owes nothing yet.
LEMMA PushKeepsInv ==
  ASSUME ServingInv, NEW t \in Threads, MayCall(t), NEW c \in Call, Push(t, c),
         c.op = "predict" => c.turn = "service",
         c.before = steps[c.sid],
         UNCHANGED <<steps, counted, performed, unfinished>>
  PROVE  ServingInv'
<1>1. calls \in [Threads -> Seq(Call)]
  BY DEF ServingInv, Typed
<1>2. /\ calls' \in [Threads -> Seq(Call)]
      /\ \A u \in Threads \ {t} : calls'[u] = calls[u]
      /\ Len(calls[t]) \in Nat /\ Len(calls'[t]) = Len(calls[t]) + 1
      /\ \A i \in 1..Len(calls[t]) : calls'[t][i] = calls[t][i]
      /\ calls'[t][Len(calls[t]) + 1] = c
  BY <1>1, Pushed
<1>3. /\ \A u \in Threads \ {t} : ~Holds(u)
      /\ Holds(t) => Top(t).turn = "caller"
      /\ counted + unfinished = performed
  BY NobodyBusy
<1>4. Typed' /\ OneHolder'
  BY <1>2, <1>3 DEF ServingInv, Typed, OneHolder, Holds
<1>5. Suspended'
  <2> SUFFICES ASSUME NEW u \in Threads, NEW i \in 1..Len(calls'[u])
               PROVE  /\ i < Len(calls'[u]) => calls'[u][i].turn = "caller"
                      /\ calls'[u][i].op = "predict" => calls'[u][i].turn = "service"
    BY DEF Suspended
  <2>1. CASE u # t
    BY <1>2, <2>1 DEF ServingInv, Suspended
  <2>2. CASE u = t /\ i = Len(calls[t]) + 1
    BY <1>2, <2>2
  <2>3. CASE u = t /\ i \in 1..Len(calls[t])
    <3>1. calls'[u][i] = calls[t][i] /\ Holds(t)
      BY <1>1, <1>2, <2>3, HoldsByLength
    <3>2. calls[t][i].turn = "caller"
      <4>1. CASE i = Len(calls[t])
        BY <1>3, <3>1, <4>1 DEF Top
      <4>2. CASE i < Len(calls[t])
        BY <2>3, <4>2 DEF ServingInv, Suspended
      <4>3. QED
        BY <1>2, <2>3, <4>1, <4>2
    <3>3. calls[t][i].op = "predict" => calls[t][i].turn = "service"
      BY <2>3 DEF ServingInv, Suspended
    <3>4. QED
      BY <3>1, <3>2, <3>3
  <2>4. QED
    BY <1>2, <2>1, <2>2, <2>3
<1>6. Account'
  <2>1. Top(t)' = c /\ \A u \in Threads \ {t} : ~Holds(u)'
    BY <1>2, <1>3 DEF Top, Holds
  <2>2. c.sid \in Sids /\ steps[c.sid] \in Nat
    BY DEF Call, ServingInv, Typed
  <2>3. QED
    BY <1>3, <2>1, <2>2 DEF Account, Busy, ServingInv, Typed
<1>7. QED
  BY <1>4, <1>5, <1>6 DEF ServingInv

LEMMA ResetKeepsInv ==
  ASSUME ServingInv, NEW t \in Threads, NEW s \in Sids, Reset(t, s) PROVE ServingInv'
<1>1. MayCall(t) /\ UNCHANGED <<counted, calls, performed, unfinished>>
      /\ steps' = [steps EXCEPT ![s] = 0]
  BY DEF Reset
<1>2. /\ \A u \in Threads \ {t} : ~Holds(u)
      /\ Holds(t) => Top(t).turn = "caller"
      /\ counted + unfinished = performed
  BY <1>1, NobodyBusy
<1>3. \A u \in Threads : ~Busy(u)'
  BY <1>1, <1>2 DEF Busy, Holds, Top
<1>4. QED
  BY <1>1, <1>2, <1>3 DEF ServingInv, Typed, OneHolder, Suspended, Account, Holds

\* The innermost call goes on: the account of the others does not change.
LEMMA BecomesKeepsStack ==
  ASSUME ServingInv, NEW t \in Threads, NEW c \in Call, Holds(t), Becomes(t, c),
         c.op = "predict" => c.turn = "service"
  PROVE  /\ calls' \in [Threads -> Seq(Call)] /\ OneHolder' /\ Suspended'
         /\ Top(t)' = c /\ Holds(t)' /\ \A u \in Threads \ {t} : ~Holds(u) /\ ~Holds(u)'
<1>1. calls \in [Threads -> Seq(Call)]
  BY DEF ServingInv, Typed
<1>2. /\ calls' \in [Threads -> Seq(Call)]
      /\ \A u \in Threads \ {t} : calls'[u] = calls[u]
      /\ Len(calls[t]) \in Nat \ {0} /\ Len(calls'[t]) = Len(calls[t])
      /\ \A i \in 1..(Len(calls[t]) - 1) : calls'[t][i] = calls[t][i]
      /\ calls'[t][Len(calls[t])] = c
  BY <1>1, Replaced
<1>3. \A u \in Threads \ {t} : ~Holds(u) /\ ~Holds(u)'
  BY <1>2 DEF ServingInv, OneHolder, Holds
<1>4. OneHolder' /\ Top(t)' = c /\ Holds(t)'
  BY <1>2, <1>3 DEF OneHolder, Top, Holds
<1>5. Suspended'
  <2> SUFFICES ASSUME NEW u \in Threads, NEW i \in 1..Len(calls'[u])
               PROVE  /\ i < Len(calls'[u]) => calls'[u][i].turn = "caller"
                      /\ calls'[u][i].op = "predict" => calls'[u][i].turn = "service"
    BY DEF Suspended
  <2>1. CASE u # t
    BY <1>2, <2>1 DEF ServingInv, Suspended
  <2>2. CASE u = t /\ i = Len(calls[t])
    BY <1>2, <2>2
  <2>3. CASE u = t /\ i \in 1..(Len(calls[t]) - 1)
    BY <1>2, <2>3 DEF ServingInv, Suspended
  <2>4. QED
    BY <1>2, <2>1, <2>2, <2>3
<1>6. QED
  BY <1>2, <1>3, <1>4, <1>5

\* The innermost call is over, and the one below it is suspended.
LEMMA PopKeepsStack ==
  ASSUME ServingInv, NEW t \in Threads, Holds(t), Pop(t)
  PROVE  /\ calls' \in [Threads -> Seq(Call)] /\ OneHolder' /\ Suspended'
         /\ \A u \in Threads : ~Busy(u)'
<1>1. calls \in [Threads -> Seq(Call)]
  BY DEF ServingInv, Typed
<1>2. /\ calls' \in [Threads -> Seq(Call)]
      /\ \A u \in Threads \ {t} : calls'[u] = calls[u]
      /\ Len(calls[t]) \in Nat \ {0} /\ Len(calls'[t]) = Len(calls[t]) - 1
      /\ \A i \in 1..(Len(calls[t]) - 1) : calls'[t][i] = calls[t][i]
  BY <1>1, Popped
<1>3. \A u \in Threads \ {t} : ~Holds(u)'
  BY <1>2 DEF ServingInv, OneHolder, Holds
<1>4. OneHolder'
  BY <1>3 DEF OneHolder
<1>5. Suspended'
  <2> SUFFICES ASSUME NEW u \in Threads, NEW i \in 1..Len(calls'[u])
               PROVE  /\ i < Len(calls'[u]) => calls'[u][i].turn = "caller"
                      /\ calls'[u][i].op = "predict" => calls'[u][i].turn = "service"
    BY DEF Suspended
  <2>1. CASE u # t
    BY <1>2, <2>1 DEF ServingInv, Suspended
  <2>2. CASE u = t
    BY <1>2, <2>2 DEF ServingInv, Suspended
  <2>3. QED
    BY <2>1, <2>2
<1>6. ~Busy(t)'
  <2> SUFFICES ASSUME Holds(t)' PROVE Top(t)'.turn = "caller"
    BY DEF Busy
  <2>1. Len(calls[t]) - 1 \in 1..(Len(calls[t]) - 1) /\ Len(calls'[t]) > 0
    BY <1>2 DEF Holds
  <2>2. Top(t)' = calls[t][Len(calls[t]) - 1]
    BY <1>2, <2>1 DEF Top
  <2>3. QED
    BY <1>2, <2>1, <2>2 DEF ServingInv, Suspended
<1>7. QED
  BY <1>2, <1>3, <1>4, <1>5, <1>6 DEF Busy
-----------------------------------------------------------------------------
\* All the calls of a thread that turns to another generator are suspended ones.
LEMMA TurnsKeepsInv ==
  ASSUME ServingInv, NEW t \in Threads, NEW i \in DOMAIN calls[t], Turns(t, i)
  PROVE  ServingInv'
<1> DEFINE c == calls[t]
           d == [c EXCEPT ![i] = Top(t), ![Len(c)] = c[i]]
<1>1. /\ Holds(t) /\ Top(t).turn = "caller" /\ calls' = [calls EXCEPT ![t] = d]
      /\ UNCHANGED <<steps, counted, performed, unfinished>>
  BY DEF Turns
<1>2. /\ calls \in [Threads -> Seq(Call)] /\ c \in Seq(Call)
      /\ Top(t) \in Call /\ Len(c) \in 1..Len(c) /\ c[i] \in Call
  BY <1>1, TopIsCall DEF ServingInv, Typed
<1>3. d \in Seq(Call) /\ Len(d) = Len(c)
  BY <1>2
<1>4. /\ calls' \in [Threads -> Seq(Call)] /\ calls'[t] = d
      /\ \A u \in Threads \ {t} : calls'[u] = calls[u]
  BY <1>1, <1>2, <1>3
<1>5. \A j \in 1..Len(c) : c[j].turn = "caller" /\ c[j].op # "predict"
  <2>1. \A j \in 1..Len(c) : c[j].turn = "caller"
    BY <1>1, <1>2 DEF ServingInv, Suspended, Top
  <2>2. QED
    BY <2>1 DEF ServingInv, Suspended
<1>6. \A j \in 1..Len(d) : d[j].turn = "caller" /\ d[j].op # "predict"
  <2>1. \A j \in 1..Len(d) : d[j] \in {c[k] : k \in 1..Len(c)}
    BY <1>2, <1>3 DEF Top
  <2>2. QED
    BY <1>5, <2>1
<1> HIDE DEF d
<1>7. Holds(t)' /\ Top(t)'.turn = "caller"
  BY <1>2, <1>3, <1>4, <1>6 DEF Holds, Top
<1>8. \A u \in Threads \ {t} : ~Holds(u) /\ ~Holds(u)'
  BY <1>1, <1>4 DEF ServingInv, OneHolder, Holds
<1>9. Typed' /\ OneHolder'
  BY <1>1, <1>4, <1>8 DEF ServingInv, Typed, OneHolder
<1>10. Suspended'
  BY <1>3, <1>4, <1>6 DEF ServingInv, Suspended
<1>11. Account'
  <2>1. (\A u \in Threads : ~Busy(u)) /\ \A u \in Threads : ~Busy(u)'
    BY <1>1, <1>7, <1>8 DEF Busy
  <2>2. QED
    BY <1>1, <2>1 DEF ServingInv, Account
<1>12. QED
  BY <1>9, <1>10, <1>11 DEF ServingInv

LEMMA NextFrameKeepsInv == ASSUME ServingInv, NEW t \in Threads, NextFrame(t) PROVE ServingInv'
<1> DEFINE c == [Top(t) EXCEPT !.turn = "service", !.before = steps[Top(t).sid]]
<1>1. /\ Holds(t) /\ Top(t).turn = "caller" /\ Becomes(t, c)
      /\ UNCHANGED <<steps, counted, performed, unfinished>>
  BY DEF NextFrame
<1>2. /\ Top(t) \in Call /\ Top(t).sid \in Sids /\ steps[Top(t).sid] \in Nat
  BY <1>1, TopIsCall DEF ServingInv, Typed
<1>3. c \in Call /\ c.turn = "service" /\ c.sid = Top(t).sid /\ c.before = steps[Top(t).sid]
  BY <1>2 DEF Call
<1> HIDE DEF c
<1>4. /\ calls' \in [Threads -> Seq(Call)] /\ OneHolder' /\ Suspended'
      /\ Top(t)' = c /\ Holds(t)' /\ \A u \in Threads \ {t} : ~Holds(u) /\ ~Holds(u)'
  BY <1>1, <1>3, BecomesKeepsStack
<1>5. counted + unfinished = performed
  BY <1>1, <1>4 DEF ServingInv, Account, Busy
<1>6. Account'
  BY <1>1, <1>2, <1>3, <1>4, <1>5 DEF Account, Busy, ServingInv, Typed
<1>7. QED
  BY <1>1, <1>4, <1>6 DEF ServingInv, Typed

\* A frame's steps are owed until they are counted.
LEMMA FrameKeepsInv ==
  ASSUME ServingInv, NEW t \in Threads, NEW n \in Nat, Frame(t, n) PROVE ServingInv'
<1> DEFINE c == Top(t)
           k == steps[c.sid]
<1>1. /\ Holds(t) /\ c.turn = "service" /\ c.left > 0
      /\ steps' = [steps EXCEPT ![c.sid] = k + n]
      /\ performed' = performed + n /\ UNCHANGED unfinished
  BY DEF Frame
<1>2. /\ c \in Call /\ c.sid \in Sids /\ c.before \in Nat /\ k \in Nat
      /\ steps \in [Sids -> Nat] /\ counted \in Int /\ performed \in Nat /\ unfinished \in Int
  BY <1>1, TopIsCall DEF ServingInv, Typed
<1>3. counted + unfinished + (k - c.before) = performed
  BY <1>1 DEF ServingInv, Account, Busy
<1>4. steps' \in [Sids -> Nat] /\ steps'[c.sid] = k + n /\ performed' \in Nat
  BY <1>1, <1>2
<1>5. CASE c.op = "predict"
  <2> DEFINE d == [c EXCEPT !.left = @ - 1]
  <2>1. Becomes(t, d) /\ UNCHANGED counted
    BY <1>5 DEF Frame
  <2>2. /\ d \in Call /\ d.op = "predict" /\ d.turn = "service"
        /\ d.sid = c.sid /\ d.before = c.before
    BY <1>1, <1>2, <1>5, ServingAssumption DEF Call
  <2> HIDE DEF d
  <2>3. /\ calls' \in [Threads -> Seq(Call)] /\ OneHolder' /\ Suspended'
        /\ Top(t)' = d /\ Holds(t)' /\ \A u \in Threads \ {t} : ~Holds(u) /\ ~Holds(u)'
    BY <1>1, <2>1, <2>2, BecomesKeepsStack
  <2> HIDE DEF c
  <2>4. Account'
    <3>1. Busy(t)' /\ \A u \in Threads \ {t} : ~Busy(u)'
      BY <2>2, <2>3 DEF Busy
    <3>2. counted' + unfinished' + (steps'[d.sid] - d.before) = performed'
      BY <1>1, <1>2, <1>3, <1>4, <2>1, <2>2
    <3>3. QED
      BY <2>3, <3>1, <3>2 DEF Account
  <2>5. QED
    BY <1>1, <1>2, <1>4, <2>1, <2>3, <2>4 DEF ServingInv, Typed
<1>6. CASE c.op # "predict"
  <2> DEFINE d == [c EXCEPT !.left = @ - 1, !.turn = "caller"]
  <2>1. Becomes(t, d) /\ counted' = counted + ((k + n) - c.before)
    BY <1>6 DEF Frame
  <2>2. d \in Call /\ d.op # "predict" /\ d.turn = "caller"
    BY <1>1, <1>2, <1>6, Yielded
  <2> HIDE DEF d
  <2>3. /\ calls' \in [Threads -> Seq(Call)] /\ OneHolder' /\ Suspended'
        /\ Top(t)' = d /\ Holds(t)' /\ \A u \in Threads \ {t} : ~Holds(u) /\ ~Holds(u)'
    BY <1>1, <2>1, <2>2, BecomesKeepsStack
  <2> HIDE DEF c, k
  <2>4. Account'
    <3>1. \A u \in Threads : ~Busy(u)'
      BY <2>2, <2>3 DEF Busy
    <3>2. counted' + unfinished' = performed'
      BY <1>1, <1>2, <1>3, <2>1
    <3>3. QED
      BY <3>1, <3>2 DEF Account
  <2>5. counted' \in Int
    BY <1>2, <2>1
  <2>6. QED
    BY <1>1, <1>2, <1>4, <2>3, <2>4, <2>5 DEF ServingInv, Typed
<1>7. QED
  BY <1>5, <1>6

LEMMA FrameFailsKeepsInv ==
  ASSUME ServingInv, NEW t \in Threads, NEW n \in Nat, FrameFails(t, n) PROVE ServingInv'
<1> DEFINE c == Top(t)
           k == steps[c.sid]
<1>1. /\ Holds(t) /\ c.turn = "service" /\ Pop(t)
      /\ steps' = [steps EXCEPT ![c.sid] = k + n]
      /\ performed' = performed + n /\ UNCHANGED counted
      /\ unfinished' = unfinished + (k + n - c.before)
  BY DEF FrameFails
<1>2. /\ c \in Call /\ c.sid \in Sids /\ c.before \in Nat /\ k \in Nat
      /\ steps \in [Sids -> Nat] /\ counted \in Int /\ performed \in Nat /\ unfinished \in Int
  BY <1>1, TopIsCall DEF ServingInv, Typed
<1>3. counted + unfinished + (k - c.before) = performed
  BY <1>1 DEF ServingInv, Account, Busy
<1>4. steps' \in [Sids -> Nat] /\ performed' \in Nat /\ unfinished' \in Int
  BY <1>1, <1>2
<1>5. /\ calls' \in [Threads -> Seq(Call)] /\ OneHolder' /\ Suspended'
      /\ \A u \in Threads : ~Busy(u)'
  BY <1>1, PopKeepsStack
<1>6. counted' + unfinished' = performed'
  BY <1>1, <1>2, <1>3
<1>7. QED
  BY <1>1, <1>2, <1>4, <1>5, <1>6 DEF ServingInv, Typed, Account

LEMMA PredictReturnsKeepsInv ==
  ASSUME ServingInv, NEW t \in Threads, PredictReturns(t) PROVE ServingInv'
<1> DEFINE c == Top(t)
           k == steps[c.sid]
<1>1. /\ Holds(t) /\ c.op = "predict" /\ Pop(t)
      /\ UNCHANGED <<steps, performed, unfinished>>
      /\ counted' = counted + (k - c.before)
  BY DEF PredictReturns
<1>2. /\ c \in Call /\ c.sid \in Sids /\ c.before \in Nat /\ k \in Nat
      /\ counted \in Int /\ performed \in Nat /\ unfinished \in Int
  BY <1>1, TopIsCall DEF ServingInv, Typed
<1>3. c.turn = "service"
  <2>1. Len(calls[t]) \in 1..Len(calls[t])
    BY <1>1, TopIsCall DEF ServingInv, Typed
  <2>2. QED
    BY <1>1, <2>1 DEF ServingInv, Suspended, Top
<1>4. counted + unfinished + (k - c.before) = performed
  BY <1>1, <1>3 DEF ServingInv, Account, Busy
<1>5. /\ calls' \in [Threads -> Seq(Call)] /\ OneHolder' /\ Suspended'
      /\ \A u \in Threads : ~Busy(u)'
  BY <1>1, PopKeepsStack
<1>6. counted' + unfinished' = performed' /\ counted' \in Int
  BY <1>1, <1>2, <1>4
<1>7. QED
  BY <1>1, <1>5, <1>6 DEF ServingInv, Typed, Account

LEMMA StreamEndsKeepsInv == ASSUME ServingInv, NEW t \in Threads, StreamEnds(t) PROVE ServingInv'
<1>1. /\ Holds(t) /\ Top(t).turn = "caller" /\ Pop(t)
      /\ UNCHANGED <<steps, counted, performed, unfinished>>
  BY DEF StreamEnds
<1>2. \A u \in Threads : ~Busy(u)
  BY <1>1 DEF ServingInv, OneHolder, Busy
<1>3. /\ calls' \in [Threads -> Seq(Call)] /\ OneHolder' /\ Suspended'
      /\ \A u \in Threads : ~Busy(u)'
  BY <1>1, PopKeepsStack
<1>4. counted + unfinished = performed
  BY <1>2 DEF ServingInv, Account
<1>5. QED
  BY <1>1, <1>3, <1>4 DEF ServingInv, Typed, Account

LEMMA ServingInvNext == ServingInv /\ [ServingNext]_servingVars => ServingInv'
<1> SUFFICES ASSUME ServingInv, [ServingNext]_servingVars PROVE ServingInv'
  OBVIOUS
<1>1. ASSUME NEW t \in Threads, NEW s \in Sids, NEW n \in 0..MaxFrames, Predict(t, s, n)
      PROVE  ServingInv'
  <2> DEFINE c == [op |-> "predict", sid |-> s, left |-> n,
                   before |-> steps[s], turn |-> "service"]
  <2>1. /\ MayCall(t) /\ Push(t, c) /\ UNCHANGED <<steps, counted, performed, unfinished>>
    BY <1>1 DEF Predict
  <2>2. c \in Call /\ c.turn = "service" /\ c.before = steps[c.sid]
    BY DEF Call, ServingInv, Typed
  <2>3. QED
    BY <2>1, <2>2, PushKeepsInv
<1>2. ASSUME NEW t \in Threads, NEW s \in Sids, NEW n \in 0..MaxFrames, Stream(t, s, n)
      PROVE  ServingInv'
  <2> DEFINE c == [op |-> "stream", sid |-> s, left |-> n,
                   before |-> steps[s], turn |-> "caller"]
  <2>1. /\ MayCall(t) /\ Push(t, c) /\ UNCHANGED <<steps, counted, performed, unfinished>>
    BY <1>2 DEF Stream
  <2>2. c \in Call /\ c.op # "predict" /\ c.before = steps[c.sid]
    BY DEF Call, ServingInv, Typed
  <2>3. QED
    BY <2>1, <2>2, PushKeepsInv
<1>3. ASSUME NEW t \in Threads, NEW s \in Sids, Reset(t, s) PROVE ServingInv'
  BY <1>3, ResetKeepsInv
<1>4. ASSUME NEW t \in Threads, NEW n \in 1..MaxSteps, Frame(t, n) PROVE ServingInv'
  <2>1. n \in Nat
    BY ServingAssumption
  <2>2. QED
    BY <1>4, <2>1, FrameKeepsInv
<1>5. ASSUME NEW t \in Threads, NEW n \in 0..MaxSteps, FrameFails(t, n) PROVE ServingInv'
  <2>1. n \in Nat
    BY ServingAssumption
  <2>2. QED
    BY <1>5, <2>1, FrameFailsKeepsInv
<1>6. ASSUME NEW t \in Threads, NextFrame(t) \/ PredictReturns(t) \/ StreamEnds(t)
      PROVE  ServingInv'
  BY <1>6, NextFrameKeepsInv, PredictReturnsKeepsInv, StreamEndsKeepsInv
<1>7. ASSUME NEW t \in Threads, NEW i \in DOMAIN calls[t], Turns(t, i) PROVE ServingInv'
  BY <1>7, TurnsKeepsInv
<1>8. CASE UNCHANGED servingVars
  BY <1>8 DEF servingVars, ServingInv, Typed, OneHolder, Suspended, Account, Busy, Holds, Top
<1>9. QED
  BY <1>1, <1>2, <1>3, <1>4, <1>5, <1>6, <1>7, <1>8 DEF ServingNext

\* The invariant holds for every number of callers and calls.
LEMMA ServingInvHolds == ServingSpec => []ServingInv
  BY ServingInvInit, ServingInvNext, PTL DEF ServingSpec

\* ServingTypeOK: a session's count of steps never falls below zero, and the
\* stack of a thread is one of calls, however they nest and fail.
THEOREM ServingTypesHold == ServingSpec => []ServingTypeOK
<1> DEFINE Made == made \in 0..MaxCalls
<1>1. ServingInit => Made
  BY ServingAssumption DEF ServingInit
<1>2. Made /\ [ServingNext]_servingVars => Made'
  <2>1. ASSUME [ServingNext]_servingVars
        PROVE  made' = made \/ (made < MaxCalls /\ made' = made + 1)
    <3>1. ASSUME NEW t \in Threads, NEW s \in Sids, NEW n \in 0..MaxFrames,
                 Predict(t, s, n) \/ Stream(t, s, n)
          PROVE  made < MaxCalls /\ made' = made + 1
      BY <3>1 DEF Predict, Stream
    <3>2. ASSUME NEW t \in Threads, NEW s \in Sids, Reset(t, s)
          PROVE  made < MaxCalls /\ made' = made + 1
      BY <3>2 DEF Reset
    <3>3. ASSUME NEW t \in Threads,
                 \/ NextFrame(t) \/ PredictReturns(t) \/ StreamEnds(t)
                 \/ \E n \in 0..MaxSteps : Frame(t, n) \/ FrameFails(t, n)
                 \/ \E i \in DOMAIN calls[t] : Turns(t, i)
          PROVE  made' = made
      BY <3>3 DEF NextFrame, PredictReturns, StreamEnds, Frame, FrameFails, Turns
    <3>4. \A n \in 1..MaxSteps : n \in 0..MaxSteps
      BY ServingAssumption
    <3>5. CASE UNCHANGED servingVars
      BY <3>5 DEF servingVars
    <3>6. CASE ServingNext
      BY <3>1, <3>2, <3>3, <3>4, <3>6, Zenon DEF ServingNext
    <3>7. QED
      BY <2>1, <3>5, <3>6
  <2>2. QED
    BY <2>1, ServingAssumption
<1>3. ServingInv /\ Made => ServingTypeOK
  BY DEF ServingInv, Typed, ServingTypeOK
<1>4. QED
  BY <1>1, <1>2, <1>3, ServingInvHolds, PTL DEF ServingSpec
-----------------------------------------------------------------------------
\* The counter serve.steps misses, of the steps that sessions made, only those
\* of the call in progress and of calls that failed on a frame, through resets,
\* nested calls and abandoned streams.
THEOREM CountHolds == ServingSpec => []StepsAreCounted
<1>1. ServingInv => StepsAreCounted
  BY DEF ServingInv, Account, StepsAreCounted
<1>2. QED
  BY <1>1, ServingInvHolds, PTL
-----------------------------------------------------------------------------
(* The pipeline graph.                                                       *)

(***************************************************************************)
(* The inductive invariant: the three sets and counts that the loop keeps  *)
(* are what the nodes taken so far make of the document.                   *)
(***************************************************************************)
Taken == {ordered[i] : i \in DOMAIN ordered}

GraphTyped ==
  /\ nodes \in Seq(Names) /\ edges \in Seq(PipeEdge)
  /\ phase \in {"validate", "sort", "run", "cyclic", "refused"}
  /\ ordered \in Seq(NodeIds)

Bookkeeping ==
  IF phase \in {"validate", "refused"}
  THEN ordered = <<>> /\ ready = {} /\ remaining = {}
  ELSE /\ Valid
       /\ remaining = {k \in DOMAIN edges : edges[k].source \notin Taken}
       /\ degree = [m \in NodeIds |-> Cardinality(Into(m, remaining))]
       /\ ready = {m \in NodeIds \ Taken : Into(m, remaining) = {}}

Closes ==
  /\ phase = "cyclic" => ready = {} /\ Len(ordered) # Len(nodes)
  /\ phase = "run" => Len(ordered) = Len(nodes)

GraphInv == GraphTyped /\ Bookkeeping /\ OrderIsTopological /\ Closes
-----------------------------------------------------------------------------
\* A list of bounded length is a sequence.
LEMMA ListsAreSequences ==
  ASSUME NEW S, NEW n \in Nat, NEW s \in Lists(S, n)
  PROVE  s \in Seq(S)
  BY DEF Lists

\* The edges of a document, and with them any set of them, are finitely many.
LEMMA EdgesAreFinite ==
  ASSUME edges \in Seq(PipeEdge), NEW E \in SUBSET (DOMAIN edges)
  PROVE  IsFiniteSet(E) /\ Cardinality(E) \in Nat
<1>1. DOMAIN edges = 1..Len(edges) /\ Len(edges) \in Nat
  OBVIOUS
<1>2. IsFiniteSet(DOMAIN edges)
  BY <1>1, FS_Interval, 1 \in Int, Len(edges) \in Int
<1>3. IsFiniteSet(E)
  BY <1>2, FS_Subset
<1>4. QED
  BY <1>3, FS_CardinalityType

\* A list without duplicates has as many members as entries.
LEMMA MembersCounted ==
  ASSUME NEW S, NEW s \in Seq(S),
         \A i, j \in DOMAIN s : s[i] = s[j] => i = j
  PROVE  LET M == {s[i] : i \in DOMAIN s}
         IN  IsFiniteSet(M) /\ Cardinality(M) = Len(s)
<1> DEFINE M == {s[i] : i \in DOMAIN s}
<1>1. DOMAIN s = 1..Len(s) /\ Len(s) \in Nat
  OBVIOUS
<1>2. s \in Bijection(1..Len(s), M)
  BY <1>1 DEF Bijection, Injection, Surjection, IsInjective
<1>3. ExistsBijection(1..Len(s), M)
  BY <1>2 DEF ExistsBijection
<1>4. Cardinality(M) = Len(s)
  BY <1>1, <1>3, FS_CountingElements
<1>5. IsFiniteSet(M)
  BY <1>1, <1>3, FS_NatBijection
<1>6. QED
  BY <1>4, <1>5

\* Nodes that were taken have no edge left that leads into them.
LEMMA NothingLeftInto ==
  ASSUME GraphInv, phase = "sort", NEW m \in Taken
  PROVE  Into(m, remaining) = {}
<1>1. SUFFICES ASSUME NEW k \in remaining, edges[k].target = m PROVE FALSE
  BY DEF Into
<1>2. PICK j \in DOMAIN ordered : ordered[j] = m
  BY DEF Taken
<1>3. k \in DOMAIN edges /\ edges[k].source \notin Taken
  BY <1>1 DEF GraphInv, Bookkeeping
<1>4. PICK i \in 1..(j - 1) : ordered[i] = edges[k].source
  BY <1>1, <1>2, <1>3 DEF GraphInv, OrderIsTopological
<1>5. i \in DOMAIN ordered
  BY <1>2, <1>4 DEF GraphInv, GraphTyped
<1>6. QED
  BY <1>3, <1>4, <1>5 DEF Taken

\* What the loop keeps depends on the document only through its edges and nodes.
LEMMA BookkeepingNext ==
  ASSUME edges' = edges, nodes' = nodes, NodeIds' = NodeIds, Valid,
         phase' \notin {"validate", "refused"},
         remaining' = {k \in DOMAIN edges : edges[k].source \notin Taken'},
         degree' = [m \in NodeIds |-> Cardinality(Into(m, remaining'))],
         ready' = {m \in NodeIds \ Taken' : Into(m, remaining') = {}}
  PROVE  Bookkeeping'
<1>1. Valid'
  BY DEF Valid
<1>2. \A m : Into(m, remaining)' = Into(m, remaining')
  BY DEF Into
<1>3. (remaining = {k \in DOMAIN edges : edges[k].source \notin Taken})'
  OBVIOUS
<1>4. [m \in NodeIds |-> Cardinality(Into(m, remaining))]'
        = [m \in NodeIds |-> Cardinality(Into(m, remaining'))]
  BY <1>2
<1>5. {m \in NodeIds \ Taken : Into(m, remaining) = {}}'
        = {m \in NodeIds \ Taken' : Into(m, remaining') = {}}
  BY <1>2
<1>6. QED
  BY <1>1, <1>3, <1>4, <1>5 DEF Bookkeeping
-----------------------------------------------------------------------------
LEMMA GraphInvInit == GraphInit => GraphInv
<1> SUFFICES ASSUME GraphInit PROVE GraphInv
  OBVIOUS
<1>1. nodes \in Seq(Names) /\ edges \in Seq(PipeEdge)
  BY GraphAssumption, ListsAreSequences DEF GraphInit
<1>2. GraphTyped
  BY <1>1 DEF GraphTyped, GraphInit
<1>3. Bookkeeping /\ OrderIsTopological /\ Closes
  BY DEF Bookkeeping, OrderIsTopological, Closes, GraphInit
<1>4. QED
  BY <1>2, <1>3 DEF GraphInv

\* The loop is entered with all edges left and the nodes without one ready.
LEMMA ValidateKeepsInv == ASSUME GraphInv, Validate PROVE GraphInv'
<1> USE DEF Validate
<1>1. ordered = <<>>
  BY DEF GraphInv, Bookkeeping
<1>2. GraphTyped'
  BY DEF GraphInv, GraphTyped, NodeIds
<1>3. Taken' = {}
  BY <1>1 DEF Taken
<1>4. remaining' = DOMAIN edges
  OBVIOUS
<1>5. degree' = [m \in NodeIds |-> Cardinality(Into(m, DOMAIN edges))]
  BY DEF InDegrees
<1>6. \A m \in NodeIds : Cardinality(Into(m, DOMAIN edges)) = 0 <=> Into(m, DOMAIN edges) = {}
  <2>1. \A m \in NodeIds : IsFiniteSet(Into(m, DOMAIN edges))
    BY EdgesAreFinite DEF GraphInv, GraphTyped, Into
  <2>2. QED
    BY <2>1, FS_EmptySet
<1>7. ready' = {m \in NodeIds : Into(m, DOMAIN edges) = {}}
  BY <1>6 DEF InDegrees
<1>8. Bookkeeping'
  <2>1. remaining' = {k \in DOMAIN edges : edges[k].source \notin Taken'}
    BY <1>3, <1>4
  <2>2. ready' = {m \in NodeIds \ Taken' : Into(m, remaining') = {}}
    BY <1>3, <1>4, <1>7
  <2>3. NodeIds' = NodeIds
    BY DEF NodeIds
  <2>4. QED
    BY <1>4, <1>5, <2>1, <2>2, <2>3, BookkeepingNext
<1>9. OrderIsTopological' /\ Closes'
  BY <1>1 DEF OrderIsTopological, Closes
<1>10. QED
  BY <1>2, <1>8, <1>9 DEF GraphInv

\* Taking a node leaves the edges into the others, and readies those it frees.
LEMMA TakeKeepsInv == ASSUME GraphInv, NEW n \in Names, Take(n) PROVE GraphInv'
<1> USE DEF Take
<1>1. /\ n \in NodeIds \ Taken /\ Into(n, remaining) = {}
      /\ phase = "sort" /\ phase' = "sort" /\ UNCHANGED <<nodes, edges>>
  BY DEF GraphInv, Bookkeeping
<1>2. NodeIds' = NodeIds
  BY <1>1 DEF NodeIds
<1>3. ordered \in Seq(NodeIds) /\ ordered' = Append(ordered, n)
  BY DEF GraphInv, GraphTyped
<1>4. GraphTyped'
  BY <1>1, <1>2, <1>3 DEF GraphInv, GraphTyped
<1>5. /\ DOMAIN ordered' = 1..(Len(ordered) + 1) /\ ordered'[Len(ordered) + 1] = n
      /\ DOMAIN ordered = 1..Len(ordered) /\ Len(ordered) \in Nat
      /\ \A i \in DOMAIN ordered : i \in DOMAIN ordered' /\ ordered'[i] = ordered[i]
  BY <1>1, <1>3
<1>6. Taken' = Taken \cup {n}
  BY <1>5 DEF Taken
<1>7. remaining' = {k \in DOMAIN edges : edges[k].source \notin Taken'}
  BY <1>1, <1>6 DEF GraphInv, Bookkeeping, Outgoing
<1>8. /\ \A m \in NodeIds : Into(m, Outgoing(n)) \subseteq Into(m, remaining)
      /\ \A m \in NodeIds : Into(m, remaining') = Into(m, remaining) \ Into(m, Outgoing(n))
  BY DEF Outgoing, Into
<1>9. \A m \in NodeIds : Released(n)[m] = Cardinality(Into(m, remaining'))
  <2> SUFFICES ASSUME NEW m \in NodeIds
               PROVE  Released(n)[m] = Cardinality(Into(m, remaining'))
    OBVIOUS
  <2>1. remaining \subseteq DOMAIN edges
    BY <1>1 DEF GraphInv, Bookkeeping
  <2>2. IsFiniteSet(Into(m, remaining)) /\ Cardinality(Into(m, remaining)) \in Nat
    BY <2>1, EdgesAreFinite DEF GraphInv, GraphTyped, Into
  <2>3. Into(m, remaining) \cap Into(m, Outgoing(n)) = Into(m, Outgoing(n))
    BY <1>8
  <2> DEFINE S == Into(m, remaining)
             T == Into(m, Outgoing(n))
  <2>4. Cardinality(Into(m, remaining'))
          = Cardinality(Into(m, remaining)) - Cardinality(Into(m, Outgoing(n)))
    <3>1. IsFiniteSet(S) /\ S \cap T = T /\ Into(m, remaining') = S \ T
      BY <1>8, <2>2, <2>3
    <3> HIDE DEF S, T
    <3>2. Cardinality(S \ T) = Cardinality(S) - Cardinality(T)
      BY <3>1, FS_Difference
    <3>3. QED
      BY <3>1, <3>2 DEF S, T
  <2>5. degree[m] = Cardinality(Into(m, remaining))
    BY <1>1 DEF GraphInv, Bookkeeping
  <2>6. QED
    BY <2>4, <2>5 DEF Released
<1>10. degree' = [m \in NodeIds |-> Cardinality(Into(m, remaining'))]
  BY <1>9 DEF Released
<1>11. ready' = {m \in NodeIds \ Taken' : Into(m, remaining') = {}}
  <2>1. \A m \in NodeIds : Released(n)[m] = 0 <=> Into(m, remaining') = {}
    <3>1. \A m \in NodeIds : IsFiniteSet(Into(m, remaining'))
      <4>1. remaining' \subseteq DOMAIN edges
        BY <1>7
      <4>2. QED
        BY <4>1, EdgesAreFinite DEF GraphInv, GraphTyped, Into
    <3>2. QED
      BY <1>9, <3>1, FS_EmptySet
  <2>2. \A m \in Taken' : Into(m, remaining) = {}
    BY <1>1, <1>6, NothingLeftInto
  <2>3. ready = {m \in NodeIds \ Taken : Into(m, remaining) = {}}
    BY <1>1 DEF GraphInv, Bookkeeping
  <2>4. ASSUME NEW m \in ready'
        PROVE  m \in NodeIds \ Taken' /\ Into(m, remaining') = {}
    <3>1. CASE m \in ready \ {n}
      BY <1>6, <1>8, <2>3, <3>1
    <3>2. CASE m \in NodeIds /\ Into(m, Outgoing(n)) # {} /\ Released(n)[m] = 0
      BY <1>8, <2>1, <2>2, <3>2
    <3>3. QED
      BY <2>4, <3>1, <3>2
  <2>5. ASSUME NEW m \in NodeIds \ Taken', Into(m, remaining') = {}
        PROVE  m \in ready'
    <3>1. CASE Into(m, Outgoing(n)) = {}
      BY <1>6, <1>8, <2>3, <2>5, <3>1
    <3>2. CASE Into(m, Outgoing(n)) # {}
      BY <2>1, <2>5, <3>2
    <3>3. QED
      BY <3>1, <3>2
  <2>6. QED
    BY <2>4, <2>5
<1>12. Bookkeeping'
  <2>1. Valid /\ nodes' = nodes /\ edges' = edges /\ phase' \notin {"validate", "refused"}
    BY <1>1 DEF GraphInv, Bookkeeping
  <2>2. QED
    BY <1>2, <1>7, <1>10, <1>11, <2>1, BookkeepingNext
<1>13. OrderIsTopological'
  <2>1. \A i \in DOMAIN ordered : ordered[i] # n
    BY <1>1 DEF Taken
  <2>2. ASSUME NEW i \in DOMAIN ordered', NEW j \in DOMAIN ordered',
               ordered'[i] = ordered'[j]
        PROVE  i = j
    BY <1>5, <2>1, <2>2 DEF GraphInv, OrderIsTopological
  <2>3. ASSUME NEW k \in DOMAIN edges, NEW j \in DOMAIN ordered',
               edges[k].target = ordered'[j]
        PROVE  \E i \in 1..(j - 1) : ordered'[i] = edges[k].source
    <3>1. CASE j \in DOMAIN ordered
      BY <1>5, <2>3, <3>1 DEF GraphInv, OrderIsTopological
    <3>2. CASE j = Len(ordered) + 1
      <4>1. k \notin remaining
        BY <1>1, <1>5, <2>3, <3>2 DEF Into
      <4>2. edges[k].source \in Taken
        BY <1>1, <4>1 DEF GraphInv, Bookkeeping
      <4>3. QED
        BY <1>5, <3>2, <4>2 DEF Taken
    <3>3. QED
      BY <1>5, <3>1, <3>2
  <2>4. QED
    BY <1>1, <2>2, <2>3 DEF OrderIsTopological
<1>14. Closes'
  BY <1>1 DEF Closes
<1>15. QED
  BY <1>4, <1>12, <1>13, <1>14 DEF GraphInv

LEMMA GraphInvNext == GraphInv /\ [GraphNext]_graphVars => GraphInv'
<1> SUFFICES ASSUME GraphInv, [GraphNext]_graphVars PROVE GraphInv'
  OBVIOUS
<1>1. CASE Validate
  BY <1>1, ValidateKeepsInv
<1>2. CASE Refuse
  BY <1>2 DEF Refuse, GraphInv, GraphTyped, Bookkeeping, OrderIsTopological, Closes, NodeIds
<1>3. ASSUME NEW n \in Names, Take(n) PROVE GraphInv'
  BY <1>3, TakeKeepsInv
<1>4. CASE Sorted
  <2>1. phase = "sort" /\ UNCHANGED <<nodes, edges, degree, ready, remaining, ordered>>
    BY <1>4 DEF Sorted
  <2>2. phase' \in {"run", "cyclic"} /\ Closes'
    BY <1>4 DEF Sorted, Closes
  <2>3. NodeIds' = NodeIds /\ Taken' = Taken
    BY <2>1 DEF NodeIds, Taken
  <2>4. Bookkeeping'
    BY <2>1, <2>2, <2>3, BookkeepingNext DEF GraphInv, Bookkeeping
  <2>5. GraphTyped' /\ OrderIsTopological'
    BY <2>1, <2>2, <2>3 DEF GraphInv, GraphTyped, OrderIsTopological
  <2>6. QED
    BY <2>2, <2>4, <2>5 DEF GraphInv
<1>5. CASE UNCHANGED graphVars
  <2>1. UNCHANGED <<nodes, edges, phase, degree, ready, remaining, ordered>>
    BY <1>5 DEF graphVars
  <2>2. NodeIds' = NodeIds /\ Taken' = Taken
    BY <2>1 DEF NodeIds, Taken
  <2>3. Bookkeeping'
    <3>1. CASE phase \in {"validate", "refused"}
      BY <2>1, <3>1 DEF GraphInv, Bookkeeping
    <3>2. CASE phase \notin {"validate", "refused"}
      BY <2>1, <2>2, <3>2, BookkeepingNext DEF GraphInv, Bookkeeping
    <3>3. QED
      BY <3>1, <3>2
  <2>4. GraphTyped' /\ OrderIsTopological' /\ Closes'
    BY <2>1, <2>2 DEF GraphInv, GraphTyped, OrderIsTopological, Closes
  <2>5. QED
    BY <2>3, <2>4 DEF GraphInv
<1>6. QED
  BY <1>1, <1>2, <1>3, <1>4, <1>5 DEF GraphNext

\* The invariant holds in every document's sort.
LEMMA GraphInvHolds == GraphSpec => []GraphInv
  BY GraphInvInit, GraphInvNext, PTL DEF GraphSpec
-----------------------------------------------------------------------------
\* The sort's state keeps its types: degrees are never negative.
THEOREM GraphTypesHold == GraphSpec => []GraphTypeOK
<1>1. GraphInv => GraphTypeOK
  <2> SUFFICES ASSUME GraphInv PROVE GraphTypeOK
    OBVIOUS
  <2>1. ready \subseteq NodeIds /\ remaining \subseteq DOMAIN edges
    BY DEF GraphInv, Bookkeeping
  <2>2. \A m : Into(m, remaining) \subseteq DOMAIN edges
    BY <2>1 DEF Into
  <2>3. \A m \in NodeIds : Cardinality(Into(m, remaining)) \in Nat
    BY <2>2, EdgesAreFinite DEF GraphInv, GraphTyped
  <2>4. phase \in {"sort", "run", "cyclic"} => degree \in [NodeIds -> Nat]
    BY <2>3 DEF GraphInv, Bookkeeping
  <2>5. QED
    BY <2>1, <2>4 DEF GraphTypeOK, GraphInv, GraphTyped
<1>2. QED
  BY <1>1, GraphInvHolds, PTL

\* Every node comes after the sources of all its edges and runs once, in every
\* document: what run_pipeline's _node_input reads has been computed.
THEOREM OrderHolds == GraphSpec => []OrderIsTopological
<1>1. GraphInv => OrderIsTopological
  BY DEF GraphInv
<1>2. QED
  BY <1>1, GraphInvHolds, PTL

\* A document is refused as cyclic only where it has a cycle, and a complete
\* order has all its nodes.
THEOREM CycleHolds == GraphSpec => []CycleIsReal
<1>1. GraphInv => CycleIsReal
  <2> SUFFICES ASSUME GraphInv PROVE CycleIsReal
    OBVIOUS
  <2> DEFINE M == {nodes[i] : i \in DOMAIN nodes}
  <2>1. IsFiniteSet(Taken) /\ Cardinality(Taken) = Len(ordered) /\ Taken \subseteq NodeIds
    <3>1. ordered \in Seq(NodeIds) /\ \A i, j \in DOMAIN ordered : ordered[i] = ordered[j] => i = j
      BY DEF GraphInv, GraphTyped, OrderIsTopological
    <3>2. QED
      BY <3>1, MembersCounted DEF Taken
  <2>2. Valid => IsFiniteSet(NodeIds) /\ Cardinality(NodeIds) = Len(nodes)
    <3> SUFFICES ASSUME Valid PROVE IsFiniteSet(NodeIds) /\ Cardinality(NodeIds) = Len(nodes)
      OBVIOUS
    <3>1. nodes \in Seq(Names) /\ \A i, j \in DOMAIN nodes : nodes[i] = nodes[j] => i = j
      BY DEF GraphInv, GraphTyped, Valid
    <3>2. QED
      BY <3>1, MembersCounted DEF NodeIds
  <2>3. ASSUME phase = "run" PROVE \A n \in NodeIds : \E i \in DOMAIN ordered : ordered[i] = n
    <3>1. Valid /\ Len(ordered) = Len(nodes)
      BY <2>3 DEF GraphInv, Bookkeeping, Closes
    <3>2. Taken = NodeIds
      BY <2>1, <2>2, <3>1, FS_Subset
    <3>3. QED
      BY <3>2 DEF Taken
  <2>4. ASSUME phase = "cyclic" PROVE \E S \in SUBSET NodeIds : Circular(S)
    <3> DEFINE Rest == NodeIds \ Taken
    <3>1. Valid /\ ready = {} /\ Len(ordered) # Len(nodes)
      BY <2>4 DEF GraphInv, Bookkeeping, Closes
    <3>2. Rest # {}
      <4>1. Rest = {} => Taken = NodeIds
        BY <2>1
      <4>2. QED
        BY <2>1, <2>2, <3>1, <4>1
    <3>3. ASSUME NEW n \in Rest
          PROVE  \E k \in DOMAIN edges : edges[k].target = n /\ edges[k].source \in Rest
      <4>1. Into(n, remaining) # {}
        BY <2>4, <3>1, <3>3 DEF GraphInv, Bookkeeping
      <4>2. PICK k \in remaining : edges[k].target = n
        BY <4>1 DEF Into
      <4>3. k \in DOMAIN edges /\ edges[k].source \notin Taken
        BY <2>4, <4>2 DEF GraphInv, Bookkeeping
      <4>4. QED
        BY <3>1, <4>2, <4>3 DEF Valid
    <3>4. Circular(Rest)
      BY <3>2, <3>3 DEF Circular
    <3>5. QED
      BY <3>4
  <2>5. QED
    BY <2>3, <2>4 DEF CycleIsReal
<1>2. QED
  BY <1>1, GraphInvHolds, PTL
=============================================================================
