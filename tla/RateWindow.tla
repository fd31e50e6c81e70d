----------------------------- MODULE RateWindow -----------------------------
(* The limits on a client's messages (server/session.py, Session.offer): a      *)
(* bounded inbox, which the dispatcher empties, and a sliding window over the   *)
(* arrival times of the messages that were queued.  Time is counted in ticks    *)
(* of the monotonic clock.                                                      *)
EXTENDS Naturals, Sequences, FiniteSets

CONSTANTS
    RateBurst,      \* RATE_BURST
    RateWindowSeconds,  \* RATE_WINDOW_SECONDS, in ticks
    InboxMaxsize,   \* INBOX_MAXSIZE
    MaxClock        \* the end of the run

ASSUME RateAssumption ==
    /\ RateBurst \in Nat \ {0} /\ InboxMaxsize \in Nat \ {0}
    /\ RateWindowSeconds \in Nat /\ MaxClock \in Nat

VARIABLES
    clock,
    arrivals,     \* the deque of arrival times
    inbox,        \* how many messages wait for the dispatcher
    taken         \* the arrival times of all messages ever queued

rateVars == <<clock, arrivals, inbox, taken>>

RateInit == clock = 0 /\ arrivals = <<>> /\ inbox = 0 /\ taken = <<>>

\* Mutant: an arrival that is just as old as the window no longer counts.
ExpiredAtWindow == {i \in DOMAIN arrivals : clock - arrivals[i] >= RateWindowSeconds}

\* The arrivals that have left the window; they are the oldest ones.
Expired == {i \in DOMAIN arrivals : clock - arrivals[i] > RateWindowSeconds}

InWindow == SubSeq(arrivals, Cardinality(Expired) + 1, Len(arrivals))

\* "limited": the window has had its burst.
Limited ==
    /\ Len(InWindow) >= RateBurst
    /\ arrivals' = InWindow
    /\ UNCHANGED <<clock, inbox, taken>>

\* "full": the message does not count.
Full ==
    /\ Len(InWindow) < RateBurst /\ inbox = InboxMaxsize
    /\ arrivals' = InWindow
    /\ UNCHANGED <<clock, inbox, taken>>

\* Mutant: the inbox takes messages beyond its size.
QueuedAnyway ==
    /\ Len(InWindow) < RateBurst
    /\ inbox' = inbox + 1
    /\ arrivals' = Append(InWindow, clock)
    /\ taken' = Append(taken, clock)
    /\ UNCHANGED clock

Queued ==
    /\ Len(InWindow) < RateBurst /\ inbox < InboxMaxsize
    /\ inbox' = inbox + 1
    /\ arrivals' = Append(InWindow, clock)
    /\ taken' = Append(taken, clock)
    /\ UNCHANGED clock

\* inbox.get() in _dispatch_inbox().
Dispatched ==
    /\ inbox > 0 /\ inbox' = inbox - 1
    /\ UNCHANGED <<clock, arrivals, taken>>

Tick ==
    /\ clock < MaxClock /\ clock' = clock + 1
    /\ UNCHANGED <<arrivals, inbox, taken>>

RateNext == Limited \/ Full \/ Queued \/ Dispatched \/ Tick

RateSpec == RateInit /\ [][RateNext]_rateVars

-----------------------------------------------------------------------------
RateTypeOK ==
    /\ clock \in Nat /\ inbox \in 0..InboxMaxsize
    /\ arrivals \in Seq(0..clock) /\ taken \in Seq(0..clock)

\* However messages, refusals and the dispatcher interleave, no RateBurst + 1
\* messages that were queued arrived within one window, both ends included.
BurstBound ==
    \A i, j \in DOMAIN taken :
        j - i >= RateBurst => taken[j] - taken[i] > RateWindowSeconds
=============================================================================
