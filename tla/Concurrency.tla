---------------------------- MODULE Concurrency ----------------------------
(***************************************************************************)
(* server/concurrency.py: one counter of job slots, shared by every        *)
(* session of the process and guarded by a threading.Lock.  Each operation *)
(* runs under the lock, so each is one step.                               *)
(***************************************************************************)
EXTENDS Integers

CONSTANT
  EnvCap    \* SPIKEFORGE_DASHBOARD_MAX_CONCURRENT_JOBS as an integer; 0 stands
            \* for a variable that is unset, empty or not a number: those take
            \* the same path as a value that is not positive

ASSUME EnvCapAssumption == EnvCap \in Int

VARIABLE
  active    \* _active: the number of slots claimed

DefaultMaxConcurrentJobs == 2

MaxConcurrentJobs == IF EnvCap > 0 THEN EnvCap ELSE DefaultMaxConcurrentJobs

\* Mutant: the comparison is off by one.
SlotFreeAtCap == active <= MaxConcurrentJobs

\* try_acquire() answers True; when ~SlotFree it answers False and changes
\* nothing.
SlotFree == active < MaxConcurrentJobs

TryAcquire == SlotFree /\ active' = active + 1

Release == active' = IF active > 0 THEN active - 1 ELSE 0
=============================================================================
