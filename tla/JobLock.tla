------------------------------- MODULE JobLock -------------------------------
(***************************************************************************)
(* The lock and de-duplication window of one scheduled job (acquireJobLock, *)
(* releaseJobLock): one job_executions row, shared by every server          *)
(* instance, and two triggers in each: the boot-time goroutine (initial)    *)
(* and the scheduler's ticks (scheduled).                                   *)
(*                                                                         *)
(* Time is kept as ages that saturate where no comparison can tell them     *)
(* apart any more, so the model runs forever.  Acquire and release are      *)
(* single write transactions; the deduped outcome is written after the      *)
(* transaction that decided it.                                            *)
(***************************************************************************)
EXTENDS Naturals, FiniteSets

CONSTANTS
    Instances,     \* instance ids, hostname and pid
    Triggers,      \* initial and scheduled
    NoRow,         \* no job_executions row: the job has never run
    Nobody,        \* locked_by is empty
    Window,        \* minInterval = JobCatchupWindow(period), in ticks
    LockTimeout    \* ticks after which a lock is stale

ASSUME TimeAssumption == /\ Window \in Nat \ {0}
                         /\ LockTimeout \in Nat \ {0}

ASSUME NobodyAssumption == Nobody \notin Instances

VARIABLES
    job,      \* the row
    run,      \* the run each trigger of each instance is in
    success,  \* ticks since the last successful release, if there was one
    up        \* the instances that have not gone for good

vars == <<job, run, success, up>>

Outcomes == {"running", "ran", "deduped", "caught_up", "failed"}

Rows == [lastRun : 0 .. 2 * Window,          \* age of last_run_at
         locked : BOOLEAN,                   \* locked_at is not NULL
         lockAge : 0 .. LockTimeout,
         lockedBy : Instances \cup {Nobody},
         outcome : Outcomes]

ASSUME NoRowAssumption == NoRow \notin Rows

Runs == Instances \X Triggers

(* A trigger is idle, holds a decision to record "deduped", runs the job, or
   unwinds from a panic of the job.  A run is bare once the other trigger of its
   instance has released the lock under it: both use the instance's name. *)
Phases == {"idle", "suppressed", "running", "panicked"}

TypeOK == /\ job \in Rows \cup {NoRow}
          /\ run \in [Runs -> [phase : Phases, age : 0 .. LockTimeout, bare : BOOLEAN]]
          /\ success \in 0 .. Window
          /\ up \subseteq Instances

Running(r) == run[r].phase \in {"running", "panicked"}

Idle == [phase |-> "idle", age |-> 0, bare |-> FALSE]
Begun == [phase |-> "running", age |-> 0, bare |-> FALSE]

-----------------------------------------------------------------------------
Init == /\ job = NoRow
        /\ run = [r \in Runs |-> Idle]
        /\ success = Window
        /\ up = Instances

Older(age, cap) == IF age < cap THEN age + 1 ELSE age

(* A unit of time passes everywhere. *)
Tick == /\ job' = IF job = NoRow THEN NoRow
                  ELSE [job EXCEPT !.lastRun = Older(@, 2 * Window),
                                   !.lockAge = IF job.locked THEN Older(@, LockTimeout) ELSE @]
        /\ run' = [r \in Runs |->
                     IF Running(r)
                     THEN [run[r] EXCEPT !.age = Older(@, LockTimeout)] ELSE run[r]]
        /\ success' = Older(success, Window)
        /\ UNCHANGED up

(* Mutant: a retry is let in one tick early. *)
RanRecentlyLoose == job.lastRun + 1 < Window

RanRecently == job.lastRun < Window

(* Mutant: the lock of another instance is taken whatever its age. *)
NeverHeld(i) == FALSE

(* Mutant: the lock of a dead instance never goes stale. *)
HeldForever(i) == job.locked /\ job.lockedBy # i

(* "Another instance holding a fresh lock wins." *)
HeldByOther(i) == job.locked /\ job.lockAge < LockTimeout /\ job.lockedBy # i

Locked(i, lastRun, outcome) ==
    [lastRun |-> lastRun, locked |-> TRUE, lockAge |-> 0, lockedBy |-> i, outcome |-> outcome]

Begin(r) == run' = [run EXCEPT ![r] = Begun]

(* acquireJobLock, no row: it is created with LastRunAt = now. *)
AcquireFirst(i, t) ==
    /\ i \in up /\ run[<<i, t>>].phase = "idle"
    /\ job = NoRow
    /\ job' = Locked(i, 0, "running")
    /\ Begin(<<i, t>>)
    /\ UNCHANGED <<success, up>>

(* acquireJobLock, row idle for the window and not held by another. *)
Acquire(i, t) ==
    /\ i \in up /\ run[<<i, t>>].phase = "idle"
    /\ job # NoRow
    /\ ~RanRecently
    /\ ~HeldByOther(i)
    /\ job' = Locked(i, job.lastRun,
                     IF job.lastRun >= 2 * Window THEN "caught_up" ELSE "running")
    /\ Begin(<<i, t>>)
    /\ UNCHANGED <<success, up>>

(* acquireJobLock, inside the window: the transaction rolls back. *)
Suppress(i, t) ==
    /\ i \in up /\ run[<<i, t>>].phase = "idle"
    /\ job # NoRow
    /\ RanRecently
    /\ run' = [run EXCEPT ![<<i, t>>].phase = "suppressed"]
    /\ UNCHANGED <<job, success, up>>

(* Update("last_outcome", deduped), outside that transaction. *)
RecordDeduped(i, t) ==
    /\ run[<<i, t>>].phase = "suppressed"
    /\ job' = [job EXCEPT !.outcome = "deduped"]
    /\ run' = [run EXCEPT ![<<i, t>>] = Idle]
    /\ UNCHANGED <<success, up>>

StillHolds(i) == job.lockedBy = i

Released(ok) ==
    [job EXCEPT !.locked = FALSE, !.lockAge = 0, !.lockedBy = Nobody,
                !.lastRun = IF ok THEN 0 ELSE @,
                !.outcome = IF ~ok THEN "failed" ELSE IF @ = "running" THEN "ran" ELSE @]

(* The job panics. *)
Panic(i, t) == /\ run[<<i, t>>].phase = "running"
               /\ run' = [run EXCEPT ![<<i, t>>].phase = "panicked"]
               /\ UNCHANGED <<job, success, up>>

(* releaseJobLock; nothing is recorded when the lock was taken over.  The
   deferred release of a panicking job finds its named result err still nil. *)
Release(i, t, ok) ==
    /\ Running(<<i, t>>)
    /\ run[<<i, t>>].phase = "panicked" => ok
    /\ run' = [r \in Runs |->
                 IF r = <<i, t>> THEN Idle
                 ELSE IF r[1] = i /\ Running(r) /\ StillHolds(i)
                      THEN [run[r] EXCEPT !.bare = TRUE] ELSE run[r]]
    /\ IF StillHolds(i)
       THEN /\ job' = Released(ok)
            /\ success' = IF ok THEN 0 ELSE success
       ELSE UNCHANGED <<job, success>>
    /\ UNCHANGED up

(* The run ends without its release: the transaction fails, which is logged,
   or the reminder job, whose release is not deferred, panics. *)
Abandon(i, t) ==
    /\ Running(<<i, t>>)
    /\ run' = [run EXCEPT ![<<i, t>>] = Idle]
    /\ UNCHANGED <<job, success, up>>

(* A server process dies.  It comes back under the same id (in a container both
   the hostname and the pid survive a restart), or never: the next deployment
   has another id.  Some instance is always left. *)
Crash(i) ==
    /\ i \in up
    /\ up' \in {up, up \ {i}} \ {{}}
    /\ run' = [r \in Runs |-> IF r[1] = i THEN Idle ELSE run[r]]
    /\ run' # run \/ up' # up
    /\ UNCHANGED <<job, success>>

Next == \/ Tick
        \/ \E i \in Instances :
             \/ Crash(i)
             \/ \E t \in Triggers :
                  \/ AcquireFirst(i, t) \/ Acquire(i, t)
                  \/ Suppress(i, t) \/ RecordDeduped(i, t)
                  \/ Panic(i, t) \/ Abandon(i, t)
                  \/ \E ok \in BOOLEAN : Release(i, t, ok)

Spec == Init /\ [][Next]_vars

(* Time passes, the process of a live instance gets on with what it has begun,
   and an instance that again and again could start the job, because it stays
   up, does: its scheduler keeps ticking. *)
Fairness == /\ WF_vars(Tick)
            /\ \A i \in Instances, t \in Triggers :
                 WF_vars(RecordDeduped(i, t) \/ Abandon(i, t)
                           \/ \E ok \in BOOLEAN : Release(i, t, ok))
            /\ \A i \in Instances :
                 SF_vars(\E t \in Triggers : AcquireFirst(i, t) \/ Acquire(i, t))

FairSpec == Spec /\ Fairness

-----------------------------------------------------------------------------
(* Two instances run the job at once only if one of them has been at it for as
   long as a lock may be held, or is bare: an instance is not excluded by its
   own lock, and the release of one of its runs clears the lock under the other. *)
InstancesExclude ==
    \A r, s \in Runs : Running(r) /\ Running(s) /\ r[1] # s[1]
        => \E q \in {r, s} : run[q].age = LockTimeout \/ run[q].bare

Starts == \E r \in Runs : ~Running(r) /\ Running(r)'

(* No run starts within the window of a success that was recorded, whatever
   instances crashed, took over or released late in between. *)
WindowRespected == [][Starts => success >= Window]_vars

(* A fresh lock is never pulled from under the instance that holds it: only a
   run of that instance gives it up. *)
LockNotStolen ==
    [][job # NoRow /\ job.locked /\ job.lockAge < LockTimeout /\ job'.lockedBy # job.lockedBy
         => \E t \in Triggers : /\ Running(<<job.lockedBy, t>>)
                                /\ run'[<<job.lockedBy, t>>].phase = "idle"]_vars

(* The job is started again and again, although an instance may die, even for
   good, while it holds the lock. *)
JobKeepsStarting == []<><<Starts>>_vars

-----------------------------------------------------------------------------
(* A claim of the documentation that the code does not keep; no run names it. *)

(* PurgeDeletedRows and its siblings: a failed run leaves last_run_at untouched,
   so that a job that keeps failing is detected. *)
PanicIsNotSuccess ==
    [][\A r \in Runs : run[r].phase = "panicked" /\ run'[r].phase = "idle"
          => success' >= success]_vars
=============================================================================
