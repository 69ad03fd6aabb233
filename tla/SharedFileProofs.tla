--------------------------- MODULE SharedFileProofs ---------------------------
(***************************************************************************)
(* Proofs about JobLock and Migrations: what server instances that share   *)
(* one database file may rely on.                                          *)
(*                                                                         *)
(* JobLock, for any number of instances and triggers and any window and    *)
(* lock timeout.  WindowRespected is a matter of Lag: within the window,    *)
(* the row knows of the last success.  It is inductive because only a       *)
(* release that records a success makes the last success younger, and       *)
(* writes last_run_at in the same transaction.  LockNotStolen follows from  *)
(* the guards alone.  InstancesExclude rests on Owned: a run that is        *)
(* neither bare nor as old as a lock may get has its instance's lock, no    *)
(* older than itself.  A second instance gets past a lock only when it is   *)
(* stale, and the run that took it is then as old.                          *)
(*                                                                         *)
(* Migrations, for any number of processes, migrations and binaries.  What  *)
(* survives starts that cross is Complete: a clean file holds the           *)
(* migrations its version says.  A process that is alone finds the file     *)
(* where it left it (Undisturbed), so its snapshot is of the file it goes   *)
(* on to change; Fresh is why a snapshot that is used again holds the data  *)
(* of now unless its name is outdated.                                      *)
(***************************************************************************)
EXTENDS JobLock, Migrations, TLAPS


(* last_run_at is at least as young as a success that still counts. *)
Lag == success < Window => job # NoRow /\ job.lastRun <= success

(* A trigger that is doing something has found or made the row. *)
Made == \A r \in Runs : run[r].phase # "idle" => job # NoRow

IInv == TypeOK /\ Made /\ Lag

(* A run has the lock of its instance until it outlives it. *)
Exposed(r) == run[r].age = LockTimeout \/ run[r].bare

Owns(r) == job.locked /\ job.lockedBy = r[1] /\ job.lockAge <= run[r].age

Owned == \A r \in Runs : Running(r) /\ ~Exposed(r) => Owns(r)

-----------------------------------------------------------------------------
(* Ages stay within their bound. *)
LEMMA OlderIsBounded ==
    ASSUME NEW cap \in Nat, NEW age \in 0 .. cap
    PROVE  Older(age, cap) \in 0 .. cap
BY DEF Older

(* What each step writes to the row is a row. *)
LEMMA LockedIsRow ==
    ASSUME NEW i \in Instances, NEW age \in 0 .. 2 * Window, NEW outcome \in Outcomes
    PROVE  Locked(i, age, outcome) \in Rows
BY TimeAssumption DEF Locked, Rows

LEMMA AgedIsRow == ASSUME Tick, job \in Rows PROVE job' \in Rows
<1>1. /\ Older(job.lastRun, 2 * Window) \in 0 .. 2 * Window
      /\ Older(job.lockAge, LockTimeout) \in 0 .. LockTimeout
  BY TimeAssumption, OlderIsBounded DEF Rows
<1>2. job # NoRow
  BY NoRowAssumption
<1> QED
  BY <1>1, <1>2 DEF Tick, Rows

LEMMA DedupedIsRow == ASSUME job \in Rows PROVE [job EXCEPT !.outcome = "deduped"] \in Rows
BY DEF Rows, Outcomes

LEMMA ReleasedIsRow == ASSUME job \in Rows, NEW ok \in BOOLEAN PROVE Released(ok) \in Rows
<1>1. 0 \in 0 .. 2 * Window /\ 0 \in 0 .. LockTimeout
  BY TimeAssumption
<1>2. CASE ok
  BY <1>1, <1>2 DEF Released, Rows, Outcomes
<1>3. CASE ~ok
  BY <1>1, <1>3 DEF Released, Rows, Outcomes
<1> QED
  BY <1>2, <1>3

(* The row is never deleted. *)
LEMMA RowStays == TypeOK /\ job # NoRow /\ [Next]_vars => job' \in Rows
<1> SUFFICES ASSUME TypeOK, job # NoRow, [Next]_vars PROVE job' \in Rows
  OBVIOUS
<1>0. job \in Rows
  BY DEF TypeOK
<1>1. CASE Tick
  BY <1>0, <1>1, AgedIsRow
<1>2. ASSUME NEW i \in Instances, Crash(i) PROVE job' \in Rows
  BY <1>0, <1>2 DEF Crash
<1>3. ASSUME NEW i \in Instances, NEW t \in Triggers, AcquireFirst(i, t) PROVE job' \in Rows
  BY <1>3 DEF AcquireFirst
<1>4. ASSUME NEW i \in Instances, NEW t \in Triggers, Acquire(i, t) PROVE job' \in Rows
  <2>1. job.lastRun \in 0 .. 2 * Window
    BY <1>0 DEF Rows
  <2>2. \A o \in Outcomes : Locked(i, job.lastRun, o) \in Rows
    BY <2>1, LockedIsRow
  <2> QED
    BY <1>4, <2>2 DEF Acquire, Outcomes
<1>5. ASSUME NEW i \in Instances, NEW t \in Triggers,
             Suppress(i, t) \/ Panic(i, t) \/ Abandon(i, t)
      PROVE  job' \in Rows
  BY <1>0, <1>5 DEF Suppress, Panic, Abandon
<1>6. ASSUME NEW i \in Instances, NEW t \in Triggers, RecordDeduped(i, t) PROVE job' \in Rows
  BY <1>0, <1>6, DedupedIsRow DEF RecordDeduped
<1>7. ASSUME NEW i \in Instances, NEW t \in Triggers, NEW ok \in BOOLEAN, Release(i, t, ok)
      PROVE  job' \in Rows
  BY <1>0, <1>7, ReleasedIsRow DEF Release
<1>8. CASE UNCHANGED vars
  BY <1>0, <1>8 DEF vars
<1> QED
  BY <1>1, <1>2, <1>3, <1>4, <1>5, <1>6, <1>7, <1>8 DEF Next

-----------------------------------------------------------------------------
LEMMA InitImpliesIInv == Init => IInv
BY TimeAssumption DEF Init, IInv, TypeOK, Made, Lag, Idle, Phases

LEMMA TypeOKStep == TypeOK /\ Made /\ [Next]_vars => TypeOK'
<1> SUFFICES ASSUME TypeOK, Made, [Next]_vars PROVE TypeOK'
  OBVIOUS
<1> USE TimeAssumption DEF TypeOK
<1>1. CASE job # NoRow
  <2>1. job' \in Rows
    BY <1>1, RowStays
  <2>2. CASE Tick
    <3>1. \A r \in Runs : Older(run[r].age, LockTimeout) \in 0 .. LockTimeout
      BY OlderIsBounded
    <3>2. run' \in [Runs -> [phase : Phases, age : 0 .. LockTimeout, bare : BOOLEAN]]
      BY <2>2, <3>1 DEF Tick
    <3>3. success' \in 0 .. Window
      BY <2>2, OlderIsBounded DEF Tick
    <3> QED
      BY <2>1, <2>2, <3>2, <3>3 DEF Tick
  <2>3. ASSUME NEW i \in Instances, Crash(i) PROVE TypeOK'
    BY <2>3 DEF Crash, Idle, Phases
  <2>4. ASSUME NEW i \in Instances, NEW t \in Triggers,
               AcquireFirst(i, t) \/ Acquire(i, t) \/ Suppress(i, t) \/ RecordDeduped(i, t)
        PROVE  TypeOK'
    <3>1. run' \in [Runs -> [phase : Phases, age : 0 .. LockTimeout, bare : BOOLEAN]]
      <4>1. CASE Suppress(i, t)
        BY <4>1 DEF Suppress, Phases, Runs
      <4>2. CASE AcquireFirst(i, t) \/ Acquire(i, t)
        <5>1. run' = [run EXCEPT ![<<i, t>>] = Begun]
          BY <4>2 DEF AcquireFirst, Acquire, Begin
        <5>2. Begun \in [phase : Phases, age : 0 .. LockTimeout, bare : BOOLEAN]
          BY DEF Begun, Phases
        <5> QED
          BY <5>1, <5>2
      <4>3. CASE RecordDeduped(i, t)
        BY <4>3 DEF RecordDeduped, Idle, Phases, Runs
      <4> QED
        BY <2>4, <4>1, <4>2, <4>3
    <3>2. success' = success /\ up' = up
      BY <2>4 DEF AcquireFirst, Acquire, Suppress, RecordDeduped
    <3> QED
      BY <2>1, <3>1, <3>2
  <2>5. ASSUME NEW i \in Instances, NEW t \in Triggers, Panic(i, t) \/ Abandon(i, t)
        PROVE  TypeOK'
    <3>1. CASE Panic(i, t)
      BY <3>1 DEF Panic, Phases, Runs
    <3>2. CASE Abandon(i, t)
      BY <3>2 DEF Abandon, Idle, Phases, Runs
    <3> QED
      BY <2>5, <3>1, <3>2
  <2>6. ASSUME NEW i \in Instances, NEW t \in Triggers, NEW ok \in BOOLEAN, Release(i, t, ok)
        PROVE  TypeOK'
    <3>1. run' \in [Runs -> [phase : Phases, age : 0 .. LockTimeout, bare : BOOLEAN]]
      <4>1. Idle \in [phase : Phases, age : 0 .. LockTimeout, bare : BOOLEAN]
        BY DEF Idle, Phases
      <4>2. \A r \in Runs : [run[r] EXCEPT !.bare = TRUE]
                              \in [phase : Phases, age : 0 .. LockTimeout, bare : BOOLEAN]
        OBVIOUS
      <4> QED
        BY <2>6, <4>1, <4>2 DEF Release
    <3>2. success' \in 0 .. Window /\ up' \subseteq Instances
      BY <2>6 DEF Release
    <3> QED
      BY <2>1, <3>1, <3>2
  <2>7. CASE UNCHANGED vars
    BY <2>7 DEF vars
  <2> QED
    BY <2>2, <2>3, <2>4, <2>5, <2>6, <2>7 DEF Next
<1>2. CASE job = NoRow
  <2>1. CASE Tick
    BY <1>2, <2>1, OlderIsBounded DEF Tick, Made, Running
  <2>2. ASSUME NEW i \in Instances, Crash(i) PROVE TypeOK'
    BY <2>2 DEF Crash, Idle, Phases
  <2>3. ASSUME NEW i \in Instances, NEW t \in Triggers, AcquireFirst(i, t) PROVE TypeOK'
    <3>1. Locked(i, 0, "running") \in Rows
      BY LockedIsRow DEF Outcomes
    <3> QED
      BY <2>3, <3>1 DEF AcquireFirst, Begin, Begun, Phases, Runs
  <2>4. ASSUME NEW i \in Instances, NEW t \in Triggers PROVE ~Acquire(i, t) /\ ~Suppress(i, t)
    BY <1>2 DEF Acquire, Suppress
  <2>5. \A r \in Runs : run[r].phase = "idle"
    BY <1>2 DEF Made
  <2>6. ASSUME NEW i \in Instances, NEW t \in Triggers
        PROVE  /\ ~RecordDeduped(i, t) /\ ~Panic(i, t) /\ ~Abandon(i, t)
               /\ \A ok \in BOOLEAN : ~Release(i, t, ok)
    BY <2>5 DEF RecordDeduped, Panic, Abandon, Release, Running, Runs
  <2>7. CASE UNCHANGED vars
    BY <2>7 DEF vars
  <2> QED
    BY <2>1, <2>2, <2>3, <2>4, <2>6, <2>7 DEF Next
<1> QED
  BY <1>1, <1>2

(* Only the first acquisition begins anything while there is no row. *)
LEMMA MadeStep == TypeOK /\ Made /\ [Next]_vars => Made'
<1> SUFFICES ASSUME TypeOK, Made, [Next]_vars PROVE Made'
  OBVIOUS
<1>1. CASE job # NoRow
  BY <1>1, RowStays, NoRowAssumption DEF Made
<1>2. CASE job = NoRow
  <2> USE <1>2 DEF Made, TypeOK, Runs
  <2>1. \A r \in Runs : run[r].phase = "idle"
    OBVIOUS
  <2>2. CASE Tick
    BY <2>1, <2>2 DEF Tick, Running
  <2>3. ASSUME NEW i \in Instances, Crash(i) PROVE Made'
    BY <2>1, <2>3 DEF Crash, Idle
  <2>4. ASSUME NEW i \in Instances, NEW t \in Triggers, AcquireFirst(i, t) PROVE Made'
    <3>1. job' \in Rows
      BY <2>4, LockedIsRow, TimeAssumption DEF AcquireFirst, Outcomes
    <3> QED
      BY <3>1, NoRowAssumption
  <2>5. ASSUME NEW i \in Instances, NEW t \in Triggers PROVE ~Acquire(i, t) /\ ~Suppress(i, t)
    BY DEF Acquire, Suppress
  <2>6. ASSUME NEW i \in Instances, NEW t \in Triggers
        PROVE  /\ ~RecordDeduped(i, t) /\ ~Panic(i, t) /\ ~Abandon(i, t)
               /\ \A ok \in BOOLEAN : ~Release(i, t, ok)
    BY <2>1 DEF RecordDeduped, Panic, Abandon, Release, Running
  <2>7. CASE UNCHANGED vars
    BY <2>1, <2>7 DEF vars
  <2> QED
    BY <2>2, <2>3, <2>4, <2>5, <2>6, <2>7 DEF Next
<1> QED
  BY <1>1, <1>2

(* A release that records a success makes last_run_at as young as it. *)
LEMMA LagStep == TypeOK /\ Made /\ Lag /\ [Next]_vars => Lag'
<1> SUFFICES ASSUME TypeOK, Made, Lag, [Next]_vars PROVE Lag'
  OBVIOUS
<1> USE TimeAssumption, NoRowAssumption DEF TypeOK, Lag
<1>1. CASE Tick
  <2> SUFFICES ASSUME success' < Window PROVE job' # NoRow /\ job'.lastRun <= success'
    OBVIOUS
  <2>1. success < Window /\ success' = success + 1
    BY <1>1 DEF Tick, Older
  <2>2. job # NoRow /\ job.lastRun <= success /\ job \in Rows
    BY <2>1
  <2>3. job' \in Rows
    BY <1>1, <2>2, AgedIsRow
  <2>4. job'.lastRun = Older(job.lastRun, 2 * Window)
    BY <1>1, <2>2 DEF Tick, Rows
  <2>5. Older(job.lastRun, 2 * Window) <= job.lastRun + 1
    BY <2>2 DEF Older, Rows
  <2>6. job.lastRun \in Nat /\ job'.lastRun \in Nat
    BY <2>2, <2>3 DEF Rows
  <2> QED
    BY <2>1, <2>2, <2>3, <2>4, <2>5, <2>6
<1>2. ASSUME NEW i \in Instances, Crash(i) PROVE Lag'
  BY <1>2 DEF Crash
<1>3. ASSUME NEW i \in Instances, NEW t \in Triggers, AcquireFirst(i, t) PROVE Lag'
  BY <1>3 DEF AcquireFirst
<1>4. ASSUME NEW i \in Instances, NEW t \in Triggers, Acquire(i, t) PROVE Lag'
  <2>1. job' \in Rows /\ job' # NoRow
    BY <1>4, RowStays DEF Acquire
  <2>2. job'.lastRun = job.lastRun
    BY <1>4 DEF Acquire, Locked
  <2> QED
    BY <1>4, <2>1, <2>2 DEF Acquire
<1>5. ASSUME NEW i \in Instances, NEW t \in Triggers,
             Suppress(i, t) \/ Panic(i, t) \/ Abandon(i, t)
      PROVE  Lag'
  BY <1>5 DEF Suppress, Panic, Abandon
<1>6. ASSUME NEW i \in Instances, NEW t \in Triggers, RecordDeduped(i, t) PROVE Lag'
  <2>1. job \in Rows /\ job' \in Rows
    BY <1>6, RowStays DEF RecordDeduped, Made, Runs
  <2>2. job'.lastRun = job.lastRun
    BY <1>6, <2>1 DEF RecordDeduped, Rows
  <2> QED
    BY <1>6, <2>1, <2>2 DEF RecordDeduped
<1>7. ASSUME NEW i \in Instances, NEW t \in Triggers, NEW ok \in BOOLEAN, Release(i, t, ok)
      PROVE  Lag'
  <2>1. job \in Rows /\ job' \in Rows
    BY <1>7, RowStays DEF Release, Running, Made, Runs
  <2>2. CASE StillHolds(i)
    <3>1. job'.lastRun = IF ok THEN 0 ELSE job.lastRun
      BY <1>7, <2>1, <2>2 DEF Release, Released, Rows
    <3> QED
      BY <1>7, <2>1, <2>2, <3>1 DEF Release
  <2>3. CASE ~StillHolds(i)
    BY <1>7, <2>3 DEF Release
  <2> QED
    BY <2>2, <2>3
<1>8. CASE UNCHANGED vars
  BY <1>8 DEF vars
<1> QED
  BY <1>1, <1>2, <1>3, <1>4, <1>5, <1>6, <1>7, <1>8 DEF Next

-----------------------------------------------------------------------------
(* Whatever instances crash, take over or release late: the row is well formed,
   exists for every trigger at work, and knows of the last success. *)
THEOREM Invariance == Spec => []IInv
<1>1. IInv /\ [Next]_vars => IInv'
  BY TypeOKStep, MadeStep, LagStep DEF IInv
<1> QED
  BY <1>1, InitImpliesIInv, PTL DEF Spec

(* The row and the runs keep their types, ages their bounds. *)
THEOREM TypeCorrectness == Spec => []TypeOK
<1>1. IInv => TypeOK
  BY DEF IInv
<1> QED
  BY <1>1, Invariance, PTL

(* Every start but the first looks at last_run_at, which Lag bounds. *)
LEMMA StartStep == IInv /\ [Next]_vars /\ Starts => success >= Window
<1> SUFFICES ASSUME IInv, [Next]_vars, NEW q \in Runs, ~Running(q), Running(q)'
             PROVE  success >= Window
  BY DEF Starts
<1> USE TimeAssumption DEF IInv, TypeOK, Lag, Running, Runs
<1>1. CASE Tick
  BY <1>1 DEF Tick
<1>2. ASSUME NEW i \in Instances, Crash(i) PROVE FALSE
  BY <1>2 DEF Crash, Idle
<1>3. ASSUME NEW i \in Instances, NEW t \in Triggers, AcquireFirst(i, t)
      PROVE  success >= Window
  BY <1>3 DEF AcquireFirst
<1>4. ASSUME NEW i \in Instances, NEW t \in Triggers, Acquire(i, t) PROVE success >= Window
  <2>1. job \in Rows /\ ~(job.lastRun < Window)
    BY <1>4 DEF Acquire, RanRecently
  <2> QED
    BY <2>1 DEF Rows
<1>5. ASSUME NEW i \in Instances, NEW t \in Triggers,
             Suppress(i, t) \/ RecordDeduped(i, t) \/ Panic(i, t) \/ Abandon(i, t)
      PROVE  FALSE
  BY <1>5 DEF Suppress, RecordDeduped, Panic, Abandon, Idle
<1>6. ASSUME NEW i \in Instances, NEW t \in Triggers, NEW ok \in BOOLEAN, Release(i, t, ok)
      PROVE  FALSE
  BY <1>6 DEF Release, Idle
<1>7. CASE UNCHANGED vars
  BY <1>7 DEF vars
<1> QED
  BY <1>1, <1>2, <1>3, <1>4, <1>5, <1>6, <1>7 DEF Next

(* No run starts within the window of a recorded success: a restart, a takeover
   or a second instance never repeats a job that has just been done. *)
THEOREM NothingRunsTwiceInAWindow == Spec => WindowRespected
<1>1. IInv /\ [Next]_vars => [Starts => success >= Window]_vars
  BY StartStep
<1> QED
  BY <1>1, Invariance, PTL DEF Spec, WindowRespected

(* An acquisition refuses a fresh lock of another instance, and a release looks
   whose lock it is: only a run of the holder gives a fresh lock up. *)
LEMMA HolderStep ==
    ASSUME TypeOK, Made, [Next]_vars,
           job # NoRow, job.locked, job.lockAge < LockTimeout,
           job'.lockedBy # job.lockedBy
    PROVE  \E t \in Triggers : /\ Running(<<job.lockedBy, t>>)
                               /\ run'[<<job.lockedBy, t>>].phase = "idle"
<1> DEFINE GivenUp == \E t \in Triggers : /\ Running(<<job.lockedBy, t>>)
                                         /\ run'[<<job.lockedBy, t>>].phase = "idle"
<1>0. job \in Rows
  BY DEF TypeOK
<1>1. CASE Tick
  BY <1>0, <1>1 DEF Tick, Rows
<1>2. ASSUME NEW i \in Instances, Crash(i) PROVE FALSE
  BY <1>2 DEF Crash
<1>3. ASSUME NEW i \in Instances, NEW t \in Triggers, AcquireFirst(i, t) PROVE FALSE
  BY <1>3 DEF AcquireFirst
<1>4. ASSUME NEW i \in Instances, NEW t \in Triggers, Acquire(i, t) PROVE FALSE
  <2>1. job.lockedBy = i
    BY <1>4 DEF Acquire, HeldByOther
  <2>2. job'.lockedBy = i
    BY <1>4 DEF Acquire, Locked
  <2> QED
    BY <2>1, <2>2
<1>5. ASSUME NEW i \in Instances, NEW t \in Triggers,
             Suppress(i, t) \/ Panic(i, t) \/ Abandon(i, t)
      PROVE  FALSE
  BY <1>5 DEF Suppress, Panic, Abandon
<1>6. ASSUME NEW i \in Instances, NEW t \in Triggers, RecordDeduped(i, t) PROVE FALSE
  BY <1>0, <1>6 DEF RecordDeduped, Rows
<1>7. ASSUME NEW i \in Instances, NEW t \in Triggers, NEW ok \in BOOLEAN, Release(i, t, ok)
      PROVE  GivenUp
  <2>1. job.lockedBy = i
    BY <1>7 DEF Release, StillHolds
  <2>2. Running(<<i, t>>) /\ run'[<<i, t>>].phase = "idle"
    BY <1>7 DEF Release, Idle, TypeOK, Runs
  <2> QED
    BY <2>1, <2>2
<1>8. CASE UNCHANGED vars
  BY <1>8 DEF vars
<1> QED
  BY <1>1, <1>2, <1>3, <1>4, <1>5, <1>6, <1>7, <1>8 DEF Next

(* No instance loses a lock before the timeout, whoever else starts, crashes or
   comes back from a run that outlived its own lock. *)
THEOREM FreshLocksAreKept == Spec => LockNotStolen
<1>1. IInv /\ [Next]_vars =>
        [job # NoRow /\ job.locked /\ job.lockAge < LockTimeout /\ job'.lockedBy # job.lockedBy
           => \E t \in Triggers : /\ Running(<<job.lockedBy, t>>)
                                  /\ run'[<<job.lockedBy, t>>].phase = "idle"]_vars
  BY HolderStep DEF IInv
<1> QED
  BY <1>1, Invariance, PTL DEF Spec, LockNotStolen

-----------------------------------------------------------------------------
(* Each step leaves a run that has its lock with it, or exposes the run. *)
LEMMA OwnedStep == IInv /\ Owned /\ [Next]_vars => Owned'
<1> SUFFICES ASSUME IInv, Owned, [Next]_vars,
                    NEW q \in Runs, Running(q)', ~Exposed(q)'
             PROVE  Owns(q)'
  BY DEF Owned
<1> USE TimeAssumption, NoRowAssumption, NobodyAssumption
    DEF IInv, TypeOK, Made, Running, Exposed, Runs
<1>0. job # NoRow => job \in Rows
  OBVIOUS
<1>1. CASE Tick
  <2>1. Running(q) /\ run[q].bare = run'[q].bare /\ run'[q].age = Older(run[q].age, LockTimeout)
    BY <1>1 DEF Tick
  <2>2. run[q].age < LockTimeout /\ run'[q].age = run[q].age + 1
    BY <2>1 DEF Older
  <2>3. Owns(q) /\ job # NoRow
    BY <2>1, <2>2 DEF Owned
  <2>4. /\ job'.locked = job.locked /\ job'.lockedBy = job.lockedBy
        /\ job'.lockAge = Older(job.lockAge, LockTimeout)
    BY <1>0, <1>1, <2>3 DEF Tick, Rows, Owns
  <2>5. job'.lockAge <= job.lockAge + 1 /\ job.lockAge \in Nat /\ job'.lockAge \in Nat
    BY <1>0, <2>3, <2>4 DEF Older, Rows
  <2> QED
    BY <2>2, <2>3, <2>4, <2>5 DEF Owns
<1>2. ASSUME NEW i \in Instances, Crash(i) PROVE Owns(q)'
  <2>1. run'[q] = run[q] /\ job' = job
    BY <1>2 DEF Crash, Idle
  <2> QED
    BY <2>1 DEF Owned, Owns
<1>3. ASSUME NEW i \in Instances, NEW t \in Triggers, AcquireFirst(i, t) PROVE Owns(q)'
  <2>1. q = <<i, t>>
    BY <1>3 DEF AcquireFirst, Begin
  <2> QED
    BY <1>3, <2>1 DEF AcquireFirst, Begin, Begun, Locked, Owns
<1>4. ASSUME NEW i \in Instances, NEW t \in Triggers, Acquire(i, t) PROVE Owns(q)'
  <2>1. job'.locked /\ job'.lockAge = 0 /\ job'.lockedBy = i
    BY <1>4 DEF Acquire, Locked
  <2>2. run'[q].age \in Nat
    BY <1>4 DEF Acquire, Begin, Begun
  <2>3. CASE q = <<i, t>>
    BY <2>1, <2>2, <2>3 DEF Owns
  <2>4. CASE q # <<i, t>>
    <3>1. run'[q] = run[q]
      BY <1>4, <2>4 DEF Acquire, Begin
    <3>2. Running(q) /\ ~Exposed(q) /\ run[q].age \in 0 .. LockTimeout
      BY <3>1
    <3>5. Owns(q) /\ run[q].age < LockTimeout
      BY <3>2 DEF Owned
    <3>3. job.lockAge < LockTimeout
      BY <1>0, <1>4, <3>5, <3>2 DEF Owns, Acquire, Rows
    <3>4. q[1] = i
      BY <1>4, <3>5, <3>3 DEF Owns, Acquire, HeldByOther
    <3> QED
      BY <2>1, <2>2, <3>4 DEF Owns
  <2> QED
    BY <2>3, <2>4
<1>5. ASSUME NEW i \in Instances, NEW t \in Triggers,
             Suppress(i, t) \/ Panic(i, t) \/ Abandon(i, t)
      PROVE  Owns(q)'
  <2>1. job' = job
    BY <1>5 DEF Suppress, Panic, Abandon
  <2>2. Running(q) /\ run'[q].age = run[q].age /\ run'[q].bare = run[q].bare
    <3>1. CASE Suppress(i, t)
      BY <3>1 DEF Suppress
    <3>2. CASE Panic(i, t)
      BY <3>2 DEF Panic
    <3>3. CASE Abandon(i, t)
      BY <3>3 DEF Abandon, Idle
    <3> QED
      BY <1>5, <3>1, <3>2, <3>3
  <2> QED
    BY <2>1, <2>2 DEF Owned, Owns
<1>6. ASSUME NEW i \in Instances, NEW t \in Triggers, RecordDeduped(i, t) PROVE Owns(q)'
  <2>1. Running(q) /\ run'[q] = run[q]
    BY <1>6 DEF RecordDeduped, Idle
  <2>2. Owns(q) /\ job # NoRow
    BY <2>1 DEF Owned
  <2>3. job'.locked = job.locked /\ job'.lockedBy = job.lockedBy /\ job'.lockAge = job.lockAge
    BY <1>0, <1>6, <2>2 DEF RecordDeduped, Rows
  <2> QED
    BY <2>1, <2>2, <2>3 DEF Owns
<1>7. ASSUME NEW i \in Instances, NEW t \in Triggers, NEW ok \in BOOLEAN, Release(i, t, ok)
      PROVE  Owns(q)'
  <2>1. q # <<i, t>>
    BY <1>7 DEF Release, Idle
  <2>2. run'[q] = run[q] /\ ~(q[1] = i /\ StillHolds(i))
    BY <1>7, <2>1 DEF Release
  <2>3. Owns(q)
    BY <2>2 DEF Owned
  <2>4. ~StillHolds(i)
    BY <2>2, <2>3 DEF Owns, StillHolds
  <2> QED
    BY <1>7, <2>2, <2>3, <2>4 DEF Release, Owns
<1>8. CASE UNCHANGED vars
  BY <1>8 DEF vars, Owned, Owns
<1> QED
  BY <1>1, <1>2, <1>3, <1>4, <1>5, <1>6, <1>7, <1>8 DEF Next

(* Two instances run the job at once only if one outlived the lock, or lost it
   to the other trigger of its own instance. *)
THEOREM ExclusionOfInstances == Spec => []InstancesExclude
<1>1. Init => Owned
  BY DEF Init, Owned, Running, Idle
<1>2. Owned => InstancesExclude
  BY DEF Owned, Owns, Exposed, InstancesExclude
<1> QED
  BY <1>1, <1>2, Invariance, OwnedStep, PTL DEF Spec

-----------------------------------------------------------------------------
(* What a process knows of its binary and its place fits the step it is at. *)
Bearings ==
    \A p \in Procs :
        /\ ~At(p, "off") => proc[p].binary \in Versions
        /\ proc[p].step \in {"backup", "copied"} => proc[p].from \in Versions
        /\ At(p, "copied") => proc[p].temp \in Files
        /\ proc[p].step \in {"up", "marked", "applied", "unmarked"} => proc[p].cur <= proc[p].binary
        /\ proc[p].step \in {"marked", "applied", "unmarked"} => proc[p].cur \in Versions
        /\ At(p, "unmarked") => proc[p].cur + 1 \in Versions /\ proc[p].was = 0

(* Two processes are not at work together unseen, and nothing is at work beside
   a rollback: the start of a server waits for it. *)
Alone == \A p \in Procs : ~At(p, "off") /\ ~overlap => \A q \in Procs \ {p} : At(q, "off")

RollsBackAlone ==
    \A p \in Procs :
        At(p, "unmarked") => /\ ~proc[p].serves /\ db.version = proc[p].cur
                             /\ \A q \in Procs \ {p} : At(q, "off")

(* A file at a clean version has the migrations up to it. *)
Holds(file) == ~file.dirty => 1 .. file.version \subseteq file.schema

Complete ==
    ~blind =>
        /\ Holds(db)
        /\ \A s \in snapshots : Holds(s.file)
        /\ \A p \in Procs :
              /\ At(p, "copied") => Holds(proc[p].temp)
              /\ proc[p].step \in {"up", "applied"} => 1 .. proc[p].cur \subseteq db.schema

(* A process alone on the file finds there what it has read and written, unless
   it took the file for a fresh one: it then has still to mark the first version. *)
InPlace(p) ==
    /\ proc[p].step \in {"backup", "copied"} => db.version = proc[p].from /\ ~db.dirty
    /\ At(p, "copied") => proc[p].temp = db
    /\ At(p, "start") /\ db.version = 0 => db.schema = {}
    /\ proc[p].step \in {"marked", "applied", "unmarked"} => db.version = proc[p].cur
    /\ At(p, "up") /\ proc[p].cur # 0 => db.version = proc[p].cur /\ ~db.dirty
    /\ At(p, "up") /\ proc[p].cur # 0 /\ ~blind => db.schema = 1 .. proc[p].cur
    /\ At(p, "applied") => db.schema = 1 .. proc[p].cur

Undisturbed == ~overlap => \A p \in Procs : InPlace(p)

Exact == ~overlap /\ ~blind /\ ~db.dirty /\ db.version # 0 => db.schema = 1 .. db.version

(* A snapshot of a version that can be reached again holds the data of now, or
   its name is outdated. *)
Fresh ==
    ~overlap =>
        \A s \in snapshots :
            s.from >= db.version /\ <<s.from, s.to>> \notin outdated => s.file.data = db.data

(* A snapshot to go back to. *)
Covers(s, data) ==
    /\ s.file.version = s.from /\ ~s.file.dirty
    /\ s.file.data = data \/ <<s.from, s.to>> \in outdated

Covered(p) == \E s \in Reusable(p) : Covers(s, db.data)

Passes(p) == \/ proc[p].step \in {"start", "up", "marked", "applied"}
             \/ At(p, "preflight") /\ \E seen \in Readings : Admitted(p, seen)

Owed(p) == proc[p].was \in 1 .. proc[p].binary - 1 /\ ~TakenForFresh(p)

Secured == ~overlap => \A p \in Procs : Passes(p) /\ Owed(p) => Covered(p)

MigrationIInv ==
    /\ MigrationTypeOK /\ Bearings /\ Alone /\ RollsBackAlone /\ Complete
    /\ Undisturbed /\ Exact /\ SnapshotsAreWhole /\ Fresh /\ Secured

-----------------------------------------------------------------------------
Others(p) == \A q \in Procs \ {p} : proc'[q] = proc[q]

(* The other fields of a process that goes to its next step. *)
Keeps(p) == /\ proc'[p].binary = proc[p].binary /\ proc'[p].serves = proc[p].serves
            /\ proc'[p].was = proc[p].was /\ proc'[p].from = proc[p].from
            /\ proc'[p].cur = proc[p].cur
            /\ proc'[p].temp = proc[p].temp

(* What the steps do to the table of processes. *)
LEMMA GotoEffect ==
    ASSUME MigrationTypeOK, NEW p \in Procs, NEW s \in Steps, Goto(p, s)
    PROVE  proc' \in [Procs -> Processes] /\ Others(p) /\ Keeps(p) /\ proc'[p].step = s
<1>1. proc \in [Procs -> Processes] /\ proc[p] \in Processes
  BY DEF MigrationTypeOK
<1>2. [proc[p] EXCEPT !.step = s] \in Processes
  BY <1>1 DEF Processes
<1>3. proc' = [proc EXCEPT ![p] = [proc[p] EXCEPT !.step = s]]
  BY <1>1 DEF Goto
<1> QED
  BY <1>1, <1>2, <1>3 DEF Others, Keeps, Processes

LEMMA OffIsProcess == Off \in Processes
BY ReleaseAssumption DEF Off, Processes, Steps

(* What a read of the version answers. *)
LEMMA ReadingEffect ==
    ASSUME MigrationTypeOK, NEW seen \in Readings, Reads(seen)
    PROVE  /\ mishaps' \in 0 .. MaxMishaps
           /\ seen.version \in 0 .. MaxVersion /\ seen.dirty \in BOOLEAN
           /\ \/ seen.version = db.version /\ seen.dirty = db.dirty
              \/ seen.version = 0 /\ ~seen.dirty
<1>1. db \in Files /\ mishaps \in 0 .. MaxMishaps
  BY DEF MigrationTypeOK
<1>2. mishaps' \in 0 .. MaxMishaps
  BY <1>1, BoundAssumption DEF Reads, Mishap
<1>3. CASE seen = Actual
  BY <1>1, <1>2, <1>3 DEF Actual, Files
<1>4. CASE seen = NilVersion
  BY <1>2, <1>4, ReleaseAssumption DEF NilVersion
<1> QED
  BY <1>3, <1>4 DEF Readings

(* A process that goes to its next step with what it has read. *)
LEMMA TakeEffect ==
    ASSUME MigrationTypeOK, NEW p \in Procs, NEW s \in Steps,
           NEW w \in 0 .. MaxVersion, NEW v \in 0 .. MaxVersion,
           proc' = [proc EXCEPT ![p].was = w, ![p].from = v, ![p].step = s]
    PROVE  /\ proc' \in [Procs -> Processes] /\ Others(p)
           /\ proc'[p].step = s /\ proc'[p].was = w /\ proc'[p].from = v
           /\ proc'[p].binary = proc[p].binary /\ proc'[p].serves = proc[p].serves
<1>1. proc \in [Procs -> Processes] /\ proc[p] \in Processes
  BY DEF MigrationTypeOK
<1> DEFINE taken == [proc[p] EXCEPT !.was = w, !.from = v, !.step = s]
<1>2. taken \in Processes
  BY <1>1 DEF Processes
<1>3. proc' = [proc EXCEPT ![p] = taken]
  BY <1>1
<1> QED
  BY <1>1, <1>2, <1>3 DEF Others, Processes

LEMMA ReadEffect ==
    ASSUME MigrationTypeOK, NEW p \in Procs, ReadVersion(p)
    PROVE  \E seen \in Readings :
           /\ Reads(seen)
           /\ proc' \in [Procs -> Processes] /\ Others(p)
           /\ proc'[p].step = IF NeedsBackup(p, seen) THEN "backup" ELSE "preflight"
           /\ proc'[p].from = seen.version
           /\ proc'[p].was = IF db.schema = {} THEN 0 ELSE db.version
           /\ proc'[p].binary = proc[p].binary /\ proc'[p].serves = proc[p].serves
<1> DEFINE held == IF db.schema = {} THEN 0 ELSE db.version
           next(seen) == IF NeedsBackup(p, seen) THEN "backup" ELSE "preflight"
<1>1. PICK seen \in Readings :
         /\ Reads(seen)
         /\ proc' = [proc EXCEPT ![p].was = held, ![p].from = seen.version,
                                 ![p].step = next(seen)]
  BY DEF ReadVersion
<1>2. seen.version \in 0 .. MaxVersion
  BY <1>1, ReadingEffect
<1>3. held \in 0 .. MaxVersion /\ next(seen) \in Steps
  BY ReleaseAssumption DEF MigrationTypeOK, Files, Steps
<1> HIDE DEF held, next
<1>4. /\ proc' \in [Procs -> Processes] /\ Others(p)
      /\ proc'[p].step = next(seen) /\ proc'[p].was = held /\ proc'[p].from = seen.version
      /\ proc'[p].binary = proc[p].binary /\ proc'[p].serves = proc[p].serves
  BY <1>1, <1>2, <1>3, TakeEffect
<1> QED
  BY <1>1, <1>4 DEF held, next

LEMMA CopyEffect ==
    ASSUME MigrationTypeOK, NEW p \in Procs, Copy(p)
    PROVE  /\ proc' \in [Procs -> Processes] /\ Others(p)
           /\ proc'[p].step = "copied" /\ proc'[p].temp = db
           /\ proc'[p].was = proc[p].was /\ proc'[p].from = proc[p].from
           /\ proc'[p].binary = proc[p].binary
           /\ snapshots' = snapshots
<1>1. proc \in [Procs -> Processes] /\ proc[p] \in Processes /\ db \in Files
  BY DEF MigrationTypeOK
<1> DEFINE copied == [proc[p] EXCEPT !.step = "copied", !.temp = db]
<1>2. copied \in Processes
  BY <1>1 DEF Processes, Steps
<1>3. proc' = [proc EXCEPT ![p] = copied]
  BY <1>1 DEF Copy
<1> QED
  BY <1>1, <1>2, <1>3 DEF Others, Processes, Copy, Unplaced

LEMMA PlaceEffect ==
    ASSUME MigrationTypeOK, NEW p \in Procs, Place(p)
    PROVE  /\ proc' \in [Procs -> Processes] /\ Others(p)
           /\ proc'[p].step = "preflight"
           /\ proc'[p].was = proc[p].was /\ proc'[p].from = proc[p].from
           /\ proc'[p].binary = proc[p].binary
<1>1. proc \in [Procs -> Processes] /\ proc[p] \in Processes
  BY DEF MigrationTypeOK
<1> DEFINE placed == [proc[p] EXCEPT !.step = "preflight", !.temp = Nil]
<1>2. placed \in Processes
  BY <1>1 DEF Processes, Steps
<1>3. proc' = [proc EXCEPT ![p] = placed]
  BY <1>1 DEF Place
<1> QED
  BY <1>1, <1>2, <1>3 DEF Others, Processes

(* A process that goes to its next step with a version. *)
LEMMA AdvanceEffect ==
    ASSUME MigrationTypeOK, NEW p \in Procs, NEW s \in Steps, NEW v \in 0 .. MaxVersion,
           proc' = [proc EXCEPT ![p].step = s, ![p].cur = v]
    PROVE  /\ proc' \in [Procs -> Processes] /\ Others(p)
           /\ proc'[p].step = s /\ proc'[p].cur = v
           /\ proc'[p].was = proc[p].was /\ proc'[p].from = proc[p].from
           /\ proc'[p].binary = proc[p].binary
<1>1. proc \in [Procs -> Processes] /\ proc[p] \in Processes
  BY DEF MigrationTypeOK
<1> DEFINE advanced == [proc[p] EXCEPT !.step = s, !.cur = v]
<1>2. advanced \in Processes
  BY <1>1 DEF Processes
<1>3. proc' = [proc EXCEPT ![p] = advanced]
  BY <1>1
<1> QED
  BY <1>1, <1>2, <1>3 DEF Others, Processes

(* A record that Started puts into the table. *)
LEMMA RecordEffect ==
    ASSUME MigrationTypeOK, NEW p \in Procs, NEW record \in Processes, Started(p, record)
    PROVE  proc' \in [Procs -> Processes] /\ Others(p) /\ proc'[p] = record
BY DEF MigrationTypeOK, Started, Others

-----------------------------------------------------------------------------
LEMMA InitImpliesMigrationIInv == MigrationInit => MigrationIInv
<1> SUFFICES ASSUME MigrationInit PROVE MigrationIInv
  OBVIOUS
<1> USE ReleaseAssumption, BoundAssumption DEF At
<1>1. \A p \in Procs : proc[p] = Off
  BY DEF MigrationInit
<1>2. PICK n \in 0 .. MaxVersion : \E v \in {0, n} :
              db = [version |-> v, dirty |-> FALSE, schema |-> 1 .. n, data |-> 0]
  BY DEF MigrationInit
<1>3. db \in Files
  BY <1>2 DEF Files, Versions
<1>4. proc \in [Procs -> Processes]
  BY OffIsProcess DEF MigrationInit
<1>5. MigrationTypeOK
  <2>1. mishaps \in 0 .. MaxMishaps
    BY DEF MigrationInit
  <2>2. bridge \in BOOLEAN /\ overlap \in BOOLEAN /\ blind \in BOOLEAN
    BY DEF MigrationInit
  <2>3. snapshots \subseteq Snapshots /\ outdated \subseteq Versions \X Versions
    BY DEF MigrationInit
  <2> QED
    BY <1>3, <1>4, <2>1, <2>2, <2>3 DEF MigrationTypeOK
<1>6. Bearings /\ Alone /\ RollsBackAlone
  BY <1>1 DEF Bearings, Alone, RollsBackAlone, Off
<1>7. Complete /\ Exact
  BY <1>1, <1>2 DEF Complete, Exact, Holds, MigrationInit, Off
<1>8. Undisturbed /\ Secured
  BY <1>1 DEF Undisturbed, InPlace, Secured, Passes, Off
<1>9. SnapshotsAreWhole /\ Fresh
  BY DEF SnapshotsAreWhole, Fresh, MigrationInit
<1> QED
  BY <1>5, <1>6, <1>7, <1>8, <1>9 DEF MigrationIInv

-----------------------------------------------------------------------------
(* One lemma for each action: first what it leaves in the file and the table,
   then the parts of the invariant. *)
LEMMA BootStep ==
    ASSUME MigrationIInv, NEW p \in Procs, NEW b \in Releases, NEW serves \in BOOLEAN,
           Boot(p, b, serves)
    PROVE  MigrationIInv'
<1> DEFINE begun == [Off EXCEPT !.step = "probed", !.binary = b, !.serves = serves]
<1> USE ReleaseAssumption DEF At
<1>1. begun \in Processes /\ begun.step = "probed" /\ begun.binary = b
  <2>1. b \in 0 .. MaxVersion
    OBVIOUS
  <2>2. begun \in Processes
    BY <2>1, OffIsProcess DEF Processes, Steps
  <2> QED
    BY <2>2 DEF Off
<1>2. proc' \in [Procs -> Processes] /\ Others(p) /\ proc'[p] = begun
  BY <1>1, RecordEffect DEF MigrationIInv, Boot
<1> HIDE DEF begun
<1>3. MigrationTypeOK'
  BY <1>2 DEF MigrationIInv, MigrationTypeOK, Boot
<1>4. Bearings'
  BY <1>1, <1>2 DEF MigrationIInv, Bearings, Boot, Others, Versions
<1>5. (overlap' <=> overlap \/ ~Quiet) /\ \A q \in Procs : At(q, "off") \/ proc[q].serves
  BY DEF Boot
<1>6. Alone'
  BY <1>1, <1>2, <1>5 DEF MigrationIInv, Alone, Others, Quiet
<1>7. RollsBackAlone'
  BY <1>1, <1>2, <1>5 DEF MigrationIInv, RollsBackAlone, Others
<1>8. Complete' /\ Exact'
  BY <1>1, <1>2 DEF MigrationIInv, Complete, Exact, Boot, Others, Holds
<1>9. Undisturbed' /\ Secured'
  BY <1>1, <1>2 DEF MigrationIInv, Boot, Others, Quiet, Undisturbed, InPlace, Secured, Passes
<1>10. SnapshotsAreWhole' /\ Fresh'
  BY DEF MigrationIInv, Boot, SnapshotsAreWhole, Fresh
<1> QED
  BY <1>3, <1>4, <1>6, <1>7, <1>8, <1>9, <1>10 DEF MigrationIInv

LEMMA ReadStep == ASSUME MigrationIInv, NEW p \in Procs, ReadVersion(p) PROVE MigrationIInv'
<1> USE ReleaseAssumption DEF At
<1>1. PICK seen \in Readings :
         /\ Reads(seen)
         /\ proc' \in [Procs -> Processes] /\ Others(p)
         /\ proc'[p].step = IF NeedsBackup(p, seen) THEN "backup" ELSE "preflight"
         /\ proc'[p].from = seen.version
         /\ proc'[p].was = IF db.schema = {} THEN 0 ELSE db.version
         /\ proc'[p].binary = proc[p].binary /\ proc'[p].serves = proc[p].serves
  BY ReadEffect DEF MigrationIInv
<1>2. /\ proc[p].step = "probed"
      /\ UNCHANGED <<bridge, db, snapshots, overlap, blind, outdated>>
  BY DEF ReadVersion
<1>3. db \in Files /\ proc[p] \in Processes
  BY DEF MigrationIInv, MigrationTypeOK
<1>12. /\ mishaps' \in 0 .. MaxMishaps
       /\ seen.version \in 0 .. MaxVersion /\ seen.dirty \in BOOLEAN
       /\ \/ seen.version = db.version /\ seen.dirty = db.dirty
          \/ seen.version = 0 /\ ~seen.dirty
  BY <1>1, ReadingEffect DEF MigrationIInv
<1>13. NeedsBackup(p, seen) => /\ seen.version \in Versions
                               /\ seen.version = db.version /\ ~db.dirty
  BY <1>12 DEF NeedsBackup, Versions
<1>4. MigrationTypeOK'
  BY <1>1, <1>2, <1>12 DEF MigrationIInv, MigrationTypeOK
<1>5. Bearings'
  BY <1>1, <1>2, <1>13 DEF MigrationIInv, Bearings, Others
<1>6. Alone'
  BY <1>1, <1>2 DEF MigrationIInv, Alone, Others
<1>7. RollsBackAlone'
  BY <1>1, <1>2 DEF MigrationIInv, RollsBackAlone, Others
<1>8. Complete' /\ Exact'
  BY <1>1, <1>2 DEF MigrationIInv, Complete, Exact, Others, Holds
<1>9. Undisturbed'
  BY <1>1, <1>2, <1>13 DEF MigrationIInv, Alone, Others, Undisturbed, InPlace
<1>10. Secured'
  <2> SUFFICES ASSUME ~overlap, NEW q \in Procs, Passes(q)', Owed(q)'
               PROVE  FALSE
    BY <1>2 DEF Secured
  <2>1. q = p
    BY <1>1, <1>2 DEF MigrationIInv, Alone, Others, Passes
  <2>2. PICK read \in Readings' : ~NeedsBackup(p, seen) /\ Admitted(p, read)'
    BY <1>1, <2>1 DEF Passes
  <2>3. /\ db.schema # {} /\ db.version \in 1 .. proc[p].binary - 1
        /\ seen.version = db.version /\ seen.dirty = db.dirty
    BY <1>1, <1>3, <1>12, <2>1 DEF Owed, TakenForFresh, Files, Processes
  <2>4. read.version = db.version /\ read.dirty = db.dirty
    BY <1>2, <2>2, <2>3 DEF Admitted, Readings, Actual, NilVersion
  <2>5. ~db.dirty /\ Supported(db.version)
    BY <1>2, <2>2, <2>3, <2>4 DEF Admitted, Supported
  <2>6. proc[p].binary \in Nat
    BY <1>3 DEF Processes
  <2> QED
    BY <2>2, <2>3, <2>5, <2>6 DEF NeedsBackup
<1>11. SnapshotsAreWhole' /\ Fresh'
  BY <1>2 DEF MigrationIInv, SnapshotsAreWhole, Fresh
<1> QED
  BY <1>4, <1>5, <1>6, <1>7, <1>8, <1>9, <1>10, <1>11 DEF MigrationIInv

LEMMA ReuseStep == ASSUME MigrationIInv, NEW p \in Procs, Reuse(p) PROVE MigrationIInv'
<1> USE ReleaseAssumption DEF At
<1>1. /\ proc' \in [Procs -> Processes] /\ Others(p) /\ Keeps(p)
      /\ proc'[p].step = "preflight"
  BY GotoEffect DEF MigrationIInv, Reuse, Steps
<1>2. /\ proc[p].step = "backup"
      /\ UNCHANGED <<bridge, db, snapshots, overlap, blind, outdated, mishaps>>
  BY DEF Reuse
<1>4. MigrationTypeOK'
  BY <1>1, <1>2 DEF MigrationIInv, MigrationTypeOK
<1>5. Bearings'
  BY <1>1, <1>2 DEF MigrationIInv, Bearings, Others, Keeps
<1>6. Alone'
  BY <1>1, <1>2 DEF MigrationIInv, Alone, Others
<1>7. RollsBackAlone'
  BY <1>1, <1>2 DEF MigrationIInv, RollsBackAlone, Others
<1>8. Complete' /\ Exact'
  BY <1>1, <1>2 DEF MigrationIInv, Complete, Exact, Others, Holds
<1>9. Undisturbed'
  BY <1>1, <1>2 DEF MigrationIInv, Alone, Others, Keeps, Undisturbed, InPlace
<1>10. Secured'
  <2> SUFFICES ASSUME ~overlap, NEW q \in Procs, Passes(q)', Owed(q)'
               PROVE  Covered(q)'
    BY <1>2 DEF Secured
  <2>1. q = p
    BY <1>1, <1>2 DEF MigrationIInv, Alone, Others, Passes
  <2>2. PICK s \in Reusable(p) : TRUE
    BY DEF Reuse
  <2>3. s \in snapshots /\ s \in Reusable(p)' /\ s.from = db.version /\ db \in Files
    BY <1>1, <1>2, <2>2 DEF MigrationIInv, Reusable, Keeps, Undisturbed, InPlace, MigrationTypeOK
  <2>4. s.file.version = s.from /\ ~s.file.dirty
    BY <1>2, <2>3 DEF MigrationIInv, SnapshotsAreWhole
  <2>5. s.file.data = db.data \/ <<s.from, s.to>> \in outdated
    BY <2>3 DEF MigrationIInv, Fresh, Files
  <2> QED
    BY <1>2, <2>1, <2>3, <2>4, <2>5 DEF Covered, Covers
<1>11. SnapshotsAreWhole' /\ Fresh'
  BY <1>2 DEF MigrationIInv, SnapshotsAreWhole, Fresh
<1> QED
  BY <1>4, <1>5, <1>6, <1>7, <1>8, <1>9, <1>10, <1>11 DEF MigrationIInv

LEMMA CopyStep == ASSUME MigrationIInv, NEW p \in Procs, Copy(p) PROVE MigrationIInv'
<1> USE ReleaseAssumption DEF At
<1>1. /\ proc' \in [Procs -> Processes] /\ Others(p)
      /\ proc'[p].step = "copied" /\ proc'[p].temp = db
      /\ proc'[p].was = proc[p].was /\ proc'[p].from = proc[p].from
      /\ proc'[p].binary = proc[p].binary
  BY CopyEffect DEF MigrationIInv
<1>2. /\ proc[p].step = "backup"
      /\ UNCHANGED <<bridge, db, snapshots, overlap, blind, outdated, mishaps>>
  BY CopyEffect DEF MigrationIInv, Copy
<1>3. db \in Files
  BY DEF MigrationIInv, MigrationTypeOK
<1>4. MigrationTypeOK'
  BY <1>1, <1>2 DEF MigrationIInv, MigrationTypeOK
<1>5. Bearings'
  BY <1>1, <1>2, <1>3 DEF MigrationIInv, Bearings, Others
<1>6. Alone'
  BY <1>1, <1>2 DEF MigrationIInv, Alone, Others
<1>7. RollsBackAlone'
  BY <1>1, <1>2 DEF MigrationIInv, RollsBackAlone, Others
<1>8. Complete' /\ Exact'
  BY <1>1, <1>2 DEF MigrationIInv, Complete, Exact, Others, Holds
<1>9. Undisturbed'
  BY <1>1, <1>2 DEF MigrationIInv, Alone, Others, Undisturbed, InPlace
<1>10. Secured'
  BY <1>1, <1>2 DEF MigrationIInv, Alone, Others, Secured, Passes
<1>11. SnapshotsAreWhole' /\ Fresh'
  BY <1>2 DEF MigrationIInv, SnapshotsAreWhole, Fresh
<1> QED
  BY <1>4, <1>5, <1>6, <1>7, <1>8, <1>9, <1>10, <1>11 DEF MigrationIInv

LEMMA PlaceStep == ASSUME MigrationIInv, NEW p \in Procs, Place(p) PROVE MigrationIInv'
<1> DEFINE new == [from |-> proc[p].from, to |-> proc[p].binary,
                   file |-> proc[p].temp, whole |-> TRUE]
<1> USE ReleaseAssumption DEF At
<1>1. /\ proc' \in [Procs -> Processes] /\ Others(p)
      /\ proc'[p].step = "preflight"
      /\ proc'[p].was = proc[p].was /\ proc'[p].from = proc[p].from
      /\ proc'[p].binary = proc[p].binary
  BY PlaceEffect DEF MigrationIInv
<1>2. /\ proc[p].step = "copied" /\ snapshots' = snapshots \cup {new}
      /\ UNCHANGED <<bridge, db, overlap, blind, outdated, mishaps>>
  BY DEF Place
<1>3. /\ proc[p].from \in Versions /\ proc[p].binary \in Versions /\ proc[p].temp \in Files
      /\ ~overlap => proc[p].temp = db /\ db.version = proc[p].from /\ ~db.dirty
  BY <1>2 DEF MigrationIInv, Bearings, Undisturbed, InPlace
<1>4. MigrationTypeOK'
  <2>1. new \in Snapshots
    BY <1>3 DEF Snapshots
  <2> QED
    BY <1>1, <1>2, <2>1 DEF MigrationIInv, MigrationTypeOK
<1>5. Bearings'
  BY <1>1, <1>2, <1>3 DEF MigrationIInv, Bearings, Others
<1>6. Alone'
  BY <1>1, <1>2 DEF MigrationIInv, Alone, Others
<1>7. RollsBackAlone'
  BY <1>1, <1>2 DEF MigrationIInv, RollsBackAlone, Others
<1>8. Complete' /\ Exact'
  BY <1>1, <1>2 DEF MigrationIInv, Complete, Exact, Others, Holds
<1>9. Undisturbed'
  BY <1>1, <1>2, <1>3 DEF MigrationIInv, Alone, Others, Undisturbed, InPlace
<1>10. Secured'
  <2> SUFFICES ASSUME ~overlap, NEW q \in Procs, Passes(q)', Owed(q)'
               PROVE  Covered(q)'
    BY <1>2 DEF Secured
  <2>1. q = p
    BY <1>1, <1>2 DEF MigrationIInv, Alone, Others, Passes
  <2>2. PICK s \in Reusable(p)' : s = new
    BY <1>1, <1>2 DEF Reusable
  <2>3. s.file.version = s.from /\ ~s.file.dirty /\ s.file.data = db'.data
    BY <1>2, <1>3, <2>2
  <2> QED
    BY <2>1, <2>2, <2>3 DEF Covered, Covers
<1>11. SnapshotsAreWhole'
  <2>1. ~overlap /\ ~blind => db.schema = 1 .. db.version
    BY <1>3, ReleaseAssumption DEF MigrationIInv, Exact, Versions
  <2> QED
    BY <1>2, <1>3, <2>1 DEF MigrationIInv, SnapshotsAreWhole
<1>12. Fresh'
  BY <1>2, <1>3 DEF MigrationIInv, Fresh
<1> QED
  BY <1>4, <1>5, <1>6, <1>7, <1>8, <1>9, <1>10, <1>11, <1>12 DEF MigrationIInv
(* A process that was covered stays so while data, names and snapshots do, and
   one that is admitted has been looked at. *)
LEMMA SecuredStays ==
    ASSUME Alone, Secured, NEW p \in Procs, Others(p), Passes(p), overlap' = overlap,
           proc'[p].was = proc[p].was, proc'[p].from = proc[p].from,
           proc'[p].binary = proc[p].binary,
           db'.data = db.data, snapshots' = snapshots, outdated \subseteq outdated'
    PROVE  Secured'
<1> SUFFICES ASSUME ~overlap, NEW q \in Procs, Passes(q)', Owed(q)'
             PROVE  Covered(q)'
  BY DEF Secured
<1>1. q = p
  BY DEF Alone, Others, Passes, At
<1>2. Covered(p)
  BY <1>1 DEF Secured, Owed, TakenForFresh
<1> QED
  BY <1>1, <1>2 DEF Covered, Covers, Reusable

LEMMA PreflightStep == ASSUME MigrationIInv, NEW p \in Procs, Preflight(p) PROVE MigrationIInv'
<1> USE ReleaseAssumption DEF At
<1>1. /\ proc' \in [Procs -> Processes] /\ Others(p) /\ Keeps(p)
      /\ proc'[p].step = "start"
  BY GotoEffect DEF MigrationIInv, Preflight, Steps
<1>2. /\ proc[p].step = "preflight"
      /\ UNCHANGED <<bridge, db, snapshots, overlap, blind, outdated>>
  BY DEF Preflight
<1>3. PICK seen \in Readings : Reads(seen) /\ Admitted(p, seen)
  BY DEF Preflight
<1>12. mishaps' \in 0 .. MaxMishaps
  BY <1>3, ReadingEffect DEF MigrationIInv
<1>13. db.version = 0 => db.schema = {}
  BY <1>3 DEF Admitted, Readings, Actual, NilVersion
<1>4. MigrationTypeOK'
  BY <1>1, <1>2, <1>12 DEF MigrationIInv, MigrationTypeOK
<1>5. Bearings'
  BY <1>1, <1>2 DEF MigrationIInv, Bearings, Others, Keeps
<1>6. Alone'
  BY <1>1, <1>2 DEF MigrationIInv, Alone, Others
<1>7. RollsBackAlone'
  BY <1>1, <1>2 DEF MigrationIInv, RollsBackAlone, Others
<1>8. Complete' /\ Exact'
  BY <1>1, <1>2 DEF MigrationIInv, Complete, Exact, Others, Holds
<1>9. Undisturbed'
  BY <1>1, <1>2, <1>13 DEF MigrationIInv, Alone, Others, Keeps, Undisturbed, InPlace
<1>10. Secured'
  BY <1>1, <1>2, <1>3, SecuredStays DEF MigrationIInv, Passes, Keeps
<1>11. SnapshotsAreWhole' /\ Fresh'
  BY <1>2 DEF MigrationIInv, SnapshotsAreWhole, Fresh
<1> QED
  BY <1>4, <1>5, <1>6, <1>7, <1>8, <1>9, <1>10, <1>11 DEF MigrationIInv

LEMMA StartUpStep == ASSUME MigrationIInv, NEW p \in Procs, StartUp(p) PROVE MigrationIInv'
<1> USE ReleaseAssumption DEF At
<1>1. PICK seen \in Readings :
         /\ Reads(seen) /\ Startable(p, seen)
         /\ proc' = [proc EXCEPT ![p].step = "up", ![p].cur = seen.version]
  BY DEF StartUp
<1>2. /\ proc[p].step = "start"
      /\ UNCHANGED <<bridge, db, snapshots, overlap, blind, outdated>>
  BY DEF StartUp
<1>12. /\ mishaps' \in 0 .. MaxMishaps
       /\ seen.version \in 0 .. MaxVersion
       /\ \/ seen.version = db.version /\ seen.dirty = db.dirty
          \/ seen.version = 0 /\ ~seen.dirty
  BY <1>1, ReadingEffect DEF MigrationIInv
<1>13. seen.version # 0 => seen.version = db.version /\ ~db.dirty
  BY <1>1, <1>12 DEF Startable
<1>3. /\ proc' \in [Procs -> Processes] /\ Others(p)
      /\ proc'[p].step = "up" /\ proc'[p].cur = seen.version
      /\ proc'[p].was = proc[p].was /\ proc'[p].from = proc[p].from
      /\ proc'[p].binary = proc[p].binary
  BY <1>1, <1>12, AdvanceEffect DEF MigrationIInv, Steps
<1>4. MigrationTypeOK'
  BY <1>2, <1>3, <1>12 DEF MigrationIInv, MigrationTypeOK
<1>5. Bearings'
  BY <1>1, <1>2, <1>3 DEF MigrationIInv, Bearings, Others, Startable
<1>6. Alone'
  BY <1>2, <1>3 DEF MigrationIInv, Alone, Others
<1>7. RollsBackAlone'
  BY <1>2, <1>3 DEF MigrationIInv, RollsBackAlone, Others
<1>8. Complete' /\ Exact'
  <2>1. 1 .. 0 = {}
    OBVIOUS
  <2> QED
    BY <1>2, <1>3, <1>13, <2>1 DEF MigrationIInv, Complete, Exact, Others, Holds
<1>9. Undisturbed'
  BY <1>2, <1>3, <1>13 DEF MigrationIInv, Alone, Others, Undisturbed, InPlace, Exact
<1>10. Secured'
  BY <1>2, <1>3, SecuredStays DEF MigrationIInv, Passes
<1>11. SnapshotsAreWhole' /\ Fresh'
  BY <1>2 DEF MigrationIInv, SnapshotsAreWhole, Fresh
<1> QED
  BY <1>4, <1>5, <1>6, <1>7, <1>8, <1>9, <1>10, <1>11 DEF MigrationIInv
(* The version row is rewritten. *)
LEMMA VersionEffect ==
    ASSUME db \in Files, NEW v \in 0 .. MaxVersion, NEW dirty \in BOOLEAN,
           db' = [db EXCEPT !.version = v, !.dirty = dirty]
    PROVE  /\ db' \in Files /\ db'.version = v /\ db'.dirty = dirty
           /\ db'.schema = db.schema /\ db'.data = db.data
BY DEF Files

(* The names stay names, and are those of all snapshots that are held. *)
LEMMA OutdatedIsTyped ==
    ASSUME MigrationTypeOK, NEW v \in Nat, NEW held \in SUBSET snapshots
    PROVE  /\ Outdated(v, held) \subseteq Versions \X Versions
           /\ outdated \subseteq Outdated(v, held)
           /\ \A s \in held : s.from >= v => <<s.from, s.to>> \in Outdated(v, held)
BY DEF MigrationTypeOK, Outdated, Snapshots

LEMMA MarkStep == ASSUME MigrationIInv, NEW p \in Procs, Mark(p) PROVE MigrationIInv'
<1> DEFINE next == proc[p].cur + 1
<1> USE ReleaseAssumption DEF At
<1>1. /\ db \in Files /\ proc[p].cur \in 0 .. MaxVersion /\ proc[p].binary \in 0 .. MaxVersion
  BY DEF MigrationIInv, MigrationTypeOK, Processes
<1>2. /\ proc[p].step = "up" /\ next <= proc[p].binary
      /\ db' = [db EXCEPT !.version = next, !.dirty = TRUE]
      /\ proc' = [proc EXCEPT ![p].step = "marked", ![p].cur = next]
      /\ outdated' = IF next < db.version THEN Outdated(next, snapshots) ELSE outdated
      /\ UNCHANGED <<bridge, snapshots, overlap, blind, mishaps>>
  BY DEF Mark
<1>3. next \in 0 .. MaxVersion /\ next # 0 /\ next > proc[p].cur
  BY <1>1, <1>2
<1>4. MigrationTypeOK /\ "marked" \in Steps
  BY DEF MigrationIInv, Steps
<1> HIDE DEF next
<1>5. /\ proc' \in [Procs -> Processes] /\ Others(p)
      /\ proc'[p].step = "marked" /\ proc'[p].cur = next
      /\ proc'[p].was = proc[p].was /\ proc'[p].from = proc[p].from
      /\ proc'[p].binary = proc[p].binary
  BY <1>2, <1>3, <1>4, AdvanceEffect
<1>6. /\ db' \in Files /\ db'.version = next /\ db'.dirty = TRUE
      /\ db'.schema = db.schema /\ db'.data = db.data
  BY <1>1, <1>2, <1>3, VersionEffect
<1>16. /\ outdated \subseteq outdated' /\ outdated' \subseteq Versions \X Versions
       /\ next < db.version =>
             \A s \in snapshots : s.from >= next => <<s.from, s.to>> \in outdated'
  <2>1. next \in Nat
    BY <1>3
  <2> QED
    BY <1>2, <1>4, <2>1, OutdatedIsTyped DEF MigrationTypeOK
<1>7. MigrationTypeOK'
  BY <1>2, <1>5, <1>6, <1>16 DEF MigrationIInv, MigrationTypeOK
<1>8. Bearings'
  BY <1>2, <1>3, <1>5 DEF MigrationIInv, Bearings, Others, Versions
<1>9. Alone'
  BY <1>2, <1>5 DEF MigrationIInv, Alone, Others
<1>10. RollsBackAlone'
  BY <1>2, <1>5 DEF MigrationIInv, RollsBackAlone, Others
<1>11. Complete' /\ Exact'
  BY <1>2, <1>5, <1>6 DEF MigrationIInv, Complete, Exact, Others, Holds
<1>12. Undisturbed'
  BY <1>2, <1>5, <1>6 DEF MigrationIInv, Alone, Others, Undisturbed, InPlace
<1>13. Secured'
  BY <1>2, <1>5, <1>6, <1>16, SecuredStays DEF MigrationIInv, Passes
<1>14. SnapshotsAreWhole'
  BY <1>2 DEF MigrationIInv, SnapshotsAreWhole
<1>15. Fresh'
  <2> SUFFICES ASSUME ~overlap, NEW s \in snapshots, s.from >= next,
                      <<s.from, s.to>> \notin outdated'
               PROVE  s.file.data = db.data
    BY <1>2, <1>6 DEF Fresh
  <2>1. s.from \in Nat /\ db.version \in Nat
    BY <1>1 DEF MigrationIInv, MigrationTypeOK, Snapshots, Versions, Files
  <2>2. s.from >= db.version
    BY <1>3, <1>16, <2>1
  <2> QED
    BY <1>16, <2>2 DEF MigrationIInv, Fresh
<1> QED
  BY <1>7, <1>8, <1>9, <1>10, <1>11, <1>12, <1>13, <1>14, <1>15 DEF MigrationIInv

LEMMA ApplyStep == ASSUME MigrationIInv, NEW p \in Procs, Apply(p) PROVE MigrationIInv'
<1> USE ReleaseAssumption DEF At
<1>1. /\ db \in Files /\ proc[p].step = "marked" /\ proc[p].cur \in 1 .. MaxVersion
  BY DEF MigrationIInv, MigrationTypeOK, Apply, Bearings, Versions
<1>2. /\ db' = [db EXCEPT !.schema = @ \cup {proc[p].cur}]
      /\ db.schema = 1 .. proc[p].cur - 1
      /\ UNCHANGED <<bridge, snapshots, overlap, blind, outdated, mishaps>>
  BY DEF Apply
<1>3. /\ proc' \in [Procs -> Processes] /\ Others(p) /\ Keeps(p)
      /\ proc'[p].step = "applied"
  BY GotoEffect DEF MigrationIInv, Apply, Steps
<1>4. db'.schema = 1 .. proc[p].cur /\ db.schema \subseteq db'.schema
  <2>1. db'.schema = (1 .. proc[p].cur - 1) \cup {proc[p].cur}
    BY <1>1, <1>2 DEF Files
  <2>2. (1 .. proc[p].cur - 1) \cup {proc[p].cur} = 1 .. proc[p].cur
    BY <1>1
  <2> QED
    BY <1>2, <2>1, <2>2
<1>5. /\ db' \in Files /\ db'.version = db.version /\ db'.dirty = db.dirty /\ db'.data = db.data
  BY <1>1, <1>2 DEF Files, Versions
<1>6. MigrationTypeOK'
  BY <1>2, <1>3, <1>5 DEF MigrationIInv, MigrationTypeOK
<1>7. Bearings'
  BY <1>1, <1>3 DEF MigrationIInv, Bearings, Others, Keeps
<1>8. Alone'
  BY <1>1, <1>2, <1>3 DEF MigrationIInv, Alone, Others
<1>9. RollsBackAlone'
  BY <1>1, <1>3 DEF MigrationIInv, RollsBackAlone, Others
<1>10. Complete'
  BY <1>1, <1>2, <1>3, <1>4, <1>5 DEF MigrationIInv, Complete, Others, Keeps, Holds
<1>11. Undisturbed'
  BY <1>1, <1>2, <1>3, <1>4, <1>5 DEF MigrationIInv, Alone, Others, Keeps, Undisturbed, InPlace
<1>12. Exact'
  BY <1>1, <1>2, <1>4, <1>5 DEF MigrationIInv, Undisturbed, InPlace, Exact
<1>13. Secured'
  BY <1>1, <1>2, <1>3, <1>5, SecuredStays DEF MigrationIInv, Passes, Keeps
<1>14. SnapshotsAreWhole' /\ Fresh'
  BY <1>2, <1>5 DEF MigrationIInv, SnapshotsAreWhole, Fresh
<1> QED
  BY <1>6, <1>7, <1>8, <1>9, <1>10, <1>11, <1>12, <1>13, <1>14 DEF MigrationIInv

LEMMA CleanStep == ASSUME MigrationIInv, NEW p \in Procs, Clean(p) PROVE MigrationIInv'
<1> USE ReleaseAssumption DEF At
<1>1. /\ db \in Files /\ proc[p].step = "applied" /\ proc[p].cur \in 1 .. MaxVersion
  BY DEF MigrationIInv, MigrationTypeOK, Clean, Bearings, Versions
<1>2. /\ db' = [db EXCEPT !.version = proc[p].cur, !.dirty = FALSE]
      /\ UNCHANGED <<bridge, snapshots, overlap, blind, outdated, mishaps>>
  BY DEF Clean
<1>3. /\ proc' \in [Procs -> Processes] /\ Others(p) /\ Keeps(p)
      /\ proc'[p].step = "up"
  BY GotoEffect DEF MigrationIInv, Clean, Steps
<1>5. /\ db' \in Files /\ db'.version = proc[p].cur /\ db'.dirty = FALSE
      /\ db'.schema = db.schema /\ db'.data = db.data
  <2>1. proc[p].cur \in 0 .. MaxVersion
    BY <1>1
  <2> QED
    BY <1>1, <1>2, <2>1, VersionEffect
<1>6. MigrationTypeOK'
  BY <1>2, <1>3, <1>5 DEF MigrationIInv, MigrationTypeOK
<1>7. Bearings'
  BY <1>1, <1>3 DEF MigrationIInv, Bearings, Others, Keeps
<1>8. Alone'
  BY <1>1, <1>2, <1>3 DEF MigrationIInv, Alone, Others
<1>9. RollsBackAlone'
  BY <1>1, <1>3 DEF MigrationIInv, RollsBackAlone, Others
<1>10. Complete'
  BY <1>1, <1>2, <1>3, <1>5 DEF MigrationIInv, Complete, Others, Keeps, Holds
<1>11. Undisturbed'
  BY <1>1, <1>2, <1>3, <1>5 DEF MigrationIInv, Alone, Others, Keeps, Undisturbed, InPlace
<1>12. Exact'
  BY <1>1, <1>2, <1>5 DEF MigrationIInv, Undisturbed, InPlace, Exact
<1>13. Secured'
  BY <1>1, <1>2, <1>3, <1>5, SecuredStays DEF MigrationIInv, Passes, Keeps
<1>14. SnapshotsAreWhole' /\ Fresh'
  BY <1>1, <1>2, <1>5 DEF MigrationIInv, SnapshotsAreWhole, Fresh, Undisturbed, InPlace
<1> QED
  BY <1>6, <1>7, <1>8, <1>9, <1>10, <1>11, <1>12, <1>13, <1>14 DEF MigrationIInv
(* A process starts to serve, or is gone. *)
LEMMA LeaveStep ==
    ASSUME MigrationIInv, NEW p \in Procs, ~At(p, "off"),
           proc' \in [Procs -> Processes], Others(p), proc'[p].step \in {"off", "serving"},
           proc'[p].step = "serving" => proc'[p].binary = proc[p].binary,
           UNCHANGED <<bridge, db, snapshots, overlap, blind, outdated, mishaps>>
    PROVE  MigrationIInv'
<1> USE ReleaseAssumption DEF At
<1>1. MigrationTypeOK'
  BY DEF MigrationIInv, MigrationTypeOK
<1>2. Bearings'
  BY DEF MigrationIInv, Bearings, Others
<1>3. Alone'
  BY DEF MigrationIInv, Alone, Others
<1>4. RollsBackAlone'
  BY DEF MigrationIInv, RollsBackAlone, Others
<1>5. Complete' /\ Exact'
  BY DEF MigrationIInv, Complete, Exact, Others, Holds
<1>6. Undisturbed' /\ Secured'
  BY DEF MigrationIInv, Alone, Others, Undisturbed, InPlace, Secured, Passes
<1>7. SnapshotsAreWhole' /\ Fresh'
  BY DEF MigrationIInv, SnapshotsAreWhole, Fresh
<1> QED
  BY <1>1, <1>2, <1>3, <1>4, <1>5, <1>6, <1>7 DEF MigrationIInv

LEMMA FinishStep == ASSUME MigrationIInv, NEW p \in Procs, Finish(p) PROVE MigrationIInv'
<1> DEFINE server == [Off EXCEPT !.step = "serving", !.serves = TRUE,
                                 !.binary = proc[p].binary]
           last == IF proc[p].serves THEN server ELSE Off
<1>1. /\ MigrationTypeOK /\ ~At(p, "off") /\ Started(p, last)
      /\ UNCHANGED <<bridge, db, snapshots, overlap, blind, outdated, mishaps>>
  BY DEF MigrationIInv, Finish, At
<1>2. server \in Processes /\ server.step = "serving" /\ server.binary = proc[p].binary
  <2>1. proc[p].binary \in 0 .. MaxVersion
    BY <1>1 DEF MigrationTypeOK, Processes
  <2>2. server \in Processes
    BY <2>1, OffIsProcess DEF Processes, Steps
  <2> QED
    BY <2>2 DEF Off
<1>3. /\ last \in Processes /\ last.step \in {"off", "serving"}
      /\ last.step = "serving" => last.binary = proc[p].binary
  BY <1>2, OffIsProcess DEF Off
<1> HIDE DEF last
<1> QED
  BY <1>1, <1>3, RecordEffect, LeaveStep

LEMMA EndStep == ASSUME MigrationIInv, NEW p \in Procs, End(p) PROVE MigrationIInv'
<1>1. MigrationTypeOK /\ ~At(p, "off") /\ Started(p, Off) /\ Off.step = "off"
      /\ UNCHANGED <<bridge, db, snapshots, overlap, blind, outdated, mishaps>>
  BY DEF MigrationIInv, End, Off
<1> QED
  BY <1>1, RecordEffect, OffIsProcess, LeaveStep

LEMMA WriteStep == ASSUME MigrationIInv, NEW p \in Procs, Write(p) PROVE MigrationIInv'
<1> USE ReleaseAssumption DEF At
<1>1. /\ db \in Files /\ proc[p].step = "serving" /\ db.data < MaxWrites
      /\ db' = [db EXCEPT !.data = @ + 1] /\ outdated' = Outdated(db.version, snapshots)
      /\ UNCHANGED <<bridge, snapshots, proc, overlap, blind, mishaps>>
  BY DEF MigrationIInv, MigrationTypeOK, Write
<1>2. /\ db' \in Files /\ db'.version = db.version /\ db'.dirty = db.dirty
      /\ db'.schema = db.schema
  BY <1>1, BoundAssumption DEF Files
<1>3. /\ outdated' \subseteq Versions \X Versions
      /\ \A s \in snapshots : s.from >= db.version => <<s.from, s.to>> \in outdated'
  <2>1. db.version \in Nat
    BY <1>1 DEF Files
  <2> QED
    BY <1>1, <2>1, OutdatedIsTyped DEF MigrationIInv
<1>4. MigrationTypeOK'
  BY <1>1, <1>2, <1>3 DEF MigrationIInv, MigrationTypeOK
<1>5. Bearings' /\ Alone'
  BY <1>1 DEF MigrationIInv, Bearings, Alone
<1>6. RollsBackAlone'
  BY <1>1, <1>2 DEF MigrationIInv, RollsBackAlone
<1>7. Complete' /\ Exact'
  BY <1>1, <1>2 DEF MigrationIInv, Complete, Exact, Holds
<1>8. Undisturbed' /\ Secured'
  BY <1>1 DEF MigrationIInv, Alone, Undisturbed, InPlace, Secured, Passes
<1>9. SnapshotsAreWhole' /\ Fresh'
  BY <1>1, <1>2, <1>3 DEF MigrationIInv, SnapshotsAreWhole, Fresh
<1> QED
  BY <1>4, <1>5, <1>6, <1>7, <1>8, <1>9 DEF MigrationIInv

LEMMA ForceStep ==
    ASSUME MigrationIInv, NEW p \in Procs, NEW b \in Releases, MigrateForce(p, b)
    PROVE  MigrationIInv'
<1> DEFINE begun == [Off EXCEPT !.step = "start", !.binary = b]
<1> USE ReleaseAssumption DEF At
<1>1. begun \in Processes /\ begun.step = "start" /\ begun.binary = b /\ begun.was = 0
  <2>1. b \in 0 .. MaxVersion
    OBVIOUS
  <2>2. begun \in Processes
    BY <2>1, OffIsProcess DEF Processes, Steps
  <2> QED
    BY <2>2 DEF Off
<1>2. proc' \in [Procs -> Processes] /\ Others(p) /\ proc'[p] = begun
  BY <1>1, RecordEffect DEF MigrationIInv, MigrateForce
<1> HIDE DEF begun
<1>3. /\ db \in Files /\ \A q \in Procs : proc[q].step = "off"
      /\ db.version # 0 /\ db' = [db EXCEPT !.dirty = FALSE]
      /\ UNCHANGED <<bridge, snapshots, overlap, outdated>>
  BY DEF MigrationIInv, MigrationTypeOK, MigrateForce, Repair, Mishap, Quiet
<1>4. blind' \in BOOLEAN /\ (~blind' => ~blind /\ db.schema = 1 .. db.version)
  BY DEF MigrateForce
<1>5. mishaps' \in 0 .. MaxMishaps
  BY BoundAssumption DEF MigrationIInv, MigrationTypeOK, MigrateForce, Repair, Mishap
<1>6. /\ db' \in Files /\ db'.version = db.version /\ db'.dirty = FALSE
      /\ db'.schema = db.schema /\ db'.data = db.data
  BY <1>3 DEF Files
<1>7. MigrationTypeOK'
  BY <1>2, <1>3, <1>4, <1>5, <1>6 DEF MigrationIInv, MigrationTypeOK
<1>8. Bearings' /\ RollsBackAlone'
  BY <1>1, <1>2, <1>3 DEF Bearings, RollsBackAlone, Others, Versions
<1>9. Alone'
  BY <1>2, <1>3 DEF Alone, Others
<1>10. Complete' /\ Exact'
  BY <1>1, <1>2, <1>3, <1>4, <1>6 DEF MigrationIInv, Complete, Exact, Others, Holds
<1>11. Undisturbed' /\ Secured'
  BY <1>1, <1>2, <1>3, <1>6 DEF Others, Undisturbed, InPlace, Secured, Passes, Owed
<1>12. SnapshotsAreWhole' /\ Fresh'
  BY <1>3, <1>4, <1>6 DEF MigrationIInv, SnapshotsAreWhole, Fresh
<1> QED
  BY <1>7, <1>8, <1>9, <1>10, <1>11, <1>12 DEF MigrationIInv

LEMMA UnmarkStep == ASSUME MigrationIInv, NEW p \in Procs, Unmark(p) PROVE MigrationIInv'
<1> DEFINE last == db.version - 1
           begun == [Off EXCEPT !.step = "unmarked", !.binary = last, !.cur = last]
<1> USE ReleaseAssumption DEF At
<1>1. /\ db \in Files /\ \A q \in Procs : proc[q].step = "off"
      /\ db.version > 1 /\ db' = [db EXCEPT !.version = last, !.dirty = TRUE]
      /\ outdated' = Outdated(last, snapshots) /\ Started(p, begun)
      /\ UNCHANGED <<bridge, snapshots, overlap, blind>>
  BY DEF MigrationIInv, MigrationTypeOK, Unmark, Repair, Mishap, Quiet, Files
<1>2. last \in 0 .. MaxVersion /\ last \in Versions /\ last + 1 \in Versions
  BY <1>1 DEF Files, Versions
<1>3. mishaps' \in 0 .. MaxMishaps
  BY BoundAssumption DEF MigrationIInv, MigrationTypeOK, Unmark, Repair, Mishap
<1> HIDE DEF last
<1>4. /\ begun \in Processes /\ begun.step = "unmarked" /\ begun.binary = last /\ begun.cur = last
      /\ begun.was = 0 /\ begun.serves = FALSE
  <2>1. begun \in Processes
    BY <1>2, OffIsProcess DEF Processes, Steps
  <2> QED
    BY <2>1 DEF Off
<1>5. proc' \in [Procs -> Processes] /\ Others(p) /\ proc'[p] = begun
  BY <1>1, <1>4, RecordEffect DEF MigrationIInv
<1> HIDE DEF begun
<1>6. /\ db' \in Files /\ db'.version = last /\ db'.dirty = TRUE
      /\ db'.schema = db.schema /\ db'.data = db.data
  BY <1>1, <1>2, VersionEffect
<1>7. /\ outdated' \subseteq Versions \X Versions
      /\ \A s \in snapshots : s.from >= last => <<s.from, s.to>> \in outdated'
  BY <1>1, <1>2, OutdatedIsTyped DEF MigrationIInv
<1>8. MigrationTypeOK'
  BY <1>1, <1>3, <1>5, <1>6, <1>7 DEF MigrationIInv, MigrationTypeOK
<1>9. Bearings' /\ RollsBackAlone'
  BY <1>1, <1>2, <1>4, <1>5, <1>6 DEF Bearings, RollsBackAlone, Others, Versions
<1>10. Alone'
  BY <1>1, <1>5 DEF Alone, Others
<1>11. Complete' /\ Exact'
  BY <1>1, <1>4, <1>5, <1>6 DEF MigrationIInv, Complete, Exact, Others, Holds
<1>12. Undisturbed' /\ Secured'
  BY <1>1, <1>4, <1>5, <1>6 DEF Others, Undisturbed, InPlace, Secured, Passes, Owed
<1>13. SnapshotsAreWhole' /\ Fresh'
  BY <1>1, <1>6, <1>7 DEF MigrationIInv, SnapshotsAreWhole, Fresh
<1> QED
  BY <1>8, <1>9, <1>10, <1>11, <1>12, <1>13 DEF MigrationIInv

LEMMA UnapplyStep == ASSUME MigrationIInv, NEW p \in Procs, Unapply(p) PROVE MigrationIInv'
<1> USE ReleaseAssumption DEF At
<1>1. /\ db \in Files /\ proc[p].step = "unmarked" /\ proc[p].cur \in 1 .. MaxVersion
      /\ db.version = proc[p].cur /\ \A q \in Procs \ {p} : proc[q].step = "off"
  BY DEF MigrationIInv, MigrationTypeOK, Unapply, Bearings, RollsBackAlone, Versions
<1>2. /\ db' = [db EXCEPT !.schema = @ \ {proc[p].cur + 1}]
      /\ db.schema = 1 .. proc[p].cur + 1
      /\ UNCHANGED <<bridge, snapshots, overlap, blind, outdated, mishaps>>
  BY DEF Unapply
<1>3. /\ proc' \in [Procs -> Processes] /\ Others(p) /\ Keeps(p)
      /\ proc'[p].step = "applied"
  BY GotoEffect DEF MigrationIInv, Unapply, Steps
<1>4. db'.schema = 1 .. proc[p].cur
  <2>1. db'.schema = (1 .. proc[p].cur + 1) \ {proc[p].cur + 1}
    BY <1>1, <1>2 DEF Files
  <2>2. (1 .. proc[p].cur + 1) \ {proc[p].cur + 1} = 1 .. proc[p].cur
    BY <1>1
  <2> QED
    BY <2>1, <2>2
<1>5. /\ db' \in Files /\ db'.version = db.version /\ db'.dirty = db.dirty /\ db'.data = db.data
  BY <1>1, <1>2 DEF Files
<1>6. MigrationTypeOK'
  BY <1>2, <1>3, <1>5 DEF MigrationIInv, MigrationTypeOK
<1>7. Bearings'
  BY <1>1, <1>3 DEF MigrationIInv, Bearings, Others, Keeps
<1>8. Alone' /\ RollsBackAlone'
  BY <1>1, <1>3 DEF Alone, RollsBackAlone, Others
<1>9. Complete'
  BY <1>1, <1>2, <1>3, <1>4, <1>5 DEF MigrationIInv, Complete, Others, Keeps, Holds
<1>10. Undisturbed'
  BY <1>1, <1>2, <1>3, <1>4, <1>5 DEF Others, Keeps, Undisturbed, InPlace
<1>11. Exact'
  BY <1>1, <1>4, <1>5 DEF Exact
<1>12. SnapshotsAreWhole' /\ Fresh'
  BY <1>2, <1>5 DEF MigrationIInv, SnapshotsAreWhole, Fresh
<1>13. Secured'
  <2>1. proc'[p].was = 0
    BY <1>1, <1>3 DEF MigrationIInv, Bearings, Keeps
  <2> QED
    BY <1>1, <1>3, <2>1 DEF Others, Secured, Passes, Owed
<1> QED
  BY <1>6, <1>7, <1>8, <1>9, <1>10, <1>11, <1>12, <1>13 DEF MigrationIInv

LEMMA RestoreStep == ASSUME MigrationIInv, NEW s \in snapshots, Restore(s) PROVE MigrationIInv'
<1> USE ReleaseAssumption DEF At
<1>1. /\ s \in Snapshots /\ s.file \in Files /\ \A q \in Procs : proc[q].step = "off"
      /\ db' = s.file /\ outdated' = Outdated(s.file.version, snapshots \ {s})
      /\ UNCHANGED <<bridge, snapshots, proc, overlap, blind>>
  BY DEF MigrationIInv, MigrationTypeOK, Restore, Repair, Mishap, Quiet, Snapshots
<1>2. mishaps' \in 0 .. MaxMishaps
  BY BoundAssumption DEF MigrationIInv, MigrationTypeOK, Restore, Repair, Mishap
<1>3. /\ outdated' \subseteq Versions \X Versions
      /\ \A t \in snapshots \ {s} : t.from >= db'.version => <<t.from, t.to>> \in outdated'
  <2>1. s.file.version \in Nat
    BY <1>1 DEF Files
  <2> QED
    BY <1>1, <2>1, OutdatedIsTyped DEF MigrationIInv
<1>4. MigrationTypeOK'
  BY <1>1, <1>2, <1>3 DEF MigrationIInv, MigrationTypeOK
<1>5. Bearings' /\ Alone' /\ RollsBackAlone'
  BY <1>1 DEF Bearings, Alone, RollsBackAlone
<1>6. Complete' /\ Exact'
  BY <1>1 DEF MigrationIInv, Complete, Exact, Holds, SnapshotsAreWhole
<1>7. Undisturbed' /\ Secured'
  BY <1>1 DEF Undisturbed, InPlace, Secured, Passes
<1>8. SnapshotsAreWhole' /\ Fresh'
  BY <1>1, <1>3 DEF MigrationIInv, SnapshotsAreWhole, Fresh
<1> QED
  BY <1>4, <1>5, <1>6, <1>7, <1>8 DEF MigrationIInv
LEMMA MigrationIInvStep == MigrationIInv /\ [MigrationNext]_migrationVars => MigrationIInv'
<1> SUFFICES ASSUME MigrationIInv, [MigrationNext]_migrationVars PROVE MigrationIInv'
  OBVIOUS
<1>1. ASSUME NEW p \in Procs, ProcStep(p) PROVE MigrationIInv'
  <2>1. ASSUME NEW b \in Releases, MigrateForce(p, b) PROVE MigrationIInv'
    BY <2>1, ForceStep
  <2>2. ASSUME NEW b \in Releases, NEW serves \in BOOLEAN, Boot(p, b, serves) PROVE MigrationIInv'
    BY <2>2, BootStep
  <2> QED
    BY <1>1, <2>1, <2>2, ReadStep, ReuseStep, CopyStep, PlaceStep, PreflightStep, StartUpStep,
       MarkStep, ApplyStep, CleanStep, FinishStep, EndStep, WriteStep, UnmarkStep, UnapplyStep
       DEF ProcStep
<1>2. CASE UNCHANGED migrationVars
  BY <1>2 DEF migrationVars, MigrationIInv, MigrationTypeOK, Bearings, Alone, RollsBackAlone,
     Complete, Holds, Undisturbed, InPlace, Exact, SnapshotsAreWhole, Fresh, Secured, Passes, Owed,
     TakenForFresh, Admitted, Readings, Actual, NilVersion,
     Supported, Covered, Covers, Reusable, At
<1> QED
  BY <1>1, <1>2, RestoreStep DEF MigrationNext

(* Whatever starts, crashes, crosses, is forced, rolled back or restored: a clean
   file has the migrations its version says, a process alone finds what it left,
   and what it is about to change has a snapshot. *)
THEOREM MigrationInvariance == MigrationSpec => []MigrationIInv
BY InitImpliesMigrationIInv, MigrationIInvStep, PTL DEF MigrationSpec

(* The file, the snapshots and the processes keep their types. *)
THEOREM MigrationTypes == MigrationSpec => []MigrationTypeOK
<1>1. MigrationIInv => MigrationTypeOK
  BY DEF MigrationIInv
<1> QED
  BY <1>1, MigrationInvariance, PTL

(* What a start is about to do to a database can be undone. *)
THEOREM UpgradesCanBeUndone == MigrationSpec => []RollbackPoint
<1>1. MigrationIInv => RollbackPoint
  BY DEF MigrationIInv, Secured, Passes, Owed, Covered, Covers, Undoable, RollbackPoint
<1> QED
  BY <1>1, MigrationInvariance, PTL

(* A snapshot is all of a clean database at the version of its name. *)
THEOREM SnapshotsWhole == MigrationSpec => []SnapshotsAreWhole
<1>1. MigrationIInv => SnapshotsAreWhole
  BY DEF MigrationIInv
<1> QED
  BY <1>1, MigrationInvariance, PTL

(* Only Finish lets a server serve, and it has got to the last migration of its
   binary. *)
LEMMA ServeStep ==
    ASSUME MigrationIInv, MigrationNext, NEW p \in Procs, ~At(p, "serving"),
           proc'[p].step = "serving", ~blind
    PROVE  /\ 1 .. proc[p].binary \subseteq db.schema
           /\ db.schema = 1 .. proc[p].binary \/ overlap
<1> USE DEF At
<1>1. MigrationTypeOK /\ proc \in [Procs -> Processes]
  BY DEF MigrationIInv, MigrationTypeOK
<1>2. ASSUME NEW q \in Procs, NEW s \in Steps, Goto(q, s), s # "serving" PROVE FALSE
  BY <1>1, <1>2, GotoEffect DEF Others
<1>3. ASSUME NEW q \in Procs, NEW record \in Processes, Started(q, record),
              record.step # "serving"
       PROVE  FALSE
  BY <1>1, <1>3, RecordEffect DEF Others
<1>4. ASSUME NEW q \in Procs, ProcStep(q) PROVE Finish(p)
  <2>1. ASSUME NEW b \in Releases, MigrateForce(q, b) PROVE FALSE
    BY <1>1, <2>1 DEF MigrateForce, Started, Off
  <2>2. ASSUME NEW b \in Releases, NEW serves \in BOOLEAN, Boot(q, b, serves) PROVE FALSE
    BY <1>1, <2>2 DEF Boot, Started, Off
  <2>3. CASE Unmark(q)
    BY <1>1, <2>3 DEF Unmark, Started, Off
  <2>4. CASE End(q)
    BY <1>3, <2>4, OffIsProcess DEF End, Off
  <2>5. CASE ReadVersion(q) \/ Copy(q) \/ Place(q)
    BY <1>1, <2>5, ReadEffect, CopyEffect, PlaceEffect DEF Others
  <2>6. CASE StartUp(q)
    BY <1>1, <2>6 DEF StartUp
  <2>7. CASE Mark(q)
    BY <1>1, <2>7 DEF Mark
  <2>8. CASE Reuse(q) \/ Preflight(q) \/ Apply(q) \/ Clean(q) \/ Unapply(q)
    BY <1>2, <2>8 DEF Reuse, Preflight, Apply, Clean, Unapply, Steps
  <2>9. CASE Finish(q)
    BY <1>1, <2>9 DEF Finish, Goto, Started, Off
  <2>10. CASE Write(q)
    BY <2>10 DEF Write
  <2> QED
    BY <1>4, <2>1, <2>2, <2>3, <2>4, <2>5, <2>6, <2>7, <2>8, <2>9, <2>10 DEF ProcStep
<1>5. ASSUME NEW s \in snapshots, Restore(s) PROVE FALSE
  BY <1>5 DEF Restore
<1>6. Finish(p)
  BY <1>4, <1>5 DEF MigrationNext
<1>7. proc[p].step = "up" /\ proc[p].cur = proc[p].binary /\ proc[p].cur # 0
  BY <1>6 DEF MigrationIInv, Bearings, Versions, Finish
<1> QED
  BY <1>7 DEF MigrationIInv, Complete, Undisturbed, InPlace

(* A server starts to serve on a schema with every migration of its binary. *)
THEOREM NothingHalfMadeIsServed == MigrationSpec => ServedIsComplete
<1>1. MigrationIInv /\ [MigrationNext]_migrationVars
      => [\A p \in Procs : ~At(p, "serving") /\ proc'[p].step = "serving" /\ ~blind =>
             /\ 1 .. proc[p].binary \subseteq db.schema
             /\ db.schema = 1 .. proc[p].binary \/ overlap]_migrationVars
  BY ServeStep
<1> QED
  BY <1>1, MigrationInvariance, PTL DEF MigrationSpec, ServedIsComplete
=============================================================================
