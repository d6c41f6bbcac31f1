--------------------------- MODULE IngestionProofs ---------------------------
(***************************************************************************)
(* Proofs about Ingestion, for any sources, threads and durations:          *)
(* type correctness, and mutual exclusion of the runs of a source as long   *)
(* as a run is shorter than the lock's time to live.                        *)
(***************************************************************************)
EXTENDS Ingestion, TLAPS

\* Every variable keeps its type.
LEMMA TypeInit == Init => TypeOK
<1> SUFFICES ASSUME Init PROVE TypeOK
  OBVIOUS
<1>1. /\ timer \in [Sources -> Nat]
      /\ sinceSuccess \in [Sources -> Nat]
  BY ConstantsAssumption DEF ConstantsAssumption, Init
<1>2. /\ pc \in [Threads -> PCs]
      /\ key \in [Threads -> Sources \cup {NoSource}]
      /\ via \in [Threads -> Vias]
      /\ age \in [Threads -> 0 .. MaxRun]
      /\ mem \in [Threads -> Memory]
  BY ConstantsAssumption DEF ConstantsAssumption, Init, PCs, Vias, Memory, NoMemory
<1>3. /\ owner \in [Sources -> Threads \cup {NoThread}]
      /\ ttl \in [Sources -> 0 .. LockTTL]
      /\ failures \in [Sources -> 0 .. MaxDoublings]
      /\ sinceAttempt \in [Sources -> 0 .. BackoffCap]
      /\ cursor \in [Sources -> Nat]
      /\ stored \in [Sources -> SUBSET Nat]
      /\ openRuns \in [Sources -> Int]
      /\ upstream \in [Sources -> Nat]
      /\ faults \in 0 .. MaxFaults
  BY ConstantsAssumption DEF ConstantsAssumption, Init
<1> QED
  BY <1>1, <1>2, <1>3 DEF Init, TypeOK

\* A thread that ends leaves the variables of the threads in their types.
LEMMA ExitType ==
  ASSUME TypeOK, NEW t \in Threads, Exit(t)
  PROVE  /\ pc' \in [Threads -> PCs]
         /\ key' \in [Threads -> Sources \cup {NoSource}]
         /\ via' \in [Threads -> Vias]
         /\ age' \in [Threads -> 0 .. MaxRun]
         /\ mem' \in [Threads -> Memory]
BY ConstantsAssumption DEF ConstantsAssumption, Exit, TypeOK, PCs, Vias, Memory, NoMemory

\* So does a thread that leaves run_source, or run_worker.
LEMMA LeaveRunType ==
  ASSUME TypeOK, NEW t \in Threads, LeaveRun(t)
  PROVE  /\ pc' \in [Threads -> PCs]
         /\ key' \in [Threads -> Sources \cup {NoSource}]
         /\ via' \in [Threads -> Vias]
         /\ age' \in [Threads -> 0 .. MaxRun]
         /\ mem' \in [Threads -> Memory]
<1>1. CASE via[t] = "direct"
  BY <1>1, ExitType DEF LeaveRun
<1>2. CASE via[t] # "direct"
  BY <1>2 DEF LeaveRun, TypeOK, PCs, Running
<1> QED
  BY <1>1, <1>2

\* A thread that acquires a lock keeps threads and locks in their types.
LEMMA AcquireType ==
  ASSUME TypeOK, NEW t \in Threads, NEW s \in Sources, NEW v \in Vias,
         Acquire(t, s, v)
  PROVE  /\ pc' \in [Threads -> PCs]
         /\ key' \in [Threads -> Sources \cup {NoSource}]
         /\ via' \in [Threads -> Vias]
         /\ age' \in [Threads -> 0 .. MaxRun]
         /\ mem' \in [Threads -> Memory]
         /\ owner' \in [Sources -> Threads \cup {NoThread}]
         /\ ttl' \in [Sources -> 0 .. LockTTL]
BY ConstantsAssumption DEF ConstantsAssumption, Acquire, TypeOK, PCs, Running

\* A thread that is doing something does it for a source.
KeyKnown == \A t \in Threads : pc[t] # "idle" => key[t] \in Sources

TypeInv == TypeOK /\ KeyKnown

\* A commit keeps the stored items a set of items.
LEMMA CommitType ==
  ASSUME TypeInv, NEW t \in Threads, pc[t] # "idle", NEW n \in Nat, Commit(t, n)
  PROVE  stored' \in [Sources -> SUBSET Nat]
<1>1. key[t] \in Sources /\ mem[t].start \in Nat
  BY DEF TypeInv, TypeOK, KeyKnown, Memory
<1>2. stored[key[t]] \cup (mem[t].start + 1 .. n) \in SUBSET Nat
  BY <1>1 DEF TypeInv, TypeOK
<1>3. stored \in [Sources -> SUBSET Nat]
  BY DEF TypeInv, TypeOK
<1> QED
  BY <1>1, <1>2, <1>3 DEF Commit

\* The steps of a thread, one by one.
LEMMA ThreadStepType ==
  ASSUME TypeInv, NEW t \in Threads, ThreadStep(t)
  PROVE  TypeOK'
<1> USE DEF TypeInv
<1>1. CASE ManualStart(t)
  <2>1. CASE Free(key[t])
    BY <1>1, <2>1, ConstantsAssumption
       DEF ConstantsAssumption, ManualStart, TypeOK, KeyKnown, PCs, Running, processVars, dbVars, Free
  <2>2. CASE ~Free(key[t])
    BY <1>1, <2>2, ExitType DEF ManualStart, TypeOK, processVars, dbVars, lockVars
  <2> QED
    BY <2>1, <2>2
<1>2. CASE CheckDue(t)
  BY <1>2 DEF CheckDue, TypeOK, PCs, Running, processVars, dbVars, lockVars
<1>3. CASE BeginRun(t)
  BY <1>3, ConstantsAssumption
     DEF ConstantsAssumption, BeginRun, TypeOK, KeyKnown, PCs, Running, Memory, processVars, lockVars
<1>4. CASE Page(t)
  <2>1. PICK n \in mem[t].pos + 1 .. upstream[key[t]], remember \in BOOLEAN :
          mem' = [mem EXCEPT ![t].pos = n,
                             ![t].state = IF remember THEN n ELSE @]
    BY <1>4 DEF Page
  <2>2. n \in Nat /\ mem[t] \in Memory
    BY <1>4 DEF Page, TypeOK, KeyKnown, Memory
  <2>3. mem' \in [Threads -> Memory]
    BY <2>1, <2>2 DEF TypeOK, Memory
  <2> QED
    BY <1>4, <2>3 DEF Page, TypeOK, processVars, dbVars, lockVars
<1>5. CASE Checkpoint(t)
  <2>1. mem[t] \in Memory /\ key[t] \in Sources
    BY <1>5 DEF Checkpoint, TypeOK, KeyKnown
  <2>2. stored' \in [Sources -> SUBSET Nat]
    BY <1>5, <2>1, CommitType DEF Checkpoint, Memory
  <2> QED
    BY <1>5, <2>1, <2>2
       DEF Checkpoint, TypeOK, Memory, processVars, threadVars, lockVars
<1>6. CASE SyncDone(t)
  <2>1. PICK n \in Most(mem[t].pos, mem[t].target) .. upstream[key[t]] :
          /\ Commit(t, n)
          /\ mem' = [mem EXCEPT ![t].pos = n, ![t].state = n, ![t].ok = TRUE]
    BY <1>6 DEF SyncDone
  <2>2. n \in Nat /\ mem[t] \in Memory
    BY <1>6 DEF SyncDone, TypeOK, KeyKnown, Memory, Most
  <2>3. mem' \in [Threads -> Memory]
    BY <2>1, <2>2 DEF TypeOK, Memory
  <2>4. stored' \in [Sources -> SUBSET Nat]
    BY <1>6, <2>1, <2>2, CommitType DEF SyncDone
  <2>5. pc' \in [Threads -> PCs]
    BY <1>6 DEF SyncDone, TypeOK, PCs, Running
  <2> QED
    BY <1>6, <2>3, <2>4, <2>5 DEF SyncDone, TypeOK, processVars, lockVars
<1>7. CASE SyncError(t)
  BY <1>7 DEF SyncError, TypeOK, PCs, Running, processVars, dbVars, lockVars
<1>8. CASE FinishRun(t)
  <2>1. /\ openRuns' \in [Sources -> Int]
        /\ failures' \in [Sources -> 0 .. MaxDoublings]
        /\ sinceSuccess' \in [Sources -> Nat]
        /\ cursor' \in [Sources -> Nat]
    BY <1>8, ConstantsAssumption DEF ConstantsAssumption, FinishRun, TypeOK, KeyKnown, Memory, Least
  <2> QED
    BY <1>8, <2>1, LeaveRunType DEF FinishRun, TypeOK, processVars, lockVars
<1>9. CASE DatabaseFails(t)
  BY <1>9, LeaveRunType, ConstantsAssumption
     DEF ConstantsAssumption, DatabaseFails, TypeOK, dbVars, lockVars
<1>10. CASE ReleaseLock(t)
  <2>1. owner' \in [Sources -> Threads \cup {NoThread}]
    BY <1>10 DEF ReleaseLock, TypeOK, lockVars
  <2>2. ttl' \in [Sources -> 0 .. LockTTL]
    BY <1>10, ConstantsAssumption DEF ConstantsAssumption, ReleaseLock, TypeOK, lockVars
  <2> QED
    BY <1>10, <2>1, <2>2, ExitType DEF ReleaseLock, TypeOK, processVars, dbVars
<1>11. CASE ReleaseFails(t)
  BY <1>11, ExitType, ConstantsAssumption
     DEF ConstantsAssumption, ReleaseFails, TypeOK, processVars, dbVars, lockVars
<1> QED
  BY <1>1, <1>2, <1>3, <1>4, <1>5, <1>6, <1>7, <1>8, <1>9, <1>10, <1>11
     DEF ThreadStep

\* The steps taken for a source, one by one.
LEMMA SourceStepType ==
  ASSUME TypeInv, NEW s \in Sources, SourceStep(s)
  PROVE  TypeOK'
<1> USE DEF TypeInv
<1>1. CASE IntervalJob(s)
  <2>1. timer' \in [Sources -> Nat]
    BY <1>1, ConstantsAssumption DEF ConstantsAssumption, IntervalJob, TypeOK
  <2>2. CASE UNCHANGED <<threadVars, lockVars>>
    BY <1>1, <2>1, <2>2 DEF IntervalJob, TypeOK, threadVars, lockVars, dbVars
  <2>3. CASE \E t \in Threads : Acquire(t, s, "interval")
    BY <1>1, <2>1, <2>3, AcquireType DEF IntervalJob, TypeOK, dbVars, Vias
  <2> QED
    BY <1>1, <2>2, <2>3 DEF IntervalJob
<1>2. CASE BootstrapNext(s)
  <2>2. CASE UNCHANGED <<threadVars, lockVars>>
    BY <1>2, <2>2 DEF BootstrapNext, TypeOK, threadVars, lockVars, dbVars
  <2>3. CASE \E t \in Threads : Acquire(t, s, "bootstrap")
    BY <1>2, <2>3, AcquireType DEF BootstrapNext, TypeOK, dbVars, Vias
  <2> QED
    BY <1>2, <2>2, <2>3 DEF BootstrapNext
<1>3. CASE RequestRun(s)
  BY <1>3 DEF RequestRun, TypeOK, processVars, threadVars, lockVars, dbVars
<1>4. CASE PopTrigger(s)
  BY <1>4 DEF PopTrigger, TypeOK, PCs, Vias, processVars, lockVars, dbVars
<1>5. CASE StartDirect(s)
  BY <1>5 DEF StartDirect, TypeOK, PCs, Running, Vias, processVars, lockVars, dbVars
<1>6. CASE Publish(s)
  BY <1>6 DEF Publish, TypeOK, processVars, threadVars, lockVars, dbVars
<1> QED
  BY <1>1, <1>2, <1>3, <1>4, <1>5, <1>6 DEF SourceStep

\* The steps of the process as a whole, and the clock.
LEMMA ProcessStepType ==
  ASSUME TypeInv, BootstrapAborts \/ Crash \/ Start \/ Tick
  PROVE  TypeOK'
<1> USE DEF TypeInv
<1>1. CASE BootstrapAborts
  BY <1>1, ConstantsAssumption
     DEF ConstantsAssumption, BootstrapAborts, TypeOK, threadVars, lockVars, dbVars
<1>2. CASE Crash
  <2>1. /\ pc' \in [Threads -> PCs]
        /\ key' \in [Threads -> Sources \cup {NoSource}]
        /\ via' \in [Threads -> Vias]
        /\ age' \in [Threads -> 0 .. MaxRun]
        /\ mem' \in [Threads -> Memory]
    BY <1>2, ConstantsAssumption
       DEF ConstantsAssumption, Crash, TypeOK, PCs, Vias, Memory, NoMemory
  <2>2. /\ owner' \in [Sources -> Threads \cup {NoThread}]
        /\ ttl' \in [Sources -> 0 .. LockTTL]
    BY <1>2, ConstantsAssumption DEF ConstantsAssumption, Crash, TypeOK, lockVars
  <2>3. faults' \in 0 .. MaxFaults
    BY <1>2, ConstantsAssumption DEF ConstantsAssumption, Crash, TypeOK
  <2> QED
    BY <1>2, <2>1, <2>2, <2>3 DEF Crash, TypeOK, dbVars
<1>3. CASE Start
  <2>1. timer' \in [Sources -> Nat]
    BY <1>3, ConstantsAssumption DEF ConstantsAssumption, Start
  <2> QED
    BY <1>3, <2>1 DEF Start, TypeOK, threadVars, lockVars, dbVars
<1>4. CASE Tick
  <2>1. age' \in [Threads -> 0 .. MaxRun]
    <3> SUFFICES ASSUME NEW t \in Threads
                 PROVE  (IF pc[t] \in Running THEN age[t] + 1 ELSE age[t]) \in 0 .. MaxRun
      BY <1>4 DEF Tick
    <3> QED
      BY <1>4, ConstantsAssumption DEF ConstantsAssumption, Tick, TypeOK
  <2>2. /\ timer' \in [Sources -> Nat]
        /\ sinceAttempt' \in [Sources -> 0 .. BackoffCap]
        /\ sinceSuccess' \in [Sources -> Nat]
    BY <1>4, ConstantsAssumption DEF ConstantsAssumption, Tick, TypeOK, Least, Most
  <2>3. /\ owner' \in [Sources -> Threads \cup {NoThread}]
        /\ ttl' \in [Sources -> 0 .. LockTTL]
    BY <1>4, ConstantsAssumption DEF ConstantsAssumption, Tick, TypeOK, Most
  <2> QED
    BY <1>4, <2>1, <2>2, <2>3 DEF Tick, TypeOK
<1> QED
  BY <1>1, <1>2, <1>3, <1>4

\* Threads take and give up their source with their work.
LEMMA KeyKnownStep ==
  ASSUME TypeInv, [Next]_vars
  PROVE  KeyKnown'
<1> USE DEF TypeInv
<1>1. ASSUME NEW s \in Sources, SourceStep(s)
      PROVE  KeyKnown'
  <2>1. CASE UNCHANGED threadVars
    BY <2>1 DEF KeyKnown, threadVars
  <2>2. ASSUME NEW t \in Threads, NEW v \in Vias, Acquire(t, s, v)
        PROVE  KeyKnown'
    BY <2>2 DEF Acquire, KeyKnown, TypeOK
  <2>3. CASE PopTrigger(s) \/ StartDirect(s)
    BY <2>3 DEF PopTrigger, StartDirect, KeyKnown, TypeOK
  <2> QED
    BY <1>1, <2>1, <2>2, <2>3
       DEF SourceStep, IntervalJob, BootstrapNext, RequestRun, Publish, Vias
<1>2. ASSUME NEW t \in Threads, ThreadStep(t)
      PROVE  KeyKnown'
  <2>1. \/ Exit(t)
        \/ /\ \A u \in Threads \ {t} : pc'[u] = pc[u]
           /\ pc[t] # "idle"
           /\ UNCHANGED key
    BY <1>2 DEF ThreadStep, ManualStart, CheckDue, BeginRun, Page, Checkpoint,
                SyncDone, SyncError, FinishRun, DatabaseFails, ReleaseLock,
                ReleaseFails, LeaveRun, threadVars, TypeOK
  <2> QED
    BY <2>1 DEF Exit, KeyKnown, TypeOK
<1>3. CASE BootstrapAborts \/ Crash \/ Start \/ Tick
  BY <1>3 DEF BootstrapAborts, Crash, Start, Tick, KeyKnown, TypeOK, threadVars
<1>4. CASE UNCHANGED vars
  BY <1>4 DEF vars, threadVars, KeyKnown
<1> QED
  BY <1>1, <1>2, <1>3, <1>4 DEF Next

\* The type invariant and KeyKnown are kept by every step together.
LEMMA TypeInvStep ==
  ASSUME TypeInv, [Next]_vars
  PROVE  TypeInv'
<1>1. CASE UNCHANGED vars
  BY <1>1 DEF TypeInv, TypeOK, KeyKnown, vars, processVars, threadVars, lockVars, dbVars
<1>2. CASE Next
  BY <1>2, ThreadStepType, SourceStepType, ProcessStepType, KeyKnownStep
     DEF Next, TypeInv
<1> QED
  BY <1>1, <1>2

\* The variables of Ingestion always have their types.
THEOREM TypeCorrect == Spec => []TypeOK
<1>1. Init => TypeInv
  BY TypeInit DEF TypeInv, Init, KeyKnown
<1>2. TypeInv /\ [Next]_vars => TypeInv'
  BY TypeInvStep
<1>3. TypeInv => TypeOK
  BY DEF TypeInv
<1> QED
  BY <1>1, <1>2, <1>3, PTL DEF Spec

------------------------------------------------------------------------------
(* Mutual exclusion                                                         *)

\* A thread in run_source holds the lock of its source, and what is left of
\* the lock's time and what the run has used add up to at least the whole.
Holds(t) ==
    /\ owner[key[t]] = t
    /\ Redis => ttl[key[t]] + age[t] >= LockTTL

HoldersInv == \A t \in Threads : pc[t] \in Running /\ Scheduled(t) => Holds(t)

\* No one else can acquire a lock that a run holds.
LEMMA AcquireHolders ==
  ASSUME TypeInv, HoldersInv, NEW t \in Threads, NEW s \in Sources,
         NEW v \in Vias, Acquire(t, s, v)
  PROVE  HoldersInv'
<1> USE DEF TypeInv
<1> SUFFICES ASSUME NEW u \in Threads, pc'[u] \in Running, Scheduled(u)'
             PROVE  Holds(u)'
  BY DEF HoldersInv
<1>1. CASE u = t
  BY <1>1, ConstantsAssumption
     DEF ConstantsAssumption, Acquire, Holds, TypeOK
<1>2. CASE u # t
  <2>1. pc[u] \in Running /\ Scheduled(u) /\ key'[u] = key[u] /\ age'[u] = age[u]
    BY <1>2 DEF Acquire, TypeOK, Scheduled
  <2>2. Holds(u) /\ key[u] \in Sources
    BY <2>1 DEF HoldersInv, KeyKnown, Running
  <2>3. key[u] # s
    BY <2>2, ConstantsAssumption DEF ConstantsAssumption, Acquire, Free, Holds
  <2> QED
    BY <2>1, <2>2, <2>3 DEF Acquire, Holds, TypeOK
<1> QED
  BY <1>1, <1>2

\* A step that leaves the lock alone, moves threads inside run_source or out
\* of it, and moves none in, except where no lock is asked for.
LEMMA SameLockHolders ==
  ASSUME TypeInv, HoldersInv, UNCHANGED lockVars,
         \A u \in Threads :
           \/ pc'[u] \notin Running
           \/ via'[u] = "direct"
           \/ /\ pc[u] \in Running
              /\ key'[u] = key[u] /\ via'[u] = via[u] /\ age'[u] = age[u]
  PROVE  HoldersInv'
BY DEF HoldersInv, Holds, Scheduled, lockVars

\* The inductive invariant, kept by every step if runs are short enough.
LEMMA HoldersStep ==
  ASSUME Redis => MaxRun < LockTTL,
         TypeInv, HoldersInv, [Next]_vars
  PROVE  HoldersInv'
<1> USE DEF TypeInv
<1>1. ASSUME NEW s \in Sources, SourceStep(s)
      PROVE  HoldersInv'
  <2>1. CASE \E t \in Threads, v \in Vias : Acquire(t, s, v)
    BY <2>1, AcquireHolders
  <2>2. CASE UNCHANGED <<threadVars, lockVars>>
    BY <2>2, SameLockHolders DEF threadVars
  <2>3. CASE PopTrigger(s)
    BY <2>3, SameLockHolders DEF PopTrigger, TypeOK, Running
  <2>4. CASE StartDirect(s)
    BY <2>4, SameLockHolders DEF StartDirect, TypeOK
  <2> QED
    BY <1>1, <2>1, <2>2, <2>3, <2>4
       DEF SourceStep, IntervalJob, BootstrapNext, RequestRun, Publish, Vias
<1>2. ASSUME NEW t \in Threads, ThreadStep(t)
      PROVE  HoldersInv'
  <2>1. CASE ManualStart(t) /\ Free(key[t])
    <3> SUFFICES ASSUME NEW u \in Threads, pc'[u] \in Running, Scheduled(u)'
                 PROVE  Holds(u)'
      BY DEF HoldersInv
    <3>1. key[t] \in Sources
      BY <2>1 DEF ManualStart, KeyKnown
    <3>2. CASE u = t
      BY <2>1, <3>1, <3>2, ConstantsAssumption
         DEF ConstantsAssumption, ManualStart, Holds, TypeOK, Free
    <3>3. CASE u # t
      <4>1. pc[u] \in Running /\ Scheduled(u)
        BY <2>1, <3>3 DEF ManualStart, TypeOK, Scheduled, Free
      <4>2. Holds(u) /\ key[u] # key[t]
        BY <2>1, <4>1, ConstantsAssumption
           DEF ConstantsAssumption, HoldersInv, Holds, Free
      <4>3. owner'[key[u]] = owner[key[u]] /\ ttl'[key[u]] = ttl[key[u]]
        BY <2>1, <3>1, <4>1, <4>2 DEF ManualStart, TypeOK, KeyKnown, Running, Free
      <4>4. UNCHANGED <<key, age>>
        BY <2>1 DEF ManualStart, Free
      <4> QED
        BY <4>2, <4>3, <4>4 DEF Holds
    <3> QED
      BY <3>2, <3>3
  <2>2. CASE ManualStart(t) /\ ~Free(key[t])
    BY <2>2, SameLockHolders DEF ManualStart, Exit, TypeOK, Running
  <2>3. CASE CheckDue(t) \/ BeginRun(t) \/ Page(t) \/ Checkpoint(t)
             \/ SyncDone(t) \/ SyncError(t)
    <3>1. UNCHANGED <<lockVars, key, via, age>>
      BY <2>3 DEF CheckDue, BeginRun, Page, Checkpoint, SyncDone, SyncError, threadVars
    <3>2. pc[t] \in Running /\ \A u \in Threads \ {t} : pc'[u] = pc[u]
      BY <2>3 DEF CheckDue, BeginRun, Page, Checkpoint, SyncDone, SyncError,
                  threadVars, Running, TypeOK
    <3> QED
      BY <3>1, <3>2, SameLockHolders
  <2>4. CASE FinishRun(t) \/ DatabaseFails(t)
    <3>1. LeaveRun(t) /\ UNCHANGED lockVars /\ pc[t] \in Running
      BY <2>4 DEF FinishRun, DatabaseFails, Running
    <3> QED
      BY <3>1, SameLockHolders DEF LeaveRun, Exit, TypeOK, Running
  <2>5. CASE ReleaseFails(t)
    BY <2>5, SameLockHolders DEF ReleaseFails, Exit, TypeOK, Running
  <2>6. CASE ReleaseLock(t)
    <3> SUFFICES ASSUME NEW u \in Threads, pc'[u] \in Running, Scheduled(u)'
                 PROVE  Holds(u)'
      BY DEF HoldersInv
    <3>1. u # t
      BY <2>6 DEF ReleaseLock, Exit, TypeOK, Running
    <3>2. /\ pc[u] \in Running /\ Scheduled(u)
          /\ key'[u] = key[u] /\ age'[u] = age[u]
      BY <2>6, <3>1 DEF ReleaseLock, Exit, TypeOK, Scheduled
    <3>3. Holds(u) /\ key[u] \in Sources /\ key[t] \in Sources
      BY <2>6, <3>2 DEF HoldersInv, KeyKnown, ReleaseLock, Running
    <3>4. owner'[key[u]] = owner[key[u]] /\ ttl'[key[u]] = ttl[key[u]]
      BY <2>6, <3>1, <3>3 DEF ReleaseLock, Holds, TypeOK, lockVars
    <3> QED
      BY <3>2, <3>3, <3>4 DEF Holds
  <2> QED
    BY <1>2, <2>1, <2>2, <2>3, <2>4, <2>5, <2>6 DEF ThreadStep
<1>3. CASE BootstrapAborts \/ Start
  BY <1>3, SameLockHolders DEF BootstrapAborts, Start, threadVars
<1>4. CASE Crash
  BY <1>4 DEF Crash, HoldersInv, Scheduled, Running, TypeOK
<1>5. CASE Tick
  <2> SUFFICES ASSUME NEW u \in Threads, pc'[u] \in Running, Scheduled(u)'
               PROVE  Holds(u)'
    BY DEF HoldersInv
  <2>1. /\ pc[u] \in Running /\ key'[u] = key[u]
        /\ Holds(u) /\ key[u] \in Sources
    BY <1>5 DEF Tick, HoldersInv, KeyKnown, Running, Scheduled
  <2>2. age[u] < MaxRun /\ age'[u] = age[u] + 1
    BY <1>5, <2>1 DEF Tick
  <2>3. CASE Redis
    <3>1. /\ ttl[key[u]] \in Nat /\ age[u] \in Nat
          /\ ttl[key[u]] + age[u] >= LockTTL
      BY <2>1, <2>3, ConstantsAssumption DEF ConstantsAssumption, Holds, TypeOK
    <3>2. ttl[key[u]] > 1
      BY <2>2, <2>3, <3>1, ConstantsAssumption DEF ConstantsAssumption
    <3>3. ttl'[key[u]] = ttl[key[u]] - 1 /\ owner'[key[u]] = owner[key[u]]
      BY <1>5, <2>1, <2>3, <3>1, <3>2 DEF Tick, Most
    <3> QED
      BY <2>1, <2>2, <3>1, <3>3, ConstantsAssumption DEF ConstantsAssumption, Holds
  <2>4. CASE ~Redis
    BY <1>5, <2>1, <2>4 DEF Tick, Holds
  <2> QED
    BY <2>3, <2>4
<1>6. CASE UNCHANGED vars
  BY <1>6, SameLockHolders DEF vars, threadVars
<1> QED
  BY <1>1, <1>2, <1>3, <1>4, <1>5, <1>6 DEF Next

\* "A Redis lock prevents overlapping runs of the same source", given that
\* Redis is not used, or that no run takes as long as the lock lives.
THEOREM MutualExclusion ==
  ASSUME Redis => MaxRun < LockTTL
  PROVE  Spec => []NoOverlap
<1> DEFINE Inv == TypeInv /\ HoldersInv
<1>1. Init => Inv
  BY TypeInit DEF TypeInv, Init, KeyKnown, HoldersInv, Running
<1>2. Inv /\ [Next]_vars => Inv'
  BY TypeInvStep, HoldersStep
<1>3. Inv => NoOverlap
  BY DEF HoldersInv, Holds, NoOverlap, RunOf
<1> QED
  BY <1>1, <1>2, <1>3, PTL DEF Spec

------------------------------------------------------------------------------
(* The cursor never runs ahead of the data                                  *)

\* In a run, the items before its start are in the database, and ctx.state
\* lies between the start and the place read to; a run that succeeded has
\* committed everything its state covers.
RunCovered(t) ==
    /\ pc[t] \in {"sync", "record"} => 1 .. mem[t].start \subseteq stored[key[t]]
    /\ pc[t] = "sync" => mem[t].state <= mem[t].pos /\ ~mem[t].ok
    /\ pc[t] = "record" /\ mem[t].ok => 1 .. mem[t].state \subseteq stored[key[t]]

CoveredInv == RememberedIsStored /\ \A t \in Threads : RunCovered(t)

\* A step that adds nothing to a cursor and takes nothing from the database.
LEMMA SameCursorCovered ==
  ASSUME TypeInv, CoveredInv, UNCHANGED <<cursor, stored>>,
         \A u \in Threads :
           \/ pc'[u] \notin {"sync", "record"}
           \/ /\ pc'[u] = pc[u] /\ key'[u] = key[u] /\ mem'[u] = mem[u]
  PROVE  CoveredInv'
BY DEF CoveredInv, RememberedIsStored, RunCovered

\* What a commit adds: everything up to the place read to is stored, and
\* nothing of what was stored is lost.
LEMMA CommitCovers ==
  ASSUME TypeInv, CoveredInv, NEW t \in Threads, pc[t] = "sync",
         NEW n \in Nat, Commit(t, n)
  PROVE  /\ 1 .. n \subseteq stored'[key[t]]
         /\ \A s \in Sources : stored[s] \subseteq stored'[s]
<1>1. key[t] \in Sources /\ mem[t].start \in Nat
  BY DEF TypeInv, TypeOK, KeyKnown, Memory
<1>2. stored'[key[t]] = stored[key[t]] \cup (mem[t].start + 1 .. n)
  BY <1>1 DEF Commit, TypeInv, TypeOK
<1>3. \A s \in Sources : s # key[t] => stored'[s] = stored[s]
  BY DEF Commit, TypeInv, TypeOK
<1>4. 1 .. mem[t].start \subseteq stored[key[t]]
  BY DEF CoveredInv, RunCovered
<1> QED
  BY <1>1, <1>2, <1>3, <1>4

\* The inductive invariant: every step keeps cursors, and what running workers
\* will make of them, within what is stored.
LEMMA CoveredStep ==
  ASSUME TypeInv, CoveredInv, [Next]_vars
  PROVE  CoveredInv'
<1> USE DEF TypeInv
<1>1. ASSUME NEW s \in Sources, SourceStep(s)
      PROVE  CoveredInv'
  <2>1. UNCHANGED <<cursor, stored>>
    BY <1>1 DEF SourceStep, IntervalJob, BootstrapNext, RequestRun, PopTrigger,
                StartDirect, Publish, dbVars
  <2>2. \/ UNCHANGED threadVars
        \/ \E t \in Threads, v \in Vias : Acquire(t, s, v)
        \/ PopTrigger(s)
        \/ StartDirect(s)
    BY <1>1 DEF SourceStep, IntervalJob, BootstrapNext, RequestRun, Publish, Vias
  <2>3. CASE UNCHANGED threadVars
    BY <2>1, <2>3, SameCursorCovered DEF threadVars
  <2>4. CASE \E t \in Threads, v \in Vias : Acquire(t, s, v)
    BY <2>1, <2>4, SameCursorCovered DEF Acquire, TypeOK
  <2>5. CASE PopTrigger(s) \/ StartDirect(s)
    BY <2>1, <2>5, SameCursorCovered DEF PopTrigger, StartDirect, TypeOK
  <2> QED
    BY <2>2, <2>3, <2>4, <2>5
<1>2. ASSUME NEW t \in Threads, ThreadStep(t)
      PROVE  CoveredInv'
  <2>1. CASE ManualStart(t) \/ CheckDue(t) \/ ReleaseLock(t) \/ ReleaseFails(t)
             \/ DatabaseFails(t)
    <3>1. UNCHANGED <<cursor, stored>>
      BY <2>1 DEF ManualStart, CheckDue, ReleaseLock, ReleaseFails, DatabaseFails, dbVars
    <3> QED
      BY <2>1, <3>1, SameCursorCovered
         DEF ManualStart, CheckDue, ReleaseLock, ReleaseFails, DatabaseFails,
             LeaveRun, Exit, TypeOK
  <2>2. CASE BeginRun(t)
    <3>1. key[t] \in Sources
      BY <2>2 DEF BeginRun, KeyKnown
    <3>2. UNCHANGED <<cursor, stored, key>>
      BY <2>2 DEF BeginRun
    <3>3. RememberedIsStored'
      BY <3>2 DEF CoveredInv, RememberedIsStored
    <3>4. RunCovered(t)'
      <4>1. pc'[t] = "sync" /\ mem'[t].start = cursor[key[t]] /\ ~mem'[t].ok
            /\ mem'[t].state = cursor[key[t]] /\ mem'[t].pos = cursor[key[t]]
        BY <2>2 DEF BeginRun, TypeOK
      <4>2. cursor[key[t]] \in Nat
        BY <3>1 DEF TypeOK
      <4> QED
        BY <3>1, <3>2, <4>1, <4>2 DEF CoveredInv, RememberedIsStored, RunCovered
    <3>5. ASSUME NEW u \in Threads, u # t
          PROVE  RunCovered(u)'
      BY <2>2, <3>2, <3>5 DEF BeginRun, TypeOK, CoveredInv, RunCovered
    <3> QED
      BY <3>3, <3>4, <3>5 DEF CoveredInv
  <2>3. CASE Page(t)
    <3>1. PICK n \in mem[t].pos + 1 .. upstream[key[t]], remember \in BOOLEAN :
            mem' = [mem EXCEPT ![t].pos = n,
                               ![t].state = IF remember THEN n ELSE @]
      BY <2>3 DEF Page
    <3>2. /\ n \in Nat /\ mem[t].pos \in Nat /\ mem[t].state \in Nat
          /\ mem[t].pos < n /\ mem[t] \in Memory
      BY <2>3 DEF Page, TypeOK, KeyKnown, Memory
    <3>3. UNCHANGED <<cursor, stored, pc, key>>
      BY <2>3 DEF Page, dbVars
    <3>4. /\ mem'[t].start = mem[t].start /\ mem'[t].pos = n
          /\ mem'[t].state = IF remember THEN n ELSE mem[t].state
          /\ mem'[t].ok = mem[t].ok
      BY <3>1, <3>2 DEF TypeOK, Memory
    <3>5. RunCovered(t)'
      BY <2>3, <3>2, <3>3, <3>4 DEF Page, CoveredInv, RunCovered
    <3>6. ASSUME NEW u \in Threads, u # t
          PROVE  RunCovered(u)'
      <4>1. mem'[u] = mem[u]
        BY <3>1, <3>6 DEF TypeOK
      <4> QED
        BY <3>3, <4>1 DEF CoveredInv, RunCovered
    <3> QED
      BY <3>3, <3>5, <3>6 DEF CoveredInv, RememberedIsStored
  <2>4. CASE Checkpoint(t)
    <3>1. /\ pc[t] = "sync" /\ Commit(t, mem[t].pos)
          /\ cursor' = [cursor EXCEPT ![key[t]] = mem[t].state]
          /\ UNCHANGED threadVars
      BY <2>4 DEF Checkpoint
    <3>2. /\ mem[t].pos \in Nat /\ mem[t].state \in Nat
          /\ mem[t].state <= mem[t].pos /\ key[t] \in Sources
      BY <3>1 DEF TypeOK, KeyKnown, Memory, CoveredInv, RunCovered
    <3>3. /\ 1 .. mem[t].pos \subseteq stored'[key[t]]
          /\ \A s \in Sources : stored[s] \subseteq stored'[s]
      BY <3>1, <3>2, CommitCovers
    <3>4. RememberedIsStored'
      <4> SUFFICES ASSUME NEW s \in Sources
                   PROVE  1 .. cursor'[s] \subseteq stored'[s]
        BY DEF RememberedIsStored
      <4>1. CASE s = key[t]
        BY <3>1, <3>2, <3>3, <4>1 DEF TypeOK
      <4>2. CASE s # key[t]
        BY <3>1, <3>3, <4>2 DEF TypeOK, CoveredInv, RememberedIsStored
      <4> QED
        BY <4>1, <4>2
    <3>5. ASSUME NEW u \in Threads
          PROVE  RunCovered(u)'
      BY <3>1, <3>3 DEF threadVars, CoveredInv, RunCovered, KeyKnown
    <3> QED
      BY <3>4, <3>5 DEF CoveredInv
  <2>5. CASE SyncDone(t)
    <3>1. PICK n \in Most(mem[t].pos, mem[t].target) .. upstream[key[t]] :
            /\ Commit(t, n)
            /\ mem' = [mem EXCEPT ![t].pos = n, ![t].state = n, ![t].ok = TRUE]
      BY <2>5 DEF SyncDone
    <3>2. n \in Nat /\ mem[t] \in Memory
      BY <2>5 DEF SyncDone, TypeOK, KeyKnown, Memory, Most
    <3>3. /\ 1 .. n \subseteq stored'[key[t]]
          /\ \A s \in Sources : stored[s] \subseteq stored'[s]
      BY <2>5, <3>1, <3>2, CommitCovers DEF SyncDone
    <3>4. /\ mem'[t].start = mem[t].start /\ mem'[t].state = n
          /\ pc'[t] = "record" /\ UNCHANGED <<key, cursor>>
      BY <2>5, <3>1, <3>2 DEF SyncDone, TypeOK, Memory
    <3>5. RunCovered(t)'
      BY <2>5, <3>3, <3>4 DEF SyncDone, KeyKnown, CoveredInv, RunCovered
    <3>6. ASSUME NEW u \in Threads, u # t
          PROVE  RunCovered(u)'
      <4>1. mem'[u] = mem[u] /\ pc'[u] = pc[u]
        BY <2>5, <3>1, <3>6 DEF SyncDone, TypeOK
      <4> QED
        BY <3>3, <3>4, <4>1 DEF KeyKnown, CoveredInv, RunCovered
    <3>7. RememberedIsStored'
      BY <3>3, <3>4 DEF CoveredInv, RememberedIsStored
    <3> QED
      BY <3>5, <3>6, <3>7 DEF CoveredInv
  <2>6. CASE SyncError(t)
    <3>1. ~mem[t].ok
      BY <2>6 DEF SyncError, CoveredInv, RunCovered
    <3> QED
      BY <2>6, <3>1 DEF SyncError, TypeOK, dbVars, CoveredInv, RememberedIsStored,
                        RunCovered
  <2>7. CASE FinishRun(t)
    <3>1. /\ pc[t] = "record" /\ key[t] \in Sources /\ UNCHANGED stored
          /\ cursor' = [cursor EXCEPT ![key[t]] =
                          IF mem[t].ok THEN mem[t].state ELSE @]
      BY <2>7 DEF FinishRun, KeyKnown
    <3>2. RememberedIsStored'
      BY <3>1 DEF RememberedIsStored, CoveredInv, RunCovered, TypeOK
    <3>3. ASSUME NEW u \in Threads
          PROVE  RunCovered(u)'
      <4>1. \/ pc'[u] \notin {"sync", "record"}
            \/ pc'[u] = pc[u] /\ key'[u] = key[u] /\ mem'[u] = mem[u]
        BY <2>7 DEF FinishRun, LeaveRun, Exit, TypeOK
      <4> QED
        BY <3>1, <4>1 DEF CoveredInv, RunCovered
    <3> QED
      BY <3>2, <3>3 DEF CoveredInv
  <2> QED
    BY <1>2, <2>1, <2>2, <2>3, <2>4, <2>5, <2>6, <2>7 DEF ThreadStep
<1>3. CASE BootstrapAborts \/ Crash \/ Start \/ Tick
  <2>1. UNCHANGED <<cursor, stored>>
    BY <1>3 DEF BootstrapAborts, Crash, Start, Tick, dbVars
  <2>2. \A u \in Threads :
          \/ pc'[u] \notin {"sync", "record"}
          \/ pc'[u] = pc[u] /\ key'[u] = key[u] /\ mem'[u] = mem[u]
    BY <1>3 DEF BootstrapAborts, Crash, Start, Tick, threadVars, TypeOK
  <2> QED
    BY <2>1, <2>2, SameCursorCovered
<1>4. CASE UNCHANGED vars
  BY <1>4, SameCursorCovered DEF vars, threadVars, dbVars
<1> QED
  BY <1>1, <1>2, <1>3, <1>4 DEF Next

\* "No window is ever skipped": whatever fails, and even when runs overlap,
\* what a cursor covers is in the database.
THEOREM NothingSkipped == Spec => []RememberedIsStored
<1> DEFINE Inv == TypeInv /\ CoveredInv
<1>1. Init => Inv
  BY TypeInit DEF TypeInv, Init, KeyKnown, CoveredInv, RememberedIsStored, RunCovered
<1>2. Inv /\ [Next]_vars => Inv'
  BY TypeInvStep, CoveredStep
<1>3. Inv => RememberedIsStored
  BY DEF CoveredInv
<1> QED
  BY <1>1, <1>2, <1>3, PTL DEF Spec
==============================================================================
