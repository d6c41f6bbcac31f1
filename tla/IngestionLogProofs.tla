-------------------------- MODULE IngestionLogProofs --------------------------
(***************************************************************************)
(* More proofs about Ingestion, which rest on mutual exclusion: scheduled   *)
(* runs respect the backoff, rows of ingestion_runs are accounted for, and  *)
(* the scheduler implements SourceLog.                                      *)
(***************************************************************************)
EXTENDS IngestionProofs, FiniteSetTheorems

\* What IngestionProofs showed of every state, where runs are short enough.
ExclusiveInv == TypeInv /\ HoldersInv

\* The condition under which the lock outlives every run.
LockOutlivesRuns == Redis => MaxRun < LockTTL

\* A scheduled run of a source is alone.
LEMMA Alone ==
  ASSUME ExclusiveInv, NEW t \in Threads, NEW u \in Threads,
         pc[t] \in Running, pc[u] \in Running, Scheduled(t), Scheduled(u),
         key[t] = key[u]
  PROVE  t = u
BY DEF ExclusiveInv, HoldersInv, Holds

\* No run is going on at first.
LEMMA ExclusiveInit == Init => ExclusiveInv
BY TypeInit DEF TypeInv, Init, KeyKnown, ExclusiveInv, HoldersInv, Running

\* The types and the exclusion of runs are kept together.
LEMMA ExclusiveStep ==
  ASSUME LockOutlivesRuns, ExclusiveInv, [Next]_vars
  PROVE  ExclusiveInv'
BY TypeInvStep, HoldersStep DEF ExclusiveInv, LockOutlivesRuns

------------------------------------------------------------------------------
(* Where nobody runs collect_once.py, every thread is the scheduler's       *)

AllScheduled == \A t \in Threads : Scheduled(t)

\* Without collect --source, every run comes from the scheduler.
LEMMA AllScheduledStep ==
  ASSUME ~CollectOnce, TypeInv, AllScheduled, [Next]_vars
  PROVE  AllScheduled'
<1> USE DEF TypeInv
<1>1. ASSUME NEW s \in Sources, SourceStep(s)
      PROVE  AllScheduled'
  <2>1. \/ UNCHANGED via
        \/ \E t \in Threads, v \in Vias \ {"direct"} : via' = [via EXCEPT ![t] = v]
    BY <1>1 DEF SourceStep, IntervalJob, BootstrapNext, RequestRun, PopTrigger,
                StartDirect, Publish, Acquire, Vias, threadVars
  <2> QED
    BY <2>1 DEF AllScheduled, Scheduled, TypeOK
<1>2. ASSUME NEW t \in Threads, ThreadStep(t)
      PROVE  AllScheduled'
  <2>1. UNCHANGED via \/ via' = [via EXCEPT ![t] = "none"]
    BY <1>2 DEF ThreadStep, ManualStart, CheckDue, BeginRun, Page, Checkpoint,
                SyncDone, SyncError, FinishRun, DatabaseFails, ReleaseLock,
                ReleaseFails, LeaveRun, Exit, threadVars
  <2> QED
    BY <2>1 DEF AllScheduled, Scheduled, TypeOK
<1>3. CASE BootstrapAborts \/ Crash \/ Start \/ Tick
  BY <1>3 DEF BootstrapAborts, Crash, Start, Tick, AllScheduled, Scheduled, threadVars
<1>4. CASE UNCHANGED vars
  BY <1>4 DEF vars, threadVars, AllScheduled, Scheduled
<1> QED
  BY <1>1, <1>2, <1>3, <1>4 DEF Next

------------------------------------------------------------------------------
(* The scheduler implements SourceLog                                       *)

\* A run's state never falls behind the cursor it will replace, and neither
\* passes what the source has published.
RunAhead(t) ==
    /\ pc[t] = "sync" =>
         /\ cursor[key[t]] <= mem[t].state
         /\ mem[t].state <= mem[t].pos
         /\ mem[t].pos <= upstream[key[t]]
    /\ pc[t] = "record" /\ mem[t].ok =>
         /\ cursor[key[t]] <= mem[t].state
         /\ mem[t].state <= upstream[key[t]]

AheadInv ==
    /\ \A s \in Sources : cursor[s] <= upstream[s]
    /\ \A t \in Threads : RunAhead(t)

\* All that the refinement needs to know of a state.
LogInv == ExclusiveInv /\ AllScheduled /\ CoveredInv /\ AheadInv

\* What a step makes of the variables that SourceLog has.
LogMove ==
    \/ UNCHANGED <<upstream, stored, cursor>>
    \/ \E s \in Sources : Log!Publish(s) \/ Log!Import(s)

\* A step that leaves the three variables alone and takes no run into one of
\* its transactions.
LEMMA SameAhead ==
  ASSUME LogInv, UNCHANGED <<upstream, stored, cursor>>,
         \A u \in Threads :
           \/ pc'[u] \notin {"sync", "record"}
           \/ /\ pc'[u] = pc[u] /\ key'[u] = key[u] /\ mem'[u] = mem[u]
  PROVE  AheadInv' /\ LogMove
BY DEF LogInv, AheadInv, RunAhead, LogMove

\* The cursor of a source belongs to the run that is inside its transactions:
\* no other run's bounds move with it.
LEMMA OthersAhead ==
  ASSUME LogInv, NEW t \in Threads, pc[t] \in Running,
         UNCHANGED upstream,
         \A s \in Sources \ {key[t]} : cursor'[s] = cursor[s],
         NEW u \in Threads, u # t,
         pc'[u] = pc[u], key'[u] = key[u], mem'[u] = mem[u]
  PROVE  RunAhead(u)'
<1>1. CASE pc[u] \in {"sync", "record"}
  <2>1. key[u] # key[t] /\ key[u] \in Sources
    BY <1>1, Alone DEF LogInv, AllScheduled, ExclusiveInv, TypeInv, KeyKnown, Running
  <2>2. cursor'[key[u]] = cursor[key[u]]
    BY <2>1
  <2>3. RunAhead(u)
    BY DEF LogInv, AheadInv
  <2> QED
    BY <2>2, <2>3 DEF RunAhead
<1>2. CASE pc[u] \notin {"sync", "record"}
  BY <1>2 DEF RunAhead
<1> QED
  BY <1>1, <1>2

\* Storing the items up to m and moving the cursor to a place that is stored
\* is an import of SourceLog.
LEMMA IsImport ==
  ASSUME TypeInv, NEW s \in Sources,
         NEW m \in cursor[s] .. upstream[s], NEW c \in cursor[s] .. upstream[s],
         stored' = [stored EXCEPT ![s] = @ \cup 1 .. m],
         1 .. c \subseteq stored'[s],
         cursor' = [cursor EXCEPT ![s] = c],
         UNCHANGED upstream
  PROVE  Log!Import(s)
BY DEF Log!Import

\* A commit at n stores the items up to n, as those before its start are there.
LEMMA CommitStores ==
  ASSUME TypeInv, CoveredInv, NEW t \in Threads, pc[t] = "sync",
         NEW n \in Nat, Commit(t, n)
  PROVE  stored' = [stored EXCEPT ![key[t]] = @ \cup 1 .. n]
<1>1. key[t] \in Sources /\ mem[t].start \in Nat
  BY DEF TypeInv, TypeOK, KeyKnown, Memory
<1>2. 1 .. mem[t].start \subseteq stored[key[t]]
  BY DEF CoveredInv, RunCovered
<1>3. stored[key[t]] \cup (mem[t].start + 1 .. n) = stored[key[t]] \cup 1 .. n
  BY <1>1, <1>2
<1> QED
  BY <1>3 DEF Commit

\* Every step moves the three variables as SourceLog allows.
LEMMA LogStep ==
  ASSUME LogInv, [Next]_vars
  PROVE  AheadInv' /\ LogMove
<1> USE DEF LogInv, ExclusiveInv, TypeInv
<1>1. ASSUME NEW s \in Sources, SourceStep(s)
      PROVE  AheadInv' /\ LogMove
  <2>1. CASE Publish(s)
    <3>1. upstream' = [upstream EXCEPT ![s] = @ + 1] /\ UNCHANGED <<stored, cursor, threadVars>>
      BY <2>1 DEF Publish, dbVars
    <3>2. LogMove
      BY <3>1 DEF LogMove, Log!Publish
    <3>3. \A r \in Sources : upstream'[r] >= upstream[r] /\ upstream'[r] \in Nat
      BY <3>1 DEF TypeOK
    <3>4. \A r \in Sources : cursor'[r] <= upstream'[r]
      BY <3>1, <3>3 DEF AheadInv, TypeOK
    <3>5. ASSUME NEW u \in Threads
          PROVE  RunAhead(u)'
      BY <3>1, <3>3 DEF AheadInv, RunAhead, TypeOK, Memory, KeyKnown, threadVars
    <3> QED
      BY <3>2, <3>4, <3>5 DEF AheadInv
  <2>2. CASE ~Publish(s)
    <3>1. UNCHANGED <<upstream, stored, cursor>>
      BY <1>1, <2>2 DEF SourceStep, IntervalJob, BootstrapNext, RequestRun,
                        PopTrigger, StartDirect, dbVars
    <3>2. \/ UNCHANGED threadVars
          \/ \E t \in Threads, v \in Vias : Acquire(t, s, v)
          \/ PopTrigger(s)
          \/ StartDirect(s)
      BY <1>1, <2>2 DEF SourceStep, IntervalJob, BootstrapNext, RequestRun, Vias
    <3> QED
      BY <3>1, <3>2, SameAhead
         DEF threadVars, Acquire, PopTrigger, StartDirect, TypeOK
  <2> QED
    BY <2>1, <2>2
<1>2. ASSUME NEW t \in Threads, ThreadStep(t)
      PROVE  AheadInv' /\ LogMove
  <2>1. CASE ManualStart(t) \/ CheckDue(t) \/ ReleaseLock(t) \/ ReleaseFails(t)
             \/ DatabaseFails(t)
    <3>1. UNCHANGED <<upstream, stored, cursor>>
      BY <2>1 DEF ManualStart, CheckDue, ReleaseLock, ReleaseFails, DatabaseFails, dbVars
    <3> QED
      BY <2>1, <3>1, SameAhead
         DEF ManualStart, CheckDue, ReleaseLock, ReleaseFails, DatabaseFails,
             LeaveRun, Exit, TypeOK
  <2>2. CASE BeginRun(t)
    <3>1. /\ UNCHANGED <<upstream, stored, cursor, key>>
          /\ pc[t] \in Running /\ key[t] \in Sources
      BY <2>2 DEF BeginRun, Running, KeyKnown
    <3>2. /\ pc'[t] = "sync" /\ mem'[t].state = cursor[key[t]]
          /\ mem'[t].pos = cursor[key[t]]
      BY <2>2 DEF BeginRun, TypeOK
    <3>3. RunAhead(t)'
      BY <3>1, <3>2 DEF AheadInv, RunAhead, TypeOK
    <3>4. ASSUME NEW u \in Threads, u # t
          PROVE  RunAhead(u)'
      BY <2>2, <3>1, <3>4, OthersAhead DEF BeginRun, TypeOK
    <3> QED
      BY <3>1, <3>3, <3>4 DEF AheadInv, LogMove
  <2>3. CASE Page(t)
    <3>1. PICK n \in mem[t].pos + 1 .. upstream[key[t]], remember \in BOOLEAN :
            mem' = [mem EXCEPT ![t].pos = n,
                               ![t].state = IF remember THEN n ELSE @]
      BY <2>3 DEF Page
    <3>2. /\ UNCHANGED <<upstream, stored, cursor, pc, key>>
          /\ pc[t] = "sync" /\ key[t] \in Sources
      BY <2>3 DEF Page, dbVars, KeyKnown
    <3>3. /\ mem[t] \in Memory /\ mem[t].pos \in Nat /\ mem[t].state \in Nat
          /\ cursor[key[t]] \in Nat /\ upstream[key[t]] \in Nat
      BY <3>2 DEF TypeOK, Memory
    <3>4. /\ mem'[t].pos = n
          /\ mem'[t].state = IF remember THEN n ELSE mem[t].state
      BY <3>1, <3>3 DEF TypeOK, Memory
    <3>5. RunAhead(t)'
      BY <3>2, <3>3, <3>4 DEF AheadInv, RunAhead
    <3>6. ASSUME NEW u \in Threads, u # t
          PROVE  RunAhead(u)'
      <4>1. mem'[u] = mem[u]
        BY <3>1, <3>6 DEF TypeOK
      <4> QED
        BY <3>2, <4>1 DEF AheadInv, RunAhead
    <3> QED
      BY <3>2, <3>5, <3>6 DEF AheadInv, LogMove
  <2>4. CASE Checkpoint(t)
    <3>1. /\ pc[t] = "sync" /\ Commit(t, mem[t].pos)
          /\ cursor' = [cursor EXCEPT ![key[t]] = mem[t].state]
          /\ UNCHANGED threadVars /\ UNCHANGED upstream
      BY <2>4 DEF Checkpoint
    <3>2. /\ mem[t].pos \in Nat /\ mem[t].state \in Nat /\ key[t] \in Sources
          /\ cursor[key[t]] \in Nat /\ upstream[key[t]] \in Nat
      BY <3>1 DEF TypeOK, KeyKnown, Memory
    <3>3. /\ cursor[key[t]] <= mem[t].state /\ mem[t].state <= mem[t].pos
          /\ mem[t].pos <= upstream[key[t]]
      BY <3>1 DEF AheadInv, RunAhead
    <3>4. stored' = [stored EXCEPT ![key[t]] = @ \cup 1 .. mem[t].pos]
      BY <3>1, <3>2, CommitStores
    <3>5. 1 .. mem[t].state \subseteq stored'[key[t]]
      <4>1. 1 .. mem[t].pos \subseteq stored'[key[t]]
        BY <3>2, <3>4 DEF TypeOK
      <4> QED
        BY <3>2, <3>3, <4>1
    <3>6. Log!Import(key[t])
      <4>1. /\ mem[t].pos \in cursor[key[t]] .. upstream[key[t]]
            /\ mem[t].state \in cursor[key[t]] .. upstream[key[t]]
        BY <3>2, <3>3
      <4> HIDE DEF LogInv, ExclusiveInv, TypeInv
      <4> QED
        BY <3>1, <3>2, <3>4, <3>5, <4>1, IsImport DEF LogInv, ExclusiveInv
    <3>7. \A s \in Sources : cursor'[s] <= upstream'[s]
      BY <3>1, <3>2, <3>3 DEF AheadInv, TypeOK
    <3>8. RunAhead(t)'
      BY <3>1, <3>2, <3>3 DEF RunAhead, threadVars, TypeOK
    <3>9. ASSUME NEW u \in Threads, u # t
          PROVE  RunAhead(u)'
      BY <3>1, <3>9, OthersAhead DEF threadVars, TypeOK, Running
    <3> QED
      BY <3>2, <3>6, <3>7, <3>8, <3>9 DEF AheadInv, LogMove
  <2>5. CASE SyncDone(t)
    <3>1. PICK n \in Most(mem[t].pos, mem[t].target) .. upstream[key[t]] :
            /\ Commit(t, n)
            /\ mem' = [mem EXCEPT ![t].pos = n, ![t].state = n, ![t].ok = TRUE]
      BY <2>5 DEF SyncDone
    <3>2. /\ pc[t] = "sync" /\ key[t] \in Sources
          /\ pc' = [pc EXCEPT ![t] = "record"]
          /\ UNCHANGED <<upstream, cursor, key>>
      BY <2>5 DEF SyncDone, KeyKnown
    <3>3. /\ mem[t] \in Memory /\ mem[t].pos \in Nat /\ mem[t].target \in Nat
          /\ mem[t].state \in Nat
          /\ cursor[key[t]] \in Nat /\ upstream[key[t]] \in Nat
      BY <3>2 DEF TypeOK, Memory
    <3>4. n \in Nat /\ mem[t].pos <= n /\ n <= upstream[key[t]]
      BY <3>1, <3>3 DEF Most
    <3>5. cursor[key[t]] <= n
      BY <3>2, <3>3, <3>4 DEF AheadInv, RunAhead
    <3>6. stored' = [stored EXCEPT ![key[t]] = @ \cup 1 .. n]
      BY <3>1, <3>2, <3>4, CommitStores
    <3>7. Log!Import(key[t])
      <4>1. 1 .. cursor[key[t]] \subseteq stored'[key[t]]
        BY <3>2, <3>6 DEF CoveredInv, RememberedIsStored, TypeOK
      <4>2. cursor' = [cursor EXCEPT ![key[t]] = cursor[key[t]]]
        BY <3>2 DEF TypeOK
      <4>3. /\ n \in cursor[key[t]] .. upstream[key[t]]
            /\ cursor[key[t]] \in cursor[key[t]] .. upstream[key[t]]
        BY <3>3, <3>4, <3>5
      <4> HIDE DEF LogInv, ExclusiveInv, TypeInv
      <4> QED
        BY <3>2, <3>6, <4>1, <4>2, <4>3, IsImport DEF LogInv, ExclusiveInv
    <3>8. RunAhead(t)'
      <4>1. mem'[t].state = n /\ pc'[t] = "record"
        BY <3>1, <3>2, <3>3 DEF TypeOK, Memory
      <4> QED
        BY <3>2, <3>4, <3>5, <4>1 DEF RunAhead
    <3>9. ASSUME NEW u \in Threads, u # t
          PROVE  RunAhead(u)'
      <4>1. mem'[u] = mem[u] /\ pc'[u] = pc[u]
        BY <3>1, <3>2, <3>9 DEF TypeOK
      <4> QED
        BY <3>2, <4>1 DEF AheadInv, RunAhead
    <3> QED
      BY <3>2, <3>7, <3>8, <3>9 DEF AheadInv, LogMove
  <2>6. CASE SyncError(t)
    <3>1. UNCHANGED <<upstream, stored, cursor, key, mem>>
          /\ pc' = [pc EXCEPT ![t] = "record"]
      BY <2>6 DEF SyncError, dbVars
    <3>2. ~mem[t].ok
      BY <2>6 DEF SyncError, CoveredInv, RunCovered
    <3> QED
      BY <3>1, <3>2 DEF TypeOK, AheadInv, RunAhead, LogMove
  <2>7. CASE FinishRun(t)
    <3>1. /\ pc[t] = "record" /\ key[t] \in Sources
          /\ UNCHANGED <<upstream, stored>> /\ LeaveRun(t)
          /\ cursor' = [cursor EXCEPT ![key[t]] =
                          IF mem[t].ok THEN mem[t].state ELSE @]
      BY <2>7 DEF FinishRun, KeyKnown
    <3>2. /\ mem[t].state \in Nat /\ cursor[key[t]] \in Nat
          /\ upstream[key[t]] \in Nat /\ mem[t].ok \in BOOLEAN
      BY <3>1 DEF TypeOK, Memory
    <3>3. PICK c \in Nat :
            /\ cursor' = [cursor EXCEPT ![key[t]] = c]
            /\ cursor[key[t]] <= c /\ c <= upstream[key[t]]
            /\ 1 .. c \subseteq stored[key[t]]
      <4>1. CASE mem[t].ok
        BY <3>1, <3>2, <4>1 DEF AheadInv, RunAhead, CoveredInv, RunCovered
      <4>2. CASE ~mem[t].ok
        <5>1. cursor' = [cursor EXCEPT ![key[t]] = cursor[key[t]]]
          BY <3>1, <4>2
        <5>2. cursor[key[t]] <= cursor[key[t]] /\ cursor[key[t]] <= upstream[key[t]]
          BY <3>1, <3>2 DEF AheadInv
        <5>3. 1 .. cursor[key[t]] \subseteq stored[key[t]]
          BY <3>1 DEF CoveredInv, RememberedIsStored
        <5> QED
          BY <3>2, <5>1, <5>2, <5>3
      <4> QED
        BY <4>1, <4>2
    <3>4. Log!Import(key[t])
      <4>1. stored' = [stored EXCEPT ![key[t]] = @ \cup 1 .. cursor[key[t]]]
        <5>1. stored[key[t]] \cup 1 .. cursor[key[t]] = stored[key[t]]
          BY <3>1 DEF CoveredInv, RememberedIsStored
        <5> QED
          BY <3>1, <5>1 DEF TypeOK
      <4>2. /\ cursor[key[t]] \in cursor[key[t]] .. upstream[key[t]]
            /\ c \in cursor[key[t]] .. upstream[key[t]]
        BY <3>2, <3>3
      <4> HIDE DEF LogInv, ExclusiveInv, TypeInv
      <4> QED
        BY <3>1, <3>3, <4>1, <4>2, IsImport DEF LogInv, ExclusiveInv
    <3>5. \A s \in Sources : cursor'[s] <= upstream'[s]
      BY <3>1, <3>3 DEF AheadInv, TypeOK
    <3>6. RunAhead(t)'
      BY <3>1 DEF LeaveRun, Exit, RunAhead, TypeOK
    <3>7. ASSUME NEW u \in Threads, u # t
          PROVE  RunAhead(u)'
      <4>1. pc'[u] = pc[u] /\ key'[u] = key[u] /\ mem'[u] = mem[u]
        BY <3>1, <3>7 DEF LeaveRun, Exit, TypeOK
      <4> QED
        BY <3>1, <3>7, <4>1, OthersAhead DEF Running, TypeOK
    <3> QED
      BY <3>1, <3>4, <3>5, <3>6, <3>7 DEF AheadInv, LogMove
  <2> QED
    BY <1>2, <2>1, <2>2, <2>3, <2>4, <2>5, <2>6, <2>7 DEF ThreadStep
<1>3. CASE BootstrapAborts \/ Crash \/ Start \/ Tick
  <2>1. UNCHANGED <<upstream, stored, cursor>>
    BY <1>3 DEF BootstrapAborts, Crash, Start, Tick, dbVars
  <2>2. \A u \in Threads :
          \/ pc'[u] \notin {"sync", "record"}
          \/ pc'[u] = pc[u] /\ key'[u] = key[u] /\ mem'[u] = mem[u]
    BY <1>3 DEF BootstrapAborts, Crash, Start, Tick, threadVars, TypeOK
  <2> QED
    BY <2>1, <2>2, SameAhead
<1>4. CASE UNCHANGED vars
  BY <1>4, SameAhead DEF vars, threadVars, dbVars
<1> QED
  BY <1>1, <1>2, <1>3, <1>4 DEF Next

\* LogInv holds in every state, where runs exclude each other.
LEMMA LogInvStep ==
  ASSUME LockOutlivesRuns, ~CollectOnce, LogInv, [Next]_vars
  PROVE  LogInv'
BY ExclusiveStep, AllScheduledStep, CoveredStep, LogStep DEF LogInv, ExclusiveInv

\* The log is empty, and so is what any run remembers.
LEMMA LogInvInit == Init => LogInv
<1>1. Init => AllScheduled /\ CoveredInv /\ AheadInv
  BY DEF Init, AllScheduled, Scheduled, CoveredInv, RememberedIsStored, RunCovered,
         AheadInv, RunAhead
<1> QED
  BY <1>1, ExclusiveInit DEF LogInv

\* "Items are never lost, the cursor never moves back and never covers what is
\* not stored", whatever crashes and fails, provided that the lock outlives
\* every run and that nobody collects beside the scheduler.
THEOREM ImplementsLog ==
  ASSUME Redis => MaxRun < LockTTL, ~CollectOnce
  PROVE  Spec => ImplementsSourceLog
<1>1. Init => Log!Init
  BY DEF Init, Log!Init
<1>2. LogInv /\ [Next]_vars => [Log!Next]_(Log!vars)
  BY LogStep DEF LogMove, Log!Next, Log!vars
<1>3. LogInv /\ [Next]_vars => LogInv'
  BY LogInvStep DEF LockOutlivesRuns
<1> QED
  BY <1>1, <1>2, <1>3, LogInvInit, PTL DEF Spec, ImplementsSourceLog, Log!Spec

------------------------------------------------------------------------------
(* The backoff check is still true when the run starts                      *)

Unforced == {"interval", "bootstrap"}

\* Between the check and the first transaction the source stays due.
DueInv ==
    \A t \in Threads : pc[t] = "ready" /\ via[t] \in Unforced => Due(key[t])

\* A source that is due stays so while time passes: the age of an attempt stops
\* at the largest backoff there is.
LEMMA TickDue ==
  ASSUME TypeOK, NEW s \in Sources, Due(s), Tick
  PROVE  Due(s)'
<1>1. UNCHANGED failures /\ sinceAttempt'[s] = Least(sinceAttempt[s] + 1, BackoffCap)
  BY DEF Tick
<1>2. /\ failures[s] \in Nat /\ sinceAttempt[s] \in 0 .. BackoffCap
      /\ Interval[s] \in Nat /\ BackoffCap \in Nat
  BY ConstantsAssumption DEF ConstantsAssumption, TypeOK
<1>3. Backoff(s)' = Backoff(s)
  BY <1>1 DEF Backoff
<1>4. 2 ^ failures[s] \in Int
  BY <1>2, SMT
<1>5. Interval[s] * 2 ^ failures[s] \in Int
  BY <1>2, <1>4, SMT
<1>6. Backoff(s) \in Int /\ Backoff(s) <= BackoffCap
  BY <1>2, <1>5 DEF Backoff, Least
<1> QED
  BY <1>1, <1>2, <1>3, <1>6 DEF Due, Least

\* A step that touches no row of sources and moves no thread to "ready".
LEMMA SameDue ==
  ASSUME DueInv, UNCHANGED <<failures, sinceAttempt>>,
         \A u \in Threads :
           \/ pc'[u] # "ready"
           \/ pc'[u] = pc[u] /\ key'[u] = key[u] /\ via'[u] = via[u]
  PROVE  DueInv'
BY DEF DueInv, Due, Backoff

\* Time only brings a source closer to the end of its backoff.
LEMMA DueStep ==
  ASSUME ExclusiveInv, AllScheduled, DueInv, ~CollectOnce, [Next]_vars
  PROVE  DueInv'
<1> USE DEF ExclusiveInv, TypeInv
<1>1. ASSUME NEW s \in Sources, SourceStep(s)
      PROVE  DueInv'
  <2>1. UNCHANGED <<failures, sinceAttempt>>
    BY <1>1 DEF SourceStep, IntervalJob, BootstrapNext, RequestRun, PopTrigger,
                StartDirect, Publish, dbVars
  <2>2. \/ UNCHANGED threadVars
        \/ \E t \in Threads, v \in Vias : Acquire(t, s, v)
        \/ PopTrigger(s)
    BY <1>1 DEF SourceStep, IntervalJob, BootstrapNext, RequestRun, StartDirect,
                Publish, Vias
  <2> QED
    BY <2>1, <2>2, SameDue DEF threadVars, Acquire, PopTrigger, TypeOK
<1>2. ASSUME NEW t \in Threads, ThreadStep(t)
      PROVE  DueInv'
  <2>1. CASE CheckDue(t)
    BY <2>1 DEF CheckDue, DueInv, Due, Backoff, Unforced, TypeOK, dbVars
  <2>2. CASE BeginRun(t) \/ FinishRun(t)
    <3>1. /\ pc[t] \in Running /\ key[t] \in Sources
          /\ \A r \in Sources \ {key[t]} :
               failures'[r] = failures[r] /\ sinceAttempt'[r] = sinceAttempt[r]
      BY <2>2 DEF BeginRun, FinishRun, Running, KeyKnown, TypeOK
    <3>2. /\ pc'[t] # "ready"
          /\ \A u \in Threads \ {t} :
               pc'[u] = pc[u] /\ key'[u] = key[u] /\ via'[u] = via[u]
      BY <2>2 DEF BeginRun, FinishRun, LeaveRun, Exit, TypeOK
    <3>3. ASSUME NEW u \in Threads, u # t, pc[u] = "ready"
          PROVE  key[u] \in Sources \ {key[t]}
      BY <3>1, <3>3, Alone DEF AllScheduled, Running, KeyKnown
    <3> QED
      BY <3>1, <3>2, <3>3 DEF DueInv, Due, Backoff
  <2>3. CASE ~CheckDue(t) /\ ~BeginRun(t) /\ ~FinishRun(t)
    <3>1. UNCHANGED <<failures, sinceAttempt>>
      BY <1>2, <2>3 DEF ThreadStep, ManualStart, Page, Checkpoint, SyncDone, SyncError,
                        DatabaseFails, ReleaseLock, ReleaseFails, dbVars
    <3>2. \A u \in Threads :
            \/ pc'[u] # "ready"
            \/ pc'[u] = pc[u] /\ key'[u] = key[u] /\ via'[u] = via[u]
      BY <1>2, <2>3 DEF ThreadStep, ManualStart, Page, Checkpoint, SyncDone, SyncError,
                        DatabaseFails, ReleaseLock, ReleaseFails, LeaveRun, Exit,
                        threadVars, TypeOK
    <3> QED
      BY <3>1, <3>2, SameDue
  <2> QED
    BY <2>1, <2>2, <2>3
<1>3. CASE BootstrapAborts \/ Crash \/ Start
  BY <1>3, SameDue DEF BootstrapAborts, Crash, Start, threadVars, dbVars, TypeOK
<1>4. CASE Tick
  BY <1>4, TickDue DEF Tick, DueInv, KeyKnown
<1>5. CASE UNCHANGED vars
  BY <1>5, SameDue DEF vars, threadVars, dbVars
<1> QED
  BY <1>1, <1>2, <1>3, <1>4, <1>5 DEF Next

\* A run that nobody asked for starts only when the backoff of its source has
\* passed, although the check and the attempt are two transactions: the lock
\* keeps every other attempt out between them.
THEOREM BackoffKept ==
  ASSUME Redis => MaxRun < LockTTL, ~CollectOnce
  PROVE  Spec => BackoffRespected
<1> DEFINE Inv == ExclusiveInv /\ AllScheduled /\ DueInv
<1>1. Init => Inv
  BY ExclusiveInit DEF Init, AllScheduled, Scheduled, DueInv
<1>2. Inv /\ [Next]_vars => Inv'
  BY ExclusiveStep, AllScheduledStep, DueStep DEF LockOutlivesRuns, ExclusiveInv
<1>3. Inv => \A t \in Threads :
               (pc[t] = "ready" /\ pc'[t] = "sync" /\ via[t] \in {"interval", "bootstrap"})
                 => Due(key[t])
  BY DEF DueInv, Unforced
<1> QED
  BY <1>1, <1>2, <1>3, PTL DEF Spec, BackoffRespected

------------------------------------------------------------------------------
(* Every row of ingestion_runs that says "running" is accounted for         *)

\* The threads between the transaction that opens a row and the one that
\* closes it.
Open(s) == {t \in Threads : pc[t] \in {"sync", "record"} /\ key[t] = s}

OpenInv == \A s \in Sources : openRuns[s] <= faults + Cardinality(Open(s))

\* A source has finitely many open runs.
LEMMA OpenFinite ==
  ASSUME NEW s
  PROVE  /\ IsFiniteSet(Open(s)) /\ Cardinality(Open(s)) \in Nat
         /\ IsFiniteSet(Open(s)') /\ Cardinality(Open(s)') \in Nat
<1>1. IsFiniteSet(Threads)
  BY ConstantsAssumption DEF ConstantsAssumption
<1>2. Open(s) \in SUBSET Threads /\ Open(s)' \in SUBSET Threads
  BY DEF Open
<1> QED
  BY <1>1, <1>2, FS_Subset, FS_CardinalityType

\* A step that opens and closes nothing.
LEMMA SameOpen ==
  ASSUME OpenInv, UNCHANGED <<openRuns, faults>>,
         \A s \in Sources : Open(s)' = Open(s)
  PROVE  OpenInv'
BY DEF OpenInv

\* A row is opened as a thread enters Open, or closed as one leaves it.
LEMMA OpenMoves ==
  ASSUME TypeOK, TypeOK', OpenInv, UNCHANGED faults, NEW s \in Sources,
         openRuns'[s] - openRuns[s] = Cardinality(Open(s)') - Cardinality(Open(s)),
         \A r \in Sources \ {s} : openRuns'[r] = openRuns[r] /\ Open(r)' = Open(r)
  PROVE  OpenInv'
<1> SUFFICES ASSUME NEW r \in Sources
             PROVE  openRuns'[r] <= faults' + Cardinality(Open(r)')
  BY DEF OpenInv
<1>1. /\ openRuns[r] \in Int /\ openRuns'[r] \in Int /\ faults \in Int
      /\ Cardinality(Open(r)) \in Int /\ Cardinality(Open(r)') \in Int
      /\ openRuns[r] <= faults + Cardinality(Open(r))
  BY OpenFinite, ConstantsAssumption DEF ConstantsAssumption, OpenInv, TypeOK
<1>2. CASE r = s
  BY <1>1, <1>2
<1>3. CASE r # s
  BY <1>1, <1>3
<1> QED
  BY <1>2, <1>3

\* A run that is left open in the log was cut short by a fault.
LEMMA OpenStep ==
  ASSUME ExclusiveInv, OpenInv, [Next]_vars
  PROVE  OpenInv'
<1> USE DEF ExclusiveInv, TypeInv
<1>1. ASSUME NEW s \in Sources, SourceStep(s)
      PROVE  OpenInv'
  <2>1. UNCHANGED <<openRuns, faults>>
    BY <1>1 DEF SourceStep, IntervalJob, BootstrapNext, RequestRun, PopTrigger,
                StartDirect, Publish, dbVars
  <2>2. \/ UNCHANGED threadVars
        \/ \E t \in Threads, v \in Vias : Acquire(t, s, v)
        \/ PopTrigger(s)
        \/ StartDirect(s)
    BY <1>1 DEF SourceStep, IntervalJob, BootstrapNext, RequestRun, Publish, Vias
  <2>3. \A r \in Sources : Open(r)' = Open(r)
    BY <2>2 DEF Open, threadVars, Acquire, PopTrigger, StartDirect, TypeOK
  <2> QED
    BY <2>1, <2>3, SameOpen
<1>2. ASSUME NEW t \in Threads, ThreadStep(t)
      PROVE  OpenInv'
  <2>1. CASE ManualStart(t) \/ CheckDue(t) \/ Page(t) \/ Checkpoint(t)
             \/ SyncDone(t) \/ SyncError(t) \/ ReleaseLock(t)
    <3>1. UNCHANGED <<openRuns, faults>>
      BY <2>1 DEF ManualStart, CheckDue, Page, Checkpoint, SyncDone, SyncError,
                  ReleaseLock, dbVars
    <3>2. \A r \in Sources : Open(r)' = Open(r)
      BY <2>1 DEF Open, ManualStart, CheckDue, Page, Checkpoint, SyncDone, SyncError,
                  ReleaseLock, Exit, threadVars, TypeOK
    <3> QED
      BY <3>1, <3>2, SameOpen
  <2>2. CASE BeginRun(t)
    <3>1. PICK s \in Sources : s = key[t]
      BY <2>2 DEF BeginRun, KeyKnown
    <3>2. /\ UNCHANGED <<faults, key>> /\ pc' = [pc EXCEPT ![t] = "sync"]
          /\ pc[t] = "ready" /\ openRuns' = [openRuns EXCEPT ![s] = @ + 1]
      BY <2>2, <3>1 DEF BeginRun
    <3>3. /\ t \notin Open(s) /\ Open(s)' = Open(s) \cup {t}
          /\ \A r \in Sources \ {s} : Open(r)' = Open(r)
      BY <3>1, <3>2 DEF Open, TypeOK
    <3>4. Cardinality(Open(s)') = Cardinality(Open(s)) + 1
      BY <3>3, OpenFinite, FS_AddElement
    <3>5. openRuns'[s] - openRuns[s] = Cardinality(Open(s)') - Cardinality(Open(s))
      BY <3>2, <3>4, OpenFinite DEF TypeOK
    <3>6. \A r \in Sources \ {s} : openRuns'[r] = openRuns[r]
      BY <3>2 DEF TypeOK
    <3> QED
      BY <3>2, <3>3, <3>5, <3>6, OpenMoves, TypeInvStep
  <2>3. CASE FinishRun(t)
    <3>1. PICK s \in Sources : s = key[t]
      BY <2>3 DEF FinishRun, KeyKnown
    <3>2. /\ UNCHANGED faults /\ pc[t] = "record"
          /\ openRuns' = [openRuns EXCEPT ![s] = @ - 1]
      BY <2>3, <3>1 DEF FinishRun, TypeOK
    <3>3. /\ pc'[t] \notin {"sync", "record"}
          /\ \A u \in Threads \ {t} : pc'[u] = pc[u] /\ key'[u] = key[u]
      BY <2>3 DEF FinishRun, LeaveRun, Exit, TypeOK
    <3>4. /\ t \in Open(s) /\ Open(s)' = Open(s) \ {t}
          /\ \A r \in Sources \ {s} : Open(r)' = Open(r)
      BY <3>1, <3>2, <3>3 DEF Open
    <3>5. Cardinality(Open(s)') = Cardinality(Open(s)) - 1
      BY <3>4, OpenFinite, FS_RemoveElement
    <3>6. openRuns'[s] - openRuns[s] = Cardinality(Open(s)') - Cardinality(Open(s))
      BY <3>2, <3>5, OpenFinite DEF TypeOK
    <3>7. \A r \in Sources \ {s} : openRuns'[r] = openRuns[r]
      BY <3>2 DEF TypeOK
    <3> QED
      BY <3>2, <3>4, <3>6, <3>7, OpenMoves, TypeInvStep
  <2>4. CASE DatabaseFails(t) \/ ReleaseFails(t)
    <3>1. UNCHANGED openRuns /\ faults' = faults + 1
      BY <2>4 DEF DatabaseFails, ReleaseFails, dbVars
    <3>2. \A r \in Sources : Open(r)' = Open(r) \/ Open(r)' = Open(r) \ {t}
      BY <2>4 DEF DatabaseFails, ReleaseFails, LeaveRun, Exit, Open, TypeOK
    <3>3. \A r \in Sources : Cardinality(Open(r) \ {t}) >= Cardinality(Open(r)) - 1
      BY OpenFinite, FS_RemoveElement
    <3> QED
      BY <3>1, <3>2, <3>3, OpenFinite, ConstantsAssumption
         DEF ConstantsAssumption, OpenInv, TypeOK
  <2> QED
    BY <1>2, <2>1, <2>2, <2>3, <2>4 DEF ThreadStep
<1>3. CASE Crash
  <2>1. UNCHANGED openRuns /\ faults' = faults + 1
    BY <1>3 DEF Crash, dbVars
  <2>2. ASSUME NEW s \in Sources
        PROVE  Cardinality(Open(s)') >= Cardinality(Open(s)) - 1
    <3>1. Open(s)' = {t \in Open(s) : ~Scheduled(t)}
      BY <1>3 DEF Crash, Open, Scheduled, TypeOK
    <3>2. \A t, u \in Open(s) : Scheduled(t) /\ Scheduled(u) => t = u
      BY Alone DEF Open, Running
    <3>3. CASE \A t \in Open(s) : ~Scheduled(t)
      <4>1. Open(s)' = Open(s)
        BY <3>1, <3>3
      <4> QED
        BY <4>1, OpenFinite
    <3>4. ASSUME NEW t \in Threads, t \in Open(s), Scheduled(t)
          PROVE  Cardinality(Open(s)') >= Cardinality(Open(s)) - 1
      <4>1. Open(s)' = Open(s) \ {t}
        BY <3>1, <3>2, <3>4
      <4>2. Cardinality(Open(s) \ {t}) = Cardinality(Open(s)) - 1
        BY <3>4, OpenFinite, FS_RemoveElement
      <4> QED
        BY <4>1, <4>2, OpenFinite
    <3> QED
      BY <3>3, <3>4 DEF Open
  <2> QED
    BY <2>1, <2>2, OpenFinite, ConstantsAssumption DEF ConstantsAssumption, OpenInv, TypeOK
<1>4. CASE BootstrapAborts
  <2>1. UNCHANGED openRuns /\ faults' = faults + 1 /\ \A r \in Sources : Open(r)' = Open(r)
    BY <1>4 DEF BootstrapAborts, threadVars, dbVars, Open
  <2> QED
    BY <2>1, OpenFinite, ConstantsAssumption DEF ConstantsAssumption, OpenInv, TypeOK
<1>5. CASE Start \/ Tick \/ UNCHANGED vars
  <2>1. UNCHANGED <<openRuns, faults, pc, key>>
    BY <1>5 DEF Start, Tick, vars, threadVars, dbVars
  <2> QED
    BY <2>1, SameOpen DEF Open
<1> QED
  BY <1>1, <1>2, <1>3, <1>4, <1>5 DEF Next

\* Every ingestion_runs row that says "running" is a run in progress, but for
\* one per fault at most: a crash leaves one row of a source open, as only one
\* scheduled run of it can be in its transactions.
THEOREM OpenRunsBounded ==
  ASSUME Redis => MaxRun < LockTTL
  PROVE  Spec => []OpenRunsAccountedFor
<1> DEFINE Inv == ExclusiveInv /\ OpenInv
<1>1. Init => Inv
  <2>1. Init => \A s \in Sources : Open(s) = {}
    BY DEF Init, Open
  <2>2. Cardinality({}) = 0
    BY FS_EmptySet
  <2>3. Init => OpenInv
    BY <2>1, <2>2 DEF Init, OpenInv
  <2> QED
    BY <2>3, ExclusiveInit
<1>2. Inv /\ [Next]_vars => Inv'
  BY ExclusiveStep, OpenStep DEF LockOutlivesRuns
<1>3. Inv => OpenRunsAccountedFor
  <2> SUFFICES ASSUME Inv, NEW s \in Sources
               PROVE  openRuns[s] <= faults + Cardinality({t \in Threads : RunOf(t, s)})
    BY DEF OpenRunsAccountedFor
  <2> DEFINE Runs == {t \in Threads : RunOf(t, s)}
  <2>1. IsFiniteSet(Runs) /\ Cardinality(Runs) \in Nat
    BY ConstantsAssumption, FS_Subset, FS_CardinalityType DEF ConstantsAssumption
  <2>2. Open(s) \in SUBSET Runs
    BY DEF Open, RunOf, Running
  <2>3. Cardinality(Open(s)) <= Cardinality(Runs)
    BY <2>1, <2>2, FS_Subset
  <2> HIDE DEF Runs
  <2> QED
    BY <2>1, <2>3, OpenFinite, ConstantsAssumption
       DEF ConstantsAssumption, OpenInv, ExclusiveInv, TypeInv, TypeOK, Runs
<1> QED
  BY <1>1, <1>2, <1>3, PTL DEF Spec
==============================================================================
