------------------------------ MODULE Ingestion ------------------------------
(***************************************************************************)
(* The ingestion scheduler of Asber: backend/app/scheduler.py (the interval *)
(* jobs, the bootstrap pass, the manual-trigger poller), the lock and the   *)
(* trigger set of ingestion/coordination.py, and run_worker, its three      *)
(* transactions and its checkpoints, of ingestion/base.py.                  *)
(*                                                                          *)
(* What a particular worker does inside sync is abstracted to reading a     *)
(* prefix of the items its source has published: see Page and SyncDone.     *)
(*                                                                          *)
(* Time is discrete and kept as ages and countdowns, so that the state      *)
(* space is finite without a bound on how long the system runs: ttl and     *)
(* timer count down, age and the since... variables count up and stop at    *)
(* the largest value the code compares them with.                           *)
(***************************************************************************)
EXTENDS Integers, FiniteSets

CONSTANTS
    Sources,        \* keys of the enabled sources (enabled_sources)
    Rank,           \* Rank[s]: place of s in BOOTSTRAP_ORDER
    Interval,       \* Interval[s]: sources.interval_seconds
    Checkpointing,  \* the sources whose worker calls ctx.checkpoint
    Threads,        \* threads that can execute run_source or run_worker
    NoThread, NoSource,
    Redis,          \* TRUE: redis_client() returns a client; FALSE: in-process
    LockTTL,        \* ttl_seconds of source_lock
    BackoffCap,     \* BACKOFF_CAP_SECONDS
    MaxDoublings,   \* BACKOFF_MAX_DOUBLINGS
    CollectOnce,    \* TRUE: an operator also runs scripts/collect_once.py
    MaxRun,         \* assumed: no run_source takes longer than this
    MaxManual,      \* bound: manual threads alive at the same time
    MaxItems,       \* bound: items a source publishes
    MaxFaults       \* bound: crashes, and database or Redis errors

ASSUME ConstantsAssumption ==
    /\ Rank \in [Sources -> Nat]
    /\ Interval \in [Sources -> Nat \ {0}]
    /\ Checkpointing \subseteq Sources
    /\ IsFiniteSet(Threads)
    /\ NoThread \notin Threads
    /\ NoSource \notin Sources
    /\ Redis \in BOOLEAN
    /\ CollectOnce \in BOOLEAN
    /\ LockTTL \in Nat \ {0}
    /\ BackoffCap \in Nat \ {0}
    /\ MaxDoublings \in Nat \ {0}
    /\ MaxRun \in Nat
    /\ MaxManual \in Nat
    /\ MaxItems \in Nat
    /\ MaxFaults \in Nat

VARIABLES
    \* the scheduler process
    up,             \* is it running
    boot,           \* sources the bootstrap thread still has to run
    timer,          \* timer[s]: time until the interval job of s is due
    \* its threads, and those of collect_once
    pc, key, via, age, mem,
    \* Redis (or, without it, the dictionaries of coordination.py)
    owner,          \* owner[s]: the thread whose token holds the lock of s
    ttl,            \* ttl[s]: time until Redis drops that lock
    triggers,       \* the set asber:run-requests
    \* the database: a row of sources per key, and ingestion_runs
    failures,       \* failures[s]: consecutive_failures
    sinceAttempt,   \* sinceAttempt[s]: time since last_attempt
    sinceSuccess,   \* sinceSuccess[s]: time since last_successful_fetch
    cursor,         \* cursor[s]: state
    stored,         \* stored[s]: items of s committed to the database
    openRuns,       \* openRuns[s]: ingestion_runs rows still "running"
    \* outside
    upstream,       \* upstream[s]: how many items s has published
    faults          \* faults so far, for the bound only

processVars == <<up, boot, timer>>
threadVars == <<pc, key, via, age, mem>>
lockVars == <<owner, ttl>>
dbVars == <<failures, sinceAttempt, sinceSuccess, cursor, stored, openRuns>>
vars == <<processVars, threadVars, lockVars, triggers, dbVars, upstream, faults>>

\* Where a thread can be.  "starting": created, before source_lock;
\* "locked": holds the lock, backoff not yet checked; "ready": about to call
\* run_worker; "sync": between its first and its second commit; "record":
\* before its third; "release": leaving source_lock.
Running == {"locked", "ready", "sync", "record", "release"}
PCs == {"idle", "starting"} \cup Running
Vias == {"none", "interval", "bootstrap", "manual", "direct"}

\* What run_worker keeps between its transactions: where the worker started
\* reading, how far it has read, what ctx.state says, what there was to read
\* when it began, and whether sync returned.
Memory == [start : Nat, pos : Nat, state : Nat, target : Nat, ok : BOOLEAN]
NoMemory == [start |-> 0, pos |-> 0, state |-> 0, target |-> 0, ok |-> FALSE]

TypeOK ==
    /\ up \in BOOLEAN
    /\ boot \subseteq Sources
    /\ timer \in [Sources -> Nat]
    /\ pc \in [Threads -> PCs]
    /\ key \in [Threads -> Sources \cup {NoSource}]
    /\ via \in [Threads -> Vias]
    /\ age \in [Threads -> 0 .. MaxRun]
    /\ mem \in [Threads -> Memory]
    /\ owner \in [Sources -> Threads \cup {NoThread}]
    /\ ttl \in [Sources -> 0 .. LockTTL]
    /\ triggers \subseteq Sources
    /\ failures \in [Sources -> 0 .. MaxDoublings]
    /\ sinceAttempt \in [Sources -> 0 .. BackoffCap]
    /\ sinceSuccess \in [Sources -> Nat]
    /\ cursor \in [Sources -> Nat]
    /\ stored \in [Sources -> SUBSET Nat]
    /\ openRuns \in [Sources -> Int]
    /\ upstream \in [Sources -> Nat]
    /\ faults \in 0 .. MaxFaults

Least(m, n) == IF m < n THEN m ELSE n
Most(m, n) == IF m < n THEN n ELSE m

------------------------------------------------------------------------------
(* Backoff (base.py) and the lock (coordination.py)                         *)

\* backoff_seconds.  failures stops at MaxDoublings, where the factor does.
Backoff(s) ==
    IF failures[s] = 0 THEN 0
    ELSE Least(Interval[s] * 2 ^ failures[s], BackoffCap)

\* due_for_run: last_attempt + delay has passed (or delay is 0).
Due(s) == sinceAttempt[s] >= Backoff(s)

\* bootstrap: last_successful_fetch is less than an interval old.
Fresh(s) == sinceSuccess[s] < Interval[s]

Free(s) == owner[s] = NoThread

\* The thread ends; a new one could take its place.
Exit(t) ==
    /\ pc' = [pc EXCEPT ![t] = "idle"]
    /\ key' = [key EXCEPT ![t] = NoSource]
    /\ via' = [via EXCEPT ![t] = "none"]
    /\ age' = [age EXCEPT ![t] = 0]
    /\ mem' = [mem EXCEPT ![t] = NoMemory]

\* lock.acquire succeeds in a new thread t, started for the reason v.
Acquire(t, s, v) ==
    /\ pc[t] = "idle"
    /\ Free(s)
    /\ owner' = [owner EXCEPT ![s] = t]
    /\ ttl' = [ttl EXCEPT ![s] = LockTTL]
    /\ pc' = [pc EXCEPT ![t] = "locked"]
    /\ key' = [key EXCEPT ![t] = s]
    /\ via' = [via EXCEPT ![t] = v]
    /\ age' = [age EXCEPT ![t] = 0]
    /\ UNCHANGED mem

------------------------------------------------------------------------------
(* How a run starts (scheduler.py)                                          *)

JobRunning(s) == \E t \in Threads : via[t] = "interval" /\ key[t] = s
BootstrapRunning == \E t \in Threads : via[t] = "bootstrap"
ManualThreads == {t \in Threads : via[t] = "manual"}

\* The interval job of s falls due.  APScheduler skips it while the previous
\* instance runs (max_instances=1); run_source returns if the lock is taken.
IntervalJob(s) ==
    /\ up
    /\ timer[s] = 0
    /\ timer' = [timer EXCEPT ![s] = Interval[s]]
    /\ \/ /\ JobRunning(s) \/ ~Free(s)
          /\ UNCHANGED <<threadVars, lockVars>>
       \/ /\ ~JobRunning(s)
          /\ \E t \in Threads : Acquire(t, s, "interval")
    /\ UNCHANGED <<up, boot, triggers, dbVars, upstream, faults>>

\* bootstrap: the next stale source in order, one at a time.
BootstrapNext(s) ==
    /\ up
    /\ s \in boot
    /\ \A r \in boot : Rank[s] <= Rank[r]
    /\ ~BootstrapRunning
    /\ boot' = boot \ {s}
    /\ \/ /\ ~Free(s)
          /\ UNCHANGED <<threadVars, lockVars>>
       \/ \E t \in Threads : Acquire(t, s, "bootstrap")
    /\ UNCHANGED <<up, timer, triggers, dbVars, upstream, faults>>

\* Redis fails in lock.acquire: nothing catches it in the bootstrap thread,
\* which ends with the rest of its list.
BootstrapAborts ==
    /\ up /\ Redis
    /\ boot # {} /\ ~BootstrapRunning
    /\ faults < MaxFaults
    /\ faults' = faults + 1
    /\ boot' = {}
    /\ UNCHANGED <<up, timer, threadVars, lockVars, triggers, dbVars, upstream>>

\* POST /api/sources/{key}/run.  Without Redis the request stays in the API
\* process, where nothing reads it.
RequestRun(s) ==
    /\ Redis
    /\ s \notin triggers
    /\ triggers' = triggers \cup {s}
    /\ UNCHANGED <<processVars, threadVars, lockVars, dbVars, upstream, faults>>

\* poll_triggers takes s out of the set and starts a thread for it.
PopTrigger(s) ==
    /\ up
    /\ s \in triggers
    /\ Cardinality(ManualThreads) < MaxManual
    /\ triggers' = triggers \ {s}
    /\ \E t \in Threads :
         /\ pc[t] = "idle"
         /\ pc' = [pc EXCEPT ![t] = "starting"]
         /\ key' = [key EXCEPT ![t] = s]
         /\ via' = [via EXCEPT ![t] = "manual"]
         /\ UNCHANGED <<age, mem>>
    /\ UNCHANGED <<processVars, lockVars, dbVars, upstream, faults>>

\* The manual thread reaches source_lock: it runs the source, or finds a run
\* in progress and drops the request.
ManualStart(t) ==
    /\ pc[t] = "starting"
    /\ \/ /\ Free(key[t])
          /\ owner' = [owner EXCEPT ![key[t]] = t]
          /\ ttl' = [ttl EXCEPT ![key[t]] = LockTTL]
          /\ pc' = [pc EXCEPT ![t] = "locked"]
          /\ UNCHANGED <<key, via, age, mem>>
       \/ /\ ~Free(key[t])
          /\ Exit(t)
          /\ UNCHANGED lockVars
    /\ UNCHANGED <<processVars, triggers, dbVars, upstream, faults>>

\* scripts/collect_once.py calls run_worker without source_lock.
StartDirect(s) ==
    /\ CollectOnce
    /\ ~\E t \in Threads : via[t] = "direct"
    /\ \E t \in Threads :
         /\ pc[t] = "idle"
         /\ pc' = [pc EXCEPT ![t] = "ready"]
         /\ key' = [key EXCEPT ![t] = s]
         /\ via' = [via EXCEPT ![t] = "direct"]
         /\ UNCHANGED <<age, mem>>
    /\ UNCHANGED <<processVars, lockVars, triggers, dbVars, upstream, faults>>

------------------------------------------------------------------------------
(* A run (run_source and run_worker)                                        *)

\* Leaving run_source: the lock is still held.  run_worker called by
\* collect_once has no lock to leave.
LeaveRun(t) ==
    IF via[t] = "direct" THEN Exit(t)
    ELSE /\ pc' = [pc EXCEPT ![t] = "release"]
         /\ UNCHANGED <<key, via, age, mem>>

\* Variant with a bug: the lock covers the backoff check only.
CheckDueThenUnlock(t) ==
    /\ pc[t] = "locked"
    /\ pc' = [pc EXCEPT ![t] = IF via[t] = "manual" \/ Due(key[t])
                               THEN "ready" ELSE "release"]
    /\ owner' = [owner EXCEPT ![key[t]] = NoThread]
    /\ UNCHANGED <<processVars, key, via, age, mem, ttl, triggers, dbVars,
                   upstream, faults>>

\* run_source: unless forced, a source inside its backoff window is skipped.
CheckDue(t) ==
    /\ pc[t] = "locked"
    /\ pc' = [pc EXCEPT ![t] = IF via[t] = "manual" \/ Due(key[t])
                               THEN "ready" ELSE "release"]
    /\ UNCHANGED <<processVars, key, via, age, mem, lockVars, triggers, dbVars,
                   upstream, faults>>

\* run_worker, first transaction: the run's row, last_attempt, and the state
\* the worker starts from.
BeginRun(t) ==
    /\ pc[t] = "ready"
    /\ pc' = [pc EXCEPT ![t] = "sync"]
    /\ openRuns' = [openRuns EXCEPT ![key[t]] = @ + 1]
    /\ sinceAttempt' = [sinceAttempt EXCEPT ![key[t]] = 0]
    /\ mem' = [mem EXCEPT ![t] =
                 [start |-> cursor[key[t]], pos |-> cursor[key[t]],
                  state |-> cursor[key[t]], target |-> upstream[key[t]],
                  ok |-> FALSE]]
    /\ UNCHANGED <<processVars, key, via, age, lockVars, triggers, failures,
                   sinceSuccess, cursor, stored, upstream, faults>>

\* sync reads on to item n, and may put its new place into ctx.state.
Page(t) ==
    /\ pc[t] = "sync"
    /\ \E n \in mem[t].pos + 1 .. upstream[key[t]], remember \in BOOLEAN :
         mem' = [mem EXCEPT ![t].pos = n,
                            ![t].state = IF remember THEN n ELSE @]
    /\ UNCHANGED <<processVars, pc, key, via, age, lockVars, triggers, dbVars,
                   upstream, faults>>

\* The items t has read, committed: stored' for a commit of its session at n.
Commit(t, n) ==
    stored' = [stored EXCEPT ![key[t]] = @ \cup (mem[t].start + 1 .. n)]

\* WorkerContext.checkpoint: one commit of the rows and of sources.state.
Checkpoint(t) ==
    /\ pc[t] = "sync"
    /\ key[t] \in Checkpointing
    /\ Commit(t, mem[t].pos)
    /\ cursor' = [cursor EXCEPT ![key[t]] = mem[t].state]
    /\ UNCHANGED <<processVars, threadVars, lockVars, triggers, failures,
                   sinceAttempt, sinceSuccess, openRuns, upstream, faults>>

\* Variant with a bug: sync returns and nothing commits.
SyncDoneUncommitted(t) ==
    /\ pc[t] = "sync"
    /\ \E n \in Most(mem[t].pos, mem[t].target) .. upstream[key[t]] :
         mem' = [mem EXCEPT ![t].pos = n, ![t].state = n, ![t].ok = TRUE]
    /\ pc' = [pc EXCEPT ![t] = "record"]
    /\ UNCHANGED <<processVars, key, via, age, lockVars, triggers, dbVars,
                   upstream, faults>>

\* sync returns, having read all there was when it began, and run_worker
\* commits (status success or not_modified).
SyncDone(t) ==
    /\ pc[t] = "sync"
    /\ \E n \in Most(mem[t].pos, mem[t].target) .. upstream[key[t]] :
         /\ Commit(t, n)
         /\ mem' = [mem EXCEPT ![t].pos = n, ![t].state = n, ![t].ok = TRUE]
    /\ pc' = [pc EXCEPT ![t] = "record"]
    /\ UNCHANGED <<processVars, key, via, age, lockVars, triggers, failures,
                   sinceAttempt, sinceSuccess, cursor, openRuns, upstream, faults>>

\* sync or the commit raises: rollback, status error.
SyncError(t) ==
    /\ pc[t] = "sync"
    /\ pc' = [pc EXCEPT ![t] = "record"]
    /\ UNCHANGED <<processVars, key, via, age, mem, lockVars, triggers, dbVars,
                   upstream, faults>>

\* Variant with a bug: the row of a failed run is not closed.
FinishRunOnSuccess(t) ==
    /\ pc[t] = "record"
    /\ LET s == key[t] IN
         /\ openRuns' = [openRuns EXCEPT ![s] = IF mem[t].ok THEN @ - 1 ELSE @]
         /\ failures' = [failures EXCEPT ![s] =
                           IF mem[t].ok THEN 0 ELSE Least(@ + 1, MaxDoublings)]
         /\ sinceSuccess' = [sinceSuccess EXCEPT ![s] = IF mem[t].ok THEN 0 ELSE @]
         /\ cursor' = [cursor EXCEPT ![s] = IF mem[t].ok THEN mem[t].state ELSE @]
    /\ LeaveRun(t)
    /\ UNCHANGED <<processVars, lockVars, triggers, sinceAttempt, stored,
                   upstream, faults>>

\* Variant with a bug: the state is saved whether the run succeeded or not.
FinishRunSavesAlways(t) ==
    /\ pc[t] = "record"
    /\ LET s == key[t] IN
         /\ openRuns' = [openRuns EXCEPT ![s] = @ - 1]
         /\ failures' = [failures EXCEPT ![s] =
                           IF mem[t].ok THEN 0 ELSE Least(@ + 1, MaxDoublings)]
         /\ sinceSuccess' = [sinceSuccess EXCEPT ![s] = IF mem[t].ok THEN 0 ELSE @]
         /\ cursor' = [cursor EXCEPT ![s] = mem[t].state]
    /\ LeaveRun(t)
    /\ UNCHANGED <<processVars, lockVars, triggers, sinceAttempt, stored,
                   upstream, faults>>

\* Variant with a bug: sync works on a copy of the state, and what is saved is
\* the state read at the start.
FinishRunSavesCopy(t) ==
    /\ pc[t] = "record"
    /\ LET s == key[t] IN
         /\ openRuns' = [openRuns EXCEPT ![s] = @ - 1]
         /\ failures' = [failures EXCEPT ![s] =
                           IF mem[t].ok THEN 0 ELSE Least(@ + 1, MaxDoublings)]
         /\ sinceSuccess' = [sinceSuccess EXCEPT ![s] = IF mem[t].ok THEN 0 ELSE @]
         /\ cursor' = [cursor EXCEPT ![s] = IF mem[t].ok THEN mem[t].start ELSE @]
    /\ LeaveRun(t)
    /\ UNCHANGED <<processVars, lockVars, triggers, sinceAttempt, stored,
                   upstream, faults>>

\* run_worker, third transaction.
FinishRun(t) ==
    /\ pc[t] = "record"
    /\ LET s == key[t] IN
         /\ openRuns' = [openRuns EXCEPT ![s] = @ - 1]
         /\ failures' = [failures EXCEPT ![s] =
                           IF mem[t].ok THEN 0 ELSE Least(@ + 1, MaxDoublings)]
         /\ sinceSuccess' = [sinceSuccess EXCEPT ![s] = IF mem[t].ok THEN 0 ELSE @]
         /\ cursor' = [cursor EXCEPT ![s] = IF mem[t].ok THEN mem[t].state ELSE @]
    /\ LeaveRun(t)
    /\ UNCHANGED <<processVars, lockVars, triggers, sinceAttempt, stored,
                   upstream, faults>>

\* The database fails in the backoff check, the first or the third
\* transaction.  No one catches the exception: it leaves run_source through
\* source_lock, and ends the bootstrap thread if that is where it was raised.
DatabaseFails(t) ==
    /\ \/ pc[t] = "locked" /\ via[t] # "manual"
       \/ pc[t] \in {"ready", "record"}
    /\ faults < MaxFaults
    /\ faults' = faults + 1
    /\ boot' = IF via[t] = "bootstrap" THEN {} ELSE boot
    /\ LeaveRun(t)
    /\ UNCHANGED <<up, timer, lockVars, triggers, dbVars, upstream>>

\* lock.release: only the holder's token removes the lock.
ReleaseLock(t) ==
    /\ pc[t] = "release"
    /\ IF owner[key[t]] = t
       THEN /\ owner' = [owner EXCEPT ![key[t]] = NoThread]
            /\ ttl' = [ttl EXCEPT ![key[t]] = 0]
       ELSE UNCHANGED lockVars
    /\ Exit(t)
    /\ UNCHANGED <<processVars, triggers, dbVars, upstream, faults>>

\* Redis fails in lock.release, which is caught: the lock stays.
ReleaseFails(t) ==
    /\ pc[t] = "release"
    /\ Redis
    /\ faults < MaxFaults
    /\ faults' = faults + 1
    /\ Exit(t)
    /\ UNCHANGED <<processVars, lockVars, triggers, dbVars, upstream>>

------------------------------------------------------------------------------
(* The process, the clock and the source                                    *)

\* The scheduler dies, and its threads with it; open transactions are rolled
\* back.  What Redis holds stays, in-process locks do not.
Crash ==
    /\ up
    /\ faults < MaxFaults
    /\ faults' = faults + 1
    /\ up' = FALSE
    /\ boot' = {}
    /\ LET survives(t) == via[t] = "direct" IN
         /\ pc' = [t \in Threads |-> IF survives(t) THEN pc[t] ELSE "idle"]
         /\ key' = [t \in Threads |-> IF survives(t) THEN key[t] ELSE NoSource]
         /\ via' = [t \in Threads |-> IF survives(t) THEN via[t] ELSE "none"]
         /\ age' = [t \in Threads |-> IF survives(t) THEN age[t] ELSE 0]
         /\ mem' = [t \in Threads |-> IF survives(t) THEN mem[t] ELSE NoMemory]
    /\ IF Redis THEN UNCHANGED lockVars
       ELSE /\ owner' = [s \in Sources |-> NoThread]
            /\ ttl' = [s \in Sources |-> 0]
    /\ UNCHANGED <<timer, triggers, dbVars, upstream>>

\* main: every interval job first runs an interval from now, and the bootstrap
\* thread, if run_on_startup, takes the sources that are not fresh.
Start ==
    /\ ~up
    /\ up' = TRUE
    /\ timer' = Interval
    /\ boot' \in {{s \in Sources : ~Fresh(s)}, {}}
    /\ UNCHANGED <<threadVars, lockVars, triggers, dbVars, upstream, faults>>

\* Variant with a bug: locks have no timeout.
TickWithoutExpiry ==
    /\ \A t \in Threads : pc[t] \in Running => age[t] < MaxRun
    /\ age' = [t \in Threads |-> IF pc[t] \in Running THEN age[t] + 1 ELSE age[t]]
    /\ timer' = [s \in Sources |-> Most(timer[s] - 1, 0)]
    /\ sinceAttempt' = [s \in Sources |-> Least(sinceAttempt[s] + 1, BackoffCap)]
    /\ sinceSuccess' = [s \in Sources |-> Least(sinceSuccess[s] + 1, Interval[s])]
    /\ UNCHANGED <<up, boot, pc, key, via, mem, lockVars, triggers, failures,
                   cursor, stored, openRuns, upstream, faults>>

\* Variant with a bug: a lock is dropped one unit late, its time below zero.
TickPastZero ==
    /\ \A t \in Threads : pc[t] \in Running => age[t] < MaxRun
    /\ age' = [t \in Threads |-> IF pc[t] \in Running THEN age[t] + 1 ELSE age[t]]
    /\ timer' = [s \in Sources |-> Most(timer[s] - 1, 0)]
    /\ ttl' = [s \in Sources |-> IF Redis THEN ttl[s] - 1 ELSE ttl[s]]
    /\ owner' = [s \in Sources |-> IF Redis /\ ttl[s] < 0 THEN NoThread ELSE owner[s]]
    /\ sinceAttempt' = [s \in Sources |-> Least(sinceAttempt[s] + 1, BackoffCap)]
    /\ sinceSuccess' = [s \in Sources |-> Least(sinceSuccess[s] + 1, Interval[s])]
    /\ UNCHANGED <<up, boot, pc, key, via, mem, triggers, failures, cursor,
                   stored, openRuns, upstream, faults>>

\* Time passes; Redis drops the locks whose time has come.
Tick ==
    /\ \A t \in Threads : pc[t] \in Running => age[t] < MaxRun
    /\ age' = [t \in Threads |-> IF pc[t] \in Running THEN age[t] + 1 ELSE age[t]]
    /\ timer' = [s \in Sources |-> Most(timer[s] - 1, 0)]
    /\ ttl' = [s \in Sources |-> IF Redis THEN Most(ttl[s] - 1, 0) ELSE ttl[s]]
    /\ owner' = [s \in Sources |-> IF Redis /\ ttl[s] <= 1 THEN NoThread ELSE owner[s]]
    /\ sinceAttempt' = [s \in Sources |-> Least(sinceAttempt[s] + 1, BackoffCap)]
    /\ sinceSuccess' = [s \in Sources |-> Least(sinceSuccess[s] + 1, Interval[s])]
    /\ UNCHANGED <<up, boot, pc, key, via, mem, triggers, failures, cursor,
                   stored, openRuns, upstream, faults>>

\* The source publishes an item.
Publish(s) ==
    /\ upstream[s] < MaxItems
    /\ upstream' = [upstream EXCEPT ![s] = @ + 1]
    /\ UNCHANGED <<processVars, threadVars, lockVars, triggers, dbVars, faults>>

------------------------------------------------------------------------------

\* The first start, on an empty database: every source is stale.
Init ==
    /\ up = FALSE
    /\ boot = {}
    /\ timer = Interval
    /\ pc = [t \in Threads |-> "idle"]
    /\ key = [t \in Threads |-> NoSource]
    /\ via = [t \in Threads |-> "none"]
    /\ age = [t \in Threads |-> 0]
    /\ mem = [t \in Threads |-> NoMemory]
    /\ owner = [s \in Sources |-> NoThread]
    /\ ttl = [s \in Sources |-> 0]
    /\ triggers = {}
    /\ failures = [s \in Sources |-> 0]
    /\ sinceAttempt = [s \in Sources |-> BackoffCap]
    /\ sinceSuccess = Interval
    /\ cursor = [s \in Sources |-> 0]
    /\ stored = [s \in Sources |-> {}]
    /\ openRuns = [s \in Sources |-> 0]
    /\ upstream = [s \in Sources |-> 0]
    /\ faults = 0

SourceStep(s) ==
    \/ IntervalJob(s) \/ BootstrapNext(s) \/ RequestRun(s) \/ PopTrigger(s)
    \/ StartDirect(s) \/ Publish(s)

ThreadStep(t) ==
    \/ ManualStart(t) \/ CheckDue(t) \/ BeginRun(t)
    \/ Page(t) \/ Checkpoint(t) \/ SyncDone(t) \/ SyncError(t)
    \/ FinishRun(t) \/ DatabaseFails(t) \/ ReleaseLock(t) \/ ReleaseFails(t)

Next ==
    \/ \E s \in Sources : SourceStep(s)
    \/ \E t \in Threads : ThreadStep(t)
    \/ BootstrapAborts \/ Crash \/ Start \/ Tick

Spec == Init /\ [][Next]_vars

\* The process is restarted (restart: unless-stopped), APScheduler fires its
\* jobs, threads are scheduled, and sync ends: every request has a timeout and
\* a bounded number of retries.
Fairness ==
    /\ WF_vars(Start) /\ WF_vars(Tick)
    /\ \A s \in Sources :
         WF_vars(IntervalJob(s)) /\ WF_vars(BootstrapNext(s)) /\ WF_vars(PopTrigger(s))
    /\ \A t \in Threads :
         /\ WF_vars(ManualStart(t) \/ CheckDue(t) \/ BeginRun(t))
         /\ WF_vars(SyncDone(t) \/ SyncError(t))
         /\ WF_vars(FinishRun(t) \/ ReleaseLock(t))

\* ... and no source is down for ever: a run that is tried again and again
\* succeeds in the end.
SourcesRecover ==
    \A s \in Sources : SF_vars(\E t \in Threads : key[t] = s /\ SyncDone(t))

FairSpec == Spec /\ Fairness
RecoveringSpec == FairSpec /\ SourcesRecover

------------------------------------------------------------------------------
(* What ingestion guarantees                                                *)

RunOf(t, s) == pc[t] \in Running /\ key[t] = s
InRun(s) == \E t \in Threads : RunOf(t, s)

\* "A Redis lock prevents overlapping runs of the same source": no two threads
\* of the scheduler are inside run_source for one source.  Redis drops the lock
\* after ttl_seconds and nothing renews it, so with Redis this needs every run
\* to be shorter than that.  (collect_once takes no lock: via = "direct".)
Scheduled(t) == via[t] # "direct"
NoOverlap ==
    \A t, u \in Threads, s \in Sources :
      RunOf(t, s) /\ RunOf(u, s) /\ Scheduled(t) /\ Scheduled(u) => t = u

\* A source whose state says "read up to here" has committed everything up to
\* there: an error, a crash or a failed transaction never leaves the cursor
\* ahead of the data, in any order of checkpoints and commits.
RememberedIsStored == \A s \in Sources : 1 .. cursor[s] \subseteq stored[s]

\* Every ingestion_runs row that says "running" is a run in progress, except
\* for one per fault at most: a fault never leaves two rows open.
OpenRunsAccountedFor ==
    \A s \in Sources :
      openRuns[s] <= faults + Cardinality({t \in Threads : RunOf(t, s)})

\* A run that nobody asked for by hand starts only when the backoff of its
\* source has passed since the last attempt of any kind: the check and the
\* attempt are two transactions, and only the lock keeps others out between.
BackoffRespected ==
    [][\A t \in Threads :
         (pc[t] = "ready" /\ pc'[t] = "sync" /\ via[t] \in {"interval", "bootstrap"})
           => Due(key[t])]_vars

\* The scheduler does to each source what SourceLog promises: items are never
\* lost, the cursor never moves back and never covers what is not stored.
Log ==
    INSTANCE SourceLog WITH Sources <- Sources, upstream <- upstream,
                            stored <- stored, cursor <- cursor
ImplementsSourceLog == Log!Spec

\* Whatever crashes, locks left behind and backoffs there are, every source is
\* run again and again.
SourcesKeepRunning == \A s \in Sources : []<>InRun(s)

\* Whatever a source publishes is in the database in the end.
EverythingArrives ==
    \A s \in Sources : \A n \in 1 .. MaxItems :
      (upstream[s] >= n) ~> (n \in stored[s])
==============================================================================
