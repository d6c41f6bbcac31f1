------------------------------ MODULE WorkerRun ------------------------------
(***************************************************************************)
(* What every worker's run does to the database: requests with retries      *)
(* (ingestion/http.py), one session with checkpoints and a last commit, and  *)
(* the state that is saved after it (ingestion/base.py).  Ingestion.tla says *)
(* when runs start and exclude each other; here one runs at a time, and may  *)
(* fail or be killed at any step.                                           *)
(*                                                                         *)
(* A row stands for whatever a source is about, a CVE, an exploit, a rule,   *)
(* an indicator or an article: its key, its revision, the CVEs it names, and *)
(* whether the parser accepts it.                                           *)
(***************************************************************************)
EXTENDS Integers, Sequences, FiniteSets

CONSTANTS
    Cves,         \* CVE identifiers
    None,         \* no value
    MaxRetries    \* HttpClient's max_retries

ASSUME RunAssumption == IsFiniteSet(Cves) /\ MaxRetries \in Nat

VARIABLES
    kind,         \* the worker that runs; never changes
    upstream,     \* what its source serves
    db,           \* the committed database
    session,      \* the database as the run's session sees it
    run           \* the run: its step, and what it holds in memory

vars == <<kind, upstream, db, session, run>>

(***************************************************************************)
(* The database: http_cache and sources.state of the source, its rows and   *)
(* links to CVEs, what was derived of each CVE, and github_checked_at.       *)
(***************************************************************************)
NoCache == [etag |-> 0, digest |-> 0]

NewDb(state) ==
    [cache |-> NoCache, state |-> state, rows |-> {}, links |-> {},
     derived |-> [c \in Cves |-> {}], checked |-> [c \in Cves |-> 0], missed |-> {}]

Keys(rows) == {r.key : r \in rows}

Rev(d, key) == IF key \in Keys(d.rows) THEN (CHOOSE r \in d.rows : r.key = key).rev ELSE 0

\* Mutant: a row is added beside the one that has its key.
PutBeside(d, rows) ==
    [d EXCEPT !.rows = @ \cup rows,
              !.links = @ \cup UNION {{<<r.key, c>> : c \in r.cves} : r \in rows}]

\* Rows are added or overwritten by key.  Links are added, never removed.
Put(d, rows) ==
    [d EXCEPT !.rows = {r \in @ : r.key \notin Keys(rows)} \cup rows,
              !.links = @ \cup UNION {{<<r.key, c>> : c \in r.cves} : r \in rows}]

Named(rows) == UNION {r.cves : r \in rows}

\* What recompute_vulnerability reads of a CVE: the rows linked to it.
Evidence(d, c) == {<<r.key, r.rev>> : r \in {s \in d.rows : <<s.key, c>> \in d.links}}

\* recompute_many
Recompute(d, cves) ==
    [d EXCEPT !.derived = [c \in Cves |-> IF c \in cves THEN Evidence(d, c) ELSE @[c]]]

(***************************************************************************)
(* The run                                                                 *)
(***************************************************************************)
Idle ==
    [pc |-> "idle", attempt |-> 1, got |-> None, new |-> {}, touched |-> {},
     state |-> None, now |-> 0, start |-> 0, missed |-> {}]

\* The steps at which a run waits for an answer.
Asking == {"get", "archive", "page", "search", "watch"}

Begin(pc) ==
    /\ run.pc = "idle"
    /\ session' = db
    /\ run' = [Idle EXCEPT !.pc = pc, !.state = db.state]
    /\ UNCHANGED <<kind, upstream, db>>

\* A network error or a status of RETRY_STATUSES, while attempts are left.
Retry ==
    /\ run.pc \in Asking
    /\ run.attempt <= MaxRetries
    /\ run' = [run EXCEPT !.attempt = @ + 1]
    /\ UNCHANGED <<kind, upstream, db, session>>

\* Any exception: a FetchError, a payload that cannot be parsed, the database.
\* The session is rolled back, and the state in memory is dropped.  To be
\* killed leaves the same behind, at whichever step.
Fail ==
    /\ run.pc # "idle"
    /\ run' = Idle
    /\ session' = db
    /\ UNCHANGED <<kind, upstream, db>>

\* Mutant: the commit comes before the CVEs are recomputed.
CheckpointUnscored(s, next) ==
    /\ db' = [s EXCEPT !.state = next.state]
    /\ session' = db'
    /\ run' = next

\* WorkerContext.checkpoint: recompute what was touched, store the state, commit.
Checkpoint(s, next) ==
    /\ db' = [Recompute(s, next.touched) EXCEPT !.state = next.state]
    /\ session' = db'
    /\ run' = [next EXCEPT !.touched = {}]

Finish == run' = [run EXCEPT !.pc = "commit"]

\* The end of sync in run_worker ...
Commit ==
    /\ run.pc = "commit"
    /\ db' = Recompute(session, run.touched)
    /\ session' = db'
    /\ run' = [run EXCEPT !.pc = "save"]
    /\ UNCHANGED <<kind, upstream>>

\* ... and the state, in a transaction of its own.
SaveState ==
    /\ run.pc = "save"
    /\ db' = [db EXCEPT !.state = run.state]
    /\ session' = db'
    /\ run' = Idle
    /\ UNCHANGED <<kind, upstream>>
=============================================================================
