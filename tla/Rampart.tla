------------------------------- MODULE Rampart -------------------------------
(***************************************************************************)
(* Rampart, the environment of one owner: backend/app/api/rampart.py over   *)
(* services/rampart/repository.py, and the two writers that share its       *)
(* tables with it, an ingestion run and the maintenance job, both through   *)
(* recompute_vulnerability of services/correlation.py.                      *)
(*                                                                          *)
(* Each of them is one database transaction of several statements, at       *)
(* PostgreSQL's default isolation, READ COMMITTED: a statement sees what    *)
(* was committed when it starts, a write waits for the transaction that     *)
(* holds the row or the unique key, and nothing notices that what was read  *)
(* has changed since.                                                       *)
(***************************************************************************)
EXTENDS Integers, FiniteSets

CONSTANTS
    AssetIds,       \* bound: the primary keys environment_assets can hand out
    Products,       \* vendor and product of an asset
    Versions,       \* its version
    Cves,
    CveData,        \* what vulnerabilities and affected_products say of a CVE
    States, NoRow,  \* AFFECTED, POSSIBLY_AFFECTED, NOT_AFFECTED; no match row
    Verdict,        \* Verdict[a, d]: match_asset, NoRow for None
    Candidate,      \* the <<a, d>> that recompute_asset's LIKE lets through
    MaxAssets,      \* MAX_ASSETS
    Maintained,     \* the CVEs maintenance recomputes
    Txs,            \* database sessions
    Unborn, Deleted, NoAsset, NoCve, NoData,
    MaxChanges,     \* bound: edits of the inventory and ingestion runs
    MaxFaults       \* bound: transactions that fail for no reason given here

AssetData == [product : Products, version : Versions]
Pairs == AssetIds \X Cves
Rows == States \cup {NoRow}

ASSUME ConstantsAssumption ==
    /\ IsFiniteSet(AssetIds) /\ IsFiniteSet(Txs)
    /\ Verdict \in [AssetData \X CveData -> Rows]
    /\ Candidate \subseteq AssetData \X CveData
    /\ Maintained \subseteq Cves
    /\ NoRow \notin States
    /\ {Unborn, Deleted, NoData} \cap AssetData = {}
    /\ Unborn # Deleted
    /\ NoAsset \notin AssetIds /\ NoCve \notin Cves /\ NoData \notin CveData
    /\ MaxAssets \in Nat \ {0} /\ MaxChanges \in Nat /\ MaxFaults \in Nat

\* The LIKE of recompute_asset keeps every CVE that match_asset would match.
\* It compares the asset's normalised product with the stored spelling, so
\* this is so for products stored in normal form.
ASSUME PrefilterComplete ==
    \A x \in AssetData \X CveData : Verdict[x] # NoRow => x \in Candidate

VARIABLES
    \* committed
    env,        \* does the owner have an environment
    asset,      \* asset[a]: a row of environment_assets
    cve,        \* cve[c]: its vulnerabilities and affected_products rows
    match,      \* match[a, c]: the state column of environment_matches
    \* sessions
    tx,
    \* history
    raced,      \* pairs last written by a transaction that overlapped another
    changes, faults     \* for the bounds only

vars == <<env, asset, cve, match, tx, raced, changes, faults>>

Kinds == {"none", "visit", "create", "update", "delete", "ingest", "maintain"}
PCs == {"idle", "environment", "insertEnv", "write", "clear", "clearing",
        "candidates", "read", "insert", "remove", "apply", "recompute", "commit"}

\* A session and its open transaction.
Transaction == [
    kind    : Kinds,
    pc      : PCs,
    asset   : AssetIds \cup {NoAsset},
    loaded  : AssetData \cup {NoData},  \* the row as update_asset read it
    data    : AssetData \cup {NoData},  \* the row as the request wants it
    holds   : BOOLEAN,                  \* has written (locked) its asset row
    newEnv  : BOOLEAN,                  \* has inserted an environment
    write   : [Cves -> CveData \cup {NoData}],  \* CVEs it has written
    touched : SUBSET Cves,              \* stats.touched_cves
    todo    : SUBSET Cves,              \* CVEs still to look at
    cve     : Cves \cup {NoCve},        \* the CVE recompute_cve is at
    plan    : [Pairs -> Rows],          \* verdicts computed, not yet inserted
    waiting : SUBSET Pairs,             \* rows its DELETE has found
    del     : SUBSET Pairs,             \* rows it has deleted
    ins     : [Pairs -> Rows],          \* rows it has inserted
    clash   : SUBSET Pairs]             \* history: pairs others committed meanwhile

NoPlan == [p \in Pairs |-> NoRow]
Idle == [kind |-> "none", pc |-> "idle", asset |-> NoAsset, loaded |-> NoData,
         data |-> NoData, holds |-> FALSE, newEnv |-> FALSE,
         write |-> [c \in Cves |-> NoData], touched |-> {}, todo |-> {},
         cve |-> NoCve, plan |-> NoPlan, waiting |-> {}, del |-> {},
         ins |-> NoPlan, clash |-> {}]

TypeOK ==
    /\ env \in BOOLEAN
    /\ asset \in [AssetIds -> AssetData \cup {Unborn, Deleted}]
    /\ cve \in [Cves -> CveData]
    /\ match \in [Pairs -> Rows]
    /\ tx \in [Txs -> Transaction]
    /\ raced \subseteq Pairs
    /\ changes \in 0 .. MaxChanges
    /\ faults \in 0 .. MaxFaults

Live == {a \in AssetIds : asset[a] \in AssetData}
OfAsset(a) == {a} \X Cves
OfCve(c) == AssetIds \X {c}

\* What t sees of c: its own write, or what is committed.
View(t, c) == IF tx[t].write[c] # NoData THEN tx[t].write[c] ELSE cve[c]

\* The pairs whose verdict t recomputes.
Scope(t) ==
    CASE tx[t].kind \in {"create", "update", "delete"} -> {tx[t].asset} \X Cves
      [] tx[t].kind \in {"ingest", "maintain"} -> AssetIds \X tx[t].touched
      [] OTHER -> {}

------------------------------------------------------------------------------
(* Locks (PostgreSQL)                                                       *)

Planned(t) == {p \in Pairs : tx[t].plan[p] # NoRow}
Inserted(t) == {p \in Pairs : tx[t].ins[p] # NoRow}
Locks(u, a) == tx[u].holds /\ tx[u].asset = a

\* The sessions t waits for: those that hold the unique key it inserts, the
\* row it writes, or, through a foreign key, the asset row it refers to.
Blockers(t) ==
    {u \in Txs \ {t} :
       \/ tx[t].pc = "insertEnv" /\ tx[u].newEnv
       \/ tx[t].pc = "write" /\ tx[t].kind = "update" /\ Locks(u, tx[t].asset)
       \/ tx[t].pc = "clearing" /\ tx[u].del \cap tx[t].waiting # {}
       \/ /\ tx[t].pc = "insert"
          /\ \/ (Inserted(u) \cup tx[u].del) \cap Planned(t) # {}
             \/ /\ tx[u].kind = "delete"
                /\ \E p \in Planned(t) : Locks(u, p[1])
       \/ /\ tx[t].pc = "remove"
          /\ \/ Locks(u, tx[t].asset)
             \/ Inserted(u) \cap OfAsset(tx[t].asset) # {}}

\* A statement of t the database refuses: a second environment of that name,
\* a row that is gone, a match row that exists, a match row without an asset.
Refused(t) ==
    \/ tx[t].pc = "insertEnv" /\ env
    \/ tx[t].pc = "write" /\ tx[t].kind = "update" /\ asset[tx[t].asset] = Deleted
    \/ /\ tx[t].pc = "insert"
       /\ \E p \in Planned(t) :
            \/ match[p] # NoRow /\ p \notin tx[t].del
            \/ asset[p[1]] = Deleted

\* t, in a cycle of sessions that wait for each other.
Deadlocked(t) ==
    \E S \in SUBSET Txs :
      /\ t \in S
      /\ \A u \in S : Blockers(u) \cap S # {} /\ \E v \in S : u \in Blockers(v)

\* The next statement of t can complete.
Ready(t, pc) == tx[t].pc = pc /\ Blockers(t) = {} /\ ~Refused(t)

------------------------------------------------------------------------------
(* Requests (api/rampart.py)                                                *)

Begin(t, start) ==
    /\ tx[t].pc = "idle"
    /\ tx' = [tx EXCEPT ![t] = start]
    /\ UNCHANGED <<env, asset, cve, match, raced, faults>>

Change == changes < MaxChanges /\ changes' = changes + 1

\* bound: there is a primary key for every asset about to be created.
KeysLeft ==
    Cardinality({u \in Txs : tx[u].kind = "create" /\ tx[u].asset = NoAsset})
      < Cardinality({a \in AssetIds : asset[a] = Unborn /\ \A u \in Txs : tx[u].asset # a})

\* GET /environment.
BeginVisit(t) ==
    /\ Begin(t, [Idle EXCEPT !.kind = "visit", !.pc = "environment"])
    /\ UNCHANGED changes

\* Variant with a bug: the limit is off by one.
BeginCreateOffByOne(t, d) ==
    /\ Cardinality(Live) <= MaxAssets
    /\ KeysLeft
    /\ Begin(t, [Idle EXCEPT !.kind = "create", !.pc = "environment", !.data = d])
    /\ Change

\* POST /assets: count_assets, refused at the limit.
BeginCreate(t, d) ==
    /\ Cardinality(Live) < MaxAssets
    /\ KeysLeft
    /\ Begin(t, [Idle EXCEPT !.kind = "create", !.pc = "environment", !.data = d])
    /\ Change

\* Variant with a bug: no 404 for a row that is gone.
BeginUpdateUnchecked(t, a, d) ==
    /\ Begin(t, [Idle EXCEPT !.kind = "update", !.pc = "write", !.asset = a,
                             !.loaded = asset[a], !.data = d])
    /\ Change

\* PATCH /assets/{id}: get_asset, 404 when there is no such row.
BeginUpdate(t, a, d) ==
    /\ a \in Live
    /\ Begin(t, [Idle EXCEPT !.kind = "update", !.pc = "write", !.asset = a,
                             !.loaded = asset[a], !.data = d])
    /\ Change

\* DELETE /assets/{id}.
BeginDelete(t, a) ==
    /\ a \in Live
    /\ Begin(t, [Idle EXCEPT !.kind = "delete", !.pc = "clear", !.asset = a])
    /\ Change

------------------------------------------------------------------------------
(* Statements of a request (repository.py)                                  *)

Step(t, next) ==
    /\ tx' = [tx EXCEPT ![t] = next]
    /\ UNCHANGED <<env, asset, cve, match, raced, changes, faults>>

AfterEnvironment(t) == IF tx[t].kind = "visit" THEN "commit" ELSE "write"

\* default_environment: the SELECT, then, if it found none, the INSERT.
ReadEnvironment(t) ==
    /\ Ready(t, "environment")
    /\ Step(t, [tx[t] EXCEPT !.pc = IF env THEN AfterEnvironment(t) ELSE "insertEnv"])

InsertEnvironment(t) ==
    /\ Ready(t, "insertEnv")
    /\ Step(t, [tx[t] EXCEPT !.pc = AfterEnvironment(t), !.newEnv = TRUE])

\* create_asset: a new primary key.
InsertAsset(t) ==
    /\ Ready(t, "write") /\ tx[t].kind = "create"
    /\ \E a \in AssetIds :
         /\ asset[a] = Unborn
         /\ \A u \in Txs : tx[u].asset # a
         /\ Step(t, [tx[t] EXCEPT !.pc = "clear", !.asset = a, !.holds = TRUE])

\* update_asset: the UPDATE by primary key.
UpdateAsset(t) ==
    /\ Ready(t, "write") /\ tx[t].kind = "update"
    /\ Step(t, [tx[t] EXCEPT !.pc = "clear", !.holds = TRUE])

\* DELETE FROM environment_matches, for an asset or for a CVE, finds the rows
\* committed when it starts ...
FindMatches(t) ==
    /\ Ready(t, "clear")
    /\ LET scope == IF tx[t].cve = NoCve THEN OfAsset(tx[t].asset) ELSE OfCve(tx[t].cve)
       IN  Step(t, [tx[t] EXCEPT !.pc = "clearing",
                                 !.waiting = {p \in scope : match[p] # NoRow}])

\* ... and deletes those that are still there when no one else holds them.
DeleteMatches(t) ==
    /\ Ready(t, "clearing")
    /\ LET next == CASE tx[t].kind = "delete" -> "remove"
                     [] tx[t].kind \in {"create", "update"} -> "candidates"
                     [] OTHER -> "insert"
       IN  Step(t, [tx[t] EXCEPT !.pc = next, !.waiting = {},
                                 !.del = @ \cup tx[t].waiting])

\* recompute_asset: the CVEs worth a look ...
ReadCandidates(t) ==
    /\ Ready(t, "candidates")
    /\ LET found == {c \in Cves : <<tx[t].data, cve[c]>> \in Candidate}
       IN  Step(t, [tx[t] EXCEPT !.todo = found,
                                 !.pc = IF found = {} THEN "commit" ELSE "read"])

\* ... each read and matched in turn, in no particular order ...
MatchAsset(t) ==
    /\ Ready(t, "read")
    /\ \E c \in tx[t].todo :
         Step(t, [tx[t] EXCEPT
                    !.plan[<<tx[t].asset, c>>] = Verdict[<<tx[t].data, cve[c]>>],
                    !.todo = @ \ {c},
                    !.pc = IF tx[t].todo = {c} THEN "insert" ELSE "read"])

\* ... and _write_matches, for all of them; recompute_cve comes here too.
InsertMatches(t) ==
    /\ Ready(t, "insert")
    /\ Step(t, [tx[t] EXCEPT
                  !.ins = [p \in Pairs |-> IF tx[t].plan[p] # NoRow
                                           THEN tx[t].plan[p] ELSE @[p]],
                  !.plan = NoPlan,
                  !.cve = NoCve,
                  !.pc = IF tx[t].todo # {} THEN "recompute" ELSE "commit"])

\* Variant with a bug: the asset is marked as deleted by an UPDATE of a column
\* that no foreign key refers to, which locks no one out.
RemoveAssetSoftly(t) ==
    /\ Ready(t, "remove")
    /\ Step(t, [tx[t] EXCEPT !.pc = "commit"])

\* delete_asset: the DELETE of the asset itself, which cascades.
RemoveAsset(t) ==
    /\ Ready(t, "remove")
    /\ Step(t, [tx[t] EXCEPT !.pc = "commit", !.holds = TRUE])

------------------------------------------------------------------------------
(* Ingestion and maintenance                                                *)

\* The second transaction of run_worker, or an on-demand NVD lookup.
BeginIngest(t) ==
    /\ Begin(t, [Idle EXCEPT !.kind = "ingest", !.pc = "apply"])
    /\ Change

\* Variant with a bug: the change is not reported in touched_cves.
ApplyCveUntouched(t, c, d) ==
    /\ Ready(t, "apply")
    /\ \A u \in Txs \ {t} : tx[u].write[c] = NoData
    /\ d # View(t, c)
    /\ Step(t, [tx[t] EXCEPT !.write[c] = d])

\* apply_kev, apply_nvd ...: what is known of c changes, and c is touched.
ApplyCve(t, c, d) ==
    /\ Ready(t, "apply")
    /\ \A u \in Txs \ {t} : tx[u].write[c] = NoData
    /\ d # View(t, c)
    /\ Step(t, [tx[t] EXCEPT !.write[c] = d, !.touched = @ \cup {c}])

\* recompute_many.
RecomputeMany(t) ==
    /\ Ready(t, "apply")
    /\ Step(t, [tx[t] EXCEPT !.todo = tx[t].touched,
                  !.pc = IF tx[t].touched = {} THEN "commit" ELSE "recompute"])

\* maintenance: every six hours, and at the end of the bootstrap pass.
BeginMaintenance(t) ==
    /\ Maintained # {}
    /\ Begin(t, [Idle EXCEPT !.kind = "maintain", !.pc = "recompute",
                             !.touched = Maintained, !.todo = Maintained])
    /\ UNCHANGED changes

\* Variant with a bug: the old rows are not deleted first.
RecomputeCveKeepingRows(t) ==
    /\ Ready(t, "recompute")
    /\ \E c \in tx[t].todo :
         Step(t, [tx[t] EXCEPT !.todo = @ \ {c}, !.pc = "insert", !.cve = c,
                    !.plan = [p \in Pairs |->
                                IF p[1] \in Live /\ p[2] = c
                                THEN Verdict[<<asset[p[1]], View(t, c)>>]
                                ELSE NoRow]])

\* recompute_cve: the owner's assets and the CVE, matched.  Without assets it
\* returns before its DELETE.
RecomputeCve(t) ==
    /\ Ready(t, "recompute")
    /\ \E c \in tx[t].todo :
         LET rest == tx[t].todo \ {c} IN
         IF Live = {}
         THEN Step(t, [tx[t] EXCEPT !.todo = rest,
                         !.pc = IF rest = {} THEN "commit" ELSE "recompute"])
         ELSE Step(t, [tx[t] EXCEPT !.todo = rest, !.pc = "clear", !.cve = c,
                         !.plan = [p \in Pairs |->
                                     IF p[1] \in Live /\ p[2] = c
                                     THEN Verdict[<<asset[p[1]], View(t, c)>>]
                                     ELSE NoRow]])

------------------------------------------------------------------------------
(* The end of a transaction                                                 *)

\* UPDATE writes the columns that differ from what the session had loaded.
Merged(t) ==
    LET now == asset[tx[t].asset]
        was == tx[t].loaded
        new == tx[t].data
    IN  [product |-> IF new.product # was.product THEN new.product ELSE now.product,
         version |-> IF new.version # was.version THEN new.version ELSE now.version]

\* session.commit().
Commit(t) ==
    /\ Ready(t, "commit")
    /\ env' = (env \/ tx[t].newEnv)
    /\ asset' = CASE tx[t].kind = "create" -> [asset EXCEPT ![tx[t].asset] = tx[t].data]
                  [] tx[t].kind = "update" -> [asset EXCEPT ![tx[t].asset] = Merged(t)]
                  [] tx[t].kind = "delete" -> [asset EXCEPT ![tx[t].asset] = Deleted]
                  [] OTHER -> asset
    /\ cve' = [c \in Cves |-> View(t, c)]
    /\ LET gone == tx[t].del \cup (IF tx[t].kind = "delete"
                                   THEN OfAsset(tx[t].asset) ELSE {})
       IN  /\ match' = [p \in Pairs |-> IF tx[t].ins[p] # NoRow THEN tx[t].ins[p]
                                        ELSE IF p \in gone THEN NoRow ELSE match[p]]
           /\ tx' = [u \in Txs |->
                       IF u = t \/ tx[u].pc = "idle" THEN Idle
                       ELSE [tx[u] EXCEPT !.waiting = @ \ gone,
                                          !.clash = @ \cup Scope(t)]]
    /\ raced' = (raced \ Scope(t)) \cup (Scope(t) \cap tx[t].clash)
    /\ UNCHANGED <<changes, faults>>

Rollback(t) ==
    /\ tx' = [tx EXCEPT ![t] = Idle]
    /\ UNCHANGED <<env, asset, cve, match, raced, changes>>

\* IntegrityError or StaleDataError; or the database ends a deadlock.
StatementFails(t) ==
    /\ \/ Refused(t) /\ Blockers(t) = {}
       \/ Deadlocked(t)
    /\ Rollback(t)
    /\ UNCHANGED faults

\* The process dies, the connection is lost, sync raises.
SessionDies(t) ==
    /\ tx[t].pc # "idle"
    /\ faults < MaxFaults
    /\ faults' = faults + 1
    /\ Rollback(t)

------------------------------------------------------------------------------

Init ==
    /\ env = FALSE
    /\ asset = [a \in AssetIds |-> Unborn]
    /\ cve \in [Cves -> CveData]
    /\ match = NoPlan
    /\ tx = [t \in Txs |-> Idle]
    /\ raced = {}
    /\ changes = 0 /\ faults = 0

Request(t) ==
    \/ BeginVisit(t)
    \/ \E d \in AssetData : BeginCreate(t, d)
    \/ \E a \in AssetIds : BeginDelete(t, a) \/ \E d \in AssetData : BeginUpdate(t, a, d)
    \/ BeginIngest(t)

Statement(t) ==
    \/ ReadEnvironment(t) \/ InsertEnvironment(t) \/ InsertAsset(t) \/ UpdateAsset(t)
    \/ FindMatches(t) \/ DeleteMatches(t) \/ ReadCandidates(t) \/ MatchAsset(t)
    \/ InsertMatches(t) \/ RemoveAsset(t) \/ RecomputeMany(t) \/ RecomputeCve(t)
    \/ Commit(t) \/ StatementFails(t)

Next ==
    \E t \in Txs :
      \/ Request(t) \/ BeginMaintenance(t) \/ Statement(t) \/ SessionDies(t)
      \/ \E c \in Cves, d \in CveData : ApplyCve(t, c, d)

Spec == Init /\ [][Next]_vars

\* Every session goes on until its transaction ends, and the maintenance job
\* fires again and again.  (It has a session of its own to open: that all Txs
\* are taken now and then is a bound of the model, hence SF.)
FairSpec ==
    /\ Spec
    /\ \A t \in Txs : WF_vars(Statement(t))
    /\ SF_vars(\E t \in Txs : BeginMaintenance(t))

------------------------------------------------------------------------------
(* What Rampart guarantees                                                  *)

Expected(p) == IF p[1] \in Live THEN Verdict[<<asset[p[1]], cve[p[2]]>>] ELSE NoRow

\* The verdict stored for an asset and a CVE is what match_asset says of their
\* rows, unless the last transaction to write it overlapped another that wrote
\* it: no request, run or maintenance pass spoils a verdict on its own.
StaleOnlyAfterRace == \A p \in Pairs : p \in raced \/ match[p] = Expected(p)

\* No match row outlives its asset, whoever deletes and whoever recomputes at
\* the same time ("an orphaned match keeps listing CVEs for equipment its
\* owner has just told us they no longer run").
NoOrphans == \A p \in Pairs : match[p] # NoRow => p[1] \in Live

\* "A single owner cannot register an unbounded inventory": MAX_ASSETS bounds it
\* up to the requests that were past the count together.
InventoryBounded == Cardinality(Live) < MaxAssets + Cardinality(Txs)

\* When changes stop, maintenance leaves the right verdict for every CVE it
\* selects.
VerdictsSettle == \A p \in AssetIds \X Maintained : <>[](match[p] = Expected(p))
==============================================================================
