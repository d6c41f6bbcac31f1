-------------------------------- MODULE Schema --------------------------------
(***************************************************************************)
(* How a release gets its database.  Two services, the API and the          *)
(* scheduler, run the same image.  In the deployments (docker-compose.prod   *)
(* and render.yaml) the API's container first runs `alembic upgrade head`;  *)
(* in every deployment both then call create_schema, which creates the       *)
(* tables the models have and the database does not, and sync_registry,      *)
(* which inserts the sources the registry has and the database does not.     *)
(* Each of the three reads before it writes, in a transaction of its own,    *)
(* and a service that is refused exits and is started again.                 *)
(***************************************************************************)
EXTENDS Integers, Sequences, FiniteSets

CONSTANTS
    Deployments,  \* which of "local", "prod", "render" to consider
    Legacy,       \* releases whose create_schema may have built the database
    MaxDeploys,   \* bound: releases deployed after the first
    MaxStops,     \* bound: crashes and restarts of a service
    MaxStamps     \* bound: `alembic stamp head` by the operator

\* The tables that each revision of alembic/versions creates, in order.
BaselineTables ==
    {"attack_objects", "attack_relationships", "documents", "entity_links",
     "exploits", "http_cache", "nvd_cache", "sources", "vulnerabilities",
     "affected_products", "ingestion_runs", "source_references"}
RampartTables == {"environments", "environment_assets", "environment_matches"}
DetectionTables == {"detection_rules"}
IndicatorTables == {"indicators"}

Revisions == <<BaselineTables, RampartTables, DetectionTables, IndicatorTables>>
Newest == Len(Revisions)

\* What revisions a + 1 to b create.
Between(a, b) == UNION {Revisions[r] : r \in a + 1 .. b}

\* The tables of models.py, as of the last release.
ModelTables ==
    {"sources", "ingestion_runs", "http_cache", "vulnerabilities",
     "affected_products", "source_references", "nvd_cache", "exploits",
     "documents", "attack_objects", "attack_relationships", "entity_links",
     "environments", "environment_assets", "environment_matches",
     "detection_rules", "indicators"}

\* A release has the models whose tables its revisions create.
Models(r) == Between(0, r)

\* The sources that a release registers, by the release that added them.
RegistryFromZero(r) == 0 .. r
Registry(r) == 1 .. r

ASSUME SchemaAssumption ==
    /\ Deployments \subseteq {"local", "prod", "render"}
    /\ Legacy \subseteq 0 .. Newest
    /\ MaxDeploys \in Nat /\ MaxStops \in Nat /\ MaxStamps \in Nat

\* "The two are checked against each other": the revisions build what the
\* models declare, and no table twice.
ASSUME ModelsMatchRevisions ==
    /\ ModelTables = Models(Newest)
    /\ \A i, j \in 1 .. Newest : i # j => Revisions[i] \cap Revisions[j] = {}

VARIABLES
    deployment,  \* how the services are run
    legacy,      \* the release whose create_schema built the database, or 0
    release,     \* the release that the operator deployed last
    image,       \* image[p]: the release that service p's container runs, or 0
    pc,          \* pc[p]: how far the start of service p has come
    revision,    \* what alembic read from alembic_version
    found,       \* found[p]: the tables that p has read
    registered,  \* registered[p]: the sources that p has read
    tables,      \* the tables there are
    version,     \* alembic_version: the last revision applied, or 0
    sources,     \* the rows of sources, by the release that added them
    deploys, stops, stamps

service == <<image, pc, revision, found, registered>>
database == <<tables, version, sources>>
operator == <<deployment, legacy, release, deploys, stops, stamps>>
vars == <<operator, service, database>>

Services == {"api", "scheduler"}

Up(p) == pc[p] = "up" /\ image[p] = release
Migrates == deployment \in {"prod", "render"}

Init ==
    /\ deployment \in Deployments
    /\ legacy \in Legacy
    /\ release \in 1 .. Newest /\ legacy <= release
    /\ image = [p \in Services |-> 0]
    /\ pc = [p \in Services |-> "down"]
    /\ revision = 0
    /\ found = [p \in Services |-> {}] /\ registered = [p \in Services |-> {}]
    /\ tables = Models(legacy)
    /\ version = 0
    /\ sources = Registry(legacy)
    /\ deploys = 0 /\ stops = 0 /\ stamps = 0

-------------------------------------------------------------------------------
(* The operator and the platform *)

\* Another release is deployed, a newer or an older one.
Deploy ==
    /\ deploys < MaxDeploys
    /\ release' \in 1 .. Newest \ {release}
    /\ deploys' = deploys + 1
    /\ UNCHANGED <<deployment, legacy, stops, stamps, service, database>>

\* What depends_on makes the scheduler's container wait for: a healthy API in
\* docker-compose.prod.yml, a started one locally, nothing on Render.
MayReplace(p) ==
    p = "scheduler" =>
        /\ deployment = "prod" => Up("api")
        /\ deployment = "local" => image["api"] = release

\* The process of p is gone, with what it had read.
Down(p) ==
    /\ pc' = [pc EXCEPT ![p] = "down"]
    /\ revision' = IF p = "api" THEN 0 ELSE revision
    /\ found' = [found EXCEPT ![p] = {}]
    /\ registered' = [registered EXCEPT ![p] = {}]

\* Without depends_on: a service is replaced whatever the other one does.
ReplaceAtOnce(p) ==
    /\ image[p] # release
    /\ image' = [image EXCEPT ![p] = release]
    /\ Down(p)
    /\ UNCHANGED <<operator, database>>

\* The container of a service is replaced by one of the deployed release.
Replace(p) ==
    /\ image[p] # release
    /\ MayReplace(p)
    /\ image' = [image EXCEPT ![p] = release]
    /\ Down(p)
    /\ UNCHANGED <<operator, database>>

\* `alembic stamp head`, on a database that has tables and no version.
Stamp ==
    /\ stamps < MaxStamps
    /\ Migrates /\ image["api"] > 0
    /\ version = 0 /\ tables # {}
    /\ version' = image["api"]
    /\ stamps' = stamps + 1
    /\ UNCHANGED <<deployment, legacy, release, deploys, stops, service, tables, sources>>

\* The process ends; what its transaction wrote is rolled back.
Stop(p) ==
    /\ stops < MaxStops
    /\ pc[p] # "down"
    /\ Down(p)
    /\ stops' = stops + 1
    /\ UNCHANGED <<deployment, legacy, release, deploys, stamps, image, database>>

-------------------------------------------------------------------------------
(* The start of a service *)

Moves(p, from, to) == pc[p] = from /\ pc' = [pc EXCEPT ![p] = to]

\* alembic reads the version it starts from.
ReadVersion ==
    /\ Migrates /\ image["api"] > 0
    /\ Moves("api", "down", "upgrade")
    /\ revision' = version
    /\ UNCHANGED <<image, found, registered, operator, database>>

\* alembic knows the version, it is still the one read, and none of the tables
\* to create is there: a revision creates its tables without a check.
UpgradeFits ==
    LET r == image["api"] IN
    /\ revision <= r
    /\ revision < r => version = revision /\ Between(revision, r) \cap tables = {}

\* The version is not in the transaction that creates the tables: the process
\* may end between the two.
UpgradeInTwo ==
    /\ UpgradeFits
    /\ \/ Moves("api", "upgrade", "migrated") /\ version' = image["api"]
       \/ Moves("api", "upgrade", "down") /\ UNCHANGED version
    /\ tables' = tables \cup Between(revision, image["api"])
    /\ revision' = 0
    /\ UNCHANGED <<image, found, registered, sources, operator>>

\* All revisions that are missing, in one transaction.
Upgrade ==
    /\ UpgradeFits
    /\ Moves("api", "upgrade", "migrated")
    /\ tables' = tables \cup Between(revision, image["api"])
    /\ version' = image["api"]
    /\ revision' = 0
    /\ UNCHANGED <<image, found, registered, sources, operator>>

\* create_schema looks which tables there are.
ReadTables(p) ==
    /\ image[p] > 0
    /\ Moves(p, IF p = "api" /\ Migrates THEN "migrated" ELSE "down", "create")
    /\ found' = [found EXCEPT ![p] = tables]
    /\ UNCHANGED <<image, revision, registered, operator, database>>

\* What p did not find there, and is going to add.
MissingTables(p) == Models(image[p]) \ found[p]
MissingSources(p) == Registry(image[p]) \ registered[p]

\* A deployed service leaves the schema to alembic.
CreateSchemaLocally(p) ==
    /\ Moves(p, "create", "created")
    /\ MissingTables(p) \cap tables = {}
    /\ tables' = IF Migrates THEN tables
                 ELSE tables \cup MissingTables(p)
    /\ found' = [found EXCEPT ![p] = {}]
    /\ UNCHANGED <<image, revision, registered, version, sources, operator>>

\* create_all: the tables that were missing.
CreateSchema(p) ==
    /\ Moves(p, "create", "created")
    /\ MissingTables(p) \cap tables = {}
    /\ tables' = tables \cup MissingTables(p)
    /\ found' = [found EXCEPT ![p] = {}]
    /\ UNCHANGED <<image, revision, registered, version, sources, operator>>

\* sync_registry looks which sources there are.
ReadSources(p) ==
    /\ Moves(p, "created", "register")
    /\ registered' = [registered EXCEPT ![p] = sources]
    /\ UNCHANGED <<image, revision, found, operator, database>>

\* sync_registry inserts the missing ones and commits; the service is up.
SyncRegistry(p) ==
    /\ Moves(p, "register", "up")
    /\ MissingSources(p) \cap sources = {}
    /\ sources' = sources \cup MissingSources(p)
    /\ registered' = [registered EXCEPT ![p] = {}]
    /\ UNCHANGED <<image, revision, found, tables, version, operator>>

\* The database refuses what a service adds: someone else added it meanwhile
\* (or, for alembic, ever).  The process exits and the platform restarts it.
Refused(p) ==
    \/ pc[p] = "upgrade" /\ ~UpgradeFits
    \/ pc[p] = "create" /\ MissingTables(p) \cap tables # {}
    \/ pc[p] = "register" /\ MissingSources(p) \cap sources # {}

Exit(p) ==
    /\ Refused(p)
    /\ Down(p)
    /\ UNCHANGED <<image, operator, database>>

Step(p) ==
    \/ p = "api" /\ (ReadVersion \/ Upgrade)
    \/ ReadTables(p) \/ CreateSchema(p)
    \/ ReadSources(p) \/ SyncRegistry(p)
    \/ Exit(p)

Next ==
    \/ Deploy \/ Stamp
    \/ \E p \in Services : Replace(p) \/ Step(p) \/ Stop(p)

Spec == Init /\ [][Next]_vars

\* A deployment replaces both containers in the end, and a container is
\* restarted until its process runs (restart: unless-stopped).
FairSpec == Spec /\ \A p \in Services : WF_vars(Replace(p)) /\ WF_vars(Step(p))

-------------------------------------------------------------------------------
(* Properties *)

\* Every variable has a value of its kind.
TypeOK ==
    /\ deployment \in Deployments /\ legacy \in Legacy /\ release \in 1 .. Newest
    /\ image \in [Services -> 0 .. Newest]
    /\ pc \in [Services -> {"down", "upgrade", "migrated", "create", "created",
                            "register", "up"}]
    /\ revision \in 0 .. Newest /\ version \in 0 .. Newest
    /\ found \in [Services -> SUBSET ModelTables]
    /\ registered \in [Services -> SUBSET (1 .. Newest)]
    /\ tables \subseteq ModelTables /\ sources \subseteq 1 .. Newest
    /\ deploys \in 0 .. MaxDeploys /\ stops \in 0 .. MaxStops
    /\ stamps \in 0 .. MaxStamps

\* A service that runs has the tables of its models and the rows of its
\* registry, even where the operator stamped a database as newer than it is,
\* and whoever else created tables and sources while it started.
RunningHasItsSchema ==
    \A p \in Services :
      pc[p] = "up" => Models(image[p]) \subseteq tables /\ Registry(image[p]) \subseteq sources

\* "so migrations have finished" (docker-compose.prod.yml): no create_schema
\* puts a table into that deployment's database ahead of the revision that
\* creates it; the only ones without a revision were there from the start.
MigrationsComeFirst ==
    deployment = "prod" => tables \subseteq Models(version) \cup Models(legacy)

\* The API cannot start on its own: its release does not know the version of
\* the database, or the database was built by create_schema and not stamped so,
\* or, on Render, the scheduler's create_schema was faster than the upgrade.
RolledBack == Migrates /\ release < version
NeverAdopted == Migrates /\ version < legacy
Overtaken == deployment = "render" /\ ~(tables \subseteq Models(version))

\* Whatever crashes and collides while they start, both services end up
\* running the release deployed last, but for these three causes.
ReleaseRuns ==
    \/ \A p \in Services : []<>Up(p)
    \/ <>[](RolledBack \/ NeverAdopted \/ Overtaken)

\* "Migrations run automatically - the API service executes alembic upgrade
\* head before it starts serving" (DEPLOY.md): the API comes up.
ApiServes == []<>Up("api")
===============================================================================
