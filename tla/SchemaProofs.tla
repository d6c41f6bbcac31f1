----------------------------- MODULE SchemaProofs -----------------------------
(***************************************************************************)
(* Proofs about Schema: types, that whoever runs has its schema, and that   *)
(* in docker-compose.prod's deployment no table precedes its revision.       *)
(***************************************************************************)
EXTENDS Schema, TLAPS

-------------------------------------------------------------------------------
(* Releases and tables *)

\* The revisions are 1 to 4.
LEMMA NewestIsFour == Newest = 4
  BY DEF Newest, Revisions

\* A larger interval of revisions creates more.
LEMMA BetweenGrows ==
  ASSUME NEW a \in Nat, NEW b \in Nat, NEW c \in Nat, NEW d \in Nat,
         c <= a, b <= d
  PROVE  Between(a, b) \subseteq Between(c, d)
  BY DEF Between

\* Whatever revisions create, models.py declares.
LEMMA RevisionsInModels ==
  ASSUME NEW a \in 0 .. Newest, NEW b \in 0 .. Newest
  PROVE  Between(a, b) \subseteq ModelTables
  <1>1. Between(a, b) \subseteq Between(0, Newest)
    BY NewestIsFour, BetweenGrows
  <1> QED BY <1>1, ModelsMatchRevisions DEF Models

-------------------------------------------------------------------------------
(* Types *)

\* Every variable keeps its type, for any deployments, legacy databases and
\* bounds.
THEOREM TypeCorrect == Spec => []TypeOK
  <1>1. Init => TypeOK
    <2> SUFFICES ASSUME Init PROVE TypeOK
      OBVIOUS
    <2>1. legacy \in 0 .. Newest
      BY SchemaAssumption DEF Init
    <2>2. tables \subseteq ModelTables
      BY <2>1, NewestIsFour, RevisionsInModels DEF Init, Models
    <2>3. sources \subseteq 1 .. Newest
      BY <2>1, NewestIsFour DEF Init, Registry
    <2> QED
      BY <2>2, <2>3, NewestIsFour, SchemaAssumption DEF Init, TypeOK, Services
  <1>2. TypeOK /\ [Next]_vars => TypeOK'
    <2> SUFFICES ASSUME TypeOK, [Next]_vars PROVE TypeOK'
      OBVIOUS
    <2> USE NewestIsFour, SchemaAssumption DEF TypeOK, Services
    <2>1. CASE Deploy
      BY <2>1 DEF Deploy, service, database
    <2>2. CASE Stamp
      BY <2>2 DEF Stamp, service
    <2>3. ASSUME NEW p \in Services, Replace(p) PROVE TypeOK'
      BY <2>3 DEF Replace, Down, operator, database
    <2>4. ASSUME NEW p \in Services, Stop(p) PROVE TypeOK'
      BY <2>4 DEF Stop, Down, database
    <2>5. CASE ReadVersion
      BY <2>5 DEF ReadVersion, Moves, operator, database
    <2>6. CASE Upgrade
      <3>1. Between(revision, image["api"]) \subseteq ModelTables
        BY RevisionsInModels
      <3> QED BY <2>6, <3>1 DEF Upgrade, Moves, operator
    <2>7. ASSUME NEW p \in Services, ReadTables(p) PROVE TypeOK'
      BY <2>7 DEF ReadTables, Moves, operator, database
    <2>8. ASSUME NEW p \in Services, CreateSchema(p) PROVE TypeOK'
      <3>1. Models(image[p]) \subseteq ModelTables
        BY RevisionsInModels DEF Models
      <3> QED BY <2>8, <3>1 DEF CreateSchema, MissingTables, Moves, operator
    <2>9. ASSUME NEW p \in Services, ReadSources(p) PROVE TypeOK'
      BY <2>9 DEF ReadSources, Moves, operator, database
    <2>10. ASSUME NEW p \in Services, SyncRegistry(p) PROVE TypeOK'
      <3>1. Registry(image[p]) \subseteq 1 .. Newest
        BY DEF Registry
      <3> QED BY <2>10, <3>1 DEF SyncRegistry, MissingSources, Moves, operator
    <2>11. ASSUME NEW p \in Services, Exit(p) PROVE TypeOK'
      BY <2>11 DEF Exit, Down, operator, database
    <2>12. CASE UNCHANGED vars
      BY <2>12 DEF vars, service, database, operator
    <2> QED
      BY <2>1, <2>2, <2>3, <2>4, <2>5, <2>6, <2>7, <2>8, <2>9, <2>10, <2>11, <2>12
      DEF Next, Step
  <1> QED BY <1>1, <1>2, PTL DEF Spec

-------------------------------------------------------------------------------
(* Who runs has its schema *)

\* What a service read is still there, and what it went past it has.
RunningInv ==
    \A p \in Services :
      /\ found[p] \subseteq tables /\ registered[p] \subseteq sources
      /\ pc[p] \in {"created", "register", "up"} => Models(image[p]) \subseteq tables
      /\ pc[p] = "up" => Registry(image[p]) \subseteq sources

\* Tables and sources are only ever added.
LEMMA SchemaGrows ==
  ASSUME [Next]_vars
  PROVE  tables \subseteq tables' /\ sources \subseteq sources'
  BY DEF Next, Step, Deploy, Stamp, Replace, Stop, ReadVersion, Upgrade, ReadTables,
         CreateSchema, ReadSources, SyncRegistry, Exit, vars, database

\* Whoever runs has its tables and its sources, whatever was stamped, rolled back
\* or created by others, in any deployment and with any number of crashes.
THEOREM RunningComplete == Spec => []RunningHasItsSchema
  <1>1. Init => RunningInv
    BY DEF Init, RunningInv, Services
  <1>2. TypeOK /\ RunningInv /\ [Next]_vars => RunningInv'
    <2> SUFFICES ASSUME TypeOK, RunningInv, [Next]_vars,
                        NEW q \in Services
                 PROVE  /\ found'[q] \subseteq tables' /\ registered'[q] \subseteq sources'
                        /\ pc'[q] \in {"created", "register", "up"}
                             => Models(image'[q]) \subseteq tables'
                        /\ pc'[q] = "up" => Registry(image'[q]) \subseteq sources'
      BY DEF RunningInv
    <2>0. tables \subseteq tables' /\ sources \subseteq sources'
      BY SchemaGrows
    <2> USE <2>0 DEF TypeOK, RunningInv
    <2>1. CASE Deploy
      BY <2>1 DEF Deploy, service, database
    <2>2. CASE Stamp
      BY <2>2 DEF Stamp, service
    <2>3. ASSUME NEW p \in Services, Replace(p) \/ Stop(p) \/ Exit(p)
          PROVE  /\ found'[q] \subseteq tables' /\ registered'[q] \subseteq sources'
                 /\ pc'[q] \in {"created", "register", "up"}
                      => Models(image'[q]) \subseteq tables'
                 /\ pc'[q] = "up" => Registry(image'[q]) \subseteq sources'
      <3>1. CASE p = q
        BY <2>3, <3>1 DEF Replace, Stop, Exit, Down
      <3>2. CASE p # q
        BY <2>3, <3>2 DEF Replace, Stop, Exit, Down
      <3> QED BY <3>1, <3>2
    <2>4. CASE ReadVersion \/ Upgrade
      BY <2>4 DEF ReadVersion, Upgrade, Moves, database, Services
    <2>5. ASSUME NEW p \in Services, ReadTables(p) \/ ReadSources(p)
          PROVE  /\ found'[q] \subseteq tables' /\ registered'[q] \subseteq sources'
                 /\ pc'[q] \in {"created", "register", "up"}
                      => Models(image'[q]) \subseteq tables'
                 /\ pc'[q] = "up" => Registry(image'[q]) \subseteq sources'
      BY <2>5 DEF ReadTables, ReadSources, Moves, database
    <2>6. ASSUME NEW p \in Services, CreateSchema(p)
          PROVE  /\ found'[q] \subseteq tables' /\ registered'[q] \subseteq sources'
                 /\ pc'[q] \in {"created", "register", "up"}
                      => Models(image'[q]) \subseteq tables'
                 /\ pc'[q] = "up" => Registry(image'[q]) \subseteq sources'
      <3>1. Models(image[p]) \subseteq tables'
        BY <2>6 DEF CreateSchema, MissingTables
      <3> QED BY <2>6, <3>1 DEF CreateSchema, Moves
    <2>7. ASSUME NEW p \in Services, SyncRegistry(p)
          PROVE  /\ found'[q] \subseteq tables' /\ registered'[q] \subseteq sources'
                 /\ pc'[q] \in {"created", "register", "up"}
                      => Models(image'[q]) \subseteq tables'
                 /\ pc'[q] = "up" => Registry(image'[q]) \subseteq sources'
      <3>1. Registry(image[p]) \subseteq sources'
        BY <2>7 DEF SyncRegistry, MissingSources
      <3> QED BY <2>7, <3>1 DEF SyncRegistry, Moves
    <2>8. CASE UNCHANGED vars
      BY <2>8 DEF vars, service, database
    <2> QED
      BY <2>1, <2>2, <2>3, <2>4, <2>5, <2>6, <2>7, <2>8 DEF Next, Step
  <1>3. RunningInv => RunningHasItsSchema
    BY DEF RunningInv, RunningHasItsSchema
  <1> QED BY <1>1, <1>2, <1>3, TypeCorrect, PTL DEF Spec

-------------------------------------------------------------------------------
(* Migrations come first *)

\* The scheduler's release, and the API's once it is past the upgrade, are no newer
\* than the version, which has not changed since the upgrade read it unless it was
\* stamped.
PrecedeInv ==
    deployment = "prod" =>
      /\ tables \subseteq Models(version) \cup Models(legacy)
      /\ image["scheduler"] <= version
      /\ pc["api"] = "upgrade" => image["api"] > 0 /\ revision \in {0, version}
      /\ pc["api"] \in {"migrated", "create", "created", "register", "up"}
           => image["api"] <= version

\* With docker-compose.prod.yml no table is there before the revision that creates
\* it, but those the database began with, through any deployments, rollbacks,
\* stamps and crashes.
THEOREM MigrationsFirst == Spec => []MigrationsComeFirst
  <1>1. Init => PrecedeInv
    BY DEF Init, PrecedeInv, Services
  <1>2. TypeOK /\ PrecedeInv /\ [Next]_vars => PrecedeInv'
    <2> SUFFICES ASSUME TypeOK, PrecedeInv, [Next]_vars, deployment' = "prod"
                 PROVE  PrecedeInv'
      BY DEF PrecedeInv
    <2>0. deployment' = deployment /\ legacy' = legacy
      BY DEF Next, Step, Deploy, Stamp, Replace, Stop, ReadVersion, Upgrade, ReadTables,
             CreateSchema, ReadSources, SyncRegistry, Exit, vars, operator
    <2> USE <2>0, NewestIsFour DEF TypeOK, PrecedeInv, Services
    <2>1. CASE Deploy
      BY <2>1 DEF Deploy, service, database
    <2>2. CASE Stamp
      <3>1. Models(version) \subseteq Models(version')
        BY <2>2, BetweenGrows DEF Stamp, Models
      <3> QED BY <2>2, <3>1 DEF Stamp, service
    <2>3. ASSUME NEW p \in Services, Replace(p) PROVE PrecedeInv'
      <3>1. CASE p = "api"
        BY <2>3, <3>1 DEF Replace, Down, database
      <3>2. CASE p = "scheduler"
        <4>1. release <= version
          BY <2>3, <3>2 DEF Replace, MayReplace, Up
        <4> QED BY <2>3, <3>2, <4>1 DEF Replace, Down, database
      <3> QED BY <3>1, <3>2
    <2>4. ASSUME NEW p \in Services, Stop(p) \/ Exit(p) PROVE PrecedeInv'
      BY <2>4 DEF Stop, Exit, Down, database
    <2>5. CASE ReadVersion
      BY <2>5 DEF ReadVersion, Moves, database
    <2>6. CASE Upgrade
      <3> DEFINE r == image["api"]
      <3>1. pc["api"] = "upgrade" /\ revision <= r
        BY <2>6 DEF Upgrade, Moves, UpgradeFits
      <3>2. version = revision
        BY <2>6, <3>1 DEF Upgrade, UpgradeFits
      <3>3. /\ Models(version) \subseteq Models(r)
            /\ Between(revision, r) \subseteq Models(r)
        BY <3>1, <3>2, BetweenGrows DEF Models
      <3> QED BY <2>6, <3>1, <3>2, <3>3 DEF Upgrade, Moves
    <2>7. ASSUME NEW p \in Services, ReadTables(p) \/ ReadSources(p) PROVE PrecedeInv'
      BY <2>7 DEF ReadTables, ReadSources, Moves, Migrates, database
    <2>8. ASSUME NEW p \in Services, CreateSchema(p) PROVE PrecedeInv'
      <3>1. image[p] <= version
        BY <2>8 DEF CreateSchema, Moves
      <3>2. Models(image[p]) \subseteq Models(version)
        BY <3>1, BetweenGrows DEF Models
      <3> QED BY <2>8, <3>2 DEF CreateSchema, MissingTables, Moves
    <2>9. ASSUME NEW p \in Services, SyncRegistry(p) PROVE PrecedeInv'
      BY <2>9 DEF SyncRegistry, Moves
    <2>10. CASE UNCHANGED vars
      BY <2>10 DEF vars, service, database
    <2> QED
      BY <2>1, <2>2, <2>3, <2>4, <2>5, <2>6, <2>7, <2>8, <2>9, <2>10 DEF Next, Step
  <1>3. PrecedeInv => MigrationsComeFirst
    BY DEF PrecedeInv, MigrationsComeFirst
  <1> QED BY <1>1, <1>2, <1>3, TypeCorrect, PTL DEF Spec
===============================================================================
