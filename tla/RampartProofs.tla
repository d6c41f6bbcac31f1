---------------------------- MODULE RampartProofs ----------------------------
(***************************************************************************)
(* Proofs about Rampart, for any assets, CVEs, verdicts and sessions: types, *)
(* no orphaned match rows, a bounded inventory, and that a verdict is stale  *)
(* only after a race.                                                       *)
(***************************************************************************)
EXTENDS Rampart, TLAPS, FiniteSetTheorems

------------------------------------------------------------------------------
(* Where a session of each kind can be, and what it then holds              *)

Opening == {"environment", "insertEnv"}
Clearing == {"clear", "clearing"}
Computing == {"candidates", "read", "insert"}
Editing == {"create", "update"}
Recomputing == {"ingest", "maintain"}

\* Nothing found, computed or written yet.
Blank(x) ==
    /\ x.waiting = {} /\ x.del = {} /\ x.todo = {}
    /\ x.plan = NoPlan /\ x.ins = NoPlan

\* Scope, of a session's record.
ScopeOf(x) ==
    CASE x.kind \in {"create", "update", "delete"} -> {x.asset} \X Cves
      [] x.kind \in {"ingest", "maintain"} -> AssetIds \X x.touched
      [] OTHER -> {}

ShapeVisit(x) ==
    x.kind = "visit" => x.pc \in Opening \cup {"commit"} /\ Blank(x)

ShapeCreate(x) ==
    x.kind = "create" =>
      /\ x.data \in AssetData
      /\ \/ x.pc \in Opening \cup {"write"} /\ x.asset = NoAsset /\ ~x.holds
         \/ /\ x.pc \in Clearing \cup Computing \cup {"commit"}
            /\ x.asset \in AssetIds /\ x.holds

ShapeUpdate(x) ==
    x.kind = "update" =>
      /\ x.asset \in AssetIds /\ x.data \in AssetData /\ x.loaded \in AssetData
      /\ \/ x.pc = "write" /\ ~x.holds
         \/ x.pc \in Clearing \cup Computing \cup {"commit"} /\ x.holds

\* A request computes, inserts, and commits, in this order.
ShapeEditing(x) ==
    x.kind \in Editing =>
      /\ x.pc # "read" => x.todo = {}
      /\ x.pc \notin {"read", "insert"} => x.plan = NoPlan
      /\ x.pc # "commit" => x.ins = NoPlan

ShapeDelete(x) ==
    x.kind = "delete" =>
      /\ x.asset \in AssetIds
      /\ x.pc \in Clearing \cup {"remove", "commit"}
      /\ x.holds <=> x.pc = "commit"
      /\ x.plan = NoPlan /\ x.ins = NoPlan

\* A run or a maintenance pass is at one CVE, and has inserted rows only for
\* those it is done with.
ShapeRecomputing(x) ==
    x.kind \in Recomputing =>
      /\ x.pc \in {"apply", "recompute", "insert", "commit"} \cup Clearing
      /\ x.todo \subseteq x.touched
      /\ x.pc = "commit" => x.todo = {}
      /\ x.cve # NoCve <=> x.pc \in Clearing \cup {"insert"}
      /\ x.cve # NoCve => x.cve \in x.touched \ x.todo
      /\ \A p \in Pairs : x.plan[p] # NoRow => p[2] = x.cve
      /\ \A p \in Pairs : x.ins[p] # NoRow =>
           p[2] \in x.touched /\ p[2] \notin x.todo /\ p[2] # x.cve

Shape(x) ==
    /\ x \in Transaction
    /\ x.pc = "idle" => x = Idle
    /\ x.kind = "none" => x.pc = "idle"
    /\ ShapeVisit(x) /\ ShapeCreate(x) /\ ShapeUpdate(x)
    /\ ShapeEditing(x) /\ ShapeDelete(x) /\ ShapeRecomputing(x)
    /\ x.pc \in Opening \cup {"write", "apply"} => Blank(x)
    /\ x.kind \notin Recomputing => x.cve = NoCve
    /\ x.kind \notin Editing \cup {"delete"} => x.asset = NoAsset /\ ~x.holds
    /\ \A c \in Cves : x.write[c] # NoData =>
         x.kind \in Recomputing /\ c \in x.touched
    /\ x.waiting \cup x.del \subseteq ScopeOf(x)
    /\ \A p \in Pairs : x.plan[p] # NoRow \/ x.ins[p] # NoRow => p \in ScopeOf(x)

------------------------------------------------------------------------------
(* How the sessions and the committed rows fit together                     *)

\* A primary key is handed out once.
KeyOf(t) ==
    /\ tx[t].kind = "create" /\ tx[t].asset # NoAsset =>
         /\ asset[tx[t].asset] = Unborn
         /\ \A u \in Txs \ {t} : tx[u].asset # tx[t].asset
    /\ tx[t].kind \in {"update", "delete"} => asset[tx[t].asset] # Unborn

\* A session that has written an asset's row is alone to have, and an update
\* has written a row that is there.
RowLock(t) ==
    tx[t].holds =>
      /\ \A u \in Txs \ {t} : tx[u].holds => tx[u].asset # tx[t].asset
      /\ tx[t].kind = "update" => asset[tx[t].asset] \in AssetData

\* Rows refer to assets that exist, or that the session creates, and that no
\* one is deleting.
Refers(t, p) ==
    \/ asset[p[1]] # Unborn
    \/ tx[t].kind = "create" /\ tx[t].asset = p[1]

ForeignKey(t) ==
    /\ \A p \in Planned(t) \cup Inserted(t) : Refers(t, p)
    /\ \A p \in Inserted(t) :
         /\ asset[p[1]] # Deleted
         /\ \A u \in Txs : tx[u].kind = "delete" => ~Locks(u, p[1])

Structure == \A t \in Txs : Shape(tx[t]) /\ KeyOf(t) /\ RowLock(t) /\ ForeignKey(t)

------------------------------------------------------------------------------
(* What a session knows of the pairs no one else has written meanwhile      *)

Covered(t, p, rows) == match[p] # NoRow => p \in rows

\* A request: the verdict of the data it will write.
Wanted(t, p) == Verdict[<<tx[t].data, cve[p[2]]>>]

EditAccurate(t, p) ==
    LET x == tx[t] IN
    /\ x.kind = "update" => asset[x.asset] = x.loaded
    /\ x.pc = "clearing" => Covered(t, p, x.waiting)
    /\ x.pc \in Computing \cup {"commit"} => Covered(t, p, x.del)
    /\ x.pc = "read" => p[2] \in x.todo \/ x.plan[p] = Wanted(t, p)
    /\ x.pc = "insert" => x.plan[p] = Wanted(t, p)
    /\ x.pc = "commit" => x.ins[p] = Wanted(t, p)

\* A run or a maintenance pass: the verdict of what it sees.
Seen(t, p) ==
    IF p[1] \in Live THEN Verdict[<<asset[p[1]], View(t, p[2])>>] ELSE NoRow

RecomputeAccurate(t, p) ==
    LET x == tx[t] IN
    /\ x.pc # "apply" /\ p[2] \notin x.todo /\ p[2] # x.cve =>
         x.ins[p] = Seen(t, p) /\ Covered(t, p, x.del)
    /\ p[2] = x.cve =>
         /\ x.plan[p] = Seen(t, p)
         /\ x.pc = "clearing" => Covered(t, p, x.waiting)
         /\ x.pc = "insert" => Covered(t, p, x.del)

Accurate(t) ==
    \A p \in Pairs :
      p \in Scope(t) /\ p \notin tx[t].clash =>
        /\ tx[t].kind \in Editing => EditAccurate(t, p)
        /\ tx[t].kind \in Recomputing => RecomputeAccurate(t, p)

IInv ==
    /\ TypeOK /\ Structure /\ NoOrphans
    /\ \A t \in Txs : Accurate(t)
    /\ StaleOnlyAfterRace

------------------------------------------------------------------------------
(* The inventory: whoever is past the count may still add an asset          *)

Creating == {t \in Txs : tx[t].kind = "create"}
CountInv == Cardinality(Live) + Cardinality(Creating) <= MaxAssets - 1 + Cardinality(Txs)
------------------------------------------------------------------------------
(* Types and shapes                                                         *)

\* The actions of a session that commit nothing.
Moves(t) ==
    \/ Request(t) \/ BeginMaintenance(t)
    \/ ReadEnvironment(t) \/ InsertEnvironment(t) \/ InsertAsset(t) \/ UpdateAsset(t)
    \/ FindMatches(t) \/ DeleteMatches(t) \/ ReadCandidates(t) \/ MatchAsset(t)
    \/ InsertMatches(t) \/ RemoveAsset(t) \/ RecomputeMany(t) \/ RecomputeCve(t)
    \/ \E c \in Cves, d \in CveData : ApplyCve(t, c, d)

\* Such an action changes the record of its session and nothing else that is
\* committed.
LEMMA MovesLocal ==
    ASSUME TypeOK, NEW t \in Txs, Moves(t)
    PROVE  /\ UNCHANGED <<env, asset, cve, match, raced, faults>>
           /\ tx' = [tx EXCEPT ![t] = tx'[t]]
           /\ changes' \in 0 .. MaxChanges
  <1>1. UNCHANGED <<env, asset, cve, match, raced, faults>>
    BY DEF Moves, Request, BeginVisit, BeginCreate, BeginUpdate, BeginDelete,
       BeginIngest, BeginMaintenance, Begin, ReadEnvironment, InsertEnvironment,
       InsertAsset, UpdateAsset, FindMatches, DeleteMatches, ReadCandidates,
       MatchAsset, InsertMatches, RemoveAsset, RecomputeMany, RecomputeCve,
       ApplyCve, Step
  <1>2. \E next : tx' = [tx EXCEPT ![t] = next]
    BY DEF Moves, Request, BeginVisit, BeginCreate, BeginUpdate, BeginDelete,
       BeginIngest, BeginMaintenance, Begin, ReadEnvironment, InsertEnvironment,
       InsertAsset, UpdateAsset, FindMatches, DeleteMatches, ReadCandidates,
       MatchAsset, InsertMatches, RemoveAsset, RecomputeMany, RecomputeCve,
       ApplyCve, Step
  <1>3. changes' \in 0 .. MaxChanges
    <2>1. changes' = changes \/ Change
      BY 
      DEF Moves, Request, BeginVisit, BeginCreate, BeginUpdate, BeginDelete,
          BeginIngest, BeginMaintenance, ReadEnvironment, InsertEnvironment,
          InsertAsset, UpdateAsset, FindMatches, DeleteMatches, ReadCandidates,
          MatchAsset, InsertMatches, RemoveAsset, RecomputeMany, RecomputeCve,
          ApplyCve, Step
    <2> QED
      BY <2>1, ConstantsAssumption DEF TypeOK, Change
  <1> QED BY <1>1, <1>2, <1>3 DEF TypeOK

\* The record of an idle session has the shape of none.
LEMMA IdleShape == Shape(Idle)
  <1>1. NoPlan \in [Pairs -> Rows]
    BY DEF NoPlan, Rows
  <1>2. Idle \in Transaction
    BY <1>1 DEF Idle, Transaction, Kinds, PCs
  <1> QED
    BY <1>2
    DEF Idle, Shape, ShapeVisit, ShapeCreate, ShapeUpdate, ShapeEditing,
        ShapeDelete, ShapeRecomputing, Blank, ScopeOf, NoPlan, Opening,
        Editing, Recomputing

\* A session starts with nothing found, computed or written.
LEMMA BeginShape ==
    ASSUME TypeOK, NEW t \in Txs, Request(t) \/ BeginMaintenance(t)
    PROVE  Shape(tx'[t])
  <1> DEFINE y == tx'[t]
  <1>0. Idle \in Transaction
    BY IdleShape DEF Shape
  <1>1. CASE BeginVisit(t)
    <2>0. TRUE
      BY ConstantsAssumption, <1>1 DEF BeginVisit, TypeOK
    <2>1. y = [Idle EXCEPT !.kind = "visit", !.pc = "environment"]
      BY <1>1 DEF BeginVisit, Begin, TypeOK
    <2>2. y \in Transaction
      BY <1>0, <2>1, <2>0 DEF Transaction, Kinds, PCs
    <2> QED
      BY <2>1, <2>2, ConstantsAssumption
      DEF Idle, Shape, ShapeVisit, ShapeCreate, ShapeUpdate, ShapeEditing,
          ShapeDelete, ShapeRecomputing, Blank, ScopeOf, NoPlan, Opening,
          Clearing, Editing, Recomputing, BeginVisit
  <1>2. CASE \E d \in AssetData : BeginCreate(t, d)
    <2> PICK d \in AssetData : BeginCreate(t, d)
      BY <1>2
    <2>0. TRUE
      BY ConstantsAssumption DEF BeginCreate, TypeOK
    <2>1. y = [Idle EXCEPT !.kind = "create", !.pc = "environment", !.data = d]
      BY DEF BeginCreate, Begin, TypeOK
    <2>2. y \in Transaction
      BY <1>0, <2>1, <2>0 DEF Transaction, Kinds, PCs
    <2> QED
      BY <2>1, <2>2, ConstantsAssumption
      DEF Idle, Shape, ShapeVisit, ShapeCreate, ShapeUpdate, ShapeEditing,
          ShapeDelete, ShapeRecomputing, Blank, ScopeOf, NoPlan, Opening,
          Clearing, Editing, Recomputing, BeginCreate
  <1>3. CASE \E a \in AssetIds, d \in AssetData : BeginUpdate(t, a, d)
    <2> PICK a \in AssetIds, d \in AssetData : BeginUpdate(t, a, d)
      BY <1>3
    <2>0. asset[a] \in AssetData
      BY ConstantsAssumption DEF BeginUpdate, Live, TypeOK
    <2>1. y = [Idle EXCEPT !.kind = "update", !.pc = "write", !.asset = a,
                             !.loaded = asset[a], !.data = d]
      BY DEF BeginUpdate, Live, Begin, TypeOK
    <2>2. y \in Transaction
      BY <1>0, <2>1, <2>0 DEF Transaction, Kinds, PCs
    <2> QED
      BY <2>1, <2>2, ConstantsAssumption
      DEF Idle, Shape, ShapeVisit, ShapeCreate, ShapeUpdate, ShapeEditing,
          ShapeDelete, ShapeRecomputing, Blank, ScopeOf, NoPlan, Opening,
          Clearing, Editing, Recomputing, BeginUpdate, Live
  <1>4. CASE \E a \in AssetIds : BeginDelete(t, a)
    <2> PICK a \in AssetIds : BeginDelete(t, a)
      BY <1>4
    <2>0. TRUE
      BY ConstantsAssumption DEF BeginDelete, TypeOK
    <2>1. y = [Idle EXCEPT !.kind = "delete", !.pc = "clear", !.asset = a]
      BY DEF BeginDelete, Begin, TypeOK
    <2>2. y \in Transaction
      BY <1>0, <2>1, <2>0 DEF Transaction, Kinds, PCs
    <2> QED
      BY <2>1, <2>2, ConstantsAssumption
      DEF Idle, Shape, ShapeVisit, ShapeCreate, ShapeUpdate, ShapeEditing,
          ShapeDelete, ShapeRecomputing, Blank, ScopeOf, NoPlan, Opening,
          Clearing, Editing, Recomputing, BeginDelete
  <1>5. CASE BeginIngest(t)
    <2>0. TRUE
      BY ConstantsAssumption, <1>5 DEF BeginIngest, TypeOK
    <2>1. y = [Idle EXCEPT !.kind = "ingest", !.pc = "apply"]
      BY <1>5 DEF BeginIngest, Begin, TypeOK
    <2>2. y \in Transaction
      BY <1>0, <2>1, <2>0 DEF Transaction, Kinds, PCs
    <2> QED
      BY <2>1, <2>2, ConstantsAssumption
      DEF Idle, Shape, ShapeVisit, ShapeCreate, ShapeUpdate, ShapeEditing,
          ShapeDelete, ShapeRecomputing, Blank, ScopeOf, NoPlan, Opening,
          Clearing, Editing, Recomputing, BeginIngest
  <1>6. CASE BeginMaintenance(t)
    <2>0. Maintained \subseteq Cves
      BY ConstantsAssumption, <1>6 DEF BeginMaintenance, TypeOK
    <2>1. y = [Idle EXCEPT !.kind = "maintain", !.pc = "recompute",
                           !.touched = Maintained, !.todo = Maintained]
      BY <1>6 DEF BeginMaintenance, Begin, TypeOK
    <2>2. y \in Transaction
      BY <1>0, <2>1, <2>0 DEF Transaction, Kinds, PCs
    <2> QED
      BY <2>1, <2>2, ConstantsAssumption
      DEF Idle, Shape, ShapeVisit, ShapeCreate, ShapeUpdate, ShapeEditing,
          ShapeDelete, ShapeRecomputing, Blank, ScopeOf, NoPlan, Opening,
          Clearing, Editing, Recomputing, BeginMaintenance
  <1> QED
    BY <1>1, <1>2, <1>3, <1>4, <1>5, <1>6 DEF Request

\* The verdicts recompute_cve computes for c.
Verdicts(t, c) ==
    [p \in Pairs |-> IF p[1] \in Live /\ p[2] = c
                     THEN Verdict[<<asset[p[1]], View(t, c)>>] ELSE NoRow]

\* What recompute_cve does to its session.
LEMMA RecomputeCveEffect ==
    ASSUME TypeOK, NEW t \in Txs, RecomputeCve(t)
    PROVE  \E c \in tx[t].todo :
             \/ /\ tx'[t] = [tx[t] EXCEPT !.todo = tx[t].todo \ {c},
                      !.pc = IF tx[t].todo \ {c} = {} THEN "commit" ELSE "recompute"]
                /\ Live = {}
             \/ tx'[t] = [tx[t] EXCEPT !.todo = tx[t].todo \ {c}, !.pc = "clear",
                                       !.cve = c, !.plan = Verdicts(t, c)]
  BY DEF RecomputeCve, Step, TypeOK, Verdicts

\* Every statement but the last keeps the session's record in shape.
LEMMA StatementShape ==
    ASSUME TypeOK, NEW t \in Txs, Shape(tx[t]), Moves(t),
           ~Request(t), ~BeginMaintenance(t)
    PROVE  Shape(tx'[t])
  <1> DEFINE x == tx[t]
             y == tx'[t]
  <1>0. x \in Transaction
    BY DEF Shape
  <1>1. CASE ReadEnvironment(t)
    <2>1. y = [x EXCEPT !.pc = IF env THEN AfterEnvironment(t) ELSE "insertEnv"]
      BY <1>1 DEF ReadEnvironment, AfterEnvironment, Step, TypeOK
    <2>2. y \in Transaction
      BY <1>0, <2>1 DEF Transaction, PCs, AfterEnvironment
    <2> QED
      BY <1>0, <1>1, <2>1, <2>2
      DEF Ready, ReadEnvironment, AfterEnvironment, Transaction, Shape,
          ShapeVisit, ShapeCreate, ShapeUpdate, ShapeEditing, ShapeDelete,
          ShapeRecomputing, Blank, ScopeOf, Opening, Clearing, Computing,
          Editing, Recomputing
  <1>2. CASE InsertEnvironment(t)
    <2>1. y = [x EXCEPT !.pc = AfterEnvironment(t), !.newEnv = TRUE]
      BY <1>2 DEF InsertEnvironment, AfterEnvironment, Step, TypeOK
    <2>2. y \in Transaction
      BY <1>0, <2>1 DEF Transaction, PCs, AfterEnvironment
    <2> QED
      BY <1>0, <1>2, <2>1, <2>2
      DEF Ready, InsertEnvironment, AfterEnvironment, Transaction, Shape,
          ShapeVisit, ShapeCreate, ShapeUpdate, ShapeEditing, ShapeDelete,
          ShapeRecomputing, Blank, ScopeOf, Opening, Clearing, Computing,
          Editing, Recomputing
  <1>3. CASE InsertAsset(t)
    <2> PICK a \in AssetIds :
              Step(t, [x EXCEPT !.pc = "clear", !.asset = a, !.holds = TRUE])
      BY <1>3 DEF InsertAsset
    <2>1. y = [x EXCEPT !.pc = "clear", !.asset = a, !.holds = TRUE]
      BY DEF Step, TypeOK
    <2>2. x.kind = "create" /\ Blank(x)
      BY <1>0, <1>3 DEF Ready, InsertAsset, Shape
    <2>4. y \in Transaction
      BY <1>0, <2>1 DEF Transaction, PCs
    <2>5. /\ y.kind = x.kind /\ y.pc = "clear" /\ y.asset = a
          /\ y.loaded = x.loaded /\ y.data = x.data /\ y.holds = TRUE
          /\ y.newEnv = x.newEnv /\ y.write = x.write
          /\ y.touched = x.touched /\ y.todo = x.todo /\ y.cve = x.cve
          /\ y.plan = x.plan /\ y.waiting = x.waiting /\ y.del = x.del
          /\ y.ins = x.ins /\ y.clash = x.clash
      BY <1>0, <2>1 DEF Transaction
    <2>6. ShapeVisit(y) /\ ShapeCreate(y) /\ ShapeUpdate(y) /\ ShapeDelete(y)
      BY <1>0, <2>2, <2>5
      DEF Shape, ShapeVisit, ShapeCreate, ShapeUpdate, ShapeDelete, Opening,
          Clearing, Computing, Blank
    <2>7. ShapeEditing(y)
      BY <1>0, <2>2, <2>5 DEF Shape, ShapeEditing, Editing, Blank
    <2>8. ShapeRecomputing(y)
      BY <1>0, <2>2, <2>5
      DEF Shape, ShapeRecomputing, Recomputing, Clearing, Editing
    <2>9. y.waiting \cup y.del \subseteq ScopeOf(y)
      BY <1>0, <2>2, <2>5 DEF Shape, ScopeOf, Blank
    <2>10. \A p \in Pairs : y.plan[p] # NoRow \/ y.ins[p] # NoRow => p \in ScopeOf(y)
      BY <1>0, <2>2, <2>5 DEF Shape, ScopeOf, Blank, NoPlan
    <2> QED
      BY <1>0, <2>2, <2>5, <2>4, <2>6, <2>7, <2>8, <2>9, <2>10
      DEF Shape, Blank, Opening, Editing, Recomputing, Clearing
  <1>4. CASE UpdateAsset(t)
    <2>1. y = [x EXCEPT !.pc = "clear", !.holds = TRUE]
      BY <1>4 DEF UpdateAsset, Step, TypeOK
    <2>2. x.kind = "update" /\ x.pc = "write" /\ Blank(x)
      BY <1>0, <1>4 DEF Ready, UpdateAsset, Shape
    <2>4. y \in Transaction
      BY <1>0, <2>1 DEF Transaction, PCs
    <2>5. /\ y.kind = x.kind /\ y.pc = "clear" /\ y.asset = x.asset
          /\ y.loaded = x.loaded /\ y.data = x.data /\ y.holds = TRUE
          /\ y.newEnv = x.newEnv /\ y.write = x.write
          /\ y.touched = x.touched /\ y.todo = x.todo /\ y.cve = x.cve
          /\ y.plan = x.plan /\ y.waiting = x.waiting /\ y.del = x.del
          /\ y.ins = x.ins /\ y.clash = x.clash
      BY <1>0, <2>1 DEF Transaction
    <2>6. ShapeVisit(y) /\ ShapeCreate(y) /\ ShapeUpdate(y) /\ ShapeDelete(y)
      BY <1>0, <2>2, <2>5
      DEF Shape, ShapeVisit, ShapeCreate, ShapeUpdate, ShapeDelete, Opening,
          Clearing, Computing, Blank
    <2>7. ShapeEditing(y)
      BY <1>0, <2>2, <2>5 DEF Shape, ShapeEditing, Editing, Blank
    <2>8. ShapeRecomputing(y)
      BY <1>0, <2>2, <2>5
      DEF Shape, ShapeRecomputing, Recomputing, Clearing, Editing
    <2>9. y.waiting \cup y.del \subseteq ScopeOf(y)
      BY <1>0, <2>2, <2>5 DEF Shape, ScopeOf, Blank
    <2>10. \A p \in Pairs : y.plan[p] # NoRow \/ y.ins[p] # NoRow => p \in ScopeOf(y)
      BY <1>0, <2>2, <2>5 DEF Shape, ScopeOf, Blank, NoPlan
    <2> QED
      BY <1>0, <2>2, <2>5, <2>4, <2>6, <2>7, <2>8, <2>9, <2>10
      DEF Shape, Blank, Opening, Editing, Recomputing, Clearing
  <1>5. CASE FindMatches(t)
    <2> DEFINE scope == IF x.cve = NoCve THEN OfAsset(x.asset) ELSE OfCve(x.cve)
    <2>1. y = [x EXCEPT !.pc = "clearing",
                          !.waiting = {p \in scope : match[p] # NoRow}]
      BY <1>5 DEF FindMatches, Step, TypeOK
    <2>2. x.kind \in Editing \cup {"delete"} \cup Recomputing /\ x.pc = "clear"
      BY <1>0, <1>5
      DEF Ready, FindMatches, Shape, ShapeVisit, Editing, Recomputing, Opening,
          Transaction, Kinds
    <2>3. scope \subseteq ScopeOf(x) /\ scope \subseteq Pairs
      BY <1>0, <2>2, ConstantsAssumption
      DEF Shape, ShapeCreate, ShapeUpdate, ShapeDelete, ShapeRecomputing,
          OfAsset, OfCve, Pairs, ScopeOf, Editing, Recomputing, Clearing,
          Opening, Transaction
    <2>4. y \in Transaction
      <3>1. \E w \in SUBSET Pairs, pc \in PCs :
              y = [x EXCEPT !.pc = pc, !.waiting = w]
        BY <1>0, <2>1, <2>3 DEF PCs, Transaction
      <3> QED
        BY <1>0, <3>1 DEF Transaction
    <2>5. /\ y.kind = x.kind /\ y.pc = "clearing" /\ y.asset = x.asset
          /\ y.loaded = x.loaded /\ y.data = x.data /\ y.holds = x.holds
          /\ y.newEnv = x.newEnv /\ y.write = x.write
          /\ y.touched = x.touched /\ y.todo = x.todo /\ y.cve = x.cve
          /\ y.plan = x.plan
          /\ y.waiting = {p \in scope : match[p] # NoRow} /\ y.del = x.del
          /\ y.ins = x.ins /\ y.clash = x.clash
      BY <1>0, <2>1 DEF Transaction
    <2>6. ShapeVisit(y) /\ ShapeCreate(y) /\ ShapeUpdate(y) /\ ShapeDelete(y)
      BY <1>0, <2>2, <2>3, <2>5
      DEF Shape, ShapeVisit, ShapeCreate, ShapeUpdate, ShapeDelete, Opening,
          Clearing, Computing, Blank
    <2>7. ShapeEditing(y)
      BY <1>0, <2>2, <2>3, <2>5 DEF Shape, ShapeEditing, Editing, Blank
    <2>8. ShapeRecomputing(y)
      BY <1>0, <2>2, <2>3, <2>5
      DEF Shape, ShapeRecomputing, Recomputing, Clearing, Editing
    <2>9. y.waiting \cup y.del \subseteq ScopeOf(y)
      BY <1>0, <2>2, <2>3, <2>5 DEF Shape, ScopeOf, Blank, Editing, Recomputing
    <2>10. \A p \in Pairs : y.plan[p] # NoRow \/ y.ins[p] # NoRow => p \in ScopeOf(y)
      BY <1>0, <2>2, <2>3, <2>5
      DEF Shape, ScopeOf, Blank, NoPlan, Editing, Recomputing
    <2> QED
      BY <1>0, <2>2, <2>3, <2>5, <2>4, <2>6, <2>7, <2>8, <2>9, <2>10
      DEF Shape, Blank, Opening, Editing, Recomputing, Clearing
  <1>6. CASE DeleteMatches(t)
    <2> DEFINE next == CASE x.kind = "delete" -> "remove"
                         [] x.kind \in {"create", "update"} -> "candidates"
                         [] OTHER -> "insert"
    <2>1. y = [x EXCEPT !.pc = next, !.waiting = {}, !.del = @ \cup x.waiting]
      BY <1>6 DEF DeleteMatches, Step, TypeOK
    <2>2. x.kind \in Editing \cup {"delete"} \cup Recomputing /\ x.pc = "clearing"
      BY <1>0, <1>6
      DEF Ready, DeleteMatches, Shape, ShapeVisit, Editing, Recomputing,
          Opening, Transaction, Kinds
    <2>3. next = IF x.kind = "delete" THEN "remove"
                 ELSE IF x.kind \in Editing THEN "candidates" ELSE "insert"
      BY <1>0, <2>2 DEF Editing
    <2>4. y \in Transaction
      <3>1. \E pc \in PCs, e \in SUBSET Pairs :
              y = [x EXCEPT !.pc = pc, !.waiting = {}, !.del = e]
        BY <1>0, <2>1, <2>3 DEF PCs, Transaction
      <3> QED
        BY <1>0, <3>1 DEF Transaction
    <2>5. /\ y.kind = x.kind /\ y.pc = next /\ y.asset = x.asset
          /\ y.loaded = x.loaded /\ y.data = x.data /\ y.holds = x.holds
          /\ y.newEnv = x.newEnv /\ y.write = x.write
          /\ y.touched = x.touched /\ y.todo = x.todo /\ y.cve = x.cve
          /\ y.plan = x.plan /\ y.waiting = {}
          /\ y.del = x.del \cup x.waiting /\ y.ins = x.ins
          /\ y.clash = x.clash
      BY <1>0, <2>1 DEF Transaction
    <2>6. ShapeVisit(y) /\ ShapeCreate(y) /\ ShapeUpdate(y) /\ ShapeDelete(y)
      BY <1>0, <2>2, <2>3, <2>5
      DEF Shape, ShapeVisit, ShapeCreate, ShapeUpdate, ShapeDelete, Opening,
          Clearing, Computing, Blank
    <2>7. ShapeEditing(y)
      BY <1>0, <2>2, <2>3, <2>5 DEF Shape, ShapeEditing, Editing, Blank
    <2>8. ShapeRecomputing(y)
      BY <1>0, <2>2, <2>3, <2>5
      DEF Shape, ShapeRecomputing, Recomputing, Clearing, Editing, ShapeDelete
    <2>9. y.waiting \cup y.del \subseteq ScopeOf(y)
      BY <1>0, <2>2, <2>3, <2>5 DEF Shape, ScopeOf, Blank, Editing, Recomputing
    <2>10. \A p \in Pairs : y.plan[p] # NoRow \/ y.ins[p] # NoRow => p \in ScopeOf(y)
      BY <1>0, <2>2, <2>3, <2>5
      DEF Shape, ScopeOf, Blank, NoPlan, Editing, Recomputing
    <2> QED
      BY <1>0, <2>2, <2>3, <2>5, <2>4, <2>6, <2>7, <2>8, <2>9, <2>10
      DEF Shape, Blank, Opening, Editing, Recomputing, Clearing
  <1>7. CASE ReadCandidates(t)
    <2> DEFINE found == {c \in Cves : <<x.data, cve[c]>> \in Candidate}
    <2>1. y = [x EXCEPT !.todo = found,
                          !.pc = IF found = {} THEN "commit" ELSE "read"]
      BY <1>7 DEF ReadCandidates, Step, TypeOK
    <2>2. x.kind \in Editing /\ x.pc = "candidates"
      BY <1>0, <1>7
      DEF Ready, ReadCandidates, Shape, ShapeVisit, ShapeDelete,
          ShapeRecomputing, Clearing, Editing, Recomputing, Opening,
          Transaction, Kinds
    <2>3. found \subseteq Cves
      BY <1>0, <2>2
    <2>4. y \in Transaction
      BY <1>0, <2>1, <2>3 DEF Transaction, PCs
    <2>5. /\ y.kind = x.kind
          /\ y.pc = IF found = {} THEN "commit" ELSE "read"
          /\ y.asset = x.asset /\ y.loaded = x.loaded /\ y.data = x.data
          /\ y.holds = x.holds /\ y.newEnv = x.newEnv /\ y.write = x.write
          /\ y.touched = x.touched /\ y.todo = found /\ y.cve = x.cve
          /\ y.plan = x.plan /\ y.waiting = x.waiting /\ y.del = x.del
          /\ y.ins = x.ins /\ y.clash = x.clash
      BY <1>0, <2>1 DEF Transaction
    <2>6. ShapeVisit(y) /\ ShapeCreate(y) /\ ShapeUpdate(y) /\ ShapeDelete(y)
      BY <1>0, <2>2, <2>3, <2>5
      DEF Shape, ShapeVisit, ShapeCreate, ShapeUpdate, ShapeDelete, Opening,
          Clearing, Computing, Blank
    <2>7. ShapeEditing(y)
      BY <1>0, <2>2, <2>3, <2>5 DEF Shape, ShapeEditing, Editing, Blank
    <2>8. ShapeRecomputing(y)
      BY <1>0, <2>2, <2>3, <2>5
      DEF Shape, ShapeRecomputing, Recomputing, Clearing, Editing
    <2>9. y.waiting \cup y.del \subseteq ScopeOf(y)
      BY <1>0, <2>2, <2>3, <2>5 DEF Shape, ScopeOf, Blank
    <2>10. \A p \in Pairs : y.plan[p] # NoRow \/ y.ins[p] # NoRow => p \in ScopeOf(y)
      BY <1>0, <2>2, <2>3, <2>5 DEF Shape, ScopeOf, Blank, NoPlan
    <2> QED
      BY <1>0, <2>2, <2>3, <2>5, <2>4, <2>6, <2>7, <2>8, <2>9, <2>10
      DEF Shape, Blank, Opening, Editing, Recomputing, Clearing
  <1>8. CASE MatchAsset(t)
    <2> PICK c \in x.todo :
              Step(t, [x EXCEPT !.plan[<<x.asset, c>>] = Verdict[<<x.data, cve[c]>>],
                          !.todo = @ \ {c},
                          !.pc = IF x.todo = {c} THEN "insert" ELSE "read"])
      BY <1>8 DEF MatchAsset
    <2>1. y = [x EXCEPT !.plan[<<x.asset, c>>] = Verdict[<<x.data, cve[c]>>],
                          !.todo = @ \ {c},
                          !.pc = IF x.todo = {c} THEN "insert" ELSE "read"]
      BY DEF Step, TypeOK
    <2>2. x.kind \in Editing /\ x.pc = "read" /\ x.data \in AssetData /\ x.asset \in AssetIds
      BY <1>0, <1>8
      DEF Ready, MatchAsset, Shape, ShapeVisit, ShapeDelete, ShapeCreate,
          ShapeUpdate, ShapeRecomputing, Clearing, Editing, Recomputing,
          Opening, Transaction, Kinds
    <2>3. c \in Cves /\ <<x.asset, c>> \in Pairs /\ Verdict[<<x.data, cve[c]>>] \in Rows
      BY <1>0, <2>2, ConstantsAssumption DEF TypeOK, Transaction, Pairs
    <2>4. y \in Transaction
      <3> DEFINE v == [x.plan EXCEPT ![<<x.asset, c>>] = Verdict[<<x.data, cve[c]>>]]
                 r == x.todo \ {c}
                 pc == IF x.todo = {c} THEN "insert" ELSE "read"
      <3>1. v \in [Pairs -> Rows] /\ r \in SUBSET Cves /\ pc \in PCs
        BY <1>0, <2>3 DEF Transaction, PCs
      <3>2. y = [x EXCEPT !.plan = v, !.todo = r, !.pc = pc]
        BY <1>0, <2>1 DEF Transaction
      <3> HIDE DEF v, r, pc
      <3> QED
        BY <1>0, <3>1, <3>2 DEF Transaction
    <2>5. /\ y.kind = x.kind
          /\ y.pc = IF x.todo = {c} THEN "insert" ELSE "read"
          /\ y.asset = x.asset /\ y.loaded = x.loaded /\ y.data = x.data
          /\ y.holds = x.holds /\ y.newEnv = x.newEnv /\ y.write = x.write
          /\ y.touched = x.touched /\ y.todo = x.todo \ {c}
          /\ y.cve = x.cve
          /\ y.plan = [x.plan EXCEPT ![<<x.asset, c>>] = Verdict[<<x.data, cve[c]>>]]
          /\ y.waiting = x.waiting /\ y.del = x.del /\ y.ins = x.ins
          /\ y.clash = x.clash
      BY <1>0, <2>1 DEF Transaction
    <2>6. ShapeVisit(y) /\ ShapeCreate(y) /\ ShapeUpdate(y) /\ ShapeDelete(y)
      BY <1>0, <2>2, <2>3, <2>5
      DEF Shape, ShapeVisit, ShapeCreate, ShapeUpdate, ShapeDelete, Opening,
          Clearing, Computing, Blank
    <2>7. ShapeEditing(y)
      BY <1>0, <2>2, <2>3, <2>5 DEF Shape, ShapeEditing, Editing, Blank
    <2>8. ShapeRecomputing(y)
      BY <1>0, <2>2, <2>3, <2>5
      DEF Shape, ShapeRecomputing, Recomputing, Clearing, Editing
    <2>9. y.waiting \cup y.del \subseteq ScopeOf(y)
      BY <1>0, <2>2, <2>3, <2>5 DEF Shape, ScopeOf, Blank, Editing
    <2>10. \A p \in Pairs : y.plan[p] # NoRow \/ y.ins[p] # NoRow => p \in ScopeOf(y)
      BY <1>0, <2>2, <2>3, <2>5 DEF Shape, ScopeOf, Blank, NoPlan, Editing
    <2> QED
      BY <1>0, <2>2, <2>3, <2>5, <2>4, <2>6, <2>7, <2>8, <2>9, <2>10
      DEF Shape, Blank, Opening, Editing, Recomputing, Clearing
  <1>9. CASE InsertMatches(t)
    <2>1. y = [x EXCEPT
                    !.ins = [p \in Pairs |-> IF x.plan[p] # NoRow
                                             THEN x.plan[p] ELSE @[p]],
                    !.plan = NoPlan,
                    !.cve = NoCve,
                    !.pc = IF x.todo # {} THEN "recompute" ELSE "commit"]
      BY <1>9 DEF InsertMatches, Step, TypeOK
    <2>2. x.kind \in Editing \cup Recomputing /\ x.pc = "insert"
      BY <1>0, <1>9
      DEF Ready, InsertMatches, Shape, ShapeVisit, ShapeDelete, Clearing,
          Editing, Recomputing, Opening, ShapeCreate, ShapeUpdate, Computing,
          Transaction, Kinds
    <2>3. NoPlan \in [Pairs -> Rows]
      BY <1>0, <2>2 DEF NoPlan, Rows
    <2>4. y \in Transaction
      <3>1. \E i \in [Pairs -> Rows], pc \in PCs :
              y = [x EXCEPT !.ins = i, !.plan = NoPlan, !.cve = NoCve, !.pc = pc]
        BY <1>0, <2>1, <2>3 DEF PCs, Transaction
      <3> QED
        BY <1>0, <2>3, <3>1 DEF Transaction
    <2>5. /\ y.kind = x.kind
          /\ y.pc = IF x.todo # {} THEN "recompute" ELSE "commit"
          /\ y.asset = x.asset /\ y.loaded = x.loaded /\ y.data = x.data
          /\ y.holds = x.holds /\ y.newEnv = x.newEnv /\ y.write = x.write
          /\ y.touched = x.touched /\ y.todo = x.todo /\ y.cve = NoCve
          /\ y.plan = NoPlan /\ y.waiting = x.waiting /\ y.del = x.del
          /\ y.ins = [p \in Pairs |-> IF x.plan[p] # NoRow THEN x.plan[p] ELSE x.ins[p]]
          /\ y.clash = x.clash
      BY <1>0, <2>1 DEF Transaction
    <2>6. ShapeVisit(y) /\ ShapeCreate(y) /\ ShapeUpdate(y) /\ ShapeDelete(y)
      <3>1. x.kind \in Editing => y.pc = "commit"
        BY <2>2, <2>5 DEF Shape, ShapeEditing
      <3> QED
        BY <2>2, <2>5, <3>1 DEF Shape, ShapeVisit, ShapeCreate, ShapeUpdate,
           ShapeDelete, Editing, Recomputing, Opening, Clearing, Computing
    <2>7. ShapeEditing(y)
      BY <1>0, <2>2, <2>3, <2>5 DEF Shape, ShapeEditing, Editing, Blank
    <2>8. ShapeRecomputing(y)
      <3> SUFFICES ASSUME x.kind \in Recomputing
                   PROVE  ShapeRecomputing(y)
        BY <2>5 DEF ShapeRecomputing
      <3>1. x.cve \in x.touched \ x.todo
        BY <2>2 DEF Shape, ShapeRecomputing
      <3>2. \A p \in Pairs : y.ins[p] # NoRow =>
              p[2] \in x.touched /\ p[2] \notin x.todo /\ p[2] # NoCve
        BY <1>0, <2>5, <3>1, ConstantsAssumption
        DEF Shape, ShapeRecomputing, Pairs, Transaction
      <3> QED
        BY <2>2, <2>5, <3>2 DEF Shape, ShapeRecomputing, NoPlan, Clearing
    <2>9. y.waiting \cup y.del \subseteq ScopeOf(y)
      BY <1>0, <2>2, <2>3, <2>5 DEF Shape, ScopeOf, Blank, Editing, Recomputing
    <2>10. \A p \in Pairs : y.plan[p] # NoRow \/ y.ins[p] # NoRow => p \in ScopeOf(y)
      BY <1>0, <2>2, <2>3, <2>5
      DEF Shape, ScopeOf, Blank, NoPlan, Editing, Recomputing
    <2> QED
      BY <1>0, <2>2, <2>3, <2>5, <2>4, <2>6, <2>7, <2>8, <2>9, <2>10
      DEF Shape, Blank, Opening, Editing, Recomputing, Clearing
  <1>10. CASE RemoveAsset(t)
    <2>1. y = [x EXCEPT !.pc = "commit", !.holds = TRUE]
      BY <1>10 DEF RemoveAsset, Step, TypeOK
    <2>2. x.kind = "delete" /\ x.pc = "remove"
      BY <1>0, <1>10
      DEF Ready, RemoveAsset, Shape, ShapeVisit, ShapeCreate, ShapeUpdate,
          ShapeRecomputing, Clearing, Computing, Editing, Recomputing, Opening,
          Transaction, Kinds
    <2>4. y \in Transaction
      BY <1>0, <2>1 DEF Transaction, PCs
    <2>5. /\ y.kind = x.kind /\ y.pc = "commit" /\ y.asset = x.asset
          /\ y.loaded = x.loaded /\ y.data = x.data /\ y.holds = TRUE
          /\ y.newEnv = x.newEnv /\ y.write = x.write
          /\ y.touched = x.touched /\ y.todo = x.todo /\ y.cve = x.cve
          /\ y.plan = x.plan /\ y.waiting = x.waiting /\ y.del = x.del
          /\ y.ins = x.ins /\ y.clash = x.clash
      BY <1>0, <2>1 DEF Transaction
    <2>6. ShapeVisit(y) /\ ShapeCreate(y) /\ ShapeUpdate(y) /\ ShapeDelete(y)
      BY <1>0, <2>2, <2>5
      DEF Shape, ShapeVisit, ShapeCreate, ShapeUpdate, ShapeDelete, Opening,
          Clearing, Computing, Blank
    <2>7. ShapeEditing(y)
      BY <1>0, <2>2, <2>5 DEF Shape, ShapeEditing, Editing, Blank
    <2>8. ShapeRecomputing(y)
      BY <1>0, <2>2, <2>5
      DEF Shape, ShapeRecomputing, Recomputing, Clearing, Editing
    <2>9. y.waiting \cup y.del \subseteq ScopeOf(y)
      BY <1>0, <2>2, <2>5 DEF Shape, ScopeOf, Blank
    <2>10. \A p \in Pairs : y.plan[p] # NoRow \/ y.ins[p] # NoRow => p \in ScopeOf(y)
      BY <1>0, <2>2, <2>5 DEF Shape, ScopeOf, Blank, NoPlan
    <2> QED
      BY <1>0, <2>2, <2>5, <2>4, <2>6, <2>7, <2>8, <2>9, <2>10
      DEF Shape, Blank, Opening, Editing, Recomputing, Clearing
  <1>11. CASE RecomputeMany(t)
    <2>1. y = [x EXCEPT !.todo = x.touched,
                          !.pc = IF x.touched = {} THEN "commit" ELSE "recompute"]
      BY <1>11 DEF RecomputeMany, Step, TypeOK
    <2>2. x.kind \in Recomputing /\ x.pc = "apply" /\ Blank(x)
      BY <1>0, <1>11
      DEF Ready, RecomputeMany, Shape, ShapeVisit, ShapeCreate, ShapeUpdate,
          ShapeDelete, Clearing, Computing, Editing, Recomputing, Opening,
          Transaction, Kinds
    <2>4. y \in Transaction
      BY <1>0, <2>1 DEF Transaction, PCs
    <2>5. /\ y.kind = x.kind
          /\ y.pc = IF x.touched = {} THEN "commit" ELSE "recompute"
          /\ y.asset = x.asset /\ y.loaded = x.loaded /\ y.data = x.data
          /\ y.holds = x.holds /\ y.newEnv = x.newEnv /\ y.write = x.write
          /\ y.touched = x.touched /\ y.todo = x.touched /\ y.cve = x.cve
          /\ y.plan = x.plan /\ y.waiting = x.waiting /\ y.del = x.del
          /\ y.ins = x.ins /\ y.clash = x.clash
      BY <1>0, <2>1 DEF Transaction
    <2>6. ShapeVisit(y) /\ ShapeCreate(y) /\ ShapeUpdate(y) /\ ShapeDelete(y)
      BY <1>0, <2>2, <2>5
      DEF Shape, ShapeVisit, ShapeCreate, ShapeUpdate, ShapeDelete, Opening,
          Clearing, Computing, Blank
    <2>7. ShapeEditing(y)
      BY <1>0, <2>2, <2>5 DEF Shape, ShapeEditing, Editing, Recomputing, Blank
    <2>8. ShapeRecomputing(y)
      BY <1>0, <2>2, <2>5
      DEF Shape, ShapeRecomputing, Recomputing, Clearing, Editing, Blank,
          NoPlan
    <2>9. y.waiting \cup y.del \subseteq ScopeOf(y)
      BY <1>0, <2>2, <2>5 DEF Shape, ScopeOf, Blank
    <2>10. \A p \in Pairs : y.plan[p] # NoRow \/ y.ins[p] # NoRow => p \in ScopeOf(y)
      BY <1>0, <2>2, <2>5 DEF Shape, ScopeOf, Blank, NoPlan
    <2> QED
      BY <1>0, <2>2, <2>5, <2>4, <2>6, <2>7, <2>8, <2>9, <2>10
      DEF Shape, Blank, Opening, Editing, Recomputing, Clearing
  <1>12. CASE RecomputeCve(t)
    <2>1. PICK c \in x.todo :
            \/ y = [x EXCEPT !.todo = x.todo \ {c},
                             !.pc = IF x.todo \ {c} = {} THEN "commit" ELSE "recompute"]
            \/ y = [x EXCEPT !.todo = x.todo \ {c}, !.pc = "clear", !.cve = c,
                             !.plan = Verdicts(t, c)]
      BY <1>12, RecomputeCveEffect
    <2>2. x.kind \in Recomputing /\ x.pc = "recompute" /\ x.cve = NoCve
      BY <1>0, <1>12
      DEF Ready, RecomputeCve, Shape, ShapeVisit, ShapeCreate, ShapeUpdate,
          ShapeDelete, ShapeRecomputing, Clearing, Computing, Recomputing,
          Opening, Transaction, Kinds
    <2>3. c \in Cves /\ c \in x.touched /\ Verdicts(t, c) \in [Pairs -> Rows]
      <3>1. c \in Cves /\ c \in x.touched
        BY <1>0, <2>2 DEF Transaction, Shape, ShapeRecomputing
      <3>2. View(t, c) \in CveData
        BY <1>0, <3>1 DEF View, Transaction, TypeOK
      <3> QED
        BY <3>1, <3>2, ConstantsAssumption DEF Live, Rows, Verdicts
    <2>4. y \in Transaction
      <3> DEFINE r == x.todo \ {c}
                 pc == IF r = {} THEN "commit" ELSE "recompute"
      <3>1. r \in SUBSET Cves /\ pc \in PCs /\ "clear" \in PCs
        BY <1>0 DEF Transaction, PCs
      <3>2. \/ y = [x EXCEPT !.todo = r, !.pc = pc]
            \/ y = [x EXCEPT !.todo = r, !.pc = "clear", !.cve = c, !.plan = Verdicts(t, c)]
        BY <2>1
      <3> HIDE DEF r, pc
      <3>3. CASE y = [x EXCEPT !.todo = r, !.pc = pc]
        BY <1>0, <3>1, <3>3 DEF Transaction
      <3>4. CASE y = [x EXCEPT !.todo = r, !.pc = "clear", !.cve = c, !.plan = Verdicts(t, c)]
        BY <1>0, <2>3, <3>1, <3>4 DEF Transaction
      <3> QED
        BY <3>2, <3>3, <3>4
    <2>5. /\ y.kind = x.kind /\ y.asset = x.asset /\ y.loaded = x.loaded
          /\ y.data = x.data /\ y.holds = x.holds /\ y.newEnv = x.newEnv
          /\ y.write = x.write /\ y.touched = x.touched
          /\ y.waiting = x.waiting /\ y.del = x.del /\ y.ins = x.ins
          /\ y.clash = x.clash
          /\ y.todo = x.todo \ {c}
          /\ \/ /\ y.pc = IF x.todo \ {c} = {} THEN "commit" ELSE "recompute"
                /\ y.cve = x.cve /\ y.plan = x.plan
             \/ y.pc = "clear" /\ y.cve = c /\ y.plan = Verdicts(t, c)
      BY <1>0, <2>1 DEF Transaction
    <2>11. \A p \in Pairs : Verdicts(t, c)[p] # NoRow => p[2] = c /\ p \in ScopeOf(x)
      BY <2>2, <2>3 DEF Verdicts, ScopeOf, Recomputing, Pairs
    <2>6. ShapeVisit(y) /\ ShapeCreate(y) /\ ShapeUpdate(y) /\ ShapeDelete(y)
      BY <1>0, <2>2, <2>3, <2>5, <2>11, ConstantsAssumption
      DEF Shape, ShapeVisit, ShapeCreate, ShapeUpdate, ShapeDelete, Opening,
          Clearing, Computing, Blank
    <2>7. ShapeEditing(y)
      BY <1>0, <2>2, <2>3, <2>5, <2>11, ConstantsAssumption
      DEF Shape, ShapeEditing, Editing, Blank
    <2>8. ShapeRecomputing(y)
      BY <1>0, <2>2, <2>3, <2>5, <2>11, ConstantsAssumption
      DEF Shape, ShapeRecomputing, Recomputing, Clearing, Editing
    <2>9. y.waiting \cup y.del \subseteq ScopeOf(y)
      BY <1>0, <2>2, <2>3, <2>5, <2>11, ConstantsAssumption
      DEF Shape, ScopeOf, Blank, Recomputing
    <2>10. \A p \in Pairs : y.plan[p] # NoRow \/ y.ins[p] # NoRow => p \in ScopeOf(y)
      BY <1>0, <2>2, <2>3, <2>5, <2>11, ConstantsAssumption
      DEF Shape, ScopeOf, Blank, NoPlan, Recomputing
    <2> QED
      BY <1>0, <2>2, <2>3, <2>5, <2>11, ConstantsAssumption, <2>4, <2>6, <2>7,
         <2>8, <2>9, <2>10
      DEF Shape, Blank, Opening, Editing, Recomputing, Clearing
  <1>13. ASSUME NEW c \in Cves, NEW d \in CveData, ApplyCve(t, c, d)
         PROVE  Shape(y)
    <2>1. y = [x EXCEPT !.write[c] = d, !.touched = @ \cup {c}]
      BY <1>13 DEF ApplyCve, Step, TypeOK
    <2>2. x.kind \in Recomputing /\ x.pc = "apply" /\ Blank(x)
      BY <1>0, <1>13
      DEF Ready, ApplyCve, Shape, ShapeVisit, ShapeCreate, ShapeUpdate,
          ShapeDelete, Clearing, Computing, Editing, Recomputing, Opening,
          Transaction, Kinds
    <2>4. y \in Transaction
      <3> DEFINE w == [x.write EXCEPT ![c] = d]
                 r == x.touched \cup {c}
      <3>1. w \in [Cves -> CveData \cup {NoData}] /\ r \in SUBSET Cves
        BY <1>0 DEF Transaction
      <3>2. y = [x EXCEPT !.write = w, !.touched = r]
        BY <1>0, <2>1 DEF Transaction
      <3> HIDE DEF w, r
      <3> QED
        BY <1>0, <3>1, <3>2 DEF Transaction
    <2>5. /\ y.kind = x.kind /\ y.pc = x.pc /\ y.asset = x.asset
          /\ y.loaded = x.loaded /\ y.data = x.data /\ y.holds = x.holds
          /\ y.newEnv = x.newEnv /\ y.write = [x.write EXCEPT ![c] = d]
          /\ y.touched = x.touched \cup {c} /\ y.todo = x.todo
          /\ y.cve = x.cve /\ y.plan = x.plan /\ y.waiting = x.waiting
          /\ y.del = x.del /\ y.ins = x.ins /\ y.clash = x.clash
      BY <1>0, <2>1 DEF Transaction
    <2>6. ShapeVisit(y) /\ ShapeCreate(y) /\ ShapeUpdate(y) /\ ShapeDelete(y)
      BY <1>0, <2>2, <2>5
      DEF Shape, ShapeVisit, ShapeCreate, ShapeUpdate, ShapeDelete, Opening,
          Clearing, Computing, Blank
    <2>7. ShapeEditing(y)
      BY <1>0, <2>2, <2>5 DEF Shape, ShapeEditing, Editing, Blank
    <2>8. ShapeRecomputing(y)
      BY <1>0, <2>2, <2>5
      DEF Shape, ShapeRecomputing, Recomputing, Clearing, Editing, Blank,
          NoPlan
    <2>9. y.waiting \cup y.del \subseteq ScopeOf(y)
      BY <1>0, <2>2, <2>5 DEF Shape, ScopeOf, Blank
    <2>10. \A p \in Pairs : y.plan[p] # NoRow \/ y.ins[p] # NoRow => p \in ScopeOf(y)
      BY <1>0, <2>2, <2>5 DEF Shape, ScopeOf, Blank, NoPlan
    <2> QED
      BY <1>0, <2>2, <2>5, <2>4, <2>6, <2>7, <2>8, <2>9, <2>10
      DEF Shape, Blank, Opening, Editing, Recomputing, Clearing, Transaction
  <1> QED
    BY <1>1, <1>2, <1>3, <1>4, <1>5, <1>6, <1>7, <1>8, <1>9, <1>10, <1>11,
       <1>12,
       <1>13 DEF Moves

------------------------------------------------------------------------------
(* Keys, row locks and foreign keys                                         *)

Fits(t) == KeyOf(t) /\ RowLock(t) /\ ForeignKey(t)

\* t takes no key of another session and deletes no asset another refers to.
Apart(t, u) ==
    /\ tx[u].kind = "create" /\ tx[u].asset # NoAsset => tx[t].asset # tx[u].asset
    /\ tx[t].kind = "delete" /\ tx[t].holds =>
         \A p \in Inserted(u) : p[1] # tx[t].asset

\* What one session does concerns another through the key it takes and the
\* row it locks.
LEMMA SessionStructure ==
    ASSUME TypeOK, Structure, NEW t \in Txs,
           tx' = [tx EXCEPT ![t] = tx'[t]], asset' = asset,
           Shape(tx'[t]), Fits(t)',
           \A u \in Txs \ {t} : Apart(t, u)'
    PROVE  Structure'
  <1> SUFFICES ASSUME NEW u \in Txs, u # t
               PROVE  Shape(tx'[u]) /\ Fits(u)'
    BY DEF Structure, Fits
  <1>1. tx'[u] = tx[u]
    BY DEF TypeOK
  <1>2. Shape(tx[u]) /\ KeyOf(u) /\ RowLock(u) /\ ForeignKey(u)
    BY DEF Structure
  <1>3. \A v \in Txs : v # t => tx'[v] = tx[v]
    BY DEF TypeOK
  <1>4. KeyOf(u)'
    BY <1>1, <1>2, <1>3 DEF KeyOf, Apart
  <1>5. RowLock(u)'
    BY <1>1, <1>2, <1>3 DEF RowLock, Fits
  <1>6. ForeignKey(u)'
    <2>1. Planned(u)' = Planned(u) /\ Inserted(u)' = Inserted(u)
      BY <1>1 DEF Planned, Inserted
    <2> QED
      BY <1>1, <1>2, <1>3, <2>1 DEF ForeignKey, Refers, Locks, Apart
  <1> QED
    BY <1>1, <1>2, <1>4, <1>5, <1>6 DEF Fits

\* A session that starts, or ends with nothing done, fits with the others.
LEMMA FreshFits ==
    ASSUME TypeOK, Structure, NEW t \in Txs,
           tx' = [tx EXCEPT ![t] = tx'[t]], asset' = asset,
           Shape(tx'[t]),
           ~tx'[t].holds, tx'[t].plan = NoPlan, tx'[t].ins = NoPlan,
           \/ tx'[t].asset = NoAsset /\ tx'[t].kind \notin {"update", "delete"}
           \/ tx'[t].asset \in Live /\ tx'[t].kind # "create"
    PROVE  Structure'
  <1>1. Planned(t)' = {} /\ Inserted(t)' = {}
    BY DEF Planned, Inserted, NoPlan
  <1>2. Fits(t)'
    BY <1>1, ConstantsAssumption DEF Fits, KeyOf, RowLock, ForeignKey, Live
  <1>3. ASSUME NEW u \in Txs \ {t}
        PROVE  Apart(t, u)'
    <2>1. tx'[u] = tx[u]
      BY DEF TypeOK
    <2>2. KeyOf(u)
      BY DEF Structure
    <2> QED
      BY <2>1, <2>2, ConstantsAssumption DEF Apart, KeyOf, Live
  <1> QED
    BY <1>2, <1>3, SessionStructure

\* A statement that takes no key, locks no row and inserts nothing.
LEMMA QuietStructure ==
    ASSUME TypeOK, Structure, NEW t \in Txs,
           tx' = [tx EXCEPT ![t] = tx'[t]], asset' = asset,
           Shape(tx'[t]),
           tx'[t].kind = tx[t].kind, tx'[t].asset = tx[t].asset,
           tx'[t].holds = tx[t].holds, tx'[t].ins = tx[t].ins,
           \A p \in Planned(t)' : Refers(t, p)
    PROVE  Structure'
  <1>0. \A u \in Txs \ {t} : tx'[u] = tx[u]
    BY DEF TypeOK
  <1>1. Fits(t)
    BY DEF Structure, Fits
  <1>2. Inserted(t)' = Inserted(t)
    BY DEF Inserted
  <1>3. Fits(t)'
    <2>1. KeyOf(t)' /\ RowLock(t)'
      BY <1>0, <1>1 DEF Fits, KeyOf, RowLock
    <2>2. \A p \in Planned(t)' \cup Inserted(t)' : Refers(t, p)'
      BY <1>1, <1>2 DEF Fits, ForeignKey, Refers
    <2>3. \A u \in Txs, a \in AssetIds :
            tx'[u].kind = tx[u].kind /\ (Locks(u, a)' <=> Locks(u, a))
      BY <1>0 DEF Locks
    <2>4. \A p \in Inserted(t) : p[1] \in AssetIds
      BY DEF Inserted, Pairs
    <2> QED
      BY <1>1, <1>2, <2>1, <2>2, <2>3, <2>4 DEF Fits, ForeignKey
  <1>4. ASSUME NEW u \in Txs \ {t}
        PROVE  Apart(t, u)'
    <2>1. tx'[u] = tx[u] /\ Inserted(u)' = Inserted(u)
      BY <1>0 DEF Inserted
    <2>2. KeyOf(u) /\ ForeignKey(u)
      BY DEF Structure
    <2> QED
      BY <2>1, <2>2 DEF Apart, KeyOf, ForeignKey, Locks
  <1> QED
    BY <1>3, <1>4, SessionStructure

\* Every action but Commit keeps keys, row locks and foreign keys.
LEMMA MovesStructure ==
    ASSUME TypeOK, Structure, NEW t \in Txs, Moves(t)
    PROVE  Structure'
  <1> DEFINE x == tx[t]
             y == tx'[t]
  <1>1. tx' = [tx EXCEPT ![t] = y] /\ asset' = asset
    BY MovesLocal
  <1>2. Shape(x) /\ Fits(t) /\ x \in Transaction
    BY DEF Structure, Fits, Shape
  <1>3. Shape(y)
    BY <1>2, BeginShape, StatementShape
  <1>4. \A u \in Txs \ {t} : tx'[u] = tx[u] /\ Inserted(u)' = Inserted(u)
    BY <1>1 DEF TypeOK, Inserted
  <1>5. CASE Request(t) \/ BeginMaintenance(t)
    <2>1. /\ ~y.holds /\ y.plan = NoPlan /\ y.ins = NoPlan
          /\ \/ y.asset = NoAsset /\ y.kind \notin {"update", "delete"}
             \/ y.asset \in Live /\ y.kind # "create"
      <3>1. CASE BeginVisit(t)
        BY <3>1 DEF BeginVisit, Begin, Idle, TypeOK
      <3>2. CASE \E d \in AssetData : BeginCreate(t, d)
        BY <3>2 DEF BeginCreate, Begin, Idle, TypeOK
      <3>3. CASE \E a \in AssetIds : BeginDelete(t, a)
        BY <3>3 DEF BeginDelete, Begin, Idle, TypeOK
      <3>4. CASE \E a \in AssetIds, d \in AssetData : BeginUpdate(t, a, d)
        BY <3>4 DEF BeginUpdate, Begin, Idle, TypeOK
      <3>5. CASE BeginIngest(t)
        BY <3>5 DEF BeginIngest, Begin, Idle, TypeOK
      <3>6. CASE BeginMaintenance(t)
        BY <3>6 DEF BeginMaintenance, Begin, Idle, TypeOK
      <3> QED
        BY <1>5, <3>1, <3>2, <3>3, <3>4, <3>5, <3>6 DEF Request
    <2> QED
      BY <1>1, <1>3, <2>1, FreshFits
  <1>6. CASE \/ ReadEnvironment(t) \/ InsertEnvironment(t) \/ FindMatches(t)
             \/ DeleteMatches(t) \/ ReadCandidates(t) \/ RecomputeMany(t)
             \/ \E c \in Cves, d \in CveData : ApplyCve(t, c, d)
    <2>1. /\ y.kind = x.kind /\ y.asset = x.asset /\ y.holds = x.holds
          /\ y.ins = x.ins /\ y.plan = x.plan
      <3>1. CASE ReadEnvironment(t)
        BY <1>2, <3>1 DEF ReadEnvironment, Step, TypeOK, Transaction
      <3>2. CASE InsertEnvironment(t)
        BY <1>2, <3>2 DEF InsertEnvironment, Step, TypeOK, Transaction
      <3>3. CASE FindMatches(t)
        BY <1>2, <3>3 DEF FindMatches, Step, TypeOK, Transaction
      <3>4. CASE DeleteMatches(t)
        BY <1>2, <3>4 DEF DeleteMatches, Step, TypeOK, Transaction
      <3>5. CASE ReadCandidates(t)
        BY <1>2, <3>5 DEF ReadCandidates, Step, TypeOK, Transaction
      <3>6. CASE RecomputeMany(t)
        BY <1>2, <3>6 DEF RecomputeMany, Step, TypeOK, Transaction
      <3>7. ASSUME NEW c \in Cves, NEW d \in CveData, ApplyCve(t, c, d)
            PROVE  /\ y.kind = x.kind /\ y.asset = x.asset /\ y.holds = x.holds
                   /\ y.ins = x.ins /\ y.plan = x.plan
        BY <1>2, <3>7 DEF ApplyCve, Step, TypeOK, Transaction
      <3> QED
        BY <1>6, <3>1, <3>2, <3>3, <3>4, <3>5, <3>6, <3>7
    <2>2. Planned(t)' = Planned(t)
      BY <2>1 DEF Planned
    <2> QED
      BY <1>1, <1>2, <1>3, <2>1, <2>2, QuietStructure DEF Fits, ForeignKey
  <1>7. CASE MatchAsset(t)
    <2>1. PICK c \in x.todo :
            y = [x EXCEPT !.plan[<<x.asset, c>>] = Verdict[<<x.data, cve[c]>>],
                          !.todo = @ \ {c},
                          !.pc = IF x.todo = {c} THEN "insert" ELSE "read"]
      BY <1>7 DEF MatchAsset, Step, TypeOK
    <2>2. /\ y.kind = x.kind /\ y.asset = x.asset /\ y.holds = x.holds
          /\ y.ins = x.ins
          /\ \A p \in Pairs : p # <<x.asset, c>> => y.plan[p] = x.plan[p]
      BY <1>2, <2>1 DEF Transaction
    <2>3. Refers(t, <<x.asset, c>>)
      <3>1. x.kind \in Editing
        BY <1>2, <1>7
        DEF MatchAsset, Ready, Shape, ShapeVisit, ShapeDelete,
            ShapeRecomputing, Opening, Clearing, Recomputing, Editing,
            Transaction, Kinds
      <3> QED
        BY <1>2, <3>1 DEF Fits, KeyOf, Refers, Editing
    <2>4. \A p \in Planned(t)' : Refers(t, p)
      BY <1>2, <2>2, <2>3 DEF Planned, Fits, ForeignKey
    <2> QED
      BY <1>1, <1>3, <2>2, <2>4, QuietStructure
  <1>8. CASE RecomputeCve(t)
    <2>1. /\ y.kind = x.kind /\ y.asset = x.asset /\ y.holds = x.holds
          /\ y.ins = x.ins
          /\ \A p \in Pairs : y.plan[p] # NoRow => x.plan[p] # NoRow \/ p[1] \in Live
      <3>1. PICK c \in x.todo :
              \/ y = [x EXCEPT !.todo = x.todo \ {c},
                               !.pc = IF x.todo \ {c} = {} THEN "commit" ELSE "recompute"]
              \/ y = [x EXCEPT !.todo = x.todo \ {c}, !.pc = "clear", !.cve = c,
                               !.plan = Verdicts(t, c)]
        BY <1>8, RecomputeCveEffect
      <3>2. \A p \in Pairs : Verdicts(t, c)[p] # NoRow => p[1] \in Live
        BY DEF Verdicts
      <3> QED
        BY <1>2, <3>1, <3>2 DEF Transaction
    <2>2. \A p \in Planned(t)' : Refers(t, p)
      BY <1>2, <2>1, ConstantsAssumption
      DEF Planned, Fits, ForeignKey, Refers, Live
    <2> QED
      BY <1>1, <1>3, <2>1, <2>2, QuietStructure
  <1>9. CASE InsertAsset(t)
    <2>1. PICK a \in AssetIds :
            /\ asset[a] = Unborn /\ \A u \in Txs : tx[u].asset # a
            /\ y = [x EXCEPT !.pc = "clear", !.asset = a, !.holds = TRUE]
      BY <1>9 DEF InsertAsset, Step, TypeOK
    <2>2. x.kind = "create" /\ Blank(x)
      BY <1>2, <1>9 DEF InsertAsset, Ready, Shape
    <2>3. y.kind = "create" /\ y.asset = a /\ Blank(y)
      BY <1>2, <2>1, <2>2 DEF Transaction, Blank
    <2>4. Planned(t)' = {} /\ Inserted(t)' = {}
      BY <2>3 DEF Planned, Inserted, Blank, NoPlan
    <2>5. Fits(t)'
      BY <1>1, <1>4, <2>1, <2>3, <2>4 DEF Fits, KeyOf, RowLock, ForeignKey
    <2>6. \A u \in Txs \ {t} : Apart(t, u)'
      BY <1>4, <2>1, <2>3 DEF Apart
    <2> QED
      BY <1>1, <1>3, <2>5, <2>6, SessionStructure
  <1>10. CASE UpdateAsset(t)
    <2>1. y = [x EXCEPT !.pc = "clear", !.holds = TRUE]
      BY <1>10 DEF UpdateAsset, Step, TypeOK
    <2>2. x.kind = "update" /\ Blank(x) /\ x.asset \in AssetIds
      BY <1>2, <1>10 DEF UpdateAsset, Ready, Shape, ShapeUpdate
    <2>3. y.kind = "update" /\ y.asset = x.asset /\ Blank(y)
      BY <1>2, <2>1, <2>2 DEF Transaction, Blank
    <2>4. Planned(t)' = {} /\ Inserted(t)' = {}
      BY <2>3 DEF Planned, Inserted, Blank, NoPlan
    <2>5. KeyOf(t)' /\ ForeignKey(t)'
      BY <1>1, <1>2, <2>2, <2>3, <2>4 DEF Fits, KeyOf, ForeignKey
    <2>6. RowLock(t)'
      <3>1. asset[x.asset] \in AssetData
        BY <1>2, <1>10, <2>2
        DEF UpdateAsset, Ready, Refused, Fits, KeyOf, TypeOK
      <3>2. \A u \in Txs \ {t} : ~Locks(u, x.asset)
        BY <1>10, <2>2 DEF UpdateAsset, Ready, Blockers
      <3> QED
        BY <1>1, <1>4, <2>3, <3>1, <3>2 DEF RowLock, Locks
    <2>7. \A u \in Txs \ {t} : Apart(t, u)'
      <3> SUFFICES ASSUME NEW u \in Txs \ {t}
                   PROVE  Apart(t, u)'
        OBVIOUS
      <3>1. KeyOf(u)
        BY DEF Structure
      <3> QED
        BY <1>4, <2>3, <3>1 DEF Apart, KeyOf
    <2> QED
      BY <1>1, <1>3, <2>5, <2>6, <2>7, SessionStructure DEF Fits
  <1>11. CASE RemoveAsset(t)
    <2>1. y = [x EXCEPT !.pc = "commit", !.holds = TRUE]
      BY <1>11 DEF RemoveAsset, Step, TypeOK
    <2>2. x.kind = "delete" /\ x.asset \in AssetIds /\ x.plan = NoPlan /\ x.ins = NoPlan
      BY <1>2, <1>11
      DEF RemoveAsset, Ready, Shape, ShapeVisit, ShapeCreate, ShapeUpdate,
          ShapeDelete, ShapeRecomputing, Opening, Clearing, Computing,
          Recomputing, Transaction, Kinds
    <2>3. /\ y.kind = "delete" /\ y.asset = x.asset /\ y.plan = NoPlan /\ y.ins = NoPlan
      BY <1>2, <2>1, <2>2 DEF Transaction
    <2>4. Planned(t)' = {} /\ Inserted(t)' = {}
      BY <2>3 DEF Planned, Inserted, NoPlan
    <2>5. \A u \in Txs \ {t} :
            ~Locks(u, x.asset) /\ Inserted(u) \cap OfAsset(x.asset) = {}
      BY <1>11 DEF RemoveAsset, Ready, Blockers
    <2>6. Fits(t)'
      BY <1>1, <1>2, <1>4, <2>2, <2>3, <2>4, <2>5
      DEF Fits, KeyOf, ForeignKey, RowLock, Locks
    <2>7. \A u \in Txs \ {t} : Apart(t, u)'
      <3> SUFFICES ASSUME NEW u \in Txs \ {t}
                   PROVE  Apart(t, u)'
        OBVIOUS
      <3>1. KeyOf(u)
        BY DEF Structure
      <3>2. \A p \in Inserted(u) : p[1] # x.asset
        BY <2>5 DEF Inserted, OfAsset, Pairs
      <3> QED
        BY <1>4, <2>3, <3>1, <3>2 DEF Apart, KeyOf
    <2> QED
      BY <1>1, <1>3, <2>6, <2>7, SessionStructure
  <1>12. CASE InsertMatches(t)
    <2>1. /\ y.kind = x.kind /\ y.asset = x.asset /\ y.holds = x.holds
          /\ y.plan = NoPlan
          /\ y.ins = [p \in Pairs |-> IF x.plan[p] # NoRow THEN x.plan[p] ELSE x.ins[p]]
      BY <1>2, <1>12 DEF InsertMatches, Step, TypeOK, Transaction
    <2>2. Planned(t)' = {} /\ Inserted(t)' = Planned(t) \cup Inserted(t)
      BY <2>1 DEF Planned, Inserted, NoPlan
    <2>3. x.kind # "delete"
      BY <1>2, <1>12 DEF InsertMatches, Ready, Shape, ShapeDelete, Clearing
    <2>4. \A p \in Planned(t) : asset[p[1]] # Deleted
      BY <1>12 DEF InsertMatches, Ready, Refused, Planned
    <2>5. \A u \in Txs \ {t}, p \in Planned(t) : tx[u].kind = "delete" => ~Locks(u, p[1])
      BY <1>12 DEF InsertMatches, Ready, Blockers
    <2>6. ForeignKey(t)'
      BY <1>1, <1>2, <1>4, <2>1, <2>2, <2>3, <2>4, <2>5
      DEF Fits, ForeignKey, Refers, Locks
    <2>7. KeyOf(t)' /\ RowLock(t)'
      BY <1>1, <1>2, <1>4, <2>1 DEF Fits, KeyOf, RowLock
    <2>8. \A u \in Txs \ {t} : Apart(t, u)'
      <3> SUFFICES ASSUME NEW u \in Txs \ {t}
                   PROVE  Apart(t, u)'
        OBVIOUS
      <3>1. KeyOf(u)
        BY DEF Structure
      <3> QED
        BY <1>4, <2>1, <2>3, <3>1 DEF Apart, KeyOf
    <2> QED
      BY <1>1, <1>3, <2>6, <2>7, <2>8, SessionStructure DEF Fits
  <1> QED
    BY <1>5, <1>6, <1>7, <1>8, <1>9, <1>10, <1>11, <1>12 DEF Moves

\* A transaction that fails leaves nothing behind.
LEMMA RollbackStructure ==
    ASSUME TypeOK, Structure, NEW t \in Txs, Rollback(t)
    PROVE  Structure'
  <1>1. tx'[t] = Idle
    BY DEF Rollback, TypeOK
  <1>2. /\ ~tx'[t].holds /\ tx'[t].plan = NoPlan /\ tx'[t].ins = NoPlan
        /\ tx'[t].asset = NoAsset /\ tx'[t].kind = "none"
    BY <1>1 DEF Idle
  <1>3. tx' = [tx EXCEPT ![t] = tx'[t]] /\ asset' = asset
    BY <1>1 DEF Rollback
  <1> QED
    BY <1>1, <1>2, <1>3, IdleShape, FreshFits

------------------------------------------------------------------------------
(* Commit                                                                   *)

Gone(t) ==
    tx[t].del \cup (IF tx[t].kind = "delete" THEN OfAsset(tx[t].asset) ELSE {})

\* A session about to commit has written its asset's row, and its scope is a
\* set of pairs, which holds all the rows it inserts or deletes.
LEMMA CommitScope ==
    ASSUME TypeOK, Structure, NEW t \in Txs, Commit(t)
    PROVE  /\ tx[t].kind \in Editing \cup {"delete"} =>
                tx[t].asset \in AssetIds /\ tx[t].holds
           /\ Scope(t) \subseteq Pairs
           /\ Gone(t) \subseteq Scope(t) /\ Inserted(t) \subseteq Scope(t)
           /\ tx[t].kind \in Recomputing => tx[t].todo = {} /\ tx[t].cve = NoCve
  <1> DEFINE x == tx[t]
  <1>1. x.pc = "commit" /\ Shape(x) /\ x \in Transaction
    BY DEF Commit, Ready, Structure, Shape
  <1>2. x.kind \in Editing \cup {"delete"} => x.asset \in AssetIds /\ x.holds
    BY <1>1 DEF Shape, ShapeCreate, ShapeUpdate, ShapeDelete, Editing, Opening
  <1>3. Scope(t) = ScopeOf(x)
    BY DEF Scope, ScopeOf
  <1>4. Scope(t) \subseteq Pairs
    BY <1>1, <1>2 DEF Scope, Pairs, Transaction, Editing
  <1>5. Gone(t) \subseteq Scope(t)
    BY <1>1, <1>3 DEF Gone, Shape, OfAsset, Scope
  <1>6. Inserted(t) \subseteq Scope(t)
    BY <1>1, <1>3 DEF Inserted, Shape
  <1>7. x.kind \in Recomputing => x.todo = {} /\ x.cve = NoCve
    BY <1>1 DEF Shape, ShapeRecomputing, Clearing
  <1> QED
    BY <1>2, <1>4, <1>5, <1>6, <1>7

\* What it does to the rows of assets.
LEMMA CommitAsset ==
    ASSUME TypeOK, Structure, NEW t \in Txs, Commit(t), NEW a \in AssetIds
    PROVE  \/ /\ asset'[a] = asset[a]
              /\ tx[t].kind \in Editing \cup {"delete"} => a # tx[t].asset
           \/ tx[t].kind \in Editing /\ a = tx[t].asset /\ asset'[a] \in AssetData
           \/ tx[t].kind = "delete" /\ a = tx[t].asset /\ asset'[a] = Deleted
  <1> DEFINE x == tx[t]
  <1>1. x.pc = "commit" /\ Shape(x) /\ RowLock(t)
    BY DEF Commit, Ready, Structure
  <1>2. x.kind \in Editing \cup {"delete"} => x.asset \in AssetIds /\ x.holds
    BY CommitScope
  <1>3. CASE x.kind = "create"
    BY <1>1, <1>2, <1>3 DEF Commit, TypeOK, Editing, Shape, ShapeCreate
  <1>4. CASE x.kind = "update"
    <2>1. asset[x.asset] \in AssetData /\ x.data \in AssetData /\ x.loaded \in AssetData
      BY <1>1, <1>2, <1>4 DEF RowLock, Shape, ShapeUpdate, Editing
    <2>2. Merged(t) \in AssetData
      BY <2>1 DEF Merged, AssetData
    <2> QED
      BY <1>2, <1>4, <2>2 DEF Commit, TypeOK, Editing
  <1>5. CASE x.kind = "delete"
    BY <1>2, <1>5 DEF Commit, TypeOK
  <1>6. CASE x.kind \notin Editing \cup {"delete"}
    BY <1>6 DEF Commit, Editing
  <1> QED
    BY <1>3, <1>4, <1>5, <1>6 DEF Editing

\* What another session notices.
LEMMA CommitOther ==
    ASSUME TypeOK, Structure, NEW t \in Txs, Commit(t), NEW u \in Txs
    PROVE  /\ u = t => tx'[u] = Idle
           /\ u # t =>
                /\ tx'[u] \in Transaction
                /\ Shape(tx'[u])
                /\ tx'[u].kind = tx[u].kind /\ tx'[u].pc = tx[u].pc
                /\ tx'[u].asset = tx[u].asset /\ tx'[u].data = tx[u].data
                /\ tx'[u].loaded = tx[u].loaded /\ tx'[u].holds = tx[u].holds
                /\ tx'[u].write = tx[u].write /\ tx'[u].touched = tx[u].touched
                /\ tx'[u].todo = tx[u].todo /\ tx'[u].cve = tx[u].cve
                /\ tx'[u].plan = tx[u].plan /\ tx'[u].ins = tx[u].ins
                /\ tx'[u].del = tx[u].del
                /\ tx'[u].waiting = tx[u].waiting \ Gone(t)
                /\ tx[u].pc # "idle" => tx'[u].clash = tx[u].clash \cup Scope(t)
  <1> DEFINE x == tx[u]
             y == tx'[u]
  <1>1. /\ u = t => y = Idle
        /\ u # t /\ x.pc = "idle" => y = Idle
        /\ u # t /\ x.pc # "idle" =>
             y = [x EXCEPT !.waiting = x.waiting \ Gone(t), !.clash = x.clash \cup Scope(t)]
    BY DEF Commit, TypeOK, Gone
  <1>2. Shape(x) /\ x \in Transaction
    BY DEF Structure, Shape
  <1>3. CASE u = t
    BY <1>1, <1>3
  <1>4. CASE u # t /\ x.pc = "idle"
    <2>1. x = Idle /\ y = Idle
      BY <1>1, <1>2, <1>4 DEF Shape
    <2>2. x.waiting = {} /\ {} = {} \ Gone(t)
      BY <2>1 DEF Idle
    <2> QED
      BY <1>2, <1>4, <2>1, <2>2
  <1>5. CASE u # t /\ x.pc # "idle"
    <2> DEFINE w == x.waiting \ Gone(t)
               k == x.clash \cup Scope(t)
    <2>1. w \in SUBSET Pairs /\ k \in SUBSET Pairs /\ w \subseteq x.waiting
      BY <1>2, CommitScope DEF Transaction
    <2>2. y = [x EXCEPT !.waiting = w, !.clash = k]
      BY <1>1, <1>5
    <2>3. w = x.waiting \ Gone(t) /\ k = x.clash \cup Scope(t)
      OBVIOUS
    <2> HIDE DEF w, k
    <2>4. y \in Transaction
      BY <1>2, <2>1, <2>2 DEF Transaction
    <2>5. /\ y.kind = x.kind /\ y.pc = x.pc /\ y.asset = x.asset /\ y.data = x.data
          /\ y.loaded = x.loaded /\ y.holds = x.holds /\ y.write = x.write
          /\ y.touched = x.touched /\ y.todo = x.todo /\ y.cve = x.cve
          /\ y.plan = x.plan /\ y.ins = x.ins /\ y.del = x.del /\ y.waiting = w
          /\ y.clash = k
      BY <1>2, <2>2 DEF Transaction
    <2>6. Blank(x) => Blank(y)
      BY <2>1, <2>5 DEF Blank
    <2>7. ScopeOf(y) = ScopeOf(x)
      BY <2>5 DEF ScopeOf
    <2>8. /\ ShapeVisit(y) /\ ShapeCreate(y) /\ ShapeUpdate(y)
          /\ ShapeEditing(y) /\ ShapeDelete(y)
      BY <1>2, <2>5, <2>6
      DEF Shape, ShapeVisit, ShapeCreate, ShapeUpdate, ShapeEditing, ShapeDelete
    <2>9. ShapeRecomputing(y)
      BY <1>2, <2>5 DEF Shape, ShapeRecomputing
    <2>10. Shape(y)
      BY <1>2, <1>5, <2>1, <2>4, <2>5, <2>6, <2>7, <2>8, <2>9 DEF Shape
    <2> QED
      BY <1>5, <2>3, <2>4, <2>5, <2>10
  <1> QED
    BY <1>3, <1>4, <1>5

\* A commit takes nothing from the keys, locks and references of the others.
LEMMA CommitStructure ==
    ASSUME TypeOK, Structure, NEW t \in Txs, Commit(t)
    PROVE  Structure'
  <1> SUFFICES ASSUME NEW u \in Txs
               PROVE  Shape(tx'[u]) /\ KeyOf(u)' /\ RowLock(u)' /\ ForeignKey(u)'
    BY DEF Structure
  <1>1. CASE u = t
    <2>1. tx'[u] = Idle
      BY <1>1, CommitOther
    <2>2. Planned(u)' = {} /\ Inserted(u)' = {}
      BY <2>1 DEF Idle, NoPlan, Planned, Inserted
    <2> QED
      BY <2>1, <2>2, IdleShape DEF KeyOf, RowLock, ForeignKey, Idle
  <1>2. CASE u # t
    <2>1. Shape(tx'[u])
      BY <1>2, CommitOther
    <2>2. KeyOf(u) /\ RowLock(u) /\ ForeignKey(u) /\ Shape(tx[u])
      BY DEF Structure
    <2>3. /\ tx'[u].kind = tx[u].kind /\ tx'[u].asset = tx[u].asset
          /\ tx'[u].holds = tx[u].holds
          /\ Planned(u)' = Planned(u) /\ Inserted(u)' = Inserted(u)
      BY <1>2, CommitOther DEF Planned, Inserted
    <2>4. \A v \in Txs : \/ tx'[v].kind = "none" /\ tx'[v].asset = NoAsset /\ ~tx'[v].holds
                         \/ /\ tx'[v].kind = tx[v].kind /\ tx'[v].asset = tx[v].asset
                            /\ tx'[v].holds = tx[v].holds
      BY CommitOther DEF Idle
    <2>5. tx[u].asset \in AssetIds \cup {NoAsset}
      BY <2>2 DEF Shape, Transaction
    <2>6. tx[t].kind \in Editing \cup {"delete"} =>
            tx[t].asset \in AssetIds /\ tx[t].holds
      BY CommitScope
    <2>7. \A a \in AssetIds : asset[a] # Unborn => asset'[a] # Unborn
      BY CommitAsset, ConstantsAssumption
    <2>8. KeyOf(u)'
      <3>1. CASE tx[u].kind = "create" /\ tx[u].asset # NoAsset
        <4>1. tx[t].asset # tx[u].asset
          BY <1>2, <2>2, <3>1 DEF KeyOf
        <4>2. asset'[tx[u].asset] = asset[tx[u].asset]
          BY <2>5, <3>1, <4>1, CommitAsset
        <4> QED
          BY <2>2, <2>3, <2>4, <3>1, <4>2 DEF KeyOf
      <3>2. CASE tx[u].kind \in {"update", "delete"}
        <4>1. tx[u].asset \in AssetIds
          BY <2>2, <3>2 DEF Shape, ShapeUpdate, ShapeDelete
        <4> QED
          BY <2>2, <2>3, <2>7, <3>2, <4>1 DEF KeyOf
      <3> QED
        BY <2>3, <3>1, <3>2 DEF KeyOf
    <2>9. RowLock(u)'
      <3> SUFFICES ASSUME tx[u].holds
                   PROVE  RowLock(u)'
        BY <2>3 DEF RowLock
      <3>1. \A v \in Txs \ {u} : tx'[v].holds => tx'[v].asset # tx'[u].asset
        BY <2>2, <2>3, <2>4 DEF RowLock
      <3>2. ASSUME tx[u].kind = "update"
            PROVE  asset'[tx[u].asset] \in AssetData
        <4>1. tx[u].asset \in AssetIds /\ asset[tx[u].asset] \in AssetData
          BY <2>2, <3>2 DEF Shape, ShapeUpdate, RowLock
        <4>2. tx[t].kind \in Editing \cup {"delete"} => tx[t].asset # tx[u].asset
          BY <1>2, <2>2, <2>6 DEF RowLock
        <4> QED
          BY <4>1, <4>2, CommitAsset
      <3> QED
        BY <2>3, <3>1, <3>2 DEF RowLock
    <2>10. ForeignKey(u)'
      <3>1. \A p \in Planned(u) \cup Inserted(u) : p[1] \in AssetIds
        BY DEF Planned, Inserted, Pairs
      <3>2. \A p \in Planned(u) \cup Inserted(u) : Refers(u, p)'
        BY <2>2, <2>3, <2>7, <3>1 DEF ForeignKey, Refers
      <3>3. ASSUME NEW p \in Inserted(u)
            PROVE  asset'[p[1]] # Deleted
        <4>1. asset[p[1]] # Deleted
          BY <2>2 DEF ForeignKey
        <4>2. tx[t].kind = "delete" => tx[t].asset # p[1]
          BY <2>2, <2>6 DEF ForeignKey, Locks
        <4> QED
          BY <3>1, <4>1, <4>2, CommitAsset, ConstantsAssumption
      <3>4. ASSUME NEW p \in Inserted(u), NEW v \in Txs, tx'[v].kind = "delete"
            PROVE  ~Locks(v, p[1])'
        BY <2>2, <2>4, <3>4 DEF ForeignKey, Locks
      <3> QED
        BY <2>3, <3>2, <3>3, <3>4 DEF ForeignKey
    <2> QED
      BY <2>1, <2>8, <2>9, <2>10
  <1> QED
    BY <1>1, <1>2

------------------------------------------------------------------------------
(* Types, and no match row without its asset                                *)

\* Every action keeps the types.
LEMMA TypeStep ==
    ASSUME TypeOK, Structure, [Next]_vars
    PROVE  TypeOK'
  <1>1. ASSUME NEW t \in Txs, Moves(t)
        PROVE  TypeOK'
    <2>1. tx' = [tx EXCEPT ![t] = tx'[t]] /\ changes' \in 0 .. MaxChanges
          /\ UNCHANGED <<env, asset, cve, match, raced, faults>>
      BY <1>1, MovesLocal
    <2>2. tx'[t] \in Transaction
      BY <1>1, MovesStructure DEF Structure, Shape
    <2>3. tx' \in [Txs -> Transaction]
      BY <2>1, <2>2 DEF TypeOK
    <2> QED
      BY <2>1, <2>3 DEF TypeOK
  <1>2. ASSUME NEW t \in Txs, Commit(t)
        PROVE  TypeOK'
    <2>1. env' \in BOOLEAN
      <3>1. tx[t].newEnv \in BOOLEAN
        BY DEF TypeOK, Transaction
      <3> QED
        BY <1>2, <3>1 DEF Commit, TypeOK
    <2>2. asset' \in [AssetIds -> AssetData \cup {Unborn, Deleted}]
      <3>1. \A a \in AssetIds : asset'[a] \in AssetData \cup {Unborn, Deleted}
        BY <1>2, CommitAsset DEF TypeOK
      <3>2. asset' = [a \in AssetIds |-> asset'[a]]
        BY <1>2 DEF Commit, TypeOK
      <3> QED
        BY <3>1, <3>2
    <2>3. cve' \in [Cves -> CveData]
      <3>1. \A c \in Cves : View(t, c) \in CveData
        BY DEF View, TypeOK, Transaction
      <3> QED
        BY <1>2, <3>1 DEF Commit
    <2>4. match' \in [Pairs -> Rows]
      <3>1. tx[t].ins \in [Pairs -> Rows] /\ NoRow \in Rows
        BY DEF TypeOK, Transaction, Rows
      <3> QED
        BY <1>2, <3>1 DEF Commit, TypeOK
    <2>5. tx' \in [Txs -> Transaction]
      <3>1. \A u \in Txs : tx'[u] \in Transaction
        BY <1>2, CommitOther, IdleShape DEF Shape
      <3>2. tx' = [u \in Txs |-> tx'[u]]
        BY <1>2 DEF Commit
      <3> QED
        BY <3>1, <3>2
    <2>6. raced' \subseteq Pairs
      BY <1>2, CommitScope DEF Commit, TypeOK
    <2> QED
      BY <1>2, <2>1, <2>2, <2>3, <2>4, <2>5, <2>6 DEF Commit, TypeOK
  <1>3. ASSUME NEW t \in Txs, Rollback(t), faults' \in 0 .. MaxFaults
        PROVE  TypeOK'
    BY <1>3, IdleShape DEF Rollback, TypeOK, Shape
  <1>4. ASSUME NEW t \in Txs, StatementFails(t) \/ SessionDies(t)
        PROVE  Rollback(t) /\ faults' \in 0 .. MaxFaults
    BY <1>4, ConstantsAssumption
    DEF StatementFails, SessionDies, Rollback, TypeOK
  <1>5. CASE UNCHANGED vars
    BY <1>5 DEF vars, TypeOK
  <1> QED
    BY <1>1, <1>2, <1>3, <1>4, <1>5 DEF Next, Statement, Moves

\* Every action keeps keys, row locks and foreign keys.
LEMMA StructureStep ==
    ASSUME TypeOK, Structure, [Next]_vars
    PROVE  Structure'
  <1>1. CASE UNCHANGED vars
    BY <1>1
    DEF vars, Structure, KeyOf, RowLock, ForeignKey, Planned, Inserted, Refers,
        Locks
  <1>2. ASSUME NEW t \in Txs, StatementFails(t) \/ SessionDies(t)
        PROVE  Structure'
    BY <1>2, RollbackStructure DEF StatementFails, SessionDies
  <1> QED
    BY <1>1, <1>2, MovesStructure, CommitStructure DEF Next, Statement, Moves

\* Rows are inserted for assets that stay, and go with the asset.
LEMMA OrphanStep ==
    ASSUME TypeOK, Structure, NoOrphans, [Next]_vars
    PROVE  NoOrphans'
  <1>1. ASSUME NEW t \in Txs, Moves(t) \/ Rollback(t)
        PROVE  NoOrphans'
    <2>1. UNCHANGED <<asset, match>>
      BY <1>1, MovesLocal DEF Rollback
    <2> QED
      BY <2>1 DEF NoOrphans, Live
  <1>2. ASSUME NEW t \in Txs, Commit(t), NEW p \in Pairs, match'[p] # NoRow
        PROVE  p[1] \in Live'
    <2>0. p[1] \in AssetIds
      BY DEF Pairs
    <2>1. match'[p] = IF tx[t].ins[p] # NoRow THEN tx[t].ins[p]
                      ELSE IF p \in Gone(t) THEN NoRow ELSE match[p]
      BY <1>2 DEF Commit, Gone
    <2>2. ForeignKey(t) /\ Shape(tx[t])
      BY DEF Structure
    <2>3. CASE tx[t].ins[p] # NoRow
      <3>1. p \in Inserted(t)
        BY <2>3 DEF Inserted
      <3>2. tx[t].kind # "delete"
        BY <2>2, <2>3 DEF Shape, ShapeDelete, NoPlan
      <3>3. Refers(t, p) /\ asset[p[1]] # Deleted
        BY <2>2, <3>1 DEF ForeignKey
      <3>4. asset'[p[1]] \in AssetData
        BY <1>2, <2>0, <3>2, <3>3, CommitAsset DEF Refers, Editing, TypeOK
      <3> QED
        BY <2>0, <3>4 DEF Live
    <2>4. CASE tx[t].ins[p] = NoRow
      <3>1. p \notin Gone(t) /\ match[p] # NoRow
        BY <1>2, <2>1, <2>4
      <3>2. asset[p[1]] \in AssetData
        BY <3>1 DEF NoOrphans, Live
      <3>3. tx[t].kind = "delete" => tx[t].asset # p[1]
        BY <3>1 DEF Gone, OfAsset, Pairs
      <3>4. asset'[p[1]] \in AssetData
        BY <1>2, <2>0, <3>2, <3>3, CommitAsset
      <3> QED
        BY <2>0, <3>4 DEF Live
    <2> QED
      BY <2>3, <2>4
  <1>3. CASE UNCHANGED vars
    BY <1>3 DEF vars, NoOrphans, Live
  <1> QED
    BY <1>1, <1>2, <1>3
    DEF Next, Statement, Moves, StatementFails, SessionDies, NoOrphans

\* With no sessions and no rows, all of this holds.
LEMMA StructureInit ==
    ASSUME Init
    PROVE  TypeOK /\ Structure /\ NoOrphans
  <1>1. \A t \in Txs : tx[t] = Idle
    BY DEF Init
  <1>2. TypeOK
    <2>1. NoPlan \in [Pairs -> Rows]
      BY DEF NoPlan, Rows
    <2>2. tx \in [Txs -> Transaction]
      BY IdleShape DEF Init, Shape
    <2>3. changes \in 0 .. MaxChanges /\ faults \in 0 .. MaxFaults
      BY ConstantsAssumption DEF Init
    <2> QED
      BY <2>1, <2>2, <2>3 DEF Init, TypeOK
  <1>3. Structure
    <2> SUFFICES ASSUME NEW t \in Txs
                 PROVE  Shape(tx[t]) /\ KeyOf(t) /\ RowLock(t) /\ ForeignKey(t)
      BY DEF Structure
    <2>1. Planned(t) = {} /\ Inserted(t) = {}
      BY <1>1 DEF Idle, NoPlan, Planned, Inserted
    <2> QED
      BY <1>1, <2>1, IdleShape DEF KeyOf, RowLock, ForeignKey, Idle
  <1>4. NoOrphans
    BY DEF Init, NoOrphans, NoPlan
  <1> QED
    BY <1>2, <1>3, <1>4

\* Sessions and rows have their types.
THEOREM TypeCorrect == Spec => []TypeOK
  <1>1. TypeOK /\ Structure /\ [Next]_vars => (TypeOK /\ Structure)'
    BY TypeStep, StructureStep
  <1>2. Init => TypeOK /\ Structure
    BY StructureInit
  <1> QED
    BY <1>1, <1>2, PTL DEF Spec

\* No match row outlives its asset, whoever deletes, edits, recomputes, fails
\* or dies at the same time: the inserted rows of every open transaction refer
\* to assets that no one is deleting (ForeignKey), as RowLock and KeyOf ensure.
THEOREM NeverOrphaned == Spec => []NoOrphans
  <1>1. TypeOK /\ Structure /\ NoOrphans /\ [Next]_vars => (TypeOK /\ Structure /\ NoOrphans)'
    BY TypeStep, StructureStep, OrphanStep
  <1>2. Init => TypeOK /\ Structure /\ NoOrphans
    BY StructureInit
  <1> QED
    BY <1>1, <1>2, PTL DEF Spec

------------------------------------------------------------------------------
(* The inventory is bounded                                                 *)

\* A transaction stays what it started as.
LEMMA StatementKind ==
    ASSUME TypeOK, NEW t \in Txs, Moves(t), ~Request(t), ~BeginMaintenance(t)
    PROVE  tx'[t].kind = tx[t].kind
  <1>0. tx[t] \in Transaction
    BY DEF TypeOK
  <1>1. CASE ReadEnvironment(t)
    BY <1>0, <1>1 DEF ReadEnvironment, Step, TypeOK, Transaction
  <1>2. CASE InsertEnvironment(t)
    BY <1>0, <1>2 DEF InsertEnvironment, Step, TypeOK, Transaction
  <1>3. CASE InsertAsset(t)
    BY <1>0, <1>3 DEF InsertAsset, Step, TypeOK, Transaction
  <1>4. CASE UpdateAsset(t)
    BY <1>0, <1>4 DEF UpdateAsset, Step, TypeOK, Transaction
  <1>5. CASE FindMatches(t)
    BY <1>0, <1>5 DEF FindMatches, Step, TypeOK, Transaction
  <1>6. CASE DeleteMatches(t)
    BY <1>0, <1>6 DEF DeleteMatches, Step, TypeOK, Transaction
  <1>7. CASE ReadCandidates(t)
    BY <1>0, <1>7 DEF ReadCandidates, Step, TypeOK, Transaction
  <1>8. CASE MatchAsset(t)
    BY <1>0, <1>8 DEF MatchAsset, Step, TypeOK, Transaction
  <1>9. CASE InsertMatches(t)
    BY <1>0, <1>9 DEF InsertMatches, Step, TypeOK, Transaction
  <1>10. CASE RemoveAsset(t)
    BY <1>0, <1>10 DEF RemoveAsset, Step, TypeOK, Transaction
  <1>11. CASE RecomputeMany(t)
    BY <1>0, <1>11 DEF RecomputeMany, Step, TypeOK, Transaction
  <1>12. CASE RecomputeCve(t)
    BY <1>0, <1>12, RecomputeCveEffect DEF Transaction
  <1>13. ASSUME NEW c \in Cves, NEW d \in CveData, ApplyCve(t, c, d)
         PROVE  tx'[t].kind = tx[t].kind
    BY <1>0, <1>13 DEF ApplyCve, Step, TypeOK, Transaction
  <1> QED
    BY <1>1, <1>2, <1>3, <1>4, <1>5, <1>6, <1>7, <1>8, <1>9, <1>10, <1>11,
       <1>12,
       <1>13 DEF Moves

\* Fewer creations and no more assets keep the count.
LEMMA FewerCounted ==
    ASSUME CountInv, NEW L, NEW C, L \subseteq Live, C \subseteq Creating
    PROVE  Cardinality(L) + Cardinality(C) <= MaxAssets - 1 + Cardinality(Txs)
  <1>1. IsFiniteSet(Live) /\ IsFiniteSet(Creating)
    BY ConstantsAssumption, FS_Subset DEF Live, Creating
  <1>2. Cardinality(L) <= Cardinality(Live) /\ Cardinality(C) <= Cardinality(Creating)
    BY <1>1, FS_Subset
  <1>3. /\ Cardinality(Live) \in Nat /\ Cardinality(Creating) \in Nat
        /\ Cardinality(L) \in Nat /\ Cardinality(C) \in Nat
        /\ Cardinality(Txs) \in Nat /\ MaxAssets \in Nat
    BY <1>1, ConstantsAssumption, FS_Subset, FS_CardinalityType
  <1> QED
    BY <1>2, <1>3 DEF CountInv

\* A creation is counted while it is open, then its asset is.
LEMMA CountStep ==
    ASSUME TypeOK, Structure, CountInv, [Next]_vars
    PROVE  CountInv'
  <1>0. IsFiniteSet(Live) /\ IsFiniteSet(Creating) /\ IsFiniteSet(Txs)
    BY ConstantsAssumption, FS_Subset DEF Live, Creating
  <1>1. ASSUME NEW t \in Txs, Moves(t), NEW d \in AssetData, BeginCreate(t, d)
        PROVE  CountInv'
    <2>1. Live' = Live /\ Cardinality(Live) < MaxAssets
      BY <1>1 DEF BeginCreate, Begin, Live
    <2>2. Creating' \subseteq Txs
      BY DEF Creating
    <2>3. Cardinality(Creating') <= Cardinality(Txs)
      BY <1>0, <2>2, FS_Subset
    <2>4. /\ Cardinality(Creating') \in Nat /\ Cardinality(Txs) \in Nat
          /\ Cardinality(Live) \in Nat /\ MaxAssets \in Nat
      BY <1>0, <2>2, FS_Subset, FS_CardinalityType, ConstantsAssumption
    <2> QED
      BY <2>1, <2>3, <2>4 DEF CountInv
  <1>2. ASSUME NEW t \in Txs, Moves(t), \A d \in AssetData : ~BeginCreate(t, d)
        PROVE  CountInv'
    <2>1. tx' = [tx EXCEPT ![t] = tx'[t]] /\ asset' = asset
      BY <1>2, MovesLocal
    <2>2. tx'[t].kind = "create" => tx[t].kind = "create"
      <3>1. CASE BeginVisit(t)
        BY <3>1 DEF BeginVisit, Begin, Idle, TypeOK
      <3>2. CASE \E a \in AssetIds : BeginDelete(t, a)
        BY <3>2 DEF BeginDelete, Begin, Idle, TypeOK
      <3>3. CASE \E a \in AssetIds, d \in AssetData : BeginUpdate(t, a, d)
        BY <3>3 DEF BeginUpdate, Begin, Idle, TypeOK
      <3>4. CASE BeginIngest(t)
        BY <3>4 DEF BeginIngest, Begin, Idle, TypeOK
      <3>5. CASE BeginMaintenance(t)
        BY <3>5 DEF BeginMaintenance, Begin, Idle, TypeOK
      <3> QED
        BY <1>2, <3>1, <3>2, <3>3, <3>4, <3>5, StatementKind DEF Request
    <2>3. Live' = Live /\ Creating' \subseteq Creating
      BY <2>1, <2>2 DEF Live, Creating, TypeOK
    <2> QED
      BY <2>3, FewerCounted DEF CountInv
  <1>3. ASSUME NEW t \in Txs, Rollback(t)
        PROVE  CountInv'
    <2>1. Live' = Live /\ Creating' \subseteq Creating
      BY <1>3 DEF Rollback, Live, Creating, TypeOK, Idle
    <2> QED
      BY <2>1, FewerCounted DEF CountInv
  <1>4. ASSUME NEW t \in Txs, Commit(t)
        PROVE  CountInv'
    <2>1. Creating' \subseteq Creating \ {t}
      BY <1>4, CommitOther DEF Creating, Idle
    <2>2. CASE tx[t].kind # "create"
      <3>1. tx[t].kind = "update" => asset[tx[t].asset] \in AssetData
        <4>1. tx[t].kind = "update" => tx[t].holds
          BY <1>4, CommitScope DEF Editing
        <4> QED
          BY <4>1 DEF Structure, RowLock
      <3>2. \A a \in AssetIds : asset'[a] \in AssetData => asset[a] \in AssetData
        BY <1>4, <2>2, <3>1, CommitAsset, ConstantsAssumption DEF Editing
      <3>3. Live' \subseteq Live
        BY <3>2 DEF Live
      <3>4. Creating' \subseteq Creating
        BY <2>1
      <3> QED
        BY <3>3, <3>4, FewerCounted DEF CountInv
    <2>3. CASE tx[t].kind = "create"
      <3>1. t \in Creating
        BY <2>3 DEF Creating
      <3>2. Cardinality(Creating \ {t}) = Cardinality(Creating) - 1
        BY <1>0, <3>1, FS_RemoveElement
      <3>3. Live' \subseteq Live \cup {tx[t].asset}
        BY <1>4, <2>3, CommitAsset DEF Live
      <3>4. Cardinality(Live \cup {tx[t].asset}) <= Cardinality(Live) + 1
            /\ IsFiniteSet(Live \cup {tx[t].asset})
        <4> DEFINE a == tx[t].asset
        <4>1. /\ IsFiniteSet(Live \cup {a})
              /\ Cardinality(Live \cup {a}) =
                   IF a \in Live THEN Cardinality(Live) ELSE Cardinality(Live) + 1
          <5> HIDE DEF a
          <5> QED
            BY <1>0, FS_AddElement
        <4>2. Cardinality(Live) \in Nat
          BY <1>0, FS_CardinalityType
        <4> QED
          BY <4>1, <4>2
      <3>5. Cardinality(Live') <= Cardinality(Live \cup {tx[t].asset})
            /\ IsFiniteSet(Live')
        BY <3>3, <3>4, FS_Subset
      <3>6. IsFiniteSet(Creating \ {t}) /\ IsFiniteSet(Creating')
            /\ Cardinality(Creating') <= Cardinality(Creating \ {t})
        BY <1>0, <2>1, FS_Subset
      <3>7. /\ Cardinality(Live') \in Nat /\ Cardinality(Creating') \in Nat
            /\ Cardinality(Live) \in Nat /\ Cardinality(Creating) \in Nat
            /\ Cardinality(Live \cup {tx[t].asset}) \in Nat
            /\ Cardinality(Txs) \in Nat /\ MaxAssets \in Nat
        BY <1>0, <3>4, <3>5, <3>6, FS_CardinalityType, ConstantsAssumption
      <3> QED
        BY <3>2, <3>4, <3>5, <3>6, <3>7 DEF CountInv
    <2> QED
      BY <2>2, <2>3
  <1>5. CASE UNCHANGED vars
    <2>1. Live' = Live /\ Creating' = Creating
      BY <1>5 DEF vars, Live, Creating
    <2> QED
      BY <2>1 DEF CountInv
  <1> QED
    BY <1>1, <1>2, <1>3, <1>4, <1>5
    DEF Next, Statement, Moves, StatementFails, SessionDies

\* MAX_ASSETS bounds the inventory up to the requests that were past the count
\* together: each of them is still to add at most one asset.
THEOREM InventoryStaysBounded == Spec => []InventoryBounded
  <1>1. Init => TypeOK /\ Structure /\ CountInv
    <2> SUFFICES ASSUME Init
                 PROVE  CountInv
      BY StructureInit
    <2>1. Live = {} /\ Creating = {}
      BY ConstantsAssumption DEF Init, Live, Creating, Idle
    <2>2. Cardinality(Live) = 0 /\ Cardinality(Creating) = 0 /\ Cardinality(Txs) \in Nat
      BY <2>1, FS_EmptySet, FS_CardinalityType, ConstantsAssumption
    <2> QED
      BY <2>2, ConstantsAssumption DEF CountInv
  <1>2. TypeOK /\ Structure /\ CountInv /\ [Next]_vars => (TypeOK /\ Structure /\ CountInv)'
    BY TypeStep, StructureStep, CountStep
  <1>3. CountInv => InventoryBounded
    <2>1. IsFiniteSet(Live) /\ IsFiniteSet(Creating)
      BY ConstantsAssumption, FS_Subset DEF Live, Creating
    <2>2. /\ Cardinality(Live) \in Nat /\ Cardinality(Creating) \in Nat
          /\ Cardinality(Txs) \in Nat /\ MaxAssets \in Nat
      BY <2>1, FS_CardinalityType, ConstantsAssumption
    <2> QED
      BY <2>2 DEF CountInv, InventoryBounded
  <1> QED
    BY <1>1, <1>2, <1>3, PTL DEF Spec

------------------------------------------------------------------------------
(* A verdict is stale only after a race                                     *)

AllAccurate == \A t \in Txs : Accurate(t)

AccurateAt(t, p) ==
    /\ tx[t].kind \in Editing => EditAccurate(t, p)
    /\ tx[t].kind \in Recomputing => RecomputeAccurate(t, p)

\* While one session moves, what the others know stays true.
LEMMA OthersAccurate ==
    ASSUME TypeOK, AllAccurate, NEW t \in Txs, NEW u \in Txs, tx'[u] = tx[u],
           UNCHANGED <<asset, cve, match>>
    PROVE  Accurate(u)'
  <1>1. Accurate(u)
    BY DEF AllAccurate
  <1>2. Live' = Live /\ Scope(u)' = Scope(u) /\ \A c \in Cves : View(u, c)' = View(u, c)
    BY DEF Live, Scope, View
  <1>3. \A p \in Pairs : Wanted(u, p)' = Wanted(u, p) /\ Seen(u, p)' = Seen(u, p)
    BY <1>2 DEF Wanted, Seen, Pairs
  <1>4. ASSUME NEW p \in Pairs, EditAccurate(u, p)
        PROVE  EditAccurate(u, p)'
    BY <1>3, <1>4 DEF EditAccurate, Covered
  <1>5. ASSUME NEW p \in Pairs, RecomputeAccurate(u, p)
        PROVE  RecomputeAccurate(u, p)'
    BY <1>3, <1>5 DEF RecomputeAccurate, Covered
  <1> QED
    BY <1>1, <1>2, <1>4, <1>5 DEF Accurate

\* What a session knows when it starts.
LEMMA BeginAccurate ==
    ASSUME TypeOK, NEW t \in Txs, Request(t) \/ BeginMaintenance(t)
    PROVE  Accurate(t)'
  <1> DEFINE y == tx'[t]
  <1>1. CASE BeginVisit(t)
    <2>1. y.kind = "visit"
      BY <1>1 DEF BeginVisit, Begin, Idle, TypeOK
    <2> QED
      BY <2>1 DEF Accurate, Editing, Recomputing
  <1>2. CASE \E d \in AssetData : BeginCreate(t, d)
    <2>1. y.kind = "create" /\ y.asset = NoAsset
      BY <1>2 DEF BeginCreate, Begin, Idle, TypeOK
    <2>2. \A p \in Pairs : p \notin Scope(t)'
      BY <2>1, ConstantsAssumption DEF Scope, Pairs
    <2> QED
      BY <2>2 DEF Accurate
  <1>3. CASE \E a \in AssetIds : BeginDelete(t, a)
    <2>1. y.kind = "delete"
      BY <1>3 DEF BeginDelete, Begin, Idle, TypeOK
    <2> QED
      BY <2>1 DEF Accurate, Editing, Recomputing
  <1>4. CASE \E a \in AssetIds, d \in AssetData : BeginUpdate(t, a, d)
    <2>1. y.kind = "update" /\ y.pc = "write" /\ asset'[y.asset] = y.loaded
      BY <1>4 DEF BeginUpdate, Begin, Idle, TypeOK
    <2> QED
      BY <2>1 DEF Accurate, EditAccurate, Recomputing, Computing
  <1>5. CASE BeginIngest(t)
    <2>1. y.kind = "ingest" /\ y.touched = {}
      BY <1>5 DEF BeginIngest, Begin, Idle, TypeOK
    <2> QED
      BY <2>1 DEF Accurate, Scope
  <1>6. CASE BeginMaintenance(t)
    <2>1. y.kind = "maintain" /\ y.touched = y.todo /\ y.cve = NoCve
      BY <1>6 DEF BeginMaintenance, Begin, Idle, TypeOK
    <2>2. \A p \in Pairs : p \in Scope(t)' => p[2] \in y.todo /\ p[2] # y.cve
      BY <2>1, ConstantsAssumption DEF Scope, Pairs
    <2> QED
      BY <2>1, <2>2 DEF Accurate, RecomputeAccurate, Editing
  <1> QED
    BY <1>1, <1>2, <1>3, <1>4, <1>5, <1>6 DEF Request

\* Each statement of a request leaves it knowing the verdicts it will write.
LEMMA EditingAccurate ==
    ASSUME TypeOK, Structure, NEW t \in Txs, Accurate(t), tx[t].kind \in Editing,
           Moves(t), ~Request(t), ~BeginMaintenance(t)
    PROVE  Accurate(t)'
  <1> DEFINE x == tx[t]
             y == tx'[t]
  <1>1. x \in Transaction /\ Shape(x) /\ y \in Transaction /\ Shape(y)
    BY StatementShape DEF Structure, Shape
  <1>2. UNCHANGED <<asset, cve, match>>
    BY MovesLocal
  <1>3. y.kind = x.kind
    BY StatementKind
  <1>4. x.kind \notin Recomputing
    BY DEF Editing, Recomputing
  <1> SUFFICES ASSUME NEW p \in Pairs, p \in Scope(t)', p \notin y.clash
               PROVE  EditAccurate(t, p)'
    BY <1>3, <1>4 DEF Accurate
  <1>5. p = <<y.asset, p[2]>> /\ p[2] \in Cves /\ y.asset \in AssetIds
    BY <1>3 DEF Scope, Editing, Pairs
  <1>6. y.asset = x.asset /\ y.clash = x.clash => EditAccurate(t, p)
    BY <1>3 DEF Accurate, Scope, Editing
  <1>7. y.data \in AssetData
    BY <1>1, <1>3 DEF Shape, ShapeCreate, ShapeUpdate, Editing
  <1>8. Verdict[<<y.data, cve[p[2]]>>] = NoRow \/ <<y.data, cve[p[2]]>> \in Candidate
    BY <1>5, <1>7, PrefilterComplete DEF TypeOK
  <1>10. CASE ReadEnvironment(t)
    <2>1. x.pc \in Opening /\ y.asset = x.asset
      BY <1>1, <1>10
      DEF ReadEnvironment, Ready, Step, TypeOK, Transaction, Opening
    <2> QED
      BY <1>1, <1>5, <2>1, ConstantsAssumption
      DEF Shape, ShapeCreate, ShapeUpdate, Opening, Editing, Clearing, Computing
  <1>11. CASE InsertEnvironment(t)
    <2>1. x.pc \in Opening /\ y.asset = x.asset
      BY <1>1, <1>11
      DEF InsertEnvironment, Ready, Step, TypeOK, Transaction, Opening
    <2> QED
      BY <1>1, <1>5, <2>1, ConstantsAssumption
      DEF Shape, ShapeCreate, ShapeUpdate, Opening, Editing, Clearing, Computing
  <1>12. CASE InsertAsset(t)
    <2>1. y.kind = "create" /\ y.pc = "clear"
      BY <1>1, <1>3, <1>12 DEF InsertAsset, Ready, Step, TypeOK, Transaction
    <2> QED
      BY <2>1 DEF EditAccurate, Computing
  <1>13. CASE UpdateAsset(t)
    <2>1. /\ y.pc = "clear" /\ y.asset = x.asset /\ y.clash = x.clash
          /\ y.loaded = x.loaded
      BY <1>1, <1>13 DEF UpdateAsset, Ready, Step, TypeOK, Transaction
    <2> QED
      BY <1>2, <1>3, <1>6, <2>1 DEF EditAccurate, Computing
  <1>14. CASE FindMatches(t)
    <2>1. x.cve = NoCve
      BY <1>1, <1>4 DEF Shape
    <2>2. /\ y.pc = "clearing" /\ y.asset = x.asset /\ y.clash = x.clash
          /\ y.loaded = x.loaded
          /\ y.waiting = {q \in OfAsset(x.asset) : match[q] # NoRow}
      BY <1>1, <1>14, <2>1 DEF FindMatches, Step, TypeOK, Transaction
    <2>3. p \in OfAsset(x.asset)
      BY <1>5, <2>2 DEF OfAsset
    <2> QED
      BY <1>2, <1>3, <1>6, <2>2, <2>3 DEF EditAccurate, Computing, Covered
  <1>15. CASE DeleteMatches(t)
    <2>1. /\ x.pc = "clearing" /\ y.pc = "candidates" /\ y.asset = x.asset
          /\ y.clash = x.clash /\ y.loaded = x.loaded
          /\ y.del = x.del \cup x.waiting
      BY <1>1, <1>15
      DEF DeleteMatches, Ready, Step, TypeOK, Transaction, Editing
    <2> QED
      BY <1>2, <1>3, <1>6, <2>1 DEF EditAccurate, Computing, Covered
  <1>16. CASE ReadCandidates(t)
    <2> DEFINE found == {c \in Cves : <<x.data, cve[c]>> \in Candidate}
    <2>1. /\ x.pc = "candidates" /\ y.asset = x.asset /\ y.clash = x.clash
          /\ y.loaded = x.loaded /\ y.data = x.data /\ y.del = x.del /\ y.todo = found
          /\ y.plan = x.plan /\ y.ins = x.ins
          /\ y.pc = IF found = {} THEN "commit" ELSE "read"
      BY <1>1, <1>16 DEF ReadCandidates, Ready, Step, TypeOK, Transaction
    <2>2. x.plan[p] = NoRow /\ x.ins[p] = NoRow
      BY <1>1, <2>1 DEF Shape, ShapeEditing, NoPlan
    <2>3. p[2] \in found \/ Wanted(t, p)' = NoRow
      BY <1>2, <1>5, <1>8, <2>1 DEF Wanted
    <2> QED
      BY <1>2, <1>3, <1>6, <2>1, <2>2, <2>3 DEF EditAccurate, Computing, Covered
  <1>17. CASE MatchAsset(t)
    <2>1. PICK c \in x.todo :
            y = [x EXCEPT !.plan[<<x.asset, c>>] = Verdict[<<x.data, cve[c]>>],
                          !.todo = @ \ {c},
                          !.pc = IF x.todo = {c} THEN "insert" ELSE "read"]
      BY <1>17 DEF MatchAsset, Step, TypeOK
    <2>2. /\ y.asset = x.asset /\ y.clash = x.clash
          /\ y.loaded = x.loaded /\ y.data = x.data /\ y.del = x.del
          /\ y.todo = x.todo \ {c}
          /\ y.plan = [x.plan EXCEPT ![<<x.asset, c>>] = Verdict[<<x.data, cve[c]>>]]
          /\ y.pc = IF x.todo = {c} THEN "insert" ELSE "read"
      BY <1>1, <2>1 DEF Transaction
    <2>3. x.pc = "read"
      BY <1>17 DEF MatchAsset, Ready
    <2>4. Wanted(t, p)' = Wanted(t, p)
      BY <1>2, <2>2 DEF Wanted
    <2>5. p[2] = c => y.plan[p] = Wanted(t, p)
      BY <1>1, <1>5, <2>2 DEF Wanted, Transaction
    <2>6. p[2] # c => y.plan[p] = x.plan[p]
      BY <1>1, <1>5, <2>2 DEF Transaction
    <2> QED
      BY <1>2, <1>3, <1>6, <2>2, <2>3, <2>4, <2>5, <2>6
      DEF EditAccurate, Computing, Covered
  <1>18. CASE InsertMatches(t)
    <2>1. /\ x.pc = "insert" /\ y.asset = x.asset /\ y.clash = x.clash
          /\ y.loaded = x.loaded /\ y.data = x.data /\ y.del = x.del
          /\ y.ins = [q \in Pairs |-> IF x.plan[q] # NoRow THEN x.plan[q] ELSE x.ins[q]]
          /\ y.pc = IF x.todo # {} THEN "recompute" ELSE "commit"
      BY <1>1, <1>18 DEF InsertMatches, Ready, Step, TypeOK, Transaction
    <2>2. x.todo = {} /\ x.ins[p] = NoRow
      BY <1>1, <2>1 DEF Shape, ShapeEditing, NoPlan
    <2>3. y.ins[p] = x.plan[p]
      BY <2>1, <2>2
    <2>4. Wanted(t, p)' = Wanted(t, p)
      BY <1>2, <2>1 DEF Wanted
    <2> QED
      BY <1>2, <1>3, <1>6, <2>1, <2>2, <2>3, <2>4
      DEF EditAccurate, Computing, Covered
  <1>19. CASE \/ RemoveAsset(t) \/ RecomputeMany(t) \/ RecomputeCve(t)
              \/ \E c \in Cves, d \in CveData : ApplyCve(t, c, d)
    <2>1. x.pc \in {"remove", "apply", "recompute"}
      BY <1>19 DEF RemoveAsset, RecomputeMany, RecomputeCve, ApplyCve, Ready
    <2> QED
      BY <1>1, <2>1
      DEF Shape, ShapeCreate, ShapeUpdate, Editing, Opening, Clearing, Computing
  <1> QED
    BY <1>10, <1>11, <1>12, <1>13, <1>14, <1>15, <1>16, <1>17, <1>18, <1>19
    DEF Moves

\* Each statement of a run or of a maintenance pass keeps the verdicts of the
\* CVEs it is done with, and computes those of the next from what it sees.
LEMMA RecomputingAccurate ==
    ASSUME TypeOK, Structure, NoOrphans, NEW t \in Txs, Accurate(t),
           tx[t].kind \in Recomputing, Moves(t), ~Request(t), ~BeginMaintenance(t)
    PROVE  Accurate(t)'
  <1> DEFINE x == tx[t]
             y == tx'[t]
  <1>1. x \in Transaction /\ Shape(x) /\ y \in Transaction /\ Shape(y)
    BY StatementShape DEF Structure, Shape
  <1>2. UNCHANGED <<asset, cve, match>>
    BY MovesLocal
  <1>3. y.kind = x.kind
    BY StatementKind
  <1>4. x.kind \notin Editing
    BY DEF Editing, Recomputing
  <1> SUFFICES ASSUME NEW p \in Pairs, p \in Scope(t)', p \notin y.clash
               PROVE  RecomputeAccurate(t, p)'
    BY <1>3, <1>4 DEF Accurate
  <1>5. p[1] \in AssetIds /\ p[2] \in Cves /\ p[2] \in y.touched /\ p[2] # NoCve
    BY <1>3, ConstantsAssumption DEF Scope, Recomputing, Pairs
  <1>6. y.touched = x.touched /\ y.clash = x.clash => RecomputeAccurate(t, p)
    BY <1>3 DEF Accurate, Scope, Recomputing
  <1>7. y.write = x.write => Seen(t, p)' = Seen(t, p)
    BY <1>2 DEF Seen, View, Live
  <1>10. CASE FindMatches(t)
    <2>1. x.pc = "clear"
      BY <1>10 DEF FindMatches, Ready
    <2>2. x.cve # NoCve
      BY <1>1, <2>1 DEF Shape, ShapeRecomputing, Clearing
    <2>3. /\ y.pc = "clearing" /\ y.touched = x.touched /\ y.clash = x.clash
          /\ y.write = x.write /\ y.todo = x.todo /\ y.cve = x.cve /\ y.plan = x.plan
          /\ y.ins = x.ins /\ y.del = x.del
          /\ y.waiting = {q \in OfCve(x.cve) : match[q] # NoRow}
      BY <1>1, <1>10, <2>2 DEF FindMatches, Step, TypeOK, Transaction
    <2>4. p[2] = x.cve => p \in OfCve(x.cve)
      BY DEF OfCve, Pairs
    <2> QED
      BY <1>2, <1>6, <1>7, <2>1, <2>3, <2>4 DEF RecomputeAccurate, Covered
  <1>11. CASE DeleteMatches(t)
    <2>1. /\ x.pc = "clearing" /\ y.pc = "insert" /\ y.touched = x.touched
          /\ y.clash = x.clash
          /\ y.write = x.write /\ y.todo = x.todo /\ y.cve = x.cve /\ y.plan = x.plan
          /\ y.ins = x.ins /\ y.del = x.del \cup x.waiting
      BY <1>1, <1>11
      DEF DeleteMatches, Ready, Step, TypeOK, Transaction, Recomputing
    <2> QED
      BY <1>2, <1>6, <1>7, <2>1 DEF RecomputeAccurate, Covered
  <1>12. CASE InsertMatches(t)
    <2>1. /\ x.pc = "insert" /\ y.touched = x.touched /\ y.clash = x.clash
          /\ y.write = x.write /\ y.todo = x.todo /\ y.cve = NoCve
          /\ y.del = x.del
          /\ y.ins = [q \in Pairs |-> IF x.plan[q] # NoRow THEN x.plan[q] ELSE x.ins[q]]
      BY <1>1, <1>12 DEF InsertMatches, Ready, Step, TypeOK, Transaction
    <2>2. p[2] = x.cve => x.ins[p] = NoRow
      BY <1>1 DEF Shape, ShapeRecomputing
    <2>3. p[2] # x.cve => x.plan[p] = NoRow
      BY <1>1 DEF Shape, ShapeRecomputing
    <2>4. y.ins[p] = IF p[2] = x.cve THEN x.plan[p] ELSE x.ins[p]
      BY <2>1, <2>2, <2>3
    <2> QED
      BY <1>2, <1>5, <1>6, <1>7, <2>1, <2>4 DEF RecomputeAccurate, Covered
  <1>13. CASE RecomputeMany(t)
    <2>1. y.todo = x.touched /\ y.touched = x.touched /\ y.cve = x.cve /\ x.pc = "apply"
      BY <1>1, <1>13 DEF RecomputeMany, Ready, Step, TypeOK, Transaction
    <2>2. x.cve = NoCve
      BY <1>1, <2>1 DEF Shape, ShapeRecomputing, Clearing
    <2> QED
      BY <1>5, <2>1, <2>2 DEF RecomputeAccurate
  <1>14. CASE RecomputeCve(t)
    <2>1. PICK c \in x.todo :
            \/ /\ y = [x EXCEPT !.todo = x.todo \ {c},
                         !.pc = IF x.todo \ {c} = {} THEN "commit" ELSE "recompute"]
               /\ Live = {}
            \/ y = [x EXCEPT !.todo = x.todo \ {c}, !.pc = "clear", !.cve = c,
                             !.plan = Verdicts(t, c)]
      BY <1>14, RecomputeCveEffect
    <2>2. x.pc = "recompute" /\ x.cve = NoCve
      BY <1>1, <1>14 DEF RecomputeCve, Ready, Shape, ShapeRecomputing, Clearing
    <2>3. /\ y.touched = x.touched /\ y.clash = x.clash /\ y.write = x.write
          /\ y.todo = x.todo \ {c} /\ y.ins = x.ins /\ y.del = x.del
          /\ \/ y.cve = x.cve /\ Live = {}
             \/ y.cve = c /\ y.pc = "clear" /\ y.plan = Verdicts(t, c)
      BY <1>1, <2>1 DEF Transaction
    <2>4. p[2] # c /\ p[2] \notin y.todo => p[2] \notin x.todo
      BY <2>3
    <2>5. CASE p[2] # c
      BY <1>2, <1>5, <1>6, <1>7, <2>2, <2>3, <2>4, <2>5
      DEF RecomputeAccurate, Covered
    <2>6. CASE p[2] = c /\ y.cve = x.cve /\ Live = {}
      <3>1. x.ins[p] = NoRow
        BY <1>1, <2>6 DEF Shape, ShapeRecomputing
      <3>2. Seen(t, p) = NoRow /\ match[p] = NoRow
        BY <2>6 DEF Seen, NoOrphans
      <3> QED
        BY <1>2, <1>5, <1>7, <2>2, <2>3, <2>6, <3>1, <3>2
        DEF RecomputeAccurate, Covered
    <2>7. CASE p[2] = c /\ y.cve = c /\ y.pc = "clear" /\ y.plan = Verdicts(t, c)
      <3>1. y.plan[p] = Seen(t, p)
        BY <2>7 DEF Seen, Verdicts
      <3> QED
        BY <1>7, <2>3, <2>7, <3>1 DEF RecomputeAccurate
    <2> QED
      BY <2>3, <2>5, <2>6, <2>7
  <1>15. ASSUME NEW c \in Cves, NEW d \in CveData, ApplyCve(t, c, d)
         PROVE  RecomputeAccurate(t, p)'
    <2>1. y.pc = x.pc /\ x.pc = "apply" /\ y.cve = x.cve
      BY <1>1, <1>15 DEF ApplyCve, Ready, Step, TypeOK, Transaction
    <2>2. x.cve = NoCve
      BY <1>1, <2>1 DEF Shape, ShapeRecomputing, Clearing
    <2> QED
      BY <1>5, <2>1, <2>2 DEF RecomputeAccurate
  <1>16. CASE \/ ReadEnvironment(t) \/ InsertEnvironment(t) \/ InsertAsset(t)
              \/ UpdateAsset(t) \/ ReadCandidates(t) \/ MatchAsset(t) \/ RemoveAsset(t)
    <2>1. x.pc \in {"environment", "insertEnv", "write", "candidates", "read", "remove"}
      BY <1>16 DEF ReadEnvironment, InsertEnvironment, InsertAsset, UpdateAsset,
         ReadCandidates, MatchAsset, RemoveAsset, Ready
    <2> QED
      BY <1>1, <2>1 DEF Shape, ShapeRecomputing, Clearing
  <1> QED
    BY <1>10, <1>11, <1>12, <1>13, <1>14, <1>15, <1>16 DEF Moves

\* A request knows its data to be what its asset's row becomes.
LEMMA MergedAccurate ==
    ASSUME NEW t \in Txs, tx[t].data \in AssetData, tx[t].loaded \in AssetData,
           asset[tx[t].asset] = tx[t].loaded
    PROVE  Merged(t) = tx[t].data
  BY DEF Merged, AssetData

\* Outside its scope, a commit changes nothing.
LEMMA CommitOutside ==
    ASSUME TypeOK, Structure, NEW t \in Txs, Commit(t), NEW p \in Pairs, p \notin Scope(t)
    PROVE  /\ asset'[p[1]] = asset[p[1]] /\ cve'[p[2]] = cve[p[2]]
           /\ match'[p] = match[p]
           /\ p[1] \in Live' <=> p[1] \in Live
           /\ p \notin Gone(t)
  <1>0. p[1] \in AssetIds /\ p[2] \in Cves /\ p = <<p[1], p[2]>>
    BY DEF Pairs
  <1>1. tx[t].ins[p] = NoRow /\ p \notin Gone(t)
    BY CommitScope DEF Inserted
  <1>2. match'[p] = match[p]
    BY <1>1 DEF Commit, Gone
  <1>3. tx[t].kind \in Editing \cup {"delete"} => p[1] # tx[t].asset
    BY <1>0 DEF Scope, Editing
  <1>4. asset'[p[1]] = asset[p[1]]
    BY <1>0, <1>3, CommitAsset
  <1>5. cve'[p[2]] = cve[p[2]]
    <2>1. tx[t].write[p[2]] # NoData => tx[t].kind \in Recomputing /\ p[2] \in tx[t].touched
      BY <1>0 DEF Structure, Shape
    <2>2. tx[t].write[p[2]] = NoData
      BY <1>0, <2>1 DEF Scope, Recomputing
    <2> QED
      BY <1>0, <2>2 DEF Commit, View
  <1> QED
    BY <1>0, <1>1, <1>2, <1>4, <1>5 DEF Live

\* What others know of the pairs outside its scope stays true.
LEMMA CommitAccurate ==
    ASSUME TypeOK, Structure, AllAccurate, NEW t \in Txs, Commit(t), NEW u \in Txs
    PROVE  Accurate(u)'
  <1> DEFINE x == tx[u]
             y == tx'[u]
  <1>1. CASE u = t \/ x.pc = "idle"
    <2>1. y.kind = "none"
      <3>1. CASE u = t
        BY <3>1, CommitOther DEF Idle
      <3>2. CASE u # t /\ x.pc = "idle"
        <4>1. x = Idle
          BY <3>2 DEF Structure, Shape
        <4> QED
          BY <3>2, <4>1, CommitOther DEF Idle
      <3> QED
        BY <1>1, <3>1, <3>2
    <2> QED
      BY <2>1 DEF Accurate, Editing, Recomputing
  <1>2. CASE u # t /\ x.pc # "idle"
    <2>1. /\ y.kind = x.kind /\ y.pc = x.pc /\ y.asset = x.asset /\ y.data = x.data
          /\ y.loaded = x.loaded /\ y.write = x.write /\ y.touched = x.touched
          /\ y.todo = x.todo /\ y.cve = x.cve /\ y.plan = x.plan /\ y.ins = x.ins
          /\ y.del = x.del /\ y.waiting = x.waiting \ Gone(t)
          /\ y.clash = x.clash \cup Scope(t)
      BY <1>2, CommitOther
    <2>2. Scope(u)' = Scope(u)
      BY <2>1 DEF Scope
    <2> SUFFICES ASSUME NEW p \in Pairs, p \in Scope(u), p \notin y.clash
                 PROVE  /\ y.kind \in Editing => EditAccurate(u, p)'
                        /\ y.kind \in Recomputing => RecomputeAccurate(u, p)'
      BY <2>2 DEF Accurate
    <2>3. p \notin Scope(t) /\ p \notin x.clash
      BY <2>1
    <2>4. /\ asset'[p[1]] = asset[p[1]] /\ cve'[p[2]] = cve[p[2]]
          /\ match'[p] = match[p]
          /\ p[1] \in Live' <=> p[1] \in Live
          /\ p \notin Gone(t)
      BY <1>2, <2>3, CommitOutside
    <2>5. Accurate(u)
      BY DEF AllAccurate
    <2>6. ASSUME y.kind \in Editing
          PROVE  EditAccurate(u, p)'
      <3>1. EditAccurate(u, p) /\ p[1] = x.asset
        BY <2>1, <2>3, <2>5, <2>6 DEF Accurate, Scope, Editing
      <3>2. Wanted(u, p)' = Wanted(u, p)
        BY <2>1, <2>4 DEF Wanted
      <3> QED
        BY <2>1, <2>4, <3>1, <3>2 DEF EditAccurate, Covered
    <2>7. ASSUME y.kind \in Recomputing
          PROVE  RecomputeAccurate(u, p)'
      <3>1. RecomputeAccurate(u, p)
        BY <2>1, <2>3, <2>5, <2>7 DEF Accurate
      <3>2. Seen(u, p)' = Seen(u, p)
        BY <2>1, <2>4 DEF Seen, View
      <3> QED
        BY <2>1, <2>4, <3>1, <3>2 DEF RecomputeAccurate, Covered
    <2> QED
      BY <2>6, <2>7
  <1> QED
    BY <1>1, <1>2

\* Inside its scope, it writes the verdict of the rows it leaves, except where
\* another transaction has committed meanwhile.
LEMMA CommitRight ==
    ASSUME TypeOK, Structure, AllAccurate, NEW t \in Txs, Commit(t),
           NEW p \in Pairs, p \in Scope(t), p \notin tx[t].clash
    PROVE  match'[p] = Expected(p)'
  <1> DEFINE x == tx[t]
  <1>0. p[1] \in AssetIds /\ p[2] \in Cves /\ p = <<p[1], p[2]>>
    BY DEF Pairs
  <1>1. x.pc = "commit" /\ Shape(x) /\ Accurate(t)
    BY DEF Commit, Ready, Structure, AllAccurate
  <1>2. match'[p] = IF x.ins[p] # NoRow THEN x.ins[p]
                    ELSE IF p \in Gone(t) THEN NoRow ELSE match[p]
    BY DEF Commit, Gone
  <1>3. cve'[p[2]] = View(t, p[2])
    BY <1>0 DEF Commit
  <1>4. CASE x.kind \in Editing
    <2>1. EditAccurate(t, p) /\ p[1] = x.asset
      BY <1>1, <1>4 DEF Accurate, Scope, Editing
    <2>2. x.ins[p] = Wanted(t, p) /\ (match[p] # NoRow => p \in Gone(t))
      BY <1>1, <2>1 DEF EditAccurate, Covered, Gone
    <2>3. cve'[p[2]] = cve[p[2]]
      <3>1. x.write[p[2]] = NoData
        BY <1>0, <1>1, <1>4 DEF Shape, Editing, Recomputing
      <3> QED
        BY <1>3, <3>1 DEF View
    <2>4. asset'[p[1]] = x.data /\ x.data \in AssetData
      <3>1. CASE x.kind = "create"
        BY <1>0, <1>1, <2>1, <3>1 DEF Commit, TypeOK, Shape, ShapeCreate
      <3>2. CASE x.kind = "update"
        <4>1. x.data \in AssetData /\ x.loaded \in AssetData /\ asset[x.asset] = x.loaded
          BY <1>1, <2>1, <3>2 DEF Shape, ShapeUpdate, EditAccurate
        <4>2. Merged(t) = x.data
          BY <4>1, MergedAccurate
        <4> QED
          BY <1>0, <2>1, <3>2, <4>1, <4>2 DEF Commit, TypeOK
      <3> QED
        BY <1>4, <3>1, <3>2 DEF Editing
    <2>5. Expected(p)' = Wanted(t, p)
      BY <1>0, <2>3, <2>4 DEF Expected, Wanted, Live
    <2> QED
      BY <1>2, <2>2, <2>5
  <1>5. CASE x.kind = "delete"
    <2>1. x.ins[p] = NoRow
      BY <1>1, <1>5 DEF Shape, ShapeDelete, NoPlan
    <2>2. p \in Gone(t) /\ p[1] = x.asset
      BY <1>5 DEF Gone, OfAsset, Scope
    <2>3. asset'[p[1]] = Deleted
      BY <1>0, <1>5, <2>2 DEF Commit, TypeOK
    <2>4. p[1] \notin Live'
      BY <2>3, ConstantsAssumption DEF Live
    <2> QED
      BY <1>2, <2>1, <2>2, <2>4 DEF Expected
  <1>6. CASE x.kind \in Recomputing
    <2>1. RecomputeAccurate(t, p)
      BY <1>1, <1>6 DEF Accurate
    <2>2. x.todo = {} /\ x.cve = NoCve
      BY <1>6, CommitScope
    <2>3. x.ins[p] = Seen(t, p) /\ (match[p] # NoRow => p \in Gone(t))
      BY <1>0, <1>1, <2>1, <2>2, ConstantsAssumption
      DEF RecomputeAccurate, Covered, Gone
    <2>4. asset' = asset
      BY <1>6 DEF Commit, Recomputing
    <2>5. Expected(p)' = Seen(t, p)
      BY <1>3, <2>4 DEF Expected, Seen, Live
    <2> QED
      BY <1>2, <2>3, <2>5
  <1> QED
    BY <1>4, <1>5, <1>6 DEF Scope, Editing, Recomputing

\* Every action keeps what the sessions know right.
LEMMA AccurateStep ==
    ASSUME TypeOK, Structure, NoOrphans, AllAccurate, [Next]_vars
    PROVE  AllAccurate'
  <1>1. ASSUME NEW t \in Txs, Moves(t)
        PROVE  AllAccurate'
    <2>1. /\ UNCHANGED <<asset, cve, match>>
          /\ \A u \in Txs \ {t} : tx'[u] = tx[u]
      BY <1>1, MovesLocal DEF TypeOK
    <2>2. Accurate(t)'
      <3>1. CASE Request(t) \/ BeginMaintenance(t)
        BY <3>1, BeginAccurate
      <3>2. CASE ~Request(t) /\ ~BeginMaintenance(t)
        <4>1. Accurate(t)
          BY DEF AllAccurate
        <4>2. tx'[t].kind = tx[t].kind
          BY <1>1, <3>2, StatementKind
        <4>3. CASE tx[t].kind \in Editing
          BY <1>1, <3>2, <4>1, <4>3, EditingAccurate
        <4>4. CASE tx[t].kind \in Recomputing
          BY <1>1, <3>2, <4>1, <4>4, RecomputingAccurate
        <4>5. CASE tx[t].kind \notin Editing \cup Recomputing
          BY <4>2, <4>5 DEF Accurate
        <4> QED
          BY <4>3, <4>4, <4>5
      <3> QED
        BY <3>1, <3>2
    <2> QED
      BY <2>1, <2>2, OthersAccurate DEF AllAccurate
  <1>2. ASSUME NEW t \in Txs, Rollback(t)
        PROVE  AllAccurate'
    <2>1. /\ UNCHANGED <<asset, cve, match>> /\ tx'[t] = Idle
          /\ \A u \in Txs \ {t} : tx'[u] = tx[u]
      BY <1>2 DEF Rollback, TypeOK
    <2>2. Accurate(t)'
      BY <2>1 DEF Accurate, Idle, Editing, Recomputing
    <2> QED
      BY <2>1, <2>2, OthersAccurate DEF AllAccurate
  <1>3. CASE UNCHANGED vars
    BY <1>3, OthersAccurate DEF vars, AllAccurate
  <1> QED
    BY <1>1, <1>2, <1>3, CommitAccurate
    DEF Next, Statement, Moves, StatementFails, SessionDies, AllAccurate

\* A verdict that a commit writes is right, or the pair was raced for.
LEMMA StaleStep ==
    ASSUME TypeOK, Structure, AllAccurate, StaleOnlyAfterRace, [Next]_vars
    PROVE  StaleOnlyAfterRace'
  <1>1. ASSUME UNCHANGED <<asset, cve, match, raced>>
        PROVE  StaleOnlyAfterRace'
    BY <1>1 DEF StaleOnlyAfterRace, Expected, Live
  <1>2. ASSUME NEW t \in Txs, Commit(t)
        PROVE  StaleOnlyAfterRace'
    <2> SUFFICES ASSUME NEW p \in Pairs, p \notin raced'
                 PROVE  match'[p] = Expected(p)'
      BY DEF StaleOnlyAfterRace
    <2>1. CASE p \in Scope(t)
      <3>1. p \notin tx[t].clash
        BY <1>2, <2>1 DEF Commit
      <3> QED
        BY <1>2, <2>1, <3>1, CommitRight
    <2>2. CASE p \notin Scope(t)
      <3>1. match[p] = Expected(p)
        BY <1>2, <2>2 DEF Commit, StaleOnlyAfterRace
      <3> QED
        BY <1>2, <2>2, <3>1, CommitOutside DEF Expected
    <2> QED
      BY <2>1, <2>2
  <1>3. \/ UNCHANGED <<asset, cve, match, raced>>
        \/ \E t \in Txs : Commit(t)
    BY MovesLocal
    DEF Next, Statement, Moves, StatementFails, SessionDies, Rollback, vars
  <1> QED
    BY <1>1, <1>2, <1>3

\* The stored verdict of an asset and a CVE is what match_asset says of their
\* rows, unless the last transaction to write it overlapped another that wrote
\* it.  The induction follows every open transaction: what it has read, deleted
\* and computed for a pair is right as long as no other has committed that pair
\* (AllAccurate).
THEOREM StaleNeedsRace == Spec => []StaleOnlyAfterRace
  <1>1. ASSUME Init
        PROVE  AllAccurate /\ StaleOnlyAfterRace
    <2>1. AllAccurate
      BY <1>1 DEF Init, AllAccurate, Accurate, Idle, Editing, Recomputing
    <2>2. \A p \in Pairs : p[1] \notin Live
      BY <1>1, ConstantsAssumption DEF Init, Live, Pairs
    <2>3. StaleOnlyAfterRace
      BY <1>1, <2>2 DEF Init, StaleOnlyAfterRace, Expected, NoPlan
    <2> QED
      BY <2>1, <2>3
  <1>2. Init => IInv
    BY <1>1, StructureInit DEF IInv, AllAccurate
  <1>3. IInv /\ [Next]_vars => IInv'
    BY TypeStep, StructureStep, OrphanStep, AccurateStep, StaleStep
    DEF IInv, AllAccurate
  <1>4. IInv => StaleOnlyAfterRace
    BY DEF IInv
  <1> QED
    BY <1>2, <1>3, <1>4, PTL DEF Spec

==============================================================================
