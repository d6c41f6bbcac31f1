----------------------------- MODULE WorkersProofs -----------------------------
(***************************************************************************)
(* Proofs about Workers, for any documents, CVEs, pages and failures: what   *)
(* counts as read was imported, scores agree with the links, NVD's cursor    *)
(* and GitHub's checks cover what they say.                                 *)
(***************************************************************************)
EXTENDS Workers, NumberFacts, TLAPS, FiniteSetTheorems

------------------------------------------------------------------------------
(* The inductive invariant                                                  *)

\* What rows, a database and a run consist of.
RowKeys == {r.key : r \in FileRows} \cup {r.key : r \in Repos} \cup Cves
StoredRows == [key : RowKeys, rev : Nat, cves : SUBSET Cves, ok : BOOLEAN]
States == {None} \cup Nat \cup {Bodies[n].tag : n \in DOMAIN Bodies}
Caches == [etag : Nat, digest : Nat]

Databases ==
    [cache : Caches, state : States, rows : SUBSET StoredRows,
     links : SUBSET (RowKeys \X Cves), derived : [Cves -> SUBSET (RowKeys \X Nat)],
     checked : [Cves -> Nat], missed : SUBSET Cves]

Pcs ==
    {"idle", "save", "commit", "page", "window", "enrich", "search", "watch", "get",
     "release", "archive", "rows", "insert"}

Runs ==
    [pc : Pcs, attempt : 1 .. MaxRetries + 1, got : {None} \cup Caches,
     new : SUBSET Nat, touched : SUBSET Cves, state : States, now : Nat,
     start : Nat, missed : SUBSET Cves]

\* The unique keys, and links of rows that are there.
Keyed(rows) == \A r, s \in rows : r.key = s.key => r = s

Linked(d) ==
    /\ \A l \in d.links : l[1] \in Keys(d.rows)
    /\ \A c \in Cves : \A e \in d.derived[c] : <<e[1], c>> \in d.links

Shape ==
    /\ kind \in Kinds
    /\ \A d \in {db, session} : d \in Databases /\ Keyed(d.rows) /\ Linked(d)
    /\ run \in Runs

\* The steps of each kind of worker, and where the session is as committed.
StepsOf(k) ==
    CASE k = "nvd"    -> {"idle", "save", "commit", "page", "window", "enrich"}
      [] k = "github" -> {"idle", "save", "commit", "search", "watch"}
      [] OTHER        -> {"idle", "save", "commit", "get", "release", "archive", "rows",
                          "insert"}

Clean == {"idle", "save", "get", "release", "archive", "page", "window"}

Steps ==
    /\ run.pc \in StepsOf(kind)
    /\ session.state = db.state
    /\ run.pc \in Clean => session = db
    /\ run.pc \in {"page", "window"} => run.touched = {}

\* What was derived of c agrees with the rows, or one of them no longer names it.
Current(d, c) ==
    \/ d.derived[c] = Evidence(d, c)
    \/ \E r \in d.rows : <<r.key, c>> \in d.links /\ c \notin r.cves

Scored ==
    /\ \A c \in Cves : Current(db, c)
    /\ \A c \in Cves \ run.touched : Current(session, c)

\* Validators are of the document that is served, or of one before it.
Earlier(cache, u) ==
    /\ cache.etag <= u.etag /\ cache.digest <= Digest(u)
    /\ cache.etag = u.etag => cache.digest = Digest(u)

\* The document that a run has got was served before, or is.
Served(got, u) ==
    /\ got \in [etag : Nat, digest : DOMAIN Bodies]
    /\ got.etag <= u.etag /\ got.digest <= u.digest
    /\ got.etag = u.etag => got.digest = u.digest

TagSeen(state, u) ==
    kind = "sigma" =>
        state = None \/ \E n \in DOMAIN Bodies : n <= u.digest /\ state = Bodies[n].tag

\* What makes the next run end as "not modified".
CacheKnows(cache) == cache.etag = upstream.etag \/ cache.digest = Digest(upstream)
StateKnows(state) == kind = "sigma" /\ state = Bodies[upstream.digest].tag

ImportedIn(d, n) ==
    \A i \in DOMAIN Bodies[n].rows :
        LET row == Bodies[n].rows[i]
        IN  row.ok => \E r \in d.rows :
                        /\ r.key = row.key
                        /\ \E j \in DOMAIN Bodies[n].rows : Bodies[n].rows[j] = r
                        /\ \A c \in r.cves : <<r.key, c>> \in d.links

\* The rows come from the source's documents, with their links.
FromFiles(d) ==
    \A r \in d.rows :
        r \in FileRows /\ r.ok /\ \A c \in r.cves : <<r.key, c>> \in d.links

\* Every row of the document that can be read is stored, or waits to be inserted.
Pending ==
    /\ run.new \subseteq Parsed
    /\ \A i, j \in run.new : At(i).key = At(j).key => i = j
    /\ \A i \in Parsed :
         \/ \E j \in run.new : At(j).key = At(i).key
         \/ \E r \in session.rows : r.key = At(i).key /\ \E j \in DOMAIN Rows : r = At(j)

Filed ==
    kind \in FileKinds =>
        /\ upstream \in [etag : Nat, digest : DOMAIN Bodies]
        /\ \A d \in {db, session} : Earlier(d.cache, upstream) /\ FromFiles(d)
        /\ TagSeen(db.state, upstream) /\ TagSeen(run.state, upstream)
        /\ CacheKnows(db.cache) \/ StateKnows(db.state) => ImportedIn(db, upstream.digest)
        /\ run.pc \in {"get", "release", "archive", "rows", "insert"} /\ kind = "sigma"
             => run.state = db.state
        /\ run.pc \in {"release", "archive", "rows", "insert"} =>
             /\ Served(run.got, upstream) /\ ~CacheKnows(db.cache)
             /\ kind \in Deferred => ~CacheKnows(session.cache)
             /\ StateKnows(db.state) =>
                  run.pc = "release" /\ run.got.digest = upstream.digest
        /\ run.pc \in {"release", "archive"} => kind = "sigma"
        /\ run.pc = "rows" /\ kind \notin Deferred => session.cache = Validators(run.got)
        /\ run.pc = "insert" => kind \in Deferred /\ Pending
        /\ /\ run.pc \in {"commit", "save"}
           /\ CacheKnows(session.cache) \/ StateKnows(run.state) \/ StateKnows(session.state)
           => ImportedIn(session, upstream.digest)

\* NVD: changes before the cursor are stored, but for those that were missed.
Covers(d) ==
    \A c \in Cves \ d.missed :
        /\ upstream.body[c] \in 1 .. d.state - 1
        /\ c \in Keys(d.rows) \cup Recent
        => Rev(d, c) = upstream.body[c]

\* The changes of the window that is read, before its last second.
Reached(c) ==
    /\ upstream.body[c] \in run.state .. WindowEnd - 1
    /\ c \in Keys(session.rows) \cup Recent

Paged ==
    kind = "nvd" =>
        /\ upstream \in [now : Nat, body : [Cves -> Nat]]
        /\ \A d \in {db, session} : d.state \in Nat /\ Covers(d) /\ d.state <= upstream.now
        /\ run.pc # "idle" =>
             run.state = db.state /\ run.now <= upstream.now
        /\ run.pc = "page" =>
             /\ run.state < run.now
             /\ \A c \in Cves \ (run.missed \cup session.missed) :
                  Reached(c) /\ Index(c) < run.start => Rev(session, c) = upstream.body[c]
        /\ run.pc = "window" =>
             \A c \in Cves \ (run.missed \cup session.missed) :
                Reached(c) => Rev(session, c) = upstream.body[c]

\* GitHub: what the repositories said when a CVE was checked is stored.
Searched(d) ==
    \A c \in Cves, r \in upstream.body :
        r.ok /\ c \in r.cves /\ r.rev <= d.checked[c] =>
            Rev(d, r.key) >= r.rev /\ <<r.key, c>> \in d.links

Found ==
    kind = "github" =>
        /\ upstream \in [now : Nat, body : SUBSET StoredRows] /\ Keyed(upstream.body)
        /\ \A r \in upstream.body : r.rev \in 1 .. upstream.now
        /\ \A d \in {db, session} :
             /\ \A c \in Cves : d.checked[c] \in 0 .. upstream.now
             /\ Searched(d)

IInv == Shape /\ Steps /\ Scored /\ Filed /\ Paged /\ Found

------------------------------------------------------------------------------
(* What the operations on a database do                                     *)

\* The links of rows.
LinksOf(rows) == UNION {{<<r.key, c>> : c \in r.cves} : r \in rows}

\* The rows after Put, and the links; it touches nothing else.
LEMMA PutFields ==
  ASSUME NEW d \in Databases, NEW rows \in SUBSET StoredRows
  PROVE  /\ Put(d, rows) \in Databases
         /\ Put(d, rows).rows = {r \in d.rows : r.key \notin Keys(rows)} \cup rows
         /\ Put(d, rows).links = d.links \cup LinksOf(rows)
         /\ Put(d, rows).cache = d.cache /\ Put(d, rows).state = d.state
         /\ Put(d, rows).derived = d.derived /\ Put(d, rows).checked = d.checked
         /\ Put(d, rows).missed = d.missed
<1> DEFINE k == {r \in d.rows : r.key \notin Keys(rows)} \cup rows
<1> DEFINE l == d.links \cup LinksOf(rows)
<1>1. Put(d, rows) = [d EXCEPT !.rows = k, !.links = l]
  BY DEF Put, LinksOf
<1>2. k \in SUBSET StoredRows
  BY DEF Databases
<1>3. l \in SUBSET (RowKeys \X Cves)
  <2>1. \A r \in rows : r.key \in RowKeys /\ r.cves \subseteq Cves
    BY DEF StoredRows
  <2>2. LinksOf(rows) \subseteq RowKeys \X Cves
    BY <2>1 DEF LinksOf
  <2> QED
    BY <2>2 DEF Databases
<1> HIDE DEF k, l
<1>4. Put(d, rows) \in Databases
  BY <1>1, <1>2, <1>3 DEF Databases
<1>5. /\ Put(d, rows).rows = k /\ Put(d, rows).links = l
      /\ Put(d, rows).cache = d.cache /\ Put(d, rows).state = d.state
      /\ Put(d, rows).derived = d.derived /\ Put(d, rows).checked = d.checked
      /\ Put(d, rows).missed = d.missed
  BY <1>1 DEF Databases
<1> QED
  BY <1>4, <1>5 DEF k, l

\* recompute_many writes derived fields only.
LEMMA RecomputeFields ==
  ASSUME NEW d \in Databases, NEW cves
  PROVE  /\ Recompute(d, cves) \in Databases
         /\ Recompute(d, cves).derived =
              [c \in Cves |-> IF c \in cves THEN Evidence(d, c) ELSE d.derived[c]]
         /\ Recompute(d, cves).rows = d.rows /\ Recompute(d, cves).links = d.links
         /\ Recompute(d, cves).cache = d.cache /\ Recompute(d, cves).state = d.state
         /\ Recompute(d, cves).checked = d.checked /\ Recompute(d, cves).missed = d.missed
<1> DEFINE v == [c \in Cves |-> IF c \in cves THEN Evidence(d, c) ELSE d.derived[c]]
<1>1. Recompute(d, cves) = [d EXCEPT !.derived = v]
  BY DEF Recompute
<1>2. v \in [Cves -> SUBSET (RowKeys \X Nat)]
  <2>1. \A r \in d.rows : r.key \in RowKeys /\ r.rev \in Nat
    BY DEF Databases, StoredRows
  <2>2. ASSUME NEW c, NEW x \in Evidence(d, c)
        PROVE  x \in RowKeys \X Nat
    <3>1. PICK r \in d.rows : x = <<r.key, r.rev>>
      BY DEF Evidence
    <3> QED
      BY <2>1, <3>1
  <2>3. \A c \in Cves : d.derived[c] \in SUBSET (RowKeys \X Nat)
    BY DEF Databases
  <2> QED
    BY <2>2, <2>3
<1> HIDE DEF v
<1>3. Recompute(d, cves) \in Databases
  BY <1>1, <1>2 DEF Databases
<1>4. /\ Recompute(d, cves).derived = v
      /\ Recompute(d, cves).rows = d.rows /\ Recompute(d, cves).links = d.links
      /\ Recompute(d, cves).cache = d.cache /\ Recompute(d, cves).state = d.state
      /\ Recompute(d, cves).checked = d.checked /\ Recompute(d, cves).missed = d.missed
  BY <1>1 DEF Databases
<1> QED
  BY <1>3, <1>4 DEF v

\* All but what is derived stays as it is.
LEMMA RecomputeRest ==
  ASSUME NEW d \in Databases, NEW cves
  PROVE  /\ Recompute(d, cves).rows = d.rows /\ Recompute(d, cves).links = d.links
         /\ Recompute(d, cves).cache = d.cache /\ Recompute(d, cves).state = d.state
         /\ Recompute(d, cves).checked = d.checked /\ Recompute(d, cves).missed = d.missed
BY RecomputeFields

\* The links of a set of rows.
LEMMA LinksOfRows ==
  ASSUME NEW rows
  PROVE  /\ \A r \in rows : \A c \in r.cves : <<r.key, c>> \in LinksOf(rows)
         /\ \A l \in LinksOf(rows) : \E r \in rows : \E c \in r.cves : l = <<r.key, c>>
BY DEF LinksOf

\* Unique keys, and links of rows that are there, survive both.
LEMMA PutKeeps ==
  ASSUME NEW d \in Databases, Keyed(d.rows), Linked(d),
         NEW rows \in SUBSET StoredRows, Keyed(rows)
  PROVE  Keyed(Put(d, rows).rows) /\ Linked(Put(d, rows))
<1> DEFINE e == Put(d, rows)
<1>1. /\ e.rows = {r \in d.rows : r.key \notin Keys(rows)} \cup rows
      /\ e.links = d.links \cup LinksOf(rows)
      /\ e.derived = d.derived
  BY PutFields
<1> HIDE DEF e
<1>2. Keyed(e.rows)
  BY <1>1 DEF Keyed, Keys
<1>3. Keys(e.rows) = Keys(d.rows) \cup Keys(rows)
  BY <1>1 DEF Keys
<1>4. \A l \in LinksOf(rows) : l[1] \in Keys(rows)
  <2> SUFFICES ASSUME NEW l \in LinksOf(rows)
               PROVE  l[1] \in Keys(rows)
    OBVIOUS
  <2>1. PICK r \in rows : \E c \in r.cves : l = <<r.key, c>>
    BY LinksOfRows
  <2> QED
    BY <2>1 DEF Keys
<1>5. \A l \in e.links : l[1] \in Keys(e.rows)
  BY <1>1, <1>3, <1>4 DEF Linked
<1>6. \A c \in Cves : \A x \in e.derived[c] : <<x[1], c>> \in e.links
  BY <1>1 DEF Linked
<1> QED
  BY <1>2, <1>5, <1>6 DEF e, Linked

\* Recomputing derives evidence from links.
LEMMA RecomputeKeeps ==
  ASSUME NEW d \in Databases, Keyed(d.rows), Linked(d), NEW cves
  PROVE  Keyed(Recompute(d, cves).rows) /\ Linked(Recompute(d, cves))
<1> DEFINE e == Recompute(d, cves)
<1>1. /\ e.rows = d.rows /\ e.links = d.links
      /\ e.derived = [c \in Cves |-> IF c \in cves THEN Evidence(d, c) ELSE d.derived[c]]
  BY RecomputeFields
<1> HIDE DEF e
<1>2. \A c \in Cves : \A x \in Evidence(d, c) : <<x[1], c>> \in d.links
  <2> SUFFICES ASSUME NEW c \in Cves, NEW x \in Evidence(d, c)
               PROVE  <<x[1], c>> \in d.links
    OBVIOUS
  <2>1. PICK r \in d.rows : <<r.key, c>> \in d.links /\ x = <<r.key, r.rev>>
    BY DEF Evidence
  <2> QED
    BY <2>1
<1>3. \A c \in Cves : \A x \in e.derived[c] : <<x[1], c>> \in e.links
  BY <1>1, <1>2 DEF Linked
<1> QED
  BY <1>1, <1>3 DEF e, Linked

\* The revision of a row that is stored, and of one that is not.
LEMMA RevOf ==
  ASSUME NEW d \in Databases, Keyed(d.rows)
  PROVE  /\ \A r \in d.rows : Rev(d, r.key) = r.rev
         /\ \A k : k \notin Keys(d.rows) => Rev(d, k) = 0
         /\ \A k : Rev(d, k) \in Nat
<1>1. \A r \in d.rows : Rev(d, r.key) = r.rev
  <2> SUFFICES ASSUME NEW r \in d.rows
               PROVE  Rev(d, r.key) = r.rev
    OBVIOUS
  <2>1. r.key \in Keys(d.rows)
    BY DEF Keys
  <2> DEFINE s == CHOOSE x \in d.rows : x.key = r.key
  <2>2. s \in d.rows /\ s.key = r.key
    OBVIOUS
  <2>3. s = r
    BY <2>2 DEF Keyed
  <2> QED
    BY <2>1, <2>3 DEF Rev
<1>2. \A k : k \notin Keys(d.rows) => Rev(d, k) = 0
  BY DEF Rev
<1>3. \A k : Rev(d, k) \in Nat
  <2> SUFFICES ASSUME NEW k, k \in Keys(d.rows)
               PROVE  Rev(d, k) \in Nat
    BY <1>2
  <2>1. PICK r \in d.rows : r.key = k
    BY DEF Keys
  <2>2. r.rev \in Nat
    BY DEF Databases, StoredRows
  <2> QED
    BY <2>1, <2>2, <1>1
<1> QED
  BY <1>1, <1>2, <1>3

\* A revision depends on the rows alone.
LEMMA RevSame ==
  ASSUME NEW d, NEW e, d.rows = e.rows
  PROVE  \A k : Rev(d, k) = Rev(e, k)
BY DEF Rev

\* What is put has its revision afterwards; the other rows keep theirs.
LEMMA PutRev ==
  ASSUME NEW d \in Databases, Keyed(d.rows), Linked(d),
         NEW rows \in SUBSET StoredRows, Keyed(rows)
  PROVE  /\ \A r \in rows : Rev(Put(d, rows), r.key) = r.rev
         /\ \A k : k \notin Keys(rows) => Rev(Put(d, rows), k) = Rev(d, k)
         /\ Keys(Put(d, rows).rows) = Keys(d.rows) \cup Keys(rows)
         /\ d.links \subseteq Put(d, rows).links
         /\ \A r \in rows : \A c \in r.cves : <<r.key, c>> \in Put(d, rows).links
<1> DEFINE e == Put(d, rows)
<1>1. /\ e \in Databases
      /\ e.rows = {r \in d.rows : r.key \notin Keys(rows)} \cup rows
      /\ e.links = d.links \cup LinksOf(rows)
      /\ Keyed(e.rows)
  BY PutFields, PutKeeps
<1> HIDE DEF e
<1>2. \A r \in rows : Rev(e, r.key) = r.rev
  BY <1>1, RevOf
<1>3. Keys(e.rows) = Keys(d.rows) \cup Keys(rows)
  BY <1>1 DEF Keys
<1>4. ASSUME NEW k, k \notin Keys(rows)
      PROVE  Rev(e, k) = Rev(d, k)
  <2>1. CASE k \in Keys(d.rows)
    <3>1. PICK r \in d.rows : r.key = k
      BY <2>1 DEF Keys
    <3>2. r \in e.rows
      BY <3>1, <1>1, <1>4
    <3>3. Rev(d, r.key) = r.rev
      BY RevOf
    <3>4. Rev(e, r.key) = r.rev
      BY <3>2, <1>1, RevOf
    <3> QED
      BY <3>1, <3>3, <3>4
  <2>2. CASE k \notin Keys(d.rows)
    <3>1. k \notin Keys(e.rows)
      BY <2>2, <1>3, <1>4
    <3> QED
      BY <2>2, <3>1 DEF Rev
  <2> QED
    BY <2>1, <2>2
<1> QED
  BY <1>1, <1>2, <1>3, <1>4, LinksOfRows DEF e

\* Putting rows leaves derived fields right for the CVEs they do not name.
LEMMA PutCurrent ==
  ASSUME NEW d \in Databases, NEW rows \in SUBSET StoredRows,
         NEW c \in Cves, c \notin Named(rows), Current(d, c)
  PROVE  Current(Put(d, rows), c)
<1> DEFINE e == Put(d, rows)
<1>1. /\ e.rows = {r \in d.rows : r.key \notin Keys(rows)} \cup rows
      /\ e.links = d.links \cup LinksOf(rows)
      /\ e.derived = d.derived
  BY PutFields
<1> HIDE DEF e
<1>2. \A r \in rows : c \notin r.cves /\ r.key \in Keys(rows)
  BY DEF Named, Keys
<1>3. \A k : <<k, c>> \in e.links <=> <<k, c>> \in d.links
  BY <1>1, <1>2 DEF LinksOf
<1>4. CASE \E r \in rows : <<r.key, c>> \in d.links
  BY <1>1, <1>2, <1>3, <1>4 DEF e, Current
<1>5. CASE ~\E r \in rows : <<r.key, c>> \in d.links
  <2>1. \A r \in d.rows : <<r.key, c>> \in d.links => r \in e.rows
    <3> SUFFICES ASSUME NEW r \in d.rows, <<r.key, c>> \in d.links, r.key \in Keys(rows)
                 PROVE  FALSE
      BY <1>1
    <3>1. PICK s \in rows : s.key = r.key
      BY DEF Keys
    <3> QED
      BY <3>1, <1>5
  <2>2. \A r \in e.rows : <<r.key, c>> \in e.links => r \in d.rows
    BY <1>1, <1>3, <1>5
  <2>3. {s \in e.rows : <<s.key, c>> \in e.links} = {s \in d.rows : <<s.key, c>> \in d.links}
    BY <2>1, <2>2, <1>3
  <2>4. Evidence(e, c) = Evidence(d, c)
    BY <2>3 DEF Evidence
  <2>5. CASE d.derived[c] = Evidence(d, c)
    BY <2>4, <2>5, <1>1 DEF Current, e
  <2>6. CASE \E r \in d.rows : <<r.key, c>> \in d.links /\ c \notin r.cves
    BY <2>6, <2>1, <1>3 DEF Current, e
  <2> QED
    BY <2>5, <2>6 DEF Current
<1> QED
  BY <1>4, <1>5

\* Recomputing puts them right for all it is told to, and keeps the others.
LEMMA RecomputeCurrent ==
  ASSUME NEW d \in Databases, NEW cves, NEW c \in Cves,
         c \in cves \/ Current(d, c)
  PROVE  Current(Recompute(d, cves), c)
<1> DEFINE e == Recompute(d, cves)
<1>1. /\ e.rows = d.rows /\ e.links = d.links
      /\ e.derived = [x \in Cves |-> IF x \in cves THEN Evidence(d, x) ELSE d.derived[x]]
  BY RecomputeFields
<1> HIDE DEF e
<1>2. Evidence(e, c) = Evidence(d, c)
  BY <1>1 DEF Evidence
<1>3. e.derived[c] = IF c \in cves THEN Evidence(d, c) ELSE d.derived[c]
  BY <1>1
<1> QED
  BY <1>1, <1>2, <1>3 DEF Current, e

------------------------------------------------------------------------------
(* The documents                                                            *)

\* The rows of the documents can be stored.
LEMMA FileRowsStored ==
  /\ FileRows \subseteq StoredRows
  /\ \A r \in FileRows : r.rev \in Nat \ {0}
<1> SUFFICES ASSUME NEW r \in FileRows
             PROVE  r \in StoredRows /\ r.rev \in Nat \ {0}
  OBVIOUS
<1>1. r \in [key : {r.key}, rev : Nat \ {0}, cves : SUBSET Cves, ok : BOOLEAN]
  BY FilesAssumption DEF FilesAssumption
<1>2. r.key \in RowKeys
  BY DEF RowKeys
<1>3. r.rev \in Nat \ {0}
  BY <1>1
<1>4. r \in [key : RowKeys, rev : Nat, cves : SUBSET Cves, ok : BOOLEAN]
  BY <1>1, <1>2
<1> QED
  BY <1>3, <1>4 DEF StoredRows

\* The rows of a document are numbered, and known.
LEMMA RowsNumbered ==
  ASSUME NEW n \in DOMAIN Bodies
  PROVE  /\ Len(Bodies[n].rows) \in Nat
         /\ DOMAIN Bodies[n].rows = 1 .. Len(Bodies[n].rows)
         /\ \A i \in DOMAIN Bodies[n].rows : Bodies[n].rows[i] \in FileRows
BY FilesAssumption DEF FilesAssumption, FileRows

\* The rows of the document a run has got.
LEMMA RowsOfGot ==
  ASSUME run.got.digest \in DOMAIN Bodies
  PROVE  /\ Parsed \subseteq DOMAIN Rows /\ Parsed \subseteq Nat
         /\ \A i \in DOMAIN Rows : At(i) \in FileRows /\ At(i) \in StoredRows
         /\ \A i \in DOMAIN Rows : At(i).rev \in Nat \ {0}
         /\ \A i \in Parsed : At(i).ok
<1>1. /\ Len(Rows) \in Nat /\ DOMAIN Rows = 1 .. Len(Rows)
      /\ \A i \in DOMAIN Rows : Rows[i] \in FileRows
  BY RowsNumbered DEF Rows
<1> QED
  BY <1>1, FileRowsStored DEF Parsed, At

\* Rows with places that differ in their keys can be stored together.
LEMMA PlacesKeyed ==
  ASSUME run.got.digest \in DOMAIN Bodies, NEW ps \in SUBSET Parsed,
         \A i, j \in ps : At(i).key = At(j).key => i = j
  PROVE  /\ {At(i) : i \in ps} \in SUBSET StoredRows
         /\ Keyed({At(i) : i \in ps})
         /\ \A i \in ps : At(i).key \in Keys({At(j) : j \in ps})
BY RowsOfGot DEF Keyed, Keys

\* Whatever the importer, it writes one row per key.
LEMMA OverwritingKeyed ==
  ASSUME run.got.digest \in DOMAIN Bodies
  PROVE  /\ Overwriting \subseteq Parsed
         /\ \A i, j \in Overwriting : At(i).key = At(j).key => i = j
         /\ Inserted \subseteq Parsed
         /\ \A i, j \in Inserted : At(i).key = At(j).key => i = j
<1>1. Parsed \subseteq Nat
  BY RowsOfGot
<1>2. \A i, j \in Parsed : FirstOf(i) /\ FirstOf(j) /\ At(i).key = At(j).key => i = j
  BY <1>1 DEF FirstOf, Twins
<1>3. \A ps \in SUBSET Parsed : \A i, j \in ps :
        LastOf(ps, i) /\ LastOf(ps, j) /\ At(i).key = At(j).key => i = j
  BY <1>1 DEF LastOf, Twins
<1>4. /\ Inserted \subseteq Parsed
      /\ \A i, j \in Inserted : At(i).key = At(j).key => i = j
  BY <1>2 DEF Inserted
<1>5. CASE kind = "exploitdb"
  <2> DEFINE changed == {i \in Parsed : Exists(i) /\ Rev(session, At(i).key) # At(i).rev}
  <2>1. Overwriting = {i \in changed : LastOf(changed, i)}
    BY <1>5 DEF Overwriting
  <2>2. changed \in SUBSET Parsed
    OBVIOUS
  <2> HIDE DEF changed
  <2> QED
    BY <2>1, <2>2, <1>3, <1>4
<1>6. CASE kind \in {"sigma", "abusech"}
  <2>1. Overwriting = {i \in Parsed : Exists(i) /\ FirstOf(i)}
    BY <1>6 DEF Overwriting
  <2> QED
    BY <2>1, <1>2, <1>4
<1>7. CASE kind \notin {"exploitdb", "sigma", "abusech"}
  <2>1. Overwriting =
          {i \in Parsed : LastOf(Parsed, i) /\ Rev(session, At(i).key) # At(i).rev}
    BY <1>7 DEF Overwriting
  <2> QED
    BY <2>1, <1>3, <1>4
<1> QED
  BY <1>5, <1>6, <1>7

\* Of rows with one key there is a first, and a last one among any of them.
LEMMA TwinsEnd ==
  ASSUME run.got.digest \in DOMAIN Bodies, NEW i \in Parsed
  PROVE  /\ \E j \in Twins(i) : FirstOf(j)
         /\ \A ps \in SUBSET Parsed : Twins(i) \cap ps # {} =>
              \E j \in Twins(i) \cap ps : LastOf(ps, j)
<1>1. Parsed \subseteq Nat /\ i \in Twins(i) /\ Twins(i) \subseteq Parsed
  BY RowsOfGot DEF Twins
<1>2. \A j \in Twins(i) : Twins(j) = Twins(i)
  BY DEF Twins
<1>3. \E j \in Twins(i) : FirstOf(j)
  <2>1. PICK j \in Twins(i) : \A k \in Twins(i) : j <= k
    BY <1>1, LeastOf
  <2> QED
    BY <2>1, <1>2 DEF FirstOf
<1>4. ASSUME NEW ps \in SUBSET Parsed, Twins(i) \cap ps # {}
      PROVE  \E j \in Twins(i) \cap ps : LastOf(ps, j)
  <2>1. /\ Len(Rows) \in Nat /\ DOMAIN Rows = 1 .. Len(Rows)
    BY RowsNumbered DEF Rows
  <2>2. Twins(i) \cap ps \in SUBSET (1 .. Len(Rows))
    BY <1>1, <2>1 DEF Parsed
  <2>3. PICK j \in Twins(i) \cap ps : \A k \in Twins(i) \cap ps : k <= j
    BY <2>1, <2>2, <1>4, GreatestOf
  <2> QED
    BY <2>3, <1>2 DEF LastOf
<1> QED
  BY <1>3, <1>4

------------------------------------------------------------------------------
(* What the steps do to the tables                                          *)

SameTables(d, e) == d.rows = e.rows /\ d.links = e.links /\ d.derived = e.derived

\* Nothing is written; the session may be given up.
Rests ==
    /\ SameTables(db', db)
    /\ \/ SameTables(session', db)
       \/ SameTables(session', session) /\ run.touched \subseteq run'.touched

\* The session writes rows.
Writes(rows) ==
    /\ SameTables(db', db)
    /\ SameTables(session', Put(session, rows))
    /\ run.touched \cup Named(rows) \subseteq run'.touched

\* It writes rows and commits, with the CVEs in touched recomputed.
Commits(rows, touched) ==
    /\ SameTables(db', Recompute(Put(session, rows), touched))
    /\ session' = db'
    /\ run.touched \cup Named(rows) \subseteq touched

Typed == db' \in Databases /\ session' \in Databases /\ run' \in Runs

\* A step that writes rows, at most.
Effect ==
    /\ Typed
    /\ \/ Rests
       \/ \E rows \in SUBSET StoredRows :
            /\ Keyed(rows)
            /\ Writes(rows) \/ \E touched : Commits(rows, touched)

\* What ctx.checkpoint leaves.
LEMMA CheckpointMeans ==
  ASSUME NEW s \in Databases, NEW next \in Runs, Checkpoint(s, next)
  PROVE  /\ db' \in Databases /\ session' = db' /\ run' \in Runs
         /\ SameTables(db', Recompute(s, next.touched))
         /\ db'.rows = s.rows /\ db'.links = s.links
         /\ db'.cache = s.cache /\ db'.checked = s.checked /\ db'.missed = s.missed
         /\ db'.state = next.state
         /\ run'.pc = next.pc /\ run'.attempt = next.attempt /\ run'.got = next.got
         /\ run'.new = next.new /\ run'.touched = {} /\ run'.state = next.state
         /\ run'.now = next.now /\ run'.start = next.start /\ run'.missed = next.missed
<1>0. PICK t : t = next.touched
  OBVIOUS
<1>1. PICK d \in Databases : d = Recompute(s, t)
  BY RecomputeFields
<1>2. /\ d.rows = s.rows /\ d.links = s.links /\ d.cache = s.cache
      /\ d.checked = s.checked /\ d.missed = s.missed
  <2>1. /\ Recompute(s, t).rows = s.rows /\ Recompute(s, t).links = s.links
        /\ Recompute(s, t).cache = s.cache /\ Recompute(s, t).checked = s.checked
        /\ Recompute(s, t).missed = s.missed
    BY RecomputeRest
  <2> QED
    BY <1>1, <2>1
<1>3. db' = [d EXCEPT !.state = next.state] /\ session' = db'
      /\ run' = [next EXCEPT !.touched = {}]
  BY <1>0, <1>1 DEF Checkpoint
<1>4. next.state \in States
  BY DEF Runs
<1>5. /\ db' \in Databases /\ db'.state = next.state
      /\ db'.rows = d.rows /\ db'.links = d.links /\ db'.derived = d.derived
      /\ db'.cache = d.cache /\ db'.checked = d.checked /\ db'.missed = d.missed
  BY <1>3, <1>4 DEF Databases
<1>6. /\ run' \in Runs
      /\ run'.pc = next.pc /\ run'.attempt = next.attempt /\ run'.got = next.got
      /\ run'.new = next.new /\ run'.touched = {} /\ run'.state = next.state
      /\ run'.now = next.now /\ run'.start = next.start /\ run'.missed = next.missed
  BY <1>3 DEF Runs
<1> QED
  BY <1>0, <1>1, <1>2, <1>3, <1>5, <1>6 DEF SameTables

\* A run that is not.
LEMMA IdleRun ==
  /\ Idle \in Runs /\ Idle.pc = "idle" /\ Idle.touched = {}
  /\ Idle.start = 0 /\ Idle.missed = {}
<1>1. 1 \in 1 .. MaxRetries + 1
  BY RunAssumption DEF RunAssumption
<1>2. None \in States /\ {} \in SUBSET Cves /\ {} \in SUBSET Nat /\ 0 \in Nat
  BY DEF States
<1>3. None \in {None} \cup Caches
  OBVIOUS
<1>4. Idle \in Runs
  BY <1>1, <1>2, <1>3 DEF Idle, Runs, Pcs
<1> QED
  BY <1>4 DEF Idle

\* A run goes on, and holds what it held.
GoesOn ==
    /\ run' \in Runs /\ run'.touched = run.touched /\ run'.new = run.new
    /\ run'.state = run.state /\ run'.got = run.got
    /\ run'.now = run.now /\ run'.start = run.start /\ run'.missed = run.missed

\* It goes to another step.
LEMMA RunSteps ==
  ASSUME run \in Runs, NEW pc \in Pcs, run' = [run EXCEPT !.pc = pc]
  PROVE  GoesOn /\ run'.pc = pc
BY DEF Runs, GoesOn

\* An answer has come: the next question is asked for the first time.
LEMMA RunMoves ==
  ASSUME run \in Runs, NEW pc \in Pcs, run' = [run EXCEPT !.pc = pc, !.attempt = 1]
  PROVE  GoesOn /\ run'.pc = pc
<1>1. 1 \in 1 .. MaxRetries + 1
  BY RunAssumption DEF RunAssumption
<1> QED
  BY <1>1 DEF Runs, GoesOn

\* The same question is asked again.
LEMMA RunRetries ==
  ASSUME run \in Runs, Retry
  PROVE  GoesOn /\ run'.pc = run.pc
<1>1. run.attempt + 1 \in 1 .. MaxRetries + 1
  BY RunAssumption DEF RunAssumption, Retry, Runs
<1>2. run' = [run EXCEPT !.attempt = run.attempt + 1]
  BY DEF Retry, Runs
<1> QED
  BY <1>1, <1>2 DEF Runs, GoesOn

\* The invariant's parts that the steps rest on.
LEMMA Given ==
  ASSUME IInv
  PROVE  /\ db \in Databases /\ session \in Databases /\ run \in Runs
         /\ Keyed(db.rows) /\ Keyed(session.rows) /\ Linked(db) /\ Linked(session)
         /\ kind \in Kinds /\ Steps
BY DEF IInv, Shape

\* The steps of each kind.
LEMMA StepsOfKinds ==
  /\ \A k \in FileKinds :
       StepsOf(k) = {"idle", "save", "commit", "get", "release", "archive", "rows", "insert"}
  /\ StepsOf("nvd") = {"idle", "save", "commit", "page", "window", "enrich"}
  /\ StepsOf("github") = {"idle", "save", "commit", "search", "watch"}
  /\ "nvd" \notin FileKinds /\ "github" \notin FileKinds
  /\ \A k : {"idle", "save", "commit"} \subseteq StepsOf(k)
BY DEF StepsOf, FileKinds

\* The beginning of a run.
LEMMA StartsEffect ==
  ASSUME IInv, StartFile \/ StartGithub \/ StartNvd
  PROVE  /\ Effect
         /\ db' = db /\ session' = db /\ UNCHANGED <<kind, upstream>>
         /\ run.pc = "idle" /\ run'.touched = {} /\ run'.state = db.state
         /\ kind \in FileKinds => run'.pc = "get"
         /\ kind = "github" => run'.pc = "search"
         /\ kind = "nvd" =>
              /\ run'.pc = IF db.state < upstream.now THEN "page" ELSE "window"
              /\ run'.now = upstream.now /\ run'.start = 0 /\ run'.missed = {}
<1>1. db \in Databases /\ db.state \in States
  BY Given DEF Databases
<1>2. SameTables(db, db)
  BY DEF SameTables
<1>3. ASSUME NEW pc \in Pcs, Begin(pc)
      PROVE  /\ run' \in Runs /\ run'.pc = pc /\ run'.touched = {} /\ run'.state = db.state
             /\ db' = db /\ session' = db /\ UNCHANGED <<kind, upstream>> /\ run.pc = "idle"
  <2>1. run' = [Idle EXCEPT !.pc = pc, !.state = db.state]
    BY <1>3 DEF Begin
  <2> QED
    BY <2>1, <1>1, <1>3, IdleRun DEF Begin, Runs
<1>4. CASE StartFile
  <2>1. Begin("get") /\ kind \in FileKinds /\ "get" \in Pcs
    BY <1>4 DEF StartFile, Pcs
  <2>2. kind # "github" /\ kind # "nvd"
    BY <2>1 DEF FileKinds
  <2> QED
    BY <2>1, <2>2, <1>1, <1>2, <1>3 DEF Effect, Typed, Rests, SameTables
<1>5. CASE StartGithub
  <2>1. Begin("search") /\ kind = "github" /\ "search" \in Pcs
    BY <1>5 DEF StartGithub, Pcs
  <2>2. kind \notin FileKinds /\ kind # "nvd"
    BY <2>1 DEF FileKinds
  <2> QED
    BY <2>1, <2>2, <1>1, <1>2, <1>3 DEF Effect, Typed, Rests, SameTables
<1>6. CASE StartNvd
  <2>1. kind = "nvd" /\ kind \notin FileKinds /\ upstream.now \in Nat
    BY <1>6 DEF StartNvd, FileKinds, IInv, Paged
  <2>2. PICK pc \in Pcs : pc = IF db.state < upstream.now THEN "page" ELSE "window"
    BY DEF Pcs
  <2>3. run' = [Idle EXCEPT !.pc = pc, !.state = db.state, !.now = upstream.now]
    BY <2>2, <1>6 DEF StartNvd
  <2>4. /\ run' \in Runs /\ run'.touched = {} /\ run'.state = db.state
        /\ run'.pc = pc
        /\ run'.now = upstream.now /\ run'.start = 0 /\ run'.missed = {}
    BY <2>1, <2>3, <1>1, IdleRun DEF Runs
  <2> QED
    BY <2>1, <2>2, <2>4, <1>1, <1>2, <1>6 DEF StartNvd, Effect, Typed, Rests
<1> QED
  BY <1>4, <1>5, <1>6

\* Steps that leave the tables, and the session's cache, as they are.
Calm ==
    /\ UNCHANGED <<kind, upstream, db, session>>
    /\ GoesOn
    /\ \/ run'.pc = run.pc
       \/ /\ kind \in FileKinds /\ run.pc = "get" /\ run'.pc = "commit"
          /\ CacheKnows(session.cache)
       \/ run.pc = "release" /\ run.state = Tag /\ run'.pc = "commit"
       \/ run.pc = "release" /\ run.state # Tag /\ run'.pc = "archive"
       \/ run.pc = "archive" /\ run'.pc = "rows"
       \/ run.pc = "enrich" /\ run'.pc = "commit"
       \/ run.pc = "search" /\ run'.pc = "watch"
       \/ run.pc = "watch" /\ run'.pc = "commit"

\* Retries, answers that change nothing, and the end of a phase.
LEMMA CalmSteps ==
  ASSUME IInv,
         \/ Retry \/ NotModified \/ (SameBody /\ kind \in Deferred) \/ KnownRelease
         \/ NewRelease \/ Archive \/ Enriched \/ SearchesEnd \/ Watched
  PROVE  Calm
<1>0. run \in Runs
  BY Given
<1>1. CASE Retry
  BY <1>0, <1>1, RunRetries DEF Retry, Calm
<1>2. ASSUME Finish
      PROVE  GoesOn /\ run'.pc = "commit"
  <2>1. "commit" \in Pcs
    BY DEF Pcs
  <2> QED
    BY <2>1, <1>0, <1>2, RunSteps DEF Finish
<1>3. CASE NotModified
  <2>1. /\ kind \in FileKinds /\ run.pc = "get" /\ CacheKnows(session.cache)
        /\ Finish /\ UNCHANGED <<kind, upstream, db, session>>
    BY <1>3 DEF NotModified, CacheKnows
  <2>2. GoesOn /\ run'.pc = "commit"
    BY <1>2, <2>1
  <2> QED
    BY <2>1, <2>2 DEF Calm
<1>4. CASE SameBody /\ kind \in Deferred
  BY <1>2, <1>4 DEF SameBody, Calm, CacheKnows
<1>5. CASE KnownRelease
  BY <1>2, <1>5 DEF KnownRelease, Calm
<1>6. CASE NewRelease
  <2>1. "archive" \in Pcs
    BY DEF Pcs
  <2> QED
    BY <2>1, <1>0, <1>6, RunSteps DEF NewRelease, Calm
<1>7. CASE Archive
  <2>1. "rows" \in Pcs
    BY DEF Pcs
  <2> QED
    BY <2>1, <1>0, <1>7, RunMoves DEF Archive, Calm
<1>8. CASE Enriched
  BY <1>2, <1>8 DEF Enriched, Calm
<1>9. CASE SearchesEnd
  <2>1. "watch" \in Pcs
    BY DEF Pcs
  <2> QED
    BY <2>1, <1>0, <1>9, RunMoves DEF SearchesEnd, Calm
<1>10. CASE Watched
  BY <1>2, <1>10 DEF Watched, Calm
<1> QED
  BY <1>1, <1>3, <1>4, <1>5, <1>6, <1>7, <1>8, <1>9, <1>10

\* They keep what the steps rest on.
LEMMA CalmEffect ==
  ASSUME IInv, Calm
  PROVE  Effect /\ Steps'
<1>1. Effect
  BY Given DEF Calm, GoesOn, Effect, Typed, Rests, SameTables
<1>2. run.pc \in StepsOf(kind) /\ (run.pc \in Clean => session = db)
      /\ (run.pc \in {"page", "window"} => run.touched = {})
  BY DEF IInv, Steps
<1>3. run'.pc \in StepsOf(kind)
  BY <1>2, StepsOfKinds, Given DEF Calm, Kinds
<1>4. run'.pc \in Clean => run.pc \in Clean
  BY <1>2 DEF Calm, Clean
<1>5. run'.pc \in {"page", "window"} => run.pc = run'.pc
  BY DEF Calm
<1> QED
  BY <1>1, <1>2, <1>3, <1>4, <1>5, Given DEF Calm, GoesOn, Steps

------------------------------------------------------------------------------
(* Every step keeps the shape, and the scores                               *)

\* What concerns the tables alone.
LEMMA SameTablesKeep ==
  ASSUME NEW d, NEW e, SameTables(e, d)
  PROVE  /\ Keyed(d.rows) => Keyed(e.rows)
         /\ Linked(d) => Linked(e)
         /\ \A c : Current(d, c) => Current(e, c)
<1>1. e.rows = d.rows /\ e.links = d.links /\ e.derived = d.derived
  BY DEF SameTables
<1>2. \A c : Evidence(e, c) = Evidence(d, c)
  BY <1>1 DEF Evidence
<1> QED
  BY <1>1, <1>2 DEF Linked, Current

\* Whatever rows a step writes, keys stay unique, and scores are right where no
\* touched CVE is yet to be recomputed.
LEMMA EffectKeeps ==
  ASSUME IInv, Effect, UNCHANGED kind
  PROVE  Shape' /\ Scored'
<1> DEFINE Good(d) == Keyed(d.rows) /\ Linked(d)
<1>1. /\ db \in Databases /\ session \in Databases /\ kind' \in Kinds
      /\ Good(db) /\ Good(session) /\ Typed
  BY Given DEF Effect
<1>2. /\ \A c \in Cves : Current(db, c)
      /\ \A c \in Cves \ run.touched : Current(session, c)
  BY DEF IInv, Scored
<1>3. SUFFICES /\ Good(db') /\ Good(session')
               /\ \A c \in Cves : Current(db', c)
               /\ \A c \in Cves \ run'.touched : Current(session', c)
  BY <1>1 DEF Shape, Scored, Typed
<1>4. ASSUME SameTables(db', db)
      PROVE  Good(db') /\ \A c \in Cves : Current(db', c)
  BY <1>1, <1>2, <1>4, SameTablesKeep
<1>5. CASE Rests
  <2>1. SameTables(db', db)
    BY <1>5 DEF Rests
  <2>2. CASE SameTables(session', db)
    BY <1>1, <1>2, <1>4, <2>1, <2>2, SameTablesKeep
  <2>3. CASE SameTables(session', session) /\ run.touched \subseteq run'.touched
    <3>1. Good(session')
      BY <1>1, <2>3, SameTablesKeep
    <3>2. \A c \in Cves \ run'.touched : Current(session', c)
      BY <1>2, <2>3, SameTablesKeep
    <3> QED
      BY <1>4, <2>1, <3>1, <3>2
  <2> QED
    BY <1>5, <2>2, <2>3 DEF Rests
<1>6. ASSUME NEW rows \in SUBSET StoredRows, Keyed(rows), Writes(rows)
      PROVE  /\ Good(db') /\ Good(session')
             /\ \A c \in Cves : Current(db', c)
             /\ \A c \in Cves \ run'.touched : Current(session', c)
  <2>1. /\ SameTables(db', db) /\ SameTables(session', Put(session, rows))
        /\ run.touched \cup Named(rows) \subseteq run'.touched
    BY <1>6 DEF Writes
  <2>2. Good(Put(session, rows))
    BY <1>1, <1>6, PutKeeps
  <2>3. \A c \in Cves \ run'.touched : Current(Put(session, rows), c)
    BY <1>1, <1>2, <2>1, PutCurrent
  <2>4. Good(session')
    BY <2>1, <2>2, SameTablesKeep
  <2>5. \A c \in Cves \ run'.touched : Current(session', c)
    BY <2>1, <2>3, SameTablesKeep
  <2> QED
    BY <1>4, <2>1, <2>4, <2>5
<1>7. ASSUME NEW rows \in SUBSET StoredRows, Keyed(rows), NEW touched, Commits(rows, touched)
      PROVE  /\ Good(db') /\ Good(session')
             /\ \A c \in Cves : Current(db', c)
             /\ \A c \in Cves \ run'.touched : Current(session', c)
  <2>1. /\ SameTables(db', Recompute(Put(session, rows), touched))
        /\ session' = db' /\ run.touched \cup Named(rows) \subseteq touched
    BY <1>7 DEF Commits
  <2>2. PICK p \in Databases : p = Put(session, rows)
    BY <1>1, PutFields
  <2>3. Good(p)
    BY <1>1, <1>7, <2>2, PutKeeps
  <2>4. Good(Recompute(p, touched))
    BY <2>3, RecomputeKeeps
  <2>5. \A c \in Cves : c \in touched \/ Current(p, c)
    BY <1>1, <1>2, <2>1, <2>2, PutCurrent
  <2>6. \A c \in Cves : Current(Recompute(p, touched), c)
    BY <2>5, RecomputeCurrent
  <2>7. Good(db')
    BY <2>1, <2>2, <2>4, SameTablesKeep
  <2>8. \A c \in Cves : Current(db', c)
    BY <2>1, <2>2, <2>6, SameTablesKeep
  <2> QED
    BY <2>1, <2>7, <2>8
<1> QED
  BY <1>5, <1>6, <1>7 DEF Effect

------------------------------------------------------------------------------
(* What the steps that are common to all workers, and the importers', do    *)

\* Whose steps they are.
LEMMA StepKinds ==
  ASSUME IInv
  PROVE  /\ run.pc \in {"get", "release", "archive", "rows", "insert"} => kind \in FileKinds
         /\ run.pc \in {"page", "window", "enrich"} => kind = "nvd"
         /\ run.pc \in {"search", "watch"} => kind = "github"
         /\ kind \in FileKinds => kind # "nvd" /\ kind # "github"
<1>1. run.pc \in StepsOf(kind) /\ kind \in FileKinds \cup {"nvd", "github"}
  BY Given DEF Steps, Kinds
<1> QED
  BY <1>1, StepsOfKinds

\* One field of a database is written: the validators in http_cache.
LEMMA CacheFields ==
  ASSUME NEW d \in Databases, NEW v \in Caches
  PROVE  LET e == [d EXCEPT !.cache = v]
         IN  /\ e \in Databases /\ SameTables(e, d)
             /\ e.cache = v /\ e.state = d.state
BY DEF Databases, SameTables

\* The same of sources.state,
LEMMA StateFields ==
  ASSUME NEW d \in Databases, NEW v \in States
  PROVE  LET e == [d EXCEPT !.state = v]
         IN  /\ e \in Databases /\ SameTables(e, d) /\ e.cache = d.cache
             /\ e.state = v /\ e.checked = d.checked /\ e.missed = d.missed
BY DEF Databases, SameTables

\* of the records that were missed,
LEMMA MissedFields ==
  ASSUME NEW d \in Databases, NEW v \in SUBSET Cves
  PROVE  LET e == [d EXCEPT !.missed = v]
         IN  /\ e \in Databases /\ SameTables(e, d)
             /\ e.state = d.state /\ e.missed = v
BY DEF Databases, SameTables

\* and of github_checked_at.
LEMMA CheckedFields ==
  ASSUME NEW d \in Databases, NEW c \in Cves, NEW v \in Nat
  PROVE  LET e == [d EXCEPT !.checked[c] = v]
         IN  /\ e \in Databases /\ SameTables(e, d) /\ e.state = d.state
             /\ e.checked = [d.checked EXCEPT ![c] = v]
BY DEF Databases, SameTables

\* The document that is served, and its validators.
LEMMA ServedShape ==
  ASSUME IInv, kind \in FileKinds
  PROVE  /\ upstream \in [etag : Nat, digest : DOMAIN Bodies] /\ upstream \in Caches
         /\ DOMAIN Bodies = 1 .. Len(Bodies) /\ Len(Bodies) \in Nat
         /\ Validators(upstream) \in Caches
         /\ Validators(upstream).etag = upstream.etag
         /\ Validators(upstream).digest = Digest(upstream)
<1>1. upstream \in [etag : Nat, digest : DOMAIN Bodies]
  BY DEF IInv, Filed
<1>2. DOMAIN Bodies = 1 .. Len(Bodies) /\ Len(Bodies) \in Nat
  BY FilesAssumption DEF FilesAssumption
<1>3. upstream.etag \in Nat /\ upstream.digest \in Nat /\ upstream \in Caches
  BY <1>1, <1>2 DEF Caches
<1>4. Digest(upstream) \in Nat
  BY <1>3 DEF Digest
<1> QED
  BY <1>1, <1>2, <1>3, <1>4 DEF Validators, Caches

\* The document that a run has got.
LEMMA GotShape ==
  ASSUME IInv, run.pc \in {"release", "archive", "rows", "insert"}
  PROVE  /\ kind \in FileKinds /\ run.got \in Caches /\ run.got.digest \in DOMAIN Bodies
         /\ run.got.etag \in Nat /\ run.got.digest \in Nat
         /\ Served(run.got, upstream) /\ Tag \in States
         /\ Validators(run.got) \in Caches
         /\ Validators(run.got).etag = run.got.etag
         /\ Validators(run.got).digest = Digest(run.got)
<1>1. kind \in FileKinds
  BY StepKinds
<1>2. Served(run.got, upstream)
  BY <1>1 DEF IInv, Filed
<1>3. run.got \in [etag : Nat, digest : DOMAIN Bodies]
  BY <1>2 DEF Served
<1>4. run.got.etag \in Nat /\ run.got.digest \in Nat /\ run.got \in Caches
      /\ run.got.digest \in DOMAIN Bodies
  BY <1>1, <1>3, ServedShape DEF Caches
<1>5. Digest(run.got) \in Nat
  BY <1>4 DEF Digest
<1>6. Tag \in States
  BY <1>4 DEF Tag, States
<1> QED
  BY <1>1, <1>2, <1>4, <1>5, <1>6 DEF Validators, Caches

\* A run that fails, or is killed.
LEMMA FailMeans ==
  ASSUME IInv, Fail
  PROVE  /\ Effect /\ Steps'
         /\ UNCHANGED <<kind, upstream, db>> /\ session' = db /\ run' = Idle
<1>1. UNCHANGED <<kind, upstream, db>> /\ session' = db /\ run' = Idle
  BY DEF Fail
<1>2. Effect
  BY <1>1, Given, IdleRun DEF Effect, Typed, Rests, SameTables
<1> QED
  BY <1>1, <1>2, Given, IdleRun, StepsOfKinds DEF Steps, Clean

\* To put nothing changes nothing.
LEMMA PutNothing ==
  ASSUME NEW d \in Databases
  PROVE  Put(d, {}) = d /\ Named({}) = {}
<1>1. Put(d, {}) = [d EXCEPT !.rows = d.rows, !.links = d.links]
  BY DEF Put, Keys
<1>2. Put(d, {}) = d
  BY <1>1 DEF Databases
<1> QED
  BY <1>2 DEF Named

\* What is recomputed depends on rows, links and derived fields.
LEMMA RecomputeSame ==
  ASSUME NEW d \in Databases, NEW e \in Databases, SameTables(d, e), NEW cves
  PROVE  SameTables(Recompute(d, cves), Recompute(e, cves))
<1>1. \A c : Evidence(d, c) = Evidence(e, c)
  BY DEF SameTables, Evidence
<1>2. \A x \in {d, e} :
         Recompute(x, cves).rows = x.rows /\ Recompute(x, cves).links = x.links
  BY RecomputeRest
<1>3. d.rows = e.rows /\ d.links = e.links /\ d.derived = e.derived
  BY DEF SameTables
<1>4. [c \in Cves |-> IF c \in cves THEN Evidence(d, c) ELSE d.derived[c]]
        = [c \in Cves |-> IF c \in cves THEN Evidence(e, c) ELSE e.derived[c]]
  BY <1>1, <1>3
<1>5. Recompute(d, cves).derived = Recompute(e, cves).derived
  <2>1. Recompute(d, cves).derived
          = [c \in Cves |-> IF c \in cves THEN Evidence(d, c) ELSE d.derived[c]]
    BY RecomputeFields
  <2>2. Recompute(e, cves).derived
          = [c \in Cves |-> IF c \in cves THEN Evidence(e, c) ELSE e.derived[c]]
    BY RecomputeFields
  <2> QED
    BY <2>1, <2>2, <1>4
<1>6. /\ Recompute(d, cves).rows = Recompute(e, cves).rows
      /\ Recompute(d, cves).links = Recompute(e, cves).links
  BY <1>2, <1>3
<1> QED
  BY <1>5, <1>6 DEF SameTables

\* The commit at the end of a run.
LEMMA CommitMeans ==
  ASSUME IInv, Commit
  PROVE  /\ Effect /\ Steps'
         /\ UNCHANGED <<kind, upstream>> /\ run.pc = "commit"
         /\ db'.rows = session.rows /\ db'.links = session.links
         /\ db'.cache = session.cache /\ db'.state = session.state
         /\ db'.checked = session.checked /\ db'.missed = session.missed
         /\ session' = db' /\ GoesOn /\ run'.pc = "save"
<1>1. PICK t : t = run.touched
  OBVIOUS
<1>2. PICK e \in Databases : e = Recompute(session, t)
  BY Given, RecomputeFields
<1>3. /\ e.rows = session.rows /\ e.links = session.links /\ e.cache = session.cache
      /\ e.state = session.state /\ e.checked = session.checked
      /\ e.missed = session.missed
  <2>1. session \in Databases
    BY Given
  <2>2. /\ Recompute(session, t).rows = session.rows
        /\ Recompute(session, t).links = session.links
        /\ Recompute(session, t).cache = session.cache
        /\ Recompute(session, t).state = session.state
        /\ Recompute(session, t).checked = session.checked
        /\ Recompute(session, t).missed = session.missed
    BY <2>1, RecomputeRest
  <2> QED
    BY <1>2, <2>2
<1>4. db' = e /\ session' = e /\ UNCHANGED <<kind, upstream>> /\ run.pc = "commit"
  BY <1>1, <1>2 DEF Commit
<1>5. "save" \in Pcs /\ run' = [run EXCEPT !.pc = "save"]
  BY DEF Commit, Pcs
<1>6. GoesOn /\ run'.pc = "save"
  BY <1>5, Given, RunSteps
<1>7. Put(session, {}) = session /\ Named({}) = {}
  BY Given, PutNothing
<1>9. Commits({}, t)
  BY <1>1, <1>2, <1>4, <1>7 DEF Commits, SameTables
<1>10. Effect
  <2>1. {} \in SUBSET StoredRows /\ Keyed({})
    BY DEF Keyed
  <2> QED
    BY <2>1, <1>4, <1>6, <1>9 DEF Effect, Typed, GoesOn
<1> QED
  BY <1>3, <1>4, <1>6, <1>10, StepsOfKinds DEF Steps

\* The state is saved after it.
LEMMA SaveMeans ==
  ASSUME IInv, SaveState
  PROVE  /\ Effect /\ Steps'
         /\ UNCHANGED <<kind, upstream>> /\ run.pc = "save" /\ session = db
         /\ SameTables(db', db) /\ db'.cache = db.cache /\ db'.checked = db.checked
         /\ db'.missed = db.missed /\ db'.state = run.state
         /\ session' = db' /\ run' = Idle
<1>1. PICK v \in States : v = run.state
  BY Given DEF Runs
<1>2. PICK e \in Databases : e = [db EXCEPT !.state = v]
  BY Given, StateFields
<1>3. /\ SameTables(e, db) /\ e.cache = db.cache /\ e.checked = db.checked
      /\ e.missed = db.missed /\ e.state = run.state
  BY <1>1, <1>2, Given, StateFields
<1>4. db' = e /\ session' = e /\ run' = Idle /\ UNCHANGED <<kind, upstream>>
      /\ run.pc = "save"
  BY <1>1, <1>2 DEF SaveState
<1>5. session = db
  BY <1>4, Given DEF Steps, Clean
<1>6. Effect
  BY <1>3, <1>4, IdleRun DEF Effect, Typed, Rests
<1> QED
  BY <1>3, <1>4, <1>5, <1>6, IdleRun, StepsOfKinds DEF Steps

\* The source's side.
LEMMA PublishMeans ==
  ASSUME IInv, Publish \/ Redeploy
  PROVE  /\ Effect /\ Steps'
         /\ kind \in FileKinds /\ UNCHANGED <<kind, db, session, run>>
         /\ upstream' \in [etag : Nat, digest : DOMAIN Bodies]
         /\ upstream'.etag = upstream.etag + 1
         /\ Publish => upstream'.digest = upstream.digest + 1
         /\ Redeploy => upstream'.digest = upstream.digest
<1>1. kind \in FileKinds /\ UNCHANGED <<kind, db, session, run>>
  BY DEF Publish, Redeploy
<1>2. Effect /\ Steps'
  BY <1>1, Given DEF Effect, Typed, Rests, SameTables, Steps
<1>3. CASE Publish
  <2>1. upstream' = [etag |-> upstream.etag + 1, digest |-> upstream.digest + 1]
        /\ upstream.digest < Len(Bodies)
    BY <1>3 DEF Publish
  <2>2. upstream.digest + 1 \in DOMAIN Bodies /\ upstream.etag + 1 \in Nat
    BY <2>1, <1>1, ServedShape
  <2>3. Redeploy => upstream'.digest = upstream.digest
    BY <1>1, ServedShape DEF Redeploy
  <2> QED
    BY <1>1, <1>2, <2>1, <2>2, <2>3
<1>4. CASE Redeploy
  <2>1. upstream' = [upstream EXCEPT !.etag = upstream.etag + 1]
    BY <1>4, <1>1, ServedShape DEF Redeploy
  <2>2. upstream.etag + 1 \in Nat /\ upstream \in [etag : Nat, digest : DOMAIN Bodies]
    BY <1>1, ServedShape
  <2>3. /\ upstream' \in [etag : Nat, digest : DOMAIN Bodies]
        /\ upstream'.etag = upstream.etag + 1 /\ upstream'.digest = upstream.digest
    BY <2>1, <2>2
  <2>4. ~Publish
    <3> SUFFICES ASSUME Publish
                 PROVE  FALSE
      OBVIOUS
    <3>1. upstream'.digest = upstream.digest + 1
      BY DEF Publish
    <3> QED
      BY <3>1, <2>3, <1>1, ServedShape
  <2> QED
    BY <1>1, <1>2, <2>3, <2>4
<1> QED
  BY <1>3, <1>4

\* The body that is remembered, where its validators are stored at once.
LEMMA SameBodyMeans ==
  ASSUME IInv, SameBody, kind \notin Deferred
  PROVE  /\ Effect /\ Steps'
         /\ kind \in FileKinds /\ UNCHANGED <<kind, upstream, db>> /\ run.pc = "get"
         /\ session.cache.digest = Digest(upstream)
         /\ SameTables(session', session) /\ session'.cache = Validators(upstream)
         /\ session'.state = session.state
         /\ GoesOn /\ run'.pc = "commit"
<1>1. /\ kind \in FileKinds /\ UNCHANGED <<kind, upstream, db>> /\ run.pc = "get"
      /\ session.cache.digest = Digest(upstream) /\ Finish
      /\ session' = [session EXCEPT !.cache = Validators(upstream)]
  BY DEF SameBody
<1>2. PICK v \in Caches : v = Validators(upstream)
  BY <1>1, ServedShape
<1>3. LET e == [session EXCEPT !.cache = v]
      IN  e \in Databases /\ SameTables(e, session) /\ e.cache = v /\ e.state = session.state
  BY Given, CacheFields
<1>4. /\ session' \in Databases /\ SameTables(session', session)
      /\ session'.cache = Validators(upstream) /\ session'.state = session.state
  BY <1>1, <1>2, <1>3
<1>5. "commit" \in Pcs /\ run' = [run EXCEPT !.pc = "commit"]
  BY <1>1 DEF Finish, Pcs
<1>6. GoesOn /\ run'.pc = "commit"
  BY <1>5, Given, RunSteps
<1>7. Effect
  BY <1>1, <1>4, <1>6, Given DEF Effect, Typed, Rests, GoesOn, SameTables
<1>8. session.state = db.state /\ run'.pc \in StepsOf(kind) /\ run'.pc \notin Clean
  BY <1>1, <1>6, Given, StepsOfKinds DEF Steps, Clean
<1> QED
  BY <1>1, <1>4, <1>6, <1>7, <1>8 DEF Steps

\* A new body.
LEMMA NewBodyMeans ==
  ASSUME IInv, NewBody
  PROVE  /\ Effect /\ Steps'
         /\ kind \in FileKinds /\ UNCHANGED <<kind, upstream, db>> /\ run.pc = "get"
         /\ session = db /\ session.cache.digest # Digest(upstream)
         /\ SameTables(session', session) /\ session'.state = session.state
         /\ session'.cache = IF kind \in Deferred THEN session.cache
                             ELSE Validators(upstream)
         /\ run'.pc = IF kind = "sigma" THEN "release" ELSE "rows"
         /\ run'.got = upstream /\ run'.state = run.state
<1>1. /\ kind \in FileKinds /\ UNCHANGED <<kind, upstream, db>> /\ run.pc = "get"
      /\ session.cache.digest # Digest(upstream)
      /\ session' = IF kind \in Deferred THEN session
                    ELSE [session EXCEPT !.cache = Validators(upstream)]
  BY DEF NewBody
<1>2. PICK v \in Caches : v = Validators(upstream)
  BY <1>1, ServedShape
<1>3. LET e == [session EXCEPT !.cache = v]
      IN  e \in Databases /\ SameTables(e, session) /\ e.cache = v /\ e.state = session.state
  BY Given, CacheFields
<1>4. /\ session' \in Databases /\ SameTables(session', session)
      /\ session'.state = session.state
      /\ session'.cache = IF kind \in Deferred THEN session.cache
                          ELSE Validators(upstream)
  <2>1. CASE kind \in Deferred
    BY <1>1, <2>1, Given DEF SameTables
  <2>2. CASE kind \notin Deferred
    BY <1>1, <1>2, <1>3, <2>2
  <2> QED
    BY <2>1, <2>2
<1>5. PICK pc \in Pcs : pc = IF kind = "sigma" THEN "release" ELSE "rows"
  BY DEF Pcs
<1>6. 1 \in 1 .. MaxRetries + 1 /\ upstream \in Caches
  BY RunAssumption, ServedShape, <1>1 DEF RunAssumption
<1>7. run' = [run EXCEPT !.pc = pc, !.attempt = 1, !.got = upstream]
  BY <1>5 DEF NewBody
<1>8. /\ run' \in Runs /\ run'.pc = pc /\ run'.got = upstream /\ run'.state = run.state
      /\ run'.touched = run.touched
  BY <1>6, <1>7, Given DEF Runs
<1>9. Effect
  BY <1>1, <1>4, <1>8, Given DEF Effect, Typed, Rests, SameTables
<1>10. session = db /\ session.state = db.state
  BY <1>1, Given DEF Steps, Clean
<1>11. run'.pc \in StepsOf(kind)
  BY <1>1, <1>5, <1>8, StepsOfKinds
<1>12. run'.pc \in Clean => session' = db'
  <2> SUFFICES ASSUME kind \notin Deferred, pc \in Clean
               PROVE  FALSE
    BY <1>1, <1>8, <1>10
  <2> QED
    BY <1>5 DEF Deferred, Clean
<1>13. run'.pc \notin {"page", "window"}
  BY <1>5, <1>8
<1> QED
  BY <1>1, <1>4, <1>5, <1>8, <1>9, <1>10, <1>11, <1>12, <1>13 DEF Steps

\* The rows are read: some are written over the ones that are stored.
LEMMA ReadRowsMeans ==
  ASSUME IInv, ReadRows
  PROVE  /\ Effect /\ Steps'
         /\ UNCHANGED <<kind, upstream, db>> /\ run.pc = "rows"
         /\ session' = Put(session, {At(i) : i \in Overwriting})
         /\ run'.pc = IF kind \in Deferred THEN "insert" ELSE "commit"
         /\ run'.got = run.got /\ run'.new = Inserted
         /\ kind # "cisa_kev" => run'.state = run.state
<1>1. run.pc = "rows" /\ UNCHANGED <<kind, upstream, db>>
  BY DEF ReadRows
<1>2. kind \in FileKinds /\ run.got.digest \in DOMAIN Bodies /\ Tag \in States
  BY <1>1, GotShape
<1>3. PICK w : w = {At(i) : i \in Overwriting}
  OBVIOUS
<1>4. w \in SUBSET StoredRows /\ Keyed(w)
  BY <1>2, <1>3, OverwritingKeyed, PlacesKeyed
<1>5. session' = Put(session, w)
  BY <1>3 DEF ReadRows
<1>6. session' \in Databases /\ session'.state = session.state
  BY <1>4, <1>5, Given, PutFields
<1>7. PICK pc \in Pcs : pc = IF kind \in Deferred THEN "insert" ELSE "commit"
  BY DEF Pcs
<1>8. PICK st \in States : st = IF kind = "cisa_kev" THEN Tag ELSE run.state
  BY <1>2, Given DEF Runs
<1>9. PICK tc \in SUBSET Cves : tc = run.touched \cup Named(w)
  <2>1. Named(w) \subseteq Cves
    BY <1>4 DEF Named, StoredRows
  <2> QED
    BY <2>1, Given DEF Runs
<1>10. PICK new \in SUBSET Nat : new = Inserted
  BY <1>2, OverwritingKeyed, RowsOfGot
<1>11. run' = [run EXCEPT !.pc = pc, !.touched = tc, !.state = st, !.new = new]
  BY <1>3, <1>7, <1>8, <1>9, <1>10, Given DEF ReadRows, Runs
<1>12. /\ run' \in Runs /\ run'.pc = pc /\ run'.touched = tc /\ run'.state = st
       /\ run'.new = new /\ run'.got = run.got
  BY <1>11, Given DEF Runs
<1>13. Effect
  <2>1. Writes(w)
    BY <1>1, <1>5, <1>9, <1>12 DEF Writes, SameTables
  <2> QED
    BY <2>1, <1>1, <1>4, <1>6, <1>12, Given DEF Effect, Typed
<1>14. Steps'
  <2>1. run'.pc \in StepsOf(kind) /\ run'.pc \notin Clean /\ run'.pc \notin {"page", "window"}
    BY <1>2, <1>7, <1>12, StepsOfKinds DEF Clean
  <2> QED
    BY <2>1, <1>1, <1>6, Given DEF Steps
<1> QED
  BY <1>1, <1>3, <1>5, <1>7, <1>8, <1>10, <1>12, <1>13, <1>14

\* A chunk is inserted and committed.
LEMMA InsertChunkMeans ==
  ASSUME IInv, InsertChunk
  PROVE  /\ Effect /\ Steps'
         /\ UNCHANGED <<kind, upstream>> /\ run.pc = "insert" /\ kind \in Deferred
         /\ run.got.digest \in DOMAIN Bodies /\ session' = db'
         /\ FirstChunk \subseteq run.new
         /\ session'.rows = Put(session, {At(i) : i \in FirstChunk}).rows
         /\ session'.links = Put(session, {At(i) : i \in FirstChunk}).links
         /\ session'.cache = session.cache /\ session'.state = run.state
         /\ run'.pc = "insert" /\ run'.got = run.got /\ run'.state = run.state
         /\ run'.new = run.new \ FirstChunk
<1>1. run.pc = "insert" /\ UNCHANGED <<kind, upstream>>
  BY DEF InsertChunk
<1>2. kind \in FileKinds /\ run.got.digest \in DOMAIN Bodies /\ kind \in Deferred /\ Pending
  BY <1>1, GotShape DEF IInv, Filed
<1>3. FirstChunk \subseteq run.new
  BY DEF FirstChunk
<1>4. PICK w : w = {At(i) : i \in FirstChunk}
  OBVIOUS
<1>5. w \in SUBSET StoredRows /\ Keyed(w)
  <2>1. /\ FirstChunk \in SUBSET Parsed
        /\ \A i, j \in FirstChunk : At(i).key = At(j).key => i = j
    BY <1>2, <1>3 DEF Pending
  <2> QED
    BY <1>2, <1>4, <2>1, PlacesKeyed
<1>6. PICK p \in Databases : p = Put(session, w)
  BY <1>5, Given, PutFields
<1>7. p.cache = session.cache
  BY <1>5, <1>6, Given, PutFields
<1>8. PICK tc \in SUBSET Cves : tc = run.touched \cup Named(w)
  <2>1. Named(w) \subseteq Cves
    BY <1>5 DEF Named, StoredRows
  <2> QED
    BY <2>1, Given DEF Runs
<1>9. PICK new \in SUBSET Nat : new = run.new \ FirstChunk
  BY Given DEF Runs
<1>10. PICK next \in Runs : next = [run EXCEPT !.new = new, !.touched = tc]
  BY Given DEF Runs
<1>11. Checkpoint(p, next)
  <2>1. Checkpoint(Put(session, w),
                   [run EXCEPT !.new = run.new \ FirstChunk,
                               !.touched = run.touched \cup Named(w)])
    BY <1>4, Given DEF InsertChunk, Runs
  <2> QED
    BY <2>1, <1>6, <1>8, <1>9, <1>10
<1>12. next.pc = "insert" /\ next.got = run.got /\ next.state = run.state
       /\ next.new = new /\ next.touched = tc
  BY <1>1, <1>10, Given DEF Runs
<1>13. /\ db' \in Databases /\ session' = db' /\ run' \in Runs
       /\ SameTables(db', Recompute(p, tc))
       /\ db'.rows = p.rows /\ db'.links = p.links /\ db'.cache = p.cache
       /\ db'.state = run.state
       /\ run'.pc = "insert" /\ run'.got = run.got /\ run'.new = new /\ run'.state = run.state
  BY <1>11, <1>12, CheckpointMeans
<1>14. Effect
  <2>1. Commits(w, tc)
    BY <1>6, <1>8, <1>13 DEF Commits
  <2> QED
    BY <2>1, <1>5, <1>13 DEF Effect, Typed
<1>15. Steps'
  BY <1>1, <1>2, <1>13, StepsOfKinds, Given DEF Steps, Clean
<1> QED
  BY <1>1, <1>2, <1>3, <1>4, <1>6, <1>7, <1>9, <1>13, <1>14, <1>15

\* The document is remembered.
LEMMA RememberMeans ==
  ASSUME IInv, Remember
  PROVE  /\ Effect /\ Steps'
         /\ UNCHANGED <<kind, upstream, db>> /\ run.pc = "insert" /\ run.new = {}
         /\ kind \in Deferred
         /\ SameTables(session', session) /\ session'.cache = Validators(run.got)
         /\ session'.state = session.state
         /\ run'.pc = "commit" /\ run'.got = run.got
         /\ run'.state = IF kind = "sigma" THEN Tag ELSE run.state
<1>1. /\ run.pc = "insert" /\ run.new = {} /\ UNCHANGED <<kind, upstream, db>>
      /\ session' = [session EXCEPT !.cache = Validators(run.got)]
  BY DEF Remember
<1>2. kind \in FileKinds /\ kind \in Deferred /\ Tag \in States
      /\ Validators(run.got) \in Caches
  BY <1>1, GotShape DEF IInv, Filed
<1>3. PICK v \in Caches : v = Validators(run.got)
  BY <1>2
<1>4. LET e == [session EXCEPT !.cache = v]
      IN  e \in Databases /\ SameTables(e, session) /\ e.cache = v /\ e.state = session.state
  BY Given, CacheFields
<1>5. /\ session' \in Databases /\ SameTables(session', session)
      /\ session'.cache = Validators(run.got) /\ session'.state = session.state
  BY <1>1, <1>3, <1>4
<1>6. PICK st \in States : st = IF kind = "sigma" THEN Tag ELSE run.state
  BY <1>2, Given DEF Runs
<1>7. "commit" \in Pcs /\ run' = [run EXCEPT !.pc = "commit", !.state = st]
  BY <1>6, Given DEF Remember, Runs, Pcs
<1>8. /\ run' \in Runs /\ run'.pc = "commit" /\ run'.state = st /\ run'.got = run.got
      /\ run'.touched = run.touched
  BY <1>7, Given DEF Runs
<1>9. Effect
  BY <1>1, <1>5, <1>8, Given DEF Effect, Typed, Rests, SameTables
<1>10. Steps'
  BY <1>1, <1>5, <1>8, StepsOfKinds, Given DEF Steps, Clean
<1> QED
  BY <1>1, <1>2, <1>5, <1>6, <1>8, <1>9, <1>10

------------------------------------------------------------------------------
(* The importers: what counts as read was imported                          *)

\* A tag tells one document from the others.
LEMMA TagsDiffer ==
  ASSUME NEW m \in DOMAIN Bodies, NEW n \in DOMAIN Bodies
  PROVE  Bodies[m].tag # None /\ (Bodies[m].tag = Bodies[n].tag => m = n)
BY FilesAssumption DEF FilesAssumption

\* A key and a revision tell one row that can be read from the others.
LEMMA RowsDiffer ==
  ASSUME NEW r \in FileRows, NEW s \in FileRows, r.ok, s.ok, r.key = s.key, r.rev = s.rev
  PROVE  r = s
BY FilesAssumption DEF FilesAssumption

\* What was imported is a matter of rows and links.
LEMMA SameImported ==
  ASSUME NEW d, NEW e, e.rows = d.rows, e.links = d.links
  PROVE  /\ FromFiles(d) => FromFiles(e)
         /\ \A n : ImportedIn(d, n) => ImportedIn(e, n)
BY DEF FromFiles, ImportedIn

\* Writing rows of the document that a run has got keeps links beside rows.
LEMMA PutFromFiles ==
  ASSUME IInv, run.got.digest \in DOMAIN Bodies, NEW ps \in SUBSET Parsed,
         \A i, j \in ps : At(i).key = At(j).key => i = j, FromFiles(session)
  PROVE  LET e == Put(session, {At(i) : i \in ps})
         IN  /\ FromFiles(e)
             /\ \A i \in ps : At(i) \in e.rows
             /\ \A r \in session.rows : (\A i \in ps : At(i).key # r.key) => r \in e.rows
<1>1. PICK w : w = {At(i) : i \in ps}
  OBVIOUS
<1>2. w \in SUBSET StoredRows /\ Keyed(w)
  BY <1>1, PlacesKeyed
<1>3. PICK e : e = Put(session, w)
  OBVIOUS
<1>4. /\ e.rows = {r \in session.rows : r.key \notin Keys(w)} \cup w
      /\ e.links = session.links \cup LinksOf(w)
  BY <1>2, <1>3, Given, PutFields
<1>5. \A r \in w : r \in FileRows /\ r.ok
  BY <1>1, RowsOfGot
<1>6. \A r \in w : \A c \in r.cves : <<r.key, c>> \in e.links
  BY <1>4, LinksOfRows
<1>7. FromFiles(e)
  BY <1>4, <1>5, <1>6 DEF FromFiles
<1>8. \A i \in ps : At(i) \in e.rows
  BY <1>1, <1>4
<1>9. \A r \in session.rows : (\A i \in ps : At(i).key # r.key) => r \in e.rows
  BY <1>1, <1>4 DEF Keys
<1> QED
  BY <1>1, <1>3, <1>7, <1>8, <1>9

\* All rows of the document are stored where none of them is missing.
LEMMA AllImported ==
  ASSUME run.got.digest \in DOMAIN Bodies, NEW d, FromFiles(d),
         \A i \in Parsed : \E r \in d.rows :
            r.key = At(i).key /\ \E j \in DOMAIN Rows : r = At(j)
  PROVE  ImportedIn(d, run.got.digest)
<1>1. PICK n : n = run.got.digest
  OBVIOUS
<1>2. Rows = Bodies[n].rows
  BY <1>1 DEF Rows
<1>3. ASSUME NEW i \in DOMAIN Bodies[n].rows, Bodies[n].rows[i].ok
      PROVE  \E r \in d.rows :
                /\ r.key = Bodies[n].rows[i].key
                /\ \E j \in DOMAIN Bodies[n].rows : Bodies[n].rows[j] = r
                /\ \A c \in r.cves : <<r.key, c>> \in d.links
  <2>1. i \in Parsed /\ At(i) = Bodies[n].rows[i]
    BY <1>2, <1>3 DEF Parsed, At
  <2>2. PICK r \in d.rows : r.key = At(i).key /\ \E j \in DOMAIN Rows : r = At(j)
    BY <2>1
  <2>3. \A c \in r.cves : <<r.key, c>> \in d.links
    BY DEF FromFiles
  <2> QED
    BY <2>1, <2>2, <2>3, <1>2 DEF At
<1> QED
  BY <1>1, <1>3 DEF ImportedIn

\* After the rows are read, each that can be read is stored or to be inserted.
LEMMA ReadRowsCovers ==
  ASSUME IInv, run.pc = "rows", NEW e, e = Put(session, {At(i) : i \in Overwriting})
  PROVE  /\ FromFiles(e)
         /\ \A i \in Parsed :
              \/ kind \in Deferred /\ \E j \in Inserted : At(j).key = At(i).key
              \/ \E r \in e.rows : r.key = At(i).key /\ \E j \in DOMAIN Rows : r = At(j)
<1>1. kind \in FileKinds /\ run.got.digest \in DOMAIN Bodies
  BY GotShape
<1>2. FromFiles(session)
  BY <1>1 DEF IInv, Filed
<1>3. /\ Overwriting \in SUBSET Parsed
      /\ \A i, j \in Overwriting : At(i).key = At(j).key => i = j
  BY <1>1, OverwritingKeyed
<1>4. /\ FromFiles(e)
      /\ \A i \in Overwriting : At(i) \in e.rows
      /\ \A r \in session.rows : (\A i \in Overwriting : At(i).key # r.key) => r \in e.rows
  BY <1>1, <1>2, <1>3, PutFromFiles
<1>5. \A i \in Parsed : i \in DOMAIN Rows /\ At(i) \in FileRows /\ At(i).ok
                        /\ At(i).rev \in Nat \ {0}
  BY <1>1, RowsOfGot
\* A row that is stored as it stands in the document, and is not overwritten, stays.
<1>6. ASSUME NEW i \in Parsed, Rev(session, At(i).key) = At(i).rev,
             \A k \in Overwriting : At(k).key # At(i).key
      PROVE  At(i) \in e.rows
  <2>1. At(i).key \in Keys(session.rows)
    BY <1>5, <1>6 DEF Rev
  <2>2. PICK r \in session.rows : r.key = At(i).key
    BY <2>1 DEF Keys
  <2>3. r.rev = At(i).rev
    BY <2>2, <1>6, Given, RevOf
  <2>4. r = At(i)
    BY <2>2, <2>3, <1>2, <1>5, RowsDiffer DEF FromFiles
  <2> QED
    BY <2>2, <2>4, <1>4, <1>6
<1>7. ASSUME NEW i \in Parsed, NEW j \in Parsed, At(j).key = At(i).key, At(j) \in e.rows
      PROVE  \E r \in e.rows : r.key = At(i).key /\ \E k \in DOMAIN Rows : r = At(k)
  BY <1>5, <1>7
<1>8. ASSUME NEW i \in Parsed
      PROVE  \/ kind \in Deferred /\ \E j \in Inserted : At(j).key = At(i).key
             \/ \E j \in Parsed : At(j).key = At(i).key /\ At(j) \in e.rows
  <2>1. PICK f \in Twins(i) : FirstOf(f)
    BY <1>1, TwinsEnd
  <2>2. f \in Parsed /\ At(f).key = At(i).key /\ (Exists(f) <=> Exists(i))
    BY <2>1 DEF Twins, Exists
  <2>3. CASE kind \in Deferred /\ ~Exists(i)
    BY <2>1, <2>2, <2>3 DEF Inserted
  <2>4. CASE kind \in {"sigma", "abusech"} /\ Exists(i)
    <3>1. f \in Overwriting
      BY <2>1, <2>2, <2>4 DEF Overwriting
    <3> QED
      BY <2>2, <3>1, <1>4
  <2>5. CASE kind = "exploitdb" /\ Exists(i)
    <3> DEFINE changed == {k \in Parsed : Exists(k) /\ Rev(session, At(k).key) # At(k).rev}
    <3>1. Overwriting = {k \in changed : LastOf(changed, k)} /\ changed \in SUBSET Parsed
      BY <2>5 DEF Overwriting
    <3> HIDE DEF changed
    <3>2. CASE Twins(i) \cap changed # {}
      <4>1. PICK j \in Twins(i) \cap changed : LastOf(changed, j)
        BY <3>1, <3>2, <1>1, TwinsEnd
      <4> QED
        BY <4>1, <3>1, <1>4 DEF Twins
    <3>3. CASE Twins(i) \cap changed = {}
      <4>1. i \in Twins(i)
        BY DEF Twins
      <4>2. Rev(session, At(i).key) = At(i).rev
        BY <4>1, <3>3, <2>5 DEF changed
      <4>3. \A k \in Overwriting : At(k).key # At(i).key
        BY <3>1, <3>3 DEF Twins
      <4> QED
        BY <4>2, <4>3, <1>6
    <3> QED
      BY <3>2, <3>3
  <2>6. CASE kind \notin Deferred
    <3>1. Overwriting =
            {k \in Parsed : LastOf(Parsed, k) /\ Rev(session, At(k).key) # At(k).rev}
      BY <2>6 DEF Overwriting, Deferred
    <3>2. PICK j \in Twins(i) \cap Parsed : LastOf(Parsed, j)
      <4>1. i \in Twins(i) \cap Parsed
        BY DEF Twins
      <4> QED
        BY <4>1, <1>1, TwinsEnd
    <3>3. j \in Parsed /\ At(j).key = At(i).key
      BY <3>2 DEF Twins
    <3>4. CASE j \in Overwriting
      BY <3>3, <3>4, <1>4
    <3>5. CASE j \notin Overwriting
      <4>1. Rev(session, At(j).key) = At(j).rev
        BY <3>1, <3>2, <3>3, <3>5
      <4>2. ASSUME NEW k \in Overwriting, At(k).key = At(j).key
            PROVE  FALSE
        <5>1. k \in Parsed /\ LastOf(Parsed, k) /\ k \in Twins(j) /\ j \in Twins(k)
          BY <4>2, <3>1, <3>3 DEF Twins
        <5>2. k <= j /\ j <= k /\ k \in Nat /\ j \in Nat
          BY <5>1, <3>2, <3>3, <1>1, RowsOfGot DEF LastOf
        <5> QED
          BY <5>2, <4>2, <3>5
      <4> QED
        BY <4>1, <4>2, <3>3, <1>6
    <3> QED
      BY <3>4, <3>5
  <2> QED
    BY <2>3, <2>4, <2>5, <2>6 DEF Deferred
<1> QED
  BY <1>4, <1>7, <1>8

\* The invariant of the importers, in pieces.
LEMMA FiledParts ==
  ASSUME IInv, kind \in FileKinds
  PROVE  /\ upstream.etag \in Nat /\ upstream.digest \in Nat
         /\ upstream.digest \in DOMAIN Bodies
         /\ \A d \in {db, session} :
              /\ Earlier(d.cache, upstream) /\ FromFiles(d)
              /\ d.cache.etag \in Nat /\ d.cache.digest \in Nat
         /\ TagSeen(db.state, upstream) /\ TagSeen(run.state, upstream)
         /\ CacheKnows(db.cache) \/ StateKnows(db.state) => ImportedIn(db, upstream.digest)
<1>1. db.cache \in Caches /\ session.cache \in Caches
  BY Given DEF Databases
<1> QED
  BY <1>1, ServedShape DEF IInv, Filed, Caches

\* What waits to be inserted depends on the run and the session's rows.
LEMMA SamePending ==
  ASSUME run'.got = run.got, run'.new = run.new, session' = session, Pending
  PROVE  Pending'
<1>1. Rows' = Rows /\ \A i : At(i)' = At(i)
  BY DEF Rows, At
<1>2. Parsed' = Parsed
  BY <1>1 DEF Parsed
<1> QED
  BY <1>1, <1>2 DEF Pending

\* A newer document, or the same under a new validator, is not yet known.
LEMMA PublishFiled ==
  ASSUME IInv, Publish \/ Redeploy
  PROVE  Filed'
<1>1. /\ kind \in FileKinds /\ UNCHANGED <<kind, db, session, run>>
      /\ upstream' \in [etag : Nat, digest : DOMAIN Bodies]
      /\ upstream'.etag = upstream.etag + 1
      /\ Publish => upstream'.digest = upstream.digest + 1
      /\ Redeploy => upstream'.digest = upstream.digest
  BY PublishMeans
<1>2. upstream'.digest \in {upstream.digest, upstream.digest + 1}
      /\ upstream'.digest \in DOMAIN Bodies
  BY <1>1
<1>3. ASSUME NEW c \in Caches, Earlier(c, upstream)
      PROVE  /\ Earlier(c, upstream)'
             /\ (c.etag = upstream'.etag \/ c.digest = Digest(upstream)') =>
                  CacheKnows(c) /\ upstream'.digest = upstream.digest
  <2>1. c.etag \in Nat /\ c.digest \in Nat
    BY DEF Caches
  <2> QED
    BY <2>1, <1>1, <1>2, <1>3, FiledParts DEF Earlier, Digest, CacheKnows
<1>4. ASSUME NEW s, TagSeen(s, upstream)
      PROVE  /\ TagSeen(s, upstream)'
             /\ kind = "sigma" /\ s = Bodies[upstream'.digest].tag =>
                  StateKnows(s) /\ upstream'.digest = upstream.digest
  <2>1. DOMAIN Bodies \subseteq Nat
    BY <1>1, ServedShape
  <2>2. TagSeen(s, upstream)'
    BY <2>1, <1>1, <1>2, <1>4, FiledParts DEF TagSeen
  <2>3. ASSUME kind = "sigma", s = Bodies[upstream'.digest].tag
        PROVE  upstream'.digest = upstream.digest
    <3>1. s # None
      BY <1>2, <2>3, TagsDiffer
    <3>2. PICK n \in DOMAIN Bodies : n <= upstream.digest /\ s = Bodies[n].tag
      BY <3>1, <2>3, <1>4 DEF TagSeen
    <3>3. n = upstream'.digest
      BY <3>2, <2>3, <1>2, TagsDiffer
    <3> QED
      BY <3>2, <3>3, <2>1, <1>1, <1>2, FiledParts
  <2> QED
    BY <2>2, <2>3 DEF StateKnows
<1>5. session.state = db.state
  BY Given DEF Steps
<1>6. /\ db.cache \in Caches /\ session.cache \in Caches
      /\ Earlier(db.cache, upstream) /\ Earlier(session.cache, upstream)
      /\ TagSeen(db.state, upstream) /\ TagSeen(run.state, upstream)
      /\ FromFiles(db) /\ FromFiles(session)
  BY <1>1, Given, FiledParts DEF Databases
<1>7. /\ Earlier(db.cache, upstream)' /\ Earlier(session.cache, upstream)'
      /\ TagSeen(db.state, upstream)' /\ TagSeen(run.state, upstream)'
      /\ FromFiles(db)' /\ FromFiles(session)'
  BY <1>1, <1>3, <1>4, <1>6
<1>8. /\ CacheKnows(db.cache)' => CacheKnows(db.cache) /\ upstream'.digest = upstream.digest
      /\ CacheKnows(session.cache)' =>
           CacheKnows(session.cache) /\ upstream'.digest = upstream.digest
  BY <1>1, <1>3, <1>6 DEF CacheKnows
<1>9. /\ StateKnows(db.state)' => StateKnows(db.state) /\ upstream'.digest = upstream.digest
      /\ StateKnows(session.state)' =>
           StateKnows(session.state) /\ upstream'.digest = upstream.digest
      /\ StateKnows(run.state)' => StateKnows(run.state) /\ upstream'.digest = upstream.digest
  BY <1>1, <1>4, <1>5, <1>6 DEF StateKnows
<1>10. (CacheKnows(db.cache) \/ StateKnows(db.state) => ImportedIn(db, upstream.digest))'
  BY <1>1, <1>8, <1>9, FiledParts
<1>11. ASSUME run.pc \in {"release", "archive", "rows", "insert"}
       PROVE  Served(run.got, upstream)'
  BY <1>1, <1>2, <1>11, GotShape, FiledParts DEF Served
<1>12. (run.pc = "insert" => kind \in Deferred /\ Pending)'
  <2>1. ASSUME run.pc = "insert"
        PROVE  kind \in Deferred /\ Pending
    BY <2>1, <1>1 DEF IInv, Filed
  <2>2. Pending => Pending'
    BY <1>1, SamePending
  <2> QED
    BY <2>1, <2>2, <1>1
<1>13. (run.pc = "rows" /\ kind \notin Deferred => session.cache = Validators(run.got))'
  <2>1. Validators(run.got)' = Validators(run.got)
    BY <1>1 DEF Validators, Digest
  <2> QED
    BY <2>1, <1>1 DEF IInv, Filed
<1>14. (/\ run.pc \in {"commit", "save"}
        /\ CacheKnows(session.cache) \/ StateKnows(run.state) \/ StateKnows(session.state)
        => ImportedIn(session, upstream.digest))'
  BY <1>1, <1>8, <1>9 DEF IInv, Filed
<1>15. (run.pc \in {"release", "archive", "rows", "insert"} =>
             /\ Served(run.got, upstream) /\ ~CacheKnows(db.cache)
             /\ kind \in Deferred => ~CacheKnows(session.cache)
             /\ StateKnows(db.state) =>
                  run.pc = "release" /\ run.got.digest = upstream.digest)'
  BY <1>1, <1>8, <1>9, <1>11 DEF IInv, Filed
<1>16. /\ (run.pc \in {"get", "release", "archive", "rows", "insert"} /\ kind = "sigma"
             => run.state = db.state)'
       /\ (run.pc \in {"release", "archive"} => kind = "sigma")'
  BY <1>1 DEF IInv, Filed
<1> QED
  BY <1>1, <1>7, <1>10, <1>12, <1>13, <1>14, <1>15, <1>16 DEF Filed

\* While the source serves the same, the invariant is about db, session and run.
LEMMA FiledFrom ==
  ASSUME kind \in FileKinds, upstream \in [etag : Nat, digest : DOMAIN Bodies],
         UNCHANGED <<kind, upstream>>,
         \A d \in {db', session'} : Earlier(d.cache, upstream) /\ FromFiles(d),
         TagSeen(db'.state, upstream), TagSeen(run'.state, upstream),
         CacheKnows(db'.cache) \/ StateKnows(db'.state) => ImportedIn(db', upstream.digest),
         run'.pc \in {"get", "release", "archive", "rows", "insert"} /\ kind = "sigma"
           => run'.state = db'.state,
         run'.pc \in {"release", "archive", "rows", "insert"} =>
           /\ Served(run'.got, upstream) /\ ~CacheKnows(db'.cache)
           /\ kind \in Deferred => ~CacheKnows(session'.cache)
           /\ StateKnows(db'.state) =>
                run'.pc = "release" /\ run'.got.digest = upstream.digest,
         run'.pc \in {"release", "archive"} => kind = "sigma",
         run'.pc = "rows" /\ kind \notin Deferred => session'.cache = Validators(run'.got),
         run'.pc = "insert" => kind \in Deferred /\ Pending',
         /\ run'.pc \in {"commit", "save"}
         /\ CacheKnows(session'.cache) \/ StateKnows(run'.state) \/ StateKnows(session'.state)
         => ImportedIn(session', upstream.digest)
  PROVE  Filed'
<1>1. \A c : (c.etag = upstream'.etag \/ c.digest = Digest(upstream)') <=> CacheKnows(c)
  BY DEF CacheKnows, Digest
<1>2. \A s : (kind' = "sigma" /\ s = Bodies[upstream'.digest].tag) <=> StateKnows(s)
  BY DEF StateKnows
<1>3. /\ CacheKnows(db.cache)' <=> CacheKnows(db'.cache)
      /\ CacheKnows(session.cache)' <=> CacheKnows(session'.cache)
      /\ StateKnows(db.state)' <=> StateKnows(db'.state)
      /\ StateKnows(run.state)' <=> StateKnows(run'.state)
      /\ StateKnows(session.state)' <=> StateKnows(session'.state)
  BY <1>1, <1>2 DEF CacheKnows, StateKnows
<1>4. /\ Earlier(db.cache, upstream)' /\ Earlier(session.cache, upstream)'
      /\ TagSeen(db.state, upstream)' /\ TagSeen(run.state, upstream)'
  BY DEF Earlier, Digest, TagSeen
<1>5. Validators(run.got)' = Validators(run'.got)
  BY DEF Validators, Digest
<1>6. (/\ run.pc \in {"commit", "save"}
       /\ CacheKnows(session.cache) \/ StateKnows(run.state) \/ StateKnows(session.state)
       => ImportedIn(session, upstream.digest))'
  BY <1>3
<1>7. (run.pc \in {"release", "archive", "rows", "insert"} =>
             /\ Served(run.got, upstream) /\ ~CacheKnows(db.cache)
             /\ kind \in Deferred => ~CacheKnows(session.cache)
             /\ StateKnows(db.state) =>
                  run.pc = "release" /\ run.got.digest = upstream.digest)'
  BY <1>3
<1> QED
  BY <1>3, <1>4, <1>5, <1>6, <1>7 DEF Filed

\* A run has not got the rest of what is remembered.
LEMMA RunParts ==
  ASSUME IInv, kind \in FileKinds
  PROVE  /\ run.pc \in {"get", "release", "archive", "rows", "insert"} /\ kind = "sigma"
              => run.state = db.state
         /\ run.pc \in {"release", "archive", "rows", "insert"} =>
              /\ Served(run.got, upstream) /\ ~CacheKnows(db.cache)
              /\ kind \in Deferred => ~CacheKnows(session.cache)
              /\ StateKnows(db.state) =>
                   run.pc = "release" /\ run.got.digest = upstream.digest
         /\ run.pc \in {"release", "archive"} => kind = "sigma"
         /\ run.pc = "rows" /\ kind \notin Deferred => session.cache = Validators(run.got)
         /\ run.pc = "insert" => kind \in Deferred /\ Pending
         /\ /\ run.pc \in {"commit", "save"}
            /\ CacheKnows(session.cache) \/ StateKnows(run.state) \/ StateKnows(session.state)
            => ImportedIn(session, upstream.digest)
BY DEF IInv, Filed

\* The common steps.
LEMMA CommonFiled ==
  ASSUME IInv, kind \in FileKinds, Fail \/ Commit \/ SaveState \/ StartFile
  PROVE  Filed'
<1>1. upstream \in [etag : Nat, digest : DOMAIN Bodies]
  BY ServedShape
<1>2. session.state = db.state /\ (run.pc \in Clean => session = db)
  BY Given DEF Steps
<1>3. TagSeen(None, upstream)
  BY DEF TagSeen
<1>4. CASE Fail \/ StartFile
  <2>1. /\ UNCHANGED <<kind, upstream, db>> /\ session' = db
        /\ TagSeen(run'.state, upstream)
        /\ run'.pc = "idle" \/ (run'.pc = "get" /\ run'.state = db.state)
    <3>1. CASE Fail
      <4>1. UNCHANGED <<kind, upstream, db>> /\ session' = db /\ run' = Idle
        BY <3>1, FailMeans
      <4>2. Idle.state = None
        BY DEF Idle
      <4> QED
        BY <4>1, <4>2, <1>3, IdleRun
    <3>2. CASE StartFile
      BY <3>2, StartsEffect, FiledParts
    <3> QED
      BY <1>4, <3>1, <3>2
  <2>2. run'.pc \notin {"release", "archive", "rows", "insert", "commit", "save"}
    BY <2>1
  <2>3. run'.pc \in {"get", "release", "archive", "rows", "insert"} => run'.state = db.state
    BY <2>1
  <2> QED
    BY <1>1, <2>1, <2>2, <2>3, FiledParts, FiledFrom
<1>5. CASE Commit
  <2>1. /\ UNCHANGED <<kind, upstream>> /\ run.pc = "commit"
        /\ db'.rows = session.rows /\ db'.links = session.links
        /\ db'.cache = session.cache /\ db'.state = session.state
        /\ session' = db' /\ run'.state = run.state /\ run'.pc = "save"
    BY <1>5, CommitMeans DEF GoesOn
  <2>2. FromFiles(db') /\ Earlier(db'.cache, upstream)
    BY <2>1, FiledParts, SameImported
  <2>3. ImportedIn(session, upstream.digest) => ImportedIn(db', upstream.digest)
    BY <2>1, SameImported
  <2>4. run'.pc \notin {"get", "release", "archive", "rows", "insert"}
    BY <2>1
  <2>5. CacheKnows(db'.cache) \/ StateKnows(run'.state) \/ StateKnows(db'.state)
          => ImportedIn(db', upstream.digest)
    BY <2>1, <2>3, RunParts
  <2>6. TagSeen(db'.state, upstream) /\ TagSeen(run'.state, upstream)
    BY <2>1, <1>2, FiledParts
  <2> QED
    BY <1>1, <2>1, <2>2, <2>4, <2>5, <2>6, FiledFrom
<1>6. CASE SaveState
  <2>1. /\ UNCHANGED <<kind, upstream>> /\ run.pc = "save" /\ session = db
        /\ SameTables(db', db) /\ db'.cache = db.cache /\ db'.state = run.state
        /\ session' = db' /\ run' = Idle
    BY <1>6, SaveMeans
  <2>2. FromFiles(db') /\ Earlier(db'.cache, upstream)
    BY <2>1, FiledParts, SameImported DEF SameTables
  <2>3. ImportedIn(db, upstream.digest) => ImportedIn(db', upstream.digest)
    BY <2>1, SameImported DEF SameTables
  <2>4. run'.pc = "idle" /\ run'.state = None
    BY <2>1 DEF Idle
  <2>5. CacheKnows(db'.cache) \/ StateKnows(db'.state) => ImportedIn(db', upstream.digest)
    BY <2>1, <2>3, RunParts, FiledParts
  <2>6. TagSeen(db'.state, upstream) /\ TagSeen(run'.state, upstream)
    BY <2>1, <2>4, <1>3, FiledParts
  <2>7. run'.pc \notin {"get", "release", "archive", "rows", "insert", "commit", "save"}
    BY <2>4
  <2> QED
    BY <1>1, <2>1, <2>2, <2>5, <2>6, <2>7, FiledFrom
<1> QED
  BY <1>4, <1>5, <1>6

\* Steps that write nothing.
LEMMA CalmFiled ==
  ASSUME IInv, kind \in FileKinds, Calm
  PROVE  Filed'
<1>1. /\ UNCHANGED <<kind, upstream, db, session>>
      /\ run'.new = run.new /\ run'.state = run.state /\ run'.got = run.got
  BY DEF Calm, GoesOn
<1>2. session.state = db.state /\ (run.pc \in Clean => session = db)
  BY Given DEF Steps
<1>3. Pending => Pending'
  BY <1>1, SamePending
<1>4. upstream \in [etag : Nat, digest : DOMAIN Bodies]
  BY ServedShape
<1>5. Served(run.got, upstream) /\ run.pc \in {"release", "archive", "rows", "insert"} =>
        run.got.digest \in DOMAIN Bodies /\ Tag = Bodies[run.got.digest].tag
  BY GotShape DEF Tag
<1>6. CASE run'.pc = run.pc
  BY <1>1, <1>3, <1>4, <1>6, FiledParts, RunParts, FiledFrom
<1>7. CASE run.pc = "get" /\ run'.pc = "commit" /\ CacheKnows(session.cache)
  <2>1. session = db
    BY <1>2, <1>7 DEF Clean
  <2>2. ImportedIn(session, upstream.digest)
    BY <2>1, <1>7, FiledParts
  <2>3. run'.pc \notin {"get", "release", "archive", "rows", "insert"}
    BY <1>7
  <2> QED
    BY <1>1, <1>4, <2>2, <2>3, FiledParts, FiledFrom
<1>8. CASE run.pc = "release" /\ run.state = Tag /\ run'.pc = "commit"
  <2>1. session = db /\ kind = "sigma" /\ run.state = db.state /\ ~CacheKnows(db.cache)
    BY <1>2, <1>8, RunParts DEF Clean
  <2>2. CacheKnows(session.cache) \/ StateKnows(run.state) \/ StateKnows(session.state)
           => ImportedIn(session, upstream.digest)
    BY <2>1, FiledParts
  <2>3. run'.pc \notin {"get", "release", "archive", "rows", "insert"}
    BY <1>8
  <2> QED
    BY <1>1, <1>4, <2>2, <2>3, FiledParts, FiledFrom
<1>9. CASE run.pc = "release" /\ run.state # Tag /\ run'.pc = "archive"
  <2>1. kind = "sigma" /\ run.state = db.state
    BY <1>9, RunParts
  <2>2. ~StateKnows(db.state)
    <3> SUFFICES ASSUME StateKnows(db.state)
                 PROVE  FALSE
      OBVIOUS
    <3>1. run.got.digest = upstream.digest
      BY <1>9, RunParts
    <3> QED
      BY <3>1, <2>1, <1>9 DEF StateKnows, Tag
  <2>3. run'.pc \notin {"rows", "insert", "commit", "save"}
    BY <1>9
  <2> QED
    BY <1>1, <1>4, <1>9, <2>1, <2>2, <2>3, FiledParts, RunParts, FiledFrom
<1>10. CASE run.pc = "archive" /\ run'.pc = "rows"
  <2>1. kind = "sigma" /\ run.state = db.state /\ ~StateKnows(db.state)
    BY <1>10, RunParts
  <2>2. kind \in Deferred
    BY <2>1 DEF Deferred
  <2>3. run'.pc \notin {"release", "archive", "insert", "commit", "save"}
    BY <1>10
  <2> QED
    BY <1>1, <1>4, <1>10, <2>1, <2>2, <2>3, FiledParts, RunParts, FiledFrom
<1> QED
  BY <1>6, <1>7, <1>8, <1>9, <1>10, StepKinds DEF Calm

\* The answer to a conditional request.
LEMMA BodyFiled ==
  ASSUME IInv, (SameBody /\ kind \notin Deferred) \/ NewBody
  PROVE  Filed'
<1>1. kind \in FileKinds /\ UNCHANGED <<kind, upstream, db>> /\ run.pc = "get"
      /\ SameTables(session', session) /\ session'.state = session.state
      /\ run'.state = run.state
  BY SameBodyMeans, NewBodyMeans DEF GoesOn
<1>2. upstream \in [etag : Nat, digest : DOMAIN Bodies]
  BY <1>1, ServedShape
<1>3. session = db /\ session.state = db.state
  BY <1>1, Given DEF Steps, Clean
<1>4. FromFiles(session') /\ FromFiles(db')
      /\ (ImportedIn(db, upstream.digest) => ImportedIn(session', upstream.digest))
  BY <1>1, <1>3, FiledParts, SameImported DEF SameTables
<1>5. Earlier(Validators(upstream), upstream) /\ Earlier(session.cache, upstream)
      /\ Earlier(db.cache, upstream)
  <2>1. Digest(upstream) \in Nat
    BY <1>1, FiledParts DEF Digest
  <2> QED
    BY <2>1, <1>1, FiledParts, ServedShape DEF Earlier
<1>6. TagSeen(db'.state, upstream) /\ TagSeen(run'.state, upstream)
      /\ (CacheKnows(db'.cache) \/ StateKnows(db'.state) => ImportedIn(db', upstream.digest))
  BY <1>1, FiledParts
<1>7. kind = "sigma" => run.state = db.state
  BY <1>1, RunParts
<1>8. CASE SameBody /\ kind \notin Deferred
  <2>1. /\ session.cache.digest = Digest(upstream) /\ session'.cache = Validators(upstream)
        /\ run'.pc = "commit"
    BY <1>8, SameBodyMeans
  <2>2. ImportedIn(session', upstream.digest)
    BY <2>1, <1>1, <1>3, <1>4, FiledParts DEF CacheKnows
  <2>3. run'.pc \notin {"get", "release", "archive", "rows", "insert"}
    BY <2>1
  <2> QED
    BY <1>1, <1>2, <1>4, <1>5, <1>6, <2>1, <2>2, <2>3, FiledFrom
<1>9. CASE NewBody
  <2>1. /\ session.cache.digest # Digest(upstream)
        /\ session'.cache = IF kind \in Deferred THEN session.cache ELSE Validators(upstream)
        /\ run'.pc = IF kind = "sigma" THEN "release" ELSE "rows"
        /\ run'.got = upstream
    BY <1>9, NewBodyMeans
  <2>2. ~CacheKnows(db.cache)
    BY <2>1, <1>3, <1>5 DEF CacheKnows, Earlier
  <2>3. Served(run'.got, upstream)
    BY <2>1, <1>1, <1>2, FiledParts DEF Served
  <2>4. StateKnows(db'.state) => run'.pc = "release" /\ run'.got.digest = upstream.digest
    BY <2>1 DEF StateKnows
  <2>5. kind \in Deferred => ~CacheKnows(session'.cache)
    BY <2>1, <2>2, <1>3
  <2>6. kind = "sigma" => kind \in Deferred
    BY DEF Deferred
  <2>7. /\ Earlier(db'.cache, upstream) /\ Earlier(session'.cache, upstream)
    BY <2>1, <1>1, <1>5
  <2>8. /\ run'.pc \in {"release", "archive"} => kind = "sigma"
        /\ run'.pc \notin {"insert", "commit", "save"}
        /\ kind \notin Deferred => session'.cache = Validators(run'.got)
    BY <2>1
  <2>9. /\ ~CacheKnows(db'.cache)
        /\ kind = "sigma" => run'.state = db'.state
    BY <2>2, <1>1, <1>7
  <2>10. kind \in FileKinds /\ UNCHANGED <<kind, upstream>>
    BY <1>1
  <2> QED
    BY <1>2, <1>4, <1>6, <2>3, <2>4, <2>5, <2>7, <2>8, <2>9, <2>10, FiledFrom
<1> QED
  BY <1>8, <1>9

\* The rows are read: of what is not deferred, all are stored then.
LEMMA ReadRowsFiled ==
  ASSUME IInv, ReadRows
  PROVE  Filed'
<1>1. /\ UNCHANGED <<kind, upstream, db>> /\ run.pc = "rows"
      /\ session' = Put(session, {At(i) : i \in Overwriting})
      /\ run'.pc = IF kind \in Deferred THEN "insert" ELSE "commit"
      /\ run'.got = run.got /\ run'.new = Inserted
      /\ kind # "cisa_kev" => run'.state = run.state
      /\ Steps'
  BY ReadRowsMeans
<1>2. kind \in FileKinds /\ run.got.digest \in DOMAIN Bodies
      /\ upstream \in [etag : Nat, digest : DOMAIN Bodies]
  BY <1>1, GotShape, ServedShape
<1>3. session'.cache = session.cache /\ session'.state = session.state
  <2>1. {At(i) : i \in Overwriting} \in SUBSET StoredRows
    BY <1>2, OverwritingKeyed, PlacesKeyed
  <2> QED
    BY <2>1, <1>1, Given, PutFields
<1>4. /\ FromFiles(session')
      /\ \A i \in Parsed :
           \/ kind \in Deferred /\ \E j \in Inserted : At(j).key = At(i).key
           \/ \E r \in session'.rows : r.key = At(i).key /\ \E j \in DOMAIN Rows : r = At(j)
  BY <1>1, ReadRowsCovers
<1>5. /\ Served(run.got, upstream) /\ ~CacheKnows(db.cache) /\ ~StateKnows(db.state)
      /\ kind \in Deferred => ~CacheKnows(session.cache)
      /\ kind = "sigma" => run.state = db.state
      /\ kind \notin Deferred => session.cache = Validators(run.got)
  BY <1>1, <1>2, RunParts
<1>6. TagSeen(db'.state, upstream) /\ TagSeen(run'.state, upstream)
  <2>1. kind = "cisa_kev" => kind # "sigma"
    OBVIOUS
  <2> QED
    BY <2>1, <1>1, <1>2, FiledParts DEF TagSeen
<1>7. /\ Earlier(db'.cache, upstream) /\ Earlier(session'.cache, upstream)
      /\ FromFiles(db')
  BY <1>1, <1>2, <1>3, FiledParts
<1>8. ~CacheKnows(db'.cache) /\ ~StateKnows(db'.state)
  BY <1>1, <1>5
<1>9. kind = "sigma" => kind \in Deferred /\ run'.state = db'.state
  BY <1>1, <1>5 DEF Deferred
<1>10. CASE kind \in Deferred
  <2>1. run'.pc = "insert"
    BY <1>1, <1>10
  <2>2. Pending'
    <3>1. Parsed' = Parsed /\ DOMAIN Rows' = DOMAIN Rows /\ \A i : At(i)' = At(i)
      BY <1>1 DEF Parsed, At, Rows
    <3>2. /\ run'.new \subseteq Parsed
          /\ \A i, j \in run'.new : At(i).key = At(j).key => i = j
      BY <1>1, <1>2, OverwritingKeyed
    <3>3. \A i \in Parsed :
             \/ \E j \in run'.new : At(j).key = At(i).key
             \/ \E r \in session'.rows : r.key = At(i).key /\ \E j \in DOMAIN Rows : r = At(j)
      BY <1>1, <1>4
    <3> QED
      BY <3>1, <3>2, <3>3 DEF Pending
  <2>3. Served(run'.got, upstream) /\ ~CacheKnows(session'.cache)
    BY <1>1, <1>3, <1>5, <1>10
  <2>4. run'.pc \notin {"release", "archive", "rows", "commit", "save"}
    BY <2>1
  <2>5. UNCHANGED <<kind, upstream>>
    BY <1>1
  <2> QED
    BY <1>2, <1>4, <1>6, <1>7, <1>8, <1>9, <1>10, <2>2, <2>3, <2>4, <2>5, FiledFrom
<1>11. CASE kind \notin Deferred
  <2>1. run'.pc = "commit"
    BY <1>1, <1>11
  <2>2. kind # "sigma"
    BY <1>11 DEF Deferred
  <2>3. ImportedIn(session', run.got.digest)
    BY <1>2, <1>4, <1>11, AllImported
  <2>4. CacheKnows(session'.cache) => run.got.digest = upstream.digest
    <3>1. session'.cache.etag = run.got.etag /\ session'.cache.digest = Digest(run.got)
      BY <1>1, <1>3, <1>5, <1>11, GotShape
    <3> QED
      BY <3>1, <2>2, <1>5 DEF CacheKnows, Digest, Served
  <2>5. ~StateKnows(run'.state) /\ ~StateKnows(session'.state)
    BY <2>2 DEF StateKnows
  <2>6. run'.pc \notin {"get", "release", "archive", "rows", "insert"}
    BY <2>1
  <2>7. UNCHANGED <<kind, upstream>>
    BY <1>1
  <2> QED
    BY <1>2, <1>4, <1>6, <1>7, <1>8, <2>3, <2>4, <2>5, <2>6, <2>7, FiledFrom
<1> QED
  BY <1>10, <1>11

\* A chunk takes what it stores out of what waits.
LEMMA InsertChunkFiled ==
  ASSUME IInv, InsertChunk
  PROVE  Filed'
<1>1. /\ UNCHANGED <<kind, upstream>> /\ run.pc = "insert" /\ kind \in Deferred
      /\ run.got.digest \in DOMAIN Bodies /\ session' = db'
      /\ FirstChunk \subseteq run.new
      /\ session'.rows = Put(session, {At(i) : i \in FirstChunk}).rows
      /\ session'.links = Put(session, {At(i) : i \in FirstChunk}).links
      /\ session'.cache = session.cache /\ session'.state = run.state
      /\ run'.pc = "insert" /\ run'.got = run.got /\ run'.state = run.state
      /\ run'.new = run.new \ FirstChunk
  BY InsertChunkMeans
<1>2. kind \in FileKinds /\ upstream \in [etag : Nat, digest : DOMAIN Bodies]
  BY <1>1, GotShape, ServedShape
<1>3. Pending /\ Served(run.got, upstream) /\ ~CacheKnows(session.cache)
      /\ ~StateKnows(db.state) /\ (kind = "sigma" => run.state = db.state)
  BY <1>1, <1>2, RunParts
<1>4. PICK e : e = Put(session, {At(i) : i \in FirstChunk})
  OBVIOUS
<1>5. /\ FirstChunk \in SUBSET Parsed
      /\ \A i, j \in FirstChunk : At(i).key = At(j).key => i = j
  BY <1>1, <1>3 DEF Pending
<1>6. /\ FromFiles(e)
      /\ \A i \in FirstChunk : At(i) \in e.rows
      /\ \A r \in session.rows : (\A i \in FirstChunk : At(i).key # r.key) => r \in e.rows
  BY <1>1, <1>2, <1>4, <1>5, FiledParts, PutFromFiles
<1>7. session'.rows = e.rows /\ session'.links = e.links
  BY <1>1, <1>4
<1>8. FromFiles(session') /\ FromFiles(db')
  BY <1>1, <1>6, <1>7, SameImported
<1>9. Pending'
  <2>1. Parsed' = Parsed /\ DOMAIN Rows' = DOMAIN Rows /\ \A i : At(i)' = At(i)
    BY <1>1 DEF Parsed, At, Rows
  <2>2. Parsed \subseteq DOMAIN Rows
    BY DEF Parsed
  <2>3. /\ run'.new \subseteq Parsed
        /\ \A i, j \in run'.new : At(i).key = At(j).key => i = j
    BY <1>1, <1>3 DEF Pending
  <2>4. ASSUME NEW i \in Parsed
        PROVE  \/ \E j \in run'.new : At(j).key = At(i).key
               \/ \E r \in e.rows : r.key = At(i).key /\ \E j \in DOMAIN Rows : r = At(j)
    <3>1. CASE \E j \in FirstChunk : At(j).key = At(i).key
      BY <3>1, <2>2, <1>5, <1>6
    <3>2. CASE \A j \in FirstChunk : At(j).key # At(i).key
      <4>1. CASE \E j \in run.new : At(j).key = At(i).key
        BY <3>2, <4>1, <1>1
      <4>2. CASE \E r \in session.rows : r.key = At(i).key /\ \E j \in DOMAIN Rows : r = At(j)
        BY <3>2, <4>2, <1>6
      <4> QED
        BY <4>1, <4>2, <1>3 DEF Pending
    <3> QED
      BY <3>1, <3>2
  <2> QED
    BY <2>1, <2>3, <2>4, <1>7 DEF Pending
<1>10. TagSeen(db'.state, upstream) /\ TagSeen(run'.state, upstream)
       /\ Earlier(db'.cache, upstream) /\ Earlier(session'.cache, upstream)
  BY <1>1, <1>2, FiledParts
<1>11. ~CacheKnows(session'.cache) /\ ~CacheKnows(db'.cache) /\ ~StateKnows(db'.state)
  <2>1. StateKnows(run.state) => kind = "sigma"
    BY DEF StateKnows
  <2>2. ~StateKnows(run.state)
    BY <2>1, <1>3
  <2> QED
    BY <2>2, <1>1, <1>3
<1>12. /\ run'.state = db'.state /\ Served(run'.got, upstream)
       /\ run'.pc \notin {"release", "archive", "rows", "commit", "save"}
  BY <1>1, <1>3
<1>13. kind \in Deferred /\ UNCHANGED <<kind, upstream>>
  BY <1>1
<1> QED
  BY <1>2, <1>8, <1>9, <1>10, <1>11, <1>12, <1>13, FiledFrom

\* Nothing waits any more: the document is remembered.
LEMMA RememberFiled ==
  ASSUME IInv, Remember
  PROVE  Filed'
<1>1. /\ UNCHANGED <<kind, upstream, db>> /\ run.pc = "insert" /\ run.new = {}
      /\ kind \in Deferred
      /\ SameTables(session', session) /\ session'.cache = Validators(run.got)
      /\ session'.state = session.state
      /\ run'.pc = "commit" /\ run'.got = run.got
      /\ run'.state = IF kind = "sigma" THEN Tag ELSE run.state
  BY RememberMeans
<1>2. kind \in FileKinds /\ upstream \in [etag : Nat, digest : DOMAIN Bodies]
      /\ run.got.digest \in DOMAIN Bodies /\ run.got.etag \in Nat /\ run.got.digest \in Nat
      /\ session'.cache.etag = run.got.etag /\ session'.cache.digest = Digest(run.got)
  BY <1>1, GotShape, ServedShape
<1>3. Pending /\ Served(run.got, upstream) /\ ~CacheKnows(db.cache)
      /\ ~StateKnows(db.state) /\ session.state = db.state
  BY <1>1, <1>2, RunParts, Given DEF Steps
<1>4. ImportedIn(session, run.got.digest)
  <2>1. \A i \in Parsed : \E r \in session.rows :
            r.key = At(i).key /\ \E j \in DOMAIN Rows : r = At(j)
    BY <1>1, <1>3 DEF Pending
  <2> QED
    BY <2>1, <1>2, FiledParts, AllImported
<1>5. ImportedIn(session', run.got.digest) /\ FromFiles(session') /\ FromFiles(db')
  BY <1>1, <1>2, <1>4, FiledParts, SameImported DEF SameTables
<1>6. CacheKnows(session'.cache) \/ StateKnows(run'.state) \/ StateKnows(session'.state)
        => run.got.digest = upstream.digest
  <2>1. CacheKnows(session'.cache) => run.got.digest = upstream.digest
    BY <1>2, <1>3 DEF CacheKnows, Digest, Served
  <2>2. StateKnows(run'.state) => run.got.digest = upstream.digest
    <3> SUFFICES ASSUME StateKnows(run'.state)
                 PROVE  run.got.digest = upstream.digest
      OBVIOUS
    <3>1. Bodies[run.got.digest].tag = Bodies[upstream.digest].tag
      BY <1>1 DEF StateKnows, Tag
    <3> QED
      BY <3>1, <1>2, TagsDiffer
  <2>3. ~StateKnows(session'.state)
    BY <1>1, <1>3
  <2> QED
    BY <2>1, <2>2, <2>3
<1>7. Earlier(session'.cache, upstream) /\ Earlier(db'.cache, upstream)
  <2>1. Earlier(session'.cache, upstream)
    BY <1>2, <1>3, FiledParts DEF Earlier, Digest, Served
  <2> QED
    BY <2>1, <1>1, <1>2, FiledParts
<1>8. TagSeen(db'.state, upstream) /\ TagSeen(run'.state, upstream)
  <2>1. kind = "sigma" => TagSeen(Tag, upstream)
    BY <1>2, <1>3 DEF TagSeen, Tag, Served
  <2> QED
    BY <2>1, <1>1, <1>2, FiledParts
<1>9. ~CacheKnows(db'.cache) /\ ~StateKnows(db'.state)
  BY <1>1, <1>3
<1>10. /\ run'.pc \notin {"get", "release", "archive", "rows", "insert"}
       /\ UNCHANGED <<kind, upstream>>
  BY <1>1
<1> QED
  BY <1>2, <1>5, <1>6, <1>7, <1>8, <1>9, <1>10, FiledFrom

------------------------------------------------------------------------------
(* NVD: the cursor covers what it passed                                    *)

\* The invariant of NVD's run, in pieces.
LEMMA NvdParts ==
  ASSUME IInv, kind = "nvd"
  PROVE  /\ upstream \in [now : Nat, body : [Cves -> Nat]] /\ upstream.now \in Nat
         /\ \A c \in Cves : upstream.body[c] \in Nat
         /\ \A d \in {db, session} : d.state \in Nat /\ Covers(d) /\ d.state <= upstream.now
         /\ run.now \in Nat /\ run.start \in Nat
         /\ run.missed \in SUBSET Cves /\ session.missed \in SUBSET Cves
         /\ session.state = db.state
         /\ kind \notin FileKinds /\ kind # "github"
BY Given, StepKinds DEF IInv, Paged, Runs, Databases, Steps

\* The window that is read.
LEMMA WindowShape ==
  ASSUME IInv, kind = "nvd", run.pc # "idle"
  PROVE  /\ run.state \in Nat /\ run.state = db.state /\ run.now <= upstream.now
         /\ WindowEnd \in Nat /\ WindowEnd <= run.now
         /\ run.state < run.now => run.state < WindowEnd
         /\ MaxWindow \in Nat \ {0}
<1>1. /\ run.state \in Nat /\ run.state = db.state /\ run.now <= upstream.now
      /\ run.now \in Nat
  BY NvdParts DEF IInv, Paged
<1>2. MaxWindow \in Nat \ {0}
  BY ApiAssumption DEF ApiAssumption
<1> QED
  BY <1>1, <1>2 DEF WindowEnd

\* The hits come one after the other.
LEMMA IndexShape ==
  /\ IsFiniteSet(Hits) /\ Cardinality(Hits) \in Nat /\ Hits \subseteq Cves
  /\ \A c : Index(c) \in Nat
  /\ \A c \in Hits : Index(c) < Cardinality(Hits)
<1>1. IsFiniteSet(Hits) /\ Cardinality(Hits) \in Nat /\ Hits \subseteq Cves
  <2>1. Hits \subseteq Cves
    BY DEF Hits, HitsIn
  <2>2. IsFiniteSet(Hits)
    BY <2>1, FS_Subset, RunAssumption DEF RunAssumption
  <2> QED
    BY <2>1, <2>2, FS_CardinalityType
<1>2. \A c : Index(c) \in Nat
  <2> SUFFICES ASSUME NEW c
               PROVE  Index(c) \in Nat
    OBVIOUS
  <2>1. IsFiniteSet({d \in Hits : Place[d] < Place[c]})
    BY <1>1, FS_Subset
  <2> QED
    BY <2>1, FS_CardinalityType DEF Index
<1>3. ASSUME NEW c \in Hits
      PROVE  Index(c) < Cardinality(Hits)
  <2> DEFINE before == {d \in Hits : Place[d] < Place[c]}
  <2>1. Place[c] \in Int
    BY <1>1, ApiAssumption DEF ApiAssumption
  <2>2. before \subseteq Hits /\ c \notin before
    BY <2>1
  <2> HIDE DEF before
  <2>3. before # Hits
    BY <2>2
  <2>4. IsFiniteSet(before) /\ Cardinality(before) < Cardinality(Hits)
    BY <1>1, <2>2, <2>3, FS_Subset, FS_CardinalityType
  <2> QED
    BY <2>4 DEF Index, before
<1> QED
  BY <1>1, <1>2, <1>3

\* What NVD serves at an index is the same while neither it nor the window changes.
LEMMA SameHits ==
  ASSUME upstream'.body = upstream.body, run'.state = run.state, run'.now = run.now
  PROVE  /\ WindowEnd' = WindowEnd /\ Hits' = Hits
         /\ \A c : Index(c)' = Index(c)
<1>1. WindowEnd' = WindowEnd
  BY DEF WindowEnd
<1>2. Hits' = Hits
  BY <1>1 DEF Hits, HitsIn
<1> QED
  BY <1>1, <1>2 DEF Index

\* The CVEs that are taken up.
LEMMA TakenShape ==
  ASSUME IInv, kind = "nvd", NEW cves \in SUBSET Cves
  PROVE  /\ Taken(cves) \in SUBSET StoredRows /\ Keyed(Taken(cves))
         /\ Named(Taken(cves)) = Keys(Taken(cves))
         /\ Keys(Taken(cves)) = cves \cap (Keys(session.rows) \cup Recent)
         /\ \A r \in Taken(cves) : r.key \in Cves /\ r.rev = upstream.body[r.key]
<1>1. \A c \in Cves : /\ Record(c) \in StoredRows /\ Record(c).key = c
                      /\ Record(c).rev = upstream.body[c] /\ Record(c).cves = {c}
  BY NvdParts DEF Record, StoredRows, RowKeys
<1>2. PICK x : x = cves \cap (Keys(session.rows) \cup Recent)
  OBVIOUS
<1>3. Taken(cves) = {Record(c) : c \in x} /\ x \subseteq Cves
  BY <1>2 DEF Taken
<1>4. Taken(cves) \in SUBSET StoredRows /\ Keyed(Taken(cves))
  BY <1>1, <1>3 DEF Keyed
<1>5. Keys(Taken(cves)) = x /\ Named(Taken(cves)) = x
  BY <1>1, <1>3 DEF Keys, Named
<1>6. \A r \in Taken(cves) : r.key \in Cves /\ r.rev = upstream.body[r.key]
  BY <1>1, <1>3
<1> QED
  BY <1>2, <1>4, <1>5, <1>6

\* A record that is modified.
LEMMA ModifyMeans ==
  ASSUME IInv, NEW c \in Cves, NEW d \in {0, 1}, Modify(c, upstream.now + d)
  PROVE  /\ Effect /\ Steps'
         /\ kind = "nvd" /\ UNCHANGED <<kind, db, session>>
         /\ upstream' \in [now : Nat, body : [Cves -> Nat]]
         /\ upstream'.now = upstream.now + d
         /\ upstream'.body = [upstream.body EXCEPT ![c] = upstream.now + d]
         /\ run'.pc = run.pc /\ run'.state = run.state /\ run'.now = run.now
         /\ run'.start = run.start /\ run.missed \subseteq run'.missed
         /\ run.pc = "page" /\ c \in Hits /\ Index(c) < run.start
              /\ upstream.now + d > WindowEnd
              => \A x \in Hits : Index(x) = run.start => x \in run'.missed
<1>1. PICK n \in Nat : n = upstream.now + d
  <2>1. kind = "nvd"
    BY DEF Modify
  <2> QED
    BY <2>1, NvdParts
<1>2. /\ kind = "nvd" /\ UNCHANGED <<kind, db, session>>
      /\ upstream' = [now |-> n, body |-> [upstream.body EXCEPT ![c] = n]]
  BY <1>1 DEF Modify
<1>3. /\ upstream' \in [now : Nat, body : [Cves -> Nat]] /\ upstream'.now = n
      /\ upstream'.body = [upstream.body EXCEPT ![c] = n]
  BY <1>2, NvdParts
<1>4. /\ run' \in Runs /\ run'.pc = run.pc /\ run'.state = run.state /\ run'.now = run.now
      /\ run'.start = run.start /\ run.missed \subseteq run'.missed
      /\ run'.touched = run.touched
      /\ run.pc = "page" /\ c \in Hits /\ Index(c) < run.start /\ n > WindowEnd
           => \A x \in Hits : Index(x) = run.start => x \in run'.missed
  <2>1. PICK m \in SUBSET Cves : m = run.missed \cup {x \in Hits : Index(x) = run.start}
    BY IndexShape, Given DEF Runs
  <2>2. run' = IF run.pc = "page" /\ c \in Hits /\ Index(c) < run.start /\ n > WindowEnd
               THEN [run EXCEPT !.missed = m] ELSE run
    BY <1>1, <2>1, Given DEF Modify, Runs
  <2> QED
    BY <2>1, <2>2, Given DEF Runs
<1>5. Effect
  BY <1>2, <1>4, Given DEF Effect, Typed, Rests, SameTables
<1>6. Steps'
  BY <1>2, <1>4, Given DEF Steps
<1> QED
  BY <1>1, <1>2, <1>3, <1>4, <1>5, <1>6

\* A page, and its checkpoint.
LEMMA PageMeans ==
  ASSUME IInv, Page, NEW served, served = {c \in Hits : Index(c) \in run.start .. run.start + PageSize - 1}
  PROVE  /\ Effect /\ Steps'
         /\ kind = "nvd" /\ UNCHANGED <<kind, upstream>> /\ run.pc = "page"
         /\ session' = db' /\ db'.rows = Put(session, Taken(served)).rows
         /\ db'.state = run.state /\ db'.missed = session.missed \ served
         /\ run'.state = run.state /\ run'.now = run.now
         /\ run'.missed = run.missed \ served
         /\ run'.start = run.start + PageSize /\ PageSize \in Nat
         /\ \/ run'.pc = "page"
            \/ run'.pc = "window" /\ run.start + PageSize >= Cardinality(Hits)
<1>1. run.pc = "page" /\ UNCHANGED <<kind, upstream>>
  BY DEF Page
<1>2. kind = "nvd" /\ PageSize \in Nat
  BY <1>1, StepKinds, ApiAssumption DEF ApiAssumption
<1>3. served \in SUBSET Cves
  BY IndexShape
<1>4. PICK w : w = Taken(served)
  OBVIOUS
<1>5. w \in SUBSET StoredRows /\ Keyed(w) /\ Named(w) = Keys(w) /\ Keys(w) \subseteq Cves
  BY <1>2, <1>3, <1>4, TakenShape
<1>6. PICK p \in Databases : p = Put(session, w)
  BY <1>5, Given, PutFields
<1>7. p.missed = session.missed
  BY <1>5, <1>6, Given, PutFields
<1>8. PICK m \in SUBSET Cves : m = session.missed \ served
  BY Given DEF Databases
<1>9. PICK q : q = [p EXCEPT !.missed = m]
  OBVIOUS
<1>10. q \in Databases /\ SameTables(q, p) /\ q.missed = m
  BY <1>9, MissedFields
<1>11. PICK pc \in Pcs : pc = IF run.start + PageSize >= Cardinality(Hits) THEN "window"
                              ELSE "page"
  BY DEF Pcs
<1>12. PICK st \in Nat : st = run.start + PageSize
  BY <1>2, NvdParts
<1>13. PICK k \in SUBSET Cves : k = Keys(w)
  BY <1>5
<1>14. PICK mm \in SUBSET Cves : mm = run.missed \ served
  BY Given DEF Runs
<1>15. 1 \in 1 .. MaxRetries + 1
  BY RunAssumption DEF RunAssumption
<1>16. PICK next : next = [run EXCEPT !.touched = k, !.attempt = 1, !.missed = mm,
                                      !.start = st, !.pc = pc]
  OBVIOUS
<1>17. /\ next \in Runs /\ next.touched = k /\ next.missed = mm /\ next.start = st
       /\ next.pc = pc /\ next.state = run.state /\ next.now = run.now
  BY <1>15, <1>16, Given DEF Runs
<1>18. Checkpoint(q, next)
  <2>1. Checkpoint([Put(session, Taken(served)) EXCEPT !.missed = @ \ served],
              [run EXCEPT !.touched = Keys(Taken(served)), !.attempt = 1,
                          !.missed = @ \ served,
                          !.start = @ + PageSize,
                          !.pc = IF run.start + PageSize >= Cardinality(Hits) THEN "window"
                                 ELSE "page"])
    BY DEF Page
  <2>2. q = [Put(session, Taken(served)) EXCEPT !.missed = @ \ served]
    BY <1>4, <1>6, <1>7, <1>8, <1>9 DEF Databases
  <2>3. next = [run EXCEPT !.touched = Keys(Taken(served)), !.attempt = 1,
                          !.missed = @ \ served,
                          !.start = @ + PageSize,
                          !.pc = IF run.start + PageSize >= Cardinality(Hits) THEN "window"
                                 ELSE "page"]
    BY <1>4, <1>11, <1>12, <1>13, <1>14, <1>16, Given DEF Runs
  <2> QED
    BY <2>1, <2>2, <2>3
<1>19. /\ db' \in Databases /\ session' = db' /\ run' \in Runs
       /\ SameTables(db', Recompute(q, k)) /\ db'.rows = q.rows
       /\ db'.missed = m /\ db'.state = run.state
       /\ run'.pc = pc /\ run'.touched = {} /\ run'.state = run.state
       /\ run'.now = run.now /\ run'.start = st /\ run'.missed = mm
  BY <1>10, <1>17, <1>18, CheckpointMeans
<1>20. Effect
  <2>1. SameTables(Recompute(q, k), Recompute(p, k))
    BY <1>10, RecomputeSame
  <2>2. run.touched = {}
    BY <1>1, Given DEF Steps
  <2>3. Commits(w, k)
    BY <2>1, <2>2, <1>5, <1>6, <1>13, <1>19 DEF Commits, SameTables
  <2> QED
    BY <2>3, <1>5, <1>19 DEF Effect, Typed
<1>21. Steps'
  <2>1. run'.pc \in StepsOf(kind)
    BY <1>2, <1>11, <1>19, StepsOfKinds
  <2> QED
    BY <2>1, <1>1, <1>19 DEF Steps
<1>22. db'.rows = Put(session, Taken(served)).rows
  BY <1>4, <1>6, <1>10, <1>19 DEF SameTables
<1>23. run'.pc = "page" \/ (run'.pc = "window" /\ run.start + PageSize >= Cardinality(Hits))
  BY <1>11, <1>19
<1> QED
  BY <1>1, <1>2, <1>8, <1>12, <1>14, <1>19, <1>20, <1>21, <1>22, <1>23

\* The end of a window, and its checkpoint.
LEMMA WindowMeans ==
  ASSUME IInv, Window
  PROVE  /\ Effect /\ Steps'
         /\ kind = "nvd" /\ UNCHANGED <<kind, upstream>> /\ run.pc = "window"
         /\ session' = db' /\ db'.rows = session.rows
         /\ db'.missed = session.missed \cup run.missed
         /\ db'.state = IF run.state < run.now THEN WindowEnd ELSE run.state
         /\ run'.state = db'.state /\ run'.now = run.now /\ run'.start = 0
         /\ run'.pc = IF run'.state < run.now THEN "page" ELSE "enrich"
<1>1. run.pc = "window" /\ UNCHANGED <<kind, upstream>>
  BY DEF Window
<1>2. kind = "nvd"
  BY <1>1, StepKinds
<1>3. PICK st \in Nat : st = IF run.state < run.now THEN WindowEnd ELSE run.state
  BY <1>1, <1>2, WindowShape
<1>4. PICK m \in SUBSET Cves : m = session.missed \cup run.missed
  BY Given DEF Databases, Runs
<1>5. PICK q : q = [session EXCEPT !.missed = m]
  OBVIOUS
<1>6. q \in Databases /\ SameTables(q, session) /\ q.missed = m
  BY <1>5, Given, MissedFields
<1>7. PICK pc \in Pcs : pc = IF st < run.now THEN "page" ELSE "enrich"
  BY DEF Pcs
<1>8. PICK next : next = [run EXCEPT !.state = st, !.start = 0, !.missed = {}, !.pc = pc]
  OBVIOUS
<1>9. st \in States
  BY DEF States
<1>10. /\ next \in Runs /\ next.touched = run.touched /\ next.start = 0
       /\ next.pc = pc /\ next.state = st /\ next.now = run.now
  BY <1>8, <1>9, Given DEF Runs
<1>11. Checkpoint(q, next)
  <2>1. q = [session EXCEPT !.missed = @ \cup run.missed]
    BY <1>4, <1>5, Given DEF Databases
  <2> QED
    BY <2>1, <1>3, <1>7, <1>8 DEF Window
<1>12. run.touched = {}
  BY <1>1, Given DEF Steps
<1>13. /\ db' \in Databases /\ session' = db' /\ run' \in Runs
       /\ SameTables(db', Recompute(q, {})) /\ db'.rows = q.rows
       /\ db'.missed = m /\ db'.state = st
       /\ run'.pc = pc /\ run'.touched = {} /\ run'.state = st
       /\ run'.now = run.now /\ run'.start = 0
  BY <1>6, <1>10, <1>11, <1>12, CheckpointMeans
<1>14. Effect
  <2>1. SameTables(Recompute(q, {}), Recompute(session, {}))
    BY <1>6, Given, RecomputeSame
  <2>2. Put(session, {}) = session /\ Named({}) = {}
    BY Given, PutNothing
  <2>3. Commits({}, {})
    BY <2>1, <2>2, <1>12, <1>13 DEF Commits, SameTables
  <2>4. {} \in SUBSET StoredRows /\ Keyed({})
    BY DEF Keyed
  <2> QED
    BY <2>3, <2>4, <1>13 DEF Effect, Typed
<1>15. Steps'
  <2>1. run'.pc \in StepsOf(kind)
    BY <1>2, <1>7, <1>13, StepsOfKinds
  <2> QED
    BY <2>1, <1>1, <1>13 DEF Steps
<1> QED
  BY <1>1, <1>2, <1>3, <1>4, <1>6, <1>7, <1>13, <1>14, <1>15 DEF SameTables

\* A single CVE is enriched.
LEMMA EnrichOneMeans ==
  ASSUME IInv, NEW c \in Cves, EnrichOne(c)
  PROVE  /\ Effect /\ Steps'
         /\ kind = "nvd" /\ UNCHANGED <<kind, upstream, db>> /\ run.pc = "enrich"
         /\ session' = Put(session, {Record(c)})
         /\ {Record(c)} \in SUBSET StoredRows /\ Keyed({Record(c)})
         /\ Keys({Record(c)}) = {c} /\ Record(c).key = c
         /\ Record(c).rev = upstream.body[c]
         /\ session'.state = session.state /\ session'.missed = session.missed
         /\ run'.pc = run.pc /\ run'.state = run.state /\ run'.now = run.now
<1>1. /\ run.pc = "enrich" /\ UNCHANGED <<kind, upstream, db>>
      /\ session' = Put(session, {Record(c)})
  BY DEF EnrichOne
<1>2. kind = "nvd"
  BY <1>1, StepKinds
<1>3. PICK w : w = {Record(c)}
  OBVIOUS
<1>4. /\ Record(c) \in StoredRows /\ Record(c).key = c
      /\ Record(c).rev = upstream.body[c] /\ Record(c).cves = {c}
  BY <1>2, NvdParts DEF Record, StoredRows, RowKeys
<1>5. w \in SUBSET StoredRows /\ Keyed(w) /\ Keys(w) = {c} /\ Named(w) = {c}
  BY <1>3, <1>4 DEF Keyed, Keys, Named
<1>6. session' \in Databases /\ session'.state = session.state
      /\ session'.missed = session.missed
  BY <1>1, <1>3, <1>5, Given, PutFields
<1>7. PICK t \in SUBSET Cves : t = run.touched \cup {c}
  BY Given DEF Runs
<1>8. run' = [run EXCEPT !.touched = t]
  BY <1>7, Given DEF EnrichOne, Runs
<1>9. /\ run' \in Runs /\ run'.touched = t /\ run'.pc = run.pc /\ run'.state = run.state
      /\ run'.now = run.now
  BY <1>8, Given DEF Runs
<1>10. Effect
  <2>1. Writes(w)
    BY <1>1, <1>3, <1>5, <1>7, <1>9 DEF Writes, SameTables
  <2> QED
    BY <2>1, <1>1, <1>5, <1>6, <1>9, Given DEF Effect, Typed
<1>11. Steps'
  BY <1>1, <1>6, <1>9, Given DEF Steps, Clean
<1> QED
  BY <1>1, <1>2, <1>3, <1>4, <1>5, <1>6, <1>9, <1>10, <1>11

\* While NVD changes nothing, its invariant is about db, session and run.
LEMMA PagedFrom ==
  ASSUME kind = "nvd", UNCHANGED <<kind, upstream>>,
         upstream \in [now : Nat, body : [Cves -> Nat]],
         \A d \in {db', session'} : d.state \in Nat /\ Covers(d) /\ d.state <= upstream.now,
         run'.pc # "idle" => run'.state = db'.state /\ run'.now <= upstream.now,
         run'.pc = "page" =>
           /\ run'.state < run'.now
           /\ \A c \in Cves \ (run'.missed \cup session'.missed) :
                Reached(c)' /\ Index(c)' < run'.start => Rev(session', c) = upstream.body[c],
         run'.pc = "window" =>
           \A c \in Cves \ (run'.missed \cup session'.missed) :
              Reached(c)' => Rev(session', c) = upstream.body[c]
  PROVE  Paged'
<1>1. Covers(db)' /\ Covers(session)'
  BY DEF Covers
<1> QED
  BY <1>1 DEF Paged

\* The rows that are covered.
LEMMA SameCovered ==
  ASSUME NEW d, NEW e, e.rows = d.rows, e.state = d.state, d.missed \subseteq e.missed,
         Covers(d)
  PROVE  Covers(e)
<1>1. \A k : Rev(e, k) = Rev(d, k)
  BY RevSame
<1> QED
  BY <1>1 DEF Covers

\* The common steps, and the beginning.
LEMMA CommonPaged ==
  ASSUME IInv, kind = "nvd", Fail \/ Commit \/ SaveState \/ StartNvd
  PROVE  Paged'
<1>1. /\ upstream \in [now : Nat, body : [Cves -> Nat]]
      /\ \A d \in {db, session} : d.state \in Nat /\ Covers(d) /\ d.state <= upstream.now
  BY NvdParts
<1>2. CASE Fail
  <2>1. UNCHANGED <<kind, upstream, db>> /\ session' = db /\ run'.pc = "idle"
    BY <1>2, FailMeans, IdleRun
  <2> QED
    BY <2>1, <1>1, PagedFrom
<1>3. CASE Commit
  <2>1. /\ UNCHANGED <<kind, upstream>> /\ run.pc = "commit"
        /\ db'.rows = session.rows /\ db'.state = session.state
        /\ db'.missed = session.missed /\ session' = db'
        /\ run'.state = run.state /\ run'.now = run.now /\ run'.pc = "save"
    BY <1>3, CommitMeans DEF GoesOn
  <2>2. Covers(db')
    BY <2>1, <1>1, SameCovered
  <2>3. run'.state = db'.state /\ run'.now <= upstream.now
    BY <2>1, NvdParts, WindowShape
  <2> QED
    BY <2>1, <2>2, <2>3, <1>1, PagedFrom
<1>4. CASE SaveState
  <2>1. /\ UNCHANGED <<kind, upstream>> /\ run.pc = "save"
        /\ SameTables(db', db) /\ db'.missed = db.missed /\ db'.state = run.state
        /\ session' = db' /\ run' = Idle
    BY <1>4, SaveMeans
  <2>2. db'.state = db.state
    BY <2>1, WindowShape
  <2>3. Covers(db')
    BY <2>1, <2>2, <1>1, SameCovered DEF SameTables
  <2>4. run'.pc = "idle"
    BY <2>1, IdleRun
  <2> QED
    BY <2>1, <2>2, <2>3, <2>4, <1>1, PagedFrom
<1>5. CASE StartNvd
  <2>1. /\ db' = db /\ session' = db /\ UNCHANGED <<kind, upstream>>
        /\ run'.state = db.state
        /\ run'.pc = IF db.state < upstream.now THEN "page" ELSE "window"
        /\ run'.now = upstream.now /\ run'.start = 0 /\ run'.missed = {}
    BY <1>5, StartsEffect
  <2>2. \A c : Index(c)' \in Nat
    <3> SUFFICES ASSUME NEW c
                 PROVE  Index(c)' \in Nat
      OBVIOUS
    <3>1. Hits' \subseteq Cves
      BY DEF Hits, HitsIn
    <3>2. IsFiniteSet({x \in Hits' : Place[x] < Place[c]})
      BY <3>1, FS_Subset, RunAssumption DEF RunAssumption
    <3> QED
      BY <3>2, FS_CardinalityType DEF Index
  <2>3. run'.pc = "window" =>
          \A c \in Cves : Reached(c)' => Rev(session', c) = upstream.body[c]
    <3> SUFFICES ASSUME run'.pc = "window", NEW c \in Cves, Reached(c)'
                 PROVE  FALSE
      OBVIOUS
    <3>1. upstream.now <= db.state
      BY <2>1, <1>1
    <3>2. WindowEnd' = upstream.now
      BY <2>1, <3>1, <1>1, ApiAssumption DEF WindowEnd, ApiAssumption
    <3> QED
      BY <2>1, <3>1, <3>2, <1>1 DEF Reached
  <2>4. \A c : Index(c)' < 0 => FALSE
    BY <2>2
  <2>5. upstream.now <= upstream.now
    BY <1>1
  <2> QED
    BY <2>1, <2>3, <2>4, <2>5, <1>1, PagedFrom
<1> QED
  BY <1>2, <1>3, <1>4, <1>5

\* A record that is modified while pages are read may take another one out of the
\* page to come: only then, and only that one, is noted as missed.
LEMMA ModifyPaged ==
  ASSUME IInv, NEW c \in Cves, NEW d \in {0, 1}, Modify(c, upstream.now + d)
  PROVE  Paged'
<1>1. /\ kind = "nvd" /\ UNCHANGED <<kind, db, session>>
      /\ upstream' \in [now : Nat, body : [Cves -> Nat]]
      /\ upstream'.now = upstream.now + d
      /\ upstream'.body = [upstream.body EXCEPT ![c] = upstream.now + d]
      /\ run'.pc = run.pc /\ run'.state = run.state /\ run'.now = run.now
      /\ run'.start = run.start /\ run.missed \subseteq run'.missed
      /\ run.pc = "page" /\ c \in Hits /\ Index(c) < run.start
           /\ upstream.now + d > WindowEnd
           => \A x \in Hits : Index(x) = run.start => x \in run'.missed
  BY ModifyMeans
<1>2. PICK n \in Nat : n = upstream.now + d
  BY <1>1, NvdParts
<1>3. /\ upstream'.body[c] = n /\ upstream'.now = n /\ upstream.now <= n
      /\ \A x \in Cves \ {c} : upstream'.body[x] = upstream.body[x]
      /\ upstream.now \in Nat
  BY <1>1, <1>2, NvdParts
<1>4. ASSUME NEW e \in {db, session}
      PROVE  Covers(e)' /\ e.state <= n
  <2>1. e.state \in Nat /\ Covers(e) /\ e.state <= upstream.now
    BY <1>1, NvdParts
  <2>2. \A x \in Cves : Rev(e, x)' = Rev(e, x)
    BY <1>1 DEF Rev, Keys
  <2>3. ASSUME NEW x \in Cves \ e.missed, upstream'.body[x] \in 1 .. e.state - 1,
               x \in Keys(e.rows) \cup Recent
        PROVE  Rev(e, x) = upstream'.body[x]
    <3>1. x # c
      BY <1>3, <2>1, <2>3
    <3> QED
      BY <3>1, <1>3, <2>1, <2>3 DEF Covers
  <2>4. e' = e
    BY <1>1
  <2> QED
    BY <1>3, <2>1, <2>3, <2>4 DEF Covers
<1>5. WindowEnd' = WindowEnd
  BY <1>1 DEF WindowEnd
<1>6. CASE run.pc \notin {"page", "window"}
  BY <1>1, <1>3, <1>4, <1>6, NvdParts, WindowShape DEF Paged
<1>7. CASE run.pc \in {"page", "window"}
  <2>1. /\ run.state \in Nat /\ run.state = db.state /\ run.now <= upstream.now
        /\ WindowEnd \in Nat /\ WindowEnd <= run.now /\ run.now \in Nat
        /\ run.start \in Nat
    BY <1>1, <1>7, WindowShape, NvdParts
  <2>2. ASSUME NEW x \in Cves, Reached(x)'
        PROVE  x # c /\ Reached(x) /\ x \in Hits
    <3>1. upstream'.body[x] \in run.state .. WindowEnd - 1
          /\ x \in Keys(session.rows) \cup Recent
      BY <1>1, <1>5, <2>2 DEF Reached
    <3>2. x # c
      BY <3>1, <1>3, <2>1
    <3>3. upstream.body[x] \in run.state .. WindowEnd - 1
      BY <3>1, <3>2, <1>3
    <3> QED
      BY <3>1, <3>2, <3>3, <2>1, NvdParts, <1>1 DEF Reached, Hits, HitsIn
  \* Those that are left of what was to come before x.
  <2>3. ASSUME NEW x \in Hits, x # c, Index(x)' < run.start, run.pc = "page",
               x \notin run'.missed
        PROVE  Index(x) < run.start
    <3>1. CASE c \in Hits /\ n > WindowEnd
      <4> DEFINE before == {y \in Hits : Place[y] < Place[x]}
      <4>1. Hits' = Hits \ {c}
        BY <1>1, <1>3, <1>5, <3>1, <2>1 DEF Hits, HitsIn
      <4>2. {y \in Hits' : Place[y] < Place[x]} = before \ {c}
        BY <4>1
      <4>3. Index(x)' = Cardinality(before \ {c}) /\ Index(x) = Cardinality(before)
        BY <4>2 DEF Index
      <4>4. IsFiniteSet(before)
        BY IndexShape, FS_Subset
      <4> HIDE DEF before
      <4>5. CASE c \notin before
        <5>1. before \ {c} = before
          BY <4>5
        <5> QED
          BY <5>1, <4>3, <2>3
      <4>6. CASE c \in before
        <5>1. Cardinality(before \ {c}) = Cardinality(before) - 1
          BY <4>4, <4>6, FS_RemoveElement
        <5>2. Index(c) < Index(x)
          <6> DEFINE first == {y \in Hits : Place[y] < Place[c]}
          <6>1. Place[c] < Place[x] /\ \A y \in Hits : Place[y] \in Int
            BY <4>6, IndexShape, ApiAssumption DEF before, ApiAssumption
          <6>2. first \subseteq before /\ c \notin first
            BY <6>1, IndexShape, ApiAssumption DEF before, ApiAssumption
          <6> HIDE DEF first
          <6>3. first # before
            BY <6>2, <4>6
          <6>4. Cardinality(first) < Cardinality(before)
            BY <6>2, <6>3, <4>4, FS_Subset, FS_CardinalityType
          <6> QED
            BY <6>4, <4>3 DEF Index, first
        <5>3. SUFFICES ASSUME Index(x) >= run.start
                       PROVE  FALSE
          BY <2>1, IndexShape
        <5>4. Index(x) = run.start
          BY <5>1, <5>3, <4>3, <2>3, <2>1, IndexShape
        <5> QED
          BY <5>2, <5>4, <3>1, <2>3, <1>1, <1>2
      <4> QED
        BY <4>5, <4>6
    <3>2. CASE ~(c \in Hits /\ n > WindowEnd)
      <4>1. Hits \subseteq Hits' /\ Hits' \subseteq Cves
        <5>1. \A y \in Hits : y # c => y \in Hits'
          BY <1>3, <1>5, <1>1, <2>1 DEF Hits, HitsIn
        <5>2. c \in Hits => c \in Hits'
          <6> SUFFICES ASSUME c \in Hits
                       PROVE  c \in Hits'
            OBVIOUS
          <6>1. n = WindowEnd /\ upstream.body[c] \in run.state .. WindowEnd
            BY <3>2, <1>3, <2>1 DEF Hits, HitsIn
          <6>2. run.state <= n
            BY <6>1, <1>1, <2>1, NvdParts
          <6> QED
            BY <6>1, <6>2, <1>3, <1>5, <1>1, <2>1 DEF Hits, HitsIn
        <5>3. Hits' \subseteq Cves
          BY DEF Hits, HitsIn
        <5> QED
          BY <5>1, <5>2, <5>3
      <4> DEFINE before == {y \in Hits : Place[y] < Place[x]}
      <4> DEFINE then == {y \in Hits' : Place[y] < Place[x]}
      <4>2. before \subseteq then /\ then \subseteq Cves
        BY <4>1
      <4>3. Index(x) = Cardinality(before) /\ Index(x)' = Cardinality(then)
        BY DEF Index
      <4> HIDE DEF before, then
      <4>4. IsFiniteSet(then)
        BY <4>2, FS_Subset, RunAssumption DEF RunAssumption
      <4>5. Cardinality(before) <= Cardinality(then) /\ Cardinality(before) \in Nat
            /\ Cardinality(then) \in Nat
        BY <4>2, <4>4, FS_Subset, FS_CardinalityType
      <4> QED
        BY <4>3, <4>5, <2>3, <2>1
    <3> QED
      BY <3>1, <3>2
  <2>4. \A x : Rev(session, x)' = Rev(session, x)
    BY <1>1 DEF Rev, Keys
  <2>5. ASSUME run.pc = "page", NEW x \in Cves \ (run'.missed \cup session.missed),
               Reached(x)', Index(x)' < run.start
        PROVE  Rev(session, x) = upstream'.body[x]
    <3>1. x # c /\ Reached(x) /\ x \in Hits
      BY <2>2, <2>5
    <3>2. Index(x) < run.start
      BY <2>3, <2>5, <3>1
    <3>3. Rev(session, x) = upstream.body[x]
      BY <3>1, <3>2, <2>5, <1>1 DEF IInv, Paged
    <3> QED
      BY <3>1, <3>3, <1>3
  <2>6. ASSUME run.pc = "window", NEW x \in Cves \ (run'.missed \cup session.missed),
               Reached(x)'
        PROVE  Rev(session, x) = upstream'.body[x]
    <3>1. x # c /\ Reached(x) /\ x \in Hits
      BY <2>2, <2>6
    <3>2. Rev(session, x) = upstream.body[x]
      BY <3>1, <2>6, <1>1 DEF IInv, Paged
    <3> QED
      BY <3>1, <3>2, <1>3
  <2>7. run.pc = "page" => run.state < run.now
    BY <1>1 DEF IInv, Paged
  <2>8. run.state = db.state /\ run.now <= n
    BY <2>1, <1>3
  <2>9. \A e \in {db', session'} : e.state \in Nat /\ e.state <= upstream'.now
    BY <1>1, <1>3, <1>4, NvdParts
  <2>10. Covers(db)' /\ Covers(session)'
    BY <1>1, <1>4 DEF Covers
  <2> QED
    BY <1>1, <1>3, <2>4, <2>5, <2>6, <2>7, <2>8, <2>9, <2>10 DEF Paged
<1> QED
  BY <1>6, <1>7

\* A page stores the hits it serves, as far as they are taken up.
LEMMA PagePaged ==
  ASSUME IInv, Page
  PROVE  Paged'
<1>1. PICK served : served = {c \in Hits : Index(c) \in run.start .. run.start + PageSize - 1}
  OBVIOUS
<1>2. /\ kind = "nvd" /\ UNCHANGED <<kind, upstream>> /\ run.pc = "page"
      /\ session' = db' /\ db'.rows = Put(session, Taken(served)).rows
      /\ db'.state = run.state /\ db'.missed = session.missed \ served
      /\ run'.state = run.state /\ run'.now = run.now
      /\ run'.missed = run.missed \ served
      /\ run'.start = run.start + PageSize /\ PageSize \in Nat
      /\ \/ run'.pc = "page"
         \/ run'.pc = "window" /\ run.start + PageSize >= Cardinality(Hits)
  BY <1>1, PageMeans
<1>3. served \in SUBSET Cves /\ served \subseteq Hits
  BY <1>1, IndexShape
<1>4. PICK w \in SUBSET StoredRows : w = Taken(served)
  BY <1>2, <1>3, TakenShape
<1>5. /\ Keyed(w) /\ Keys(w) = served \cap (Keys(session.rows) \cup Recent)
      /\ \A r \in w : r.key \in Cves /\ r.rev = upstream.body[r.key]
  BY <1>2, <1>3, <1>4, TakenShape
<1>6. PICK p \in Databases : p = Put(session, w)
  BY Given, PutFields
<1>7. /\ \A r \in w : Rev(p, r.key) = r.rev
      /\ \A k : k \notin Keys(w) => Rev(p, k) = Rev(session, k)
      /\ Keys(p.rows) = Keys(session.rows) \cup Keys(w)
  BY <1>5, <1>6, Given, PutRev
<1>8. p.rows = db'.rows /\ Keys(db'.rows) = Keys(p.rows) /\ \A k : Rev(db', k) = Rev(p, k)
  BY <1>2, <1>4, <1>6, RevSame
\* What is served and taken up has the revision that NVD has.
<1>9. ASSUME NEW c \in served, c \in Keys(db'.rows) \cup Recent
      PROVE  Rev(db', c) = upstream.body[c]
  <2>1. c \in Keys(w)
    BY <1>5, <1>7, <1>8, <1>9
  <2>2. PICK r \in w : r.key = c
    BY <2>1 DEF Keys
  <2> QED
    BY <2>2, <1>5, <1>7, <1>8
<1>10. ASSUME NEW c \in Cves \ served, c \in Keys(db'.rows) \cup Recent
       PROVE  c \in Keys(session.rows) \cup Recent /\ Rev(db', c) = Rev(session, c)
  BY <1>5, <1>7, <1>8, <1>10
<1>11. /\ run.state \in Nat /\ run.state = db.state /\ run.now <= upstream.now
       /\ WindowEnd \in Nat /\ WindowEnd <= run.now /\ run.start \in Nat /\ run.now \in Nat
       /\ session.state = db.state /\ Covers(session) /\ db.state <= upstream.now
       /\ upstream \in [now : Nat, body : [Cves -> Nat]]
       /\ \A c \in Cves : upstream.body[c] \in Nat
  BY <1>2, WindowShape, NvdParts
<1>12. Covers(db')
  <2> SUFFICES ASSUME NEW c \in Cves \ db'.missed, upstream.body[c] \in 1 .. db'.state - 1,
                      c \in Keys(db'.rows) \cup Recent
               PROVE  Rev(db', c) = upstream.body[c]
    BY DEF Covers
  <2>1. CASE c \in served
    BY <2>1, <1>9
  <2>2. CASE c \notin served
    <3>1. c \in Keys(session.rows) \cup Recent /\ Rev(db', c) = Rev(session, c)
      BY <2>2, <1>10
    <3>2. c \notin session.missed
      BY <2>2, <1>2
    <3>3. Rev(session, c) = upstream.body[c]
      BY <3>1, <3>2, <1>2, <1>11 DEF Covers
    <3> QED
      BY <3>1, <3>3
  <2> QED
    BY <2>1, <2>2
<1>13. WindowEnd' = WindowEnd /\ Hits' = Hits /\ \A c : Index(c)' = Index(c)
  BY <1>2, SameHits
<1>14. ASSUME NEW c \in Cves \ (run'.missed \cup session'.missed), Reached(c)',
              Index(c) < run'.start \/ run'.pc = "window"
       PROVE  Rev(session', c) = upstream.body[c]
  <2>1. /\ upstream.body[c] \in run.state .. WindowEnd - 1
        /\ c \in Keys(db'.rows) \cup Recent
    BY <1>2, <1>13, <1>14 DEF Reached
  <2>2. c \in Hits
    BY <2>1, <1>11 DEF Hits, HitsIn
  <2>3. CASE c \in served
    BY <2>1, <2>3, <1>2, <1>9
  <2>4. CASE c \notin served
    <3>1. Index(c) < run.start + PageSize
      BY <2>2, <1>2, <1>11, <1>14, IndexShape
    <3>2. Index(c) < run.start
      BY <3>1, <2>2, <2>4, <1>1, <1>2, <1>11, IndexShape
    <3>3. c \in Keys(session.rows) \cup Recent /\ Rev(db', c) = Rev(session, c)
      BY <2>1, <2>4, <1>10
    <3>4. c \in Cves \ (run.missed \cup session.missed)
      BY <2>4, <1>2, <1>14
    <3>5. Reached(c)
      BY <2>1, <3>3 DEF Reached
    <3>6. Rev(session, c) = upstream.body[c]
      BY <3>2, <3>4, <3>5, <1>2 DEF IInv, Paged
    <3> QED
      BY <3>3, <3>6, <1>2
  <2> QED
    BY <2>3, <2>4
<1>15. run.state < run.now
  BY <1>2 DEF IInv, Paged
<1>16. \A d \in {db', session'} : d.state \in Nat /\ Covers(d) /\ d.state <= upstream.now
  BY <1>2, <1>11, <1>12
<1>17. /\ run'.state = db'.state /\ run'.now <= upstream.now /\ run'.state < run'.now
  BY <1>2, <1>11, <1>15
<1>18. \A c \in Cves \ (run'.missed \cup session'.missed) :
          Reached(c)' /\ Index(c)' < run'.start => Rev(session', c) = upstream.body[c]
  BY <1>13, <1>14
<1>19. run'.pc = "window" =>
         \A c \in Cves \ (run'.missed \cup session'.missed) :
            Reached(c)' => Rev(session', c) = upstream.body[c]
  BY <1>14
<1>20. kind = "nvd" /\ UNCHANGED <<kind, upstream>>
  BY <1>2
<1> QED
  BY <1>11, <1>16, <1>17, <1>18, <1>19, <1>20, PagedFrom

\* When the cursor moves, all that it passes was reached.
LEMMA WindowPaged ==
  ASSUME IInv, Window
  PROVE  Paged'
<1>1. /\ kind = "nvd" /\ UNCHANGED <<kind, upstream>> /\ run.pc = "window"
      /\ session' = db' /\ db'.rows = session.rows
      /\ db'.missed = session.missed \cup run.missed
      /\ db'.state = IF run.state < run.now THEN WindowEnd ELSE run.state
      /\ run'.state = db'.state /\ run'.now = run.now /\ run'.start = 0
      /\ run'.pc = IF run'.state < run.now THEN "page" ELSE "enrich"
  BY WindowMeans
<1>2. /\ run.state \in Nat /\ run.state = db.state /\ run.now <= upstream.now
      /\ WindowEnd \in Nat /\ WindowEnd <= run.now /\ run.now \in Nat
      /\ run.state < run.now => run.state < WindowEnd
      /\ session.state = db.state /\ Covers(session) /\ db.state <= upstream.now
      /\ upstream \in [now : Nat, body : [Cves -> Nat]]
      /\ \A c \in Cves : upstream.body[c] \in Nat
  BY <1>1, WindowShape, NvdParts
<1>3. Keys(db'.rows) = Keys(session.rows) /\ \A k : Rev(db', k) = Rev(session, k)
  BY <1>1, RevSame
<1>4. Covers(db')
  <2> SUFFICES ASSUME NEW c \in Cves \ db'.missed, upstream.body[c] \in 1 .. db'.state - 1,
                      c \in Keys(db'.rows) \cup Recent
               PROVE  Rev(db', c) = upstream.body[c]
    BY DEF Covers
  <2>1. c \in Cves \ (run.missed \cup session.missed) /\ c \in Keys(session.rows) \cup Recent
    BY <1>1, <1>3
  <2>2. CASE upstream.body[c] < run.state
    <3>1. upstream.body[c] \in 1 .. session.state - 1
      BY <2>2, <1>2
    <3> QED
      BY <3>1, <2>1, <1>2, <1>3 DEF Covers
  <2>3. CASE upstream.body[c] >= run.state
    <3>1. upstream.body[c] \in run.state .. WindowEnd - 1
      BY <2>3, <1>1, <1>2
    <3>2. Reached(c)
      BY <3>1, <2>1 DEF Reached
    <3> QED
      BY <3>2, <2>1, <1>1, <1>3 DEF IInv, Paged
  <2> QED
    BY <2>2, <2>3, <1>2
<1>5. \A d \in {db', session'} : d.state \in Nat /\ Covers(d) /\ d.state <= upstream.now
  BY <1>1, <1>2, <1>4
<1>6. \A c : Index(c)' \in Nat
  <2> SUFFICES ASSUME NEW c
               PROVE  Index(c)' \in Nat
    OBVIOUS
  <2>1. Hits' \subseteq Cves
    BY DEF Hits, HitsIn
  <2>2. IsFiniteSet({x \in Hits' : Place[x] < Place[c]})
    BY <2>1, FS_Subset, RunAssumption DEF RunAssumption
  <2> QED
    BY <2>2, FS_CardinalityType DEF Index
<1>7. run'.pc = "page" => /\ run'.state < run'.now
                          /\ \A c : ~(Index(c)' < run'.start)
  BY <1>1, <1>6
<1>8. run'.pc # "window" /\ run'.state = db'.state /\ run'.now <= upstream.now
  BY <1>1, <1>2
<1>9. kind = "nvd" /\ UNCHANGED <<kind, upstream>>
  BY <1>1
<1> QED
  BY <1>2, <1>5, <1>7, <1>8, <1>9, PagedFrom

\* An answer about a single CVE is as new as NVD.
LEMMA EnrichPaged ==
  ASSUME IInv, NEW c \in Cves, EnrichOne(c)
  PROVE  Paged'
<1>1. /\ kind = "nvd" /\ UNCHANGED <<kind, upstream, db>> /\ run.pc = "enrich"
      /\ session' = Put(session, {Record(c)})
      /\ {Record(c)} \in SUBSET StoredRows /\ Keyed({Record(c)})
      /\ Keys({Record(c)}) = {c} /\ Record(c).key = c
      /\ Record(c).rev = upstream.body[c]
      /\ session'.state = session.state /\ session'.missed = session.missed
      /\ run'.pc = run.pc /\ run'.state = run.state /\ run'.now = run.now
  BY EnrichOneMeans
<1>2. /\ run.state = db.state /\ run.now <= upstream.now
      /\ session.state = db.state /\ Covers(session) /\ Covers(db)
      /\ db.state <= upstream.now /\ db.state \in Nat
      /\ upstream \in [now : Nat, body : [Cves -> Nat]]
  BY <1>1, WindowShape, NvdParts
<1>3. PICK w \in SUBSET StoredRows : w = {Record(c)}
  BY <1>1
<1>4. /\ \A r \in w : Rev(session', r.key) = r.rev
      /\ \A k : k \notin Keys(w) => Rev(session', k) = Rev(session, k)
      /\ Keys(session'.rows) = Keys(session.rows) \cup Keys(w)
  BY <1>1, <1>3, Given, PutRev
<1>5. Rev(session', c) = upstream.body[c]
      /\ \A x \in Cves \ {c} : /\ Rev(session', x) = Rev(session, x)
                               /\ x \in Keys(session'.rows) => x \in Keys(session.rows)
  BY <1>1, <1>3, <1>4
<1>6. Covers(session')
  BY <1>1, <1>2, <1>5 DEF Covers
<1>7. run'.pc \notin {"page", "window"} /\ run'.state = db'.state /\ run'.now <= upstream.now
  BY <1>1, <1>2
<1>8. \A d \in {db', session'} : d.state \in Nat /\ Covers(d) /\ d.state <= upstream.now
  BY <1>1, <1>2, <1>6
<1>9. kind = "nvd" /\ UNCHANGED <<kind, upstream>>
  BY <1>1
<1> QED
  BY <1>2, <1>7, <1>8, <1>9, PagedFrom

\* Steps that write nothing.
LEMMA CalmPaged ==
  ASSUME IInv, kind = "nvd", Calm
  PROVE  Paged'
<1>1. /\ UNCHANGED <<kind, upstream, db, session>>
      /\ run'.state = run.state /\ run'.now = run.now /\ run'.start = run.start
      /\ run'.missed = run.missed
      /\ (run'.pc = run.pc \/ (run.pc # "idle" /\ run'.pc \notin {"page", "window"}))
  BY DEF Calm, GoesOn
<1>2. /\ upstream \in [now : Nat, body : [Cves -> Nat]]
      /\ \A d \in {db, session} : d.state \in Nat /\ Covers(d) /\ d.state <= upstream.now
      /\ run.pc # "idle" => run.state = db.state /\ run.now <= upstream.now
  BY NvdParts, WindowShape
<1>3. /\ WindowEnd' = WindowEnd /\ \A c : Index(c)' = Index(c)
  BY <1>1, SameHits
<1>4. \A c : Reached(c)' <=> Reached(c)
  BY <1>1, <1>3 DEF Reached
<1>5. run'.pc = "page" =>
           /\ run'.state < run'.now
           /\ \A c \in Cves \ (run'.missed \cup session'.missed) :
                Reached(c)' /\ Index(c)' < run'.start => Rev(session', c) = upstream.body[c]
  BY <1>1, <1>3, <1>4 DEF IInv, Paged
<1>6. run'.pc = "window" =>
           \A c \in Cves \ (run'.missed \cup session'.missed) :
              Reached(c)' => Rev(session', c) = upstream.body[c]
  BY <1>1, <1>4 DEF IInv, Paged
<1>7. \A d \in {db', session'} : d.state \in Nat /\ Covers(d) /\ d.state <= upstream.now
  BY <1>1, <1>2
<1>8. run'.pc # "idle" => run'.state = db'.state /\ run'.now <= upstream.now
  BY <1>1, <1>2
<1>9. UNCHANGED <<kind, upstream>>
  BY <1>1
<1> QED
  BY <1>2, <1>5, <1>6, <1>7, <1>8, <1>9, PagedFrom

------------------------------------------------------------------------------
(* GitHub: what counts as checked was searched for                          *)

\* The invariant of GitHub's run, in pieces.
LEMMA GithubParts ==
  ASSUME IInv, kind = "github"
  PROVE  /\ upstream \in [now : Nat, body : SUBSET StoredRows] /\ upstream.now \in Nat
         /\ upstream.body \in SUBSET StoredRows /\ Keyed(upstream.body)
         /\ \A r \in upstream.body : r.rev \in 1 .. upstream.now /\ r.rev \in Nat
         /\ \A d \in {db, session} :
              /\ \A c \in Cves : d.checked[c] \in 0 .. upstream.now
              /\ Searched(d)
         /\ kind \notin FileKinds /\ kind # "nvd"
BY StepKinds DEF IInv, Found

\* While GitHub changes nothing, its invariant is about db and session.
LEMMA FoundFrom ==
  ASSUME IInv, kind = "github", UNCHANGED <<kind, upstream>>,
         \A d \in {db', session'} :
            /\ \A c \in Cves : d.checked[c] \in 0 .. upstream.now
            /\ Searched(d)
  PROVE  Found'
<1>1. Searched(db)' /\ Searched(session)'
  BY DEF Searched
<1> QED
  BY <1>1, GithubParts DEF Found

\* What was searched is a matter of rows, links and times.
LEMMA SameSearched ==
  ASSUME NEW d, NEW e, e.rows = d.rows, e.links = d.links, e.checked = d.checked, Searched(d)
  PROVE  Searched(e)
<1>1. \A k : Rev(e, k) = Rev(d, k)
  BY RevSame
<1> QED
  BY <1>1 DEF Searched

\* The common steps, the beginning, and those that write nothing.
LEMMA CommonFound ==
  ASSUME IInv, kind = "github", Fail \/ Commit \/ SaveState \/ StartGithub \/ Calm
  PROVE  Found'
<1>1. \A d \in {db, session} :
        /\ \A c \in Cves : d.checked[c] \in 0 .. upstream.now
        /\ Searched(d)
  BY GithubParts
<1>2. CASE Fail
  <2>1. UNCHANGED <<kind, upstream, db>> /\ session' = db
    BY <1>2, FailMeans
  <2> QED
    BY <2>1, <1>1, FoundFrom
<1>3. CASE Commit
  <2>1. /\ UNCHANGED <<kind, upstream>> /\ session' = db'
        /\ db'.rows = session.rows /\ db'.links = session.links
        /\ db'.checked = session.checked
    BY <1>3, CommitMeans
  <2>2. Searched(db')
    BY <2>1, <1>1, SameSearched
  <2> QED
    BY <2>1, <2>2, <1>1, FoundFrom
<1>4. CASE SaveState
  <2>1. /\ UNCHANGED <<kind, upstream>> /\ session' = db'
        /\ SameTables(db', db) /\ db'.checked = db.checked
    BY <1>4, SaveMeans
  <2>2. Searched(db')
    BY <2>1, <1>1, SameSearched DEF SameTables
  <2> QED
    BY <2>1, <2>2, <1>1, FoundFrom
<1>5. CASE StartGithub
  <2>1. UNCHANGED <<kind, upstream>> /\ db' = db /\ session' = db
    BY <1>5, StartsEffect
  <2> QED
    BY <2>1, <1>1, FoundFrom
<1>6. CASE Calm
  <2>1. UNCHANGED <<kind, upstream, db, session>>
    BY <1>6 DEF Calm
  <2> QED
    BY <2>1, <1>1, FoundFrom
<1> QED
  BY <1>2, <1>3, <1>4, <1>5, <1>6

\* A repository that appears, or changes, is newer than every check.
LEMMA PublishRepoFound ==
  ASSUME IInv, NEW r \in Repos, PublishRepo(r)
  PROVE  Effect /\ Steps' /\ Found' /\ kind = "github" /\ UNCHANGED kind
<1>1. /\ kind = "github" /\ UNCHANGED <<kind, db, session, run>>
      /\ upstream' = [now |-> upstream.now + 1,
                      body |-> {s \in upstream.body : s.key # r.key}
                               \cup {[r EXCEPT !.rev = upstream.now + 1]}]
  BY DEF PublishRepo
<1>2. Effect /\ Steps'
  BY <1>1, Given DEF Effect, Typed, Rests, SameTables, Steps
<1>3. PICK n \in Nat : n = upstream.now + 1
  BY <1>1, GithubParts
<1>4. PICK s : s = [r EXCEPT !.rev = n]
  OBVIOUS
<1>5. s \in StoredRows /\ s.key = r.key /\ s.rev = n
  <2>1. r \in [key : {r.key}, rev : {r.rev}, cves : SUBSET Cves, ok : BOOLEAN]
    BY ApiAssumption DEF ApiAssumption
  <2>2. s = [key |-> r.key, rev |-> n, cves |-> r.cves, ok |-> r.ok]
    BY <2>1, <1>4
  <2>3. r.key \in RowKeys /\ r.cves \in SUBSET Cves /\ r.ok \in BOOLEAN
    BY <2>1 DEF RowKeys
  <2> QED
    BY <2>2, <2>3 DEF StoredRows
<1>6. PICK b : b = {x \in upstream.body : x.key # r.key} \cup {s}
  OBVIOUS
<1>7. b \in SUBSET StoredRows /\ Keyed(b)
  BY <1>1, <1>5, <1>6, GithubParts DEF Keyed
<1>8. upstream' = [now |-> n, body |-> b]
  BY <1>1, <1>3, <1>4, <1>6
<1>9. upstream' \in [now : Nat, body : SUBSET StoredRows] /\ upstream'.body = b
      /\ upstream'.now = n
  BY <1>7, <1>8
<1>10. \A x \in b : x.rev \in 1 .. n
  BY <1>1, <1>3, <1>5, <1>6, GithubParts
<1>11. ASSUME NEW d \in {db, session}
       PROVE  (\A c \in Cves : d.checked[c] \in 0 .. n) /\ Searched(d)'
  <2>1. \A c \in Cves : d.checked[c] \in 0 .. upstream.now
    BY <1>1, GithubParts
  <2>2. \A c \in Cves : d.checked[c] \in 0 .. n /\ ~(n <= d.checked[c])
    BY <2>1, <1>1, <1>3, GithubParts
  <2>3. Searched(d)
    BY <1>1, GithubParts
  <2>4. \A c \in Cves, x \in b :
          x.ok /\ c \in x.cves /\ x.rev <= d.checked[c] =>
             Rev(d, x.key) >= x.rev /\ <<x.key, c>> \in d.links
    BY <2>2, <2>3, <1>5, <1>6 DEF Searched
  <2>5. d' = d /\ \A k : Rev(d, k)' = Rev(d, k)
    BY <1>1 DEF Rev, Keys
  <2> QED
    BY <2>2, <2>4, <2>5, <1>9 DEF Searched
<1>12. db' = db /\ session' = session
  BY <1>1
<1> QED
  BY <1>1, <1>2, <1>7, <1>9, <1>10, <1>11, <1>12 DEF Found, Keyed

\* A CVE that is due again no longer counts as checked.
LEMMA RecheckDueFound ==
  ASSUME IInv, NEW c \in Cves, RecheckDue(c)
  PROVE  Effect /\ Steps' /\ Found' /\ kind = "github" /\ UNCHANGED kind
<1>1. /\ kind = "github" /\ run.pc = "idle" /\ UNCHANGED <<kind, upstream, run>>
      /\ db' = [db EXCEPT !.checked[c] = 0] /\ session' = db'
  BY DEF RecheckDue
<1>2. PICK e : e = [db EXCEPT !.checked[c] = 0]
  OBVIOUS
<1>3. e \in Databases /\ SameTables(e, db) /\ e.state = db.state
      /\ e.checked = [db.checked EXCEPT ![c] = 0]
  BY <1>2, Given, CheckedFields
<1>4. db' = e /\ session' = e
  BY <1>1, <1>2
<1>5. Effect
  BY <1>1, <1>3, <1>4, Given DEF Effect, Typed, Rests
<1>6. Steps'
  BY <1>1, Given DEF Steps
<1>7. \A x \in Cves : e.checked[x] = IF x = c THEN 0 ELSE db.checked[x]
  BY <1>3, Given DEF Databases
<1>8. \A x \in Cves : e.checked[x] \in 0 .. upstream.now
  BY <1>1, <1>7, GithubParts
<1>9. Searched(e)
  <2>1. \A k : Rev(e, k) = Rev(db, k)
    BY <1>3, RevSame DEF SameTables
  <2>2. Searched(db) /\ \A r \in upstream.body : ~(r.rev <= 0)
    BY <1>1, GithubParts
  <2> QED
    BY <2>1, <2>2, <1>3, <1>7 DEF Searched, SameTables
<1> QED
  BY <1>1, <1>4, <1>5, <1>6, <1>8, <1>9, FoundFrom

\* A search stores and links all it finds.
LEMMA SearchFound ==
  ASSUME IInv, NEW c \in Cves, Search(c)
  PROVE  Effect /\ Steps' /\ Found' /\ kind = "github" /\ UNCHANGED kind
<1>1. PICK found : found = {r \in upstream.body : r.ok /\ c \in r.cves}
  OBVIOUS
<1>2. /\ run.pc = "search" /\ UNCHANGED <<kind, upstream, db>>
      /\ session' = [Put(session, found) EXCEPT !.checked[c] = upstream.now]
      /\ run' = [run EXCEPT !.attempt = 1, !.touched = @ \cup {c} \cup Named(found)]
  BY <1>1 DEF Search
<1>3. kind = "github"
  BY <1>2, StepKinds
<1>4. found \in SUBSET StoredRows /\ Keyed(found) /\ found \subseteq upstream.body
  BY <1>1, <1>3, GithubParts DEF Keyed
<1>5. PICK p \in Databases : p = Put(session, found)
  BY <1>4, Given, PutFields
<1>6. /\ p.checked = session.checked /\ p.state = session.state
      /\ \A r \in found : Rev(p, r.key) = r.rev
      /\ \A k : k \notin Keys(found) => Rev(p, k) = Rev(session, k)
      /\ session.links \subseteq p.links
      /\ \A r \in found : \A x \in r.cves : <<r.key, x>> \in p.links
  BY <1>4, <1>5, Given, PutFields, PutRev
<1>7. upstream.now \in Nat
  BY <1>3, GithubParts
<1>8. PICK e : e = [p EXCEPT !.checked[c] = upstream.now]
  OBVIOUS
<1>9. /\ e \in Databases /\ SameTables(e, p) /\ e.state = p.state
      /\ e.checked = [p.checked EXCEPT ![c] = upstream.now]
  BY <1>7, <1>8, CheckedFields
<1>10. session' = e
  BY <1>2, <1>5, <1>8
<1>11. PICK t \in SUBSET Cves : t = run.touched \cup {c} \cup Named(found)
  <2>1. Named(found) \subseteq Cves
    BY <1>4 DEF Named, StoredRows
  <2> QED
    BY <2>1, Given DEF Runs
<1>12. run' \in Runs /\ run'.pc = run.pc /\ run'.touched = t
  <2>1. 1 \in 1 .. MaxRetries + 1
    BY RunAssumption DEF RunAssumption
  <2>2. run' = [run EXCEPT !.attempt = 1, !.touched = t]
    BY <1>2, <1>11, Given DEF Runs
  <2> QED
    BY <2>1, <2>2, Given DEF Runs
<1>13. Effect
  <2>1. SameTables(session', Put(session, found)) /\ SameTables(db', db)
    BY <1>2, <1>5, <1>9, <1>10 DEF SameTables
  <2>2. Writes(found)
    BY <2>1, <1>11, <1>12 DEF Writes
  <2> QED
    BY <2>2, <1>2, <1>4, <1>9, <1>10, <1>12, Given DEF Effect, Typed
<1>14. Steps'
  <2>1. session'.state = db'.state
    BY <1>2, <1>6, <1>9, <1>10, Given DEF Steps
  <2> QED
    BY <2>1, <1>2, <1>12, Given DEF Steps, Clean
<1>15. \A x \in Cves : e.checked[x] = IF x = c THEN upstream.now ELSE session.checked[x]
  BY <1>6, <1>9, Given DEF Databases
<1>16. \A x \in Cves : e.checked[x] \in 0 .. upstream.now
  BY <1>3, <1>7, <1>15, GithubParts
<1>17. Searched(e)
  <2> SUFFICES ASSUME NEW x \in Cves, NEW r \in upstream.body,
                      r.ok, x \in r.cves, r.rev <= e.checked[x]
               PROVE  Rev(p, r.key) >= r.rev /\ <<r.key, x>> \in p.links
    <3>1. e.links = p.links /\ \A k : Rev(e, k) = Rev(p, k)
      BY <1>9, RevSame DEF SameTables
    <3> QED
      BY <3>1 DEF Searched
  <2>1. r.rev \in Nat
    BY <1>3, GithubParts
  <2>2. CASE r \in found
    BY <2>1, <2>2, <1>6
  <2>3. CASE r \notin found
    <3>1. x # c
      BY <2>3, <1>1
    <3>2. r.rev <= session.checked[x]
      BY <3>1, <1>15
    <3>3. Rev(session, r.key) >= r.rev /\ <<r.key, x>> \in session.links
      BY <3>2, <1>3, GithubParts DEF Searched
    <3>4. r.key \notin Keys(found)
      <4> SUFFICES ASSUME NEW s \in found, s.key = r.key
                   PROVE  FALSE
        BY DEF Keys
      <4>1. s = r
        BY <1>3, <1>4, GithubParts DEF Keyed
      <4> QED
        BY <4>1, <2>3
    <3> QED
      BY <3>3, <3>4, <1>6
  <2> QED
    BY <2>2, <2>3
<1>18. Searched(db) /\ \A x \in Cves : db.checked[x] \in 0 .. upstream.now
  BY <1>3, GithubParts
<1>19. Found'
  BY <1>2, <1>3, <1>10, <1>16, <1>17, <1>18, FoundFrom
<1> QED
  BY <1>2, <1>3, <1>13, <1>14, <1>19

------------------------------------------------------------------------------
(* The invariant                                                            *)

\* The invariant holds at the start.
LEMMA Initially ==
  ASSUME Init
  PROVE  IInv
<1>1. kind \in Kinds /\ session = db /\ run = Idle
  BY DEF Init
<1>2. PICK st : st = IF kind = "nvd" THEN 0 ELSE None
  OBVIOUS
<1>3. db = NewDb(st) /\ st \in States
  BY <1>2 DEF Init, States
<1>4. /\ db.cache = NoCache /\ db.state = st /\ db.rows = {} /\ db.links = {}
      /\ db.derived = [c \in Cves |-> {}] /\ db.checked = [c \in Cves |-> 0]
      /\ db.missed = {}
  BY <1>3 DEF NewDb
<1>5. db \in Databases
  <2>1. NoCache \in Caches /\ {} \in SUBSET StoredRows /\ {} \in SUBSET (RowKeys \X Cves)
        /\ [c \in Cves |-> {}] \in [Cves -> SUBSET (RowKeys \X Nat)]
        /\ [c \in Cves |-> 0] \in [Cves -> Nat] /\ {} \in SUBSET Cves
    BY DEF NoCache, Caches
  <2> QED
    BY <2>1, <1>3 DEF NewDb, Databases
<1>6. Keyed(db.rows) /\ Linked(db)
  BY <1>4 DEF Keyed, Linked
<1>7. Shape
  BY <1>1, <1>5, <1>6, IdleRun DEF Shape
<1>8. Steps
  BY <1>1, IdleRun, StepsOfKinds DEF Steps
<1>9. Scored
  <2>1. \A c \in Cves : db.derived[c] = Evidence(db, c)
    BY <1>4 DEF Evidence
  <2> QED
    BY <2>1, <1>1 DEF Scored, Current
<1>10. Filed
  <2> SUFFICES ASSUME kind \in FileKinds
               PROVE  Filed
    BY DEF Filed
  <2>1. upstream = [etag |-> 1, digest |-> 1] /\ st = None
    BY <1>2 DEF Init, FileKinds
  <2>2. 1 \in DOMAIN Bodies
    BY FilesAssumption DEF FilesAssumption
  <2>3. upstream \in [etag : Nat, digest : DOMAIN Bodies]
    BY <2>1, <2>2
  <2>4. Digest(upstream) = 1
    BY <2>1 DEF Digest
  <2>5. Earlier(db.cache, upstream) /\ ~CacheKnows(db.cache)
    BY <2>1, <2>4, <1>4 DEF Earlier, CacheKnows, NoCache
  <2>6. FromFiles(db)
    BY <1>4 DEF FromFiles
  <2>7. ~StateKnows(None) /\ TagSeen(None, upstream)
    BY <2>1, <2>2, TagsDiffer DEF StateKnows, TagSeen
  <2>8. run.pc = "idle" /\ run.state = None
    BY <1>1 DEF Idle
  <2> QED
    BY <2>1, <2>3, <2>5, <2>6, <2>7, <2>8, <1>1, <1>4 DEF Filed
<1>11. Paged
  <2> SUFFICES ASSUME kind = "nvd"
               PROVE  Paged
    BY DEF Paged
  <2>1. upstream = [now |-> 1, body |-> [c \in Cves |-> 0]] /\ st = 0
    BY <1>2 DEF Init
  <2>2. upstream \in [now : Nat, body : [Cves -> Nat]]
        /\ \A c \in Cves : upstream.body[c] = 0
    BY <2>1
  <2>3. Covers(db)
    BY <2>2 DEF Covers
  <2> QED
    BY <2>1, <2>2, <2>3, <1>1, <1>4, IdleRun DEF Paged
<1>12. Found
  <2> SUFFICES ASSUME kind = "github"
               PROVE  Found
    BY DEF Found
  <2>1. upstream = [now |-> 1, body |-> {}]
    BY DEF Init, FileKinds
  <2>2. Searched(db)
    BY <2>1 DEF Searched
  <2>3. upstream \in [now : Nat, body : SUBSET StoredRows] /\ Keyed(upstream.body)
    BY <2>1 DEF Keyed
  <2> QED
    BY <2>1, <2>2, <2>3, <1>1, <1>4 DEF Found
<1> QED
  BY <1>7, <1>8, <1>9, <1>10, <1>11, <1>12 DEF IInv

\* The steps of a run that begins.
LEMMA StartsSteps ==
  ASSUME IInv, StartFile \/ StartGithub \/ StartNvd
  PROVE  Steps'
<1>1. /\ db' = db /\ session' = db /\ UNCHANGED <<kind, upstream>>
      /\ run'.touched = {}
      /\ kind \in FileKinds => run'.pc = "get"
      /\ kind = "github" => run'.pc = "search"
      /\ kind = "nvd" => run'.pc = IF db.state < upstream.now THEN "page" ELSE "window"
  BY StartsEffect
<1>2. run'.pc \in StepsOf(kind)
  BY <1>1, Given, StepsOfKinds DEF Kinds
<1> QED
  BY <1>1, <1>2 DEF Steps

\* What a step has to keep, for its kind of worker.
LEMMA Assembled ==
  ASSUME IInv, Effect, Steps', UNCHANGED kind,
         kind \in FileKinds => Filed', kind = "nvd" => Paged', kind = "github" => Found'
  PROVE  IInv'
BY EffectKeeps DEF IInv, Filed, Paged, Found

\* The steps that are common to all workers keep the invariant.
LEMMA CommonSteps ==
  ASSUME IInv,
         \/ Fail \/ Commit \/ SaveState \/ StartFile \/ StartNvd \/ StartGithub
         \/ Retry \/ NotModified \/ (SameBody /\ kind \in Deferred) \/ KnownRelease
         \/ NewRelease \/ Archive \/ Enriched \/ SearchesEnd \/ Watched
  PROVE  IInv'
<1>1. CASE Fail \/ Commit \/ SaveState \/ StartFile \/ StartNvd \/ StartGithub
  <2>1. Effect /\ Steps' /\ UNCHANGED kind
    BY <1>1, FailMeans, CommitMeans, SaveMeans, StartsEffect, StartsSteps
  <2>2. ASSUME kind \in FileKinds
        PROVE  Filed'
    <3>1. Fail \/ Commit \/ SaveState \/ StartFile
      BY <1>1, <2>2, StepKinds DEF StartNvd, StartGithub
    <3> QED
      BY <3>1, <2>2, CommonFiled
  <2>3. ASSUME kind = "nvd"
        PROVE  Paged'
    <3>1. Fail \/ Commit \/ SaveState \/ StartNvd
      BY <1>1, <2>3, StepKinds DEF StartFile, StartGithub
    <3> QED
      BY <3>1, <2>3, CommonPaged
  <2>4. ASSUME kind = "github"
        PROVE  Found'
    <3>1. Fail \/ Commit \/ SaveState \/ StartGithub
      BY <1>1, <2>4, StepKinds DEF StartFile, StartNvd
    <3> QED
      BY <3>1, <2>4, CommonFound
  <2> QED
    BY <2>1, <2>2, <2>3, <2>4, Assembled
<1>2. CASE ~(Fail \/ Commit \/ SaveState \/ StartFile \/ StartNvd \/ StartGithub)
  <2>1. Calm
    BY <1>2, CalmSteps
  <2>2. Effect /\ Steps' /\ UNCHANGED kind
    BY <2>1, CalmEffect DEF Calm
  <2> QED
    BY <2>1, <2>2, CalmFiled, CalmPaged, CommonFound, Assembled
<1> QED
  BY <1>1, <1>2

\* So do those of the workers that read documents, and their sources' ...
LEMMA FileSteps ==
  ASSUME IInv, FileNext
  PROVE  IInv'
<1>1. CASE Publish \/ Redeploy
  BY <1>1, PublishMeans, PublishFiled, StepKinds, Assembled
<1>2. CASE (SameBody /\ kind \notin Deferred) \/ NewBody
  <2>1. Effect /\ Steps' /\ UNCHANGED kind /\ kind \in FileKinds
    BY <1>2, SameBodyMeans, NewBodyMeans
  <2>2. Filed'
    BY <1>2, BodyFiled
  <2> QED
    BY <2>1, <2>2, StepKinds, Assembled
<1>3. CASE ReadRows
  <2>1. Effect /\ Steps' /\ UNCHANGED kind /\ kind \in FileKinds
    BY <1>3, ReadRowsMeans, StepKinds
  <2> QED
    BY <2>1, <1>3, ReadRowsFiled, StepKinds, Assembled
<1>4. CASE InsertChunk
  <2>1. Effect /\ Steps' /\ UNCHANGED kind /\ kind \in FileKinds
    BY <1>4, InsertChunkMeans, StepKinds
  <2> QED
    BY <2>1, <1>4, InsertChunkFiled, StepKinds, Assembled
<1>5. CASE Remember
  <2>1. Effect /\ Steps' /\ UNCHANGED kind /\ kind \in FileKinds
    BY <1>5, RememberMeans, StepKinds
  <2> QED
    BY <2>1, <1>5, RememberFiled, StepKinds, Assembled
<1>6. CASE \/ StartFile \/ NotModified \/ (SameBody /\ kind \in Deferred) \/ KnownRelease
           \/ NewRelease \/ Archive
  BY <1>6, CommonSteps
<1> QED
  BY <1>1, <1>2, <1>3, <1>4, <1>5, <1>6 DEF FileNext

\* ... and those of the workers that put questions to an API.
LEMMA ApiSteps ==
  ASSUME IInv, ApiNext
  PROVE  IInv'
<1>1. ASSUME NEW c \in Cves, NEW d \in {0, 1}, Modify(c, upstream.now + d)
      PROVE  IInv'
  BY <1>1, ModifyMeans, ModifyPaged, StepKinds, Assembled
<1>2. CASE Page
  <2>1. PICK served : served = {c \in Hits : Index(c) \in run.start .. run.start + PageSize - 1}
    OBVIOUS
  <2>2. Effect /\ Steps' /\ UNCHANGED kind /\ kind = "nvd"
    BY <1>2, <2>1, PageMeans
  <2> QED
    BY <2>2, <1>2, PagePaged, StepKinds, Assembled
<1>3. CASE Window
  BY <1>3, WindowMeans, WindowPaged, StepKinds, Assembled
<1>4. ASSUME NEW c \in Cves, EnrichOne(c)
      PROVE  IInv'
  BY <1>4, EnrichOneMeans, EnrichPaged, StepKinds, Assembled
<1>5. ASSUME NEW c \in Cves, RecheckDue(c) \/ Search(c)
      PROVE  IInv'
  <2>1. Effect /\ Steps' /\ Found' /\ kind = "github" /\ UNCHANGED kind
    BY <1>5, RecheckDueFound, SearchFound
  <2> QED
    BY <2>1, StepKinds, Assembled
<1>6. ASSUME NEW r \in Repos, PublishRepo(r)
      PROVE  IInv'
  <2>1. Effect /\ Steps' /\ Found' /\ kind = "github" /\ UNCHANGED kind
    BY <1>6, PublishRepoFound
  <2> QED
    BY <2>1, StepKinds, Assembled
<1>7. CASE StartNvd \/ StartGithub \/ Enriched \/ SearchesEnd \/ Watched
  BY <1>7, CommonSteps
<1> QED
  BY <1>1, <1>2, <1>3, <1>4, <1>5, <1>6, <1>7 DEF ApiNext

\* Nothing changes while nothing is done.
LEMMA Stutters ==
  ASSUME IInv, UNCHANGED vars
  PROVE  IInv'
<1>1. kind' = kind /\ upstream' = upstream /\ db' = db /\ session' = session /\ run' = run
  BY DEF vars
<1>2. /\ Shape' /\ Steps' /\ Scored'
  BY <1>1 DEF IInv, Shape, Steps, Scored
<1>3. Calm
  BY <1>1, Given DEF Calm, GoesOn
<1>4. Effect /\ UNCHANGED kind
  BY <1>1, <1>3, CalmEffect
<1> QED
  BY <1>2, <1>3, <1>4, CalmFiled, CalmPaged, CommonFound, Assembled

\* The invariant always holds.
THEOREM Invariance == Spec => []IInv
<1>1. Init => IInv
  BY Initially
<1>2. IInv /\ [Next]_vars => IInv'
  <2> SUFFICES ASSUME IInv, [Next]_vars
               PROVE  IInv'
    OBVIOUS
  <2>1. CASE UNCHANGED vars
    BY <2>1, Stutters
  <2>2. CASE Retry \/ Fail \/ Commit \/ SaveState
    BY <2>2, CommonSteps
  <2>3. CASE FileNext
    BY <2>3, FileSteps
  <2>4. CASE ApiNext
    BY <2>4, ApiSteps
  <2> QED
    BY <2>1, <2>2, <2>3, <2>4 DEF Next
<1> QED
  BY <1>1, <1>2, PTL DEF Spec

------------------------------------------------------------------------------
(* What it says of the workers                                              *)

\* A key has one row, a link leads from a row to a CVE, a run asks again at most
\* MaxRetries times, and between runs the session holds what is committed.
THEOREM TypeCorrect == Spec => []TypeOK
<1>1. IInv => TypeOK
  <2> SUFFICES ASSUME IInv
               PROVE  TypeOK
    OBVIOUS
  <2>1. ASSUME NEW d \in {db, session}
        PROVE  /\ \A r, s \in d.rows : r.key = s.key => r = s
               /\ d.links \subseteq Keys(d.rows) \X Cves
               /\ \A c \in Cves : \A e \in d.derived[c] : <<e[1], c>> \in d.links
    <3>1. d \in Databases /\ Keyed(d.rows) /\ Linked(d)
      BY Given
    <3>2. d.links \subseteq RowKeys \X Cves
      BY <3>1 DEF Databases
    <3> QED
      BY <3>1, <3>2 DEF Keyed, Linked
  <2>2. run.attempt \in 1 .. MaxRetries + 1
    BY Given DEF Runs
  <2>3. run.pc = "idle" => session = db
    BY Given DEF Steps, Clean
  <2> QED
    BY <2>1, <2>2, <2>3, Given DEF TypeOK
<1> QED
  BY <1>1, Invariance, PTL

\* What makes a run end as "not modified" (a validator in http_cache, or the Sigma
\* release in sources.state) is committed only with the whole document imported,
\* for any documents, chunk size, failures and retries.
THEOREM ImportedBeforeRemembered == Spec => []RememberedIsImported
<1>1. IInv => RememberedIsImported
  <2> SUFFICES ASSUME IInv, kind \in FileKinds
               PROVE  /\ CacheKnows(db.cache) => Imported(upstream.digest)
                      /\ StateKnows(db.state) => Imported(upstream.digest)
    BY DEF RememberedIsImported, CacheKnows, StateKnows
  <2>1. CacheKnows(db.cache) \/ StateKnows(db.state) => ImportedIn(db, upstream.digest)
    BY FiledParts
  <2>2. ImportedIn(db, upstream.digest) => Imported(upstream.digest)
    BY DEF ImportedIn, Imported
  <2> QED
    BY <2>1, <2>2
<1> QED
  BY <1>1, Invariance, PTL

\* At every commit what was derived of a CVE agrees with the rows linked to it, but
\* where a row no longer names it.
THEOREM ScoresFollow == Spec => []ScoresFollowLinks
<1>1. IInv => ScoresFollowLinks
  BY DEF IInv, Scored, Current, ScoresFollowLinks
<1> QED
  BY <1>1, Invariance, PTL

\* Every change that NVD's cursor has passed is stored, for any order of the hits,
\* page size, window and failures, but for the records that were missed when one on
\* an earlier page was modified meanwhile.
THEOREM NoChangePassedOver == Spec => []CursorCovers
<1>1. IInv => CursorCovers
  BY DEF IInv, Paged, Covers, CursorCovers
<1> QED
  BY <1>1, Invariance, PTL

\* What counts as checked on GitHub was searched for, stored and linked.
THEOREM CheckedWasSearched == Spec => []CheckedIsSearched
<1>1. IInv => CheckedIsSearched
  BY DEF IInv, Found, Searched, CheckedIsSearched
<1> QED
  BY <1>1, Invariance, PTL

================================================================================
