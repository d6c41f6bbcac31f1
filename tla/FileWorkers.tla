----------------------------- MODULE FileWorkers -----------------------------
(***************************************************************************)
(* The workers that read a whole document at a time: CISA KEV, Exploit-DB,   *)
(* SigmaHQ, abuse.ch and the RSS feeds.  All ask for it conditionally; all    *)
(* but KEV and the feeds insert in chunks and remember the document last.     *)
(*                                                                         *)
(* upstream is [etag, digest]: the validator the server sends, and the       *)
(* document, as its place in the order in which the source publishes.        *)
(***************************************************************************)
EXTENDS WorkerRun

CONSTANTS
    Bodies,       \* the documents a source publishes, in order: [tag, rows]
    Chunk,        \* rows per checkpoint (500 or 1000)
    MaxRedeploys  \* how often it serves the same document under a new validator

FileRows == UNION {{Bodies[n].rows[i] : i \in DOMAIN Bodies[n].rows} : n \in DOMAIN Bodies}

\* A source gives a row that it changes a new revision, which for Exploit-DB is the
\* date it was updated, and Sigma gives each release a tag of its own.
ASSUME FilesAssumption ==
    /\ Bodies \in Seq({Bodies[n] : n \in DOMAIN Bodies}) /\ Bodies # <<>>
    /\ \A n \in DOMAIN Bodies :
         /\ Bodies[n].rows \in Seq(FileRows)
         /\ Bodies[n].tag # None
         /\ \A m \in DOMAIN Bodies : Bodies[m].tag = Bodies[n].tag => m = n
    /\ \A r \in FileRows :
         r \in [key : {r.key}, rev : Nat \ {0}, cves : SUBSET Cves, ok : BOOLEAN]
    /\ \A r, s \in FileRows :
         r.ok /\ s.ok /\ r.key = s.key /\ r.rev = s.rev => r = s

FileKinds == {"cisa_kev", "exploitdb", "sigma", "abusech", "feed"}
Deferred == {"exploitdb", "sigma", "abusech"}

\* The document a Sigma run asks for first is the description of the release,
\* which changes with every download; the others are the rows themselves.
Digest(u) == IF kind = "sigma" THEN u.etag ELSE u.digest

Tag == Bodies[run.got.digest].tag

Validators(u) == [etag |-> u.etag, digest |-> Digest(u)]

(***************************************************************************)
(* The source                                                              *)
(***************************************************************************)
Publish ==
    /\ kind \in FileKinds
    /\ upstream.digest < Len(Bodies)
    /\ upstream' = [etag |-> upstream.etag + 1, digest |-> upstream.digest + 1]
    /\ UNCHANGED <<kind, db, session, run>>

\* The same document under a new validator.
Redeploy ==
    /\ kind \in FileKinds
    /\ upstream.etag - upstream.digest < MaxRedeploys
    /\ upstream' = [upstream EXCEPT !.etag = @ + 1]
    /\ UNCHANGED <<kind, db, session, run>>

(***************************************************************************)
(* HttpClient.get with conditional                                         *)
(***************************************************************************)
StartFile == kind \in FileKinds /\ Begin("get")

\* 304
NotModified ==
    /\ kind \in FileKinds /\ run.pc = "get"
    /\ session.cache.etag = upstream.etag
    /\ Finish
    /\ UNCHANGED <<kind, upstream, db, session>>

\* 200 with the body that is remembered.
SameBody ==
    /\ kind \in FileKinds /\ run.pc = "get"
    /\ session.cache.digest = Digest(upstream)
    /\ session' = IF kind \in Deferred THEN session
                  ELSE [session EXCEPT !.cache = Validators(upstream)]
    /\ Finish
    /\ UNCHANGED <<kind, upstream, db>>

\* A new body.  Without defer_cache its validators go into the session at once.
NewBody ==
    /\ kind \in FileKinds /\ run.pc = "get"
    /\ session.cache.digest # Digest(upstream)
    /\ session' = IF kind \in Deferred THEN session
                  ELSE [session EXCEPT !.cache = Validators(upstream)]
    /\ run' = [run EXCEPT !.pc = IF kind = "sigma" THEN "release" ELSE "rows",
                          !.attempt = 1, !.got = upstream]
    /\ UNCHANGED <<kind, upstream, db>>

\* Mutant: any release that was ingested counts as this one.
KnownReleaseOnce ==
    /\ run.pc = "release"
    /\ run.state # None
    /\ Finish
    /\ UNCHANGED <<kind, upstream, db, session>>

\* SigmaWorker: a release that was ingested is not fetched again.
KnownRelease ==
    /\ run.pc = "release"
    /\ run.state = Tag
    /\ Finish
    /\ UNCHANGED <<kind, upstream, db, session>>

NewRelease ==
    /\ run.pc = "release"
    /\ run.state # Tag
    /\ run' = [run EXCEPT !.pc = "archive"]
    /\ UNCHANGED <<kind, upstream, db, session>>

Archive ==
    /\ run.pc = "archive"
    /\ run' = [run EXCEPT !.pc = "rows", !.attempt = 1]
    /\ UNCHANGED <<kind, upstream, db, session>>

(***************************************************************************)
(* The rows.  Malformed ones are skipped; "existing" is what the session    *)
(* had before the first of them.                                            *)
(***************************************************************************)
Rows == Bodies[run.got.digest].rows
Parsed == {i \in DOMAIN Rows : Rows[i].ok}
At(i) == Rows[i]
Exists(i) == At(i).key \in Keys(session.rows)

\* Of several rows with one key Sigma and abuse.ch take the first, as does
\* Exploit-DB where the key is new; KEV and the feeds apply them in order.
Twins(i) == {j \in Parsed : At(j).key = At(i).key}
FirstOf(i) == \A j \in Twins(i) : i <= j
LastOf(ps, i) == \A j \in Twins(i) \cap ps : j <= i

\* The rows written over existing ones: those whose source_updated_at differs
\* for Exploit-DB, every one for Sigma and abuse.ch.
Overwriting ==
    CASE kind = "exploitdb" ->
           LET changed == {i \in Parsed : Exists(i) /\ Rev(session, At(i).key) # At(i).rev}
           IN  {i \in changed : LastOf(changed, i)}
      [] kind \in {"sigma", "abusech"} -> {i \in Parsed : Exists(i) /\ FirstOf(i)}
      [] OTHER -> {i \in Parsed : LastOf(Parsed, i) /\ Rev(session, At(i).key) # At(i).rev}

Inserted == IF kind \in Deferred THEN {i \in Parsed : ~Exists(i) /\ FirstOf(i)} ELSE {}

ReadRows ==
    /\ run.pc = "rows"
    /\ LET written == {At(i) : i \in Overwriting}
       IN  /\ session' = Put(session, written)
           /\ run' = [run EXCEPT !.pc = IF kind \in Deferred THEN "insert" ELSE "commit",
                                 !.touched = @ \cup Named(written),
                                 !.state = IF kind = "cisa_kev" THEN Tag ELSE @,
                                 !.new = Inserted]
    /\ UNCHANGED <<kind, upstream, db>>

FirstChunk == {i \in run.new : Cardinality({j \in run.new : j < i}) < Chunk}

\* Mutant: the document is remembered with the first chunk.
InsertChunkRemembering ==
    /\ run.pc = "insert" /\ run.new # {}
    /\ LET rows == {At(i) : i \in FirstChunk}
       IN  Checkpoint([Put(session, rows) EXCEPT !.cache = Validators(run.got)],
                      [run EXCEPT !.new = @ \ FirstChunk, !.touched = @ \cup Named(rows)])
    /\ UNCHANGED <<kind, upstream>>

InsertChunk ==
    /\ run.pc = "insert" /\ run.new # {}
    /\ LET rows == {At(i) : i \in FirstChunk}
       IN  Checkpoint(Put(session, rows),
                      [run EXCEPT !.new = @ \ FirstChunk, !.touched = @ \cup Named(rows)])
    /\ UNCHANGED <<kind, upstream>>

\* store_validators, and Sigma's release.
Remember ==
    /\ run.pc = "insert" /\ run.new = {}
    /\ session' = [session EXCEPT !.cache = Validators(run.got)]
    /\ run' = [run EXCEPT !.pc = "commit",
                          !.state = IF kind = "sigma" THEN Tag ELSE @]
    /\ UNCHANGED <<kind, upstream, db>>

FileNext ==
    \/ Publish \/ Redeploy
    \/ StartFile \/ NotModified \/ SameBody \/ NewBody
    \/ KnownRelease \/ NewRelease \/ Archive
    \/ ReadRows \/ InsertChunk \/ Remember
=============================================================================
