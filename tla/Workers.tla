------------------------------- MODULE Workers -------------------------------
(***************************************************************************)
(* Any one of the workers, chosen at the start, run again and again while    *)
(* its source changes.  MITRE ATT&CK is in Documents.tla.                    *)
(***************************************************************************)
EXTENDS FileWorkers, ApiWorkers

Kinds == FileKinds \cup {"nvd", "github"}

Init ==
    /\ kind \in Kinds
    /\ upstream =
         CASE kind = "nvd"    -> [now |-> 1, body |-> [c \in Cves |-> 0]]
           [] kind = "github" -> [now |-> 1, body |-> {}]
           [] OTHER           -> [etag |-> 1, digest |-> 1]
    /\ db = NewDb(IF kind = "nvd" THEN 0 ELSE None)
    /\ session = db
    /\ run = Idle

Next == Retry \/ Fail \/ Commit \/ SaveState \/ FileNext \/ ApiNext

\* The scheduler starts runs for ever, and no step of a run fails every time
\* that it is tried.
Fairness ==
    /\ WF_vars(StartFile)
    /\ SF_vars(NotModified \/ SameBody \/ NewBody)
    /\ SF_vars(KnownRelease \/ NewRelease) /\ SF_vars(Archive)
    /\ SF_vars(ReadRows) /\ SF_vars(InsertChunk) /\ SF_vars(Remember)
    /\ SF_vars(Commit) /\ WF_vars(SaveState)

Spec == Init /\ [][Next]_vars /\ Fairness

(***************************************************************************)
(* Properties                                                              *)
(***************************************************************************)
\* A key has one row (the unique keys of models.py), a link leads from a row to a
\* CVE, and the session holds nothing that is not committed between runs.
TypeOK ==
    /\ kind \in Kinds
    /\ \A d \in {db, session} :
         /\ \A r, s \in d.rows : r.key = s.key => r = s
         /\ d.links \subseteq Keys(d.rows) \X Cves
         /\ \A c \in Cves : \A e \in d.derived[c] : <<e[1], c>> \in d.links
    /\ run.attempt \in 1 .. MaxRetries + 1
    /\ run.pc = "idle" => session = db

\* Every row of the n-th document that can be read is stored, as it stands there.
Imported(n) ==
    \A i \in DOMAIN Bodies[n].rows :
        LET row == Bodies[n].rows[i]
        IN  row.ok => \E r \in db.rows :
                        /\ r.key = row.key
                        /\ \E j \in DOMAIN Bodies[n].rows : Bodies[n].rows[j] = r
                        /\ \A c \in r.cves : <<r.key, c>> \in db.links

Published(n) == kind \in FileKinds /\ upstream.digest = n

\* What makes a run end as "not modified", the validators in http_cache and
\* Sigma's release, is never committed before the whole document is, however a run
\* was cut short: otherwise the rest would not be read until the source changes.
RememberedIsImported ==
    kind \in FileKinds =>
        /\ (db.cache.etag = upstream.etag \/ db.cache.digest = Digest(upstream))
             => Imported(upstream.digest)
        /\ (kind = "sigma" /\ db.state = Bodies[upstream.digest].tag)
             => Imported(upstream.digest)

\* What was derived of a CVE agrees with the rows that are linked to it, at every
\* commit: a run that dies leaves no link behind that was not taken into account.
\* Exception: a row that named the CVE once and no longer does keeps its link, and
\* nothing recomputes that CVE when the row changes.
ScoresFollowLinks ==
    \A c \in Cves :
        \/ db.derived[c] = Evidence(db, c)
        \/ \E r \in db.rows : <<r.key, c>> \in db.links /\ c \notin r.cves

\* NVD's cursor covers every change before it, through failed pages, restarts and
\* windows that are cut: no change is lost, but for a record that was missed when
\* one on an earlier page was modified while the pages were read.
CursorCovers ==
    kind = "nvd" =>
        \A c \in Cves \ db.missed :
            /\ upstream.body[c] \in 1 .. db.state - 1
            /\ c \in Keys(db.rows) \cup Recent
            => Rev(db, c) = upstream.body[c]

\* A CVE that counts as checked on GitHub was searched for: every repository that
\* named it then is stored and linked, also after a rate limit or a failed run.
CheckedIsSearched ==
    kind = "github" =>
        \A c \in Cves, r \in upstream.body :
            r.ok /\ c \in r.cves /\ r.rev <= db.checked[c] =>
                Rev(db, r.key) >= r.rev /\ <<r.key, c>> \in db.links

\* Every document that stays long enough is imported to its end, whatever fails on
\* the way: a chunk that was committed is not done again, and none is forgotten.
EventuallyImported ==
    \A n \in DOMAIN Bodies : Published(n) ~> (Imported(n) \/ ~Published(n))
=============================================================================
