----------------------------- MODULE ApiWorkers -----------------------------
(***************************************************************************)
(* The workers that put questions to an API: NVD's pages of a window of      *)
(* time, then single CVEs, and GitHub's searches, one for each CVE.          *)
(*                                                                         *)
(* For NVD upstream is [now, body]: the time, and when each CVE of NVD's was  *)
(* last modified (0 if it is not there).  For GitHub body is a set of rows.   *)
(***************************************************************************)
EXTENDS WorkerRun

CONSTANTS
    Place,        \* of a CVE in the order of NVD's pages, a number
    Recent,       \* those published recently enough to be taken up when new
    Wanted,       \* those that KEV or an article names: candidates to enrich
    PageSize,     \* NVD's resultsPerPage
    MaxWindow,    \* the longest window NVD allows
    Repos,        \* what may be published on GitHub, by revision
    MaxTime       \* the bound of the time

ASSUME ApiAssumption ==
    /\ PageSize \in Nat \ {0} /\ MaxWindow \in Nat \ {0}
    /\ Place \in [Cves -> Int] /\ \A c, d \in Cves : Place[c] = Place[d] => c = d
    /\ \A r \in Repos : r \in [key : {r.key}, rev : {r.rev}, cves : SUBSET Cves, ok : BOOLEAN]

(***************************************************************************)
(* NVD                                                                     *)
(***************************************************************************)
\* Mutant: a window starts after the end of the one before.
HitsAfter(body, from, to) == {c \in Cves : body[c] \in from + 1 .. to}

\* The hits of a window, both its ends included.
HitsIn(body, from, to) == {c \in Cves : body[c] \in from .. to}

WindowEnd == IF run.now <= run.state + MaxWindow THEN run.now ELSE run.state + MaxWindow

Hits == HitsIn(upstream.body, run.state, WindowEnd)

\* The startIndex at which a hit comes.
Index(c) == Cardinality({d \in Hits : Place[d] < Place[c]})

\* A record changes (or appears), in the second that is running or in the next.
\* When one that was served leaves the window, what comes after it moves up by
\* one, and the first of the page yet to be asked for is missed.
Modify(c, second) ==
    /\ kind = "nvd"
    /\ second <= MaxTime
    /\ upstream' = [now |-> second, body |-> [upstream.body EXCEPT ![c] = second]]
    /\ run' = IF run.pc = "page" /\ c \in Hits /\ Index(c) < run.start /\ second > WindowEnd
               THEN [run EXCEPT !.missed = @ \cup {d \in Hits : Index(d) = run.start}]
               ELSE run
    /\ UNCHANGED <<kind, db, session>>

StartNvd ==
    /\ kind = "nvd" /\ run.pc = "idle"
    /\ session' = db
    /\ run' = [Idle EXCEPT !.pc = IF db.state < upstream.now THEN "page" ELSE "window",
                           !.state = db.state, !.now = upstream.now]
    /\ UNCHANGED <<kind, upstream, db>>

Record(c) == [key |-> c, rev |-> upstream.body[c], cves |-> {c}, ok |-> TRUE]

\* _apply: a CVE that is not known is taken up if it is recent.
Taken(cves) == {Record(c) : c \in cves \cap (Keys(session.rows) \cup Recent)}

\* One request, and a checkpoint.
Page ==
    /\ run.pc = "page"
    /\ LET served == {c \in Hits : Index(c) \in run.start .. run.start + PageSize - 1}
       IN  Checkpoint([Put(session, Taken(served)) EXCEPT !.missed = @ \ served],
              [run EXCEPT !.touched = Keys(Taken(served)), !.attempt = 1,
                          !.missed = @ \ served,
                          !.start = @ + PageSize,
                          !.pc = IF run.start + PageSize >= Cardinality(Hits) THEN "window"
                                 ELSE "page"])
    /\ UNCHANGED <<kind, upstream>>

\* The window is done: only now does the cursor move.
Window ==
    /\ run.pc = "window"
    /\ LET state == IF run.state < run.now THEN WindowEnd ELSE run.state
       IN  Checkpoint([session EXCEPT !.missed = @ \cup run.missed],
              [run EXCEPT !.state = state, !.start = 0, !.missed = {},
                          !.pc = IF state < run.now THEN "page" ELSE "enrich"])
    /\ UNCHANGED <<kind, upstream>>

\* Phase B: a CVE that is wanted and not stored as NVD has it now.  One answer
\* that fails undoes them all, as there is no checkpoint between them.
EnrichOne(c) ==
    /\ run.pc = "enrich"
    /\ c \in Wanted /\ upstream.body[c] > Rev(session, c)
    /\ session' = Put(session, {Record(c)})
    /\ run' = [run EXCEPT !.touched = @ \cup {c}]
    /\ UNCHANGED <<kind, upstream, db>>

Enriched ==
    /\ run.pc = "enrich"
    /\ Finish
    /\ UNCHANGED <<kind, upstream, db, session>>

(***************************************************************************)
(* GitHub                                                                  *)
(***************************************************************************)
PublishRepo(r) ==
    /\ kind = "github"
    /\ upstream.now < MaxTime
    /\ upstream' = [now |-> upstream.now + 1,
                    body |-> {s \in upstream.body : s.key # r.key}
                             \cup {[r EXCEPT !.rev = upstream.now + 1]}]
    /\ UNCHANGED <<kind, db, session, run>>

\* After GITHUB_RECHECK_HOURS a CVE is a candidate again.
RecheckDue(c) ==
    /\ kind = "github" /\ run.pc = "idle"
    /\ db.checked[c] # 0
    /\ db' = [db EXCEPT !.checked[c] = 0]
    /\ session' = db'
    /\ UNCHANGED <<kind, upstream, run>>

StartGithub ==
    /\ kind = "github"
    /\ Begin("search")

Unchecked == {c \in Cves : session.checked[c] = 0}

\* _search and _upsert_repo: forks and what is no repository are left out, the
\* others are linked to every CVE they name.
Search(c) ==
    /\ run.pc = "search" /\ c \in Unchecked
    /\ LET found == {r \in upstream.body : r.ok /\ c \in r.cves}
       IN  /\ session' = [Put(session, found) EXCEPT !.checked[c] = upstream.now]
           /\ run' = [run EXCEPT !.attempt = 1, !.touched = @ \cup {c} \cup Named(found)]
    /\ UNCHANGED <<kind, upstream, db>>

\* Mutant: the candidates that are left count as checked.
SearchesEndChecked ==
    /\ run.pc = "search"
    /\ session' = [session EXCEPT !.checked = [c \in Cves |-> upstream.now]]
    /\ run' = [run EXCEPT !.pc = "watch", !.attempt = 1]
    /\ UNCHANGED <<kind, upstream, db>>

\* 403 or 429: the searches stop, what was found stays.  So they do when the
\* candidates of a run are through.
SearchesEnd ==
    /\ run.pc = "search"
    /\ run' = [run EXCEPT !.pc = "watch", !.attempt = 1]
    /\ UNCHANGED <<kind, upstream, db, session>>

\* _watch_repo: an error is only noted.
Watched ==
    /\ run.pc = "watch"
    /\ Finish
    /\ UNCHANGED <<kind, upstream, db, session>>

ApiNext ==
    \/ \E c \in Cves, d \in {0, 1} : Modify(c, upstream.now + d)
    \/ \E c \in Cves : EnrichOne(c) \/ RecheckDue(c) \/ Search(c)
    \/ StartNvd \/ Page \/ Window \/ Enriched
    \/ \E r \in Repos : PublishRepo(r)
    \/ StartGithub \/ SearchesEnd \/ Watched
=============================================================================
