------------------------------ MODULE Documents ------------------------------
(***************************************************************************)
(* The graph around one CVE while the threads of the scheduler write to it:  *)
(* a feed with an article (workers/feed.py), the import of MITRE ATT&CK and   *)
(* the relinking after it (workers/mitre_attack.py), the dictionary of names  *)
(* that both use (services/extract.py), a worker that links exploits, and     *)
(* the maintenance job, each in a session of its own that sees what is        *)
(* committed and what it wrote itself (READ COMMITTED).  NVD's data of the    *)
(* CVE is there and stays as it is.                                         *)
(*                                                                         *)
(* The article is a member of Articles: the names it mentions, those in its   *)
(* excerpt, and where it speaks of the CVE and of its exploitation.          *)
(***************************************************************************)
EXTENDS Scoring, Sequences

CONSTANTS
    Articles,     \* what the article may say: see MCDocuments
    Known,        \* the names ATT&CK has, by version; the first is there at the start
    Exploits,     \* exploits that name the CVE
    None,         \* no value
    Cvss,         \* the score that NVD gives the CVE, in tenths
    Recent,       \* whether the CVE was published in the last 60 days
    MaxFeeds      \* how often the feed changes

VARIABLES
    feed,         \* what the feed serves: [seq, article]
    published,    \* the version of ATT&CK that MITRE publishes
    db,           \* the committed database
    dict,         \* _dict_cache: the version of the scheduler's dictionary
    dictLock,     \* _dict_lock: its holder, or None
    session,      \* by thread: its step and what it has not committed
    elsewhere,    \* never changes: whether MITRE is imported by collect_once.py,
                  \* a process of its own
    excuses       \* history: what explains that something is not up to date

vars == <<feed, published, db, dict, dictLock, session, elsewhere, excuses>>

Threads == {"feed", "mitre", "exploitdb", "maintenance"}
Versions == DOMAIN Known
First == CHOOSE v \in Versions : \A w \in Versions : v <= w

\* The edges of the article: to names of ATT&CK, and to the CVE, either as one that
\* it is about or as one of many, or as one that it says is exploited.
Names == UNION {Known[v] : v \in Versions}
Mentions == {"mentions", "mentions weakly"}
Edges == Names \cup Mentions \cup {"reports"}

\* The article as it is stored, with the version of the dictionary it was read with.
Docs == [article : Articles, version : Versions]

ASSUME DocumentsAssumption ==
    /\ Known \in Seq(SUBSET Names) /\ Known # <<>>
    /\ Names \cap (Mentions \cup {"reports"}) = {}
    /\ \A a \in Articles : a.excerpt \subseteq a.names
    /\ None \notin Versions /\ None \notin Threads
    /\ None \notin Articles /\ None \notin Docs
    /\ IsFiniteSet(Exploits)
    /\ Cvss \in 0 .. 100 /\ Recent \in BOOLEAN /\ MaxFeeds \in Nat

(***************************************************************************)
(* process_document: the links of the article, and recompute_vulnerability  *)
(***************************************************************************)
\* What there is to find in the article, in full or in the excerpt alone.
Text(article, whole) ==
    [names |-> IF whole THEN article.names ELSE article.excerpt,
     cve |-> article.cve = "excerpt" \/ (whole /\ article.cve = "text"),
     exploited |-> article.exploited = "excerpt" \/ (whole /\ article.exploited = "text"),
     focused |-> article.focused \/ ~whole]

\* Mutant: the confidence is part of what tells two edges apart.
MentionBeside(links, focused) == {IF focused THEN "mentions" ELSE "mentions weakly"} \ links

\* link: an edge that is there is left as it is, its confidence included.
Mention(links, focused) ==
    IF links \cap Mentions # {} THEN {}
    ELSE {IF focused THEN "mentions" ELSE "mentions weakly"}

Extract(links, text, version) ==
    ((IF text.cve THEN Mention(links, text.focused) ELSE {})
     \cup (IF text.cve /\ text.exploited /\ text.focused THEN {"reports"} ELSE {})
     \cup (text.names \cap Known[version])) \ links

\* What is derived of a CVE, and its score: from the links of the article and the
\* exploits.  The article is recent, an exploit is not.
Derive(links, exploits) ==
    LET linked == links \cap Mentions # {}
        actors == IF "mentions" \in links THEN links \cap Names ELSE {}
        sources == 1 + (IF linked THEN 1 ELSE 0) + (IF exploits # {} THEN 1 ELSE 0)
    IN  [exploited |-> "reports" \in links, exploits |-> exploits, actors |-> actors,
         active |-> Recent \/ linked,
         score |-> Score([inKev |-> FALSE, evidence |-> "reports" \in links,
                          ransomware |-> FALSE, exploits |-> Cardinality(exploits),
                          pocs |-> 0, ssvcPoc |-> FALSE, actors |-> actors # {},
                          rce |-> FALSE, authBypass |-> FALSE,
                          privilegeEscalation |-> FALSE, internetFacing |-> FALSE,
                          cvss |-> Cvss, sources |-> sources, dated |-> TRUE,
                          age |-> IF Recent \/ linked THEN 0 ELSE 90, products |-> 0])]

\* A CVE that nothing but NVD speaks of.
Underived == Derive({}, {})

UpToDate == db.derived = Derive(db.links, db.exploits)

\* The CVEs that maintenance looks at.
Selected == db.derived.active \/ db.derived.score >= 30

(***************************************************************************)
(* Sessions                                                                *)
(***************************************************************************)
\* A run in a process other than the scheduler.
Own(t) == t = "mitre" /\ elsewhere

Idle ==
    [pc |-> "idle", article |-> None, fetched |-> 0, version |-> None,
     read |-> None, doc |-> None, links |-> {}, exploits |-> {},
     loaded |-> Underived, derived |-> Underived, touched |-> FALSE, overlapped |-> FALSE]

\* A run that has read what it came for, and has only touched CVEs to derive anew.
Ready(s) == [s EXCEPT !.pc = "recompute", !.article = None, !.version = None, !.read = db.doc]

To(t, s) == session' = [session EXCEPT ![t] = s]

\* What an UPDATE writes: the columns that differ from what the session loaded.
Written(current, loaded, new) ==
    [f \in DOMAIN current |-> IF new[f] # loaded[f] THEN new[f] ELSE current[f]]

WrittenDoc(s) ==
    IF s.doc = None THEN db.doc
    ELSE IF db.doc = None THEN s.doc
    ELSE Written(db.doc, s.read, s.doc)

\* Mutant: without the flush, a session does not see what it has added.
RecomputedUnflushed(s) ==
    [s EXCEPT !.pc = "commit", !.loaded = db.derived,
              !.derived = IF s.touched THEN Derive(db.links, db.exploits) ELSE db.derived]

\* Mutant: only what this session has added counts.
RecomputedFromOwn(s) ==
    [s EXCEPT !.pc = "commit", !.loaded = db.derived,
              !.derived = IF s.touched THEN Derive(s.links, s.exploits) ELSE db.derived]

\* recompute_many: what is read here is written at the commit.
Recomputed(s) ==
    LET new == Derive(db.links \cup s.links, db.exploits \cup s.exploits)
    IN  [s EXCEPT !.pc = "commit", !.loaded = db.derived,
                  !.derived = IF s.touched THEN new ELSE db.derived]

RecomputeTouched(t) ==
    /\ session[t].pc = "recompute"
    /\ To(t, Recomputed(session[t]))
    /\ UNCHANGED <<feed, published, db, dict, dictLock, elsewhere, excuses>>

\* What a commit explains: the CVE was read while another session committed; the
\* article was; it was linked to names by a text that does not speak of the CVE;
\* it is marked with a dictionary that is not the newest.
Explained(t, doc) ==
    LET s == session[t]
        writes == s.doc # None
        fresh == s.read = db.doc
        current == s.touched /\ ~s.overlapped
        gone == (IF current THEN {"overlap", "unnamed"} ELSE {})
                \cup (IF writes THEN {"marks"} ELSE {})
                \cup (IF t = "mitre" /\ fresh THEN {"held", "relink"} ELSE {})
        new == (IF s.overlapped THEN {"overlap"} ELSE {})
               \cup (IF s.links # {} /\ ~s.touched THEN {"unnamed"} ELSE {})
               \cup (IF writes /\ ~fresh THEN {"marks"} ELSE {})
               \cup (IF t = "feed" /\ writes /\ doc.version # db.attack
                        THEN {"held"} ELSE {})
    IN  (excuses \ gone) \cup new

\* A commit makes what the others have read of the CVE old.  An edge that another
\* session inserted meanwhile makes it fail (uq_link).
Commit(t) ==
    /\ session[t].pc = "commit"
    /\ session[t].links \cap db.links = {}
    /\ LET s == session[t]
       IN  db' = [db EXCEPT !.links = @ \cup s.links, !.exploits = @ \cup s.exploits,
                            !.doc = WrittenDoc(s), !.derived = Written(@, s.loaded, s.derived),
                            !.fetched = IF t = "feed" THEN s.fetched ELSE @]
    /\ session' = [u \in Threads |->
                     IF u = t THEN Idle
                     ELSE [session[u] EXCEPT !.overlapped = @ \/ session[u].pc = "commit"]]
    /\ excuses' = Explained(t, WrittenDoc(session[t]))
    /\ UNCHANGED <<feed, published, dict, dictLock, elsewhere>>

\* A run of MITRE's that ends after its import leaves the relinking undone.
CutShort(ended) ==
    IF "mitre" \in ended /\ session["mitre"].pc \notin {"idle", "import"} THEN {"relink"} ELSE {}

\* An error, or a restart of the scheduler, which also empties the dictionary.
Fail(t) ==
    /\ session[t].pc # "idle"
    /\ To(t, Idle)
    /\ dictLock' = IF dictLock = t THEN None ELSE dictLock
    /\ excuses' = excuses \cup CutShort({t})
    /\ UNCHANGED <<feed, published, db, dict, elsewhere>>

Restart ==
    /\ session' = [t \in Threads |-> IF Own(t) THEN session[t] ELSE Idle]
    /\ dict' = None
    /\ dictLock' = None
    /\ excuses' = excuses \cup CutShort({t \in Threads : ~Own(t)})
    /\ UNCHANGED <<feed, published, db, elsewhere>>

(***************************************************************************)
(* get_attack_dictionary                                                   *)
(***************************************************************************)
\* The dictionary of the process, if there is one that need not be refreshed.
UseDictionary(t, next) ==
    /\ session[t].pc = "dictionary"
    /\ t # "mitre" /\ dictLock = None /\ dict # None
    /\ To(t, [session[t] EXCEPT !.pc = next, !.version = dict])
    /\ UNCHANGED <<feed, published, db, dict, dictLock, elsewhere, excuses>>

\* Mutant: the lock is not held while the dictionary is read.
ReadNamesUnlocked(t) ==
    /\ session[t].pc = "dictionary"
    /\ t = "mitre" \/ dict = None
    /\ To(t, [session[t] EXCEPT !.pc = "build", !.version = db.attack])
    /\ UNCHANGED <<feed, published, db, dict, dictLock, elsewhere, excuses>>

\* Else it is built from the database with the lock held ...
ReadNames(t) ==
    /\ session[t].pc = "dictionary"
    /\ t = "mitre" \/ dict = None
    /\ IF Own(t) THEN dictLock' = dictLock ELSE dictLock = None /\ dictLock' = t
    /\ To(t, [session[t] EXCEPT !.pc = "build", !.version = db.attack])
    /\ UNCHANGED <<feed, published, db, dict, elsewhere, excuses>>

\* ... and kept.
KeepDictionary(t, next) ==
    /\ session[t].pc = "build"
    /\ dict' = IF Own(t) THEN dict ELSE session[t].version
    /\ dictLock' = IF Own(t) THEN dictLock ELSE None
    /\ To(t, [session[t] EXCEPT !.pc = next])
    /\ UNCHANGED <<feed, published, db, elsewhere, excuses>>

(***************************************************************************)
(* FeedWorker                                                              *)
(***************************************************************************)
PublishFeed(article) ==
    /\ feed.seq < MaxFeeds
    /\ feed' = [seq |-> feed.seq + 1, article |-> article]
    /\ UNCHANGED <<published, db, dict, dictLock, session, elsewhere, excuses>>

\* A feed that has not changed is not looked at.
StartFeed ==
    /\ session["feed"].pc = "idle"
    /\ feed.seq > db.fetched
    /\ To("feed", [Idle EXCEPT !.pc = "dictionary", !.article = feed.article,
                               !.fetched = feed.seq])
    /\ UNCHANGED <<feed, published, db, dict, dictLock, elsewhere, excuses>>

\* Mutant: the article is marked with the dictionary of the moment.
ReadArticleMarkingNewest ==
    LET s == session["feed"]
        text == Text(s.article, TRUE)
    IN  /\ s.pc = "entries"
        /\ To("feed", [Ready(s) EXCEPT !.touched = text.cve,
                         !.links = Extract(db.links, text, s.version),
                         !.doc = [article |-> s.article,
                                  version |-> IF dict = None THEN s.version ELSE dict]])
        /\ UNCHANGED <<feed, published, db, dict, dictLock, elsewhere, excuses>>

\* An article that is new, changed, or was read with another dictionary.
ReadArticle ==
    LET s == session["feed"]
        text == Text(s.article, TRUE)
        as == [article |-> s.article, version |-> s.version]
    IN  /\ s.pc = "entries"
        /\ IF db.doc = as
             THEN To("feed", Ready(s))
             ELSE To("feed", [Ready(s) EXCEPT !.doc = as,
                                       !.touched = text.cve,
                                       !.links = Extract(db.links, text, s.version)])
        /\ UNCHANGED <<feed, published, db, dict, dictLock, elsewhere, excuses>>

(***************************************************************************)
(* MitreAttackWorker                                                       *)
(***************************************************************************)
PublishAttack ==
    /\ published + 1 \in Versions
    /\ published' = published + 1
    /\ UNCHANGED <<feed, db, dict, dictLock, session, elsewhere, excuses>>

\* A version that is not the one in version_marker is imported ...
StartMitre ==
    /\ session["mitre"].pc = "idle"
    /\ published # db.attack
    /\ To("mitre", [Idle EXCEPT !.pc = "import", !.version = published])
    /\ UNCHANGED <<feed, published, db, dict, dictLock, elsewhere, excuses>>

\* ... and committed with its marker, before anything is relinked.
ImportBundle ==
    LET s == session["mitre"]
    IN  /\ s.pc = "import"
        /\ db' = [db EXCEPT !.attack = s.version]
        /\ To("mitre", [s EXCEPT !.pc = "dictionary"])
        /\ UNCHANGED <<feed, published, dict, dictLock, elsewhere, excuses>>

\* Mutant: only articles that carry no mark at all are read again.
RelinkUnmarked ==
    LET s == session["mitre"]
    IN  /\ s.pc = "relink"
        /\ To("mitre", Ready(s))
        /\ UNCHANGED <<feed, published, db, dict, dictLock, elsewhere, excuses>>

\* relink_documents: the full text is gone, only title and excerpt are read.
Relink ==
    LET s == session["mitre"]
        text == Text(db.doc.article, FALSE)
    IN  /\ s.pc = "relink"
        /\ IF db.doc = None \/ db.doc.version = s.version
             THEN To("mitre", Ready(s))
             ELSE To("mitre", [Ready(s) EXCEPT !.touched = text.cve,
                                 !.doc = [db.doc EXCEPT !.version = s.version],
                                 !.links = Extract(db.links, text, s.version)])
        /\ UNCHANGED <<feed, published, db, dict, dictLock, elsewhere, excuses>>

(***************************************************************************)
(* The other writers                                                       *)
(***************************************************************************)
\* What a worker has inserted nobody sees before its checkpoint, which recomputes.
FindExploit(e) ==
    /\ session["exploitdb"].pc = "idle"
    /\ e \notin db.exploits
    /\ To("exploitdb", Recomputed([Idle EXCEPT !.exploits = {e}, !.touched = TRUE]))
    /\ UNCHANGED <<feed, published, db, dict, dictLock, elsewhere, excuses>>

\* Mutant: it takes both to be looked at.
MaintainIfBoth ==
    /\ session["maintenance"].pc = "idle"
    /\ db.derived.active /\ db.derived.score >= 30
    /\ To("maintenance", Recomputed([Idle EXCEPT !.touched = TRUE]))
    /\ UNCHANGED <<feed, published, db, dict, dictLock, elsewhere, excuses>>

\* scheduler.maintenance
Maintain ==
    /\ session["maintenance"].pc = "idle"
    /\ Selected
    /\ To("maintenance", Recomputed([Idle EXCEPT !.touched = TRUE]))
    /\ UNCHANGED <<feed, published, db, dict, dictLock, elsewhere, excuses>>

Init ==
    /\ feed = [seq |-> 0, article |-> None]
    /\ published = First
    /\ db = [attack |-> First, fetched |-> 0, doc |-> None, links |-> {},
             exploits |-> {}, derived |-> Underived]
    /\ dict = None
    /\ dictLock = None
    /\ session = [t \in Threads |-> Idle]
    /\ elsewhere \in BOOLEAN
    /\ excuses = {}

Next ==
    \/ \E t \in Threads : Commit(t) \/ Fail(t)
    \/ RecomputeTouched("feed") \/ RecomputeTouched("mitre")
    \/ UseDictionary("feed", "entries") \/ ReadNames("feed") \/ KeepDictionary("feed", "entries")
    \/ ReadNames("mitre") \/ KeepDictionary("mitre", "relink")
    \/ \E a \in Articles : PublishFeed(a)
    \/ StartFeed \/ ReadArticle
    \/ PublishAttack \/ StartMitre \/ ImportBundle \/ Relink
    \/ \E e \in Exploits : FindExploit(e)
    \/ Maintain \/ Restart

\* The scheduler runs maintenance for ever, and it does not fail every time.
Fairness ==
    /\ WF_vars(Maintain)
    /\ SF_vars(Commit("maintenance"))

Spec == Init /\ [][Next]_vars /\ Fairness

(***************************************************************************)
(* Properties                                                              *)
(***************************************************************************)
\* Every variable has a value of its kind; one CVE link of an article is either
\* weak or not, and the lock on the dictionary is held by a thread that builds it.
TypeOK ==
    /\ feed.seq \in 0 .. MaxFeeds /\ db.fetched \in 0 .. feed.seq
    /\ db.attack \in Versions /\ dict \in Versions \cup {None}
    /\ db.links \subseteq Edges /\ ~(Mentions \subseteq db.links)
    /\ db.doc \in Docs \cup {None}
    /\ db.derived.score \in 0 .. 100
    /\ dictLock # None => session[dictLock].pc = "build"

\* Once the dictionary was refreshed after an import, no thread that had begun to
\* build one from older data puts that in its place.
DictionaryNeverGoesBack == [][dict # None /\ dict' # None => dict' >= dict]_vars

\* An article that is marked with a version of the dictionary is linked to what
\* that version knows of its title and excerpt.  Exception: a feed run and a relink
\* that read the article at the same time each write the columns they changed, and
\* the mark of one may come to stand on the text of the other.
MarkedMeansLinked ==
    db.doc # None /\ "marks" \notin excuses =>
        /\ db.doc.article.excerpt \cap Known[db.doc.version] \subseteq db.links
        /\ db.doc.article.cve = "excerpt" =>
             Mentions \cap db.links # {}

\* After a run of MITRE's an article carries an older mark only if the relinking
\* was cut short (its version is remembered before it, and never tried again), or if
\* a feed run stored the article with a dictionary that was no longer the newest.
OldMarksExplained ==
    db.doc # None /\ session["mitre"].pc = "idle" /\ db.doc.version # db.attack
        => excuses \cap {"held", "relink"} # {}

\* The derived fields of a CVE are those of the links it has, but for two ways the
\* code has to leave them behind: sessions that overlap, each without the links of
\* the other, and new names in a text that does not name the CVE, be it the excerpt
\* that a relink reads or an article that spoke of the CVE before it was changed.
DerivedExplained ==
    UpToDate \/ excuses \cap {"overlap", "unnamed"} # {}

\* Evidence is only ever added, so a score does not fall, except where a session
\* writes what it derived before another one committed.
ScoreOnlyFallsByRace ==
    [][db'.derived.score >= db.derived.score
         \/ \E t \in Threads : session[t].overlapped /\ session'[t].pc = "idle"]_vars

\* What an overlap left behind is put right by maintenance, if the CVE is one that
\* it looks at.
ScoresSettle == <>[](Selected => UpToDate)
=============================================================================
