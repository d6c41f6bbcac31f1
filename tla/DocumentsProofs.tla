--------------------------- MODULE DocumentsProofs ---------------------------
(***************************************************************************)
(* Proofs about Documents, for any articles, versions of ATT&CK and         *)
(* exploits: that what is found in an article is linked and counted, but    *)
(* for the overlaps that the model names, and that no score falls without   *)
(* one.                                                                    *)
(***************************************************************************)
EXTENDS Documents, TLAPS, FiniteSetTheorems

------------------------------------------------------------------------------
(* The inductive invariant                                                  *)

Excuses == {"overlap", "unnamed", "marks", "held", "relink"}

Evidence == [exploited : BOOLEAN, exploits : SUBSET Exploits, actors : SUBSET Names,
             active : BOOLEAN, score : 0 .. 100]

Databases == [attack : Versions, fetched : 0 .. MaxFeeds, doc : Docs \cup {None},
              links : SUBSET Edges, exploits : SUBSET Exploits, derived : Evidence]

Pcs == {"idle", "import", "dictionary", "build", "entries", "relink", "recompute",
        "commit"}

Sessions == [pc : Pcs, article : Articles \cup {None}, fetched : 0 .. MaxFeeds,
             version : Versions \cup {None}, read : Docs \cup {None},
             doc : Docs \cup {None}, links : SUBSET Edges, exploits : SUBSET Exploits,
             loaded : Evidence, derived : Evidence, touched : BOOLEAN,
             overlapped : BOOLEAN]

Shape ==
    /\ feed \in [seq : 0 .. MaxFeeds, article : Articles \cup {None}]
    /\ published \in Versions
    /\ db \in Databases
    /\ dict \in Versions \cup {None}
    /\ dictLock \in {"feed", "mitre"} \cup {None}
    /\ session \in [Threads -> Sessions]
    /\ elsewhere \in BOOLEAN
    /\ excuses \in SUBSET Excuses

Served == (feed.seq > 0 => feed.article \in Articles) /\ db.fetched <= feed.seq

Steps(t) ==
    IF t = "feed" THEN {"idle", "dictionary", "build", "entries", "recompute", "commit"}
    ELSE IF t = "mitre"
      THEN {"idle", "import", "dictionary", "build", "relink", "recompute", "commit"}
    ELSE {"idle", "commit"}

\* What a session holds at each of its steps.
Stage(t, s) ==
    /\ s.pc \in Steps(t)
    /\ s.pc \notin {"recompute", "commit"} =>
         s.doc = None /\ s.links = {} /\ s.exploits = {} /\ ~s.touched
    /\ s.pc # "commit" => ~s.overlapped
    /\ t \notin {"feed", "mitre"} => s.doc = None /\ s.links = {}
    /\ ~s.touched => s.exploits = {}
    /\ t = "feed" /\ s.pc \in {"dictionary", "build", "entries"} => s.article \in Articles
    /\ s.pc \in {"import", "build", "entries", "relink"} => s.version \in Versions

\* The versions of ATT&CK go from what is published over what is stored to what the
\* dictionary was built from, which only the thread with the lock does.
InOrder ==
    /\ db.attack <= published
    /\ dict # None => dict <= db.attack
    /\ dictLock # None => ~Own(dictLock) /\ session[dictLock].pc = "build"
    /\ \A t \in Threads : session[t].pc = "build" =>
         /\ ~Own(t) => dictLock = t
         /\ session[t].version <= db.attack
         /\ t = "feed" => dict = None
    /\ session["mitre"].pc = "import" =>
         db.attack < session["mitre"].version /\ session["mitre"].version <= published
    /\ session["mitre"].pc \in {"build", "relink"} => session["mitre"].version = db.attack

\* What a run has read of the article: only the feed changes its text, only MITRE's
\* relink its mark, to the version that is stored.
FeedRead(s) ==
    s.pc \in {"recompute", "commit"} =>
        /\ s.read = None <=> db.doc = None
        /\ s.read # None => s.read.article = db.doc.article

MitreRead(s) ==
    s.pc \in {"recompute", "commit"} =>
        /\ s.read # None => db.doc # None
        /\ s.doc = None => s.read = None \/ s.read.version = db.attack
        /\ s.doc # None => /\ s.read # None /\ s.read.version # db.attack
                           /\ s.doc.version = db.attack
                           /\ s.doc.article = s.read.article

Speaks(article) == article.cve \in {"excerpt", "text"}

\* A session's links make up for the article that it writes.
Linking(t, s) ==
    /\ t # "feed" => s.links \cap Mentions = {}
    /\ s.links \cap Mentions # {} => db.links \cap Mentions = {}
    /\ ~(Mentions \subseteq s.links)
    /\ s.doc # None =>
         /\ s.doc.article.excerpt \cap Known[s.doc.version] \subseteq db.links \cup s.links
         /\ Speaks(s.doc.article) => Mentions \cap (db.links \cup s.links) # {}

Linked ==
    /\ ~(Mentions \subseteq db.links)
    /\ db.doc # None /\ Speaks(db.doc.article) => Mentions \cap db.links # {}

\* An older mark is explained, or MITRE's run is about to replace it.
Relinking(s) ==
    \/ s.pc \in {"dictionary", "build", "relink"}
    \/ s.pc \in {"recompute", "commit"} /\ s.doc # None

Marked ==
    db.doc # None /\ db.doc.version # db.attack =>
        excuses \cap {"held", "relink"} # {} \/ Relinking(session["mitre"])

\* What a session is about to write, if nothing was committed since it was derived,
\* and that it is never more than the links justify.
Deriving(s) ==
    s.pc = "commit" =>
        /\ ~s.overlapped =>
             /\ s.loaded = db.derived
             /\ s.touched =>
                  s.derived = Derive(db.links \cup s.links, db.exploits \cup s.exploits)
             /\ ~s.touched => s.derived = s.loaded
        /\ s.derived.score <= Derive(db.links \cup s.links, db.exploits \cup s.exploits).score

Backed == db.derived.score <= Derive(db.links, db.exploits).score

\* All that concerns one session and the database.
Sound(t, s) ==
    /\ s.fetched <= feed.seq
    /\ Stage(t, s)
    /\ t = "feed" => FeedRead(s)
    /\ t = "mitre" => MitreRead(s)
    /\ Linking(t, s)
    /\ Deriving(s)

AllSound == \A t \in Threads : Sound(t, session[t])

IInv ==
    /\ Shape /\ Served /\ AllSound /\ InOrder
    /\ Linked /\ Marked /\ Backed
    /\ MarkedMeansLinked /\ DerivedExplained

------------------------------------------------------------------------------
(* What is derived                                                          *)

\* The score of what is derived, without the factors that the graph of one CVE
\* leaves as they are.
Weight(linked, reported, exploited, named) ==
    At(15, reported) + At(12, exploited) + At(8, named) + Cvss
    + Sources(1 + (IF linked THEN 1 ELSE 0) + (IF exploited THEN 1 ELSE 0))
    + (IF Recent \/ linked THEN 80 ELSE 0)

\* A weight is a number, and every factor can only raise it.
LEMMA WeightRises ==
  ASSUME DocumentsAssumption,
         NEW a \in BOOLEAN, NEW b \in BOOLEAN, NEW c \in BOOLEAN, NEW d \in BOOLEAN,
         NEW a2 \in BOOLEAN, NEW b2 \in BOOLEAN, NEW c2 \in BOOLEAN, NEW d2 \in BOOLEAN,
         a => a2, b => b2, c => c2, d => d2
  PROVE  Weight(a, b, c, d) \in Nat /\ Weight(a, b, c, d) <= Weight(a2, b2, c2, d2)
BY DEF DocumentsAssumption, Weight, At, Sources, Smaller

\* A score is at most 100.
LEMMA RoundInRange ==
  ASSUME NEW m \in Nat
  PROVE  Round(Smaller(1000, m)) \in 0 .. 100
BY DEF Round, Smaller

\* Rounding keeps the order.
LEMMA RoundRises ==
  ASSUME NEW m \in Nat, NEW n \in Nat, m <= n
  PROVE  Round(Smaller(1000, m)) <= Round(Smaller(1000, n))
<1>1. ASSUME NEW k \in Nat, NEW l \in Nat, k <= l, l <= 1000
      PROVE  Round(k) <= Round(l)
  <2>1. k + ((k \div 10) % 2) <= l + ((l \div 10) % 2)
    BY <1>1
  <2> QED
    BY <2>1, <1>1 DEF Round
<1> QED
  BY <1>1 DEF Smaller

\* There is an exploit if there are some to count.
LEMMA ExploitsCounted ==
  ASSUME DocumentsAssumption, NEW E \in SUBSET Exploits
  PROVE  Cardinality(E) > 0 <=> E # {}
<1>1. IsFiniteSet(E)
  BY FS_Subset DEF DocumentsAssumption
<1> QED
  BY <1>1, FS_CardinalityType, FS_EmptySet

\* The fields of what is derived.
LEMMA DeriveFields ==
  ASSUME DocumentsAssumption, NEW L \in SUBSET Edges, NEW E \in SUBSET Exploits
  PROVE  LET d == Derive(L, E)
             linked == L \cap Mentions # {}
             actors == IF "mentions" \in L THEN L \cap Names ELSE {}
         IN  /\ d = [exploited |-> "reports" \in L, exploits |-> E, actors |-> actors,
                     active |-> Recent \/ linked, score |-> d.score]
             /\ d.score = Round(Smaller(1000,
                            Weight(linked, "reports" \in L, E # {}, actors # {})))
<1> DEFINE linked == L \cap Mentions # {}
           actors == IF "mentions" \in L THEN L \cap Names ELSE {}
           sources == 1 + (IF linked THEN 1 ELSE 0) + (IF E # {} THEN 1 ELSE 0)
           input == [inKev |-> FALSE, evidence |-> "reports" \in L,
                     ransomware |-> FALSE, exploits |-> Cardinality(E),
                     pocs |-> 0, ssvcPoc |-> FALSE, actors |-> actors # {},
                     rce |-> FALSE, authBypass |-> FALSE,
                     privilegeEscalation |-> FALSE, internetFacing |-> FALSE,
                     cvss |-> Cvss, sources |-> sources, dated |-> TRUE,
                     age |-> IF Recent \/ linked THEN 0 ELSE 90, products |-> 0]
<1>1. Derive(L, E) =
        [exploited |-> "reports" \in L, exploits |-> E, actors |-> actors,
         active |-> Recent \/ linked, score |-> Score(input)]
  BY DEF Derive
<1>2. Cardinality(E) > 0 <=> E # {}
  BY ExploitsCounted
<1>3. sources \in Nat
  OBVIOUS
<1>4. Points(input) =
        At(15, "reports" \in L) + At(12, E # {}) + At(8, actors # {}) + Cvss
        + Sources(sources) + (IF Recent \/ linked THEN 80 ELSE 0)
  <2>1. /\ input.evidence = ("reports" \in L)
        /\ (input.exploits > 0) = (E # {})
        /\ input.actors = (actors # {})
        /\ input.cvss = Cvss /\ input.sources = sources /\ input.dated
        /\ input.age = IF Recent \/ linked THEN 0 ELSE 90
        /\ input.products = 0 /\ input.pocs = 0
        /\ ~input.inKev /\ ~input.ransomware /\ ~input.ssvcPoc /\ ~input.rce
        /\ ~input.authBypass /\ ~input.privilegeEscalation /\ ~input.internetFacing
    BY <1>2
  <2> HIDE DEF input, actors, linked, sources
  <2>2. Sources(sources) \in Nat
    BY <1>3 DEF Sources, Smaller
  <2>3. Recency(input.age) = IF Recent \/ linked THEN 80 ELSE 0
    BY <2>1 DEF Recency
  <2>4. Breadth(input.products) = 0
    BY <2>1 DEF Breadth
  <2>5. /\ At(25, input.inKev) = 0 /\ At(10, input.ransomware) = 0
        /\ At(8, input.pocs > 0 \/ input.ssvcPoc) = 0 /\ At(8, input.rce) = 0
        /\ At(7, input.authBypass) = 0 /\ At(5, input.privilegeEscalation) = 0
        /\ At(6, input.internetFacing) = 0
    BY <2>1 DEF At
  <2>6. /\ At(15, input.evidence) = At(15, "reports" \in L)
        /\ At(12, input.exploits > 0) = At(12, E # {})
        /\ At(8, input.actors) = At(8, actors # {})
        /\ Sources(input.sources) = Sources(sources)
    BY <2>1 DEF At
  <2>7. /\ At(15, "reports" \in L) \in Nat /\ At(12, E # {}) \in Nat
        /\ At(8, actors # {}) \in Nat /\ Cvss \in Nat
    BY DEF At, DocumentsAssumption
  <2> QED
    BY <2>1, <2>2, <2>3, <2>4, <2>5, <2>7, <2>6 DEF Points, At
<1>5. Score(input) = Round(Smaller(1000,
                       Weight(linked, "reports" \in L, E # {}, actors # {})))
  BY <1>4 DEF Score, Weight
<1> QED
  BY <1>1, <1>5

\* What is derived is of its type ...
LEMMA DeriveType ==
  ASSUME DocumentsAssumption, NEW L \in SUBSET Edges, NEW E \in SUBSET Exploits
  PROVE  Derive(L, E) \in Evidence
<1> DEFINE d == Derive(L, E)
           linked == L \cap Mentions # {}
           actors == IF "mentions" \in L THEN L \cap Names ELSE {}
<1>1. /\ d = [exploited |-> "reports" \in L, exploits |-> E, actors |-> actors,
              active |-> Recent \/ linked, score |-> d.score]
      /\ d.score = Round(Smaller(1000,
                     Weight(linked, "reports" \in L, E # {}, actors # {})))
  BY DeriveFields
<1>2. actors \in SUBSET Names
  OBVIOUS
<1> HIDE DEF actors
<1>3. d.score \in 0 .. 100
  <2> DEFINE w == Weight(linked, "reports" \in L, E # {}, actors # {})
  <2>1. w \in Nat
    BY DEF Weight, At, Sources, Smaller, DocumentsAssumption
  <2>2. d.score = Round(Smaller(1000, w))
    BY <1>1
  <2> HIDE DEF d, w
  <2>3. PICK m \in Nat : m = w
    BY <2>1
  <2>4. Round(Smaller(1000, m)) \in 0 .. 100
    BY RoundInRange
  <2> QED
    BY <2>2, <2>3, <2>4
<1>5. PICK a \in SUBSET Names : a = actors
  BY <1>2
<1>6. PICK k \in 0 .. 100 : k = d.score
  BY <1>3
<1>7. [exploited |-> "reports" \in L, exploits |-> E, actors |-> a,
       active |-> Recent \/ linked, score |-> k] \in Evidence
  BY DEF Evidence
<1> QED
  BY <1>1, <1>5, <1>6, <1>7

\* The score of what is derived is a number.
LEMMA EvidenceScore ==
  ASSUME NEW d \in Evidence
  PROVE  d.score \in Nat
BY DEF Evidence

\* ... and with more links and exploits no score is lower.
LEMMA DeriveRises ==
  ASSUME DocumentsAssumption,
         NEW L \in SUBSET Edges, NEW E \in SUBSET Exploits,
         NEW M \in SUBSET Edges, NEW F \in SUBSET Exploits,
         L \subseteq M, E \subseteq F
  PROVE  Derive(L, E).score <= Derive(M, F).score
<1> DEFINE Actors(K) == IF "mentions" \in K THEN K \cap Names ELSE {}
           W(K, G) == Weight(K \cap Mentions # {}, "reports" \in K, G # {}, Actors(K) # {})
<1>1. /\ Derive(L, E).score = Round(Smaller(1000, W(L, E)))
      /\ Derive(M, F).score = Round(Smaller(1000, W(M, F)))
  BY DeriveFields
<1>2. W(L, E) \in Nat /\ W(M, F) \in Nat /\ W(L, E) <= W(M, F)
  <2>1. /\ L \cap Mentions # {} => M \cap Mentions # {}
        /\ "reports" \in L => "reports" \in M
        /\ E # {} => F # {}
        /\ Actors(L) # {} => Actors(M) # {}
    OBVIOUS
  <2> HIDE DEF Actors
  <2> QED
    BY <2>1 DEF Weight, At, Sources, Smaller, DocumentsAssumption
<1> HIDE DEF W
<1> QED
  BY <1>1, <1>2, RoundRises

------------------------------------------------------------------------------
(* Helpers                                                                  *)

\* The versions are numbered from one.
LEMMA VersionsNumbered ==
  ASSUME DocumentsAssumption
  PROVE  /\ Len(Known) \in Nat /\ Versions = 1 .. Len(Known)
         /\ First \in Versions
         /\ \A v \in Versions : v \in Nat /\ Known[v] \subseteq Names
<1>1. Known \in Seq(SUBSET Names) /\ Known # <<>>
  BY DEF DocumentsAssumption
<1>2. Len(Known) \in Nat \ {0} /\ Versions = 1 .. Len(Known)
  BY <1>1 DEF Versions
<1>3. 1 \in Versions /\ \A w \in Versions : 1 <= w
  BY <1>2
<1>4. First \in Versions
  BY <1>3 DEF First
<1>5. \A v \in Versions : Known[v] \in SUBSET Names
  BY <1>1 DEF Versions
<1> QED
  BY <1>2, <1>4, <1>5

\* What is found in a text: names that the dictionary knows and that were not linked
\* yet, and a mention of the CVE if it has none.
LEMMA ExtractFacts ==
  ASSUME DocumentsAssumption, NEW L \in SUBSET Edges, NEW text, NEW v \in Versions
  PROVE  LET X == Extract(L, text, v)
         IN  /\ X \in SUBSET Edges
             /\ text.names \cap Known[v] \subseteq L \cup X
             /\ text.cve => Mentions \cap (L \cup X) # {}
             /\ X \cap Mentions # {} => text.cve /\ L \cap Mentions = {}
             /\ ~(Mentions \subseteq X)
<1> DEFINE X == Extract(L, text, v)
           M == IF text.cve THEN Mention(L, text.focused) ELSE {}
           R == IF text.cve /\ text.exploited /\ text.focused THEN {"reports"} ELSE {}
<1>1. X = (M \cup R \cup (text.names \cap Known[v])) \ L
  BY DEF Extract
<1>2. Known[v] \subseteq Names /\ Names \cap Mentions = {}
  BY VersionsNumbered DEF DocumentsAssumption
<1>3. R \subseteq {"reports"} /\ R \cap Mentions = {}
  BY DEF Mentions
<1>4. /\ M \subseteq Mentions
      /\ M # {} => text.cve /\ L \cap Mentions = {}
      /\ text.cve /\ L \cap Mentions = {} => M # {}
      /\ ~(Mentions \subseteq M)
  BY DEF Mention, Mentions
<1> HIDE DEF M, R, X
<1>5. X \in SUBSET Edges
  BY <1>1, <1>2, <1>3, <1>4 DEF Edges
<1>6. X \cap Mentions \subseteq M
  BY <1>1, <1>2, <1>3
<1>7. text.cve => Mentions \cap (L \cup X) # {}
  BY <1>1, <1>4
<1> QED
  BY <1>1, <1>4, <1>5, <1>6, <1>7 DEF X

\* The fields of a session that has read what it came for.
LEMMA ReadyFields ==
  ASSUME DocumentsAssumption, db \in Databases, NEW s \in Sessions
  PROVE  /\ Ready(s) \in Sessions
         /\ Ready(s).pc = "recompute" /\ Ready(s).read = db.doc
         /\ Ready(s).doc = s.doc /\ Ready(s).links = s.links
         /\ Ready(s).exploits = s.exploits /\ Ready(s).touched = s.touched
         /\ Ready(s).overlapped = s.overlapped /\ Ready(s).fetched = s.fetched
BY DEF Ready, Sessions, Databases, Pcs

\* A thread that does nothing.
LEMMA IdleFields ==
  ASSUME DocumentsAssumption
  PROVE  /\ Idle \in Sessions
         /\ Idle.pc = "idle" /\ Idle.article = None /\ Idle.fetched = 0
         /\ Idle.version = None /\ Idle.read = None /\ Idle.doc = None
         /\ Idle.links = {} /\ Idle.exploits = {} /\ ~Idle.touched /\ ~Idle.overlapped
<1>1. Underived \in Evidence
  BY DeriveType DEF Underived
<1> QED
  BY <1>1 DEF Idle, Sessions, Pcs, DocumentsAssumption

\* A session that has nothing to write yet is sound if its stage is.
LEMMA QuietIsSound ==
  ASSUME NEW t \in Threads, NEW s \in Sessions, Stage(t, s),
         s.pc \notin {"recompute", "commit"}, s.fetched <= feed.seq
  PROVE  Sound(t, s)
BY DEF Sound, Stage, FeedRead, MitreRead, Linking, Deriving, Mentions

\* A thread that does nothing is sound.
LEMMA IdleIsSound ==
  ASSUME DocumentsAssumption, Shape, NEW t \in Threads
  PROVE  Sound(t, Idle)
<1>1. Stage(t, Idle)
  BY IdleFields DEF Stage, Steps
<1>2. Idle.fetched <= feed.seq
  BY IdleFields DEF Shape
<1> QED
  BY <1>1, <1>2, IdleFields, QuietIsSound

\* What a thread does in its session leaves the others alone.
LEMMA ToFacts ==
  ASSUME session \in [Threads -> Sessions], NEW t \in Threads, NEW s \in Sessions,
         To(t, s)
  PROVE  /\ session' \in [Threads -> Sessions]
         /\ session'[t] = s
         /\ \A u \in Threads : u # t => session'[u] = session[u]
BY DEF To

\* A step that leaves the database alone keeps what concerns it, and what concerns
\* the sessions that it leaves alone.
LEMMA Frame ==
  ASSUME DocumentsAssumption, IInv, db' = db, session' \in [Threads -> Sessions],
         feed' = feed, excuses \subseteq excuses',
         \A u \in Threads : session'[u] = session[u] \/ Sound(u, session'[u])
  PROVE  Served' /\ AllSound' /\ Linked' /\ Backed' /\ MarkedMeansLinked'
         /\ DerivedExplained'
<1>1. \A u \in Threads : Sound(u, session'[u])
  BY DEF IInv, AllSound
<1>2. AllSound'
  <2> SUFFICES ASSUME NEW t \in Threads
               PROVE  Sound(t, session[t])'
    BY DEF AllSound
  <2>1. PICK s : s = session'[t]
    OBVIOUS
  <2>2. Sound(t, s)
    BY <1>1, <2>1
  <2>3. (session[t].fetched <= feed.seq)' /\ Stage(t, session[t])'
    BY <2>1, <2>2 DEF Sound, Stage
  <2>4. (t = "feed" => FeedRead(session[t]))' /\ (t = "mitre" => MitreRead(session[t]))'
    BY <2>1, <2>2 DEF Sound, FeedRead, MitreRead
  <2>5. Linking(t, session[t])'
    BY <2>1, <2>2 DEF Sound, Linking
  <2>6. Deriving(session[t])'
    BY <2>1, <2>2 DEF Sound, Deriving
  <2> QED
    BY <2>3, <2>4, <2>5, <2>6 DEF Sound
<1>3. Served' /\ Linked' /\ Backed'
  BY DEF IInv, Served, Linked, Backed
<1>4. MarkedMeansLinked' /\ DerivedExplained'
  BY DEF IInv, MarkedMeansLinked, DerivedExplained, UpToDate
<1> QED
  BY <1>2, <1>3, <1>4

\* The order of the versions outlives a step of threads that neither had the
\* dictionary to build nor take it or an import up.
LEMMA OrderKept ==
  ASSUME InOrder, db'.attack = db.attack, published' = published, dict' = dict,
         dictLock' = dictLock, elsewhere' = elsewhere, Shape, None \notin Threads,
         \A u \in Threads :
            \/ session'[u].pc = session[u].pc /\ session'[u].version = session[u].version
            \/ session[u].pc # "build" /\ session'[u].pc \notin {"import", "build", "relink"}
  PROVE  InOrder'
<1>1. /\ db.attack <= published
      /\ dict # None => dict <= db.attack
  BY DEF InOrder
<1>2. dictLock # None => ~Own(dictLock)' /\ session'[dictLock].pc = "build"
  BY DEF InOrder, Own, Shape, Threads
<1>3. \A t \in Threads : session'[t].pc = "build" =>
         /\ ~Own(t)' => dictLock = t
         /\ session'[t].version <= db.attack
         /\ t = "feed" => dict = None
  BY DEF InOrder, Own
<1>4. session'["mitre"].pc \in {"import", "build", "relink"} =>
        /\ session'["mitre"].pc = session["mitre"].pc
        /\ session'["mitre"].version = session["mitre"].version
  BY DEF Threads
<1>5. /\ session'["mitre"].pc = "import" =>
           db.attack < session'["mitre"].version /\ session'["mitre"].version <= published
      /\ session'["mitre"].pc \in {"build", "relink"} => session'["mitre"].version = db.attack
  BY <1>4 DEF InOrder
<1> QED
  BY <1>1, <1>2, <1>3, <1>5 DEF InOrder

\* What is said of an older mark outlives a step in which MITRE's run goes on.
LEMMA MarkKept ==
  ASSUME Marked, db' = db, excuses \subseteq excuses',
         Relinking(session["mitre"]) => Relinking(session'["mitre"])
  PROVE  Marked'
BY DEF Marked, Relinking

\* The fields of a session that has derived what it touched.
LEMMA RecomputedFields ==
  ASSUME DocumentsAssumption, db \in Databases, NEW s \in Sessions
  PROVE  /\ Recomputed(s) \in Sessions
         /\ Recomputed(s).pc = "commit" /\ Recomputed(s).loaded = db.derived
         /\ Recomputed(s).derived =
              IF s.touched THEN Derive(db.links \cup s.links, db.exploits \cup s.exploits)
              ELSE db.derived
         /\ Recomputed(s).read = s.read /\ Recomputed(s).doc = s.doc
         /\ Recomputed(s).links = s.links /\ Recomputed(s).exploits = s.exploits
         /\ Recomputed(s).touched = s.touched /\ Recomputed(s).fetched = s.fetched
         /\ Recomputed(s).overlapped = s.overlapped
<1> DEFINE L == db.links \cup s.links
           E == db.exploits \cup s.exploits
<1>1. L \in SUBSET Edges /\ E \in SUBSET Exploits /\ db.derived \in Evidence
  BY DEF Databases, Sessions
<1>2. Derive(L, E) \in Evidence
  BY <1>1, DeriveType
<1> HIDE DEF L, E
<1>3. Recomputed(s) = [s EXCEPT !.pc = "commit", !.loaded = db.derived,
                                !.derived = IF s.touched THEN Derive(L, E) ELSE db.derived]
  BY DEF Recomputed, L, E
<1>4. /\ Recomputed(s) \in Sessions
      /\ Recomputed(s).pc = "commit" /\ Recomputed(s).loaded = db.derived
      /\ Recomputed(s).derived = IF s.touched THEN Derive(L, E) ELSE db.derived
      /\ Recomputed(s).read = s.read /\ Recomputed(s).doc = s.doc
      /\ Recomputed(s).links = s.links /\ Recomputed(s).exploits = s.exploits
      /\ Recomputed(s).touched = s.touched /\ Recomputed(s).fetched = s.fetched
      /\ Recomputed(s).overlapped = s.overlapped
  BY <1>1, <1>2, <1>3 DEF Sessions, Pcs
<1> QED
  BY <1>4 DEF L, E

\* What a session derives is sound: the links that justify it are there, or will be.
LEMMA RecomputedIsSound ==
  ASSUME DocumentsAssumption, Shape, Backed, NEW t \in Threads, NEW s \in Sessions,
         "commit" \in Steps(t), Stage(t, [s EXCEPT !.pc = "commit"]), Linking(t, s),
         t = "feed" => FeedRead([s EXCEPT !.pc = "commit"]),
         t = "mitre" => MitreRead([s EXCEPT !.pc = "commit"]), s.fetched <= feed.seq
  PROVE  Sound(t, Recomputed(s))
<1> DEFINE n == Recomputed(s)
           c == [s EXCEPT !.pc = "commit"]
           L == db.links \cup s.links
           E == db.exploits \cup s.exploits
<1>1. db \in Databases
  BY DEF Shape
<1>2. /\ n \in Sessions
      /\ n.pc = "commit" /\ n.loaded = db.derived
      /\ n.derived = IF s.touched THEN Derive(L, E) ELSE db.derived
      /\ n.read = s.read /\ n.doc = s.doc
      /\ n.links = s.links /\ n.exploits = s.exploits
      /\ n.touched = s.touched /\ n.fetched = s.fetched /\ n.overlapped = s.overlapped
  BY <1>1, RecomputedFields
<1>3. /\ c.pc = "commit" /\ c.read = s.read /\ c.doc = s.doc
      /\ c.links = s.links /\ c.exploits = s.exploits
      /\ c.touched = s.touched /\ c.overlapped = s.overlapped
  BY DEF Sessions
<1>4. /\ db.links \in SUBSET Edges /\ db.exploits \in SUBSET Exploits
      /\ L \in SUBSET Edges /\ E \in SUBSET Exploits
      /\ db.links \subseteq L /\ db.exploits \subseteq E
      /\ db.derived \in Evidence
  BY <1>1 DEF Databases, Sessions
<1>5. Derive(L, E) \in Evidence /\ Derive(db.links, db.exploits) \in Evidence
  BY <1>4, DeriveType
<1>6. Derive(db.links, db.exploits).score <= Derive(L, E).score
  BY <1>4, DeriveRises
<1> HIDE DEF n, c, L, E
<1>7. n.derived.score <= Derive(L, E).score
  <2>1. /\ Derive(L, E).score \in Nat /\ Derive(db.links, db.exploits).score \in Nat
        /\ db.derived.score \in Nat
    BY <1>4, <1>5, EvidenceScore
  <2>2. db.derived.score <= Derive(L, E).score
    BY <2>1, <1>6 DEF Backed
  <2>3. CASE s.touched
    BY <2>1, <2>3, <1>2
  <2>4. CASE ~s.touched
    BY <2>2, <2>4, <1>2
  <2> QED
    BY <2>3, <2>4
<1>8. Deriving(n)
  BY <1>2, <1>7 DEF Deriving, L, E
<1>9. Stage(t, n)
  BY <1>2, <1>3 DEF Stage, c
<1>10. (t = "feed" => FeedRead(n)) /\ (t = "mitre" => MitreRead(n))
  BY <1>2, <1>3 DEF FeedRead, MitreRead, c
<1>11. Linking(t, n)
  BY <1>2 DEF Linking
<1> QED
  BY <1>2, <1>8, <1>9, <1>10, <1>11 DEF Sound, n

------------------------------------------------------------------------------
(* The steps that leave the database alone                                  *)

\* Initially nothing is stored but the CVE.
LEMMA InitIInv ==
  ASSUME DocumentsAssumption, Init
  PROVE  IInv
<1>1. Underived \in Evidence /\ Underived = Derive({}, {})
  BY DeriveType DEF Underived
<1>2. First \in Versions /\ First \in Nat
  BY VersionsNumbered
<1>3. MaxFeeds \in Nat
  BY DEF DocumentsAssumption
<1>4. db \in Databases
  BY <1>1, <1>2, <1>3 DEF Init, Databases
<1>5. Shape
  BY <1>2, <1>3, <1>4, IdleFields DEF Init, Shape
<1>6. Served /\ InOrder
  BY <1>2, IdleFields DEF Init, Served, InOrder, Threads
<1>7. AllSound
  BY <1>5, IdleIsSound DEF Init, AllSound
<1>8. Linked /\ Marked /\ MarkedMeansLinked
  BY DEF Init, Linked, Marked, MarkedMeansLinked, Mentions
<1>9. db.derived = Derive(db.links, db.exploits) /\ db.derived.score \in Nat
  BY <1>1, EvidenceScore DEF Init
<1>10. Backed /\ DerivedExplained
  BY <1>9 DEF Backed, DerivedExplained, UpToDate
<1> QED
  BY <1>5, <1>6, <1>7, <1>8, <1>10 DEF IInv

\* The feed changes.
LEMMA PublishFeedKeeps ==
  ASSUME DocumentsAssumption, IInv, NEW a \in Articles, PublishFeed(a)
  PROVE  IInv'
<1>1. /\ feed.seq \in Nat /\ feed'.seq = feed.seq + 1 /\ feed'.article = a
      /\ feed' \in [seq : 0 .. MaxFeeds, article : Articles \cup {None}]
  BY DEF IInv, Shape, PublishFeed, DocumentsAssumption
<1>2. UNCHANGED <<published, db, dict, dictLock, session, elsewhere, excuses>>
  BY DEF PublishFeed
<1>3. Shape'
  BY <1>1, <1>2 DEF IInv, Shape
<1>4. Served'
  BY <1>1, <1>2 DEF IInv, Served, Shape, Databases
<1>5. \A t \in Threads : session[t].fetched <= feed'.seq
  BY <1>1 DEF IInv, AllSound, Sound, Shape, Sessions
<1>6. AllSound'
  <2> SUFFICES ASSUME NEW t \in Threads
               PROVE  Sound(t, session[t])'
    BY DEF AllSound
  <2>1. Sound(t, session[t])
    BY DEF IInv, AllSound
  <2>2. Stage(t, session[t])' /\ Linking(t, session[t])' /\ Deriving(session[t])'
    BY <1>2, <2>1 DEF Sound, Stage, Linking, Deriving
  <2>3. /\ t = "feed" => FeedRead(session[t])'
        /\ t = "mitre" => MitreRead(session[t])'
    BY <1>2, <2>1 DEF Sound, FeedRead, MitreRead
  <2> QED
    BY <1>2, <1>5, <2>2, <2>3 DEF Sound
<1>7. InOrder'
  BY <1>2 DEF IInv, InOrder, Own
<1>8. Linked' /\ Marked' /\ Backed'
  BY <1>2 DEF IInv, Linked, Marked, Backed, Relinking
<1>9. MarkedMeansLinked' /\ DerivedExplained'
  BY <1>2 DEF IInv, MarkedMeansLinked, DerivedExplained, UpToDate
<1> QED
  BY <1>3, <1>4, <1>6, <1>7, <1>8, <1>9 DEF IInv

\* MITRE publishes a version.
LEMMA PublishAttackKeeps ==
  ASSUME DocumentsAssumption, IInv, PublishAttack
  PROVE  IInv'
<1>1. published' = published + 1 /\ published' \in Versions
      /\ UNCHANGED <<feed, db, dict, dictLock, session, elsewhere, excuses>>
  BY DEF PublishAttack
<1>2. Shape'
  BY <1>1 DEF IInv, Shape
<1>3. Served' /\ AllSound' /\ Linked' /\ Backed' /\ MarkedMeansLinked' /\ DerivedExplained'
  BY <1>1, <1>2, Frame DEF IInv, Shape
<1>4. InOrder'
  <2>1. \A v \in Versions : v \in Nat
    BY VersionsNumbered
  <2>2. /\ published \in Nat /\ published' \in Nat /\ db.attack \in Nat
        /\ session["mitre"].pc = "import" => session["mitre"].version \in Nat
    BY <1>1, <2>1 DEF IInv, Shape, Databases, AllSound, Sound, Stage, Threads
  <2>3. /\ db.attack <= published'
        /\ session["mitre"].pc = "import" => session["mitre"].version <= published'
    BY <1>1, <2>2 DEF IInv, InOrder
  <2> QED
    BY <1>1, <2>3 DEF IInv, InOrder, Own
<1>5. Marked'
  BY <1>1, MarkKept DEF IInv
<1> QED
  BY <1>2, <1>3, <1>4, <1>5 DEF IInv

\* A session that takes up what the feed serves.
LEMMA StartFeedKeeps ==
  ASSUME DocumentsAssumption, IInv, StartFeed
  PROVE  IInv'
<1> DEFINE n == [Idle EXCEPT !.pc = "dictionary", !.article = feed.article,
                             !.fetched = feed.seq]
<1>1. /\ feed.seq \in 0 .. MaxFeeds /\ db.fetched \in Nat /\ feed.seq > db.fetched
      /\ To("feed", n) /\ session["feed"].pc = "idle"
      /\ UNCHANGED <<feed, published, db, dict, dictLock, elsewhere, excuses>>
  BY DEF IInv, Shape, Databases, StartFeed
<1>2. feed.article \in Articles
  BY <1>1 DEF IInv, Served
<1>3. /\ n \in Sessions /\ n.pc = "dictionary" /\ n.article = feed.article
      /\ n.fetched = feed.seq /\ n.doc = None /\ n.links = {} /\ n.exploits = {}
      /\ ~n.touched /\ ~n.overlapped
  BY <1>1, <1>2, IdleFields DEF Sessions, Pcs
<1> HIDE DEF n
<1>4. "feed" \in Threads /\ "mitre" \in Threads /\ None \notin Threads
  BY DEF Threads, DocumentsAssumption
<1>5. Sound("feed", n)
  <2>1. Stage("feed", n)
    BY <1>2, <1>3 DEF Stage, Steps
  <2> QED
    BY <1>1, <1>3, <1>4, <2>1, QuietIsSound
<1>6. /\ session' \in [Threads -> Sessions] /\ session'["feed"] = n
      /\ \A u \in Threads : u # "feed" => session'[u] = session[u]
  BY <1>1, <1>3, <1>4, ToFacts DEF IInv, Shape
<1>7. Served' /\ AllSound' /\ Linked' /\ Backed' /\ MarkedMeansLinked' /\ DerivedExplained'
  BY <1>1, <1>5, <1>6, Frame
<1>8. Shape'
  BY <1>1, <1>6 DEF IInv, Shape
<1>9. InOrder'
  BY <1>1, <1>3, <1>4, <1>6, OrderKept DEF IInv
<1>10. Marked'
  BY <1>1, <1>4, <1>6, MarkKept DEF IInv
<1> QED
  BY <1>7, <1>8, <1>9, <1>10 DEF IInv

\* A run of MITRE's that takes up what is published.
LEMMA StartMitreKeeps ==
  ASSUME DocumentsAssumption, IInv, StartMitre
  PROVE  IInv'
<1> DEFINE n == [Idle EXCEPT !.pc = "import", !.version = published]
<1>1. /\ To("mitre", n) /\ session["mitre"].pc = "idle" /\ published # db.attack
      /\ UNCHANGED <<feed, published, db, dict, dictLock, elsewhere, excuses>>
  BY DEF StartMitre
<1>2. published \in Versions /\ published \in Nat /\ db.attack \in Nat
  BY VersionsNumbered DEF IInv, Shape, Databases
<1>3. /\ n \in Sessions /\ n.pc = "import" /\ n.version = published
      /\ n.fetched = 0 /\ n.doc = None /\ n.links = {} /\ n.exploits = {}
      /\ ~n.touched /\ ~n.overlapped
  BY <1>2, IdleFields DEF Sessions, Pcs
<1> HIDE DEF n
<1>4. "feed" \in Threads /\ "mitre" \in Threads /\ None \notin Threads
  BY DEF Threads, DocumentsAssumption
<1>5. Sound("mitre", n)
  <2>1. Stage("mitre", n)
    BY <1>2, <1>3 DEF Stage, Steps
  <2>2. n.fetched <= feed.seq
    BY <1>3 DEF IInv, Shape
  <2> QED
    BY <1>3, <1>4, <2>1, <2>2, QuietIsSound
<1>6. /\ session' \in [Threads -> Sessions] /\ session'["mitre"] = n
      /\ \A u \in Threads : u # "mitre" => session'[u] = session[u]
  BY <1>1, <1>3, <1>4, ToFacts DEF IInv, Shape
<1>7. Served' /\ AllSound' /\ Linked' /\ Backed' /\ MarkedMeansLinked' /\ DerivedExplained'
  BY <1>1, <1>5, <1>6, Frame
<1>8. Shape'
  BY <1>1, <1>6 DEF IInv, Shape
<1>9. InOrder'
  <2>1. db.attack < published /\ db.attack <= published
    BY <1>1, <1>2 DEF IInv, InOrder
  <2>2. dictLock # None => ~Own(dictLock)' /\ session'[dictLock].pc = "build"
    BY <1>1, <1>4, <1>6 DEF IInv, InOrder, Own, Shape
  <2>3. \A t \in Threads : session'[t].pc = "build" =>
           /\ ~Own(t)' => dictLock = t
           /\ session'[t].version <= db.attack
           /\ t = "feed" => dict = None
    BY <1>1, <1>3, <1>6 DEF IInv, InOrder, Own
  <2> QED
    BY <1>1, <1>2, <1>3, <1>6, <2>1, <2>2, <2>3 DEF IInv, InOrder
<1>10. Marked'
  BY <1>1, <1>6, MarkKept DEF IInv, Relinking
<1> QED
  BY <1>7, <1>8, <1>9, <1>10 DEF IInv

\* A feed run takes the dictionary of the process.
LEMMA UseDictionaryKeeps ==
  ASSUME DocumentsAssumption, IInv, UseDictionary("feed", "entries")
  PROVE  IInv'
<1> DEFINE s == session["feed"]
           n == [s EXCEPT !.pc = "entries", !.version = dict]
<1>1. /\ To("feed", n) /\ s.pc = "dictionary" /\ dict # None
      /\ UNCHANGED <<feed, published, db, dict, dictLock, elsewhere, excuses>>
  BY DEF UseDictionary
<1>2. "feed" \in Threads /\ "mitre" \in Threads /\ None \notin Threads
  BY DEF Threads, DocumentsAssumption
<1>3. dict \in Versions /\ s \in Sessions /\ Stage("feed", s) /\ s.fetched <= feed.seq
  BY <1>1, <1>2 DEF IInv, Shape, AllSound, Sound
<1>4. /\ n \in Sessions /\ n.pc = "entries" /\ n.version = dict
      /\ n.article = s.article /\ n.fetched = s.fetched
      /\ n.doc = s.doc /\ n.links = s.links /\ n.exploits = s.exploits
      /\ n.touched = s.touched /\ n.overlapped = s.overlapped
  BY <1>3 DEF Sessions, Pcs
<1> HIDE DEF n
<1>5. Sound("feed", n)
  <2>1. Stage("feed", n)
    BY <1>1, <1>3, <1>4 DEF Stage, Steps
  <2> QED
    BY <1>2, <1>3, <1>4, <2>1, QuietIsSound
<1>6. /\ session' \in [Threads -> Sessions] /\ session'["feed"] = n
      /\ \A u \in Threads : u # "feed" => session'[u] = session[u]
  BY <1>1, <1>2, <1>4, ToFacts DEF IInv, Shape
<1>7. Served' /\ AllSound' /\ Linked' /\ Backed' /\ MarkedMeansLinked' /\ DerivedExplained'
  BY <1>1, <1>5, <1>6, Frame
<1>8. Shape'
  BY <1>1, <1>6 DEF IInv, Shape
<1>9. InOrder'
  BY <1>1, <1>2, <1>4, <1>6, OrderKept DEF IInv
<1>10. Marked'
  BY <1>1, <1>2, <1>6, MarkKept DEF IInv
<1> QED
  BY <1>7, <1>8, <1>9, <1>10 DEF IInv

\* A thread begins to build the dictionary from what is stored.
LEMMA ReadNamesKeeps ==
  ASSUME DocumentsAssumption, IInv, NEW t \in {"feed", "mitre"}, ReadNames(t)
  PROVE  IInv'
<1> DEFINE s == session[t]
           n == [s EXCEPT !.pc = "build", !.version = db.attack]
<1>1. /\ To(t, n) /\ s.pc = "dictionary"
      /\ t = "mitre" \/ dict = None
      /\ Own(t) => dictLock' = dictLock
      /\ ~Own(t) => dictLock = None /\ dictLock' = t
      /\ UNCHANGED <<feed, published, db, dict, elsewhere, excuses>>
  BY DEF ReadNames
<1>2. /\ "feed" \in Threads /\ "mitre" \in Threads /\ None \notin Threads
      /\ t \in Threads /\ t # None
  BY DEF Threads, DocumentsAssumption
<1>3. /\ s \in Sessions /\ Stage(t, s) /\ s.fetched <= feed.seq
      /\ db.attack \in Versions /\ db.attack \in Nat
  BY <1>2, VersionsNumbered DEF IInv, Shape, Databases, AllSound, Sound
<1>4. /\ n \in Sessions /\ n.pc = "build" /\ n.version = db.attack
      /\ n.article = s.article /\ n.fetched = s.fetched
      /\ n.doc = s.doc /\ n.links = s.links /\ n.exploits = s.exploits
      /\ n.touched = s.touched /\ n.overlapped = s.overlapped
  BY <1>3 DEF Sessions, Pcs
<1> HIDE DEF n
<1>5. Sound(t, n)
  <2>1. Stage(t, n)
    BY <1>1, <1>3, <1>4 DEF Stage, Steps
  <2> QED
    BY <1>2, <1>3, <1>4, <2>1, QuietIsSound
<1>6. /\ session' \in [Threads -> Sessions] /\ session'[t] = n
      /\ \A u \in Threads : u # t => session'[u] = session[u]
  BY <1>1, <1>2, <1>4, ToFacts DEF IInv, Shape
<1>7. Served' /\ AllSound' /\ Linked' /\ Backed' /\ MarkedMeansLinked' /\ DerivedExplained'
  BY <1>1, <1>5, <1>6, Frame
<1>8. Shape'
  BY <1>1, <1>6 DEF IInv, Shape
<1>9. InOrder'
  <2>1. dictLock' # None => ~Own(dictLock)' /\ session'[dictLock'].pc = "build"
    BY <1>1, <1>2, <1>4, <1>6 DEF IInv, InOrder, Own, Shape
  <2>2. \A u \in Threads : session'[u].pc = "build" =>
           /\ ~Own(u)' => dictLock' = u
           /\ session'[u].version <= db.attack
           /\ u = "feed" => dict = None
    <3> SUFFICES ASSUME NEW u \in Threads, session'[u].pc = "build"
                 PROVE  /\ ~Own(u)' => dictLock' = u
                        /\ session'[u].version <= db.attack
                        /\ u = "feed" => dict = None
      OBVIOUS
    <3>1. CASE u = t
      BY <1>1, <1>3, <1>4, <1>6, <3>1 DEF Own
    <3>2. CASE u # t
      BY <1>1, <1>2, <1>6, <3>2 DEF IInv, InOrder, Own
    <3> QED
      BY <3>1, <3>2
  <2>3. /\ session'["mitre"].pc = "import" => session'["mitre"] = session["mitre"]
        /\ session'["mitre"].pc \in {"build", "relink"} =>
             session'["mitre"].version = db.attack
    BY <1>2, <1>4, <1>6 DEF IInv, InOrder
  <2> QED
    BY <1>1, <2>1, <2>2, <2>3 DEF IInv, InOrder
<1>10. Marked'
  <2>1. Relinking(session["mitre"]) => Relinking(session'["mitre"])
    BY <1>2, <1>4, <1>6 DEF Relinking
  <2> QED
    BY <1>1, <2>1, MarkKept DEF IInv
<1> QED
  BY <1>7, <1>8, <1>9, <1>10 DEF IInv

\* The dictionary that a thread has built is kept, unless in a process of its own.
LEMMA KeepDictionaryKeeps ==
  ASSUME DocumentsAssumption, IInv, NEW t \in Threads, NEW next \in Pcs,
         (t = "feed" /\ next = "entries") \/ (t = "mitre" /\ next = "relink"),
         KeepDictionary(t, next)
  PROVE  IInv'
<1> DEFINE s == session[t]
           n == [s EXCEPT !.pc = next]
<1>1. /\ To(t, n) /\ s.pc = "build"
      /\ Own(t) => dict' = dict /\ dictLock' = dictLock
      /\ ~Own(t) => dict' = s.version /\ dictLock' = None
      /\ UNCHANGED <<feed, published, db, elsewhere, excuses>>
  BY DEF KeepDictionary
<1>2. "feed" \in Threads /\ "mitre" \in Threads /\ None \notin Threads
  BY DEF Threads, DocumentsAssumption
<1>3. /\ s \in Sessions /\ Stage(t, s) /\ s.fetched <= feed.seq
      /\ s.version \in Versions /\ s.version <= db.attack
      /\ ~Own(t) => dictLock = t
      /\ t = "mitre" => s.version = db.attack
  BY <1>1, <1>2 DEF IInv, Shape, AllSound, Sound, Stage, InOrder
<1>4. /\ n \in Sessions /\ n.pc = next /\ n.version = s.version
      /\ n.article = s.article /\ n.fetched = s.fetched
      /\ n.doc = s.doc /\ n.links = s.links /\ n.exploits = s.exploits
      /\ n.touched = s.touched /\ n.overlapped = s.overlapped
  BY <1>3 DEF Sessions
<1> HIDE DEF n
<1>5. Sound(t, n)
  <2>1. Stage(t, n)
    BY <1>1, <1>3, <1>4 DEF Stage, Steps
  <2> QED
    BY <1>2, <1>3, <1>4, <2>1, QuietIsSound
<1>6. /\ session' \in [Threads -> Sessions] /\ session'[t] = n
      /\ \A u \in Threads : u # t => session'[u] = session[u]
  BY <1>1, <1>2, <1>4, ToFacts DEF IInv, Shape
<1>7. Served' /\ AllSound' /\ Linked' /\ Backed' /\ MarkedMeansLinked' /\ DerivedExplained'
  BY <1>1, <1>5, <1>6, Frame
<1>8. Shape'
  BY <1>1, <1>3, <1>6 DEF IInv, Shape
<1>9. InOrder'
  <2>1. dictLock' # None => ~Own(dictLock)' /\ session'[dictLock'].pc = "build"
    BY <1>1, <1>2, <1>6 DEF IInv, InOrder, Own, Shape
  <2>2. \A u \in Threads : session'[u].pc = "build" =>
           /\ ~Own(u)' => dictLock' = u
           /\ session'[u].version <= db.attack
           /\ u = "feed" => dict' = None
    <3> SUFFICES ASSUME NEW u \in Threads, session'[u].pc = "build"
                 PROVE  /\ ~Own(u)' => dictLock' = u
                        /\ session'[u].version <= db.attack
                        /\ u = "feed" => dict' = None
      OBVIOUS
    <3>1. u # t /\ session'[u] = session[u]
      BY <1>4, <1>6
    <3>2. /\ ~Own(u) => dictLock = u
          /\ session[u].version <= db.attack
          /\ u = "feed" => dict = None
      BY <3>1 DEF IInv, InOrder
    <3>3. CASE Own(t)
      BY <1>1, <3>1, <3>2, <3>3 DEF Own
    <3>4. CASE ~Own(t)
      <4>1. Own(u) /\ u # "feed"
        BY <1>3, <3>1, <3>2, <3>4 DEF Own
      <4> QED
        BY <1>1, <3>1, <3>2, <4>1 DEF Own
    <3> QED
      BY <3>3, <3>4
  <2>3. /\ session'["mitre"].pc = "import" => session'["mitre"] = session["mitre"]
        /\ session'["mitre"].pc \in {"build", "relink"} =>
             session'["mitre"].version = db.attack
    BY <1>2, <1>3, <1>4, <1>6 DEF IInv, InOrder
  <2>4. dict' # None => dict' <= db.attack
    BY <1>1, <1>3 DEF IInv, InOrder
  <2> QED
    BY <1>1, <2>1, <2>2, <2>3, <2>4 DEF IInv, InOrder
<1>10. Marked'
  <2>1. Relinking(session["mitre"]) => Relinking(session'["mitre"])
    BY <1>2, <1>4, <1>6 DEF Relinking
  <2> QED
    BY <1>1, <2>1, MarkKept DEF IInv
<1> QED
  BY <1>7, <1>8, <1>9, <1>10 DEF IInv

\* What is found in a text, in full or in the excerpt.
LEMMA TextFacts ==
  ASSUME NEW article
  PROVE  /\ Text(article, TRUE).names = article.names
         /\ Text(article, FALSE).names = article.excerpt
         /\ Text(article, TRUE).cve <=> Speaks(article)
         /\ Text(article, FALSE).cve => Speaks(article)
         /\ Text(article, TRUE).cve \in BOOLEAN /\ Text(article, FALSE).cve \in BOOLEAN
<1>1. /\ Text(article, TRUE).names = article.names
      /\ Text(article, FALSE).names = article.excerpt
  BY DEF Text
<1>2. Text(article, TRUE).cve = (article.cve = "excerpt" \/ article.cve = "text")
  BY DEF Text
<1>3. Text(article, FALSE).cve = (article.cve = "excerpt")
  BY DEF Text
<1> QED
  BY <1>1, <1>2, <1>3 DEF Speaks

\* A feed run reads the article.
LEMMA ReadArticleKeeps ==
  ASSUME DocumentsAssumption, IInv, ReadArticle
  PROVE  IInv'
<1> DEFINE s == session["feed"]
           text == Text(s.article, TRUE)
           as == [article |-> s.article, version |-> s.version]
           X == Extract(db.links, text, s.version)
           n == session'["feed"]
<1>1. "feed" \in Threads /\ "mitre" \in Threads /\ None \notin Threads
  BY DEF Threads, DocumentsAssumption
<1>2. /\ s.pc = "entries" /\ s \in Sessions /\ Stage("feed", s) /\ s.fetched <= feed.seq
      /\ s.article \in Articles /\ s.version \in Versions
      /\ s.doc = None /\ s.links = {} /\ s.exploits = {} /\ ~s.touched /\ ~s.overlapped
      /\ UNCHANGED <<feed, published, db, dict, dictLock, elsewhere, excuses>>
  BY <1>1 DEF IInv, Shape, AllSound, Sound, Stage, ReadArticle
<1>3. db \in Databases /\ db.links \in SUBSET Edges /\ db.doc \in Docs \cup {None}
  BY DEF IInv, Shape, Databases
<1>4. /\ X \in SUBSET Edges
      /\ s.article.names \cap Known[s.version] \subseteq db.links \cup X
      /\ Speaks(s.article) => Mentions \cap (db.links \cup X) # {}
      /\ X \cap Mentions # {} => db.links \cap Mentions = {}
      /\ ~(Mentions \subseteq X)
  <2>1. text.names = s.article.names /\ (text.cve <=> Speaks(s.article))
    BY TextFacts
  <2> HIDE DEF text
  <2>2. /\ X \in SUBSET Edges
        /\ text.names \cap Known[s.version] \subseteq db.links \cup X
        /\ text.cve => Mentions \cap (db.links \cup X) # {}
        /\ X \cap Mentions # {} => db.links \cap Mentions = {}
        /\ ~(Mentions \subseteq X)
    <3>1. PICK L \in SUBSET Edges, v \in Versions : L = db.links /\ v = s.version
      BY <1>2, <1>3
    <3>2. LET Y == Extract(L, text, v)
          IN  /\ Y \in SUBSET Edges
              /\ text.names \cap Known[v] \subseteq L \cup Y
              /\ text.cve => Mentions \cap (L \cup Y) # {}
              /\ Y \cap Mentions # {} => L \cap Mentions = {}
              /\ ~(Mentions \subseteq Y)
      BY ExtractFacts
    <3> QED
      BY <3>1, <3>2
  <2> QED
    BY <2>1, <2>2
<1>5. as \in Docs /\ as.article = s.article /\ as.version = s.version /\ as # None
  BY <1>2 DEF Docs, DocumentsAssumption
<1>6. text.cve \in BOOLEAN
  BY TextFacts
<1>7. /\ Ready(s) \in Sessions
      /\ Ready(s).pc = "recompute" /\ Ready(s).read = db.doc
      /\ Ready(s).doc = None /\ Ready(s).links = {}
      /\ Ready(s).exploits = {} /\ ~Ready(s).touched
      /\ ~Ready(s).overlapped /\ Ready(s).fetched = s.fetched
  BY <1>2, <1>3, ReadyFields
<1> DEFINE r == Ready(s)
           w == [r EXCEPT !.doc = as, !.touched = text.cve, !.links = X]
<1>8. /\ \/ db.doc = as /\ To("feed", r)
         \/ db.doc # as /\ To("feed", w)
  BY DEF ReadArticle
<1> HIDE DEF r, X, as, text
<1>9. /\ w \in Sessions
      /\ w.pc = "recompute" /\ w.read = db.doc /\ w.doc = as /\ w.links = X
      /\ w.exploits = {} /\ ~w.overlapped /\ w.fetched = s.fetched
  BY <1>4, <1>5, <1>6, <1>7 DEF Sessions, r
<1> HIDE DEF w
<1>10. /\ session' \in [Threads -> Sessions] /\ n \in {r, w}
       /\ \A u \in Threads : u # "feed" => session'[u] = session[u]
  BY <1>1, <1>7, <1>8, <1>9, ToFacts DEF IInv, Shape, r
<1>11. Sound("feed", r)
  <2>1. Stage("feed", r) /\ FeedRead(r) /\ Linking("feed", r) /\ Deriving(r)
    BY <1>7 DEF Stage, Steps, FeedRead, Linking, Deriving, Mentions, r
  <2> QED
    BY <1>2, <1>7, <2>1 DEF Sound, r
<1>12. Sound("feed", w)
  <2>1. Stage("feed", w)
    BY <1>9 DEF Stage, Steps
  <2>2. Deriving(w)
    BY <1>9 DEF Deriving
  <2>3. s.article.excerpt \cap Known[s.version] \subseteq db.links \cup X
    BY <1>2, <1>4 DEF DocumentsAssumption
  <2>4. Linking("feed", w)
    BY <1>4, <1>5, <1>9, <2>3 DEF Linking
  <2> QED
    BY <1>2, <1>9, <2>1, <2>2, <2>4 DEF Sound, FeedRead
<1>13. Served' /\ AllSound' /\ Linked' /\ Backed' /\ MarkedMeansLinked' /\ DerivedExplained'
  <2>1. \A u \in Threads : session'[u] = session[u] \/ Sound(u, session'[u])
    BY <1>10, <1>11, <1>12
  <2> QED
    BY <1>2, <1>10, <2>1, Frame
<1>14. Shape'
  BY <1>2, <1>10 DEF IInv, Shape
<1>15. InOrder'
  <2>1. n.pc = "recompute"
    BY <1>7, <1>9, <1>10 DEF r
  <2> QED
    BY <1>1, <1>2, <1>10, <2>1, OrderKept DEF IInv
<1>16. Marked'
  BY <1>1, <1>2, <1>10, MarkKept DEF IInv
<1> QED
  BY <1>13, <1>14, <1>15, <1>16 DEF IInv

\* MITRE's run reads the excerpt of an article with an older mark.
LEMMA RelinkKeeps ==
  ASSUME DocumentsAssumption, IInv, Relink
  PROVE  IInv'
<1> DEFINE s == session["mitre"]
           text == Text(db.doc.article, FALSE)
           as == [db.doc EXCEPT !.version = s.version]
           X == Extract(db.links, text, s.version)
           n == session'["mitre"]
<1>1. "feed" \in Threads /\ "mitre" \in Threads /\ None \notin Threads
  BY DEF Threads, DocumentsAssumption
<1>2. /\ s.pc = "relink" /\ s \in Sessions /\ Stage("mitre", s) /\ s.fetched <= feed.seq
      /\ s.version \in Versions /\ s.version = db.attack
      /\ s.doc = None /\ s.links = {} /\ s.exploits = {} /\ ~s.touched /\ ~s.overlapped
      /\ UNCHANGED <<feed, published, db, dict, dictLock, elsewhere, excuses>>
  BY <1>1 DEF IInv, Shape, AllSound, Sound, Stage, InOrder, Relink
<1>3. db \in Databases /\ db.links \in SUBSET Edges /\ db.doc \in Docs \cup {None}
  BY DEF IInv, Shape, Databases
<1>4. /\ X \in SUBSET Edges
      /\ db.doc.article.excerpt \cap Known[s.version] \subseteq db.links \cup X
      /\ X \cap Mentions # {} =>
           Speaks(db.doc.article) /\ db.links \cap Mentions = {}
  <2>1. text.names = db.doc.article.excerpt /\ (text.cve => Speaks(db.doc.article))
    BY TextFacts
  <2> HIDE DEF text
  <2>2. PICK L \in SUBSET Edges, v \in Versions : L = db.links /\ v = s.version
    BY <1>2, <1>3
  <2>3. LET Y == Extract(L, text, v)
        IN  /\ Y \in SUBSET Edges
            /\ text.names \cap Known[v] \subseteq L \cup Y
            /\ Y \cap Mentions # {} => text.cve /\ L \cap Mentions = {}
    BY ExtractFacts
  <2> QED
    BY <2>1, <2>2, <2>3
<1>5. db.doc # None =>
        /\ as \in Docs /\ as.article = db.doc.article /\ as.version = s.version
        /\ as # None
  BY <1>2, <1>3 DEF Docs, DocumentsAssumption
<1>6. text.cve \in BOOLEAN
  BY TextFacts
<1>7. /\ Ready(s) \in Sessions
      /\ Ready(s).pc = "recompute" /\ Ready(s).read = db.doc
      /\ Ready(s).doc = None /\ Ready(s).links = {}
      /\ Ready(s).exploits = {} /\ ~Ready(s).touched
      /\ ~Ready(s).overlapped /\ Ready(s).fetched = s.fetched
  BY <1>2, <1>3, ReadyFields
<1> DEFINE r == Ready(s)
           w == [r EXCEPT !.touched = text.cve, !.doc = as, !.links = X]
           settled == db.doc = None \/ db.doc.version = s.version
<1>8. \/ settled /\ To("mitre", r)
      \/ ~settled /\ To("mitre", w)
  BY DEF Relink
<1> HIDE DEF r, X, as, text
<1>9. ~settled =>
        /\ w \in Sessions
        /\ w.pc = "recompute" /\ w.read = db.doc /\ w.doc = as /\ w.links = X
        /\ w.exploits = {} /\ ~w.overlapped /\ w.fetched = s.fetched
  BY <1>4, <1>5, <1>6, <1>7 DEF Sessions, r
<1> HIDE DEF w
<1>10. /\ session' \in [Threads -> Sessions]
       /\ \/ settled /\ n = r
          \/ ~settled /\ n = w
       /\ \A u \in Threads : u # "mitre" => session'[u] = session[u]
  BY <1>1, <1>7, <1>8, <1>9, ToFacts DEF IInv, Shape, r
<1>11. settled => Sound("mitre", r)
  <2>1. Stage("mitre", r) /\ Linking("mitre", r) /\ Deriving(r)
    BY <1>7 DEF Stage, Steps, Linking, Deriving, Mentions, r
  <2>2. settled => MitreRead(r)
    BY <1>2, <1>7 DEF MitreRead, r
  <2> QED
    BY <1>2, <1>7, <2>1, <2>2 DEF Sound, r
<1>12. ~settled => Sound("mitre", w)
  <2> SUFFICES ASSUME ~settled
               PROVE  Sound("mitre", w)
    OBVIOUS
  <2>1. Stage("mitre", w)
    BY <1>9 DEF Stage, Steps
  <2>2. Deriving(w)
    BY <1>9 DEF Deriving
  <2>3. Speaks(db.doc.article) => Mentions \cap db.links # {}
    BY DEF IInv, Linked
  <2>4. X \cap Mentions = {} /\ ~(Mentions \subseteq X)
    BY <1>4, <2>3 DEF Mentions
  <2>5. Linking("mitre", w)
    BY <1>4, <1>5, <1>9, <2>3, <2>4 DEF Linking
  <2>6. MitreRead(w)
    BY <1>2, <1>5, <1>9 DEF MitreRead
  <2> QED
    BY <1>2, <1>9, <2>1, <2>2, <2>5, <2>6 DEF Sound
<1>13. Served' /\ AllSound' /\ Linked' /\ Backed' /\ MarkedMeansLinked' /\ DerivedExplained'
  <2>1. \A u \in Threads : session'[u] = session[u] \/ Sound(u, session'[u])
    BY <1>10, <1>11, <1>12
  <2> QED
    BY <1>2, <1>10, <2>1, Frame
<1>14. Shape'
  BY <1>2, <1>10 DEF IInv, Shape
<1>15. InOrder'
  <2>1. n.pc = "recompute"
    BY <1>7, <1>9, <1>10 DEF r
  <2> QED
    BY <1>1, <1>2, <1>10, <2>1, OrderKept DEF IInv
<1>16. Marked'
  <2>1. settled => Marked'
    BY <1>2 DEF Marked
  <2>2. ~settled => Relinking(n)
    BY <1>5, <1>9, <1>10 DEF Relinking
  <2>3. ~settled => Marked'
    BY <1>2, <2>2 DEF Marked, Relinking
  <2> QED
    BY <2>1, <2>3
<1> QED
  BY <1>13, <1>14, <1>15, <1>16 DEF IInv

\* A run derives what it touched.
LEMMA RecomputeTouchedKeeps ==
  ASSUME DocumentsAssumption, IInv, NEW t \in {"feed", "mitre"}, RecomputeTouched(t)
  PROVE  IInv'
<1> DEFINE s == session[t]
           c == [s EXCEPT !.pc = "commit"]
           n == Recomputed(s)
<1>1. /\ "feed" \in Threads /\ "mitre" \in Threads /\ None \notin Threads
      /\ t \in Threads
  BY DEF Threads, DocumentsAssumption
<1>2. /\ s.pc = "recompute" /\ To(t, n)
      /\ UNCHANGED <<feed, published, db, dict, dictLock, elsewhere, excuses>>
  BY DEF RecomputeTouched
<1>3. s \in Sessions /\ Sound(t, s) /\ db \in Databases
  BY <1>1 DEF IInv, Shape, AllSound
<1>4. /\ n \in Sessions /\ n.pc = "commit" /\ n.doc = s.doc
  BY <1>3, RecomputedFields
<1>5. Sound(t, n)
  <2>1. /\ c.pc = "commit" /\ c.read = s.read /\ c.doc = s.doc
        /\ c.links = s.links /\ c.exploits = s.exploits
        /\ c.touched = s.touched /\ c.overlapped = s.overlapped
    BY <1>3 DEF Sessions
  <2> HIDE DEF c
  <2>2. Stage(t, c) /\ "commit" \in Steps(t)
    BY <1>2, <1>3, <2>1 DEF Sound, Stage, Steps
  <2>3. /\ t = "feed" => FeedRead(c)
        /\ t = "mitre" => MitreRead(c)
    BY <1>2, <1>3, <2>1 DEF Sound, FeedRead, MitreRead
  <2> QED
    BY <1>1, <1>3, <2>2, <2>3, RecomputedIsSound DEF IInv, Sound, c
<1> HIDE DEF n
<1>6. /\ session' \in [Threads -> Sessions] /\ session'[t] = n
      /\ \A u \in Threads : u # t => session'[u] = session[u]
  BY <1>1, <1>2, <1>4, ToFacts DEF IInv, Shape
<1>7. Served' /\ AllSound' /\ Linked' /\ Backed' /\ MarkedMeansLinked' /\ DerivedExplained'
  BY <1>2, <1>5, <1>6, Frame
<1>8. Shape'
  BY <1>2, <1>6 DEF IInv, Shape
<1>9. InOrder'
  BY <1>1, <1>2, <1>4, <1>6, OrderKept DEF IInv
<1>10. Marked'
  <2>1. Relinking(session["mitre"]) => Relinking(session'["mitre"])
    BY <1>1, <1>2, <1>4, <1>6 DEF Relinking
  <2> QED
    BY <1>2, <2>1, MarkKept DEF IInv
<1> QED
  BY <1>7, <1>8, <1>9, <1>10 DEF IInv

\* A worker that found an exploit, or the maintenance job, derives from an idle start.
LEMMA DirectKeeps ==
  ASSUME DocumentsAssumption, IInv, NEW t \in {"exploitdb", "maintenance"},
         NEW s \in Sessions, s.fetched = 0, s.doc = None, s.links = {}, s.touched,
         ~s.overlapped, session[t].pc = "idle", To(t, Recomputed(s)),
         UNCHANGED <<feed, published, db, dict, dictLock, elsewhere, excuses>>
  PROVE  IInv'
<1> DEFINE c == [s EXCEPT !.pc = "commit"]
           n == Recomputed(s)
<1>1. /\ "feed" \in Threads /\ "mitre" \in Threads /\ None \notin Threads
      /\ t \in Threads
  BY DEF Threads, DocumentsAssumption
<1>3. /\ c.pc = "commit" /\ c.doc = s.doc /\ c.links = s.links
      /\ c.touched = s.touched /\ c.overlapped = s.overlapped
  BY DEF Sessions
<1>4. db \in Databases /\ feed.seq \in Nat
  BY DEF IInv, Shape, DocumentsAssumption
<1>5. n \in Sessions /\ n.pc = "commit"
  BY <1>4, RecomputedFields
<1>6. Sound(t, n)
  <2>1. "commit" \in Steps(t) /\ Stage(t, c)
    BY <1>3 DEF Stage, Steps
  <2>2. Linking(t, s)
    BY DEF Linking, Mentions
  <2> QED
    BY <1>1, <1>4, <2>1, <2>2, RecomputedIsSound DEF IInv, c
<1>7. To(t, n)
  OBVIOUS
<1> HIDE DEF n
<1>8. /\ session' \in [Threads -> Sessions] /\ session'[t] = n
      /\ \A u \in Threads : u # t => session'[u] = session[u]
  BY <1>1, <1>5, <1>7, ToFacts DEF IInv, Shape
<1>9. Served' /\ AllSound' /\ Linked' /\ Backed' /\ MarkedMeansLinked' /\ DerivedExplained'
  BY <1>6, <1>8, Frame
<1>10. Shape'
  BY <1>8 DEF IInv, Shape
<1>11. InOrder'
  BY <1>1, <1>5, <1>8, OrderKept DEF IInv
<1>12. Marked'
  BY <1>1, <1>8, MarkKept DEF IInv
<1> QED
  BY <1>9, <1>10, <1>11, <1>12 DEF IInv

\* Both of them.
LEMMA DirectStepsKeep ==
  ASSUME DocumentsAssumption, IInv, Maintain \/ \E e \in Exploits : FindExploit(e)
  PROVE  IInv'
<1> DEFINE Fresh(s) == /\ s \in Sessions /\ s.fetched = 0 /\ s.doc = None /\ s.links = {}
                       /\ s.touched /\ ~s.overlapped
<1>1. CASE Maintain
  <2> DEFINE s == [Idle EXCEPT !.touched = TRUE]
  <2>1. Fresh(s)
    BY IdleFields DEF Sessions
  <2>2. /\ session["maintenance"].pc = "idle" /\ To("maintenance", Recomputed(s))
        /\ UNCHANGED <<feed, published, db, dict, dictLock, elsewhere, excuses>>
    BY <1>1 DEF Maintain
  <2> HIDE DEF s
  <2> QED
    BY <2>1, <2>2, DirectKeeps
<1>2. CASE \E e \in Exploits : FindExploit(e)
  <2>1. PICK e \in Exploits : FindExploit(e)
    BY <1>2
  <2> DEFINE s == [Idle EXCEPT !.exploits = {e}, !.touched = TRUE]
  <2>2. Fresh(s)
    BY IdleFields DEF Sessions
  <2>3. /\ session["exploitdb"].pc = "idle" /\ To("exploitdb", Recomputed(s))
        /\ UNCHANGED <<feed, published, db, dict, dictLock, elsewhere, excuses>>
    BY <2>1 DEF FindExploit
  <2> HIDE DEF s
  <2> QED
    BY <2>2, <2>3, DirectKeeps
<1> QED
  BY <1>1, <1>2

\* A thread ends early, and rolls back.
LEMMA FailKeeps ==
  ASSUME DocumentsAssumption, IInv, NEW t \in Threads, Fail(t)
  PROVE  IInv'
<1>1. /\ session[t].pc # "idle" /\ To(t, Idle)
      /\ dictLock' = IF dictLock = t THEN None ELSE dictLock
      /\ excuses' = excuses \cup CutShort({t})
      /\ UNCHANGED <<feed, published, db, dict, elsewhere>>
  BY DEF Fail
<1>2. "feed" \in Threads /\ "mitre" \in Threads /\ None \notin Threads
  BY DEF Threads, DocumentsAssumption
<1>3. Sound(t, Idle)
  BY IdleIsSound DEF IInv
<1>4. /\ session' \in [Threads -> Sessions] /\ session'[t] = Idle
      /\ \A u \in Threads : u # t => session'[u] = session[u]
  BY <1>1, IdleFields, ToFacts DEF IInv, Shape
<1>5. Served' /\ AllSound' /\ Linked' /\ Backed' /\ MarkedMeansLinked' /\ DerivedExplained'
  BY <1>1, <1>3, <1>4, Frame
<1>6. Shape'
  BY <1>1, <1>4 DEF IInv, Shape, Excuses, CutShort
<1>7. InOrder'
  <2>1. dictLock' # None => ~Own(dictLock)' /\ session'[dictLock'].pc = "build"
    BY <1>1, <1>2, <1>4 DEF IInv, InOrder, Own, Shape
  <2>2. \A u \in Threads : session'[u].pc = "build" =>
           /\ ~Own(u)' => dictLock' = u
           /\ session'[u].version <= db.attack
           /\ u = "feed" => dict = None
    BY <1>1, <1>4, IdleFields DEF IInv, InOrder, Own
  <2>3. session'["mitre"].pc \in {"import", "build", "relink"} =>
          session'["mitre"] = session["mitre"]
    BY <1>2, <1>4, IdleFields
  <2> QED
    BY <1>1, <2>1, <2>2, <2>3 DEF IInv, InOrder
<1>8. Marked'
  <2>1. CASE t = "mitre" /\ Relinking(session["mitre"])
    <3>1. "relink" \in excuses'
      BY <1>1, <2>1 DEF CutShort, Relinking
    <3> QED
      BY <3>1 DEF Marked
  <2>2. CASE t # "mitre"
    BY <1>1, <1>2, <1>4, <2>2, MarkKept DEF IInv
  <2>3. CASE ~Relinking(session["mitre"])
    BY <1>1, <2>3, MarkKept DEF IInv
  <2> QED
    BY <2>1, <2>2, <2>3
<1> QED
  BY <1>5, <1>6, <1>7, <1>8 DEF IInv

\* The scheduler is restarted.
LEMMA RestartKeeps ==
  ASSUME DocumentsAssumption, IInv, Restart
  PROVE  IInv'
<1> DEFINE ended == {t \in Threads : ~Own(t)}
<1>1. /\ session' = [t \in Threads |-> IF Own(t) THEN session[t] ELSE Idle]
      /\ dict' = None /\ dictLock' = None
      /\ excuses' = excuses \cup CutShort(ended)
      /\ UNCHANGED <<feed, published, db, elsewhere>>
  BY DEF Restart
<1>2. "feed" \in Threads /\ "mitre" \in Threads /\ None \notin Threads
  BY DEF Threads, DocumentsAssumption
<1>3. \A u \in Threads : session'[u] = IF Own(u) THEN session[u] ELSE Idle
  BY <1>1
<1>4. session' \in [Threads -> Sessions]
  BY <1>1, IdleFields DEF IInv, Shape
<1>5. Served' /\ AllSound' /\ Linked' /\ Backed' /\ MarkedMeansLinked' /\ DerivedExplained'
  <2>1. \A u \in Threads : session'[u] = session[u] \/ Sound(u, session'[u])
    BY <1>3, IdleIsSound DEF IInv
  <2> QED
    BY <1>1, <1>4, <2>1, Frame
<1>6. Shape'
  BY <1>1, <1>4 DEF IInv, Shape, Excuses, CutShort
<1>7. InOrder'
  <2>1. \A u \in Threads : session'[u].pc = "build" =>
           /\ ~Own(u)' => dictLock' = u
           /\ session'[u].version <= db.attack
           /\ u = "feed" => dict' = None
    BY <1>1, <1>3, IdleFields DEF IInv, InOrder, Own
  <2>2. session'["mitre"].pc \in {"import", "build", "relink"} =>
          session'["mitre"] = session["mitre"]
    BY <1>2, <1>3, IdleFields
  <2> QED
    BY <1>1, <2>1, <2>2 DEF IInv, InOrder
<1>8. Marked'
  <2>1. CASE ~Own("mitre") /\ Relinking(session["mitre"])
    <3>1. "relink" \in excuses'
      BY <1>1, <1>2, <2>1 DEF CutShort, Relinking
    <3> QED
      BY <3>1 DEF Marked
  <2>2. CASE Own("mitre")
    BY <1>1, <1>2, <1>3, <2>2, MarkKept DEF IInv
  <2>3. CASE ~Relinking(session["mitre"])
    BY <1>1, <2>3, MarkKept DEF IInv
  <2> QED
    BY <2>1, <2>2, <2>3
<1> QED
  BY <1>5, <1>6, <1>7, <1>8 DEF IInv

------------------------------------------------------------------------------
(* The steps that change the database                                       *)

\* A version of ATT&CK is imported.
LEMMA ImportBundleKeeps ==
  ASSUME DocumentsAssumption, IInv, ImportBundle
  PROVE  IInv'
<1> DEFINE s == session["mitre"]
           n == [s EXCEPT !.pc = "dictionary"]
<1>1. /\ s.pc = "import" /\ db' = [db EXCEPT !.attack = s.version] /\ To("mitre", n)
      /\ UNCHANGED <<feed, published, dict, dictLock, elsewhere, excuses>>
  BY DEF ImportBundle
<1>2. "feed" \in Threads /\ "mitre" \in Threads /\ None \notin Threads
  BY DEF Threads, DocumentsAssumption
<1>3. /\ s \in Sessions /\ Stage("mitre", s) /\ s.fetched <= feed.seq
      /\ s.version \in Versions /\ s.version \in Nat
      /\ db.attack \in Nat /\ db.attack < s.version /\ s.version <= published
  BY <1>1, <1>2, VersionsNumbered
     DEF IInv, Shape, Databases, AllSound, Sound, Stage, InOrder
<1>4. /\ n \in Sessions /\ n.pc = "dictionary" /\ n.version = s.version
      /\ n.fetched = s.fetched /\ n.doc = s.doc /\ n.links = s.links
      /\ n.exploits = s.exploits /\ n.touched = s.touched /\ n.overlapped = s.overlapped
  BY <1>3 DEF Sessions, Pcs
<1> HIDE DEF n
<1>5. /\ db' \in Databases /\ db'.attack = s.version /\ db'.fetched = db.fetched
      /\ db'.doc = db.doc /\ db'.links = db.links /\ db'.exploits = db.exploits
      /\ db'.derived = db.derived
  BY <1>1, <1>3 DEF IInv, Shape, Databases
<1>6. /\ session' \in [Threads -> Sessions] /\ session'["mitre"] = n
      /\ \A u \in Threads : u # "mitre" => session'[u] = session[u]
  BY <1>1, <1>2, <1>4, ToFacts DEF IInv, Shape
<1>7. Shape'
  BY <1>1, <1>5, <1>6 DEF IInv, Shape
<1>8. Served' /\ Linked' /\ Backed'
  BY <1>1, <1>5 DEF IInv, Served, Linked, Backed
<1>9. MarkedMeansLinked' /\ DerivedExplained'
  BY <1>1, <1>5 DEF IInv, MarkedMeansLinked, DerivedExplained, UpToDate
<1>10. AllSound'
  <2> SUFFICES ASSUME NEW u \in Threads
               PROVE  Sound(u, session[u])'
    BY DEF AllSound
  <2>1. CASE u = "mitre"
    <3>1. Stage("mitre", n)
      BY <1>1, <1>3, <1>4 DEF Stage, Steps
    <3>2. Stage("mitre", session["mitre"])'
      BY <1>6, <3>1 DEF Stage
    <3>3. n.doc = None /\ n.links = {}
      BY <1>4, <3>1 DEF Stage
    <3>4. /\ Linking("mitre", session["mitre"])' /\ Deriving(session["mitre"])'
          /\ MitreRead(session["mitre"])'
      BY <1>4, <1>6, <3>3 DEF Linking, Deriving, MitreRead, Mentions
    <3> QED
      BY <1>1, <1>3, <1>4, <1>6, <2>1, <3>2, <3>4 DEF Sound
  <2>2. CASE u # "mitre"
    <3>1. Sound(u, session[u]) /\ session'[u] = session[u]
      BY <1>6, <2>2 DEF IInv, AllSound
    <3> QED
      BY <1>1, <1>5, <2>2, <3>1 DEF Sound, Stage, FeedRead, Linking, Deriving
  <2> QED
    BY <2>1, <2>2
<1>11. InOrder'
  <2>1. dictLock # None => ~Own(dictLock)' /\ session'[dictLock].pc = "build"
    BY <1>1, <1>2, <1>6 DEF IInv, InOrder, Own, Shape
  <2>2. \A u \in Threads : session'[u].pc = "build" =>
           /\ ~Own(u)' => dictLock = u
           /\ session'[u].version <= db'.attack
           /\ u = "feed" => dict = None
    <3> SUFFICES ASSUME NEW u \in Threads, session'[u].pc = "build"
                 PROVE  /\ ~Own(u)' => dictLock = u
                        /\ session'[u].version <= db'.attack
                        /\ u = "feed" => dict = None
      OBVIOUS
    <3>1. session'[u] = session[u]
      BY <1>4, <1>6
    <3>2. session[u].version \in Nat
      BY <3>1, VersionsNumbered DEF IInv, AllSound, Sound, Stage
    <3> QED
      BY <1>1, <1>3, <1>5, <3>1, <3>2 DEF IInv, InOrder, Own
  <2>3. dict # None => dict \in Nat /\ dict <= db'.attack
    BY <1>3, <1>5, VersionsNumbered DEF IInv, InOrder, Shape
  <2> QED
    BY <1>1, <1>3, <1>4, <1>5, <1>6, <2>1, <2>2, <2>3 DEF InOrder
<1>12. Marked'
  BY <1>4, <1>6 DEF Marked, Relinking
<1> QED
  BY <1>7, <1>8, <1>9, <1>10, <1>11, <1>12 DEF IInv

\* What an UPDATE leaves of the article: the columns that differ from what was read.
LEMMA WrittenDocs ==
  ASSUME NEW c \in Docs, NEW l \in Docs, NEW n \in Docs
  PROVE  /\ Written(c, l, n) \in Docs
         /\ Written(c, l, n).article = IF n.article # l.article THEN n.article ELSE c.article
         /\ Written(c, l, n).version = IF n.version # l.version THEN n.version ELSE c.version
         /\ l = c => Written(c, l, n) = n
<1> DEFINE w == Written(c, l, n)
<1>1. DOMAIN c = {"article", "version"} /\ DOMAIN n = {"article", "version"}
  BY DEF Docs
<1>2. /\ w = [f \in {"article", "version"} |-> IF n[f] # l[f] THEN n[f] ELSE c[f]]
      /\ w.article = IF n.article # l.article THEN n.article ELSE c.article
      /\ w.version = IF n.version # l.version THEN n.version ELSE c.version
  BY <1>1 DEF Written
<1>3. /\ c.article \in Articles /\ c.version \in Versions
      /\ n.article \in Articles /\ n.version \in Versions
  BY DEF Docs
<1> HIDE DEF w
<1>4. w \in Docs
  BY <1>2, <1>3 DEF Docs
<1>5. l = c => w = n
  BY <1>2, <1>4 DEF Docs
<1> QED
  BY <1>2, <1>4, <1>5 DEF w

\* The same for what is derived.
LEMMA WrittenEvidence ==
  ASSUME NEW c \in Evidence, NEW l \in Evidence, NEW n \in Evidence
  PROVE  /\ Written(c, l, n) \in Evidence
         /\ Written(c, l, n).score \in {c.score, n.score}
         /\ l = c => Written(c, l, n) = n
<1> DEFINE w == Written(c, l, n)
           F == {"exploited", "exploits", "actors", "active", "score"}
<1>1. DOMAIN c = F /\ DOMAIN n = F
  BY DEF Evidence
<1>2. w = [f \in F |-> IF n[f] # l[f] THEN n[f] ELSE c[f]]
  BY <1>1 DEF Written
<1>3. /\ w.exploited \in {c.exploited, n.exploited} /\ w.exploits \in {c.exploits, n.exploits}
      /\ w.actors \in {c.actors, n.actors} /\ w.active \in {c.active, n.active}
      /\ w.score \in {c.score, n.score}
  BY <1>2
<1>4. l = c => /\ w.exploited = n.exploited /\ w.exploits = n.exploits
               /\ w.actors = n.actors /\ w.active = n.active /\ w.score = n.score
  BY <1>2
<1> HIDE DEF w
<1>5. w \in Evidence
  BY <1>2, <1>3 DEF Evidence
<1>6. l = c => w = n
  BY <1>4, <1>5 DEF Evidence
<1> QED
  BY <1>3, <1>5, <1>6 DEF w

\* What is stored of the article after a commit: a feed run leaves the text that it
\* read, and MITRE's relink that of the feed and its own mark.
LEMMA WrittenDocFacts ==
  ASSUME DocumentsAssumption, IInv, NEW t \in Threads, session[t].pc = "commit"
  PROVE  LET s == session[t]
             d == WrittenDoc(s)
         IN  /\ d \in Docs \cup {None}
             /\ s.doc = None => d = db.doc
             /\ s.doc # None => d # None
             /\ s.doc # None /\ s.read = db.doc => d = s.doc
             /\ t = "feed" /\ s.doc # None => d.article = s.doc.article
             /\ t = "mitre" /\ s.doc # None =>
                  db.doc # None /\ d.article = db.doc.article /\ d.version = db.attack
<1> DEFINE s == session[t]
           d == WrittenDoc(s)
<1>1. s \in Sessions /\ Sound(t, s) /\ db.doc \in Docs \cup {None} /\ None \notin Docs
  BY DEF IInv, Shape, Databases, AllSound, DocumentsAssumption
<1>2. s.doc \in Docs \cup {None} /\ s.read \in Docs \cup {None}
  BY <1>1 DEF Sessions
<1>3. CASE s.doc = None
  BY <1>1, <1>3 DEF WrittenDoc
<1>4. CASE s.doc # None /\ db.doc = None
  <2>1. t = "feed"
    BY <1>1, <1>4 DEF Sound, Stage, MitreRead
  <2> QED
    BY <1>1, <1>2, <1>4, <2>1 DEF WrittenDoc
<1>5. CASE s.doc # None /\ db.doc # None
  <2>1. s.doc \in Docs /\ db.doc \in Docs /\ t \in {"feed", "mitre"}
    BY <1>1, <1>2, <1>5 DEF Sound, Stage
  <2>2. s.read \in Docs
    BY <1>1, <1>2, <1>5, <2>1 DEF Sound, FeedRead, MitreRead
  <2>3. d = Written(db.doc, s.read, s.doc)
    BY <1>5 DEF WrittenDoc
  <2>4. /\ d \in Docs
        /\ d.article = IF s.doc.article # s.read.article THEN s.doc.article ELSE db.doc.article
        /\ d.version = IF s.doc.version # s.read.version THEN s.doc.version ELSE db.doc.version
        /\ s.read = db.doc => d = s.doc
    BY <2>1, <2>2, <2>3, WrittenDocs
  <2>5. t = "feed" => s.read.article = db.doc.article
    BY <1>1, <2>2 DEF Sound, FeedRead
  <2>6. t = "mitre" => /\ s.doc.article = s.read.article /\ s.doc.version = db.attack
                       /\ s.read.version # db.attack
    BY <1>1, <1>5 DEF Sound, MitreRead
  <2>7. /\ d \in Docs /\ d # None
        /\ s.read = db.doc => d = s.doc
        /\ t = "feed" => d.article = s.doc.article
        /\ t = "mitre" => d.article = db.doc.article /\ d.version = db.attack
    <3> HIDE DEF d, s
    <3>1. t = "mitre" => d.version = s.doc.version
      BY <2>4, <2>6
    <3> QED
      BY <1>1, <2>4, <2>5, <2>6, <3>1
  <2> QED
    BY <1>5, <2>7
<1> QED
  BY <1>3, <1>4, <1>5

\* What a commit does.
LEMMA CommitEffect ==
  ASSUME DocumentsAssumption, IInv, NEW t \in Threads, Commit(t)
  PROVE  LET s == session[t]
         IN  /\ s.pc = "commit" /\ s \in Sessions /\ Sound(t, s)
             /\ db' \in Databases /\ db'.attack = db.attack /\ db'.fetched <= feed.seq
             /\ db'.links = db.links \cup s.links
             /\ db'.exploits = db.exploits \cup s.exploits
             /\ db'.doc = WrittenDoc(s)
             /\ db'.derived = Written(db.derived, s.loaded, s.derived)
             /\ excuses' = Explained(t, WrittenDoc(s))
             /\ session' \in [Threads -> Sessions] /\ session'[t] = Idle
             /\ \A u \in Threads : u # t =>
                  LET o == session[u]
                      n == session'[u]
                  IN  /\ n.pc = o.pc /\ n.article = o.article /\ n.fetched = o.fetched
                      /\ n.version = o.version /\ n.read = o.read /\ n.doc = o.doc
                      /\ n.links = o.links /\ n.exploits = o.exploits
                      /\ n.derived = o.derived /\ n.touched = o.touched
                      /\ n.overlapped = (o.overlapped \/ o.pc = "commit")
             /\ UNCHANGED <<feed, published, dict, dictLock, elsewhere>>
<1> DEFINE s == session[t]
           d == WrittenDoc(s)
           w == Written(db.derived, s.loaded, s.derived)
<1>1. s \in Sessions /\ Sound(t, s) /\ db \in Databases /\ s.pc = "commit"
  BY DEF IInv, Shape, AllSound, Commit
<1>2. /\ db' = [db EXCEPT !.links = @ \cup s.links, !.exploits = @ \cup s.exploits,
                         !.doc = d, !.derived = w,
                         !.fetched = IF t = "feed" THEN s.fetched ELSE @]
      /\ session' = [u \in Threads |->
                       IF u = t THEN Idle
                       ELSE [session[u] EXCEPT !.overlapped = @ \/ session[u].pc = "commit"]]
      /\ excuses' = Explained(t, d)
      /\ UNCHANGED <<feed, published, dict, dictLock, elsewhere>>
  BY DEF Commit
<1>3. d \in Docs \cup {None}
  BY <1>1, WrittenDocFacts
<1>4. w \in Evidence
  BY <1>1, WrittenEvidence DEF Sessions, Databases
<1> HIDE DEF d, w
<1>5. /\ db' \in Databases /\ db'.attack = db.attack
      /\ db'.links = db.links \cup s.links /\ db'.exploits = db.exploits \cup s.exploits
      /\ db'.doc = d /\ db'.derived = w
      /\ db'.fetched = IF t = "feed" THEN s.fetched ELSE db.fetched
  BY <1>1, <1>2, <1>3, <1>4 DEF Databases, Sessions
<1>6. db'.fetched <= feed.seq
  BY <1>1, <1>5 DEF IInv, Served, Sound
<1>7. ASSUME NEW u \in Threads, u # t
      PROVE  LET o == session[u]
                 n == session'[u]
             IN  /\ n \in Sessions
                 /\ n.pc = o.pc /\ n.article = o.article /\ n.fetched = o.fetched
                 /\ n.version = o.version /\ n.read = o.read /\ n.doc = o.doc
                 /\ n.links = o.links /\ n.exploits = o.exploits
                 /\ n.derived = o.derived /\ n.touched = o.touched
                 /\ n.overlapped = (o.overlapped \/ o.pc = "commit")
  <2> DEFINE o == session[u]
             n == session'[u]
  <2>1. o \in Sessions
    BY DEF IInv, Shape
  <2>2. n = [o EXCEPT !.overlapped = @ \/ o.pc = "commit"]
    BY <1>2, <1>7
  <2> HIDE DEF o, n
  <2>3. /\ n \in Sessions
        /\ n.pc = o.pc /\ n.article = o.article /\ n.fetched = o.fetched
        /\ n.version = o.version /\ n.read = o.read /\ n.doc = o.doc
        /\ n.links = o.links /\ n.exploits = o.exploits
        /\ n.derived = o.derived /\ n.touched = o.touched
        /\ n.overlapped = (o.overlapped \/ o.pc = "commit")
    BY <2>1, <2>2 DEF Sessions
  <2> QED
    BY <2>3 DEF o, n
<1>8. session'[t] = Idle /\ session' \in [Threads -> Sessions]
  <2>1. session'[t] = Idle /\ session' = [u \in Threads |-> session'[u]]
    BY <1>2
  <2>2. \A u \in Threads : session'[u] \in Sessions
    BY <1>7, <2>1, IdleFields
  <2> QED
    BY <2>1, <2>2
<1> QED
  BY <1>1, <1>2, <1>5, <1>6, <1>7, <1>8 DEF d, w

\* Each of the other sessions has then read what is old, which it knows if it was
\* about to commit, and what it has read is still there.
LEMMA CommitKeepsSound ==
  ASSUME DocumentsAssumption, IInv, NEW t \in Threads, Commit(t), NEW u \in Threads
  PROVE  Sound(u, session[u])'
<1> DEFINE s == session[t]
           o == session[u]
           n == session'[u]
<1>1. /\ s.pc = "commit" /\ s \in Sessions /\ Sound(t, s) /\ db \in Databases
      /\ db' \in Databases /\ db'.attack = db.attack
      /\ db'.links = db.links \cup s.links /\ db'.exploits = db.exploits \cup s.exploits
      /\ db'.doc = WrittenDoc(s)
      /\ session' \in [Threads -> Sessions] /\ session'[t] = Idle
      /\ UNCHANGED <<feed, published, dict, dictLock, elsewhere>>
  BY CommitEffect DEF IInv, Shape
<1>2. CASE u = t
  <2>1. Stage(t, Idle)
    BY IdleFields DEF Stage, Steps
  <2>2. Stage(t, session[t])'
    BY <1>1, <2>1 DEF Stage
  <2>3. /\ Linking(t, session[t])' /\ Deriving(session[t])'
        /\ FeedRead(session[t])' /\ MitreRead(session[t])'
    BY <1>1, IdleFields DEF Linking, Deriving, FeedRead, MitreRead, Mentions
  <2>4. session'[t].fetched <= feed'.seq
    BY <1>1, IdleFields DEF IInv, Shape
  <2> QED
    BY <1>2, <2>2, <2>3, <2>4 DEF Sound
<1>3. CASE u # t
  <2>1. /\ n.pc = o.pc /\ n.article = o.article /\ n.fetched = o.fetched
        /\ n.version = o.version /\ n.read = o.read /\ n.doc = o.doc
        /\ n.links = o.links /\ n.exploits = o.exploits
        /\ n.derived = o.derived /\ n.touched = o.touched
        /\ n.overlapped = (o.overlapped \/ o.pc = "commit")
    BY <1>3, CommitEffect
  <2>2. Sound(u, o) /\ o \in Sessions
    BY DEF IInv, Shape, AllSound
  <2>3. /\ db.doc # None => db'.doc # None
        /\ t # "feed" => /\ db'.doc = None <=> db.doc = None
                         /\ db.doc # None => db'.doc.article = db.doc.article
    <3>1. /\ s.doc = None => db'.doc = db.doc
          /\ s.doc # None => db'.doc # None
          /\ t = "mitre" /\ s.doc # None =>
               db.doc # None /\ db'.doc.article = db.doc.article
      BY <1>1, WrittenDocFacts
    <3>2. s.doc # None => t \in {"feed", "mitre"}
      BY <1>1 DEF Sound, Stage
    <3> HIDE DEF s
    <3> QED
      BY <3>1, <3>2
  <2>4. db.links \subseteq db'.links /\ db.exploits \subseteq db'.exploits
    BY <1>1
  <2>5. t # "feed" => db'.links \cap Mentions = db.links \cap Mentions
    BY <1>1 DEF Sound, Linking
  <2> HIDE DEF s, o, n
  <2>6. Stage(u, n)
    BY <2>1, <2>2 DEF Sound, Stage
  <2>7. Stage(u, session[u])'
    BY <2>6 DEF Stage, n
  <2>8. u = "feed" => FeedRead(session[u])'
    <3> SUFFICES ASSUME u = "feed", n.pc \in {"recompute", "commit"}
                 PROVE  /\ n.read = None <=> db'.doc = None
                        /\ n.read # None => n.read.article = db'.doc.article
      BY DEF FeedRead, n
    <3> QED
      BY <1>3, <2>1, <2>2, <2>3 DEF Sound, FeedRead
  <2>9. u = "mitre" => MitreRead(session[u])'
    <3> SUFFICES ASSUME u = "mitre", n.pc \in {"recompute", "commit"}
                 PROVE  /\ n.read # None => db'.doc # None
                        /\ n.doc = None => n.read = None \/ n.read.version = db'.attack
                        /\ n.doc # None => /\ n.read # None /\ n.read.version # db'.attack
                                           /\ n.doc.version = db'.attack
                                           /\ n.doc.article = n.read.article
      BY DEF MitreRead, n
    <3> QED
      BY <1>1, <2>1, <2>2, <2>3 DEF Sound, MitreRead
  <2>10. Linking(u, session[u])'
    <3> SUFFICES /\ u # "feed" => n.links \cap Mentions = {}
                 /\ n.links \cap Mentions # {} => db'.links \cap Mentions = {}
                 /\ ~(Mentions \subseteq n.links)
                 /\ n.doc # None =>
                      /\ n.doc.article.excerpt \cap Known[n.doc.version]
                           \subseteq db'.links \cup n.links
                      /\ Speaks(n.doc.article) => Mentions \cap (db'.links \cup n.links) # {}
      BY DEF Linking, n
    <3> QED
      BY <1>3, <2>1, <2>2, <2>4, <2>5 DEF Sound, Linking
  <2>11. Deriving(session[u])'
    <3> SUFFICES ASSUME n.pc = "commit"
                 PROVE  /\ n.overlapped
                        /\ n.derived.score <=
                             Derive(db'.links \cup n.links, db'.exploits \cup n.exploits).score
      BY DEF Deriving, n
    <3> DEFINE L == db.links \cup o.links
               E == db.exploits \cup o.exploits
               M == db'.links \cup o.links
               F == db'.exploits \cup o.exploits
    <3>1. /\ L \in SUBSET Edges /\ M \in SUBSET Edges /\ L \subseteq M
          /\ E \in SUBSET Exploits /\ F \in SUBSET Exploits /\ E \subseteq F
      BY <1>1, <2>2, <2>4 DEF Databases, Sessions
    <3>2. o.derived.score <= Derive(L, E).score
      BY <2>1, <2>2 DEF Sound, Deriving
    <3>3. o.derived \in Evidence
      BY <2>2 DEF Sessions
    <3> HIDE DEF L, E, M, F
    <3>4. Derive(L, E) \in Evidence /\ Derive(M, F) \in Evidence
      BY <3>1, DeriveType
    <3>5. Derive(L, E).score <= Derive(M, F).score
      BY <3>1, DeriveRises
    <3>6. /\ o.derived.score \in Nat /\ Derive(L, E).score \in Nat
          /\ Derive(M, F).score \in Nat
      BY <3>3, <3>4, EvidenceScore
    <3>7. n.derived.score <= Derive(M, F).score
      BY <2>1, <3>2, <3>5, <3>6
    <3> QED
      BY <2>1, <3>7 DEF M, F
  <2>12. n.fetched <= feed'.seq
    BY <1>1, <2>1, <2>2 DEF Sound
  <2> QED
    BY <2>7, <2>8, <2>9, <2>10, <2>11, <2>12 DEF Sound, n
<1> QED
  BY <1>2, <1>3

\* A commit.
LEMMA CommitKeeps ==
  ASSUME DocumentsAssumption, IInv, NEW t \in Threads, Commit(t)
  PROVE  IInv'
<1> DEFINE s == session[t]
           d == WrittenDoc(s)
<1>1. /\ s.pc = "commit" /\ s \in Sessions /\ Sound(t, s) /\ db \in Databases
      /\ db' \in Databases /\ db'.attack = db.attack /\ db'.fetched <= feed.seq
      /\ db'.links = db.links \cup s.links /\ db'.exploits = db.exploits \cup s.exploits
      /\ db'.doc = d
      /\ db'.derived = Written(db.derived, s.loaded, s.derived)
      /\ excuses' = Explained(t, d)
      /\ session' \in [Threads -> Sessions] /\ session'[t] = Idle
      /\ UNCHANGED <<feed, published, dict, dictLock, elsewhere>>
  BY CommitEffect DEF IInv, Shape
<1>2. \A u \in Threads : u # t =>
        /\ session'[u].pc = session[u].pc /\ session'[u].version = session[u].version
        /\ session'[u].doc = session[u].doc
  BY CommitEffect
<1>3. "feed" \in Threads /\ "mitre" \in Threads /\ None \notin Threads
  BY DEF Threads, DocumentsAssumption
<1>4. /\ s.doc = None => d = db.doc
      /\ s.doc # None => d # None
      /\ s.doc # None /\ s.read = db.doc => d = s.doc
      /\ t = "feed" /\ s.doc # None => d.article = s.doc.article
      /\ t = "mitre" /\ s.doc # None =>
           db.doc # None /\ d.article = db.doc.article /\ d.version = db.attack
  BY <1>1, WrittenDocFacts
<1> DEFINE gone == (IF s.touched /\ ~s.overlapped THEN {"overlap", "unnamed"} ELSE {})
                   \cup (IF s.doc # None THEN {"marks"} ELSE {})
                   \cup (IF t = "mitre" /\ s.read = db.doc THEN {"held", "relink"} ELSE {})
           new == (IF s.overlapped THEN {"overlap"} ELSE {})
                  \cup (IF s.links # {} /\ ~s.touched THEN {"unnamed"} ELSE {})
                  \cup (IF s.doc # None /\ s.read # db.doc THEN {"marks"} ELSE {})
                  \cup (IF t = "feed" /\ s.doc # None /\ d.version # db.attack
                           THEN {"held"} ELSE {})
<1>5. excuses' = (excuses \ gone) \cup new
  BY <1>1 DEF Explained
<1>6. s.doc # None => t \in {"feed", "mitre"}
  BY <1>1 DEF Sound, Stage
<1>7. Shape'
  <2>1. excuses' \in SUBSET Excuses
    BY <1>5 DEF IInv, Shape, Excuses
  <2> QED
    BY <1>1, <2>1 DEF IInv, Shape
<1>8. Served'
  BY <1>1 DEF IInv, Served
<1>9. AllSound'
  BY CommitKeepsSound DEF AllSound
<1> HIDE DEF s, d
<1>10. InOrder'
  <2>1. session'[t].pc = "idle" /\ session[t].pc = "commit"
    BY <1>1, IdleFields DEF s
  <2> QED
    BY <1>1, <1>2, <1>3, <2>1, OrderKept DEF IInv
<1>11. Linked'
  <2>1. ~(Mentions \subseteq db'.links)
    BY <1>1 DEF IInv, Linked, Sound, Linking
  <2>2. ASSUME d # None, Speaks(d.article)
        PROVE  Mentions \cap db'.links # {}
    <3>1. CASE s.doc = None \/ t = "mitre"
      BY <1>1, <1>4, <2>2, <3>1 DEF IInv, Linked
    <3>2. CASE s.doc # None /\ t = "feed"
      BY <1>1, <1>4, <2>2, <3>2 DEF Sound, Linking
    <3> QED
      BY <1>6, <3>1, <3>2
  <2> QED
    BY <1>1, <2>1, <2>2 DEF Linked
<1>12. MarkedMeansLinked'
  <2> SUFFICES ASSUME d # None, "marks" \notin excuses'
               PROVE  /\ d.article.excerpt \cap Known[d.version] \subseteq db'.links
                      /\ d.article.cve = "excerpt" => Mentions \cap db'.links # {}
    BY <1>1 DEF MarkedMeansLinked
  <2>1. d.article.cve = "excerpt" => Mentions \cap db'.links # {}
    BY <1>1, <1>11 DEF Linked, Speaks
  <2>2. CASE s.doc = None
    <3>1. "marks" \notin excuses
      BY <1>5, <2>2
    <3> QED
      BY <1>1, <1>4, <2>1, <2>2, <3>1 DEF IInv, MarkedMeansLinked
  <2>3. CASE s.doc # None
    <3>1. s.read = db.doc
      BY <1>5, <2>3
    <3> QED
      BY <1>1, <1>4, <2>1, <2>3, <3>1 DEF Sound, Linking
  <2> QED
    BY <2>2, <2>3
<1>13. /\ db.links \in SUBSET Edges /\ db.exploits \in SUBSET Exploits
       /\ db'.links \in SUBSET Edges /\ db'.exploits \in SUBSET Exploits
       /\ db.links \subseteq db'.links /\ db.exploits \subseteq db'.exploits
       /\ db.derived \in Evidence /\ s.loaded \in Evidence /\ s.derived \in Evidence
  BY <1>1 DEF Databases, Sessions
<1>14. /\ db'.derived.score \in {db.derived.score, s.derived.score}
       /\ s.loaded = db.derived => db'.derived = s.derived
  BY <1>1, <1>13, WrittenEvidence
<1>15. Backed'
  <2>1. /\ Derive(db.links, db.exploits) \in Evidence
        /\ Derive(db'.links, db'.exploits) \in Evidence
    BY <1>13, DeriveType
  <2>2. Derive(db.links, db.exploits).score <= Derive(db'.links, db'.exploits).score
    BY <1>13, DeriveRises
  <2>3. /\ db.derived.score <= Derive(db.links, db.exploits).score
        /\ s.derived.score <= Derive(db'.links, db'.exploits).score
    BY <1>1 DEF IInv, Backed, Sound, Deriving
  <2>4. /\ Derive(db.links, db.exploits).score \in Nat
        /\ Derive(db'.links, db'.exploits).score \in Nat
        /\ db.derived.score \in Nat /\ s.derived.score \in Nat
    BY <1>13, <2>1, EvidenceScore
  <2>5. db'.derived.score <= Derive(db'.links, db'.exploits).score
    BY <1>14, <2>2, <2>3, <2>4
  <2> QED
    BY <2>5 DEF Backed
<1>16. DerivedExplained'
  <2>1. CASE s.overlapped
    BY <1>5, <2>1 DEF DerivedExplained
  <2>2. CASE ~s.overlapped /\ s.touched
    <3>1. db'.derived = Derive(db'.links, db'.exploits)
      BY <1>1, <1>14, <2>2 DEF Sound, Deriving
    <3> QED
      BY <3>1 DEF DerivedExplained, UpToDate
  <2>3. CASE ~s.overlapped /\ ~s.touched
    <3>1. s.exploits = {} /\ s.derived = s.loaded /\ s.loaded = db.derived
      BY <1>1, <2>3 DEF Sound, Stage, Deriving
    <3>2. CASE s.links # {}
      BY <1>5, <2>3, <3>2 DEF DerivedExplained
    <3>3. CASE s.links = {}
      <4>1. /\ db'.derived = db.derived /\ db'.links = db.links
            /\ db'.exploits = db.exploits
        BY <1>1, <1>14, <3>1, <3>3
      <4>2. excuses \cap {"overlap", "unnamed"} \subseteq excuses'
        BY <1>5, <2>3
      <4> QED
        BY <4>1, <4>2 DEF IInv, DerivedExplained, UpToDate
    <3> QED
      BY <3>2, <3>3
  <2> QED
    BY <2>1, <2>2, <2>3
<1>17. Marked'
  <2> SUFFICES ASSUME d # None, d.version # db.attack
               PROVE  \/ excuses' \cap {"held", "relink"} # {}
                      \/ Relinking(session["mitre"])'
    BY <1>1 DEF Marked
  <2>1. CASE t = "mitre"
    <3>1. s.doc = None /\ d = db.doc /\ db.doc # None
      BY <1>4, <2>1
    <3>2. s.read # db.doc
      BY <1>1, <2>1, <3>1 DEF Sound, MitreRead
    <3>3. ~Relinking(session["mitre"])
      BY <1>1, <2>1, <3>1 DEF Relinking, s
    <3>4. excuses \cap {"held", "relink"} # {}
      BY <3>1, <3>3 DEF IInv, Marked
    <3> QED
      BY <1>5, <3>1, <3>2, <3>4
  <2>2. CASE t # "mitre"
    <3>1. Relinking(session["mitre"])' <=> Relinking(session["mitre"])
      BY <1>2, <1>3, <2>2 DEF Relinking
    <3>2. CASE s.doc = None
      <4>1. excuses \cap {"held", "relink"} \subseteq excuses'
        BY <1>5, <2>2
      <4> QED
        BY <1>4, <3>1, <3>2, <4>1 DEF IInv, Marked
    <3>3. CASE s.doc # None
      BY <1>5, <1>6, <2>2, <3>3
    <3> QED
      BY <3>2, <3>3
  <2> QED
    BY <2>1, <2>2
<1> QED
  BY <1>7, <1>8, <1>9, <1>10, <1>11, <1>12, <1>15, <1>16, <1>17 DEF IInv

\* A step that changes nothing.
LEMMA StutterKeeps ==
  ASSUME DocumentsAssumption, IInv, UNCHANGED vars
  PROVE  IInv'
<1>1. UNCHANGED <<feed, published, db, dict, dictLock, session, elsewhere, excuses>>
  BY DEF vars
<1>2. Shape' /\ InOrder' /\ Marked'
  BY <1>1 DEF IInv, Shape, InOrder, Marked, Own, Relinking
<1>3. session' \in [Threads -> Sessions]
  BY <1>1 DEF IInv, Shape
<1> QED
  BY <1>1, <1>2, <1>3, Frame DEF IInv

\* The invariant is kept by every step.
LEMMA NextKeeps ==
  ASSUME DocumentsAssumption, IInv, [Next]_vars
  PROVE  IInv'
<1>1. CASE \E t \in Threads : Commit(t) \/ Fail(t)
  BY <1>1, CommitKeeps, FailKeeps
<1>2. CASE RecomputeTouched("feed") \/ RecomputeTouched("mitre")
  BY <1>2, RecomputeTouchedKeeps
<1>3. CASE \/ UseDictionary("feed", "entries") \/ ReadNames("feed")
           \/ KeepDictionary("feed", "entries")
  <2>1. "feed" \in Threads /\ "entries" \in Pcs
    BY DEF Threads, Pcs
  <2> QED
    BY <1>3, <2>1, UseDictionaryKeeps, ReadNamesKeeps, KeepDictionaryKeeps
<1>4. CASE ReadNames("mitre") \/ KeepDictionary("mitre", "relink")
  <2>1. "mitre" \in Threads /\ "relink" \in Pcs
    BY DEF Threads, Pcs
  <2> QED
    BY <1>4, <2>1, ReadNamesKeeps, KeepDictionaryKeeps
<1>5. CASE \E a \in Articles : PublishFeed(a)
  BY <1>5, PublishFeedKeeps
<1>6. CASE StartFeed \/ ReadArticle
  BY <1>6, StartFeedKeeps, ReadArticleKeeps
<1>7. CASE PublishAttack \/ StartMitre \/ ImportBundle \/ Relink
  BY <1>7, PublishAttackKeeps, StartMitreKeeps, ImportBundleKeeps, RelinkKeeps
<1>8. CASE Maintain \/ \E e \in Exploits : FindExploit(e)
  BY <1>8, DirectStepsKeep
<1>9. CASE Restart
  BY <1>9, RestartKeeps
<1>10. CASE UNCHANGED vars
  BY <1>10, StutterKeeps
<1> QED
  BY <1>1, <1>2, <1>3, <1>4, <1>5, <1>6, <1>7, <1>8, <1>9, <1>10 DEF Next

\* It holds in every state.
LEMMA IInvInductive ==
  Spec => []IInv
<1>1. Init => IInv
  BY InitIInv, DocumentsAssumption
<1>2. IInv /\ [Next]_vars => IInv'
  BY NextKeeps, DocumentsAssumption
<1> QED
  BY <1>1, <1>2, PTL DEF Spec

------------------------------------------------------------------------------
(* What follows                                                             *)

\* Every variable has a value of its kind, an article is linked to the CVE once, and
\* the lock on the dictionary is held by a thread that builds it.
THEOREM TypeCorrect ==
  Spec => []TypeOK
<1>1. IInv => TypeOK
  <2> SUFFICES ASSUME IInv
               PROVE  TypeOK
    OBVIOUS
  <2>1. /\ feed.seq \in 0 .. MaxFeeds /\ db \in Databases
        /\ dict \in Versions \cup {None}
    BY DEF IInv, Shape
  <2>2. /\ db.fetched \in 0 .. MaxFeeds /\ db.fetched <= feed.seq
        /\ db.attack \in Versions /\ db.links \subseteq Edges
        /\ db.doc \in Docs \cup {None} /\ db.derived.score \in 0 .. 100
    BY <2>1 DEF IInv, Served, Databases, Evidence
  <2>3. db.fetched \in 0 .. feed.seq
    BY <2>1, <2>2, DocumentsAssumption DEF DocumentsAssumption
  <2>4. ~(Mentions \subseteq db.links)
    BY DEF IInv, Linked
  <2>5. dictLock # None => session[dictLock].pc = "build"
    BY DEF IInv, InOrder
  <2> QED
    BY <2>1, <2>2, <2>3, <2>4, <2>5 DEF TypeOK
<1> QED
  BY <1>1, IInvInductive, PTL

\* An article that is marked with a version of the dictionary is linked to what that
\* version knows of its excerpt, unless a feed run and a relink read it together.
THEOREM MarksMeanLinks ==
  Spec => []MarkedMeansLinked
<1>1. IInv => MarkedMeansLinked
  BY DEF IInv
<1> QED
  BY <1>1, IInvInductive, PTL

\* An older mark outlives a run of MITRE's only if the relinking was cut short, or a
\* feed run held an older dictionary.
THEOREM OldMarksHaveCauses ==
  Spec => []OldMarksExplained
<1>1. IInv => OldMarksExplained
  BY DEF IInv, Marked, Relinking, OldMarksExplained
<1> QED
  BY <1>1, IInvInductive, PTL

\* The derived fields are those of the links, but for overlaps and for names that were
\* found where the CVE is not named.
THEOREM DerivedFollowsLinks ==
  Spec => []DerivedExplained
<1>1. IInv => DerivedExplained
  BY DEF IInv
<1> QED
  BY <1>1, IInvInductive, PTL

\* No thread puts an older dictionary in the place of a newer one.
THEOREM DictionaryStaysNew ==
  Spec => DictionaryNeverGoesBack
<1>1. IInv /\ [Next]_vars => [dict # None /\ dict' # None => dict' >= dict]_vars
  <2> SUFFICES ASSUME IInv, Next, dict # None, dict' # None
               PROVE  dict' >= dict
    OBVIOUS
  <2>1. dict \in Nat /\ dict <= db.attack
    BY VersionsNumbered, DocumentsAssumption DEF IInv, Shape, InOrder
  <2>2. CASE dict' = dict
    BY <2>1, <2>2
  <2>3. CASE KeepDictionary("feed", "entries")
    <3>1. "feed" \in Threads /\ session["feed"].pc = "build"
      BY <2>3 DEF Threads, KeepDictionary
    <3>2. dict = None
      BY <3>1 DEF IInv, InOrder
    <3> QED
      BY <3>2
  <2>4. CASE KeepDictionary("mitre", "relink")
    <3>1. session["mitre"].pc = "build"
      BY <2>4 DEF KeepDictionary
    <3>2. session["mitre"].version = db.attack
      BY <3>1 DEF IInv, InOrder
    <3>3. db.attack \in Nat
      BY VersionsNumbered, DocumentsAssumption DEF IInv, Shape, Databases
    <3>4. dict' \in {dict, db.attack}
      BY <2>4, <3>2 DEF KeepDictionary
    <3> QED
      BY <2>1, <3>3, <3>4
  <2>5. CASE Restart
    BY <2>5 DEF Restart
  <2> QED
    BY <2>2, <2>3, <2>4, <2>5
       DEF Next, Commit, Fail, RecomputeTouched, UseDictionary, ReadNames, PublishFeed,
           StartFeed, ReadArticle, PublishAttack, StartMitre, ImportBundle, Relink,
           FindExploit, Maintain
<1> QED
  BY <1>1, IInvInductive, PTL DEF Spec, DictionaryNeverGoesBack

\* A score falls only where a session commits what it derived before another one did.
THEOREM ScoresFallByRace ==
  Spec => ScoreOnlyFallsByRace
<1>1. IInv /\ [Next]_vars =>
        [db'.derived.score >= db.derived.score
           \/ \E t \in Threads : session[t].overlapped /\ session'[t].pc = "idle"]_vars
  <2> SUFFICES ASSUME IInv, Next
               PROVE  \/ db'.derived.score >= db.derived.score
                      \/ \E t \in Threads : session[t].overlapped /\ session'[t].pc = "idle"
    OBVIOUS
  <2>1. db \in Databases /\ db.derived \in Evidence /\ db.derived.score \in Nat
    BY EvidenceScore DEF IInv, Shape, Databases
  <2>2. CASE db' = db
    BY <2>1, <2>2
  <2>3. CASE ImportBundle
    <3>1. db'.derived = db.derived
      BY <2>1, <2>3 DEF ImportBundle, Databases
    <3> QED
      BY <2>1, <3>1
  <2>4. ASSUME NEW t \in Threads, Commit(t)
        PROVE  \/ db'.derived.score >= db.derived.score
               \/ session[t].overlapped /\ session'[t].pc = "idle"
    <3> DEFINE s == session[t]
               L == db.links \cup s.links
               E == db.exploits \cup s.exploits
    <3>1. /\ s.pc = "commit" /\ s \in Sessions /\ Sound(t, s)
          /\ db'.derived = Written(db.derived, s.loaded, s.derived)
          /\ session'[t] = Idle
      BY <2>4, CommitEffect, DocumentsAssumption
    <3>2. CASE s.overlapped
      BY <3>1, <3>2, IdleFields, DocumentsAssumption
    <3>3. CASE ~s.overlapped
      <4>1. /\ db.links \in SUBSET Edges /\ db.exploits \in SUBSET Exploits
            /\ L \in SUBSET Edges /\ E \in SUBSET Exploits
            /\ s.loaded \in Evidence /\ s.derived \in Evidence
        BY <2>1, <3>1 DEF Databases, Sessions
      <4>2. /\ s.loaded = db.derived
            /\ s.touched => s.derived = Derive(L, E)
            /\ ~s.touched => s.derived = s.loaded
        BY <3>1, <3>3 DEF Sound, Deriving
      <4>3. db'.derived = s.derived
        BY <2>1, <3>1, <4>1, <4>2, WrittenEvidence
      <4>4. /\ Derive(db.links, db.exploits) \in Evidence /\ Derive(L, E) \in Evidence
            /\ Derive(db.links, db.exploits).score <= Derive(L, E).score
        <5>1. db.links \subseteq L /\ db.exploits \subseteq E
          OBVIOUS
        <5> HIDE DEF L, E
        <5> QED
          BY <4>1, <5>1, DeriveType, DeriveRises, DocumentsAssumption
      <4>5. /\ Derive(db.links, db.exploits).score \in Nat /\ Derive(L, E).score \in Nat
        BY <4>4, EvidenceScore
      <4>6. db.derived.score <= Derive(db.links, db.exploits).score
        BY DEF IInv, Backed
      <4> HIDE DEF L, E, s
      <4>7. CASE s.touched
        BY <2>1, <4>2, <4>3, <4>4, <4>5, <4>6, <4>7
      <4>8. CASE ~s.touched
        BY <2>1, <4>2, <4>3, <4>8
      <4> QED
        BY <4>7, <4>8
    <3> QED
      BY <3>2, <3>3
  <2>5. CASE \E t \in Threads : Commit(t)
    BY <2>4, <2>5
  <2> QED
    BY <2>2, <2>3, <2>5
       DEF Next, Fail, RecomputeTouched, UseDictionary, ReadNames, KeepDictionary,
           PublishFeed, StartFeed, ReadArticle, PublishAttack, StartMitre, Relink,
           FindExploit, Maintain, Restart
<1> QED
  BY <1>1, IInvInductive, PTL DEF Spec, ScoreOnlyFallsByRace
=============================================================================
