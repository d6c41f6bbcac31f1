----------------------------- MODULE Advisories -----------------------------
(***************************************************************************)
(* One CVE as CISA KEV and NVD describe it, the rows the database makes of  *)
(* it (services/normalize.py and the upserts of services/correlation.py),    *)
(* and the verdicts stored about the owner's assets (services/rampart).      *)
(* Every action is a whole transaction; Rampart.tla interleaves them.        *)
(*                                                                         *)
(* Texts, titles and scores are members of small sets, Nothing where a      *)
(* source says nothing.  See Matching for names, versions and CPEs.         *)
(***************************************************************************)
EXTENDS Matching, FiniteSets

CONSTANTS
    Assets,       \* the inventory: records [vendor, product, version]
    KevEntries,   \* what CISA may publish of the CVE
    NvdRecords,   \* what NVD may publish of it
    Nothing,      \* None and the empty string
    MaxChanges    \* how often each of the two publishes

Names == [words : Seq(STRING), underscored : BOOLEAN]
Versions == Seq(Nat \cup Unreadable)
Terms == Seq([op : STRING, version : Versions])
CpeMatches == [vulnerable : BOOLEAN, vendor : Names, product : Names,
               version : Versions, bounds : Terms]
Listings == [vendor : Names, product : Names, versions : Terms]
Rows == [vendor : Names, product : Names, cpe : Seq(Versions), versions : Terms]

ASSUME AdvisoriesAssumption ==
    /\ MaxChanges \in Nat
    /\ NoRow \notin {"affected", "possibly_affected", "not_affected"}
    /\ Assets \subseteq [vendor : Names, product : Names, version : Versions]
    /\ Nothing \notin KevEntries \cup NvdRecords
    /\ \A e \in KevEntries : e.vendor \in Names /\ e.product \in Names
    /\ \A r \in NvdRecords :
         /\ r.matches \in Seq(CpeMatches) /\ r.affected \in Seq(Listings)
         /\ \A seq \in 1 .. MaxChanges : Nothing # <<seq, r.score>>

VARIABLES
    kev, nvd,     \* what is published: [seq, data], data Nothing if not there
    applied,      \* what was last stored, by source
    cache,        \* nvd_cache: the answer NVD gave last, if any
    vuln,         \* the row of vulnerabilities
    products,     \* affected_products
    refs,         \* source_references
    verdict,      \* environment_matches, by asset
    unseen        \* history: assets whose verdict has not seen every row

vars == <<kev, nvd, applied, cache, vuln, products, refs, verdict, unseen>>
stored == <<vuln, products, refs>>

(***************************************************************************)
(* parse_nvd_cve                                                            *)
(***************************************************************************)
\* The places of its vulnerable CPE matches.
Vulnerable(record) == {i \in 1 .. Len(record.matches) : record.matches[i].vulnerable}

MatchKey(m) == <<m.vendor, m.product, <<m.version>>>>

Row(key, versions) ==
    [vendor |-> key[1], product |-> key[2], cpe |-> key[3], versions |-> versions]

\* Each criteria once: what is read last is what stays.
ConfiguredRows(record) ==
    LET ms == record.matches
    IN  {Row(MatchKey(ms[i]), ms[i].bounds) :
            i \in {k \in Vulnerable(record) :
                     \A j \in Vulnerable(record) :
                        j > k => MatchKey(ms[j]) # MatchKey(ms[k])}}

\* In a list of versions a comma stays on every one but the last, where the
\* bounds are read back as far as the next space.
Joined(terms) ==
    [i \in 1 .. Len(terms) |->
       IF i = Len(terms) THEN terms[i]
       ELSE [terms[i] EXCEPT !.version = [@ EXCEPT ![Len(@)] = Comma]]]

\* What the CNA lists, without a CPE: what is read first stays.
ListedRows(record) ==
    LET as == record.affected
    IN  {Row(<<as[i].vendor, as[i].product, NoCpe>>, Joined(as[i].versions)) :
            i \in {k \in 1 .. Len(as) :
                     \A j \in 1 .. k - 1 :
                        <<as[j].vendor, as[j].product>> # <<as[k].vendor, as[k].product>>}}

ParsedRows(record) == ConfiguredRows(record) \cup ListedRows(record)

First(record, field) ==
    IF Vulnerable(record) # {}
      THEN record.matches[CHOOSE i \in Vulnerable(record) :
                            \A j \in Vulnerable(record) : i <= j][field]
    ELSE IF record.affected # <<>> THEN record.affected[1][field]
    ELSE NoName

(***************************************************************************)
(* The upserts.  db is [vuln, products, refs].                              *)
(***************************************************************************)
NewVuln ==
    [known |-> TRUE, inKev |-> FALSE, kevFields |-> Nothing, title |-> Nothing,
     text |-> Nothing, cwes |-> Nothing, vendor |-> NoName, product |-> NoName,
     nvdFields |-> Nothing]

Unknown == [NewVuln EXCEPT !.known = FALSE]

Current(db) == IF db.vuln.known THEN db.vuln ELSE NewVuln

Or(old, new, none) == IF old = none THEN new ELSE old

\* Mutant: without looking for the row.
EnsureProductsAgain(rows, new) == rows \cup new

\* _ensure_product: a row that is there is left as it is.
EnsureProducts(rows, new) ==
    rows \cup {r \in new : ~\E old \in rows :
                 <<old.vendor, old.product, old.cpe>> = <<r.vendor, r.product, r.cpe>>}

\* add_reference: the first source of a URL keeps it.
AddReferences(old, new) == old \cup {r \in new : ~\E o \in old : o.url = r.url}

\* Mutant: KEV's text replaces NVD's.
ApplyKevOverText(db, entry) ==
    [vuln |-> [Current(db) EXCEPT !.inKev = TRUE, !.kevFields = entry.fields,
                 !.title = Or(@, entry.title, Nothing), !.text = entry.text,
                 !.vendor = Or(@, entry.vendor, NoName),
                 !.product = Or(@, entry.product, NoName)],
     products |-> EnsureProducts(db.products,
                    {Row(<<entry.vendor, entry.product, NoCpe>>, <<>>)}),
     refs |-> AddReferences(db.refs,
                {[url |-> u, by |-> "cisa_kev"] : u \in {"kev"} \cup entry.urls})]

ApplyKev(db, entry) ==
    LET v == Current(db)
    IN  [vuln |->
           [v EXCEPT !.inKev = TRUE, !.kevFields = entry.fields,
                     !.title = Or(@, entry.title, Nothing),
                     !.text = Or(@, entry.text, Nothing),
                     !.cwes = Or(@, entry.cwes, Nothing),
                     !.vendor = Or(@, entry.vendor, NoName),
                     !.product = Or(@, entry.product, NoName)],
         products |->
           IF entry.vendor = NoName /\ entry.product = NoName THEN db.products
           ELSE EnsureProducts(db.products,
                  {Row(<<entry.vendor, entry.product, NoCpe>>, <<>>)}),
         refs |-> AddReferences(db.refs,
                    {[url |-> u, by |-> "cisa_kev"] : u \in {"kev"} \cup entry.urls})]

ApplyNvd(db, record, stamp) ==
    LET v == Current(db)
    IN  [vuln |->
           [v EXCEPT !.nvdFields = <<stamp, record.score>>,
                     !.text = Or(record.text, @, Nothing),
                     !.cwes = Or(record.cwes, @, Nothing),
                     !.vendor = Or(@, First(record, "vendor"), NoName),
                     !.product = Or(@, First(record, "product"), NoName),
                     !.title = Or(@, record.text, Nothing)],
         products |-> EnsureProducts(db.products, ParsedRows(record)),
         refs |-> AddReferences(AddReferences(db.refs,
                      {[url |-> "nvd", by |-> "nvd"], [url |-> "cve_org", by |-> "cve_org"]}),
                    {[url |-> u, by |-> "nvd"] : u \in record.urls})]

(***************************************************************************)
(* Rampart                                                                 *)
(***************************************************************************)
\* recompute_cve looks at every asset, recompute_asset at the CVEs its
\* prefilter lets through.
FromCve(a, db) == MatchAsset(a, db.products, db.vuln)

FromAsset(a, db) ==
    IF Candidate(a, db.products, db.vuln) THEN MatchAsset(a, db.products, db.vuln)
    ELSE NoRow

Db == [vuln |-> vuln, products |-> products, refs |-> refs]

Store(db, recompute) ==
    /\ vuln' = db.vuln
    /\ products' = db.products
    /\ refs' = db.refs
    /\ verdict' = IF recompute THEN [a \in Assets |-> FromCve(a, db)] ELSE verdict

(***************************************************************************)
(* Actions                                                                 *)
(***************************************************************************)
PublishKev(entry) ==
    /\ kev.seq < MaxChanges
    /\ kev' = [seq |-> kev.seq + 1, data |-> entry]
    /\ UNCHANGED <<nvd, applied, cache, stored, verdict, unseen>>

PublishNvd(record) ==
    /\ nvd.seq < MaxChanges
    /\ nvd' = [seq |-> nvd.seq + 1, data |-> record]
    /\ UNCHANGED <<kev, applied, cache, stored, verdict, unseen>>

\* CisaKevWorker: only a CVE that was created or changed is recomputed, and a
\* new product alone is no change.
SyncKev ==
    /\ kev.data # Nothing
    /\ LET db == ApplyKev(Db, kev.data)
       IN  /\ Store(db, db.vuln # vuln)
           /\ unseen' = IF db.vuln # vuln THEN {}
                        ELSE IF db.products # products THEN Assets ELSE unseen
    /\ applied' = [applied EXCEPT !.kev = kev]
    /\ UNCHANGED <<kev, nvd, cache>>

\* Mutants: the page does not renew nvd_cache; only a new CVE is recomputed.
SyncNvdBesideCache ==
    /\ nvd.data # Nothing
    /\ vuln.known \/ nvd.data.recent
    /\ Store(ApplyNvd(Db, nvd.data, nvd.seq), TRUE)
    /\ unseen' = {}
    /\ applied' = [applied EXCEPT !.nvd = nvd]
    /\ UNCHANGED <<kev, nvd, cache>>

SyncNvdIfNew ==
    /\ nvd.data # Nothing
    /\ vuln.known \/ nvd.data.recent
    /\ Store(ApplyNvd(Db, nvd.data, nvd.seq), ~vuln.known)
    /\ unseen' = IF vuln.known THEN unseen ELSE {}
    /\ applied' = [applied EXCEPT !.nvd = nvd]
    /\ cache' = {nvd}
    /\ UNCHANGED <<kev, nvd>>

\* NvdWorker's window: a CVE that is not known is taken up if it is recent.
SyncNvd ==
    /\ nvd.data # Nothing
    /\ vuln.known \/ nvd.data.recent
    /\ LET db == ApplyNvd(Db, nvd.data, nvd.seq)
       IN  /\ Store(db, db.vuln # vuln)
           /\ unseen' = IF db.vuln # vuln THEN {} ELSE unseen
    /\ applied' = [applied EXCEPT !.nvd = nvd]
    /\ cache' = {nvd}
    /\ UNCHANGED <<kev, nvd>>

\* NvdWorker's enrichment and the API's lookup of a CVE it does not know:
\* fetch_cve answers from the cache while that is fresh, and what it answers
\* is applied and recomputed whatever it changes.
Enrich(answer) ==
    /\ cache' = {answer}
    /\ IF answer.data = Nothing
         THEN UNCHANGED <<applied, stored, verdict, unseen>>
         ELSE /\ Store(ApplyNvd(Db, answer.data, answer.seq), TRUE)
              /\ unseen' = {}
              /\ applied' = [applied EXCEPT !.nvd = answer]
    /\ UNCHANGED <<kev, nvd>>

\* Maintenance, or another source that touches the CVE.
Recompute ==
    /\ vuln.known
    /\ Store(Db, TRUE)
    /\ unseen' = {}
    /\ UNCHANGED <<kev, nvd, applied, cache>>

\* The owner saves an asset: recompute_asset.
SaveAsset(a) ==
    /\ verdict' = [verdict EXCEPT ![a] = FromAsset(a, Db)]
    /\ unseen' = unseen \ {a}
    /\ UNCHANGED <<kev, nvd, applied, cache, stored>>

Init ==
    /\ kev = [seq |-> 0, data |-> Nothing]
    /\ nvd = [seq |-> 0, data |-> Nothing]
    /\ applied = [kev |-> kev, nvd |-> nvd]
    /\ cache = {}
    /\ vuln = Unknown
    /\ products = {}
    /\ refs = {}
    /\ verdict = [a \in Assets |-> NoRow]
    /\ unseen = {}

Next ==
    \/ \E e \in KevEntries : PublishKev(e)
    \/ \E r \in NvdRecords : PublishNvd(r)
    \/ SyncKev
    \/ SyncNvd
    \/ \E answer \in cache \cup {nvd} : Enrich(answer)
    \/ Recompute
    \/ \E a \in Assets : SaveAsset(a)

Spec == Init /\ [][Next]_vars

(***************************************************************************)
(* Properties                                                              *)
(***************************************************************************)
\* The rows have the shape the tables give them, and the unique keys of
\* affected_products and source_references (models.py) hold.
TypeOK ==
    /\ kev.seq \in 0 .. MaxChanges /\ kev.data \in KevEntries \cup {Nothing}
    /\ nvd.seq \in 0 .. MaxChanges /\ nvd.data \in NvdRecords \cup {Nothing}
    /\ Cardinality(cache) <= 1
    /\ unseen \subseteq Assets
    /\ verdict \in [Assets -> {"affected", "possibly_affected", "not_affected", NoRow}]
    /\ products \subseteq Rows
    /\ \A r, s \in products :
         <<r.vendor, r.product, r.cpe>> = <<s.vendor, s.product, s.cpe>> => r = s
    /\ \A r, s \in refs : r.url = s.url => r = s
    /\ ~vuln.known => vuln = Unknown /\ products = {} /\ refs = {}

Precedes(v, w) == Readable(v) /\ Readable(w) /\ Below(v, w)

Differ(v, w) == Precedes(v, w) \/ Precedes(w, v)

\* The same text is the same version even where it cannot be read.
Same(v, w) == v = w \/ (Readable(v) /\ Readable(w) /\ ~Differ(v, w))

\* A bound that v can be compared with and does not keep.
Excludes(bound, v) ==
    \/ bound.op \in {">=", ">"} /\ Precedes(v, bound.version)
    \/ bound.op \in {"<=", "<"} /\ Precedes(bound.version, v)
    \/ bound.op \in {">", "<"} /\ Same(v, bound.version)

\* Whoever is told "not affected" by a verdict that has seen every row has a
\* version, and each row of his product names another one or a bound that
\* excludes his: never a version that merely could not be compared.
SafeMeansCompared ==
    \A a \in Assets \ unseen : verdict[a] = "not_affected" =>
        /\ a.version # NoVersion
        /\ \A r \in products : SameProduct(a, r) =>
             \/ r.cpe # NoCpe /\ Differ(r.cpe[1], a.version)
             \/ \E i \in 1 .. Len(r.versions) : Excludes(r.versions[i], a.version)

Underscored(a) ==
    \/ \E r \in products : SameProduct(a, r) /\ r.product.underscored
    \/ vuln.product.underscored

\* The stored verdict is what match_asset makes of the stored rows, but for two
\* ways the code has of leaving it stale on its own: a KEV entry that was renamed
\* adds a product without counting as a change, and the prefilter of an edited
\* asset misses a product that a CNA wrote with underscores.
VerdictsExplained ==
    \A a \in Assets \ unseen :
        \/ verdict[a] = FromCve(a, Db)
        \/ verdict[a] = NoRow /\ Underscored(a)

Level == [s \in {"not_affected", "possibly_affected", "affected"} |->
            CASE s = "not_affected" -> 1 [] s = "possibly_affected" -> 2 [] OTHER -> 3]

\* Nothing that is learnt later lowers a verdict, whichever source says it in
\* whichever order, as rows are only added: a correction of NVD's does not either.
\* Exceptions: the KEV fallback, which stands for rows that are not there yet,
\* and the prefilter on underscores.
VerdictsOnlyRise ==
    [][\A a \in Assets :
         verdict[a] # NoRow =>
           \/ verdict'[a] # NoRow /\ Level[verdict'[a]] >= Level[verdict[a]]
           \/ ~\E r \in products : SameProduct(a, r)
           \/ verdict'[a] = NoRow /\ Underscored(a)]_vars

\* Once both sources have been stored, storing them again changes nothing, in
\* whatever order they came: no run undoes what another one wrote, and no CVE
\* is reported as updated for ever.
RepeatsAreQuiet ==
    /\ applied.kev = kev /\ kev.data # Nothing => ApplyKev(Db, kev.data) = Db
    /\ applied.nvd = nvd /\ nvd.data # Nothing => ApplyNvd(Db, nvd.data, nvd.seq) = Db

\* An answer from nvd_cache never puts back what a later one replaced.
NvdNeverGoesBack == [][applied'.nvd.seq >= applied.nvd.seq]_vars

\* The versions NVD says are vulnerable.
Covers(m, v) ==
    /\ m.vulnerable
    /\ IF m.version # NoVersion THEN Same(m.version, v)
       ELSE ~\E i \in 1 .. Len(m.bounds) : Excludes(m.bounds[i], v)

\* What the documentation claims: nobody is told "not affected" who runs a version
\* that the record NVD publishes, and that was stored, names.
SafeIsTrue ==
    \A a \in Assets : verdict[a] = "not_affected" /\ applied.nvd = nvd =>
        ~\E i \in 1 .. Len(nvd.data.matches) :
            LET m == nvd.data.matches[i]
            IN  SameProduct(a, [vendor |-> m.vendor, product |-> m.product])
                /\ Covers(m, a.version)
=============================================================================
