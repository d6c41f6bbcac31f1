--------------------------- MODULE AdvisoriesProofs ---------------------------
(***************************************************************************)
(* Proofs about Advisories, for any assets, KEV entries and NVD records:    *)
(* what a verdict means, that it is the one the stored rows give, that it   *)
(* only rises, and that neither source undoes what the other one wrote.     *)
(***************************************************************************)
EXTENDS Advisories, NumberFacts, TLAPS, SequenceTheorems

------------------------------------------------------------------------------
(* Versions and ranges                                                      *)

\* The numbers of a version that can be read, filled up with zeros.
LEMMA PartNat ==
  ASSUME NEW v \in Versions, Readable(v)
  PROVE  \A i \in Nat \ {0} : Part(v, i) \in Nat
<1> SUFFICES ASSUME NEW i \in Nat \ {0}
             PROVE  Part(v, i) \in Nat
  OBVIOUS
<1>1. CASE i <= Len(v)
  BY <1>1 DEF Versions, Readable, Part
<1>2. CASE ~(i <= Len(v))
  BY <1>2 DEF Part
<1> QED
  BY <1>1, <1>2

\* Versions that can be read are in order one way only.
LEMMA BelowAsymmetric ==
  ASSUME NEW v \in Versions, NEW w \in Versions, Readable(v), Readable(w),
         Below(v, w)
  PROVE  ~Below(w, v)
<1> SUFFICES ASSUME Below(w, v)
             PROVE  FALSE
  OBVIOUS
<1>1. Len(v) \in Nat /\ Len(w) \in Nat
  BY DEF Versions
<1>2. PICK i \in 1 .. Len(v) + Len(w) :
        /\ Part(v, i) < Part(w, i)
        /\ \A j \in 1 .. i - 1 : Part(v, j) = Part(w, j)
  BY DEF Below
<1>3. PICK k \in 1 .. Len(w) + Len(v) :
        /\ Part(w, k) < Part(v, k)
        /\ \A j \in 1 .. k - 1 : Part(w, j) = Part(v, j)
  BY DEF Below
<1>4. /\ Part(v, i) \in Nat /\ Part(w, i) \in Nat
      /\ Part(v, k) \in Nat /\ Part(w, k) \in Nat
  BY <1>1, PartNat
<1>5. i \in Int /\ k \in Int /\ i >= 1 /\ k >= 1
  BY <1>1
<1>6. CASE i < k
  <2>1. i \in 1 .. k - 1
    BY <1>5, <1>6
  <2> QED
    BY <2>1, <1>2, <1>3, <1>4
<1>7. CASE k < i
  <2>1. k \in 1 .. i - 1
    BY <1>5, <1>7
  <2> QED
    BY <2>1, <1>2, <1>3, <1>4
<1>8. CASE i = k
  BY <1>8, <1>2, <1>3, <1>4
<1> QED
  BY <1>5, <1>6, <1>7, <1>8

\* compare_versions(a, b) is the opposite of compare_versions(b, a).
LEMMA CompareIsAntisymmetric ==
  ASSUME NEW v \in Versions, NEW w \in Versions
  PROVE  /\ CompareVersions(v, w) = "below" <=> CompareVersions(w, v) = "above"
         /\ CompareVersions(v, w) = "equal" <=> CompareVersions(w, v) = "equal"
         /\ CompareVersions(v, w) = "none" <=> CompareVersions(w, v) = "none"
  BY BelowAsymmetric DEF CompareVersions

\* What an answer of compare_versions says.
LEMMA CompareMeans ==
  ASSUME NEW v, NEW w
  PROVE  /\ CompareVersions(v, w) \in {"equal", "none", "below", "above"}
         /\ CompareVersions(v, w) = "below" => Precedes(v, w)
         /\ CompareVersions(v, w) = "above" => Precedes(w, v)
         /\ CompareVersions(v, w) = "equal" => Same(v, w)
  BY DEF CompareVersions, Precedes, Same, Differ

\* A bound parse_range finds is a term of the text, of the right direction.
LEMMA LastBoundIsTerm ==
  ASSUME NEW terms \in Terms, NEW ops, LastBound(terms, ops) # NoBound
  PROVE  \E i \in 1 .. Len(terms) :
           LastBound(terms, ops) = terms[i] /\ terms[i].op \in ops
<1> DEFINE at == {i \in 1 .. Len(terms) : terms[i].op \in ops}
<1>1. Len(terms) \in Nat
  BY DEF Terms
<1>2. at # {}
  BY DEF LastBound
<1>3. \E i \in at : \A j \in at : j <= i
  BY <1>1, <1>2, GreatestOf
<1>4. LastBound(terms, ops) = terms[CHOOSE i \in at : \A j \in at : j <= i]
  BY <1>2 DEF LastBound
<1> QED
  BY <1>3, <1>4

\* A version that one bound puts out is excluded by it.
LEMMA OutMeansExcluded ==
  ASSUME NEW v, NEW terms \in Terms, NEW ops \in {LowerOps, UpperOps},
         Against(v, LastBound(terms, ops)) = "out"
  PROVE  \E i \in 1 .. Len(terms) : Excludes(terms[i], v)
<1> DEFINE b == LastBound(terms, ops)
<1> DEFINE c == CompareVersions(v, b.version)
<1>1. b # NoBound
  BY DEF Against
<1>2. PICK i \in 1 .. Len(terms) : b = terms[i] /\ b.op \in ops
  BY <1>1, LastBoundIsTerm
<1>3. c # "none" /\ c \notin Allowed[b.op]
  BY <1>1 DEF Against
<1>4. c \in {"equal", "below", "above"}
  BY <1>3, CompareMeans
<1>5. /\ c = "below" => Precedes(v, b.version)
      /\ c = "above" => Precedes(b.version, v)
      /\ c = "equal" => Same(v, b.version)
  BY CompareMeans
<1>6. b.op \in {">=", ">", "<=", "<"}
  BY <1>2 DEF LowerOps, UpperOps
<1>7. /\ Allowed[">="] = {"equal", "above"} /\ Allowed[">"] = {"above"}
      /\ Allowed["<="] = {"equal", "below"} /\ Allowed["<"] = {"below"}
  BY DEF Allowed, LowerOps, UpperOps
<1>8. Excludes(b, v)
  <2> HIDE DEF b, c
  <2>1. CASE b.op = ">="
    BY <2>1, <1>3, <1>4, <1>5, <1>7 DEF Excludes
  <2>2. CASE b.op = ">"
    BY <2>2, <1>3, <1>4, <1>5, <1>7 DEF Excludes
  <2>3. CASE b.op = "<="
    BY <2>3, <1>3, <1>4, <1>5, <1>7 DEF Excludes
  <2>4. CASE b.op = "<"
    BY <2>4, <1>3, <1>4, <1>5, <1>7 DEF Excludes
  <2> QED
    BY <2>1, <2>2, <2>3, <2>4, <1>6
<1> QED
  BY <1>2, <1>8

\* What a row says, and what it means that it says "out".
LEMMA RowSaysWhat ==
  ASSUME NEW r, NEW v
  PROVE  RowSays(r, v) \in {"in", "unknown", "out"}
  BY DEF RowSays, VersionInRange, Against

\* A row that says "out" names another version, or one of its bounds excludes
\* this one: version_in_range never guesses.
LEMMA RowSaysOut ==
  ASSUME NEW r \in Rows, NEW v, RowSays(r, v) = "out"
  PROVE  \/ r.cpe # NoCpe /\ Differ(r.cpe[1], v)
         \/ \E i \in 1 .. Len(r.versions) : Excludes(r.versions[i], v)
<1> DEFINE pinned == CpeVersion(r.cpe)
<1>1. CASE pinned = NoVersion
  <2>1. r.versions \in Terms
    BY DEF Rows
  <2>2. VersionInRange(v, ParseRange(r.versions)) = "out"
    BY <1>1 DEF RowSays
  <2>3. \/ Against(v, LastBound(r.versions, LowerOps)) = "out"
        \/ Against(v, LastBound(r.versions, UpperOps)) = "out"
    BY <2>2 DEF VersionInRange, ParseRange
  <2> QED
    BY <2>1, <2>3, OutMeansExcluded
<1>2. CASE pinned # NoVersion
  <2>1. r.cpe # NoCpe /\ pinned = r.cpe[1]
    BY <1>2 DEF CpeVersion
  <2>2. CompareVersions(v, pinned) \notin {"equal", "none"}
    BY <1>2 DEF RowSays
  <2>3. Differ(pinned, v)
    BY <2>2, CompareMeans DEF Differ
  <2> QED
    BY <2>1, <2>3
<1> QED
  BY <1>1, <1>2

\* A product that KEV names without versions can be any version.
LEMMA NamedOnlyIsUnknown ==
  ASSUME NEW r, NEW v, r.cpe = NoCpe, r.versions = <<>>
  PROVE  RowSays(r, v) = "unknown"
<1>1. LastBound(<<>>, LowerOps) = NoBound /\ LastBound(<<>>, UpperOps) = NoBound
  BY DEF LastBound
<1>2. VersionInRange(v, ParseRange(<<>>)) = "unknown"
  BY <1>1 DEF VersionInRange, ParseRange, NoRange
<1> QED
  BY <1>2 DEF RowSays, CpeVersion, NoCpe, NoVersion

------------------------------------------------------------------------------
(* Names, rows and verdicts                                                 *)

Matched(a, rows) == \E r \in rows : SameProduct(a, r)

Underlined(a, rows, v) ==
    \/ \E r \in rows : SameProduct(a, r) /\ r.product.underscored
    \/ v.product.underscored

\* The words of a name that is found among the words of the same name are all of
\* it: LIKE misses it only for its underscores.
LEMMA LikeFindsWhole ==
  ASSUME NEW wanted \in Seq(STRING), NEW name, name.words = wanted,
         ~Like(wanted, name)
  PROVE  name.underscored
<1>1. SubSeq(wanted, 0 + 1, 0 + Len(wanted)) = wanted
  BY SubSeqProperties
<1>2. 0 \in 0 .. Len(name.words) - Len(wanted)
  OBVIOUS
<1> QED
  BY <1>1, <1>2 DEF Like

\* recompute_asset's prefilter leaves out a CVE that matches only for an
\* underscore in the name of the product.
LEMMA PrefilterMissesUnderscores ==
  ASSUME NEW a \in Assets, NEW rows, NEW v,
         MatchAsset(a, rows, v) # NoRow, ~Candidate(a, rows, v)
  PROVE  Underlined(a, rows, v)
<1>1. a.product.words \in Seq(STRING)
  BY AdvisoriesAssumption DEF AdvisoriesAssumption, Names
<1>2. CASE Matched(a, rows)
  <2>1. PICK r \in rows : SameProduct(a, r)
    BY <1>2 DEF Matched
  <2>2. r.product.words = a.product.words /\ ~Like(a.product.words, r.product)
    BY <2>1 DEF SameProduct, Normalise, Candidate
  <2> QED
    BY <1>1, <2>1, <2>2, LikeFindsWhole DEF Underlined
<1>3. CASE ~Matched(a, rows)
  <2>1. SameProduct(a, v)
    BY <1>3 DEF MatchAsset, Matched
  <2>2. v.product.words = a.product.words /\ v.product # NoName
    BY <2>1 DEF SameProduct, Normalise, NoName
  <2>3. ~Like(a.product.words, v.product)
    BY <2>2 DEF Candidate, Normalise
  <2> QED
    BY <1>1, <2>2, <2>3, LikeFindsWhole DEF Underlined
<1> QED
  BY <1>2, <1>3

Verdicts == {"affected", "possibly_affected", "not_affected"}

Rank(s) ==
    CASE s = "not_affected" -> 1 [] s = "possibly_affected" -> 2 [] OTHER -> 3

\* Level and Rank put the verdicts in the same order.
LEMMA LevelIsRank ==
  \A s \in Verdicts : Level[s] = Rank(s)
BY DEF Level, Rank, Verdicts

\* The ranks of the three verdicts.
LEMMA RanksInOrder ==
  /\ Rank("not_affected") = 1 /\ Rank("possibly_affected") = 2 /\ Rank("affected") = 3
BY DEF Rank

\* match_asset answers with a verdict; on an asset none of whose rows match,
\* with none or a doubt.
LEMMA MatchAssetType ==
  ASSUME NEW a, NEW rows, NEW v
  PROVE  /\ MatchAsset(a, rows, v) \in Verdicts \cup {NoRow}
         /\ Matched(a, rows) => MatchAsset(a, rows, v) \in Verdicts
         /\ ~Matched(a, rows) => MatchAsset(a, rows, v) \in {NoRow, "possibly_affected"}
BY DEF MatchAsset, Verdicts, Matched

\* match_asset on an asset with rows, by cases.
LEMMA MatchAssetCases ==
  ASSUME NEW a, NEW rows, NEW v, Matched(a, rows)
  PROVE  /\ a.version = NoVersion => MatchAsset(a, rows, v) = "possibly_affected"
         /\ a.version # NoVersion =>
              /\ MatchAsset(a, rows, v) = "affected" <=>
                   \E r \in rows : SameProduct(a, r) /\ RowSays(r, a.version) = "in"
              /\ MatchAsset(a, rows, v) = "not_affected" <=>
                   \A r \in rows : SameProduct(a, r) => RowSays(r, a.version) = "out"
<1> DEFINE candidates == {r \in rows : SameProduct(a, r)}
<1> DEFINE said == {RowSays(r, a.version) : r \in candidates}
<1>1. candidates # {}
  BY DEF Matched
<1>2. MatchAsset(a, rows, v) =
        IF a.version = NoVersion THEN "possibly_affected"
        ELSE IF "in" \in said THEN "affected"
        ELSE IF "unknown" \in said THEN "possibly_affected"
        ELSE "not_affected"
  BY <1>1 DEF MatchAsset
<1>3. /\ "in" \in said <=>
           \E r \in rows : SameProduct(a, r) /\ RowSays(r, a.version) = "in"
      /\ "unknown" \in said <=>
           \E r \in rows : SameProduct(a, r) /\ RowSays(r, a.version) = "unknown"
  OBVIOUS
<1>4. \A r \in rows : RowSays(r, a.version) \in {"in", "unknown", "out"}
  BY RowSaysWhat
<1> HIDE DEF candidates, said
<1> QED
  BY <1>2, <1>3, <1>4

\* More rows never lower the verdict of an asset that has one.
LEMMA MoreRowsRaise ==
  ASSUME NEW a, NEW rows, NEW more, NEW v, NEW w, rows \subseteq more, Matched(a, rows)
  PROVE  Rank(MatchAsset(a, rows, v)) <= Rank(MatchAsset(a, more, w))
<1>1. Matched(a, more)
  BY DEF Matched
<1>2. /\ MatchAsset(a, rows, v) \in Verdicts
      /\ MatchAsset(a, more, w) \in Verdicts
  BY <1>1, MatchAssetType
<1>3. CASE a.version = NoVersion
  BY <1>1, <1>3, MatchAssetCases, RanksInOrder
<1>4. CASE a.version # NoVersion
  <2>1. MatchAsset(a, rows, v) = "affected" => MatchAsset(a, more, w) = "affected"
    BY <1>1, <1>4, MatchAssetCases
  <2>2. MatchAsset(a, more, w) = "not_affected" => MatchAsset(a, rows, v) = "not_affected"
    BY <1>1, <1>4, MatchAssetCases
  <2> QED
    BY <1>2, <2>1, <2>2, RanksInOrder DEF Verdicts
<1> QED
  BY <1>3, <1>4

\* "Not affected" means that each row of the product was compared and is out.
LEMMA SafeVerdict ==
  ASSUME NEW a, NEW rows \in SUBSET Rows, NEW v, MatchAsset(a, rows, v) = "not_affected"
  PROVE  /\ a.version # NoVersion
         /\ \A r \in rows : SameProduct(a, r) =>
              \/ r.cpe # NoCpe /\ Differ(r.cpe[1], a.version)
              \/ \E i \in 1 .. Len(r.versions) : Excludes(r.versions[i], a.version)
<1>1. Matched(a, rows)
  BY MatchAssetType, AdvisoriesAssumption DEF AdvisoriesAssumption
<1>2. a.version # NoVersion
  BY <1>1, MatchAssetCases
<1>3. \A r \in rows : SameProduct(a, r) => RowSays(r, a.version) = "out"
  BY <1>1, <1>2, MatchAssetCases
<1> QED
  BY <1>2, <1>3, RowSaysOut

------------------------------------------------------------------------------
(* The upserts                                                              *)

SameKey(r, s) == <<r.vendor, r.product, r.cpe>> = <<s.vendor, s.product, s.cpe>>

Keyed(rows) == \A r, s \in rows : SameKey(r, s) => r = s

KeyedRefs(urls) == \A r, s \in urls : r.url = s.url => r = s

\* What the upsert of each row does to the table.
LEMMA EnsureProductsFacts ==
  ASSUME NEW rows, NEW new
  PROVE  /\ rows \subseteq EnsureProducts(rows, new)
         /\ EnsureProducts(rows, new) \subseteq rows \cup new
         /\ EnsureProducts(rows, new) = rows <=>
              \A r \in new : \E old \in rows : SameKey(old, r)
         /\ \A r \in new : \E old \in EnsureProducts(rows, new) : SameKey(old, r)
         /\ Keyed(rows) /\ Keyed(new) => Keyed(EnsureProducts(rows, new))
<1>1. rows \subseteq EnsureProducts(rows, new)
  BY DEF EnsureProducts
<1>2. EnsureProducts(rows, new) \subseteq rows \cup new
  BY DEF EnsureProducts
<1>3. EnsureProducts(rows, new) = rows <=>
        \A r \in new : \E old \in rows : SameKey(old, r)
  BY DEF EnsureProducts, SameKey
<1>4. \A r \in new : \E old \in EnsureProducts(rows, new) : SameKey(old, r)
  BY DEF EnsureProducts, SameKey
<1>5. Keyed(rows) /\ Keyed(new) => Keyed(EnsureProducts(rows, new))
  BY DEF EnsureProducts, SameKey, Keyed
<1> QED
  BY <1>1, <1>2, <1>3, <1>4, <1>5

\* What AddReferences keeps, when it changes nothing, that every page is listed
\* afterwards, and that no page is listed twice.
LEMMA AddReferencesFacts ==
  ASSUME NEW old, NEW new
  PROVE  /\ old \subseteq AddReferences(old, new)
         /\ AddReferences(old, new) = old <=> \A r \in new : \E o \in old : o.url = r.url
         /\ \A r \in new : \E o \in AddReferences(old, new) : o.url = r.url
         /\ KeyedRefs(old) /\ KeyedRefs(new) => KeyedRefs(AddReferences(old, new))
<1>1. old \subseteq AddReferences(old, new)
  BY DEF AddReferences
<1>2. AddReferences(old, new) = old <=> \A r \in new : \E o \in old : o.url = r.url
  BY DEF AddReferences
<1>3. \A r \in new : \E o \in AddReferences(old, new) : o.url = r.url
  BY DEF AddReferences
<1>4. KeyedRefs(old) /\ KeyedRefs(new) => KeyedRefs(AddReferences(old, new))
  BY DEF AddReferences, KeyedRefs
<1> QED
  BY <1>1, <1>2, <1>3, <1>4

\* What is stored of a list of versions is a list of versions.
LEMMA JoinedTerms ==
  ASSUME NEW terms \in Terms
  PROVE  Joined(terms) \in Terms
<1> DEFINE T == [op : STRING, version : Versions]
<1>1. terms \in Seq(T)
  BY DEF Terms
<1> HIDE DEF T
<1>2. Len(terms) \in Nat /\ \A j \in 1 .. Len(terms) : terms[j] \in T
  BY <1>1
<1>3. \A v \in Versions : [v EXCEPT ![Len(v)] = Comma] \in Versions
  <2> SUFFICES ASSUME NEW S, NEW e \in S, NEW v \in Seq(S)
               PROVE  [v EXCEPT ![Len(v)] = e] \in Seq(S)
    BY MatchingAssumption DEF MatchingAssumption, Versions
  <2>1. Len(v) \in Nat /\ v \in [1 .. Len(v) -> S]
    OBVIOUS
  <2>2. [v EXCEPT ![Len(v)] = e] \in [1 .. Len(v) -> S]
    BY <2>1
  <2> QED
    BY <2>1, <2>2, SeqDef
<1>4. \A j \in 1 .. Len(terms) :
        [terms[j] EXCEPT !.version = [@ EXCEPT ![Len(@)] = Comma]] \in T
  BY <1>2, <1>3 DEF T
<1>5. Joined(terms) \in [1 .. Len(terms) -> T]
  BY <1>2, <1>4 DEF Joined
<1>6. Joined(terms) \in Seq(T)
  BY <1>2, <1>5, SeqDef
<1> QED
  BY <1>6 DEF Terms, T

\* parse_nvd_cve names each vendor, product and CPE once, in rows of the table.
LEMMA ParsedRowsFacts ==
  ASSUME NEW record \in NvdRecords
  PROVE  ParsedRows(record) \subseteq Rows /\ Keyed(ParsedRows(record))
<1> DEFINE ms == record.matches
<1> DEFINE as == record.affected
<1>1. ms \in Seq(CpeMatches) /\ as \in Seq(Listings)
  BY AdvisoriesAssumption DEF AdvisoriesAssumption
<1>2. \A r \in ConfiguredRows(record) : \E i \in Vulnerable(record) :
        /\ r = Row(MatchKey(ms[i]), ms[i].bounds)
        /\ \A j \in Vulnerable(record) : j > i => MatchKey(ms[j]) # MatchKey(ms[i])
  BY DEF ConfiguredRows
<1>3. \A r \in ListedRows(record) : \E i \in 1 .. Len(as) :
        /\ r = Row(<<as[i].vendor, as[i].product, NoCpe>>, Joined(as[i].versions))
        /\ \A j \in 1 .. i - 1 :
             <<as[j].vendor, as[j].product>> # <<as[i].vendor, as[i].product>>
  BY DEF ListedRows
<1>4. \A i \in Vulnerable(record) : i \in 1 .. Len(ms) /\ ms[i] \in CpeMatches
  BY <1>1 DEF Vulnerable
<1>5. \A i \in 1 .. Len(as) : as[i] \in Listings
  BY <1>1
<1>6. ConfiguredRows(record) \subseteq Rows
  <2> SUFFICES ASSUME NEW i \in Vulnerable(record)
               PROVE  Row(MatchKey(ms[i]), ms[i].bounds) \in Rows
    BY <1>2
  <2>1. /\ ms[i].vendor \in Names /\ ms[i].product \in Names
        /\ ms[i].version \in Versions /\ ms[i].bounds \in Terms
    BY <1>4 DEF CpeMatches
  <2>2. <<ms[i].version>> \in Seq(Versions)
    BY <2>1
  <2> QED
    BY <2>1, <2>2 DEF Row, MatchKey, Rows
<1>7. ListedRows(record) \subseteq Rows
  <2> SUFFICES ASSUME NEW i \in 1 .. Len(as)
               PROVE  Row(<<as[i].vendor, as[i].product, NoCpe>>, Joined(as[i].versions)) \in Rows
    BY <1>3
  <2>1. /\ as[i].vendor \in Names /\ as[i].product \in Names
        /\ as[i].versions \in Terms
    BY <1>5 DEF Listings
  <2>2. Joined(as[i].versions) \in Terms
    BY <2>1, JoinedTerms
  <2>3. NoCpe \in Seq(Versions)
    BY DEF NoCpe
  <2> QED
    BY <2>1, <2>2, <2>3 DEF Row, Rows
<1>8. Keyed(ConfiguredRows(record))
  <2> SUFFICES ASSUME NEW i \in Vulnerable(record), NEW j \in Vulnerable(record),
                      \A k \in Vulnerable(record) : k > i => MatchKey(ms[k]) # MatchKey(ms[i]),
                      \A k \in Vulnerable(record) : k > j => MatchKey(ms[k]) # MatchKey(ms[j]),
                      SameKey(Row(MatchKey(ms[i]), ms[i].bounds),
                              Row(MatchKey(ms[j]), ms[j].bounds))
               PROVE  i = j
    BY <1>2 DEF Keyed
  <2>1. MatchKey(ms[i]) = MatchKey(ms[j])
    BY DEF SameKey, Row, MatchKey
  <2>2. i \in Int /\ j \in Int
    BY <1>4
  <2> QED
    BY <2>1, <2>2
<1>9. Keyed(ListedRows(record))
  <2> DEFINE name(i) == <<as[i].vendor, as[i].product>>
  <2> SUFFICES ASSUME NEW i \in 1 .. Len(as), NEW j \in 1 .. Len(as),
                      \A k \in 1 .. i - 1 : name(k) # name(i),
                      \A k \in 1 .. j - 1 : name(k) # name(j),
                      name(i) = name(j)
               PROVE  i = j
    BY <1>3 DEF Keyed, SameKey, Row
  <2> HIDE DEF name
  <2>1. i \in Int /\ j \in Int /\ i >= 1 /\ j >= 1
    OBVIOUS
  <2>2. i < j => i \in 1 .. j - 1
    BY <2>1
  <2>3. j < i => j \in 1 .. i - 1
    BY <2>1
  <2> QED
    BY <2>1, <2>2, <2>3
<1>10. \A r \in ConfiguredRows(record) : r.cpe # NoCpe
  BY <1>2 DEF Row, MatchKey, NoCpe
<1>11. \A r \in ListedRows(record) : r.cpe = NoCpe
  BY <1>3 DEF Row
<1>12. Keyed(ParsedRows(record))
  BY <1>8, <1>9, <1>10, <1>11 DEF Keyed, SameKey, ParsedRows
<1> QED
  BY <1>6, <1>7, <1>12 DEF ParsedRows

\* The columns of a row of vulnerabilities, and the three tables of the CVE.
Columns(v) ==
    [known |-> v.known, inKev |-> v.inKev, kevFields |-> v.kevFields,
     title |-> v.title, text |-> v.text, cwes |-> v.cwes, vendor |-> v.vendor,
     product |-> v.product, nvdFields |-> v.nvdFields]

Tables(db) ==
    /\ db = [vuln |-> db.vuln, products |-> db.products, refs |-> db.refs]
    /\ db.vuln = Columns(db.vuln)
    /\ db.vuln.known \in BOOLEAN

KevRow(entry) == Row(<<entry.vendor, entry.product, NoCpe>>, <<>>)

KevRefs(entry) == {[url |-> u, by |-> "cisa_kev"] : u \in {"kev"} \cup entry.urls}

NvdPages == {[url |-> "nvd", by |-> "nvd"], [url |-> "cve_org", by |-> "cve_org"]}

NvdRefs(record) == {[url |-> u, by |-> "nvd"] : u \in record.urls}

\* Rows whose columns are taken from given sets.
RowsOf(K, F, T, X, C, D, P, N) ==
    [known : {TRUE}, inKev : K, kevFields : F, title : T, text : X, cwes : C,
     vendor : D, product : P, nvdFields : N]

\* A row is given by its columns.
LEMMA ColumnsDecide ==
  ASSUME NEW K, NEW F, NEW T, NEW X, NEW C, NEW D, NEW P, NEW N,
         NEW v \in RowsOf(K, F, T, X, C, D, P, N),
         NEW w \in RowsOf(K, F, T, X, C, D, P, N),
         v.known = w.known, v.inKev = w.inKev, v.kevFields = w.kevFields, v.title = w.title,
         v.text = w.text, v.cwes = w.cwes, v.vendor = w.vendor,
         v.product = w.product, v.nvdFields = w.nvdFields
  PROVE  v = w
BY DEF RowsOf

\* The columns after an upsert.
LEMMA CurrentColumns ==
  ASSUME NEW db, Tables(db)
  PROVE  Current(db) = Columns(Current(db)) /\ Current(db).known = TRUE
BY DEF Tables, Current, NewVuln, Columns

\* What an upsert of each source leaves in the tables.
KevEffect(db, entry, to) ==
    /\ to.vuln.known = TRUE /\ to.vuln.nvdFields = Current(db).nvdFields
    /\ to.vuln.inKev = TRUE /\ to.vuln.kevFields = entry.fields
    /\ to.vuln.title = Or(Current(db).title, entry.title, Nothing)
    /\ to.vuln.text = Or(Current(db).text, entry.text, Nothing)
    /\ to.vuln.cwes = Or(Current(db).cwes, entry.cwes, Nothing)
    /\ to.vuln.vendor = Or(Current(db).vendor, entry.vendor, NoName)
    /\ to.vuln.product = Or(Current(db).product, entry.product, NoName)
    /\ to.products =
         IF entry.vendor = NoName /\ entry.product = NoName THEN db.products
         ELSE EnsureProducts(db.products, {KevRow(entry)})
    /\ to.refs = AddReferences(db.refs, KevRefs(entry))

NvdEffect(db, record, stamp, to) ==
    /\ to.vuln.known = TRUE /\ to.vuln.nvdFields = <<stamp, record.score>>
    /\ to.vuln.inKev = Current(db).inKev /\ to.vuln.kevFields = Current(db).kevFields
    /\ to.vuln.title = Or(Current(db).title, record.text, Nothing)
    /\ to.vuln.text = Or(record.text, Current(db).text, Nothing)
    /\ to.vuln.cwes = Or(record.cwes, Current(db).cwes, Nothing)
    /\ to.vuln.vendor = Or(Current(db).vendor, First(record, "vendor"), NoName)
    /\ to.vuln.product = Or(Current(db).product, First(record, "product"), NoName)
    /\ to.products = EnsureProducts(db.products, ParsedRows(record))
    /\ to.refs = AddReferences(AddReferences(db.refs, NvdPages), NvdRefs(record))

\* apply_kev, column by column, on tables that hold what the code stores.
LEMMA ApplyKevFacts ==
  ASSUME NEW db, Tables(db), NEW entry
  PROVE  Tables(ApplyKev(db, entry)) /\ KevEffect(db, entry, ApplyKev(db, entry))
<1> DEFINE v == Current(db)
<1> DEFINE to == ApplyKev(db, entry)
<1> DEFINE w == to.vuln
<1> DEFINE title == Or(v.title, entry.title, Nothing)
<1> DEFINE text == Or(v.text, entry.text, Nothing)
<1> DEFINE cwes == Or(v.cwes, entry.cwes, Nothing)
<1> DEFINE vendor == Or(v.vendor, entry.vendor, NoName)
<1> DEFINE product == Or(v.product, entry.product, NoName)
<1>1. v = Columns(v) /\ v.known = TRUE
  BY CurrentColumns
<1>2. /\ to = [vuln |-> to.vuln, products |-> to.products, refs |-> to.refs]
      /\ to.products =
           IF entry.vendor = NoName /\ entry.product = NoName THEN db.products
           ELSE EnsureProducts(db.products, {KevRow(entry)})
      /\ to.refs = AddReferences(db.refs, KevRefs(entry))
  BY DEF ApplyKev, KevRow, KevRefs
<1>3. w = [v EXCEPT !.inKev = TRUE, !.kevFields = entry.fields,
                  !.title = title, !.text = text, !.cwes = cwes,
                  !.vendor = vendor, !.product = product]
  BY DEF ApplyKev
<1> HIDE DEF v, to, w, title, text, cwes, vendor, product
<1> DEFINE S == RowsOf({v.inKev, TRUE}, {v.kevFields, entry.fields},
                       {v.title, title}, {v.text, text}, {v.cwes, cwes},
                       {v.vendor, vendor}, {v.product, product}, {v.nvdFields})
<1>4. v \in S
  <2>1. Columns(v) \in S
    BY <1>1 DEF Columns, RowsOf
  <2> QED
    BY <1>1, <2>1
<1>5. w \in S
  BY <1>3, <1>4 DEF RowsOf
<1>6. /\ w.known = TRUE /\ w.inKev = TRUE
      /\ w.kevFields = entry.fields /\ w.title = title
      /\ w.text = text /\ w.cwes = cwes /\ w.vendor = vendor
      /\ w.product = product /\ w.nvdFields = v.nvdFields
  BY <1>3, <1>4 DEF RowsOf
<1>7. Columns(w) \in S
  BY <1>6 DEF Columns, RowsOf
<1>8. w = Columns(w)
  BY <1>5, <1>7, ColumnsDecide DEF Columns
<1>9. Tables(to)
  BY <1>2, <1>6, <1>8 DEF Tables, w
<1>10. KevEffect(db, entry, to)
  BY <1>2, <1>6 DEF KevEffect, w, v, title, text, cwes, vendor, product
<1> QED
  BY <1>9, <1>10 DEF to

\* apply_nvd, column by column, on tables that hold what the code stores.
LEMMA ApplyNvdFacts ==
  ASSUME NEW db, Tables(db), NEW record, NEW stamp
  PROVE  LET to == ApplyNvd(db, record, stamp)
         IN  Tables(to) /\ NvdEffect(db, record, stamp, to)
<1> DEFINE v == Current(db)
<1> DEFINE to == ApplyNvd(db, record, stamp)
<1> DEFINE w == to.vuln
<1> DEFINE title == Or(v.title, record.text, Nothing)
<1> DEFINE text == Or(record.text, v.text, Nothing)
<1> DEFINE cwes == Or(record.cwes, v.cwes, Nothing)
<1> DEFINE vendor == Or(v.vendor, First(record, "vendor"), NoName)
<1> DEFINE product == Or(v.product, First(record, "product"), NoName)
<1>1. v = Columns(v) /\ v.known = TRUE
  BY CurrentColumns
<1>2. /\ to = [vuln |-> to.vuln, products |-> to.products, refs |-> to.refs]
      /\ to.products = EnsureProducts(db.products, ParsedRows(record))
      /\ to.refs = AddReferences(AddReferences(db.refs, NvdPages), NvdRefs(record))
  BY DEF ApplyNvd, NvdPages, NvdRefs
<1>3. w = [v EXCEPT !.nvdFields = <<stamp, record.score>>, !.text = text,
                  !.cwes = cwes, !.vendor = vendor, !.product = product,
                  !.title = title]
  BY DEF ApplyNvd
<1> HIDE DEF v, to, w, title, text, cwes, vendor, product
<1> DEFINE S == RowsOf({v.inKev}, {v.kevFields},
                       {v.title, title}, {v.text, text}, {v.cwes, cwes},
                       {v.vendor, vendor}, {v.product, product},
                       {v.nvdFields, <<stamp, record.score>>})
<1>4. v \in S
  <2>1. Columns(v) \in S
    BY <1>1 DEF Columns, RowsOf
  <2> QED
    BY <1>1, <2>1
<1>5. w \in S
  BY <1>3, <1>4 DEF RowsOf
<1>6. /\ w.known = TRUE /\ w.inKev = v.inKev
      /\ w.kevFields = v.kevFields /\ w.title = title
      /\ w.text = text /\ w.cwes = cwes /\ w.vendor = vendor
      /\ w.product = product /\ w.nvdFields = <<stamp, record.score>>
  BY <1>3, <1>4 DEF RowsOf
<1>7. Columns(w) \in S
  BY <1>6 DEF Columns, RowsOf
<1>8. w = Columns(w)
  BY <1>5, <1>7, ColumnsDecide DEF Columns
<1>9. Tables(to)
  BY <1>2, <1>6, <1>8 DEF Tables, w
<1>10. NvdEffect(db, record, stamp, to)
  BY <1>2, <1>6 DEF NvdEffect, w, v, title, text, cwes, vendor, product
<1> QED
  BY <1>9, <1>10 DEF to

\* Tables are equal when their columns are.
LEMMA TablesEqual ==
  ASSUME NEW db, Tables(db), NEW to, Tables(to),
         to.products = db.products, to.refs = db.refs,
         to.vuln.known = db.vuln.known, to.vuln.inKev = db.vuln.inKev,
         to.vuln.kevFields = db.vuln.kevFields, to.vuln.title = db.vuln.title,
         to.vuln.text = db.vuln.text, to.vuln.cwes = db.vuln.cwes,
         to.vuln.vendor = db.vuln.vendor, to.vuln.product = db.vuln.product,
         to.vuln.nvdFields = db.vuln.nvdFields
  PROVE  to = db
<1>1. Columns(to.vuln) = Columns(db.vuln)
  BY DEF Columns
<1> QED
  BY <1>1 DEF Tables

\* What is in the tables once a source has been stored and nothing it wrote was
\* undone: storing it again changes nothing.
KevSeen(db, entry) ==
    /\ db.vuln.known = TRUE
    /\ db.vuln.inKev = TRUE /\ db.vuln.kevFields = entry.fields
    /\ db.vuln.title # Nothing \/ entry.title = Nothing
    /\ db.vuln.text # Nothing \/ entry.text = Nothing
    /\ db.vuln.cwes # Nothing \/ entry.cwes = Nothing
    /\ db.vuln.vendor # NoName \/ entry.vendor = NoName
    /\ db.vuln.product # NoName \/ entry.product = NoName
    /\ \/ entry.vendor = NoName /\ entry.product = NoName
       \/ \E old \in db.products : SameKey(old, KevRow(entry))
    /\ \A r \in KevRefs(entry) : \E o \in db.refs : o.url = r.url

NvdSeen(db, record, stamp) ==
    /\ db.vuln.known = TRUE
    /\ db.vuln.nvdFields = <<stamp, record.score>>
    /\ db.vuln.title # Nothing \/ record.text = Nothing
    /\ db.vuln.text = record.text \/ record.text = Nothing
    /\ db.vuln.cwes = record.cwes \/ record.cwes = Nothing
    /\ db.vuln.vendor # NoName \/ First(record, "vendor") = NoName
    /\ db.vuln.product # NoName \/ First(record, "product") = NoName
    /\ \A r \in ParsedRows(record) : \E old \in db.products : SameKey(old, r)
    /\ \A r \in NvdPages \cup NvdRefs(record) : \E o \in db.refs : o.url = r.url

\* `old or new` is old where old says something, or new says nothing.
LEMMA OrKeeps ==
  ASSUME NEW old, NEW new, NEW none
  PROVE  Or(old, new, none) = old <=> old # none \/ new = none
BY DEF Or

\* apply_kev changes nothing exactly if the entry has been seen.
LEMMA KevSeenIsQuiet ==
  ASSUME NEW db, Tables(db), NEW entry
  PROVE  ApplyKev(db, entry) = db <=> KevSeen(db, entry)
<1> DEFINE to == ApplyKev(db, entry)
<1>1. Tables(to) /\ KevEffect(db, entry, to)
  BY ApplyKevFacts
<1>2. \A r \in {KevRow(entry)} : r = KevRow(entry)
  OBVIOUS
<1> HIDE DEF to
<1>3. ASSUME to = db
      PROVE  KevSeen(db, entry)
  <2>1. KevEffect(db, entry, db)
    BY <1>1, <1>3
  <2>2. db.vuln.known = TRUE /\ Current(db) = db.vuln
    BY <2>1 DEF KevEffect, Current
  <2>3. \/ entry.vendor = NoName /\ entry.product = NoName
        \/ EnsureProducts(db.products, {KevRow(entry)}) = db.products
    BY <2>1 DEF KevEffect
  <2>4. \/ entry.vendor = NoName /\ entry.product = NoName
        \/ \E old \in db.products : SameKey(old, KevRow(entry))
    BY <2>3, EnsureProductsFacts
  <2>5. AddReferences(db.refs, KevRefs(entry)) = db.refs
    BY <2>1 DEF KevEffect
  <2>6. \A r \in KevRefs(entry) : \E o \in db.refs : o.url = r.url
    BY <2>5, AddReferencesFacts
  <2> QED
    BY <2>1, <2>2, <2>4, <2>6, OrKeeps DEF KevSeen, KevEffect
<1>4. ASSUME KevSeen(db, entry)
      PROVE  to = db
  <2>1. db.vuln.known = TRUE /\ Current(db) = db.vuln
    BY <1>4 DEF KevSeen, Current
  <2>2. \/ entry.vendor = NoName /\ entry.product = NoName
        \/ EnsureProducts(db.products, {KevRow(entry)}) = db.products
    BY <1>4, EnsureProductsFacts DEF KevSeen
  <2>3. to.products = db.products
    BY <1>1, <2>2 DEF KevEffect
  <2>4. to.refs = db.refs
    BY <1>1, <1>4, AddReferencesFacts DEF KevSeen, KevEffect
  <2>5. /\ to.vuln.title = db.vuln.title /\ to.vuln.text = db.vuln.text
        /\ to.vuln.cwes = db.vuln.cwes /\ to.vuln.vendor = db.vuln.vendor
        /\ to.vuln.product = db.vuln.product
    BY <1>1, <1>4, <2>1, OrKeeps DEF KevSeen, KevEffect
  <2>6. /\ to.vuln.known = db.vuln.known /\ to.vuln.inKev = db.vuln.inKev
        /\ to.vuln.kevFields = db.vuln.kevFields
        /\ to.vuln.nvdFields = db.vuln.nvdFields
    BY <1>1, <1>4, <2>1 DEF KevSeen, KevEffect
  <2> QED
    BY <1>1, <2>3, <2>4, <2>5, <2>6, TablesEqual
<1> QED
  BY <1>3, <1>4 DEF to

\* apply_nvd changes nothing exactly if the record has been seen.
LEMMA NvdSeenIsQuiet ==
  ASSUME NEW db, Tables(db), NEW record, NEW stamp
  PROVE  ApplyNvd(db, record, stamp) = db <=> NvdSeen(db, record, stamp)
<1> DEFINE to == ApplyNvd(db, record, stamp)
<1> DEFINE pages == AddReferences(db.refs, NvdPages)
<1>1. Tables(to) /\ NvdEffect(db, record, stamp, to)
  BY ApplyNvdFacts
<1> HIDE DEF to
<1>2. ASSUME to = db
      PROVE  NvdSeen(db, record, stamp)
  <2>1. NvdEffect(db, record, stamp, db)
    BY <1>1, <1>2
  <2>2. db.vuln.known = TRUE /\ Current(db) = db.vuln
    BY <2>1 DEF NvdEffect, Current
  <2>3. EnsureProducts(db.products, ParsedRows(record)) = db.products
    BY <2>1 DEF NvdEffect
  <2>4. \A r \in ParsedRows(record) : \E old \in db.products : SameKey(old, r)
    BY <2>3, EnsureProductsFacts
  <2>5. AddReferences(pages, NvdRefs(record)) = db.refs
    BY <2>1 DEF NvdEffect
  <2>6. pages = db.refs
    BY <2>5, AddReferencesFacts
  <2>7. \A r \in NvdPages \cup NvdRefs(record) : \E o \in db.refs : o.url = r.url
    BY <2>5, <2>6, AddReferencesFacts
  <2>8. /\ db.vuln.title = Or(db.vuln.title, record.text, Nothing)
        /\ db.vuln.text = Or(record.text, db.vuln.text, Nothing)
        /\ db.vuln.cwes = Or(record.cwes, db.vuln.cwes, Nothing)
        /\ db.vuln.vendor = Or(db.vuln.vendor, First(record, "vendor"), NoName)
        /\ db.vuln.product = Or(db.vuln.product, First(record, "product"), NoName)
        /\ db.vuln.nvdFields = <<stamp, record.score>>
    BY <2>1, <2>2 DEF NvdEffect
  <2> QED
    BY <2>2, <2>4, <2>7, <2>8 DEF NvdSeen, Or
<1>3. ASSUME NvdSeen(db, record, stamp)
      PROVE  to = db
  <2>1. db.vuln.known = TRUE /\ Current(db) = db.vuln
    BY <1>3 DEF NvdSeen, Current
  <2>2. EnsureProducts(db.products, ParsedRows(record)) = db.products
    BY <1>3, EnsureProductsFacts DEF NvdSeen
  <2>3. pages = db.refs
    BY <1>3, AddReferencesFacts DEF NvdSeen
  <2>4. AddReferences(db.refs, NvdRefs(record)) = db.refs
    BY <1>3, AddReferencesFacts DEF NvdSeen
  <2>5. to.products = db.products /\ to.refs = db.refs
    BY <1>1, <2>2, <2>3, <2>4 DEF NvdEffect
  <2>6. /\ to.vuln.title = db.vuln.title /\ to.vuln.text = db.vuln.text
        /\ to.vuln.cwes = db.vuln.cwes /\ to.vuln.vendor = db.vuln.vendor
        /\ to.vuln.product = db.vuln.product
    BY <1>1, <1>3, <2>1 DEF NvdSeen, NvdEffect, Or
  <2>7. /\ to.vuln.known = db.vuln.known /\ to.vuln.inKev = db.vuln.inKev
        /\ to.vuln.kevFields = db.vuln.kevFields
        /\ to.vuln.nvdFields = db.vuln.nvdFields
    BY <1>1, <1>3, <2>1 DEF NvdSeen, NvdEffect
  <2> QED
    BY <1>1, <2>5, <2>6, <2>7, TablesEqual
<1> QED
  BY <1>2, <1>3 DEF to

\* Storing a source settles it, and what the other one stores leaves it settled.
LEMMA OrFills ==
  ASSUME NEW old, NEW new, NEW none
  PROVE  /\ old # none => Or(old, new, none) = old
         /\ new # none => Or(old, new, none) # none
BY DEF Or

\* After apply_kev the entry has been seen.
LEMMA KevSettles ==
  ASSUME NEW db, Tables(db), NEW entry
  PROVE  KevSeen(ApplyKev(db, entry), entry)
<1> DEFINE to == ApplyKev(db, entry)
<1>1. KevEffect(db, entry, to)
  BY ApplyKevFacts
<1> HIDE DEF to
<1>2. \/ entry.vendor = NoName /\ entry.product = NoName
      \/ \E old \in to.products : SameKey(old, KevRow(entry))
  <2>1. CASE entry.vendor = NoName /\ entry.product = NoName
    BY <2>1
  <2>2. CASE ~(entry.vendor = NoName /\ entry.product = NoName)
    <3>1. to.products = EnsureProducts(db.products, {KevRow(entry)})
      BY <1>1, <2>2 DEF KevEffect
    <3>2. KevRow(entry) \in {KevRow(entry)}
      OBVIOUS
    <3> QED
      BY <3>1, <3>2, EnsureProductsFacts
  <2> QED
    BY <2>1, <2>2
<1>3. \A r \in KevRefs(entry) : \E o \in to.refs : o.url = r.url
  BY <1>1, AddReferencesFacts DEF KevEffect
<1>4. /\ to.vuln.title # Nothing \/ entry.title = Nothing
      /\ to.vuln.text # Nothing \/ entry.text = Nothing
      /\ to.vuln.cwes # Nothing \/ entry.cwes = Nothing
      /\ to.vuln.vendor # NoName \/ entry.vendor = NoName
      /\ to.vuln.product # NoName \/ entry.product = NoName
  BY <1>1, OrFills DEF KevEffect
<1>5. KevSeen(to, entry)
  BY <1>1, <1>2, <1>3, <1>4 DEF KevSeen, KevEffect
<1> QED
  BY <1>5 DEF to

\* After apply_nvd the record has been seen.
LEMMA NvdSettles ==
  ASSUME NEW db, Tables(db), NEW record, NEW stamp
  PROVE  NvdSeen(ApplyNvd(db, record, stamp), record, stamp)
<1> DEFINE to == ApplyNvd(db, record, stamp)
<1> DEFINE pages == AddReferences(db.refs, NvdPages)
<1>1. NvdEffect(db, record, stamp, to)
  BY ApplyNvdFacts
<1> HIDE DEF to
<1>2. \A r \in ParsedRows(record) : \E old \in to.products : SameKey(old, r)
  BY <1>1, EnsureProductsFacts DEF NvdEffect
<1>3. to.refs = AddReferences(pages, NvdRefs(record))
  BY <1>1 DEF NvdEffect
<1>4. /\ \A r \in NvdRefs(record) : \E o \in to.refs : o.url = r.url
      /\ pages \subseteq to.refs
      /\ \A r \in NvdPages : \E o \in pages : o.url = r.url
  <2> HIDE DEF pages
  <2>1. /\ \A r \in NvdRefs(record) : \E o \in to.refs : o.url = r.url
        /\ pages \subseteq to.refs
    BY <1>3, AddReferencesFacts
  <2>2. \A r \in NvdPages : \E o \in pages : o.url = r.url
    BY AddReferencesFacts DEF pages
  <2> QED
    BY <2>1, <2>2
<1>5. \A r \in NvdPages \cup NvdRefs(record) : \E o \in to.refs : o.url = r.url
  <2> HIDE DEF pages
  <2> QED
    BY <1>4
<1>6. /\ to.vuln.title # Nothing \/ record.text = Nothing
      /\ to.vuln.text = record.text \/ record.text = Nothing
      /\ to.vuln.cwes = record.cwes \/ record.cwes = Nothing
      /\ to.vuln.vendor # NoName \/ First(record, "vendor") = NoName
      /\ to.vuln.product # NoName \/ First(record, "product") = NoName
  BY <1>1, OrFills DEF NvdEffect
<1>7. NvdSeen(to, record, stamp)
  BY <1>1, <1>2, <1>5, <1>6 DEF NvdSeen, NvdEffect
<1> QED
  BY <1>7 DEF to

\* apply_nvd overwrites nothing that a KEV entry would write again.
LEMMA KevStaysSettled ==
  ASSUME NEW db, Tables(db), NEW entry, KevSeen(db, entry), NEW record, NEW stamp
  PROVE  KevSeen(ApplyNvd(db, record, stamp), entry)
<1> DEFINE to == ApplyNvd(db, record, stamp)
<1> DEFINE pages == AddReferences(db.refs, NvdPages)
<1>1. NvdEffect(db, record, stamp, to)
  BY ApplyNvdFacts
<1> HIDE DEF to
<1>2. Current(db) = db.vuln
  BY DEF KevSeen, Current
<1>3. db.products \subseteq to.products
  BY <1>1, EnsureProductsFacts DEF NvdEffect
<1>4. db.refs \subseteq to.refs
  <2>1. db.refs \subseteq pages
    BY AddReferencesFacts
  <2>2. to.refs = AddReferences(pages, NvdRefs(record))
    BY <1>1 DEF NvdEffect
  <2> HIDE DEF pages
  <2>3. pages \subseteq to.refs
    BY <2>2, AddReferencesFacts
  <2> QED
    BY <2>1, <2>3
<1>5. /\ to.vuln.title # Nothing \/ entry.title = Nothing
      /\ to.vuln.text # Nothing \/ entry.text = Nothing
      /\ to.vuln.cwes # Nothing \/ entry.cwes = Nothing
      /\ to.vuln.vendor # NoName \/ entry.vendor = NoName
      /\ to.vuln.product # NoName \/ entry.product = NoName
  BY <1>1, <1>2, OrFills DEF NvdEffect, KevSeen
<1>6. /\ to.vuln.known = TRUE /\ to.vuln.inKev = TRUE
      /\ to.vuln.kevFields = entry.fields
  BY <1>1, <1>2 DEF NvdEffect, KevSeen
<1>7. KevSeen(to, entry)
  BY <1>3, <1>4, <1>5, <1>6 DEF KevSeen
<1> QED
  BY <1>7 DEF to

\* apply_kev overwrites nothing that an NVD record would write again.
LEMMA NvdStaysSettled ==
  ASSUME NEW db, Tables(db), NEW record, NEW stamp, NvdSeen(db, record, stamp), NEW entry
  PROVE  NvdSeen(ApplyKev(db, entry), record, stamp)
<1> DEFINE to == ApplyKev(db, entry)
<1>1. KevEffect(db, entry, to)
  BY ApplyKevFacts
<1> HIDE DEF to
<1>2. Current(db) = db.vuln
  BY DEF NvdSeen, Current
<1>3. db.products \subseteq to.products
  BY <1>1, EnsureProductsFacts DEF KevEffect
<1>4. db.refs \subseteq to.refs
  BY <1>1, AddReferencesFacts DEF KevEffect
<1>5. /\ to.vuln.title # Nothing \/ record.text = Nothing
      /\ to.vuln.text = record.text \/ record.text = Nothing
      /\ to.vuln.cwes = record.cwes \/ record.cwes = Nothing
      /\ to.vuln.vendor # NoName \/ First(record, "vendor") = NoName
      /\ to.vuln.product # NoName \/ First(record, "product") = NoName
  BY <1>1, <1>2, OrFills DEF KevEffect, NvdSeen
<1>6. to.vuln.known = TRUE /\ to.vuln.nvdFields = <<stamp, record.score>>
  BY <1>1, <1>2 DEF KevEffect, NvdSeen
<1>7. NvdSeen(to, record, stamp)
  BY <1>3, <1>4, <1>5, <1>6 DEF NvdSeen
<1> QED
  BY <1>7 DEF to

\* What an upsert keeps of the tables' keys, and that it only adds rows.
Sound(db) == db.products \subseteq Rows /\ Keyed(db.products) /\ KeyedRefs(db.refs)

\* apply_kev keeps the unique keys, and the rows there are.
LEMMA KevIsSound ==
  ASSUME NEW db, Tables(db), Sound(db), NEW entry \in KevEntries
  PROVE  LET to == ApplyKev(db, entry)
         IN  Sound(to) /\ db.products \subseteq to.products
<1> DEFINE to == ApplyKev(db, entry)
<1>1. KevEffect(db, entry, to)
  BY ApplyKevFacts
<1> HIDE DEF to
<1>2. KevRow(entry) \in Rows
  <2>1. entry.vendor \in Names /\ entry.product \in Names
    BY AdvisoriesAssumption DEF AdvisoriesAssumption
  <2>2. <<>> \in Terms /\ <<>> \in Seq(Versions)
    BY DEF Terms
  <2> QED
    BY <2>1, <2>2 DEF KevRow, Row, Rows, NoCpe
<1>3. Keyed({KevRow(entry)})
  BY DEF Keyed
<1>4. /\ to.products \subseteq Rows /\ Keyed(to.products)
      /\ db.products \subseteq to.products
  <2>1. CASE to.products = db.products
    BY <2>1 DEF Sound
  <2>2. CASE to.products = EnsureProducts(db.products, {KevRow(entry)})
    BY <2>2, <1>2, <1>3, EnsureProductsFacts DEF Sound
  <2> QED
    BY <1>1, <2>1, <2>2 DEF KevEffect
<1>5. KeyedRefs(KevRefs(entry))
  BY DEF KeyedRefs, KevRefs
<1>6. KeyedRefs(to.refs)
  BY <1>1, <1>5, AddReferencesFacts DEF Sound, KevEffect
<1>7. Sound(to)
  BY <1>4, <1>6 DEF Sound
<1> QED
  BY <1>4, <1>7 DEF to

\* apply_nvd keeps the unique keys, and the rows there are.
LEMMA NvdIsSound ==
  ASSUME NEW db, Tables(db), Sound(db), NEW record \in NvdRecords, NEW stamp
  PROVE  LET to == ApplyNvd(db, record, stamp)
         IN  Sound(to) /\ db.products \subseteq to.products
<1> DEFINE to == ApplyNvd(db, record, stamp)
<1> DEFINE pages == AddReferences(db.refs, NvdPages)
<1>1. NvdEffect(db, record, stamp, to)
  BY ApplyNvdFacts
<1> HIDE DEF to
<1>2. /\ to.products \subseteq Rows /\ Keyed(to.products)
      /\ db.products \subseteq to.products
  BY <1>1, ParsedRowsFacts, EnsureProductsFacts DEF Sound, NvdEffect
<1>3. KeyedRefs(NvdPages) /\ KeyedRefs(NvdRefs(record))
  BY DEF KeyedRefs, NvdPages, NvdRefs
<1>4. to.refs = AddReferences(pages, NvdRefs(record))
  BY <1>1 DEF NvdEffect
<1>5. KeyedRefs(pages)
  BY <1>3, AddReferencesFacts DEF Sound
<1>6. KeyedRefs(to.refs)
  <2> HIDE DEF pages
  <2> QED
    BY <1>3, <1>4, <1>5, AddReferencesFacts
<1>7. Sound(to)
  BY <1>2, <1>6 DEF Sound
<1> QED
  BY <1>2, <1>7 DEF to

------------------------------------------------------------------------------
(* The inductive invariant                                                  *)

\* What NVD and CISA have published, or answered, at some time.
Answers == {x \in [seq : 0 .. MaxChanges, data : NvdRecords \cup {Nothing}] :
              x.data = Nothing <=> x.seq = 0}

Entries == [seq : 0 .. MaxChanges, data : KevEntries \cup {Nothing}]

Shape ==
    /\ Tables(Db)
    /\ kev \in Entries /\ nvd \in Answers
    /\ applied \in [kev : Entries, nvd : Answers]
    /\ cache \subseteq Answers

\* An answer is as new as what was applied and no newer than what is published;
\* two with one number are one.
NotAfter(x, y) == x.seq <= y.seq /\ (x.seq = y.seq => x = y)

InOrder ==
    /\ NotAfter(applied.nvd, nvd)
    /\ \A c \in cache : NotAfter(applied.nvd, c) /\ NotAfter(c, nvd)

\* What each source stored last is still there.
Settled ==
    /\ applied.kev.data # Nothing => KevSeen(Db, applied.kev.data)
    /\ IF applied.nvd.data = Nothing THEN vuln.nvdFields = Nothing
       ELSE NvdSeen(Db, applied.nvd.data, applied.nvd.seq)

\* No verdict is higher than the one the rows give; without rows of the product
\* only the KEV fallback speaks.
Bounded ==
    \A a \in Assets :
        IF Matched(a, products)
          THEN verdict[a] # NoRow => Rank(verdict[a]) <= Rank(FromCve(a, Db))
          ELSE verdict[a] \in {NoRow, "possibly_affected"}

IInv == TypeOK /\ Shape /\ InOrder /\ Settled /\ VerdictsExplained /\ Bounded

\* The tables of Db, before and after a step.
LEMMA DbFields ==
  /\ Db.vuln = vuln /\ Db.products = products /\ Db.refs = refs
  /\ (Db.vuln = vuln /\ Db.products = products /\ Db.refs = refs)'
BY DEF Db

\* The type invariant says that the unique keys hold.
LEMMA DbIsSound ==
  ASSUME TypeOK
  PROVE  Sound(Db)
BY DbFields DEF TypeOK, Sound, Keyed, KeyedRefs, SameKey

\* What a transaction that stores db leaves.
LEMMA StoreMeans ==
  ASSUME NEW db, Tables(db), NEW recompute \in BOOLEAN, Store(db, recompute)
  PROVE  /\ Db' = db /\ products' = db.products /\ vuln' = db.vuln /\ refs' = db.refs
         /\ recompute => verdict' = [a \in Assets |-> FromCve(a, Db)']
         /\ ~recompute => verdict' = verdict
<1>1. vuln' = db.vuln /\ products' = db.products /\ refs' = db.refs
  BY DEF Store
<1>2. Db' = db
  BY <1>1 DEF Db, Tables
<1>3. recompute => verdict' = [a \in Assets |-> FromCve(a, db)]
  BY DEF Store
<1>4. \A a : FromCve(a, Db)' = FromCve(a, db)
  BY <1>1 DEF FromCve, Db
<1>5. ~recompute => verdict' = verdict
  BY DEF Store
<1> QED
  BY <1>1, <1>2, <1>3, <1>4, <1>5

\* The invariant holds of an empty database.
LEMMA InitIInv ==
  ASSUME Init
  PROVE  IInv
<1>1. /\ kev = [seq |-> 0, data |-> Nothing] /\ nvd = [seq |-> 0, data |-> Nothing]
      /\ applied = [kev |-> kev, nvd |-> nvd] /\ cache = {} /\ vuln = Unknown
      /\ products = {} /\ refs = {} /\ verdict = [a \in Assets |-> NoRow]
      /\ unseen = {}
  BY DEF Init
<1>2. vuln.inKev = FALSE /\ vuln.known = FALSE /\ vuln.nvdFields = Nothing
  BY <1>1 DEF Unknown, NewVuln
<1>3. TypeOK
  BY <1>1, <1>2, AdvisoriesAssumption, FS_EmptySet DEF AdvisoriesAssumption, TypeOK
<1>4. Shape
  <2>1. vuln = Columns(vuln)
    BY <1>1 DEF Unknown, NewVuln, Columns
  <2>2. Tables(Db)
    BY <2>1, <1>2, DbFields DEF Tables, Db
  <2> QED
    BY <1>1, <2>2, AdvisoriesAssumption DEF AdvisoriesAssumption, Shape, Entries, Answers
<1>5. InOrder
  BY <1>1, AdvisoriesAssumption DEF AdvisoriesAssumption, InOrder, NotAfter
<1>6. Settled
  BY <1>1, <1>2 DEF Settled
<1>7. \A a : FromCve(a, Db) = NoRow
  BY <1>1, <1>2, DbFields DEF FromCve, MatchAsset
<1>8. VerdictsExplained
  BY <1>1, <1>7 DEF VerdictsExplained
<1>9. Bounded
  BY <1>1 DEF Bounded, Matched
<1> QED
  BY <1>3, <1>4, <1>5, <1>6, <1>8, <1>9 DEF IInv

\* What is applied next is what is published, or a cached answer.
LEMMA AnswersUsable ==
  ASSUME IInv, NEW answer \in cache \cup {nvd}
  PROVE  /\ answer \in Answers /\ NotAfter(applied.nvd, answer) /\ NotAfter(answer, nvd)
         /\ answer.data # Nothing =>
              answer.data \in NvdRecords /\ answer.seq \in 1 .. MaxChanges
<1>1. answer \in Answers
  BY DEF IInv, Shape
<1>2. NotAfter(applied.nvd, answer) /\ NotAfter(answer, nvd)
  BY <1>1 DEF IInv, InOrder, NotAfter, Answers
<1> QED
  BY <1>1, <1>2 DEF Answers

\* A transaction leaves the tables in one of these ways.
Untouched == UNCHANGED <<vuln, products, verdict, unseen>>

Recomputed ==
    /\ products \subseteq products'
    /\ verdict' = [a \in Assets |-> FromCve(a, Db)']
    /\ unseen' = {}

OnlyNamed ==
    /\ \E e \in KevEntries : products' = EnsureProducts(products, {KevRow(e)})
    /\ UNCHANGED <<vuln, verdict>>
    /\ unseen' = Assets

Edited ==
    \E a \in Assets :
        /\ verdict' = [verdict EXCEPT ![a] = FromAsset(a, Db)]
        /\ unseen' = unseen \ {a}
        /\ UNCHANGED <<vuln, products>>

\* What a transaction of KEV does.
LEMMA SyncKevMeans ==
  ASSUME IInv, SyncKev
  PROVE  /\ Tables(Db)' /\ Sound(Db') /\ vuln'.known = TRUE
         /\ Db' = ApplyKev(Db, kev.data) /\ kev.data \in KevEntries
         /\ applied' = [applied EXCEPT !.kev = kev] /\ UNCHANGED <<kev, nvd, cache>>
         /\ Untouched \/ Recomputed \/ OnlyNamed
<1> DEFINE db == ApplyKev(Db, kev.data)
<1>1. kev.data \in KevEntries /\ Tables(Db) /\ Sound(Db)
  BY DbIsSound DEF IInv, Shape, Entries, SyncKev
<1>2. Tables(db) /\ KevEffect(Db, kev.data, db)
  BY <1>1, ApplyKevFacts
<1>3. Sound(db) /\ products \subseteq db.products
  BY <1>1, KevIsSound, DbFields
<1>4. /\ Store(db, db.vuln # vuln)
      /\ unseen' = IF db.vuln # vuln THEN {}
                   ELSE IF db.products # products THEN Assets ELSE unseen
      /\ applied' = [applied EXCEPT !.kev = kev] /\ UNCHANGED <<kev, nvd, cache>>
  BY DEF SyncKev
<1> HIDE DEF db
<1>5. /\ Db' = db /\ products' = db.products /\ vuln' = db.vuln
      /\ db.vuln # vuln => verdict' = [a \in Assets |-> FromCve(a, Db)']
      /\ db.vuln = vuln => verdict' = verdict
  BY <1>2, <1>4, StoreMeans
<1>6. ASSUME db.vuln # vuln
      PROVE  Untouched \/ Recomputed \/ OnlyNamed
  BY <1>3, <1>4, <1>5, <1>6 DEF Recomputed
<1>7. ASSUME db.vuln = vuln /\ db.products = products
      PROVE  Untouched \/ Recomputed \/ OnlyNamed
  BY <1>4, <1>5, <1>7 DEF Untouched
<1>8. ASSUME db.vuln = vuln /\ db.products # products
      PROVE  Untouched \/ Recomputed \/ OnlyNamed
  <2>1. db.products = EnsureProducts(products, {KevRow(kev.data)})
    BY <1>2, <1>8, DbFields DEF KevEffect
  <2> QED
    BY <1>1, <1>4, <1>5, <1>8, <2>1 DEF OnlyNamed
<1>9. Untouched \/ Recomputed \/ OnlyNamed
  BY <1>6, <1>7, <1>8
<1>10. vuln'.known = TRUE
  BY <1>2, <1>5 DEF KevEffect
<1>11. Tables(Db)'
  BY <1>2, <1>5
<1> QED
  BY <1>1, <1>3, <1>4, <1>5, <1>9, <1>10, <1>11 DEF db

\* What a transaction of NVD does, the window's or the lookup's.
LEMMA StoreNvdMeans ==
  ASSUME IInv, NEW answer \in cache \cup {nvd}, answer.data # Nothing,
         NEW recompute \in BOOLEAN,
         recompute \/ vuln = ApplyNvd(Db, answer.data, answer.seq).vuln,
         Store(ApplyNvd(Db, answer.data, answer.seq), recompute),
         unseen' = IF recompute THEN {} ELSE unseen
  PROVE  /\ Tables(Db)' /\ Sound(Db') /\ vuln'.known = TRUE
         /\ Db' = ApplyNvd(Db, answer.data, answer.seq)
         /\ Untouched \/ Recomputed
<1> DEFINE db == ApplyNvd(Db, answer.data, answer.seq)
<1>1. /\ answer.data \in NvdRecords /\ answer.seq \in 1 .. MaxChanges
      /\ Tables(Db) /\ Sound(Db)
  BY AnswersUsable, DbIsSound DEF IInv, Shape
<1>2. Tables(db) /\ NvdEffect(Db, answer.data, answer.seq, db)
  BY <1>1, ApplyNvdFacts
<1>3. Sound(db) /\ products \subseteq db.products
  BY <1>1, NvdIsSound, DbFields
<1>4. Store(db, recompute) /\ (recompute \/ vuln = db.vuln)
  OBVIOUS
<1>5. ~recompute => db.products = products
  <2> SUFFICES ASSUME vuln = db.vuln
               PROVE  db.products = products
    BY <1>4
  <2>1. vuln.nvdFields = <<answer.seq, answer.data.score>>
    BY <1>2 DEF NvdEffect
  <2>2. vuln.nvdFields # Nothing
    BY <1>1, <2>1, AdvisoriesAssumption DEF AdvisoriesAssumption
  <2>3. applied.nvd.data # Nothing /\ NvdSeen(Db, applied.nvd.data, applied.nvd.seq)
    BY <2>2 DEF IInv, Settled
  <2>4. vuln.nvdFields = <<applied.nvd.seq, applied.nvd.data.score>>
    BY <2>3, DbFields DEF NvdSeen
  <2>5. applied.nvd = answer
    BY <2>1, <2>4, AnswersUsable DEF NotAfter
  <2>6. db = Db
    BY <1>1, <2>3, <2>5, NvdSeenIsQuiet
  <2> QED
    BY <2>6, DbFields
<1> HIDE DEF db
<1>6. /\ Db' = db /\ products' = db.products /\ vuln' = db.vuln
      /\ recompute => verdict' = [a \in Assets |-> FromCve(a, Db)']
      /\ ~recompute => verdict' = verdict
  BY <1>2, <1>4, StoreMeans
<1>7. Untouched \/ Recomputed
  BY <1>3, <1>4, <1>5, <1>6 DEF Untouched, Recomputed
<1>8. vuln'.known = TRUE
  BY <1>2, <1>6 DEF NvdEffect
<1>9. Tables(Db)'
  BY <1>2, <1>6
<1> QED
  BY <1>3, <1>6, <1>7, <1>8, <1>9 DEF db

\* What each step does to the tables.
LEMMA SyncNvdMeans ==
  ASSUME IInv, SyncNvd
  PROVE  /\ Tables(Db)' /\ Sound(Db') /\ vuln'.known = TRUE
         /\ Db' = ApplyNvd(Db, nvd.data, nvd.seq)
         /\ applied' = [applied EXCEPT !.nvd = nvd] /\ cache' = {nvd}
         /\ UNCHANGED <<kev, nvd>>
         /\ Untouched \/ Recomputed
<1> DEFINE db == ApplyNvd(Db, nvd.data, nvd.seq)
<1> DEFINE recompute == db.vuln # vuln
<1>1. /\ Store(db, recompute) /\ unseen' = IF recompute THEN {} ELSE unseen
      /\ recompute \/ vuln = db.vuln
      /\ recompute \in BOOLEAN
  BY DEF SyncNvd
<1>2. nvd \in cache \cup {nvd} /\ nvd.data # Nothing
  BY DEF SyncNvd
<1>3. /\ Tables(Db)' /\ Sound(Db') /\ vuln'.known = TRUE /\ Db' = db
      /\ Untouched \/ Recomputed
  <2> HIDE DEF recompute
  <2> QED
    BY <1>1, <1>2, StoreNvdMeans
<1> QED
  BY <1>3 DEF SyncNvd

\* A lookup of a CVE that NVD, or the cache, answers: it stores the record and
\* recomputes the verdicts if a column changed.
LEMMA EnrichMeans ==
  ASSUME IInv, NEW answer \in cache \cup {nvd}, answer.data # Nothing, Enrich(answer)
  PROVE  /\ Tables(Db)' /\ Sound(Db') /\ vuln'.known = TRUE
         /\ Db' = ApplyNvd(Db, answer.data, answer.seq)
         /\ applied' = [applied EXCEPT !.nvd = answer] /\ cache' = {answer}
         /\ UNCHANGED <<kev, nvd>>
         /\ Untouched \/ Recomputed
<1>1. Store(ApplyNvd(Db, answer.data, answer.seq), TRUE) /\ unseen' = {}
  BY DEF Enrich
<1>2. /\ Tables(Db)' /\ Sound(Db') /\ vuln'.known = TRUE
      /\ Db' = ApplyNvd(Db, answer.data, answer.seq)
      /\ Untouched \/ Recomputed
  BY <1>1, StoreNvdMeans
<1> QED
  BY <1>2 DEF Enrich

\* Maintenance recomputes the verdicts of what is stored.
LEMMA RecomputeMeans ==
  ASSUME IInv, Recompute
  PROVE  Recomputed /\ Db' = Db
<1>1. Tables(Db) /\ Store(Db, TRUE) /\ unseen' = {}
  BY DEF IInv, Shape, Recompute
<1>2. /\ Db' = Db /\ products' = products
      /\ verdict' = [a \in Assets |-> FromCve(a, Db)']
  BY <1>1, StoreMeans, DbFields
<1> QED
  BY <1>1, <1>2 DEF Recomputed

\* The other steps leave the tables as they are.
Elsewhere ==
    /\ UNCHANGED <<vuln, products, refs, applied>>
    /\ Untouched \/ Recomputed \/ Edited

\* Every step that applies no record leaves the tables, and what was applied.
LEMMA OtherSteps ==
  ASSUME IInv, [Next]_vars, ~SyncKev, ~SyncNvd,
         \A answer \in cache \cup {nvd} : Enrich(answer) => answer.data = Nothing
  PROVE  Elsewhere
<1>1. ASSUME NEW e \in KevEntries, PublishKev(e)
      PROVE  Elsewhere
  BY <1>1 DEF PublishKev, stored, Elsewhere, Untouched
<1>2. ASSUME NEW r \in NvdRecords, PublishNvd(r)
      PROVE  Elsewhere
  BY <1>2 DEF PublishNvd, stored, Elsewhere, Untouched
<1>3. ASSUME NEW answer \in cache \cup {nvd}, Enrich(answer)
      PROVE  Elsewhere
  BY <1>3 DEF Enrich, stored, Elsewhere, Untouched
<1>4. ASSUME Recompute
      PROVE  Elsewhere
  <2>1. Recomputed /\ Db' = Db /\ UNCHANGED applied
    BY <1>4, RecomputeMeans DEF Recompute
  <2> QED
    BY <2>1, DbFields DEF Elsewhere
<1>5. ASSUME NEW a \in Assets, SaveAsset(a)
      PROVE  Elsewhere
  BY <1>5 DEF SaveAsset, stored, Elsewhere, Edited
<1>6. CASE UNCHANGED vars
  BY <1>6 DEF vars, stored, Elsewhere, Untouched
<1> QED
  BY <1>1, <1>2, <1>3, <1>4, <1>5, <1>6 DEF Next

\* Every step is one of these.
LEMMA StepsOfTables ==
  ASSUME IInv, [Next]_vars
  PROVE  /\ products \subseteq products'
         /\ Untouched \/ Recomputed \/ OnlyNamed \/ Edited
<1>1. CASE SyncKev
  BY <1>1, SyncKevMeans, EnsureProductsFacts DEF Untouched, Recomputed, OnlyNamed
<1>2. CASE SyncNvd
  BY <1>2, SyncNvdMeans DEF Untouched, Recomputed
<1>3. ASSUME NEW answer \in cache \cup {nvd}, Enrich(answer), answer.data # Nothing
      PROVE  /\ products \subseteq products'
             /\ Untouched \/ Recomputed
  BY <1>3, EnrichMeans DEF Untouched, Recomputed
<1>4. ASSUME ~SyncKev, ~SyncNvd,
             \A answer \in cache \cup {nvd} : Enrich(answer) => answer.data = Nothing
      PROVE  /\ products \subseteq products'
             /\ Untouched \/ Recomputed \/ Edited
  <2>1. Elsewhere
    BY <1>4, OtherSteps
  <2> QED
    BY <2>1 DEF Elsewhere
<1> QED
  BY <1>1, <1>2, <1>3, <1>4

------------------------------------------------------------------------------
(* Each conjunct is kept                                                    *)

\* Every step keeps what the code stores in its columns.
LEMMA ShapeStep ==
  ASSUME IInv, [Next]_vars
  PROVE  Shape'
<1>0. /\ Tables(Db) /\ kev \in Entries /\ nvd \in Answers
      /\ applied \in [kev : Entries, nvd : Answers] /\ cache \subseteq Answers
      /\ MaxChanges \in Nat
  BY AdvisoriesAssumption DEF AdvisoriesAssumption, IInv, Shape
<1>1. ASSUME NEW e \in KevEntries, PublishKev(e)
      PROVE  Shape'
  <2>1. kev' \in Entries
    BY <1>0, <1>1 DEF PublishKev, Entries
  <2>2. UNCHANGED <<Db, nvd, applied, cache>>
    BY <1>1 DEF PublishKev, stored, Db
  <2> QED
    BY <1>0, <2>1, <2>2 DEF Shape
<1>2. ASSUME NEW r \in NvdRecords, PublishNvd(r)
      PROVE  Shape'
  <2>1. r # Nothing
    BY AdvisoriesAssumption DEF AdvisoriesAssumption
  <2>2. nvd' \in Answers
    BY <1>0, <1>2, <2>1 DEF PublishNvd, Answers
  <2>3. UNCHANGED <<Db, kev, applied, cache>>
    BY <1>2 DEF PublishNvd, stored, Db
  <2> QED
    BY <1>0, <2>2, <2>3 DEF Shape
<1>3. CASE SyncKev
  <2>1. /\ Tables(Db)' /\ applied' = [applied EXCEPT !.kev = kev]
        /\ UNCHANGED <<kev, nvd, cache>>
    BY <1>3, SyncKevMeans
  <2> QED
    BY <1>0, <2>1 DEF Shape
<1>4. CASE SyncNvd
  <2>1. /\ Tables(Db)' /\ applied' = [applied EXCEPT !.nvd = nvd] /\ cache' = {nvd}
        /\ UNCHANGED <<kev, nvd>>
    BY <1>4, SyncNvdMeans
  <2> QED
    BY <1>0, <2>1 DEF Shape
<1>5. ASSUME NEW answer \in cache \cup {nvd}, Enrich(answer), answer.data # Nothing
      PROVE  Shape'
  <2>1. /\ Tables(Db)' /\ applied' = [applied EXCEPT !.nvd = answer]
        /\ cache' = {answer} /\ UNCHANGED <<kev, nvd>>
    BY <1>5, EnrichMeans
  <2> QED
    BY <1>0, <2>1 DEF Shape
<1>6. ASSUME NEW answer \in cache \cup {nvd}, Enrich(answer), answer.data = Nothing
      PROVE  Shape'
  <2>1. UNCHANGED <<Db, kev, nvd, applied>> /\ cache' = {answer}
    BY <1>6 DEF Enrich, stored, Db
  <2> QED
    BY <1>0, <2>1 DEF Shape
<1>7. CASE Recompute
  <2>1. Db' = Db /\ UNCHANGED <<kev, nvd, applied, cache>>
    BY <1>7, RecomputeMeans DEF Recompute
  <2> QED
    BY <1>0, <2>1 DEF Shape
<1>8. ASSUME NEW a \in Assets, SaveAsset(a)
      PROVE  Shape'
  <2>1. UNCHANGED <<Db, kev, nvd, applied, cache>>
    BY <1>8 DEF SaveAsset, stored, Db
  <2> QED
    BY <1>0, <2>1 DEF Shape
<1>9. CASE UNCHANGED vars
  <2>1. UNCHANGED <<Db, kev, nvd, applied, cache>>
    BY <1>9 DEF vars, stored, Db
  <2> QED
    BY <1>0, <2>1 DEF Shape
<1> QED
  BY <1>1, <1>2, <1>3, <1>4, <1>5, <1>6, <1>7, <1>8, <1>9 DEF Next

\* Every step keeps the cache and the applied record no newer than NVD's, and
\* the applied one no older than the cache.
LEMMA InOrderStep ==
  ASSUME IInv, [Next]_vars
  PROVE  InOrder'
<1>0. /\ nvd \in Answers /\ applied \in [kev : Entries, nvd : Answers]
      /\ cache \subseteq Answers /\ MaxChanges \in Nat /\ InOrder
  BY AdvisoriesAssumption DEF AdvisoriesAssumption, IInv, Shape
<1>1. \A x \in Answers : x.seq \in Nat /\ NotAfter(x, x)
  BY <1>0 DEF Answers, NotAfter
<1>2. ASSUME NEW r \in NvdRecords, PublishNvd(r)
      PROVE  InOrder'
  <2>1. nvd'.seq = nvd.seq + 1 /\ UNCHANGED <<applied, cache>>
    BY <1>2 DEF PublishNvd
  <2>2. ASSUME NEW x \in Answers, NotAfter(x, nvd)
        PROVE  NotAfter(x, nvd')
    BY <1>0, <1>1, <2>1, <2>2 DEF NotAfter
  <2>3. applied.nvd \in Answers
    BY <1>0
  <2> QED
    BY <1>0, <2>1, <2>2, <2>3 DEF InOrder
<1>3. CASE UNCHANGED <<nvd, cache>> /\ applied'.nvd = applied.nvd
  BY <1>0, <1>3 DEF InOrder
<1>4. ASSUME NEW answer \in cache \cup {nvd}, cache' = {answer}, nvd' = nvd,
             applied'.nvd = answer
      PROVE  InOrder'
  BY <1>1, <1>4, AnswersUsable DEF InOrder
<1>5. ASSUME NEW answer \in cache \cup {nvd}, cache' = {answer}, nvd' = nvd,
             applied' = applied
      PROVE  InOrder'
  BY <1>0, <1>5, AnswersUsable DEF InOrder
<1>6. CASE SyncKev
  <2>1. UNCHANGED <<nvd, cache>> /\ applied' = [applied EXCEPT !.kev = kev]
    BY <1>6 DEF SyncKev
  <2>2. applied'.nvd = applied.nvd
    BY <1>0, <2>1
  <2> QED
    BY <1>3, <2>1, <2>2
<1>7. CASE SyncNvd
  <2>1. cache' = {nvd} /\ nvd' = nvd /\ applied' = [applied EXCEPT !.nvd = nvd]
    BY <1>7 DEF SyncNvd
  <2>2. applied'.nvd = nvd
    BY <1>0, <2>1
  <2> QED
    BY <1>4, <2>1, <2>2
<1>8. ASSUME NEW answer \in cache \cup {nvd}, Enrich(answer)
      PROVE  InOrder'
  <2>1. CASE answer.data = Nothing
    BY <1>5, <1>8, <2>1 DEF Enrich
  <2>2. CASE answer.data # Nothing
    <3>1. cache' = {answer} /\ nvd' = nvd /\ applied' = [applied EXCEPT !.nvd = answer]
      BY <1>8, <2>2 DEF Enrich
    <3>2. applied'.nvd = answer
      BY <1>0, <3>1
    <3> QED
      BY <1>4, <3>1, <3>2
  <2> QED
    BY <2>1, <2>2
<1>9. ASSUME \/ \E e \in KevEntries : PublishKev(e)
             \/ Recompute
             \/ \E a \in Assets : SaveAsset(a)
             \/ UNCHANGED vars
      PROVE  InOrder'
  BY <1>3, <1>9 DEF PublishKev, Recompute, SaveAsset, vars
<1> QED
  BY <1>2, <1>6, <1>7, <1>8, <1>9 DEF Next

\* Verdicts computed from either side are verdicts.
LEMMA FromCveType ==
  /\ \A a \in Assets : FromCve(a, Db) \in Verdicts \cup {NoRow}
  /\ \A a \in Assets : FromCve(a, Db)' \in Verdicts \cup {NoRow}
  /\ \A a \in Assets : FromAsset(a, Db) \in Verdicts \cup {NoRow}
BY MatchAssetType DEF FromCve, FromAsset

\* Every step keeps the type invariant.
LEMMA TypeOKStep ==
  ASSUME IInv, [Next]_vars
  PROVE  TypeOK'
<1>1. /\ kev.seq \in 0 .. MaxChanges /\ kev.data \in KevEntries \cup {Nothing}
      /\ nvd.seq \in 0 .. MaxChanges /\ nvd.data \in NvdRecords \cup {Nothing}
  BY DEF IInv, TypeOK
<1>2. /\ (kev.seq \in 0 .. MaxChanges /\ kev.data \in KevEntries \cup {Nothing})'
      /\ (nvd.seq \in 0 .. MaxChanges /\ nvd.data \in NvdRecords \cup {Nothing})'
  BY ShapeStep DEF Shape, Entries, Answers
<1>3. (Cardinality(cache) <= 1)'
  <2>1. cache' = cache \/ \E x : cache' = {x}
    BY DEF Next, PublishKev, PublishNvd, SyncKev, SyncNvd, Enrich, Recompute, SaveAsset, vars
  <2>2. \A x : Cardinality({x}) = 1
    BY FS_Singleton
  <2>3. Cardinality(cache) <= 1
    BY DEF IInv, TypeOK
  <2>4. CASE cache' = cache
    BY <2>3, <2>4
  <2>5. ASSUME NEW x, cache' = {x}
        PROVE  Cardinality(cache') <= 1
    <3>1. Cardinality(cache') = 1
      BY <2>2, <2>5
    <3> QED
      BY <3>1
  <2> QED
    BY <2>1, <2>4, <2>5
<1>4. (unseen \subseteq Assets)'
  BY StepsOfTables DEF IInv, TypeOK, Untouched, Recomputed, OnlyNamed, Edited
<1>5. (verdict \in [Assets -> Verdicts \cup {NoRow}])'
  <2>1. verdict \in [Assets -> Verdicts \cup {NoRow}]
    BY DEF IInv, TypeOK, Verdicts
  <2>2. CASE Untouched
    BY <2>1, <2>2 DEF Untouched
  <2>3. CASE Recomputed
    BY <2>3, FromCveType DEF Recomputed
  <2>4. CASE OnlyNamed
    BY <2>1, <2>4 DEF OnlyNamed
  <2>5. CASE Edited
    BY <2>1, <2>5, FromCveType DEF Edited
  <2> QED
    BY <2>2, <2>3, <2>4, <2>5, StepsOfTables
<1>6. /\ Sound(Db')
      /\ (~vuln.known => vuln = Unknown /\ products = {} /\ refs = {})'
  <2>1. Sound(Db) /\ (~vuln.known => vuln = Unknown /\ products = {} /\ refs = {})
    BY DbIsSound DEF IInv, TypeOK
  <2>2. CASE SyncKev
    BY <2>2, SyncKevMeans
  <2>3. CASE SyncNvd
    BY <2>3, SyncNvdMeans
  <2>4. ASSUME NEW answer \in cache \cup {nvd}, Enrich(answer), answer.data # Nothing
        PROVE  Sound(Db') /\ vuln'.known = TRUE
    BY <2>4, EnrichMeans
  <2>5. ASSUME ~SyncKev, ~SyncNvd,
               \A answer \in cache \cup {nvd} : Enrich(answer) => answer.data = Nothing
        PROVE  UNCHANGED <<Db, vuln, products, refs>>
    BY <2>5, OtherSteps DEF Elsewhere, Db
  <2> QED
    BY <2>1, <2>2, <2>3, <2>4, <2>5
<1>7. (/\ products \subseteq Rows
       /\ \A r, s \in products :
            <<r.vendor, r.product, r.cpe>> = <<s.vendor, s.product, s.cpe>> => r = s
       /\ \A r, s \in refs : r.url = s.url => r = s)'
  BY <1>6, DbFields DEF Sound, Keyed, KeyedRefs, SameKey
<1> QED
  BY <1>2, <1>3, <1>4, <1>5, <1>6, <1>7 DEF TypeOK, Verdicts

\* Every step keeps the applied records seen.
LEMMA SettledStep ==
  ASSUME IInv, [Next]_vars
  PROVE  Settled'
<1>0. /\ Tables(Db) /\ applied \in [kev : Entries, nvd : Answers] /\ Settled
  BY DEF IInv, Shape
<1>1. CASE SyncKev
  <2>1. /\ Db' = ApplyKev(Db, kev.data) /\ applied' = [applied EXCEPT !.kev = kev]
        /\ kev.data \in KevEntries
    BY <1>1, SyncKevMeans
  <2>2. applied'.kev = kev /\ applied'.nvd = applied.nvd
    BY <1>0, <2>1
  <2>3. KevSeen(Db', kev.data)
    BY <1>0, <2>1, KevSettles
  <2>4. CASE applied.nvd.data # Nothing
    <3>1. NvdSeen(Db', applied.nvd.data, applied.nvd.seq)
      BY <1>0, <2>1, <2>4, NvdStaysSettled DEF Settled
    <3> QED
      BY <2>2, <2>3, <2>4, <3>1 DEF Settled
  <2>5. CASE applied.nvd.data = Nothing
    <3>1. vuln.nvdFields = Nothing
      BY <1>0, <2>5 DEF Settled
    <3>2. KevEffect(Db, kev.data, Db')
      BY <1>0, <2>1, ApplyKevFacts
    <3>3. vuln'.nvdFields = Current(Db).nvdFields
      BY <3>2, DbFields DEF KevEffect
    <3>4. vuln'.nvdFields = Nothing
      BY <3>1, <3>3, DbFields DEF Current, NewVuln
    <3> QED
      BY <2>2, <2>3, <2>5, <3>4 DEF Settled
  <2> QED
    BY <2>4, <2>5
<1>2. ASSUME NEW answer \in cache \cup {nvd}, answer.data # Nothing,
             Db' = ApplyNvd(Db, answer.data, answer.seq),
             applied' = [applied EXCEPT !.nvd = answer]
      PROVE  Settled'
  <2>1. applied'.nvd = answer /\ applied'.kev = applied.kev
    BY <1>0, <1>2
  <2>2. NvdSeen(Db', answer.data, answer.seq)
    BY <1>0, <1>2, NvdSettles
  <2>3. applied.kev.data # Nothing => KevSeen(Db', applied.kev.data)
    BY <1>0, <1>2, KevStaysSettled DEF Settled
  <2> QED
    BY <1>2, <2>1, <2>2, <2>3 DEF Settled
<1>3. CASE SyncNvd
  <2>1. nvd.data # Nothing
    BY <1>3 DEF SyncNvd
  <2> QED
    BY <1>2, <1>3, <2>1, SyncNvdMeans
<1>4. ASSUME NEW answer \in cache \cup {nvd}, Enrich(answer), answer.data # Nothing
      PROVE  Settled'
  BY <1>2, <1>4, EnrichMeans
<1>5. ASSUME ~SyncKev, ~SyncNvd,
             \A answer \in cache \cup {nvd} : Enrich(answer) => answer.data = Nothing
      PROVE  Settled'
  <2>1. UNCHANGED <<Db, vuln, applied>>
    BY <1>5, OtherSteps DEF Elsewhere, Db
  <2> QED
    BY <1>0, <2>1 DEF Settled
<1> QED
  BY <1>1, <1>3, <1>4, <1>5

\* The verdict an edited asset gets is the one the rows give, or none where the
\* prefilter misses an underscore.
LEMMA SavedVerdict ==
  ASSUME NEW a \in Assets
  PROVE  \/ FromAsset(a, Db) = FromCve(a, Db)
         \/ FromAsset(a, Db) = NoRow /\ Underscored(a)
<1>1. CASE Candidate(a, products, vuln)
  BY <1>1, DbFields DEF FromAsset, FromCve
<1>2. CASE ~Candidate(a, products, vuln)
  <2>1. FromAsset(a, Db) = NoRow
    BY <1>2, DbFields DEF FromAsset
  <2>2. FromCve(a, Db) = NoRow \/ Underscored(a)
    BY <1>2, DbFields, PrefilterMissesUnderscores DEF FromCve, Underscored, Underlined
  <2> QED
    BY <2>1, <2>2
<1> QED
  BY <1>1, <1>2

\* An asset whose verdict is computed now has the one the rows give.
LEMMA ExplainedStep ==
  ASSUME IInv, [Next]_vars
  PROVE  VerdictsExplained'
<1>1. CASE Untouched
  <2>1. \A a : FromCve(a, Db)' = FromCve(a, Db) /\ Underscored(a)' = Underscored(a)
    BY <1>1 DEF Untouched, FromCve, Db, Underscored
  <2> QED
    BY <1>1, <2>1 DEF Untouched, IInv, VerdictsExplained
<1>2. CASE Recomputed
  BY <1>2 DEF Recomputed, VerdictsExplained
<1>3. CASE OnlyNamed
  BY <1>3 DEF OnlyNamed, VerdictsExplained
<1>4. CASE Edited
  <2>1. PICK a \in Assets :
          /\ verdict' = [verdict EXCEPT ![a] = FromAsset(a, Db)]
          /\ unseen' = unseen \ {a}
          /\ UNCHANGED <<vuln, products>>
    BY <1>4 DEF Edited
  <2>2. \A b : FromCve(b, Db)' = FromCve(b, Db) /\ Underscored(b)' = Underscored(b)
    BY <2>1 DEF FromCve, Db, Underscored
  <2>3. verdict'[a] = FromAsset(a, Db) /\ \A b \in Assets \ {a} : verdict'[b] = verdict[b]
    BY <2>1 DEF IInv, TypeOK
  <2>4. FromAsset(a, Db) = FromCve(a, Db) \/ (FromAsset(a, Db) = NoRow /\ Underscored(a))
    BY SavedVerdict
  <2>5. ASSUME NEW b \in Assets \ unseen'
        PROVE  \/ verdict'[b] = FromCve(b, Db)'
               \/ verdict'[b] = NoRow /\ Underscored(b)'
    <3>1. CASE b = a
      BY <2>2, <2>3, <2>4, <3>1
    <3>2. CASE b # a
      BY <2>1, <2>2, <2>3, <3>2 DEF IInv, VerdictsExplained
    <3> QED
      BY <3>1, <3>2
  <2> QED
    BY <2>5 DEF VerdictsExplained
<1> QED
  BY <1>1, <1>2, <1>3, <1>4, StepsOfTables

\* Every step keeps the stored verdicts between what the rows allow, and a
\* verdict falls only where VerdictsOnlyRise says so.
LEMMA BoundedStep ==
  ASSUME IInv, [Next]_vars
  PROVE  /\ Bounded'
         /\ \A a \in Assets : verdict[a] # NoRow =>
              \/ verdict'[a] # NoRow /\ Level[verdict'[a]] >= Level[verdict[a]]
              \/ ~\E r \in products : SameProduct(a, r)
              \/ verdict'[a] = NoRow /\ Underscored(a)
<1> DEFINE Old(a) == FromCve(a, Db)
<1> DEFINE New(a) == FromCve(a, Db)'
<1>0. /\ products \subseteq products'
      /\ Untouched \/ Recomputed \/ OnlyNamed \/ Edited
  BY StepsOfTables
<1>1. ASSUME NEW a \in Assets
      PROVE  /\ verdict[a] \in Verdicts \cup {NoRow}
             /\ Old(a) = MatchAsset(a, products, vuln)
             /\ New(a) = MatchAsset(a, products', vuln')
             /\ IF Matched(a, products)
                  THEN verdict[a] # NoRow => Rank(verdict[a]) <= Rank(Old(a))
                  ELSE verdict[a] \in {NoRow, "possibly_affected"}
  <2>1. TypeOK /\ Bounded
    BY DEF IInv
  <2> QED
    BY <2>1, DbFields DEF TypeOK, Bounded, Verdicts, FromCve
<1>2. ASSUME NEW a \in Assets
      PROVE  /\ Matched(a, products) => Matched(a, products')
             /\ Matched(a, products) => Rank(Old(a)) <= Rank(New(a))
             /\ Matched(a, products') => New(a) \in Verdicts
             /\ Matched(a, products) => Old(a) \in Verdicts
             /\ ~Matched(a, products') => New(a) \in {NoRow, "possibly_affected"}
  <2>1. Matched(a, products) => Matched(a, products')
    BY <1>0 DEF Matched
  <2>2. Matched(a, products) => Rank(Old(a)) <= Rank(New(a))
    BY <1>0, <1>1, MoreRowsRaise
  <2>3. /\ Matched(a, products') => New(a) \in Verdicts
        /\ Matched(a, products) => Old(a) \in Verdicts
        /\ ~Matched(a, products') => New(a) \in {NoRow, "possibly_affected"}
    BY <1>1, MatchAssetType
  <2> QED
    BY <2>1, <2>2, <2>3
<1>3. \A s \in Verdicts : Rank(s) \in 1 .. 3
  BY RanksInOrder DEF Verdicts
<1>4. NoRow \notin Verdicts
  BY AdvisoriesAssumption DEF AdvisoriesAssumption, Verdicts
<1> DEFINE Rises(a) ==
      verdict[a] # NoRow =>
        \/ verdict'[a] # NoRow /\ Level[verdict'[a]] >= Level[verdict[a]]
        \/ ~\E r \in products : SameProduct(a, r)
        \/ verdict'[a] = NoRow /\ Underscored(a)
<1> DEFINE Holds(a) ==
      IF Matched(a, products')
        THEN verdict'[a] # NoRow => Rank(verdict'[a]) <= Rank(New(a))
        ELSE verdict'[a] \in {NoRow, "possibly_affected"}
<1> SUFFICES \A a \in Assets : Rises(a) /\ Holds(a)
  BY DEF Bounded
<1>5. ASSUME NEW a \in Assets, verdict'[a] = verdict[a]
      PROVE  Rises(a)
  <2>1. verdict[a] # NoRow => Level[verdict[a]] \in 1 .. 3
    BY <1>1, <1>3, LevelIsRank
  <2> QED
    BY <1>5, <2>1
<1>6. ASSUME NEW a \in Assets, verdict'[a] = New(a)
      PROVE  Rises(a) /\ Holds(a)
  <2>1. Holds(a)
    <3> HIDE DEF New
    <3> QED
      BY <1>2, <1>3, <1>6
  <2>2. CASE ~Matched(a, products)
    BY <2>1, <2>2 DEF Matched
  <2>3. CASE Matched(a, products)
    <3>1. verdict'[a] \in Verdicts /\ Rank(Old(a)) <= Rank(verdict'[a])
      BY <1>2, <1>6, <2>3
    <3>2. verdict[a] # NoRow => verdict[a] \in Verdicts /\ Rank(verdict[a]) <= Rank(Old(a))
      BY <1>1, <2>3
    <3>3. Old(a) \in Verdicts
      BY <1>2, <2>3
    <3> HIDE DEF Old
    <3>4. verdict[a] # NoRow => Rank(verdict[a]) <= Rank(verdict'[a])
      BY <1>3, <3>1, <3>2, <3>3
    <3> QED
      BY <1>4, <2>1, <3>1, <3>2, <3>4, <1>3, LevelIsRank
  <2> QED
    BY <2>2, <2>3
<1>7. ASSUME NEW a \in Assets, UNCHANGED <<vuln, products>>, verdict'[a] = verdict[a]
      PROVE  Holds(a)
  BY <1>1, <1>7
<1>8. CASE Untouched
  BY <1>5, <1>7, <1>8 DEF Untouched
<1>9. CASE Recomputed
  BY <1>6, <1>9 DEF Recomputed
<1>10. CASE OnlyNamed
  <2>1. PICK e \in KevEntries : products' = EnsureProducts(products, {KevRow(e)})
    BY <1>10 DEF OnlyNamed
  <2>2. products' \subseteq products \cup {KevRow(e)} /\ verdict' = verdict
    BY <1>10, <2>1, EnsureProductsFacts DEF OnlyNamed
  <2> SUFFICES ASSUME NEW a \in Assets
               PROVE  Holds(a)
    BY <1>5, <2>2
  <2>3. CASE Matched(a, products)
    <3> HIDE DEF Old, New
    <3> QED
      BY <1>1, <1>2, <1>3, <2>2, <2>3
  <2>4. CASE ~Matched(a, products) /\ ~Matched(a, products')
    BY <1>1, <2>2, <2>4
  <2>5. CASE ~Matched(a, products) /\ Matched(a, products')
    <3>1. KevRow(e) \in products' /\ SameProduct(a, KevRow(e))
      BY <2>2, <2>5 DEF Matched
    <3>2. RowSays(KevRow(e), a.version) = "unknown"
      BY NamedOnlyIsUnknown DEF KevRow, Row
    <3>3. New(a) # "not_affected"
      BY <1>1, <2>5, <3>1, <3>2, MatchAssetCases
    <3> HIDE DEF New
    <3>4. New(a) \in Verdicts
      BY <1>2, <2>5
    <3>5. Rank(New(a)) >= 2
      BY <3>3, <3>4, RanksInOrder DEF Verdicts
    <3>6. verdict[a] # NoRow => Rank(verdict[a]) = 2
      BY <1>1, <2>5, RanksInOrder
    <3> QED
      BY <2>2, <2>5, <3>5, <3>6, <1>3, <3>4
  <2> QED
    BY <2>3, <2>4, <2>5
<1>11. CASE Edited
  <2>1. PICK b \in Assets :
          /\ verdict' = [verdict EXCEPT ![b] = FromAsset(b, Db)]
          /\ UNCHANGED <<vuln, products>>
    BY <1>11 DEF Edited
  <2>2. verdict'[b] = FromAsset(b, Db) /\ \A a \in Assets \ {b} : verdict'[a] = verdict[a]
    BY <2>1 DEF IInv, TypeOK
  <2>3. CASE verdict'[b] = Old(b)
    <3>1. Old(b) = New(b)
      BY <1>1, <2>1
    <3> QED
      BY <1>5, <1>6, <1>7, <2>1, <2>2, <2>3, <3>1
  <2>4. CASE verdict'[b] = NoRow /\ Underscored(b)
    BY <1>5, <1>7, <2>1, <2>2, <2>4
  <2> QED
    BY <2>2, <2>3, <2>4, SavedVerdict
<1> QED
  BY <1>0, <1>8, <1>9, <1>10, <1>11

------------------------------------------------------------------------------
(* The theorems                                                             *)

\* The inductive invariant.
LEMMA IInvInductive ==
  Spec => []IInv
<1>1. Init => IInv
  BY InitIInv
<1>2. IInv /\ [Next]_vars => IInv'
  BY TypeOKStep, ShapeStep, InOrderStep, SettledStep, ExplainedStep, BoundedStep DEF IInv
<1> QED
  BY <1>1, <1>2, PTL DEF Spec

\* The rows have the shape the tables give them, and their unique keys hold.
THEOREM TypeCorrect ==
  Spec => []TypeOK
BY IInvInductive, PTL DEF IInv

\* Each verdict that has seen every row is the one match_asset makes of the
\* stored rows, but where the prefilter of an edited asset misses an underscore.
THEOREM VerdictsFollowRows ==
  Spec => []VerdictsExplained
BY IInvInductive, PTL DEF IInv

\* "Not affected" is said only of a version that every row of the product was
\* compared with.
THEOREM SafeVerdictsCompared ==
  Spec => []SafeMeansCompared
<1>1. IInv => SafeMeansCompared
  <2> SUFFICES ASSUME IInv, NEW a \in Assets \ unseen, verdict[a] = "not_affected"
               PROVE  /\ a.version # NoVersion
                      /\ \A r \in products : SameProduct(a, r) =>
                           \/ r.cpe # NoCpe /\ Differ(r.cpe[1], a.version)
                           \/ \E i \in 1 .. Len(r.versions) :
                                Excludes(r.versions[i], a.version)
    BY DEF SafeMeansCompared
  <2>1. NoRow # "not_affected"
    BY AdvisoriesAssumption DEF AdvisoriesAssumption
  <2>2. FromCve(a, Db) = "not_affected"
    BY <2>1 DEF IInv, VerdictsExplained
  <2>3. MatchAsset(a, products, vuln) = "not_affected"
    BY <2>2, DbFields DEF FromCve
  <2>4. products \in SUBSET Rows
    BY DEF IInv, TypeOK
  <2> QED
    BY <2>3, <2>4, SafeVerdict
<1> QED
  BY <1>1, IInvInductive, PTL

\* Neither source undoes what the other one wrote: storing again what was stored
\* last changes nothing.
THEOREM SourcesAgree ==
  Spec => []RepeatsAreQuiet
<1>1. IInv => RepeatsAreQuiet
  <2> SUFFICES ASSUME IInv
               PROVE  RepeatsAreQuiet
    OBVIOUS
  <2>1. Tables(Db) /\ Settled
    BY DEF IInv, Shape
  <2>2. applied.kev = kev /\ kev.data # Nothing => ApplyKev(Db, kev.data) = Db
    BY <2>1, KevSeenIsQuiet DEF Settled
  <2>3. applied.nvd = nvd /\ nvd.data # Nothing => ApplyNvd(Db, nvd.data, nvd.seq) = Db
    BY <2>1, NvdSeenIsQuiet DEF Settled
  <2> QED
    BY <2>2, <2>3 DEF RepeatsAreQuiet
<1> QED
  BY <1>1, IInvInductive, PTL

\* No step lowers a verdict of an asset whose product has rows.
THEOREM VerdictsRise ==
  Spec => VerdictsOnlyRise
<1>1. IInv /\ [Next]_vars =>
        [\A a \in Assets : verdict[a] # NoRow =>
           \/ verdict'[a] # NoRow /\ Level[verdict'[a]] >= Level[verdict[a]]
           \/ ~\E r \in products : SameProduct(a, r)
           \/ verdict'[a] = NoRow /\ Underscored(a)]_vars
  BY BoundedStep
<1> QED
  BY <1>1, IInvInductive, PTL DEF Spec, VerdictsOnlyRise

\* What was applied of NVD is never replaced by an older answer.
THEOREM NvdStaysNew ==
  Spec => NvdNeverGoesBack
<1>1. IInv /\ [Next]_vars => [applied'.nvd.seq >= applied.nvd.seq]_vars
  <2> SUFFICES ASSUME IInv, Next
               PROVE  applied'.nvd.seq >= applied.nvd.seq
    OBVIOUS
  <2>1. applied \in [kev : Entries, nvd : Answers] /\ MaxChanges \in Nat
    BY AdvisoriesAssumption DEF AdvisoriesAssumption, IInv, Shape
  <2>2. applied.nvd.seq \in Nat
    BY <2>1 DEF Answers
  <2>3. ASSUME NEW answer \in cache \cup {nvd}, applied' = [applied EXCEPT !.nvd = answer]
        PROVE  applied'.nvd.seq >= applied.nvd.seq
    <3>1. applied'.nvd = answer
      BY <2>1, <2>3
    <3>2. applied.nvd.seq <= answer.seq /\ answer.seq \in Nat
      BY <2>1, AnswersUsable DEF NotAfter, Answers
    <3> QED
      BY <2>2, <3>1, <3>2
  <2>4. ASSUME applied' = applied \/ applied' = [applied EXCEPT !.kev = kev]
        PROVE  applied'.nvd.seq >= applied.nvd.seq
    <3>1. applied'.nvd = applied.nvd
      BY <2>1, <2>4
    <3> QED
      BY <2>2, <3>1
  <2> QED
    BY <2>3, <2>4
      DEF Next, PublishKev, PublishNvd, SyncKev, SyncNvd, Enrich, Recompute, SaveAsset
<1> QED
  BY <1>1, IInvInductive, PTL DEF Spec, NvdNeverGoesBack

=============================================================================
