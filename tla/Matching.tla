------------------------------ MODULE Matching ------------------------------
(***************************************************************************)
(* services/rampart/matching.py: does a CVE touch an asset?  Pure           *)
(* operators, without state.                                                *)
(*                                                                         *)
(* A version is a sequence of parts, what is between its dots.  A part is a *)
(* number, or something that is not all digits.  A name (of a vendor or a   *)
(* product) is its words and whether they are written with underscores.  The *)
(* text in affected_products.versions is a sequence of terms: an operator   *)
(* and a version.  A CPE is <<>> where a row has none (the column is ""),   *)
(* and <<v>> where it names version v, NoVersion if it is a wildcard.       *)
(***************************************************************************)
EXTENDS Integers, Sequences

CONSTANTS
    Unreadable,   \* parts of a version that are not numbers
    Comma,        \* what a last part becomes when a comma is left on it
    NoRow         \* match_asset's None: the CVE and the asset are unrelated

ASSUME MatchingAssumption == Comma \in Unreadable /\ Unreadable \cap Nat = {}

NoVersion == <<>>
NoBound == <<>>
NoCpe == <<>>

(***************************************************************************)
(* Versions                                                                *)
(***************************************************************************)
\* _tokens gives up on a version with a part that is not a number.
Readable(v) == v # NoVersion /\ \A i \in 1 .. Len(v) : v[i] \notin Unreadable

\* The shorter version is filled up with zeros.
Part(v, i) == IF i <= Len(v) THEN v[i] ELSE 0

Below(a, b) ==
    \E i \in 1 .. Len(a) + Len(b) :
        /\ Part(a, i) < Part(b, i)
        /\ \A j \in 1 .. i - 1 : Part(a, j) = Part(b, j)

\* compare_versions; "none" where the two cannot be ordered.
CompareVersions(a, b) ==
    IF a = b THEN "equal"
    ELSE IF ~(Readable(a) /\ Readable(b)) THEN "none"
    ELSE IF Below(a, b) THEN "below"
    ELSE IF Below(b, a) THEN "above"
    ELSE "equal"

(***************************************************************************)
(* Ranges.  A bound is a term with an operator, or NoBound.                 *)
(***************************************************************************)
LowerOps == {">=", ">"}
UpperOps == {"<=", "<"}

\* The last bound of each direction in the text is the one that stays.
LastBound(terms, ops) ==
    LET at == {i \in 1 .. Len(terms) : terms[i].op \in ops}
    IN  IF at = {} THEN NoBound
        ELSE terms[CHOOSE i \in at : \A j \in at : j <= i]

ParseRange(terms) ==
    [lower |-> LastBound(terms, LowerOps), upper |-> LastBound(terms, UpperOps)]

NoRange(range) == range.lower = NoBound /\ range.upper = NoBound

\* The comparisons a bound's operator lets through.
Allowed == [op \in LowerOps \cup UpperOps |->
              CASE op = ">=" -> {"equal", "above"}
                [] op = ">"  -> {"above"}
                [] op = "<=" -> {"equal", "below"}
                [] op = "<"  -> {"below"}]

Against(v, bound) ==
    IF bound = NoBound THEN "in"
    ELSE LET c == CompareVersions(v, bound.version)
         IN  IF c = "none" THEN "unknown"
             ELSE IF c \in Allowed[bound.op] THEN "in" ELSE "out"

\* version_in_range: the lower bound decides first.
VersionInRange(v, range) ==
    IF NoRange(range) THEN "unknown"
    ELSE IF Against(v, range.lower) # "in" THEN Against(v, range.lower)
    ELSE Against(v, range.upper)

(***************************************************************************)
(* Names and verdicts                                                      *)
(***************************************************************************)
NoName == [words |-> <<>>, underscored |-> FALSE]
Filler == <<"n/a">>

\* normalise folds underscores, spaces and case: the words are left.
Normalise(name) == name.words

SameProduct(a, p) ==
    /\ Normalise(a.product) # <<>>
    /\ Normalise(a.product) = Normalise(p.product)
    /\ \/ Normalise(a.vendor) = Normalise(p.vendor)
       \/ {Normalise(a.vendor), Normalise(p.vendor)} \cap {<<>>, Filler} # {}

CpeVersion(cpe) == IF cpe = NoCpe THEN NoVersion ELSE cpe[1]

\* What one affected_products row says of a version.
RowSays(row, v) ==
    LET pinned == CpeVersion(row.cpe)
    IN  IF pinned = NoVersion THEN VersionInRange(v, ParseRange(row.versions))
        ELSE CASE CompareVersions(v, pinned) = "equal" -> "in"
               [] CompareVersions(v, pinned) = "none"  -> "unknown"
               [] OTHER -> "out"

\* Mutants: one row in doubt outweighs one that names the version; a row that
\* could not be compared does not count.
MatchAssetDoubtFirst(asset, rows, vuln) ==
    LET said == {RowSays(r, asset.version) : r \in {q \in rows : SameProduct(asset, q)}}
    IN  IF said = {} THEN NoRow
        ELSE IF "unknown" \in said \/ asset.version = NoVersion THEN "possibly_affected"
        ELSE IF "in" \in said THEN "affected"
        ELSE "not_affected"

MatchAssetUnlessRead(asset, rows, vuln) ==
    LET said == {RowSays(r, asset.version) : r \in {q \in rows : SameProduct(asset, q)}}
    IN  IF said = {} THEN NoRow
        ELSE IF asset.version = NoVersion THEN "possibly_affected"
        ELSE IF "in" \in said THEN "affected"
        ELSE "not_affected"

\* match_asset, up to its method, confidence and evidence.  vuln is used for
\* the KEV fallback only.
MatchAsset(asset, rows, vuln) ==
    LET candidates == {r \in rows : SameProduct(asset, r)}
        said == {RowSays(r, asset.version) : r \in candidates}
    IN  IF candidates = {}
          THEN IF vuln.inKev /\ SameProduct(asset, vuln) THEN "possibly_affected"
               ELSE NoRow
        ELSE IF asset.version = NoVersion THEN "possibly_affected"
        ELSE IF "in" \in said THEN "affected"
        ELSE IF "unknown" \in said THEN "possibly_affected"
        ELSE "not_affected"

(***************************************************************************)
(* recompute_asset's prefilter: LIKE '%words%' on the lower-cased, but not *)
(* normalised, product of a row.                                            *)
(***************************************************************************)
Like(wanted, name) ==
    \E i \in 0 .. Len(name.words) - Len(wanted) :
        /\ SubSeq(name.words, i + 1, i + Len(wanted)) = wanted
        /\ Len(wanted) > 1 => ~name.underscored

Candidate(asset, rows, vuln) ==
    \/ \E r \in rows : Like(Normalise(asset.product), r.product)
    \/ vuln.product # NoName /\ Like(Normalise(asset.product), vuln.product)
=============================================================================
