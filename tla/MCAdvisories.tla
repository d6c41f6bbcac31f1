---------------------------- MODULE MCAdvisories ----------------------------
(* Advisories on a small instance: one vendor, versions of at most three     *)
(* parts below ten, records that show each way of naming versions once.      *)
EXTENDS Advisories, TLC

CONSTANTS b7, comma    \* parts of a version that are not numbers

Name(ws) == [words |-> ws, underscored |-> FALSE]
Os == Name(<<"os">>)
BigDb == Name(<<"big", "db">>)
Big_Db == [BigDb EXCEPT !.underscored = TRUE]
Acme == Name(<<"acme">>)
Other == Name(<<"other">>)

MCAssets ==
    {[vendor |-> Acme, product |-> Os, version |-> v] :
        v \in {NoVersion, <<1, 5>>, <<2, 0>>, <<3>>, <<b7>>}}
    \cup {[vendor |-> NoName, product |-> BigDb, version |-> <<2, 0, 1>>]}

Term(op, v) == [op |-> op, version |-> v]
From(v, w) == <<Term(">=", v), Term("<", w)>>

Match(p, v, bounds) ==
    [vulnerable |-> TRUE, vendor |-> Acme, product |-> p, version |-> v, bounds |-> bounds]
Listed(v, p, terms) == [vendor |-> v, product |-> p, versions |-> terms]

Record(matches, affected, text) ==
    [matches |-> matches, affected |-> affected, text |-> text, cwes |-> text,
     score |-> "s", urls |-> {"advisory"}, recent |-> text # Nothing]

\* A range; a range and the corrected one; two ranges of one criteria; a pinned
\* version and one that is not vulnerable; a CNA's lists.
OneRange == Record(<<Match(Os, NoVersion, From(<<1>>, <<2>>))>>, <<>>, "t1")
Corrected ==
    Record(<<Match(Os, NoVersion, <<Term(">", <<1, 9>>), Term("<=", <<3, 0>>)>>)>>,
           <<>>, Nothing)
TwoRanges ==
    Record(<<Match(Os, NoVersion, From(<<1>>, <<2>>)),
             Match(Os, NoVersion, From(<<3>>, <<4>>))>>, <<>>, "t1")
Pinned ==
    Record(<<[Match(Os, NoVersion, <<>>) EXCEPT !.vulnerable = FALSE],
             Match(Os, <<2>>, <<>>)>>, <<Listed(Acme, Os, <<Term("", <<1, 5>>)>>)>>, "t2")
Lists ==
    Record(<<>>, <<Listed(Other, Os, <<Term(">=", <<1>>), Term("<", <<2>>)>>),
                   Listed(Acme, Big_Db, <<Term("<", <<1>>), Term("<", <<3>>)>>),
                   Listed(Acme, Os, <<Term("<", <<b7>>)>>)>>, "t2")

MCNvdRecords == {OneRange, Corrected, TwoRanges, Pinned, Lists}

Entry(vendor, product, title, text) ==
    [vendor |-> vendor, product |-> product, title |-> title, text |-> text,
     fields |-> "listed", cwes |-> Nothing, urls |-> {"advisory"}]

\* The order of versions against a reference: a version as one number, which is
\* exact for up to three parts below ten.
Value(v) == 100 * Part(v, 1) + 10 * Part(v, 2) + Part(v, 3)

SmallVersions == UNION {[1 .. n -> {0, 1, 2, 9}] : n \in 1 .. 3}

ASSUME BelowIsOrder ==
    \A v, w \in SmallVersions :
        /\ Below(v, w) <=> Value(v) < Value(w)
        /\ CompareVersions(v, w) = "equal" <=> Value(v) = Value(w)

MCKevEntries ==
    {Entry(Acme, Os, "k", "kt"), Entry(Acme, BigDb, "k", "kt"), Entry(Acme, NoName, "k", Nothing)}
=============================================================================
