----------------------------- MODULE MCDocuments -----------------------------
(* Documents on a small instance: two names, the second in a later version of *)
(* ATT&CK; an article that speaks of the CVE in its full text only, and a    *)
(* roundup that does in its excerpt.                                        *)
EXTENDS Documents

CONSTANTS e1

Article(names, excerpt, cve, exploited, focused) ==
    [names |-> names, excerpt |-> excerpt, cve |-> cve, exploited |-> exploited,
     focused |-> focused]

MCArticles ==
    {Article({"n1", "n2"}, {"n2"}, "text", "text", TRUE),
     Article({"n1"}, {"n1"}, "excerpt", "excerpt", FALSE),
     Article({"n2"}, {}, "nowhere", "nowhere", TRUE)}

MCKnown == <<{"n1"}, {"n1", "n2"}>>
=============================================================================
