------------------------------- MODULE Scoring -------------------------------
(***************************************************************************)
(* services/scoring.py: the Threat Relevance Score of a CVE, in tenths of a  *)
(* point until it is rounded.  Pure operators, without state.                *)
(***************************************************************************)
EXTENDS Integers, FiniteSets

At(points, holds) == IF holds THEN 10 * points ELSE 0

Smaller(a, b) == IF a <= b THEN a ELSE b

\* min(sources_max, (n - 1) * sources_per_extra)
Sources(n) == IF n > 1 THEN 10 * Smaller(9, 3 * (n - 1)) ELSE 0

\* age is in days; it may be negative where a date lies ahead.
Recency(age) == IF age <= 7 THEN 80 ELSE IF age <= 30 THEN 40 ELSE 0

Breadth(products) == IF products >= 20 THEN 50 ELSE IF products >= 5 THEN 30 ELSE 0

\* cvss is in tenths, and counts as one point a point.
Points(i) ==
    At(25, i.inKev) + At(15, i.evidence) + At(10, i.ransomware)
    + At(12, i.exploits > 0) + At(8, i.pocs > 0 \/ i.ssvcPoc) + At(8, i.actors)
    + At(8, i.rce) + At(7, i.authBypass) + At(5, i.privilegeEscalation)
    + At(6, i.internetFacing) + i.cvss + Sources(i.sources)
    + (IF i.dated THEN Recency(i.age) ELSE 0) + Breadth(i.products)

\* Python's round: a half goes up only where that makes the number even.
Round(tenths) == (tenths + 4 + ((tenths \div 10) % 2)) \div 10

Score(i) == Round(Smaller(1000, Points(i)))
=============================================================================
