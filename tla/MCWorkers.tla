------------------------------ MODULE MCWorkers ------------------------------
(* Workers on a small instance: two CVEs, two documents that share a row and *)
(* change another, with a malformed row and a key that comes twice.          *)
EXTENDS Workers

CONSTANTS c1, c2      \* CVEs, in the order of NVD's pages

MCCves == {c1, c2}

File(key, rev, cves) == [key |-> key, rev |-> rev, cves |-> cves, ok |-> TRUE]

MCBodies ==
    <<[tag |-> "v1", rows |-> <<File("a", 1, {c1, c2}), File("b", 1, {c2}),
                                [File("x", 1, {c1}) EXCEPT !.ok = FALSE], File("b", 2, {c2})>>],
      [tag |-> "v2", rows |-> <<File("a", 3, {c1}), File("d", 1, {c2}), File("b", 1, {c2})>>]>>

MCRepos == {File("p", 0, {c1, c2}), File("p", 0, {c2}), [File("q", 0, {c1}) EXCEPT !.ok = FALSE]}
MCPlace == [c \in MCCves |-> IF c = c1 THEN 1 ELSE 2]
=============================================================================
