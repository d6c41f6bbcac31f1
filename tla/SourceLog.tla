------------------------------ MODULE SourceLog ------------------------------
(***************************************************************************)
(* What ingestion promises about one source, without saying how: the       *)
(* source publishes items 1, 2, 3 ...; the database holds some of them; and *)
(* a cursor (sources.state) remembers up to where they were read.  Items    *)
(* are only ever added, the cursor only moves forward, and it never covers  *)
(* an item the database does not hold.                                      *)
(***************************************************************************)
EXTENDS Integers

CONSTANT Sources

VARIABLES
    upstream,   \* upstream[s]: how many items the source has published
    stored,     \* stored[s]: the items committed to the database
    cursor      \* cursor[s]: sources.state, the last item a next run skips

vars == <<upstream, stored, cursor>>

Init ==
    /\ upstream = [s \in Sources |-> 0]
    /\ stored = [s \in Sources |-> {}]
    /\ cursor = [s \in Sources |-> 0]

\* The source publishes its next item.
Publish(s) ==
    /\ upstream' = [upstream EXCEPT ![s] = @ + 1]
    /\ UNCHANGED <<stored, cursor>>

\* Items up to m arrive in the database (none, if all were there already),
\* and the cursor moves to a place that the database covers.
Import(s) ==
    /\ \E m \in cursor[s] .. upstream[s] :
         /\ stored' = [stored EXCEPT ![s] = @ \cup 1 .. m]
         /\ \E c \in cursor[s] .. upstream[s] :
              /\ 1 .. c \subseteq stored'[s]
              /\ cursor' = [cursor EXCEPT ![s] = c]
    /\ UNCHANGED upstream

Next == \E s \in Sources : Publish(s) \/ Import(s)

Spec == Init /\ [][Next]_vars
==============================================================================
