----------------------------- MODULE MCIngestion -----------------------------
(* Ingestion on small instances.  One unit of time is an hour in the runs    *)
(* that use HourlyInterval: LockTTL 3 and BackoffCap 6 are then the code's.  *)
EXTENDS Ingestion, TLC

\* Every source hourly; no order among them at bootstrap.
HourlyInterval == [s \in Sources |-> 1]
AnyRank == [s \in Sources |-> 0]

ThreadSymmetry == Permutations(Threads)
==============================================================================
