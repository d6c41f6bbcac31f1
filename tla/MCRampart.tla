------------------------------ MODULE MCRampart ------------------------------
(* Rampart on small instances: versions are numbers, and a CVE affects the   *)
(* versions of one product up to a bound.                                    *)
EXTENDS Rampart, TLC

UpTo == [product : Products, upTo : Versions]
UpToVerdict ==
    [x \in AssetData \X UpTo |->
       IF x[1].product # x[2].product THEN NoRow
       ELSE IF x[1].version <= x[2].upTo THEN "affected" ELSE "not_affected"]
SameProduct == {x \in AssetData \X UpTo : x[1].product = x[2].product}
AllStates == {"affected", "possibly_affected", "not_affected"}

Symmetry == Permutations(Txs) \cup Permutations(AssetIds)
==============================================================================
