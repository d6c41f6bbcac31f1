------------------------------ MODULE NumberFacts ------------------------------
(* Least and greatest members of sets of numbers.                           *)
EXTENDS Integers, TLAPS, FiniteSetTheorems, WellFoundedInduction

\* A set of numbers that is not empty has a least one: of its initial pieces,
\* which are finite, one has no smaller one in it.
LEMMA LeastOf ==
  ASSUME NEW T \in SUBSET Nat, T # {}
  PROVE  \E m \in T : \A n \in T : m <= n
<1> DEFINE F == {T \cap (0 .. x) : x \in T}
<1>1. F \subseteq FiniteSubsetsOf(T)
  <2> SUFFICES ASSUME NEW x \in T
               PROVE  T \cap (0 .. x) \in FiniteSubsetsOf(T)
    OBVIOUS
  <2>1. IsFiniteSet(0 .. x)
    BY FS_Interval
  <2>2. IsFiniteSet(T \cap (0 .. x))
    BY <2>1, FS_Subset
  <2> QED
    BY <2>2 DEF FiniteSubsetsOf
<1>2. F # {}
  OBVIOUS
<1>3. PICK U \in F : \A V \in F : <<V, U>> \notin StrictSubsetOrdering(T)
  BY <1>1, <1>2, WFMin, FS_StrictSubsetOrderingWellFounded
<1>4. PICK m \in T : U = T \cap (0 .. m)
  BY <1>3
<1>5. SUFFICES ASSUME NEW n \in T, n < m
               PROVE  FALSE
  BY <1>4
<1>6. T \cap (0 .. n) \in F
  OBVIOUS
<1>7. T \cap (0 .. n) \subseteq U /\ m \in U /\ m \notin T \cap (0 .. n)
  BY <1>4, <1>5
<1> HIDE DEF F
<1> QED
  BY <1>3, <1>4, <1>6, <1>7 DEF StrictSubsetOrdering

\* A set of places in a sequence has a last one.
LEMMA GreatestOf ==
  ASSUME NEW n \in Nat, NEW T \in SUBSET (1 .. n), T # {}
  PROVE  \E m \in T : \A k \in T : k <= m
<1> DEFINE U == {k \in 0 .. n : \E m \in T : k = n - m}
<1>1. U \in SUBSET Nat
  OBVIOUS
<1>2. \A m \in T : n - m \in U
  OBVIOUS
<1>3. PICK u \in U : \A w \in U : u <= w
  BY <1>1, <1>2, LeastOf
<1>4. PICK m \in T : u = n - m
  BY <1>3
<1>5. \A k \in T : n - m <= n - k
  BY <1>2, <1>3, <1>4
<1>6. \A k \in T : k \in Int
  OBVIOUS
<1>7. \A k \in T : k <= m
  BY <1>5, <1>6
<1> QED
  BY <1>7
================================================================================
