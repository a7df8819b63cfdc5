----------------------------- MODULE FiniteOrder -----------------------------
(***************************************************************************)
(* Facts about finite sets of numbers that the proofs of several           *)
(* components rest on.  The induction in them is over finite sets ordered  *)
(* by inclusion, whose well-foundedness FiniteSetTheorems states.          *)
(***************************************************************************)
EXTENDS Integers, FiniteSets, FiniteSetTheorems, FunctionTheorems, TLAPS

(* Among finite sets there is one that contains no other.                  *)
LEMMA SmallestSet ==
  ASSUME NEW F, F # {}, \A T \in F : IsFiniteSet(T)
  PROVE  \E T \in F : \A U \in F : U \subseteq T => U = T
  <1> DEFINE S == UNION F
  <1>1. F \subseteq FiniteSubsetsOf(S)
    BY DEF FiniteSubsetsOf
  <1>2. PICK T \in F : \A U \in F : ~(<<U, T>> \in StrictSubsetOrdering(S))
    BY <1>1, FS_StrictSubsetOrderingWellFounded, WFMin
  <1>3. ASSUME NEW U \in F, U \subseteq T, U # T PROVE FALSE
    <2>1. <<U, T>> \in StrictSubsetOrdering(S)
      BY <1>3 DEF StrictSubsetOrdering
    <2>. QED BY <1>2, <2>1
  <1>. QED BY <1>3

(* A set of natural numbers has a least one.                               *)
LEMMA LeastNumber ==
  ASSUME NEW S \in SUBSET Nat, S # {}
  PROVE  \E x \in S : \A y \in S : x <= y
  <1> DEFINE F == {1..n : n \in S}
  <1>1. F # {} /\ \A T \in F : IsFiniteSet(T)
    <2>1. ASSUME NEW n \in S PROVE IsFiniteSet(1..n)
      BY FS_Interval
    <2>2. PICK n \in S : TRUE
      OBVIOUS
    <2>3. 1..n \in F
      OBVIOUS
    <2>. QED BY <2>1, <2>3
  <1>2. PICK T \in F : \A U \in F : U \subseteq T => U = T
    <2>. HIDE DEF F
    <2>. QED BY <1>1, SmallestSet
  <1>3. PICK x \in S : T = 1..x
    BY <1>2
  <1>4. ASSUME NEW y \in S, y < x PROVE FALSE
    <2>1. 1..y \subseteq 1..x /\ 1..y \in F /\ x \in 1..x /\ x \notin 1..y
      BY <1>4
    <2>. QED BY <1>2, <1>3, <2>1
  <1>. QED BY <1>4

(* A finite set of integers has a greatest one.                            *)
LEMMA GreatestNumber ==
  ASSUME NEW S \in SUBSET Int, S # {}, IsFiniteSet(S)
  PROVE  \E x \in S : \A y \in S : y <= x
  <1> DEFINE greatest(T) == \E x \in T : \A y \in T : y <= x
             F == {T \in SUBSET S : T # {} /\ ~greatest(T)}
  <1> SUFFICES ASSUME F # {} PROVE FALSE
    OBVIOUS
  <1>1. \A T \in F : IsFiniteSet(T)
    BY FS_Subset
  <1>2. PICK T \in F : \A U \in F : U \subseteq T => U = T
    <2>. HIDE DEF F
    <2>. QED BY <1>1, SmallestSet
  <1>3. PICK x \in T : TRUE
    OBVIOUS
  <1>4. T \ {x} # {}
    BY <1>3
  <1>5. greatest(T \ {x})
    <2>1. T \ {x} \notin F
      BY <1>2, <1>3
    <2>2. T \ {x} \in SUBSET S
      OBVIOUS
    <2>. QED BY <1>4, <2>1, <2>2
  <1>6. PICK y \in T \ {x} : \A z \in T \ {x} : z <= y
    BY <1>5
  <1>7. greatest(T)
    <2>1. x \in Int /\ y \in Int
      BY <1>3, <1>6
    <2>2. CASE x <= y
      BY <1>3, <1>6, <2>2
    <2>3. CASE y <= x
      BY <1>3, <1>6, <2>1, <2>3
    <2>. QED BY <2>1, <2>2, <2>3
  <1>. QED BY <1>2, <1>7

(* A function on a finite set has finitely many values.                    *)
LEMMA ValuesAreFinite ==
  ASSUME NEW S, IsFiniteSet(S), NEW T, NEW f \in [S -> T]
  PROVE  IsFiniteSet({f[x] : x \in S})
  <1> DEFINE values == {f[x] : x \in S}
  <1>1. f \in Surjection(S, values)
    <2>1. f \in [S -> values]
      OBVIOUS
    <2>2. \A v \in values : \E x \in S : f[x] = v
      OBVIOUS
    <2>. QED BY <2>1, <2>2 DEF Surjection
  <1>. HIDE DEF values
  <1>2. IsFiniteSet(values)
    BY <1>1, FS_Surjection
  <1>. QED BY <1>2 DEF values

(* How many numbers of a set are below one of them: every count from 0 on  *)
(* occurs, once.                                                           *)
Below(S, i) == {k \in S : k < i}

LEMMA EveryRankOccurs ==
  ASSUME NEW S \in SUBSET Int, IsFiniteSet(S)
  PROVE  /\ \A i \in S : Cardinality(Below(S, i)) \in 0..(Cardinality(S) - 1)
         /\ \A i, j \in S : i < j => Cardinality(Below(S, i)) < Cardinality(Below(S, j))
         /\ \A n \in 0..(Cardinality(S) - 1) : \E i \in S : Cardinality(Below(S, i)) = n
  <1> DEFINE rank == [i \in S |-> Cardinality(Below(S, i))]
             ranks == 0..(Cardinality(S) - 1)
  <1>1. Cardinality(S) \in Nat
    BY FS_CardinalityType
  <1>2. \A i : /\ IsFiniteSet(Below(S, i)) /\ Cardinality(Below(S, i)) \in Nat
               /\ Below(S, i) \in SUBSET S
    <2>1. \A i : Below(S, i) \in SUBSET S
      BY DEF Below
    <2>. QED BY <2>1, FS_Subset, FS_CardinalityType
  <1>3. ASSUME NEW i \in S PROVE Cardinality(Below(S, i)) \in ranks
    <2>1. i \notin Below(S, i)
      BY DEF Below
    <2>2. Cardinality(Below(S, i)) <= Cardinality(S) /\ Cardinality(Below(S, i)) # Cardinality(S)
      BY <1>2, <2>1, FS_Subset
    <2>. QED BY <1>1, <1>2, <2>2
  <1>4. ASSUME NEW i \in S, NEW j \in S, i < j
        PROVE  Cardinality(Below(S, i)) < Cardinality(Below(S, j))
    <2>1. i \in Below(S, j) /\ i \notin Below(S, i)
      BY <1>4 DEF Below
    <2>3. \A k \in S : k < i => k < j
      BY <1>4
    <2>4. Below(S, i) \in SUBSET Below(S, j)
      BY <2>3 DEF Below
    <2>2. /\ Cardinality(Below(S, i)) <= Cardinality(Below(S, j))
          /\ Cardinality(Below(S, i)) # Cardinality(Below(S, j))
      BY <1>2, <2>1, <2>4, FS_Subset
    <2>. QED BY <1>2, <2>2
  <1>5. rank \in Injection(S, ranks)
    <2>1. rank \in [S -> ranks]
      BY <1>3
    <2>2. ASSUME NEW i \in S, NEW j \in S, rank[i] = rank[j] PROVE i = j
      <3>1. i \in Int /\ j \in Int /\ rank[i] \in Int
        BY <1>2
      <3>. QED BY <1>2, <1>4, <2>2, <3>1
    <2>. QED BY <2>1, <2>2 DEF Injection, IsInjective
  <1>6. IsFiniteSet(ranks) /\ Cardinality(ranks) = Cardinality(S)
    <2>1. 0 \in Int /\ Cardinality(S) - 1 \in Int
      BY <1>1
    <2>2. /\ IsFiniteSet(ranks)
          /\ Cardinality(ranks) = IF 0 > Cardinality(S) - 1 THEN 0
                                  ELSE (Cardinality(S) - 1) - 0 + 1
      BY <2>1, FS_Interval
    <2>. QED BY <1>1, <2>2
  <1>7. rank \in Surjection(S, ranks)
    BY <1>5, <1>6, FS_Injection
  <1>8. \A n \in ranks : \E i \in S : rank[i] = n
    BY <1>7 DEF Surjection
  <1>. QED BY <1>3, <1>4, <1>8
=============================================================================
