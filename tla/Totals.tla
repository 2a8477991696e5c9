------------------------------- MODULE Totals -------------------------------
(***************************************************************************)
(* Lemmas about sums over finite sets: what a sum over no element is, and  *)
(* what one more element adds; and one about sequences.  Proofs by         *)
(* induction over the size of a set are arguments about a least            *)
(* counterexample here.                                                    *)
(***************************************************************************)
EXTENDS Integers, Sequences, FiniteSetsExt, FiniteSetTheorems, WellFoundedInduction, TLAPS

(* The sum of w over S.                                                    *)
Total(w, S) == MapThenSumSet(LAMBDA x : w[x], S)

(* m gives the total of w over every subset of S.                          *)
IsTotal(m, w, S) ==
    /\ m \in [SUBSET S -> Nat]
    /\ m[{}] = 0
    /\ \A T \in SUBSET S : \A x \in S \ T : m[T \cup {x}] = m[T] + w[x]

(* A nonempty set of numbers has a least member.                           *)
LEMMA LeastNumber ==
    ASSUME NEW K \in SUBSET Nat, K # {}
    PROVE  \E k \in K : \A j \in K : k <= j
  <1>1. PICK k \in K : \A j \in K : ~ (<<j, k>> \in OpToRel(<, Nat))
    BY NatLessThanWellFounded, WFMin
  <1>2. \A j \in K : j < k => <<j, k>> \in OpToRel(<, Nat)
    BY DEF OpToRel
  <1>3. \A j \in K : ~ (j < k)
    BY <1>1, <1>2, Zenon
  <1> QED
    BY <1>3

(* A total over a set without x extends to the set with x.                 *)
LEMMA TotalExtends ==
    ASSUME NEW S, NEW x \in S, NEW w, \A y \in S : w[y] \in Nat, NEW m, IsTotal(m, w, S \ {x})
    PROVE  \E t : IsTotal(t, w, S)
  <1> DEFINE R == S \ {x}
             t == [T \in SUBSET S |-> m[T \ {x}] + IF x \in T THEN w[x] ELSE 0]
  <1>1. /\ m \in [SUBSET R -> Nat] /\ m[{}] = 0
        /\ \A T \in SUBSET R : \A y \in R \ T : m[T \cup {y}] = m[T] + w[y]
    BY DEF IsTotal
  <1>2. \A T \in SUBSET S : T \ {x} \in SUBSET R
    OBVIOUS
  <1>3. t \in [SUBSET S -> Nat]
    BY <1>1, <1>2
  <1>4. t[{}] = 0
    <2>1. {} \in SUBSET S /\ {} \ {x} = {}
      OBVIOUS
    <2> QED
      BY <1>1, <2>1
  <1>5. ASSUME NEW T \in SUBSET S, NEW y \in S \ T
        PROVE  t[T \cup {y}] = t[T] + w[y]
    <2>1. T \cup {y} \in SUBSET S
      OBVIOUS
    <2>2. m[T \ {x}] \in Nat /\ w[y] \in Nat /\ w[x] \in Nat
      BY <1>1, <1>2
    <2>3. CASE y = x
      <3>1. (T \cup {y}) \ {x} = T \ {x} /\ x \in T \cup {y} /\ x \notin T
        BY <2>3
      <3>2. t[T \cup {y}] = m[T \ {x}] + w[x]
        BY <2>1, <3>1
      <3>3. t[T] = m[T \ {x}] + 0
        BY <3>1
      <3> QED
        BY <2>2, <2>3, <3>2, <3>3
    <2>4. CASE y # x
      <3>1. (T \cup {y}) \ {x} = (T \ {x}) \cup {y} /\ y \in R \ (T \ {x})
        BY <2>4
      <3>2. m[(T \cup {y}) \ {x}] = m[T \ {x}] + w[y]
        BY <1>1, <1>2, <3>1
      <3>3. x \in T \cup {y} <=> x \in T
        BY <2>4
      <3>4. t[T \cup {y}] = (m[T \ {x}] + w[y]) + IF x \in T THEN w[x] ELSE 0
        BY <2>1, <3>2, <3>3
      <3>5. t[T] = m[T \ {x}] + IF x \in T THEN w[x] ELSE 0
        OBVIOUS
      <3> QED
        BY <2>2, <3>4, <3>5
    <2> QED
      BY <2>3, <2>4
  <1>6. IsTotal(t, w, S)
    BY <1>3, <1>4, <1>5, Zenon DEF IsTotal
  <1> QED
    BY <1>6

(* Every finite set has totals: a smallest set without them would be one   *)
(* element larger than a set with them.                                    *)
LEMMA TotalExists ==
    ASSUME NEW S, IsFiniteSet(S), NEW w, \A y \in S : w[y] \in Nat
    PROVE  \E m : IsTotal(m, w, S)
  <1> DEFINE Without(T) == T \in SUBSET S /\ ~ \E m : IsTotal(m, w, T)
             K == {k \in Nat : \E T \in SUBSET S : Cardinality(T) = k /\ Without(T)}
  <1>1. \A T \in SUBSET S : IsFiniteSet(T) /\ Cardinality(T) \in Nat
    BY FS_Subset, FS_CardinalityType
  <1> SUFFICES ASSUME K # {} PROVE FALSE
    BY <1>1
  <1>2. PICK k \in K : \A j \in K : k <= j
    <2>1. K \in SUBSET Nat
      OBVIOUS
    <2> HIDE DEF K
    <2> QED
      BY <2>1, LeastNumber
  <1>3. PICK T \in SUBSET S : Cardinality(T) = k /\ Without(T)
    OBVIOUS
  <1>4. CASE T = {}
    <2>1. IsTotal([U \in SUBSET {} |-> 0], w, {})
      BY DEF IsTotal
    <2> QED
      BY <1>3, <1>4, <2>1
  <1>5. CASE T # {}
    <2>1. PICK x \in T : TRUE
      BY <1>5
    <2>2. T \ {x} \in SUBSET S /\ Cardinality(T \ {x}) = k - 1
      BY <1>1, <1>3, <2>1, FS_RemoveElement
    <2>3. k - 1 \in Nat
      BY <1>1, <2>2
    <2>4. k - 1 \notin K
      BY <1>2
    <2>5. PICK m : IsTotal(m, w, T \ {x})
      BY <2>2, <2>3, <2>4
    <2>6. \E t : IsTotal(t, w, T)
      BY <2>1, <2>5, TotalExtends
    <2> QED
      BY <1>3, <2>6
  <1> QED
    BY <1>4, <1>5

(* The recursion by which the sum is defined, as an equation.              *)
Summing(iter, w, S) ==
    iter = [T \in SUBSET S |->
              IF T = {} THEN 0
              ELSE w[CHOOSE x \in T : TRUE] + iter[T \ {CHOOSE x \in T : TRUE}]]

(* A total solves the equation.                                            *)
LEMMA TotalSums ==
    ASSUME NEW S, NEW w, \A y \in S : w[y] \in Nat, NEW m, IsTotal(m, w, S)
    PROVE  Summing(m, w, S)
  <1>1. /\ m \in [SUBSET S -> Nat] /\ m[{}] = 0
        /\ \A T \in SUBSET S : \A x \in S \ T : m[T \cup {x}] = m[T] + w[x]
    BY DEF IsTotal
  <1>2. ASSUME NEW T \in SUBSET S, T # {}, NEW x \in T
        PROVE  m[T] = w[x] + m[T \ {x}]
    <2>1. T \ {x} \in SUBSET S /\ x \in S \ (T \ {x}) /\ (T \ {x}) \cup {x} = T
      OBVIOUS
    <2>2. m[T] = m[T \ {x}] + w[x]
      BY <1>1, <2>1
    <2>3. m[T \ {x}] \in Nat /\ w[x] \in Nat
      BY <1>1, <2>1
    <2> QED
      BY <2>2, <2>3
  <1>3. \A T \in SUBSET S : T # {} => (CHOOSE x \in T : TRUE) \in T
    OBVIOUS
  <1> DEFINE e == [T \in SUBSET S |->
                     IF T = {} THEN 0
                     ELSE w[CHOOSE x \in T : TRUE] + m[T \ {CHOOSE x \in T : TRUE}]]
  <1>4. \A T \in SUBSET S : m[T] = e[T]
    BY <1>1, <1>2, <1>3
  <1>5. m = [T \in SUBSET S |-> m[T]] /\ e = [T \in SUBSET S |-> e[T]]
    BY <1>1
  <1>6. m = e
    BY <1>4, <1>5
  <1> QED
    BY <1>6 DEF Summing

(* No two functions solve it: they would differ on a smallest set, and     *)
(* agree on that set without its chosen element.                           *)
LEMMA SumsUnique ==
    ASSUME NEW S, IsFiniteSet(S), NEW w, NEW a, NEW b, Summing(a, w, S), Summing(b, w, S)
    PROVE  \A T \in SUBSET S : a[T] = b[T]
  <1> DEFINE Differ(T) == T \in SUBSET S /\ a[T] # b[T]
             K == {k \in Nat : \E T \in SUBSET S : Cardinality(T) = k /\ Differ(T)}
  <1>1. \A T \in SUBSET S : IsFiniteSet(T) /\ Cardinality(T) \in Nat
    BY FS_Subset, FS_CardinalityType
  <1> SUFFICES ASSUME K # {} PROVE FALSE
    BY <1>1
  <1>2. PICK k \in K : \A j \in K : k <= j
    <2>1. K \in SUBSET Nat
      OBVIOUS
    <2> HIDE DEF K
    <2> QED
      BY <2>1, LeastNumber
  <1>3. PICK T \in SUBSET S : Cardinality(T) = k /\ Differ(T)
    OBVIOUS
  <1>4. CASE T = {}
    BY <1>3, <1>4 DEF Summing
  <1>5. CASE T # {}
    <2>1. PICK x \in T : x = CHOOSE y \in T : TRUE
      BY <1>5
    <2>2. T \ {x} \in SUBSET S /\ Cardinality(T \ {x}) = k - 1
      BY <1>1, <1>3, <2>1, FS_RemoveElement
    <2>3. k - 1 \in Nat
      BY <1>1, <2>2
    <2>4. k - 1 \notin K
      BY <1>2
    <2>5. a[T \ {x}] = b[T \ {x}]
      BY <2>2, <2>3, <2>4
    <2>6. a[T] = w[x] + a[T \ {x}] /\ b[T] = w[x] + b[T \ {x}]
      BY <1>5, <2>1 DEF Summing
    <2> QED
      BY <1>3, <2>5, <2>6
  <1> QED
    BY <1>4, <1>5

(* The sum is the total.                                                   *)
LEMMA TotalIs ==
    ASSUME NEW S, IsFiniteSet(S), NEW w, \A y \in S : w[y] \in Nat, NEW m, IsTotal(m, w, S)
    PROVE  Total(w, S) = m[S]
  <1> DEFINE iter == CHOOSE i : Summing(i, w, S)
  <1>1. Summing(m, w, S)
    BY TotalSums
  <1>2. Summing(iter, w, S)
    BY <1>1
  <1>3. Total(w, S) = iter[S]
    BY Zenon DEF Total, MapThenSumSet, MapThenFoldSet, Summing
  <1> HIDE DEF iter
  <1> QED
    BY <1>1, <1>2, <1>3, SumsUnique

(* The sum over no element.                                                *)
LEMMA TotalEmpty ==
    ASSUME NEW w
    PROVE  Total(w, {}) = 0
  <1> DEFINE e == [x \in {} |-> 0]
             m == [T \in SUBSET {} |-> 0]
  <1>1. IsTotal(m, e, {})
    BY DEF IsTotal
  <1>2. Summing(m, e, {})
    BY <1>1, TotalSums
  <1>3. Summing(m, w, {})
    BY <1>2 DEF Summing
  <1> DEFINE iter == CHOOSE i : Summing(i, w, {})
  <1>4. Summing(iter, w, {})
    BY <1>3
  <1>5. Total(w, {}) = iter[{}]
    BY Zenon DEF Total, MapThenSumSet, MapThenFoldSet, Summing
  <1> HIDE DEF iter
  <1> QED
    BY <1>4, <1>5 DEF Summing

(* The sum is a number, and an element adds its weight.                    *)
LEMMA TotalAdds ==
    ASSUME NEW S, IsFiniteSet(S), NEW w, \A y \in S : w[y] \in Nat
    PROVE  /\ Total(w, S) \in Nat
           /\ \A x \in S : Total(w, S) = Total(w, S \ {x}) + w[x]
  <1>1. PICK m : IsTotal(m, w, S)
    BY TotalExists
  <1>2. /\ m \in [SUBSET S -> Nat] /\ m[{}] = 0
        /\ \A T \in SUBSET S : \A x \in S \ T : m[T \cup {x}] = m[T] + w[x]
    BY <1>1 DEF IsTotal
  <1>3. Total(w, S) = m[S]
    BY <1>1, TotalIs
  <1>4. ASSUME NEW x \in S PROVE Total(w, S) = Total(w, S \ {x}) + w[x]
    <2> DEFINE r == [T \in SUBSET (S \ {x}) |-> m[T]]
    <2>1. IsTotal(r, w, S \ {x})
      <3>1. r \in [SUBSET (S \ {x}) -> Nat] /\ r[{}] = 0
        BY <1>2
      <3>2. ASSUME NEW T \in SUBSET (S \ {x}), NEW y \in (S \ {x}) \ T
            PROVE  r[T \cup {y}] = r[T] + w[y]
        <4>1. T \cup {y} \in SUBSET (S \ {x}) /\ T \in SUBSET S /\ y \in S \ T
          OBVIOUS
        <4> QED
          BY <1>2, <4>1
      <3> QED
        BY <3>1, <3>2, Zenon DEF IsTotal
    <2>2. IsFiniteSet(S \ {x})
      BY FS_Subset
    <2>3. Total(w, S \ {x}) = r[S \ {x}]
      BY <2>1, <2>2, TotalIs
    <2>4. S \ {x} \in SUBSET S /\ x \in S \ (S \ {x}) /\ (S \ {x}) \cup {x} = S
      OBVIOUS
    <2>5. m[S] = m[S \ {x}] + w[x]
      BY <1>2, <2>4
    <2> QED
      BY <1>3, <2>3, <2>5
  <1> QED
    BY <1>2, <1>3, <1>4

(* A part has no larger sum than the whole.                                *)
LEMMA TotalMonotone ==
    ASSUME NEW S, IsFiniteSet(S), NEW w, \A y \in S : w[y] \in Nat
    PROVE  \A T \in SUBSET S : Total(w, T) <= Total(w, S)
  <1> DEFINE Larger(T) == T \in SUBSET S /\ ~ (Total(w, T) <= Total(w, S))
             K == {k \in Nat : \E T \in SUBSET S : Cardinality(S \ T) = k /\ Larger(T)}
  <1>1. \A T \in SUBSET S : /\ IsFiniteSet(T) /\ IsFiniteSet(S \ T)
                            /\ Cardinality(S \ T) \in Nat
    BY FS_Subset, FS_CardinalityType
  <1>2. \A T \in SUBSET S : Total(w, T) \in Nat
    BY <1>1, TotalAdds
  <1> SUFFICES ASSUME K # {} PROVE FALSE
    BY <1>1
  <1>3. PICK k \in K : \A j \in K : k <= j
    <2>1. K \in SUBSET Nat
      OBVIOUS
    <2> HIDE DEF K
    <2> QED
      BY <2>1, LeastNumber
  <1>4. PICK T \in SUBSET S : Cardinality(S \ T) = k /\ Larger(T)
    OBVIOUS
  <1>5. T # S
    BY <1>2, <1>4
  <1>6. PICK x \in S : x \notin T
    BY <1>5
  <1> DEFINE U == T \cup {x}
  <1>7. U \in SUBSET S /\ S \ U = (S \ T) \ {x} /\ x \in S \ T /\ U \ {x} = T /\ x \in U
    BY <1>6
  <1> HIDE DEF U
  <1>8. Cardinality(S \ U) = k - 1 /\ k - 1 \in Nat /\ k \in Nat
    <2>1. Cardinality(S \ U) = Cardinality(S \ T) - 1
      <3>1. PICK D : D = S \ T
        OBVIOUS
      <3>2. IsFiniteSet(D) /\ x \in D /\ S \ U = D \ {x}
        BY <1>1, <1>7, <3>1
      <3>3. Cardinality(D \ {x}) = Cardinality(D) - 1
        BY <3>2, FS_RemoveElement
      <3> QED
        BY <3>1, <3>2, <3>3
    <2>2. Cardinality(S \ U) \in Nat /\ Cardinality(S \ T) \in Nat
      BY <1>1, <1>7
    <2> QED
      BY <1>4, <2>1, <2>2
  <1>9. k - 1 \notin K
    <2> HIDE DEF K
    <2> QED
      BY <1>3, <1>8
  <1>10. Total(w, U) <= Total(w, S)
    BY <1>7, <1>8, <1>9
  <1>11. Total(w, U) = Total(w, T) + w[x]
    <2>1. IsFiniteSet(U) /\ \A y \in U : w[y] \in Nat
      BY <1>1, <1>7
    <2>2. \A y \in U : Total(w, U) = Total(w, U \ {y}) + w[y]
      BY <2>1, TotalAdds
    <2> QED
      BY <1>7, <2>2
  <1>12. Total(w, T) \in Nat /\ Total(w, S) \in Nat /\ w[x] \in Nat
    BY <1>2
  <1> QED
    BY <1>4, <1>10, <1>11, <1>12

(* A sequence over a set is one over every larger set.                     *)
LEMMA WiderSeq ==
    ASSUME NEW S, NEW T, S \subseteq T, NEW s \in Seq(S)
    PROVE  s \in Seq(T)
  <1>1. Len(s) \in Nat /\ s \in [1..Len(s) -> S]
    OBVIOUS
  <1>2. s \in [1..Len(s) -> T]
    BY <1>1
  <1> QED
    BY <1>1, <1>2

=============================================================================
