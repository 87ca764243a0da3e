------------------------------ MODULE SumProofs ------------------------------
(* Sums over finite sets, as the folds of the community modules compute      *)
(* them, do not depend on the order of the elements.  Induction is a theorem *)
(* about sets of numbers here: a set of numbers closed under successor that  *)
(* missed m would give an injection of a finite set into a smaller one.      *)
EXTENDS Integers, SequencesExt, FiniteSetTheorems, TLAPS

(* Induction over the natural numbers, for a set of them.                    *)
LEMMA SetInduction ==
  ASSUME NEW S, 0 \in S, \A n \in Nat : n \in S => n + 1 \in S
  PROVE  Nat \subseteq S
<1> SUFFICES ASSUME NEW m \in Nat, m \notin S PROVE FALSE
  OBVIOUS
<1> DEFINE T == {n \in Nat : n \in S /\ n <= m}
           next == [n \in T |-> n + 1]
<1>1. IsFiniteSet(T)
  BY FS_BoundedSetOfNaturals
<1>2. 0 \in T /\ IsFiniteSet(T \ {0})
  BY <1>1, FS_RemoveElement
<1>3. Cardinality(T \ {0}) = Cardinality(T) - 1 /\ Cardinality(T) \in Nat
  BY <1>1, <1>2, FS_RemoveElement, FS_CardinalityType
<1>4. \A n \in T : n + 1 \in T \ {0}
  OBVIOUS
<1>5. next \in Injection(T, T \ {0})
  BY <1>4 DEF Injection, IsInjective
<1> HIDE DEF T, next
<1>6. Cardinality(T) <= Cardinality(T \ {0})
  BY <1>2, <1>5, FS_Injection
<1> QED
  BY <1>3, <1>6

(* Induction over the subsets of a finite set, by their size.                *)
LEMMA SizeInduction ==
  ASSUME NEW T, IsFiniteSet(T), NEW F, {} \in F,
         \A s \in SUBSET T : s # {} => \E x \in s : s \ {x} \in F => s \in F
  PROVE  \A s \in SUBSET T : s \in F
<1> DEFINE N == {n \in Nat : \A s \in SUBSET T : Cardinality(s) = n => s \in F}
<1>f. \A s \in SUBSET T : IsFiniteSet(s) /\ Cardinality(s) \in Nat
  BY FS_Subset, FS_CardinalityType
<1>1. 0 \in N
  BY <1>f, FS_EmptySet
<1>2. ASSUME NEW n \in Nat, n \in N PROVE n + 1 \in N
  <2> SUFFICES ASSUME NEW s \in SUBSET T, Cardinality(s) = n + 1 PROVE s \in F
    OBVIOUS
  <2>1. s # {}
    BY FS_EmptySet
  <2>2. PICK x \in s : s \ {x} \in F => s \in F
    BY <2>1
  <2>f. IsFiniteSet(s) /\ Cardinality(s) \in Nat
    BY <1>f
  <2>c. Cardinality(s \ {x}) = Cardinality(s) - 1
    BY <2>f, FS_RemoveElement
  <2>3. Cardinality(s \ {x}) = n
    BY <2>c
  <2>4. s \ {x} \in SUBSET T
    OBVIOUS
  <2>5. s \ {x} \in F
    BY <1>2, <2>3, <2>4
  <2> QED
    BY <2>2, <2>5
<1> HIDE DEF N
<1>3. Nat \subseteq N
  BY <1>1, <1>2, SetInduction
<1> QED
  BY <1>f, <1>3 DEF N

(* The function it gives every subset of S the sum of the values of v on it. *)
IsSum(it, v, S) ==
  /\ it \in [SUBSET S -> Int] /\ it[{}] = 0
  /\ \A s \in SUBSET S : \A x \in s : it[s] = v[x] + it[s \ {x}]

(* There is such a function for every finite set.                            *)
LEMMA SumExists ==
  ASSUME NEW S, IsFiniteSet(S), NEW v, \A x \in S : v[x] \in Int
  PROVE  \E it : IsSum(it, v, S)
<1> DEFINE F == {T \in SUBSET S : \E it : IsSum(it, v, T)}
<1>1. {} \in F
  <2>1. IsSum([s \in SUBSET {} |-> 0], v, {})
    BY DEF IsSum
  <2> QED
    BY <2>1
<1>2. ASSUME NEW T \in SUBSET S, NEW y \in T, T \ {y} \in F PROVE T \in F
  <2>1. PICK a : IsSum(a, v, T \ {y})
    BY <1>2
  <2> DEFINE R == T \ {y}
             b == [s \in SUBSET T |-> IF y \in s THEN v[y] + a[s \ {y}] ELSE a[s]]
  <2>2. /\ a \in [SUBSET R -> Int] /\ a[{}] = 0
        /\ \A s \in SUBSET R : \A x \in s : a[s] = v[x] + a[s \ {x}]
    BY <2>1 DEF IsSum
  <2>3. v[y] \in Int
    OBVIOUS
  <2>4. \A s \in SUBSET T : s \ {y} \in SUBSET R /\ (y \notin s => s \in SUBSET R)
    OBVIOUS
  <2> HIDE DEF R
  <2>5. b \in [SUBSET T -> Int] /\ b[{}] = 0
    BY <2>2, <2>3, <2>4
  <2>6. ASSUME NEW s \in SUBSET T, NEW x \in s PROVE b[s] = v[x] + b[s \ {x}]
    <3>1. v[x] \in Int /\ s \ {x} \in SUBSET T
      OBVIOUS
    <3>2. CASE x = y
      BY <2>4, <3>1, <3>2
    <3>3. CASE x # y /\ y \in s
      <4>1. b[s] = v[y] + a[s \ {y}]
        BY <3>3
      <4>2. b[s \ {x}] = v[y] + a[(s \ {x}) \ {y}]
        BY <3>1, <3>3
      <4>3. (s \ {x}) \ {y} = (s \ {y}) \ {x}
        OBVIOUS
      <4>4. a[s \ {y}] = v[x] + a[(s \ {y}) \ {x}] /\ a[(s \ {y}) \ {x}] \in Int
        BY <2>2, <2>4, <3>3
      <4>5. v[y] + (v[x] + a[(s \ {y}) \ {x}]) = v[x] + (v[y] + a[(s \ {y}) \ {x}])
        BY <2>3, <3>1, <4>4
      <4> QED
        BY <4>1, <4>2, <4>3, <4>4, <4>5, Zenon
    <3>4. CASE x # y /\ y \notin s
      <4>1. b[s] = a[s] /\ b[s \ {x}] = a[s \ {x}]
        BY <3>1, <3>4
      <4> QED
        BY <2>2, <2>4, <3>4, <4>1
    <3> QED
      BY <3>2, <3>3, <3>4
  <2> HIDE DEF b
  <2>7. IsSum(b, v, T)
    BY <2>5, <2>6 DEF IsSum
  <2> QED
    BY <2>7
<1> HIDE DEF F
<1>3. \A T \in SUBSET S : T # {} => \E y \in T : T \ {y} \in F => T \in F
  BY <1>2
<1>5. \A T \in SUBSET S : T \in F
  BY <1>1, <1>3, SizeInduction
<1>4. S \in F
  BY <1>5
<1> QED
  BY <1>4 DEF F

(* A function that satisfies the equation of the folds is the sum: it takes  *)
(* the elements out one by one, and any of them.                             *)
LEMMA FoldIsSum ==
  ASSUME NEW S, IsFiniteSet(S), NEW v, \A x \in S : v[x] \in Int,
         NEW it, DOMAIN it = SUBSET S, it = [s \in DOMAIN it |-> it[s]], it[{}] = 0,
         \A s \in SUBSET S : s # {} => \E x \in s : it[s] = v[x] + it[s \ {x}]
  PROVE  IsSum(it, v, S)
<1>1. PICK b : IsSum(b, v, S)
  BY SumExists
<1> DEFINE F == {s \in SUBSET S : it[s] = b[s]}
<1>2. {} \in F
  BY <1>1 DEF IsSum
<1>3. ASSUME NEW s \in SUBSET S, s # {}
      PROVE  \E x \in s : s \ {x} \in F => s \in F
  <2>1. PICK x \in s : it[s] = v[x] + it[s \ {x}]
    BY <1>3
  <2>2. b[s] = v[x] + b[s \ {x}]
    BY <1>1 DEF IsSum
  <2> QED
    BY <2>1, <2>2
<1> HIDE DEF F
<1>4. \A s \in SUBSET S : s \in F
  BY <1>2, <1>3, SizeInduction
<1>5. b \in [SUBSET S -> Int]
  BY <1>1 DEF IsSum
<1>6. it = b
  BY <1>4, <1>5 DEF F
<1> QED
  BY <1>1, <1>6

(* Two sums over the same set of the same values are equal.                  *)
LEMMA SumUnique ==
  ASSUME NEW S, IsFiniteSet(S), NEW v, NEW w, NEW a, NEW b, IsSum(a, v, S),
         IsSum(b, w, S), \A x \in S : v[x] = w[x]
  PROVE  a[S] = b[S]
<1> DEFINE F == {s \in SUBSET S : a[s] = b[s]}
<1>1. {} \in F
  BY DEF IsSum
<1>2. ASSUME NEW s \in SUBSET S, s # {}
      PROVE  \E x \in s : s \ {x} \in F => s \in F
  <2>1. PICK x \in s : TRUE
    BY <1>2
  <2>2. a[s] = v[x] + a[s \ {x}] /\ b[s] = w[x] + b[s \ {x}] /\ v[x] = w[x]
    BY DEF IsSum
  <2> QED
    BY <2>2
<1> HIDE DEF F
<1>3. \A s \in SUBSET S : s \in F
  BY <1>1, <1>2, SizeInduction
<1> QED
  BY <1>3 DEF F

(* A sum restricted to the subsets of a subset.                              *)
LEMMA SumPart ==
  ASSUME NEW S, NEW v, NEW a, IsSum(a, v, S), NEW T \in SUBSET S
  PROVE  IsSum([s \in SUBSET T |-> a[s]], v, T)
BY DEF IsSum

-----------------------------------------------------------------------------
(* What the folds compute.  Each is a recursive function of the subsets of S *)
(* that takes out the element CHOOSE names.                                  *)

FoldEquation(it, v, S) ==
  it = [s \in SUBSET S |->
          IF s = {} THEN 0
          ELSE v[CHOOSE x \in s : TRUE] + it[s \ {CHOOSE x \in s : TRUE}]]

(* The equation has a solution, and every solution is the sum.               *)
LEMMA EquationSum ==
  ASSUME NEW S, IsFiniteSet(S), NEW v, \A x \in S : v[x] \in Int
  PROVE  /\ \E it : FoldEquation(it, v, S)
         /\ \A it : FoldEquation(it, v, S) => IsSum(it, v, S)
<1>c. \A s \in SUBSET S : s # {} => (CHOOSE x \in s : TRUE) \in s
  OBVIOUS
<1>1. \E it : FoldEquation(it, v, S)
  <2>1. PICK b : IsSum(b, v, S)
    BY SumExists
  <2>2. ASSUME NEW s \in SUBSET S
        PROVE  b[s] = IF s = {} THEN 0
                 ELSE v[CHOOSE x \in s : TRUE] + b[s \ {CHOOSE x \in s : TRUE}]
    <3>1. CASE s = {}
      BY <2>1, <3>1 DEF IsSum
    <3>2. CASE s # {}
      BY <2>1, <3>2, <1>c DEF IsSum
    <3> QED
      BY <3>1, <3>2
  <2>3. b = [s \in SUBSET S |-> b[s]]
    BY <2>1 DEF IsSum
  <2>4. FoldEquation(b, v, S)
    BY <2>2, <2>3 DEF FoldEquation
  <2> QED
    BY <2>4
<1>2. ASSUME NEW it, FoldEquation(it, v, S) PROVE IsSum(it, v, S)
  <2>1. DOMAIN it = SUBSET S /\ it = [s \in DOMAIN it |-> it[s]] /\ it[{}] = 0
    BY <1>2 DEF FoldEquation
  <2>2. ASSUME NEW s \in SUBSET S, s # {}
        PROVE  \E x \in s : it[s] = v[x] + it[s \ {x}]
    <3> DEFINE c == CHOOSE x \in s : TRUE
    <3>1. it[s] = v[c] + it[s \ {c}]
      BY <1>2, <2>2 DEF FoldEquation
    <3>2. c \in s
      BY <2>2, <1>c
    <3> QED
      BY <3>1, <3>2
  <2> QED
    BY <2>1, <2>2, FoldIsSum
<1> QED
  BY <1>1, <1>2

(* So the fold of the community module computes the sum.                     *)
LEMMA SumFold ==
  ASSUME NEW S, IsFiniteSet(S), NEW v, \A x \in S : v[x] \in Int
  PROVE  \E it : IsSum(it, v, S) /\ SumFunctionOnSet(v, S) = it[S]
<1>1. SumFunctionOnSet(v, S) = (CHOOSE it : FoldEquation(it, v, S))[S]
  BY DEF SumFunctionOnSet, FoldFunctionOnSet, MapThenFoldSet, FoldEquation
<1>2. FoldEquation(CHOOSE it : FoldEquation(it, v, S), v, S)
  BY EquationSum, Zenon
<1>3. IsSum(CHOOSE it : FoldEquation(it, v, S), v, S)
  BY <1>2, EquationSum
<1> QED
  BY <1>1, <1>3

(* Two functions with the same values on a set have the same sum.            *)
LEMMA SumSame ==
  ASSUME NEW S, IsFiniteSet(S), NEW v, NEW w,
         \A x \in S : v[x] \in Int /\ v[x] = w[x]
  PROVE  SumFunctionOnSet(v, S) = SumFunctionOnSet(w, S)
<1>1. PICK a : IsSum(a, v, S) /\ SumFunctionOnSet(v, S) = a[S]
  BY SumFold
<1>2. \A x \in S : w[x] \in Int
  OBVIOUS
<1>3. PICK b : IsSum(b, w, S) /\ SumFunctionOnSet(w, S) = b[S]
  BY <1>2, SumFold
<1> QED
  BY <1>1, <1>3, SumUnique

(* A sum of integers is an integer; the empty one is zero.                   *)
LEMMA SumInt ==
  ASSUME NEW S, IsFiniteSet(S), NEW v, \A x \in S : v[x] \in Int
  PROVE  /\ SumFunctionOnSet(v, S) \in Int
         /\ S = {} => SumFunctionOnSet(v, S) = 0
<1>1. PICK a : IsSum(a, v, S) /\ SumFunctionOnSet(v, S) = a[S]
  BY SumFold
<1> QED
  BY <1>1 DEF IsSum

(* Taking one element out.                                                   *)
LEMMA SumWithout ==
  ASSUME NEW S, IsFiniteSet(S), NEW v, \A x \in S : v[x] \in Int, NEW y \in S
  PROVE  SumFunctionOnSet(v, S) = v[y] + SumFunctionOnSet(v, S \ {y})
<1>1. PICK a : IsSum(a, v, S) /\ SumFunctionOnSet(v, S) = a[S]
  BY SumFold
<1>2. IsFiniteSet(S \ {y}) /\ \A x \in S \ {y} : v[x] \in Int
  BY FS_RemoveElement
<1>3. PICK b : IsSum(b, v, S \ {y}) /\ SumFunctionOnSet(v, S \ {y}) = b[S \ {y}]
  BY <1>2, SumFold
<1> DEFINE c == [s \in SUBSET (S \ {y}) |-> a[s]]
<1>4. IsSum(c, v, S \ {y})
  BY <1>1, SumPart
<1>5. c[S \ {y}] = b[S \ {y}]
  BY <1>2, <1>3, <1>4, SumUnique
<1>6. a[S] = v[y] + a[S \ {y}]
  BY <1>1 DEF IsSum
<1> QED
  BY <1>1, <1>3, <1>5, <1>6

(* Putting one element in.                                                   *)
LEMMA SumWith ==
  ASSUME NEW S, IsFiniteSet(S), NEW v, \A x \in S : v[x] \in Int,
         NEW y, y \notin S, v[y] \in Int
  PROVE  SumFunctionOnSet(v, S \cup {y}) = v[y] + SumFunctionOnSet(v, S)
<1>1. IsFiniteSet(S \cup {y}) /\ (S \cup {y}) \ {y} = S
  BY FS_AddElement
<1> QED
  BY <1>1, SumWithout

(* Moving every index by one.                                                *)
LEMMA SumShift ==
  ASSUME NEW n \in Nat, NEW v, \A i \in 1..(n + 1) : v[i] \in Int,
         NEW w, \A i \in 1..n : w[i] = v[i + 1]
  PROVE  SumFunctionOnSet(w, 1..n) = SumFunctionOnSet(v, (1..(n + 1)) \ {1})
<1> DEFINE S == (1..(n + 1)) \ {1}
           up(s) == {i + 1 : i \in s}
<1>1. IsFiniteSet(S) /\ IsFiniteSet(1..n)
  <2>1. IsFiniteSet(1..(n + 1)) /\ IsFiniteSet(1..n)
    BY FS_Interval
  <2> QED
    BY <2>1, FS_RemoveElement
<1>2. PICK a : IsSum(a, v, S) /\ SumFunctionOnSet(v, S) = a[S]
  BY <1>1, SumFold
<1>3. \A i \in 1..n : w[i] \in Int
  OBVIOUS
<1>4. PICK b : IsSum(b, w, 1..n) /\ SumFunctionOnSet(w, 1..n) = b[1..n]
  BY <1>1, <1>3, SumFold
<1> DEFINE c == [s \in SUBSET (1..n) |-> a[up(s)]]
<1>5. up(1..n) = S /\ up({}) = {}
  <2>1. \A k \in S : k - 1 \in 1..n /\ k = (k - 1) + 1
    OBVIOUS
  <2> QED
    BY <2>1
<1>6. \A s \in SUBSET (1..n) : up(s) \in SUBSET S
  OBVIOUS
<1>7. ASSUME NEW s \in SUBSET (1..n), NEW x \in s
      PROVE  /\ x + 1 \in up(s) /\ up(s \ {x}) = up(s) \ {x + 1}
  OBVIOUS
<1> HIDE DEF S, up
<1>8. c \in [SUBSET (1..n) -> Int] /\ c[{}] = 0
  BY <1>2, <1>5, <1>6 DEF IsSum
<1>9. ASSUME NEW s \in SUBSET (1..n), NEW x \in s
      PROVE  c[s] = w[x] + c[s \ {x}]
  <2>1. a[up(s)] = v[x + 1] + a[up(s) \ {x + 1}]
    BY <1>2, <1>6, <1>7 DEF IsSum
  <2>2. w[x] = v[x + 1] /\ s \ {x} \in SUBSET (1..n)
    OBVIOUS
  <2> QED
    BY <1>7, <2>1, <2>2
<1> HIDE DEF c
<1>10. IsSum(c, w, 1..n)
  BY <1>8, <1>9 DEF IsSum
<1>11. c[1..n] = b[1..n]
  BY <1>1, <1>4, <1>10, SumUnique
<1>12. c[1..n] = a[S]
  BY <1>5 DEF c
<1> QED
  BY <1>2, <1>4, <1>11, <1>12 DEF S
=============================================================================
