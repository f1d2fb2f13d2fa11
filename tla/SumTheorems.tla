---------------------------- MODULE SumTheorems ----------------------------
(***************************************************************************)
(* Facts about SumFunctionOnSet and SumFunction of the community modules,  *)
(* for every finite index set.  They carry the accounting theorems about   *)
(* the token ledger and about the bills.                                   *)
(*                                                                         *)
(* The sum is defined by recursion over subsets.  A "measure" of f is a    *)
(* function on all subsets that has the recursion's value and does not     *)
(* depend on the order in which elements are taken.  One exists for every  *)
(* finite set, and it is the value of the recursion; both facts are shown  *)
(* by a smallest counterexample for strict inclusion.                      *)
(***************************************************************************)
EXTENDS Integers, FiniteSets, Functions, FiniteSetTheorems,
        WellFoundedInduction, TLAPS

\* f has an integer value everywhere on S.
IntegerOn(f, S) == \A x \in S : f[x] \in Int

\* m gives every subset of S the sum of f over it.
IsMeasure(m, f, S) ==
    /\ m \in [SUBSET S -> Int]
    /\ m[{}] = 0
    /\ \A s \in SUBSET S : \A x \in S \ s : m[s \cup {x}] = m[s] + f[x]

\* The element the fold takes out of s.
Chosen(s) == CHOOSE x \in s : TRUE

\* it solves the recursion that defines the sum of f over S.
SolvesFold(it, f, S) ==
    it = [s \in SUBSET S |-> IF s = {} THEN 0
                             ELSE f[Chosen(s)] + it[s \ {Chosen(s)}]]

-----------------------------------------------------------------------------

(* A nonempty family of subsets of a finite set has a smallest member: no  *)
(* other member is strictly included in it.                                *)
LEMMA SmallestSubset ==
    ASSUME NEW S, IsFiniteSet(S), NEW T \in SUBSET SUBSET S, T # {}
    PROVE  \E r \in T : \A q \in T : q \subseteq r => q = r
<1>1. FiniteSubsetsOf(S) = SUBSET S
  BY FS_FiniteSubsetsOfFinite
<1>2. IsWellFoundedOn(StrictSubsetOrdering(S), SUBSET S)
  BY FS_StrictSubsetOrderingWellFounded, <1>1
<1>3. PICK r \in T : \A q \in T : ~ (<<q, r>> \in StrictSubsetOrdering(S))
  BY <1>2, WFMin
<1>4. \A q \in T : q \subseteq r => q = r
  BY <1>3 DEF StrictSubsetOrdering
<1> QED
  BY <1>4

(* Every integer function on a finite set has a measure.                   *)
LEMMA MeasureExists ==
    ASSUME NEW S, IsFiniteSet(S), NEW f, IntegerOn(f, S)
    PROVE  \E m : IsMeasure(m, f, S)
<1> DEFINE Bad == {s \in SUBSET S : ~ \E m : IsMeasure(m, f, s)}
<1>1. SUFFICES ASSUME Bad # {}
               PROVE  FALSE
  <2>1. S \in SUBSET S
    OBVIOUS
  <2> QED
    BY <2>1
<1>2. PICK r \in Bad : \A q \in Bad : q \subseteq r => q = r
  <2>1. Bad \in SUBSET SUBSET S
    OBVIOUS
  <2> HIDE DEF Bad
  <2> QED
    BY <1>1, <2>1, SmallestSubset
<1>3. r # {}
  <2>1. IsMeasure([s \in SUBSET {} |-> 0], f, {})
    BY DEF IsMeasure
  <2> QED
    BY <2>1, <1>2
<1>4. PICK x \in r : TRUE
  BY <1>3
<1> DEFINE q == r \ {x}
<1>5. PICK m : IsMeasure(m, f, q)
  BY <1>2, <1>4
<1> DEFINE n == [s \in SUBSET r |-> m[s \ {x}] + (IF x \in s THEN f[x] ELSE 0)]
<1>6. f[x] \in Int
  BY <1>2, <1>4 DEF IntegerOn
<1>7. n \in [SUBSET r -> Int]
  <2>1. ASSUME NEW s \in SUBSET r
        PROVE  m[s \ {x}] + (IF x \in s THEN f[x] ELSE 0) \in Int
    <3>1. s \ {x} \in SUBSET q
      OBVIOUS
    <3>2. m[s \ {x}] \in Int
      BY <3>1, <1>5 DEF IsMeasure
    <3> QED
      BY <3>2, <1>6
  <2> QED
    BY <2>1
<1>8. n[{}] = 0
  <2>1. {} \ {x} = {}
    OBVIOUS
  <2> QED
    BY <2>1, <1>5 DEF IsMeasure
<1>9. ASSUME NEW s \in SUBSET r, NEW y \in r \ s
      PROVE  n[s \cup {y}] = n[s] + f[y]
  <2>1. s \cup {y} \in SUBSET r
    OBVIOUS
  <2>2. CASE y = x
    <3>1. (s \cup {y}) \ {x} = s /\ s \ {x} = s
      BY <2>2
    <3>2. m[s] \in Int
      BY <1>5, <2>2 DEF IsMeasure
    <3> QED
      BY <2>1, <2>2, <3>1, <3>2, <1>6
  <2>3. CASE y # x
    <3>1. (s \cup {y}) \ {x} = (s \ {x}) \cup {y}
      BY <2>3
    <3>2. s \ {x} \in SUBSET q /\ y \in q \ (s \ {x})
      BY <2>3
    <3>3. m[(s \ {x}) \cup {y}] = m[s \ {x}] + f[y]
      BY <3>2, <1>5 DEF IsMeasure
    <3>4. x \in s \cup {y} <=> x \in s
      BY <2>3
    <3>5. m[s \ {x}] \in Int /\ f[y] \in Int
      BY <3>2, <1>5, <1>2 DEF IsMeasure, IntegerOn
    <3>6. n[s \cup {y}] = m[(s \cup {y}) \ {x}]
                           + (IF x \in s \cup {y} THEN f[x] ELSE 0)
      BY <2>1
    <3>7. n[s] = m[s \ {x}] + (IF x \in s THEN f[x] ELSE 0)
      OBVIOUS
    <3> HIDE DEF n, q
    <3> QED
      BY <3>1, <3>3, <3>4, <3>5, <3>6, <3>7, <1>6
  <2> QED
    BY <2>2, <2>3
<1>10. IsMeasure(n, f, r)
  BY <1>7, <1>8, <1>9 DEF IsMeasure
<1> QED
  BY <1>10, <1>2

(* The recursion that defines a sum has at most one value on each subset.  *)
LEMMA FoldUnique ==
    ASSUME NEW S, IsFiniteSet(S), NEW f, NEW g, NEW h,
           SolvesFold(g, f, S), SolvesFold(h, f, S)
    PROVE  g[S] = h[S]
<1> DEFINE Bad == {s \in SUBSET S : g[s] # h[s]}
<1>1. SUFFICES ASSUME Bad # {}
               PROVE  FALSE
  OBVIOUS
<1>2. PICK r \in Bad : \A q \in Bad : q \subseteq r => q = r
  <2>1. Bad \in SUBSET SUBSET S
    OBVIOUS
  <2> HIDE DEF Bad
  <2> QED
    BY <1>1, <2>1, SmallestSubset
<1>3. g[r] = IF r = {} THEN 0 ELSE f[Chosen(r)] + g[r \ {Chosen(r)}]
  BY <1>2 DEF SolvesFold
<1>4. h[r] = IF r = {} THEN 0 ELSE f[Chosen(r)] + h[r \ {Chosen(r)}]
  BY <1>2 DEF SolvesFold
<1>5. r # {}
  BY <1>2, <1>3, <1>4
<1>6. Chosen(r) \in r
  BY <1>5 DEF Chosen
<1>7. g[r \ {Chosen(r)}] = h[r \ {Chosen(r)}]
  BY <1>2, <1>6
<1> QED
  BY <1>2, <1>3, <1>4, <1>7

(* A measure is the value of the sum on every subset.                      *)
LEMMA MeasureIsSum ==
    ASSUME NEW S, IsFiniteSet(S), NEW f, IntegerOn(f, S),
           NEW m, IsMeasure(m, f, S), NEW R \in SUBSET S
    PROVE  SumFunctionOnSet(f, R) = m[R]
<1> DEFINE mr == [s \in SUBSET R |-> m[s]]
<1> DEFINE it == CHOOSE it : SolvesFold(it, f, R)
<1>1. SolvesFold(mr, f, R)
  <2>1. ASSUME NEW s \in SUBSET R, s # {}
        PROVE  m[s] = f[Chosen(s)] + m[s \ {Chosen(s)}]
    <3>1. Chosen(s) \in s
      BY <2>1 DEF Chosen
    <3>2. s \ {Chosen(s)} \in SUBSET S /\ Chosen(s) \in S \ (s \ {Chosen(s)})
      BY <3>1
    <3>3. (s \ {Chosen(s)}) \cup {Chosen(s)} = s
      BY <3>1
    <3>4. m[s] = m[s \ {Chosen(s)}] + f[Chosen(s)]
      BY <3>2, <3>3 DEF IsMeasure
    <3>5. m[s \ {Chosen(s)}] \in Int /\ f[Chosen(s)] \in Int
      BY <3>2 DEF IsMeasure, IntegerOn
    <3> QED
      BY <3>4, <3>5
  <2> QED
    BY <2>1 DEF IsMeasure, SolvesFold
<1>2. SolvesFold(it, f, R)
  BY <1>1
<1>3. IsFiniteSet(R)
  BY FS_Subset
<1>4. it[R] = mr[R]
  BY <1>1, <1>2, <1>3, FoldUnique
<1>5. SumFunctionOnSet(f, R) = it[R]
  BY DEF SumFunctionOnSet, FoldFunctionOnSet, MapThenFoldSet, SolvesFold, Chosen
<1> QED
  BY <1>4, <1>5

-----------------------------------------------------------------------------

(* The sum over no index is zero.                                          *)
THEOREM SumEmpty ==
    ASSUME NEW f
    PROVE  SumFunctionOnSet(f, {}) = 0
<1>1. IsFiniteSet({}) /\ IntegerOn(f, {})
  BY FS_EmptySet DEF IntegerOn
<1>2. PICK m : IsMeasure(m, f, {})
  BY <1>1, MeasureExists
<1>3. {} \in SUBSET {}
  OBVIOUS
<1>4. SumFunctionOnSet(f, {}) = m[{}]
  BY <1>1, <1>2, <1>3, MeasureIsSum
<1> QED
  BY <1>2, <1>4 DEF IsMeasure

(* A sum of integers is an integer.                                        *)
THEOREM SumIsInt ==
    ASSUME NEW S, IsFiniteSet(S), NEW f, IntegerOn(f, S), NEW R \in SUBSET S
    PROVE  SumFunctionOnSet(f, R) \in Int
<1>1. PICK m : IsMeasure(m, f, S)
  BY MeasureExists
<1>2. SumFunctionOnSet(f, R) = m[R]
  BY <1>1, MeasureIsSum
<1> QED
  BY <1>1, <1>2 DEF IsMeasure

(* One more index adds its value to the sum.                               *)
THEOREM SumAdd ==
    ASSUME NEW S, IsFiniteSet(S), NEW f, IntegerOn(f, S),
           NEW R \in SUBSET S, NEW x \in S \ R
    PROVE  SumFunctionOnSet(f, R \cup {x}) = SumFunctionOnSet(f, R) + f[x]
<1>1. PICK m : IsMeasure(m, f, S)
  BY MeasureExists
<1>2. R \cup {x} \in SUBSET S
  OBVIOUS
<1>3. m[R \cup {x}] = m[R] + f[x]
  BY <1>1 DEF IsMeasure
<1>4. SumFunctionOnSet(f, R \cup {x}) = m[R \cup {x}]
  BY <1>1, <1>2, MeasureIsSum
<1>5. SumFunctionOnSet(f, R) = m[R]
  BY <1>1, MeasureIsSum
<1> QED
  BY <1>3, <1>4, <1>5

(* Functions that agree on the index set have the same sum over it.        *)
THEOREM SumCongruence ==
    ASSUME NEW S, IsFiniteSet(S), NEW f, IntegerOn(f, S), NEW g,
           \A x \in S : g[x] = f[x]
    PROVE  SumFunctionOnSet(g, S) = SumFunctionOnSet(f, S)
<1>1. IntegerOn(g, S)
  BY DEF IntegerOn
<1>2. PICK m : IsMeasure(m, f, S)
  BY MeasureExists
<1>3. IsMeasure(m, g, S)
  BY <1>2 DEF IsMeasure
<1>4. S \in SUBSET S
  OBVIOUS
<1> QED
  BY <1>1, <1>2, <1>3, <1>4, MeasureIsSum

(* Giving one index another value changes the sum by the difference.       *)
THEOREM SumExcept ==
    ASSUME NEW S, IsFiniteSet(S), NEW f \in [S -> Int], NEW x \in S,
           NEW v \in Int
    PROVE  SumFunction([f EXCEPT ![x] = v]) = SumFunction(f) - f[x] + v
<1> DEFINE g == [f EXCEPT ![x] = v]
<1> DEFINE R == S \ {x}
<1>1. IntegerOn(f, S) /\ IntegerOn(g, S)
  BY DEF IntegerOn
<1>2. R \in SUBSET S /\ x \in S \ R /\ R \cup {x} = S
  OBVIOUS
<1>3. IsFiniteSet(R)
  BY <1>2, FS_Subset
<1>4. \A y \in R : g[y] = f[y]
  OBVIOUS
<1>5. IntegerOn(f, R)
  BY <1>1 DEF IntegerOn
<1>6. g[x] = v
  OBVIOUS
<1>7. SumFunctionOnSet(f, R) \in Int
  BY <1>1, <1>2, SumIsInt
<1>8. DOMAIN f = S /\ DOMAIN g = S
  OBVIOUS
<1> HIDE DEF g, R
<1>9. SumFunctionOnSet(g, R) = SumFunctionOnSet(f, R)
  BY <1>3, <1>4, <1>5, SumCongruence
<1>10. SumFunctionOnSet(f, S) = SumFunctionOnSet(f, R) + f[x]
  BY <1>1, <1>2, SumAdd
<1>11. SumFunctionOnSet(g, S) = SumFunctionOnSet(g, R) + g[x]
  BY <1>1, <1>2, SumAdd
<1>12. f[x] \in Int
  OBVIOUS
<1>13. SumFunctionOnSet(g, S) = SumFunctionOnSet(f, S) - f[x] + v
  BY <1>6, <1>7, <1>9, <1>10, <1>11, <1>12
<1> QED
  BY <1>8, <1>13 DEF SumFunction, g

(* A sum of naturals is at least the sum over any part of the index set.   *)
THEOREM SumMonotone ==
    ASSUME NEW S, IsFiniteSet(S), NEW f \in [S -> Nat], NEW R \in SUBSET S
    PROVE  /\ SumFunctionOnSet(f, R) \in Nat
           /\ SumFunctionOnSet(f, R) <= SumFunctionOnSet(f, S)
<1>1. IntegerOn(f, S)
  BY DEF IntegerOn
<1>2. PICK m : IsMeasure(m, f, S)
  BY <1>1, MeasureExists
<1>3. \A T \in SUBSET S : SumFunctionOnSet(f, T) = m[T]
  BY <1>1, <1>2, MeasureIsSum
<1> DEFINE Bad(Q) == {T \in SUBSET S : Q \subseteq T /\ ~ (m[Q] <= m[T])}
<1>4. ASSUME NEW Q \in SUBSET S
      PROVE  Bad(Q) = {}
  <2>1. SUFFICES ASSUME Bad(Q) # {}
                 PROVE  FALSE
    OBVIOUS
  <2>2. PICK r \in Bad(Q) : \A q \in Bad(Q) : q \subseteq r => q = r
    <3>1. Bad(Q) \in SUBSET SUBSET S
      OBVIOUS
    <3> HIDE DEF Bad
    <3> QED
      BY <2>1, <3>1, SmallestSubset
  <2>3. m[Q] \in Int /\ m[r] \in Int
    BY <1>2, <2>2 DEF IsMeasure
  <2>4. PICK x \in r : x \notin Q
    <3>1. Q # r
      BY <2>2, <2>3
    <3> QED
      BY <2>2, <3>1
  <2>5. r \ {x} \notin Bad(Q)
    BY <2>2, <2>4
  <2>6. r \ {x} \in SUBSET S /\ Q \subseteq r \ {x} /\ x \in S \ (r \ {x})
    BY <2>2, <2>4
  <2>7. m[Q] <= m[r \ {x}]
    BY <2>5, <2>6
  <2>8. (r \ {x}) \cup {x} = r
    BY <2>4
  <2>9. m[r] = m[r \ {x}] + f[x]
    BY <1>2, <2>6, <2>8 DEF IsMeasure
  <2>10. f[x] \in Nat /\ m[r \ {x}] \in Int
    BY <1>2, <2>6 DEF IsMeasure
  <2>11. ~ (m[Q] <= m[r])
    BY <2>2
  <2> QED
    BY <2>3, <2>7, <2>9, <2>10, <2>11
<1>5. m[R] <= m[S]
  BY <1>4
<1>6. m[{}] <= m[R] /\ m[{}] = 0 /\ m[R] \in Int
  BY <1>2, <1>4 DEF IsMeasure
<1> QED
  BY <1>3, <1>5, <1>6

(* Two different indices together have at most the whole sum.              *)
THEOREM SumOfTwo ==
    ASSUME NEW S, IsFiniteSet(S), NEW f \in [S -> Nat],
           NEW a \in S, NEW b \in S, a # b
    PROVE  f[a] + f[b] <= SumFunction(f)
<1>1. IntegerOn(f, S)
  BY DEF IntegerOn
<1>2. SumFunctionOnSet(f, {} \cup {a}) = SumFunctionOnSet(f, {}) + f[a]
  BY <1>1, SumAdd
<1>3. SumFunctionOnSet(f, {} \cup {a}) = f[a]
  BY <1>2, SumEmpty
<1>4. SumFunctionOnSet(f, {a} \cup {b}) = SumFunctionOnSet(f, {a}) + f[b]
  BY <1>1, SumAdd
<1>5. {} \cup {a} = {a} /\ {a} \cup {b} \in SUBSET S /\ DOMAIN f = S
  OBVIOUS
<1>6. SumFunctionOnSet(f, {a} \cup {b}) <= SumFunctionOnSet(f, S)
  BY <1>5, SumMonotone
<1> QED
  BY <1>3, <1>4, <1>5, <1>6 DEF SumFunction

(* One index alone has at most the whole sum.                              *)
THEOREM SumOfOne ==
    ASSUME NEW S, IsFiniteSet(S), NEW f \in [S -> Nat], NEW a \in S
    PROVE  f[a] <= SumFunction(f)
<1>1. IntegerOn(f, S)
  BY DEF IntegerOn
<1>2. SumFunctionOnSet(f, {} \cup {a}) = SumFunctionOnSet(f, {}) + f[a]
  BY <1>1, SumAdd
<1>3. {} \cup {a} = {a} /\ {a} \in SUBSET S /\ DOMAIN f = S
  OBVIOUS
<1>4. SumFunctionOnSet(f, {a}) <= SumFunctionOnSet(f, S)
  BY <1>3, SumMonotone
<1> QED
  BY <1>2, <1>3, <1>4, SumEmpty DEF SumFunction

(* All values zero, the sum is zero.                                       *)
THEOREM SumOfZeros ==
    ASSUME NEW S, IsFiniteSet(S)
    PROVE  SumFunction([x \in S |-> 0]) = 0
<1> DEFINE f == [x \in S |-> 0]
<1>1. IsMeasure([s \in SUBSET S |-> 0], f, S)
  BY DEF IsMeasure
<1>2. IntegerOn(f, S) /\ DOMAIN f = S /\ S \in SUBSET S
  BY DEF IntegerOn
<1>3. SumFunctionOnSet(f, S) = [s \in SUBSET S |-> 0][S]
  BY <1>1, <1>2, MeasureIsSum
<1> QED
  BY <1>2, <1>3 DEF SumFunction

-----------------------------------------------------------------------------
\* A fact about numbers that several proofs need.

(* A nonempty set of natural numbers has a least one.                      *)
LEMMA LeastNatural ==
    ASSUME NEW T \in SUBSET Nat, T # {}
    PROVE  \E x \in T : \A y \in T : x <= y
<1>1. PICK x \in T : \A y \in T : ~ (<<y, x>> \in OpToRel(<, Nat))
  BY NatLessThanWellFounded, WFMin
<1>2. \A y \in T : ~ (y < x)
  BY <1>1 DEF OpToRel
<1> QED
  BY <1>2
=============================================================================
