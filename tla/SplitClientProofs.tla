------------------------- MODULE SplitClientProofs -------------------------
(***************************************************************************)
(* What the write pipeline promises, for any accounts, forms, amounts and  *)
(* numbers of transactions, and for two panels that work at the same time  *)
(* while others use the contracts.                                         *)
(*                                                                         *)
(* None of the promises is inductive.  What a panel may claim depends on   *)
(* the transaction it remembers, and what that is worth on what was built  *)
(* before it, so ClientInv has four parts: the contracts' own invariant    *)
(* (BillInv), what each transaction is (TxInv: a payment is of a form that *)
(* was sendable, a create_bill comes after a payment of its form, and what *)
(* was applied can be seen on chain), what each panel knows (JobInv: its   *)
(* transaction is nobody else's, is the one it works on, and is not out    *)
(* before it is sent), and the count of bills against payments.  The count *)
(* has to include the bill that the split panel is about to send           *)
(* (Owing): between the payment and the create_bill the two are not equal, *)
(* and without it a second create_bill could not be excluded.              *)
(*                                                                         *)
(* Two promises need more than ClientInv.  That an attempt gets nearer to  *)
(* its end needs a bound on the rounds of its loop (RoundsInv).  That the  *)
(* bill it names is new needs the count of bills at its start, which is    *)
(* kept in SplitClientAudit, compared with what its transaction recorded   *)
(* (NewInv).                                                               *)
(*                                                                         *)
(* The arithmetic comes first: computeShares loses nothing for every total *)
(* and every number of payers, and a text is read as the amount that was   *)
(* written.                                                                *)
(***************************************************************************)
EXTENDS SplitClientAudit, ContractProofs

-----------------------------------------------------------------------------
\* Shares and texts.

(* A sum of the same integer over a finite set is a multiple of it.        *)
LEMMA SumOfConstant ==
    ASSUME NEW S, IsFiniteSet(S), NEW c \in Int
    PROVE  SumFunction([x \in S |-> c]) = c * Cardinality(S)
<1> DEFINE f == [x \in S |-> c]
<1> DEFINE Bad == {s \in SUBSET S : SumFunctionOnSet(f, s) # c * Cardinality(s)}
<1>1. IntegerOn(f, S) /\ DOMAIN f = S
  BY DEF IntegerOn
<1>2. SUFFICES ASSUME Bad # {}
               PROVE  FALSE
  <2>1. S \in SUBSET S
    OBVIOUS
  <2>2. SumFunction(f) = SumFunctionOnSet(f, S)
    BY <1>1 DEF SumFunction, SumFunctionOnSet, FoldFunction
  <2> QED
    BY <2>1, <2>2
<1>3. PICK r \in Bad : \A q \in Bad : q \subseteq r => q = r
  <2>1. Bad \in SUBSET SUBSET S
    OBVIOUS
  <2> HIDE DEF Bad
  <2> QED
    BY <1>2, <2>1, SmallestSubset
<1>4. r # {}
  <2>1. SumFunctionOnSet(f, {}) = 0
    BY SumEmpty
  <2>2. Cardinality({}) = 0
    BY FS_EmptySet
  <2>3. c * 0 = 0
    OBVIOUS
  <2>4. SumFunctionOnSet(f, r) # c * Cardinality(r)
    BY <1>3
  <2> HIDE DEF f, Bad
  <2> QED
    BY <2>1, <2>2, <2>3, <2>4
<1>5. PICK x \in r : TRUE
  BY <1>4
<1> DEFINE q == r \ {x}
<1>6. q \in SUBSET S /\ x \in S \ q /\ r = q \cup {x} /\ q # r
  BY <1>3, <1>5
<1>7. IsFiniteSet(q) /\ Cardinality(q) \in Nat /\ Cardinality(r) = Cardinality(q) + 1
  <2>1. IsFiniteSet(q)
    BY <1>6, FS_Subset
  <2> HIDE DEF q
  <2> QED
    BY <1>6, <2>1, FS_AddElement, FS_CardinalityType
<1>8. SumFunctionOnSet(f, q) = c * Cardinality(q)
  BY <1>3, <1>6
<1>9. SumFunctionOnSet(f, r) = SumFunctionOnSet(f, q) + c
  <2>1. f[x] = c
    BY <1>6
  <2> HIDE DEF f, q
  <2>2. SumFunctionOnSet(f, q \cup {x}) = SumFunctionOnSet(f, q) + f[x]
    BY <1>1, <1>6, SumAdd
  <2> QED
    BY <2>1, <2>2, <1>6
<1>10. c * (Cardinality(q) + 1) = c * Cardinality(q) + c
  <2>1. ASSUME NEW n \in Nat
        PROVE  c * (n + 1) = c * n + c
    OBVIOUS
  <2> QED
    BY <2>1, <1>7
<1> HIDE DEF q, f
<1>11. SumFunctionOnSet(f, r) = c * Cardinality(r)
  BY <1>7, <1>8, <1>9, <1>10
<1> QED
  BY <1>3, <1>11

(* Division leaves a remainder below the divisor.                          *)
LEMMA BaseShareBounds ==
    ASSUME NEW total \in Nat, NEW n \in Nat \ {0}
    PROVE  /\ BaseShare(total, n) \in Nat
           /\ total - BaseShare(total, n) * n \in 0 .. n - 1
<1>1. /\ total = (n * (total \div n)) + (total % n)
      /\ total % n \in 0 .. n - 1
      /\ total \div n \in Int
  OBVIOUS
<1>2. total \div n >= 0
  OBVIOUS
<1>3. n * (total \div n) = (total \div n) * n
  <2>1. \A b \in Int : n * b = b * n
    OBVIOUS
  <2> QED
    BY <1>1, <2>1
<1> DEFINE b == total \div n
<1>4. b * n \in Int /\ total % n \in Int
  BY <1>1
<1> QED
  BY <1>1, <1>2, <1>3, <1>4 DEF BaseShare

(* The shares add up to the total: the payments that the split panel makes *)
(* move exactly what the user typed, for every total and number of payers. *)
THEOREM SharesAddUp ==
    ASSUME NEW total \in Nat, NEW n \in Nat \ {0}
    PROVE  SumFunction(ComputeShares(total, n)) = total
<1> DEFINE base == BaseShare(total, n)
<1> DEFINE even == [k \in 1 .. n |-> base]
<1>1. base \in Nat /\ total - base * n \in 0 .. n - 1
  BY BaseShareBounds
<1>2. IsFiniteSet(1 .. n) /\ Cardinality(1 .. n) = n
  BY FS_Interval
<1> HIDE DEF base
<1>3. SumFunction(even) = base * n
  <2>1. base \in Int
    BY <1>1
  <2>2. SumFunction([k \in 1 .. n |-> base]) = base * Cardinality(1 .. n)
    BY <2>1, <1>2, SumOfConstant
  <2> QED
    BY <2>2, <1>2
<1>4. even \in [1 .. n -> Int] /\ n \in 1 .. n /\ even[n] = base
  BY <1>1
<1>5. base + (total - base * n) \in Int
  BY <1>1
<1> DEFINE last == base + (total - base * n)
<1>6. SumFunction([even EXCEPT ![n] = last]) = SumFunction(even) - even[n] + last
  <2> HIDE DEF even, last
  <2> QED
    BY <1>2, <1>4, <1>5, SumExcept DEF last
<1>7. ComputeShares(total, n) = [even EXCEPT ![n] = last]
  BY DEF ComputeShares, base
<1>8. base * n \in Int
  BY <1>1
<1> HIDE DEF even
<1> QED
  BY <1>1, <1>3, <1>4, <1>6, <1>7, <1>8

(* Nobody gets less than the base share, which is what the bill records,   *)
(* and only the last payer gets more, by less than a stroop per payer.     *)
THEOREM SharesAreFair ==
    ASSUME NEW total \in Nat, NEW n \in Nat \ {0}
    PROVE  \A k \in 1 .. n :
              ComputeShares(total, n)[k] - BaseShare(total, n)
                  \in IF k = n THEN 0 .. n - 1 ELSE {0}
<1> DEFINE base == BaseShare(total, n)
<1>1. base \in Nat /\ total - base * n \in 0 .. n - 1
  BY BaseShareBounds
<1> HIDE DEF base
<1>2. ComputeShares(total, n) =
        [[k \in 1 .. n |-> base] EXCEPT ![n] = base + (total - base * n)]
  BY DEF ComputeShares, base
<1>3. base * n \in Int
  BY <1>1
<1>4. ASSUME NEW k \in 1 .. n
      PROVE  ComputeShares(total, n)[k] - base
                \in IF k = n THEN 0 .. n - 1 ELSE {0}
  BY <1>1, <1>2, <1>3
<1> QED
  BY <1>4 DEF base

-----------------------------------------------------------------------------
\* The texts.

\* f gives the number that is written with the first k digits behind n.
IsReading(f, n, digits, N) ==
    /\ f \in [0 .. N -> Nat]
    /\ f[0] = n
    /\ \A k \in 1 .. N : f[k] = 10 * f[k - 1] + digits[k]

(* Every string of digits can be read.                                     *)
LEMMA ReadingExists ==
    ASSUME NEW n \in Nat, NEW N \in Nat, NEW digits,
           \A k \in 1 .. N : digits[k] \in Nat
    PROVE  \E f : IsReading(f, n, digits, N)
<1> DEFINE Bad == {k \in 0 .. N : ~ \E f : IsReading(f, n, digits, k)}
<1>1. SUFFICES ASSUME Bad # {}
               PROVE  FALSE
  OBVIOUS
<1>2. PICK b \in Bad : \A c \in Bad : b <= c
  <2>1. Bad \in SUBSET Nat
    OBVIOUS
  <2> HIDE DEF Bad
  <2> QED
    BY <1>1, <2>1, LeastNatural
<1>3. b # 0
  <2>1. IsReading([k \in 0 .. 0 |-> n], n, digits, 0)
    BY DEF IsReading
  <2> QED
    BY <2>1, <1>2
<1>4. PICK f : IsReading(f, n, digits, b - 1)
  <2>1. b - 1 \in 0 .. N /\ b - 1 \notin Bad
    BY <1>2, <1>3
  <2> QED
    BY <2>1
<1> DEFINE g == [k \in 0 .. b |-> IF k = b THEN 10 * f[b - 1] + digits[b] ELSE f[k]]
<1>5. IsReading(g, n, digits, b)
  <2>1. b \in 1 .. N /\ digits[b] \in Nat /\ f[b - 1] \in Nat
    BY <1>2, <1>3, <1>4 DEF IsReading
  <2>2. 10 * f[b - 1] + digits[b] \in Nat
    BY <2>1
  <2>3. g \in [0 .. b -> Nat]
    BY <2>1, <2>2, <1>4 DEF IsReading
  <2>4. g[0] = n
    BY <2>1, <1>4 DEF IsReading
  <2>5. ASSUME NEW k \in 1 .. b
        PROVE  g[k] = 10 * g[k - 1] + digits[k]
    <3>1. CASE k = b
      BY <2>1, <3>1
    <3>2. CASE k # b
      <4>1. k \in 1 .. b - 1 /\ k - 1 # b
        BY <2>1, <3>2
      <4> QED
        BY <4>1, <1>4 DEF IsReading
    <3> QED
      BY <3>1, <3>2
  <2> QED
    BY <2>3, <2>4, <2>5 DEF IsReading
<1> QED
  BY <1>2, <1>5

(* What has been read in the end is the number.                            *)
LEMMA ReadingIsFollowed ==
    ASSUME NEW n \in Nat, NEW digits, Len(digits) \in Nat, NEW f,
           IsReading(f, n, digits, Len(digits))
    PROVE  Followed(n, digits) = f[Len(digits)]
<1> DEFINE N == Len(digits)
           first == CHOOSE g : g = [k \in 0 .. N |->
                              IF k = 0 THEN n ELSE 10 * g[k - 1] + digits[k]]
<1>1. f = [k \in 0 .. N |-> IF k = 0 THEN n ELSE 10 * f[k - 1] + digits[k]]
  BY DEF IsReading
<1>2. first = [k \in 0 .. N |-> IF k = 0 THEN n ELSE 10 * first[k - 1] + digits[k]]
  BY <1>1
<1>3. Followed(n, digits) = first[N]
  BY DEF Followed
<1> HIDE DEF first
<1> DEFINE Bad == {k \in 0 .. N : first[k] # f[k]}
<1>4. Bad = {}
  <2>1. SUFFICES ASSUME Bad # {}
                 PROVE  FALSE
    OBVIOUS
  <2>2. PICK b \in Bad : \A c \in Bad : b <= c
    <3>1. Bad \in SUBSET Nat
      OBVIOUS
    <3> HIDE DEF Bad
    <3> QED
      BY <2>1, <3>1, LeastNatural
  <2>3. b # 0
    BY <1>1, <1>2, <2>2
  <2>4. first[b - 1] = f[b - 1]
    BY <2>2, <2>3
  <2>5. first[b] = f[b]
    BY <1>1, <1>2, <2>2, <2>3, <2>4
  <2> QED
    BY <2>2, <2>5
<1> QED
  BY <1>3, <1>4

(* A one and so many zeros: the powers of ten.                             *)
LEMMA PowersOfTen ==
    /\ PowerOfTen(0) = 1
    /\ \A k \in Nat : /\ PowerOfTen(k) \in Nat \ {0}
                      /\ PowerOfTen(k + 1) = 10 * PowerOfTen(k)
<1> DEFINE zeros(k) == [i \in 1 .. k |-> 0]
<1>1. ASSUME NEW k \in Nat
      PROVE  Len(zeros(k)) = k
  <2>1. zeros(k) \in Seq(Nat)
    BY SeqDef
  <2>2. zeros(k) \in [1 .. Len(zeros(k)) -> Nat] /\ Len(zeros(k)) \in Nat
    BY <2>1, LenProperties
  <2> QED
    BY <2>2
<1>2. ASSUME NEW k \in Nat, NEW f, IsReading(f, 1, zeros(k), k)
      PROVE  PowerOfTen(k) = f[k]
  BY <1>1, <1>2, ReadingIsFollowed DEF PowerOfTen
<1>3. IsReading([k \in 0 .. 0 |-> 1], 1, zeros(0), 0)
  BY DEF IsReading
<1>4. PowerOfTen(0) = 1
  <2> HIDE DEF zeros
  <2> QED
    BY <1>2, <1>3
<1>5. ASSUME NEW k \in Nat
      PROVE  /\ PowerOfTen(k) \in Nat \ {0}
             /\ PowerOfTen(k + 1) = 10 * PowerOfTen(k)
  <2>1. \A i \in 1 .. k + 1 : zeros(k + 1)[i] = 0 /\ zeros(k + 1)[i] \in Nat
    OBVIOUS
  <2>2. PICK f : IsReading(f, 1, zeros(k + 1), k + 1)
    <3> HIDE DEF zeros
    <3> QED
      BY <2>1, ReadingExists
  <2> DEFINE g == [i \in 0 .. k |-> f[i]]
  <2>3. IsReading(g, 1, zeros(k), k)
    <3>1. \A i \in 1 .. k : zeros(k)[i] = zeros(k + 1)[i]
      OBVIOUS
    <3> HIDE DEF zeros
    <3>2. f \in [0 .. k + 1 -> Nat] /\ f[0] = 1
      BY <2>2 DEF IsReading
    <3>3. ASSUME NEW i \in 1 .. k
          PROVE  g[i] = 10 * g[i - 1] + zeros(k)[i]
      BY <3>1, <2>2 DEF IsReading
    <3>4. g \in [0 .. k -> Nat] /\ g[0] = 1
      BY <3>2
    <3> HIDE DEF g
    <3> QED
      BY <3>3, <3>4 DEF IsReading
  <2>4. PowerOfTen(k) = f[k] /\ PowerOfTen(k + 1) = f[k + 1]
    <3>1. g[k] = f[k]
      OBVIOUS
    <3> HIDE DEF zeros, g
    <3> QED
      BY <1>2, <2>2, <2>3, <3>1
  <2>5. f[k + 1] = 10 * f[k] /\ f[k] \in Nat
    BY <2>1, <2>2 DEF IsReading
  <2>6. \A i \in 0 .. k : f[i] # 0
    <3> DEFINE Bad == {i \in 0 .. k : f[i] = 0}
    <3>1. SUFFICES ASSUME Bad # {}
                   PROVE  FALSE
      OBVIOUS
    <3>2. PICK b \in Bad : \A c \in Bad : b <= c
      <4>1. Bad \in SUBSET Nat
        OBVIOUS
      <4> HIDE DEF Bad
      <4> QED
        BY <3>1, <4>1, LeastNatural
    <3>3. f[0] = 1
      BY <2>2 DEF IsReading
    <3>4. b - 1 \in 0 .. k /\ b \in 1 .. k + 1 /\ f[b] = 0
      BY <3>2, <3>3
    <3>5. f[b] = 10 * f[b - 1] + zeros(k + 1)[b] /\ f[b - 1] \in Nat
      BY <3>4, <2>2 DEF IsReading
    <3>6. f[b - 1] = 0
      BY <3>4, <3>5, <2>1
    <3> QED
      BY <3>2, <3>4, <3>6
  <2> QED
    BY <2>4, <2>5, <2>6
<1> QED
  BY <1>4, <1>5

(* Division by a power of ten can be done in two steps.                    *)
LEMMA DivideInSteps ==
    ASSUME NEW r \in Nat, NEW p \in Nat \ {0}
    PROVE  /\ r \div p \in Nat
           /\ r \div p = 10 * (r \div (10 * p)) + ((r \div p) % 10)
<1>1. r \div (10 * p) = (r \div p) \div 10
  OBVIOUS
<1>2. r \div p \in Nat
  OBVIOUS
<1> DEFINE q == r \div p
<1>3. q = 10 * (q \div 10) + (q % 10)
  BY <1>2
<1> QED
  BY <1>1, <1>2, <1>3

\* The digits of r, Decimals of them.
Digits(r) == [k \in 1 .. Decimals |-> (r \div PowerOfTen(Decimals - k)) % 10]

(* The digits of a number spell it.                                        *)
LEMMA DigitsSpell ==
    ASSUME NEW r \in Nat, r < Scale
    PROVE  Digits(r) \in [1 .. Decimals -> 0 .. 9] /\ Spelled(Digits(r)) = r
<1> USE AmountsAssumption
<1> DEFINE f == [k \in 0 .. Decimals |-> r \div PowerOfTen(Decimals - k)]
<1>1. ASSUME NEW k \in 0 .. Decimals
      PROVE  /\ Decimals - k \in Nat
             /\ PowerOfTen(Decimals - k) \in Nat \ {0}
             /\ f[k] \in Nat
  <2>1. Decimals - k \in Nat
    OBVIOUS
  <2>2. PowerOfTen(Decimals - k) \in Nat \ {0}
    BY <2>1, PowersOfTen
  <2> QED
    BY <2>1, <2>2, DivideInSteps
<1>2. Digits(r) \in [1 .. Decimals -> 0 .. 9]
  <2>1. ASSUME NEW k \in 1 .. Decimals
        PROVE  (r \div PowerOfTen(Decimals - k)) % 10 \in 0 .. 9
    <3>1. r \div PowerOfTen(Decimals - k) \in Nat
      BY <1>1
    <3> QED
      BY <3>1
  <2> QED
    BY <2>1 DEF Digits
<1>3. Len(Digits(r)) = Decimals
  <2>1. Digits(r) \in Seq(0 .. 9)
    BY <1>2, SeqDef
  <2> QED
    BY <2>1, <1>2, LenProperties
<1>4. f[0] = 0
  <2>1. Decimals - 0 = Decimals /\ PowerOfTen(Decimals) \in Nat \ {0}
    BY PowersOfTen
  <2> QED
    BY <2>1 DEF Scale
<1>5. ASSUME NEW k \in 1 .. Decimals
      PROVE  f[k] = 10 * f[k - 1] + Digits(r)[k]
  <2> DEFINE p == PowerOfTen(Decimals - k)
  <2>1. Decimals - (k - 1) = (Decimals - k) + 1 /\ Decimals - k \in Nat
    OBVIOUS
  <2>2. p \in Nat \ {0} /\ PowerOfTen(Decimals - (k - 1)) = 10 * p
    BY <2>1, PowersOfTen
  <2>3. f[k - 1] = r \div (10 * p) /\ f[k] = r \div p
    BY <2>2
  <2>4. Digits(r)[k] = (r \div p) % 10
    BY DEF Digits
  <2> HIDE DEF p
  <2> QED
    BY <2>2, <2>3, <2>4, DivideInSteps
<1>6. IsReading(f, 0, Digits(r), Decimals)
  <2>1. f \in [0 .. Decimals -> Nat]
    BY <1>1
  <2> QED
    BY <2>1, <1>4, <1>5 DEF IsReading
<1>7. f[Decimals] = r
  BY PowersOfTen
<1> HIDE DEF f
<1>8. Spelled(Digits(r)) = f[Decimals]
  BY <1>3, <1>6, ReadingIsFollowed DEF Spelled
<1> QED
  BY <1>2, <1>7, <1>8

(* Stripping the zeros at the end and padding with zeros again gives back  *)
(* the digits.                                                             *)
LEMMA FractionIsPadded ==
    ASSUME NEW m \in Nat
    PROVE  /\ Fraction(m) \in Seq(0 .. 9)
           /\ Len(Fraction(m)) <= Decimals
           /\ Padded(Fraction(m)) = Digits(m % Scale)
<1> USE AmountsAssumption
<1> DEFINE all   == Digits(m % Scale)
           zeros == {k \in 1 .. Decimals : \A j \in k .. Decimals : all[j] = 0}
           left  == Decimals - Cardinality(zeros)
<1>1. Scale \in Nat \ {0}
  BY PowersOfTen DEF Scale
<1>2. m % Scale \in Nat /\ m % Scale < Scale
  BY <1>1
<1>3. all \in [1 .. Decimals -> 0 .. 9]
  BY <1>2, DigitsSpell
<1>4. Fraction(m) = SubSeq(all, 1, left)
  BY DEF Fraction, Digits
<1> HIDE DEF all
<1>5. PICK c \in 0 .. Decimals : zeros = c + 1 .. Decimals
  <2>1. CASE zeros = {}
    <3>1. zeros = Decimals + 1 .. Decimals
      BY <2>1
    <3> QED
      BY <3>1
  <2>2. CASE zeros # {}
    <3>1. PICK z \in zeros : \A y \in zeros : z <= y
      <4>1. zeros \in SUBSET Nat
        OBVIOUS
      <4> HIDE DEF zeros
      <4> QED
        BY <2>2, <4>1, LeastNatural
    <3>2. zeros = (z - 1) + 1 .. Decimals
      BY <3>1
    <3>3. z - 1 \in 0 .. Decimals
      BY <3>1
    <3> HIDE DEF zeros
    <3> QED
      BY <3>2, <3>3
  <2> QED
    BY <2>1, <2>2
<1>6. left = c
  <2> HIDE DEF zeros
  <2>1. Cardinality(c + 1 .. Decimals) = Decimals - c
    <3>1. c + 1 \in Int /\ Decimals \in Int
      OBVIOUS
    <3>2. Cardinality(c + 1 .. Decimals)
            = IF c + 1 > Decimals THEN 0 ELSE Decimals - (c + 1) + 1
      BY <3>1, FS_Interval
    <3> QED
      BY <3>2
  <2> QED
    BY <2>1, <1>5
<1>7. /\ Fraction(m) \in Seq(0 .. 9)
      /\ Len(Fraction(m)) = c
      /\ \A k \in 1 .. c : Fraction(m)[k] = all[k]
  <2>1. \A k \in 1 .. c : all[k] \in 0 .. 9
    BY <1>3
  <2> HIDE DEF zeros, left
  <2> QED
    BY <2>1, <1>4, <1>6, SubSeqProperties
<1>8. ASSUME NEW k \in 1 .. Decimals
      PROVE  Padded(Fraction(m))[k] = all[k]
  <2>1. CASE k <= c
    BY <2>1, <1>7 DEF Padded
  <2>2. CASE c < k
    <3>1. k \in zeros
      <4> HIDE DEF zeros
      <4> QED
        BY <2>2, <1>5
    <3>2. all[k] = 0
      BY <3>1
    <3> QED
      BY <2>2, <3>2, <1>7 DEF Padded
  <2> QED
    BY <2>1, <2>2
<1>9. Padded(Fraction(m)) = all
  <2>1. DOMAIN Padded(Fraction(m)) = 1 .. Decimals
    BY DEF Padded
  <2>2. Padded(Fraction(m)) = [k \in 1 .. Decimals |-> Padded(Fraction(m))[k]]
    BY DEF Padded
  <2>3. all = [k \in 1 .. Decimals |-> all[k]]
    BY <1>3
  <2> HIDE DEF zeros, left
  <2> QED
    BY <2>2, <2>3, <1>8
<1> QED
  BY <1>7, <1>9 DEF all

(* An amount of stroops that the page writes as a text of XLM is worth the *)
(* same again, for everything that reads the text.                         *)
THEOREM TextsKeepTheirWorth ==
    ASSUME NEW m \in Nat
    PROVE  /\ StroopsToXlm(m) \in Text
           /\ Worth(StroopsToXlm(m)) = m
<1>1. Scale \in Nat \ {0}
  BY AmountsAssumption, PowersOfTen DEF Scale
<1>2. m % Scale \in Nat /\ m % Scale < Scale
  BY <1>1
<1>3. m = (m \div Scale) * Scale + (m % Scale) /\ m \div Scale \in Nat
  <2>1. m = Scale * (m \div Scale) + (m % Scale) /\ m \div Scale \in Int
    BY <1>1
  <2>2. m \div Scale >= 0
    BY <1>1
  <2>3. \A b \in Int : Scale * b = b * Scale
    BY <1>1
  <2> QED
    BY <2>1, <2>2, <2>3
<1>4. StroopsToXlm(m) = [neg |-> FALSE, whole |-> m \div Scale, frac |-> Fraction(m)]
  <2>1. ~ (m < 0) /\ (m < 0) = FALSE
    OBVIOUS
  <2> QED
    BY <2>1, Zenon DEF StroopsToXlm
<1>5. Spelled(Padded(Fraction(m))) = m % Scale
  BY <1>2, FractionIsPadded, DigitsSpell
<1>6. Fraction(m) \in Seq(0 .. 9)
  BY FractionIsPadded
<1> DEFINE text == [neg |-> FALSE, whole |-> m \div Scale, frac |-> Fraction(m)]
<1>7. text \in Text
  BY <1>3, <1>6 DEF Text
<1>8. Worth(text) = (m \div Scale) * Scale + (m % Scale)
  BY <1>5 DEF Worth
<1> QED
  BY <1>3, <1>4, <1>7, <1>8

(* What is typed is worth a whole number of stroops.                       *)
LEMMA WorthType ==
    ASSUME NEW text \in Text
    PROVE  Worth(text) \in Int
<1> USE AmountsAssumption
<1> DEFINE digits == Padded(text.frac)
<1>1. Scale \in Nat
  BY PowersOfTen DEF Scale
<1>2. text.frac \in Seq(0 .. 9) /\ text.whole \in Nat /\ text.neg \in BOOLEAN
  BY DEF Text
<1>3. digits \in [1 .. Decimals -> Nat]
  <2>1. ASSUME NEW k \in 1 .. Decimals
        PROVE  (IF k <= Len(text.frac) THEN text.frac[k] ELSE 0) \in Nat
    BY <1>2
  <2> QED
    BY <2>1 DEF Padded
<1>4. Len(digits) = Decimals
  <2>1. digits \in Seq(Nat)
    BY <1>3, SeqDef
  <2> QED
    BY <2>1, <1>3, LenProperties
<1> HIDE DEF digits
<1>5. PICK f : IsReading(f, 0, digits, Decimals)
  <2>1. \A k \in 1 .. Decimals : digits[k] \in Nat
    BY <1>3
  <2> QED
    BY <2>1, ReadingExists
<1>6. Spelled(digits) = f[Decimals]
  BY <1>4, <1>5, ReadingIsFollowed DEF Spelled
<1>7. Spelled(digits) \in Nat
  BY <1>5, <1>6 DEF IsReading
<1>8. text.whole * Scale \in Nat
  BY <1>1, <1>2
<1> DEFINE magnitude == text.whole * Scale + Spelled(digits)
<1>9. magnitude \in Int
  BY <1>7, <1>8
<1>10. Worth(text) = IF text.neg THEN -magnitude ELSE magnitude
  BY DEF Worth, digits
<1> HIDE DEF magnitude
<1> QED
  BY <1>9, <1>10

-----------------------------------------------------------------------------
\* Forms and what is paid for them.

(* The shares of a total are amounts.                                      *)
LEMMA SharesType ==
    ASSUME NEW total \in Nat, NEW n \in Nat \ {0}
    PROVE  ComputeShares(total, n) \in [1 .. n -> Nat]
<1> DEFINE base == BaseShare(total, n)
<1>1. base \in Nat /\ total - base * n \in 0 .. n - 1
  BY BaseShareBounds
<1>2. base + (total - base * n) \in Nat
  <2>1. base * n \in Int
    BY <1>1
  <2> QED
    BY <1>1, <2>1
<1> HIDE DEF base
<1>3. [k \in 1 .. n |-> base] \in [1 .. n -> Nat]
  BY <1>1
<1> QED
  BY <1>2, <1>3 DEF ComputeShares, base

(* A form that passes the page's own checks has at least one payer and a   *)
(* positive total, and what the network reads off its payments are the     *)
(* shares that computeShares gives.                                        *)
LEMMA FormFacts ==
    ASSUME NEW form \in Forms, ValidForm(form)
    PROVE  /\ form.payers \in Seq(Address)
           /\ Len(form.payers) \in Nat \ {0}
           /\ Worth(form.total) \in Nat \ {0}
           /\ Bytes(form.memo) \in Nat
           /\ Recorded(form) \in Nat
           /\ Moved(form) = ComputeShares(Worth(form.total), Len(form.payers))
           /\ Moved(form) \in [1 .. Len(form.payers) -> Nat]
<1> DEFINE n == Len(form.payers)
           total == Worth(form.total)
           shares == ComputeShares(total, n)
<1>1. /\ form.payers \in Seq(Address) /\ form.total \in Text
      /\ form.memo \in Memo
  BY ClientAssumption
<1>2. n \in Nat \ {0} /\ DOMAIN form.payers = 1 .. n
  BY <1>1 DEF ValidForm
<1>3. total \in Nat \ {0}
  <2>1. total \in Int
    BY <1>1, WorthType
  <2>2. total > 0
    BY DEF ValidForm, ValidAmount
  <2> QED
    BY <2>1, <2>2
<1>4. Bytes(form.memo) \in Nat
  <2>1. form.memo.units \in Nat /\ form.memo.width \in Nat
    BY <1>1 DEF Memo
  <2> QED
    BY <2>1 DEF Bytes
<1> HIDE DEF n, total
<1>5. shares \in [1 .. n -> Nat]
  BY <1>2, <1>3, SharesType
<1>6. Recorded(form) \in Nat
  BY <1>2, <1>3, BaseShareBounds DEF Recorded, n, total
<1> HIDE DEF shares
<1>7. Payments(form) = [k \in 1 .. n |-> StroopsToXlm(shares[k])]
  BY <1>2 DEF Payments, n, total, shares
<1>8. ASSUME NEW k \in 1 .. n
      PROVE  Worth(Payments(form)[k]) = shares[k]
  <2>1. shares[k] \in Nat
    BY <1>5
  <2>2. Payments(form)[k] = StroopsToXlm(shares[k])
    BY <1>7
  <2> QED
    BY <2>1, <2>2, TextsKeepTheirWorth
<1>9. Moved(form) = [k \in 1 .. n |-> shares[k]]
  BY <1>2, <1>8 DEF Moved
<1>10. Moved(form) = shares
  BY <1>5, <1>9
<1> QED
  BY <1>1, <1>2, <1>3, <1>4, <1>5, <1>6, <1>10 DEF n, total, shares

\* What sendXlmSplit is called with, and accepts.
Sendable(form) == form \in Forms /\ ValidForm(form) /\ Payable(form)

(* The share recorded for a form whose payments the SDK accepts is         *)
(* positive and far from the limits of the registry.                       *)
LEMMA SendableFacts ==
    ASSUME NEW form, Sendable(form)
    PROVE  /\ Recorded(form) \in 1 .. MaxI64
           /\ Recorded(form) \in I128
           /\ form.memo.blank \/ Bytes(form.memo) <= MaxMemoLen
<1> DEFINE n == Len(form.payers)
           total == Worth(form.total)
           shares == ComputeShares(total, n)
<1>1. /\ form \in Forms /\ ValidForm(form)
      /\ n \in Nat \ {0} /\ total \in Nat
      /\ Bytes(form.memo) \in Nat
      /\ Recorded(form) \in Nat
      /\ Moved(form) = shares
      /\ form.payers \in Seq(Address)
  BY FormFacts DEF Sendable
<1>2. \A k \in DOMAIN form.payers : Moved(form)[k] \in 1 .. MaxI64
  BY DEF Sendable, Payable, Moved
<1>3. 1 \in DOMAIN form.payers /\ 1 \in 1 .. n
  BY <1>1
<1>4. Recorded(form) = BaseShare(total, n)
  BY DEF Recorded
<1> HIDE DEF n, total
<1>5. shares[1] - BaseShare(total, n) \in IF 1 = n THEN 0 .. n - 1 ELSE {0}
  BY <1>1, <1>3, SharesAreFair
<1>6. shares[1] \in 1 .. MaxI64
  BY <1>1, <1>2, <1>3
<1> HIDE DEF shares
<1>7. shares[1] = Recorded(form)
  BY <1>1, <1>4, <1>5, <1>6
<1>8. MaxI64 \in 0 .. MaxI128 /\ MaxI128 \in Nat /\ MaxMemoText \in 0 .. MaxMemoLen
  BY ClientAssumption, TokenAssumption
<1>9. (form.memo.blank \/ Bytes(form.memo) <= MaxMemoText) /\ MaxMemoLen \in Nat
  BY BillAssumption DEF Sendable, Payable
<1> QED
  BY <1>1, <1>6, <1>7, <1>8, <1>9 DEF I128

-----------------------------------------------------------------------------
\* The invariant.

\* The calls a panel makes.
CallsOf(p) == IF p = "split" THEN {"xlm", "create_bill"} ELSE {"settle"}

Job == [phase : Working \cup {"idle", "success", "failed"}, call : Calls,
        form : Forms \cup {NoForm}, bill : 0 .. MaxU32, record : BOOLEAN,
        cur : Nat, waited : Nat, error : Categories, result : 0 .. MaxU32]

\* Transaction j of ts paid the payees of the form.
Paid(ts, j, form) ==
    ts[j].call = "xlm" /\ ts[j].form = form /\ ts[j].state = "SUCCESS"

IsSettlement(t) == t.call = "settle" /\ t.state = "SUCCESS"

\* A transaction is what its attempt made it: payments are of a form that was
\* sendable, a create_bill comes after payments of its form, and what was
\* applied can be seen on chain.
TxInv(ts, i, bs, marks) ==
    LET t == ts[i] IN
    /\ t.call # "settle" => t.bill = 0 /\ Sendable(t.form)
    /\ t.call = "settle" => t.form = NoForm
    /\ t.call = "create_bill" =>
          /\ t.share = Recorded(t.form)
          /\ \E j \in 1 .. i - 1 : Paid(ts, j, t.form)
    /\ (t.call = "create_bill" /\ t.state = "SUCCESS") =>
          /\ t.result \in DOMAIN bs
          /\ bs[t.result] = [creator |-> User, payers |-> t.form.payers,
                             share |-> t.share]
    /\ IsSettlement(t) => <<t.bill, User>> \in marks

TxsInv(ts, bs, marks) ==
    /\ ts \in Seq(TxRecord)
    /\ \A i \in DOMAIN ts : TxInv(ts, i, bs, marks)
    /\ \A i, j \in DOMAIN ts :
          (IsSettlement(ts[i]) /\ IsSettlement(ts[j]) /\ ts[i].bill = ts[j].bill)
              => i = j

\* A panel knows its own transaction: no other panel has it, it is what the
\* panel is working on, and it is not out before it is sent.
JobInv(p, job, ts) ==
    /\ p = "split" =>
          /\ job.call \in {"xlm", "create_bill"} /\ job.bill = 0
          /\ job.phase # "idle" => job.form \in Forms /\ ValidForm(job.form)
    /\ p = "settle" =>
          /\ job.form = NoForm
          /\ job.call = IF job.phase = "idle" THEN "xlm" ELSE "settle"
    /\ job.call = "create_bill" =>
          /\ job.record /\ Payable(job.form)
          /\ \E j \in DOMAIN ts : Paid(ts, j, job.form)
    /\ job.cur # 0 =>
          job.cur \in DOMAIN ts /\ ts[job.cur].call \in CallsOf(p)
    /\ job.phase \in {"simulate", "sign", "send", "confirm", "success"} =>
          /\ job.cur # 0
          /\ ts[job.cur].call = job.call /\ ts[job.cur].form = job.form
          /\ ts[job.cur].bill = job.bill
    /\ job.phase \in {"simulate", "sign", "send"} => ts[job.cur].state = "built"
    /\ job.phase = "success" =>
          /\ ts[job.cur].state = "SUCCESS" /\ job.result = ts[job.cur].result
          /\ job.call = "xlm" => ~job.record
    /\ (/\ job.phase = "failed" /\ job.cur # 0 /\ job.call # "xlm"
        /\ ts[job.cur].call = job.call
        /\ job.error \in {"validation", "rejected", "simulation", "submission"})
          => ts[job.cur].state \in {"built", "FAILED", "dropped"}

\* The bills of a form that were sent, applied or not.
Created(ts, form) ==
    {i \in DOMAIN ts : ts[i].call = "create_bill" /\ ts[i].form = form}

PaymentsOf(ts, form) == {i \in DOMAIN ts : Paid(ts, i, form)}

\* The split panel has paid for the form and is about to record it.
Owing(job, ts, form) ==
    /\ job.form = form
    /\ \/ job.call = "xlm" /\ job.phase = "confirm" /\ ts[job.cur].state = "SUCCESS"
       \/ job.call = "create_bill" /\ job.phase = "load"

\* Bills never outnumber payments, the one that is about to be sent included.
CountInv(job, ts) ==
    \A form \in Forms :
        Cardinality(Created(ts, form)) + (IF Owing(job, ts, form) THEN 1 ELSE 0)
            <= Cardinality(PaymentsOf(ts, form))

ClientInv ==
    /\ BillInv
    /\ accountSeq \in Nat
    /\ TxsInv(txs, bills, settled)
    /\ panel \in [Panels -> Job]
    /\ \A p \in Panels : JobInv(p, panel[p], txs)
    /\ CountInv(panel["split"], txs)

-----------------------------------------------------------------------------
\* What a step may do to the transactions and to the chain.

\* Transactions stay what they are, and applied ones stay applied.
Steady(ts, new) ==
    \A i \in DOMAIN ts :
        /\ i \in DOMAIN new
        /\ new[i].call = ts[i].call /\ new[i].form = ts[i].form
        /\ new[i].bill = ts[i].bill /\ new[i].share = ts[i].share
        /\ ts[i].state = "SUCCESS" =>
              new[i].state = "SUCCESS" /\ new[i].result = ts[i].result

\* Bills and marks stay.
Kept(bs, newBs, marks, newMarks) ==
    /\ \A id \in DOMAIN bs : id \in DOMAIN newBs /\ newBs[id] = bs[id]
    /\ marks \subseteq newMarks

(* What a transaction was, it stays, unless it is applied just now.        *)
LEMMA TxStays ==
    ASSUME NEW ts \in Seq(TxRecord), NEW new, NEW bs, NEW newBs, NEW marks,
           NEW newMarks, Steady(ts, new), Kept(bs, newBs, marks, newMarks),
           NEW i \in DOMAIN ts, TxInv(ts, i, bs, marks),
           new[i].state = "SUCCESS" => ts[i].state = "SUCCESS"
    PROVE  TxInv(new, i, newBs, newMarks)
<1>1. DOMAIN ts = 1 .. Len(ts) /\ Len(ts) \in Nat
  OBVIOUS
<1>2. ASSUME NEW form, \E j \in 1 .. i - 1 : Paid(ts, j, form)
      PROVE  \E j \in 1 .. i - 1 : Paid(new, j, form)
  <2>1. PICK j \in 1 .. i - 1 : Paid(ts, j, form)
    BY <1>2
  <2>2. j \in DOMAIN ts
    BY <1>1
  <2> QED
    BY <2>1, <2>2 DEF Steady, Paid
<1>3. /\ new[i].call = ts[i].call /\ new[i].form = ts[i].form
      /\ new[i].bill = ts[i].bill /\ new[i].share = ts[i].share
      /\ ts[i].state = "SUCCESS" =>
              new[i].state = "SUCCESS" /\ new[i].result = ts[i].result
  BY DEF Steady
<1> QED
  BY <1>2, <1>3 DEF TxInv, Kept, IsSettlement

(* A panel that is not touched keeps its invariant as long as nothing but  *)
(* the network touches its transaction.                                    *)
LEMMA JobStays ==
    ASSUME NEW ts, NEW new, Steady(ts, new), NEW p, NEW job, JobInv(p, job, ts),
           job.cur # 0 /\ ts[job.cur].state # "pending" =>
               new[job.cur].state = ts[job.cur].state
    PROVE  JobInv(p, job, new)
<1>1. job.cur # 0 =>
        /\ job.cur \in DOMAIN ts /\ job.cur \in DOMAIN new
        /\ new[job.cur].call = ts[job.cur].call
        /\ new[job.cur].form = ts[job.cur].form
        /\ new[job.cur].bill = ts[job.cur].bill
        /\ ts[job.cur].state = "SUCCESS" => new[job.cur].result = ts[job.cur].result
  BY DEF JobInv, Steady
<1>2. ASSUME NEW form, \E j \in DOMAIN ts : Paid(ts, j, form)
      PROVE  \E j \in DOMAIN new : Paid(new, j, form)
  BY <1>2 DEF Paid, Steady
<1>3. job.call = "create_bill" =>
          /\ job.record /\ Payable(job.form)
          /\ \E j \in DOMAIN new : Paid(new, j, job.form)
  BY <1>2 DEF JobInv
<1>4. job.cur # 0 => job.cur \in DOMAIN new /\ new[job.cur].call \in CallsOf(p)
  BY <1>1 DEF JobInv
<1>5. job.phase \in {"simulate", "sign", "send", "confirm", "success"} =>
          /\ job.cur # 0
          /\ new[job.cur].call = job.call /\ new[job.cur].form = job.form
          /\ new[job.cur].bill = job.bill
  BY <1>1 DEF JobInv
<1>6. job.phase \in {"simulate", "sign", "send"} => new[job.cur].state = "built"
  BY <1>1 DEF JobInv
<1>7. job.phase = "success" =>
          /\ new[job.cur].state = "SUCCESS" /\ job.result = new[job.cur].result
          /\ job.call = "xlm" => ~job.record
  BY <1>1 DEF JobInv
<1>8. (/\ job.phase = "failed" /\ job.cur # 0 /\ job.call # "xlm"
       /\ new[job.cur].call = job.call
       /\ job.error \in {"validation", "rejected", "simulation", "submission"})
          => new[job.cur].state \in {"built", "FAILED", "dropped"}
  BY <1>1 DEF JobInv
<1> QED
  BY <1>3, <1>4, <1>5, <1>6, <1>7, <1>8 DEF JobInv

(* The transactions of a form can be counted.                              *)
LEMMA Countable ==
    ASSUME NEW ts \in Seq(TxRecord), NEW form
    PROVE  /\ IsFiniteSet(Created(ts, form)) /\ IsFiniteSet(PaymentsOf(ts, form))
           /\ Cardinality(Created(ts, form)) \in Nat
           /\ Cardinality(PaymentsOf(ts, form)) \in Nat
<1>1. DOMAIN ts = 1 .. Len(ts) /\ Len(ts) \in Nat
  OBVIOUS
<1>2. IsFiniteSet(DOMAIN ts)
  BY <1>1, FS_Interval
<1>3. Created(ts, form) \in SUBSET DOMAIN ts /\ PaymentsOf(ts, form) \in SUBSET DOMAIN ts
  BY DEF Created, PaymentsOf
<1> QED
  BY <1>2, <1>3, FS_Subset, FS_CardinalityType

(* A step that sends no bill and unpays nothing keeps the count, if it     *)
(* leaves the split panel no more to record.                               *)
LEMMA CountStays ==
    ASSUME NEW ts \in Seq(TxRecord), NEW new \in Seq(TxRecord), NEW job, NEW after,
           CountInv(job, ts),
           \A form \in Forms :
              /\ Created(new, form) = Created(ts, form)
              /\ PaymentsOf(ts, form) \subseteq PaymentsOf(new, form)
              /\ Owing(after, new, form) => Owing(job, ts, form)
    PROVE  CountInv(after, new)
<1> SUFFICES ASSUME NEW form \in Forms
             PROVE  Cardinality(Created(new, form))
                      + (IF Owing(after, new, form) THEN 1 ELSE 0)
                          <= Cardinality(PaymentsOf(new, form))
  BY DEF CountInv
<1>1. Cardinality(Created(ts, form)) + (IF Owing(job, ts, form) THEN 1 ELSE 0)
        <= Cardinality(PaymentsOf(ts, form))
  BY DEF CountInv
<1>2. Cardinality(PaymentsOf(ts, form)) <= Cardinality(PaymentsOf(new, form))
  BY Countable, FS_Subset
<1>3. /\ Cardinality(Created(ts, form)) \in Nat
      /\ Cardinality(PaymentsOf(ts, form)) \in Nat
      /\ Cardinality(PaymentsOf(new, form)) \in Nat
  BY Countable
<1> QED
  BY <1>1, <1>2, <1>3

-----------------------------------------------------------------------------
\* The chain under the client.

(* A create_bill with arguments of their types keeps the invariant of the  *)
(* contracts and every bill, and stores the next one.                      *)
LEMMA CreateBillKeeps ==
    ASSUME BillInv, NEW creator \in Address, NEW payers \in Seq(Address),
           NEW share \in I128, NEW memoLen,
           CreateBill(creator, creator, payers, share, memoLen)
    PROVE  /\ BillInv'
           /\ Kept(bills, bills', settled, settled')
           /\ billCount' \in DOMAIN bills' /\ billCount' \in 0 .. MaxU32
           /\ bills'[billCount'] =
                 [creator |-> creator, payers |-> payers, share |-> share]
<1>1. RegistryTypeOK
  BY DEF BillInv
<1>2. RegistryTypeOK'
  BY <1>1, CreateBillType
<1>3. TokenInv'
  <2>1. UNCHANGED tokenVars
    BY DEF CreateBill
  <2> QED
    BY <2>1, TokenStepInv DEF BillInv
<1>4. /\ billCount' = billCount + 1 /\ billCount' \in 1 .. MaxU32
      /\ DOMAIN bills' = 1 .. billCount'
      /\ bills'[billCount + 1] =
            [creator |-> creator, payers |-> payers, share |-> share]
      /\ DOMAIN bills' = DOMAIN bills \cup {billCount + 1}
      /\ \A id \in DOMAIN bills : bills'[id] = bills[id]
  BY <1>1, CreateBillStores
<1>5. settled' = settled
  BY DEF CreateBill
<1>6. BillInv'
  BY <1>2, <1>3 DEF BillInv
<1>7. Kept(bills, bills', settled, settled')
  BY <1>4, <1>5 DEF Kept
<1>8. billCount' \in DOMAIN bills' /\ billCount' \in 0 .. MaxU32
  BY <1>4
<1> QED
  BY <1>4, <1>6, <1>7, <1>8

(* So does a settle, which marks a pair that was not marked.               *)
LEMMA SettleKeeps ==
    ASSUME BillInv, NEW id, NEW payer \in Address, Settle(payer, id, payer)
    PROVE  /\ BillInv'
           /\ Kept(bills, bills', settled, settled')
           /\ billCount' \in 0 .. MaxU32
           /\ <<id, payer>> \notin settled /\ <<id, payer>> \in settled'
<1>1. RegistryTypeOK
  BY DEF BillInv
<1>2. RegistryTypeOK'
  BY <1>1, SettleType
<1>3. TokenInv'
  BY <1>1, SettleTransfers, TransferInv DEF BillInv
<1>4. /\ bills' = bills /\ settled' = settled \cup {<<id, payer>>}
      /\ billCount' = billCount /\ <<id, payer>> \notin settled
  BY DEF Settle, Unsettled
<1>5. billCount \in 0 .. MaxU32
  BY <1>1 DEF RegistryTypeOK
<1> QED
  BY <1>2, <1>3, <1>4, <1>5 DEF BillInv, Kept

(* Whatever others do with the contracts keeps their invariant.            *)
LEMMA OthersKeep ==
    ASSUME BillInv, [BillNext]_billVars
    PROVE  BillInv' /\ Kept(bills, bills', settled, settled')
  BY BillStepInv, StepKeepsBills DEF Kept

(* A call of this page, when it is applied.                                *)
LEMMA CallKeeps ==
    ASSUME ClientInv, NEW i \in DOMAIN txs, ChainCall(txs[i])
    PROVE  /\ BillInv'
           /\ Kept(bills, bills', settled, settled')
           /\ billCount' \in 0 .. MaxU32
           /\ txs[i].call = "create_bill" =>
                 /\ billCount' \in DOMAIN bills'
                 /\ bills'[billCount'] = [creator |-> User, payers |-> txs[i].form.payers,
                                          share |-> txs[i].share]
           /\ txs[i].call = "settle" =>
                 <<txs[i].bill, User>> \notin settled /\ <<txs[i].bill, User>> \in settled'
           /\ txs[i].call \in {"create_bill", "settle"}
<1>1. TxInv(txs, i, bills, settled) /\ BillInv
  BY DEF ClientInv, TxsInv
<1>2. User \in Address
  BY ClientAssumption
<1>3. CASE /\ txs[i].call = "create_bill"
           /\ CreateBill(User, User, txs[i].form.payers, txs[i].share,
                         Bytes(txs[i].form.memo))
  <2>1. Sendable(txs[i].form) /\ txs[i].share = Recorded(txs[i].form)
    BY <1>1, <1>3 DEF TxInv
  <2>2. txs[i].form.payers \in Seq(Address)
    BY <2>1, FormFacts DEF Sendable
  <2>3. txs[i].share \in I128
    BY <2>1, SendableFacts
  <2> QED
    BY <1>1, <1>2, <1>3, <2>2, <2>3, CreateBillKeeps
<1>4. CASE txs[i].call = "settle" /\ Settle(User, txs[i].bill, User)
  BY <1>1, <1>2, <1>4, SettleKeeps
<1> QED
  BY <1>3, <1>4 DEF ChainCall

-----------------------------------------------------------------------------
\* Steps of a panel that build and send nothing.

(* Such a step keeps the invariant if it keeps the panel's own part of it  *)
(* and leaves no more to record than before.                               *)
LEMMA PanelMoves ==
    ASSUME ClientInv, NEW p \in Panels, NEW job \in Job, Become(p, job),
           UNCHANGED <<billVars, accountSeq, txs>>,
           JobInv(p, job, txs),
           p = "split" => \A form \in Forms :
              Owing(job, txs, form) => Owing(panel["split"], txs, form)
    PROVE  ClientInv'
<1>1. BillInv'
  BY BillStepInv DEF ClientInv
<1>2. accountSeq' = accountSeq /\ txs' = txs /\ bills' = bills /\ settled' = settled
  BY DEF billVars, registryVars
<1>3. panel' = [panel EXCEPT ![p] = job] /\ panel \in [Panels -> Job]
  BY DEF ClientInv, Become
<1>4. panel' \in [Panels -> Job]
  BY <1>3
<1>5. ASSUME NEW q \in Panels
      PROVE  JobInv(q, panel'[q], txs')
  <2>1. CASE q = p
    BY <1>2, <1>3, <2>1
  <2>2. CASE q # p
    BY <1>2, <1>3, <2>2 DEF ClientInv
  <2> QED
    BY <2>1, <2>2
<1>6. CountInv(panel'["split"], txs')
  <2>1. "split" \in Panels /\ txs \in Seq(TxRecord) /\ CountInv(panel["split"], txs)
    BY DEF Panels, ClientInv, TxsInv
  <2>2. ASSUME NEW form \in Forms, Owing(panel'["split"], txs, form)
        PROVE  Owing(panel["split"], txs, form)
    BY <1>3, <2>1, <2>2
  <2> QED
    BY <1>2, <2>1, <2>2, CountStays
<1> QED
  BY <1>1, <1>2, <1>4, <1>5, <1>6 DEF ClientInv, TxsInv

(* An attempt that ends in an error keeps the invariant, if the error, for *)
(* a registry call, tells that nothing came of it only when nothing did.   *)
LEMMA Failing ==
    ASSUME ClientInv, NEW p \in Panels, panel[p].phase \in Working,
           NEW c \in Categories, Fail(p, c),
           UNCHANGED <<billVars, accountSeq, txs>>,
           (/\ c \in {"validation", "rejected", "simulation", "submission"}
            /\ panel[p].call # "xlm" /\ panel[p].cur # 0
            /\ txs[panel[p].cur].call = panel[p].call)
               => txs[panel[p].cur].state \in {"built", "FAILED", "dropped"}
    PROVE  ClientInv'
<1> DEFINE old == panel[p]
           job == [old EXCEPT !.phase = "failed", !.error = c]
<1>1. old \in Job /\ JobInv(p, old, txs)
  BY DEF ClientInv
<1>2. Become(p, job)
  BY DEF Fail
<1> HIDE DEF old
<1>3. /\ job \in Job
      /\ job.phase = "failed" /\ job.error = c
      /\ job.call = old.call /\ job.form = old.form /\ job.bill = old.bill
      /\ job.record = old.record /\ job.cur = old.cur
  BY <1>1 DEF Job
<1>4. old.phase \in Working
  BY DEF old
<1>5. (/\ c \in {"validation", "rejected", "simulation", "submission"}
       /\ old.call # "xlm" /\ old.cur # 0 /\ txs[old.cur].call = old.call)
         => txs[old.cur].state \in {"built", "FAILED", "dropped"}
  BY DEF old
<1> HIDE DEF job
<1>6. JobInv(p, job, txs)
  BY <1>1, <1>3, <1>4, <1>5 DEF JobInv, Working
<1>7. \A form \in Forms : ~ Owing(job, txs, form)
  BY <1>3 DEF Owing
<1> QED
  BY <1>2, <1>3, <1>6, <1>7, PanelMoves

(* A panel goes on with the transaction it has.                            *)
LEMMA Going ==
    ASSUME ClientInv, NEW p \in Panels,
           panel[p].phase \in {"simulate", "sign"}, NEW phase \in {"sign", "send"},
           Go(p, phase), UNCHANGED <<billVars, accountSeq, txs>>
    PROVE  ClientInv'
<1> DEFINE old == panel[p]
           job == [old EXCEPT !.phase = phase]
<1>1. old \in Job /\ JobInv(p, old, txs)
  BY DEF ClientInv
<1>2. Become(p, job)
  BY DEF Go
<1>3. old.phase \in {"simulate", "sign"}
  OBVIOUS
<1> HIDE DEF old
<1>4. /\ job \in Job
      /\ job.phase = phase
      /\ job.call = old.call /\ job.form = old.form /\ job.bill = old.bill
      /\ job.record = old.record /\ job.cur = old.cur
  BY <1>1 DEF Job, Working
<1> HIDE DEF job
<1>5. JobInv(p, job, txs)
  BY <1>1, <1>3, <1>4 DEF JobInv
<1>6. \A form \in Forms : ~ Owing(job, txs, form)
  BY <1>4 DEF Owing
<1> QED
  BY <1>2, <1>4, <1>5, <1>6, PanelMoves

(* A panel that has not been used.                                         *)
LEMMA IdleIsJob == Idle \in Job
<1>1. MaxU32 \in Nat
  BY BillAssumption
<1>2. 0 \in 0 .. MaxU32
  BY <1>1
<1>3. /\ "idle" \in Working \cup {"idle", "success", "failed"}
      /\ "xlm" \in Calls /\ "other" \in Categories
      /\ NoForm \in Forms \cup {NoForm} /\ FALSE \in BOOLEAN /\ 0 \in Nat
  BY DEF Calls, Categories
<1> QED
  BY <1>2, <1>3 DEF Idle, Job

(* The split panel starts with a form that passes the page's own checks.   *)
LEMMA StartSplitInv ==
    ASSUME ClientInv, NEW form \in Forms, NEW record \in BOOLEAN,
           StartSplit(form, record)
    PROVE  ClientInv'
<1> DEFINE job == [Idle EXCEPT !.phase = "load", !.form = form, !.record = record]
<1>1. /\ job.phase = "load" /\ job.call = "xlm" /\ job.form = form /\ job.bill = 0
      /\ job.record = record /\ job.cur = 0
  BY DEF Idle
<1>2. job \in Job
  BY IdleIsJob DEF Job, Working
<1>3. "split" \in Panels /\ ValidForm(form) /\ Become("split", job)
      /\ UNCHANGED <<billVars, accountSeq, txs>>
  BY DEF StartSplit, Panels
<1> HIDE DEF job
<1>4. JobInv("split", job, txs)
  BY <1>1, <1>3 DEF JobInv
<1>5. \A f \in Forms : ~ Owing(job, txs, f)
  BY <1>1 DEF Owing
<1> QED
  BY <1>2, <1>3, <1>4, <1>5, PanelMoves

(* The settle panel starts with a bill that is on chain.                   *)
LEMMA StartSettleInv ==
    ASSUME ClientInv, NEW id, StartSettle(id)
    PROVE  ClientInv'
<1> DEFINE job == [Idle EXCEPT !.phase = "load", !.call = "settle", !.bill = id]
<1>1. /\ job.phase = "load" /\ job.call = "settle" /\ job.form = NoForm
      /\ job.bill = id /\ job.cur = 0
  BY DEF Idle
<1>2. "settle" \in Panels /\ id \in DOMAIN bills /\ Become("settle", job)
      /\ UNCHANGED <<billVars, accountSeq, txs>>
  BY DEF StartSettle, Panels
<1>3. id \in 0 .. MaxU32
  <2>1. DOMAIN bills = 1 .. billCount /\ billCount \in 0 .. MaxU32
    BY DEF ClientInv, BillInv, RegistryTypeOK
  <2>2. MaxU32 \in Nat
    BY BillAssumption
  <2> QED
    BY <1>2, <2>1, <2>2
<1>4. job \in Job
  BY <1>3, IdleIsJob DEF Job, Working, Calls
<1> HIDE DEF job
<1>5. JobInv("settle", job, txs)
  BY <1>1 DEF JobInv
<1> QED
  BY <1>2, <1>4, <1>5, PanelMoves

(* After a success the payments of a form to be recorded come to its       *)
(* create_bill: the one step that makes the panel owe what it owed.        *)
LEMMA HearSuccessInv ==
    ASSUME ClientInv, NEW p \in Panels, HearSuccess(p)
    PROVE  ClientInv'
<1> DEFINE old == panel[p]
           next == [old EXCEPT !.phase = "load", !.call = "create_bill"]
           done == [old EXCEPT !.phase = "success", !.result = txs[old.cur].result]
<1>1. old \in Job /\ JobInv(p, old, txs) /\ txs \in Seq(TxRecord)
  BY DEF ClientInv, TxsInv
<1>2. /\ old.phase = "confirm" /\ txs[old.cur].state = "SUCCESS"
      /\ Become(p, IF old.call = "xlm" /\ old.record THEN next ELSE done)
      /\ UNCHANGED <<billVars, accountSeq, txs>>
  BY DEF HearSuccess
<1>3. panel["split"] = old \/ p # "split"
  OBVIOUS
<1> HIDE DEF old
<1>4. /\ old.cur \in DOMAIN txs
      /\ txs[old.cur].call = old.call /\ txs[old.cur].form = old.form
      /\ txs[old.cur].bill = old.bill /\ old.cur # 0
  BY <1>1, <1>2 DEF JobInv
<1>5. txs[old.cur].result \in 0 .. MaxU32
  <2>1. txs[old.cur] \in TxRecord
    BY <1>1, <1>4
  <2> QED
    BY <2>1 DEF TxRecord
<1>6. CASE old.call = "xlm" /\ old.record
  <2>1. /\ next \in Job
        /\ next.phase = "load" /\ next.call = "create_bill" /\ next.form = old.form
        /\ next.bill = old.bill /\ next.record = old.record /\ next.cur = old.cur
    BY <1>1 DEF Job, Working, Calls
  <2>2. TxInv(txs, old.cur, bills, settled) /\ p = "split"
    BY <1>1, <1>2, <1>4, <1>6 DEF ClientInv, TxsInv, JobInv, Panels
  <2>3. Payable(old.form) /\ Paid(txs, old.cur, old.form)
    BY <1>2, <1>4, <1>6, <2>2 DEF TxInv, Sendable, Paid
  <2> HIDE DEF next
  <2>4. JobInv(p, next, txs)
    BY <1>1, <1>2, <1>4, <1>6, <2>1, <2>2, <2>3 DEF JobInv
  <2>5. \A form \in Forms : Owing(next, txs, form) => Owing(old, txs, form)
    BY <1>2, <1>6, <2>1 DEF Owing
  <2> QED
    BY <1>2, <1>3, <1>6, <2>1, <2>4, <2>5, PanelMoves
<1>7. CASE ~ (old.call = "xlm" /\ old.record)
  <2>1. /\ done \in Job
        /\ done.phase = "success" /\ done.call = old.call /\ done.form = old.form
        /\ done.bill = old.bill /\ done.record = old.record /\ done.cur = old.cur
        /\ done.result = txs[old.cur].result
    BY <1>1, <1>5 DEF Job, Working
  <2> HIDE DEF done
  <2>2. JobInv(p, done, txs)
    BY <1>1, <1>2, <1>4, <1>7, <2>1 DEF JobInv
  <2>3. \A form \in Forms : ~ Owing(done, txs, form)
    BY <2>1 DEF Owing
  <2> QED
    BY <1>2, <1>7, <2>1, <2>2, <2>3, PanelMoves
<1> QED
  BY <1>6, <1>7

(* One more round of the confirmation loop.                                *)
LEMMA WaitingInv ==
    ASSUME ClientInv, NEW p \in Panels,
           panel[p].phase \in {"send", "confirm"}, panel[p].call # "xlm",
           NEW n \in Nat,
           Become(p, [panel[p] EXCEPT !.phase = "confirm", !.waited = n]),
           UNCHANGED <<billVars, accountSeq, txs>>
    PROVE  ClientInv'
<1> DEFINE old == panel[p]
           job == [old EXCEPT !.phase = "confirm", !.waited = n]
<1>1. old \in Job /\ JobInv(p, old, txs)
  BY DEF ClientInv
<1>2. Become(p, job) /\ old.phase \in {"send", "confirm"} /\ old.call # "xlm"
  OBVIOUS
<1> HIDE DEF old
<1>3. /\ job \in Job
      /\ job.phase = "confirm"
      /\ job.call = old.call /\ job.form = old.form /\ job.bill = old.bill
      /\ job.record = old.record /\ job.cur = old.cur
  BY <1>1 DEF Job, Working
<1> HIDE DEF job
<1>4. JobInv(p, job, txs)
  BY <1>1, <1>2, <1>3 DEF JobInv
<1>5. \A form \in Forms : ~ Owing(job, txs, form)
  BY <1>2, <1>3 DEF Owing
<1> QED
  BY <1>2, <1>3, <1>4, <1>5, PanelMoves

-----------------------------------------------------------------------------
\* A transaction is built.

(* A transaction at the end of the list changes nothing before it.         *)
LEMMA AppendTx ==
    ASSUME NEW ts \in Seq(TxRecord), NEW t \in TxRecord
    PROVE  LET new == Append(ts, t) IN
           /\ new \in Seq(TxRecord)
           /\ Len(ts) + 1 \in Nat \ {0}
           /\ DOMAIN new = DOMAIN ts \cup {Len(ts) + 1}
           /\ Len(ts) + 1 \notin DOMAIN ts /\ 0 \notin DOMAIN ts
           /\ DOMAIN ts = 1 .. Len(ts)
           /\ new[Len(ts) + 1] = t
           /\ \A i \in DOMAIN ts : new[i] = ts[i]
           /\ Steady(ts, new)
<1> DEFINE new == Append(ts, t)
<1>1. DOMAIN ts = 1 .. Len(ts) /\ Len(ts) \in Nat
  OBVIOUS
<1>2. /\ new \in Seq(TxRecord) /\ Len(new) = Len(ts) + 1
      /\ \A i \in 1 .. Len(ts) : new[i] = ts[i]
      /\ new[Len(ts) + 1] = t
  BY AppendProperties
<1>3. DOMAIN new = 1 .. Len(ts) + 1
  BY <1>1, <1>2, LenProperties
<1>4. /\ DOMAIN new = DOMAIN ts \cup {Len(ts) + 1}
      /\ Len(ts) + 1 \notin DOMAIN ts /\ 0 \notin DOMAIN ts
  BY <1>1, <1>3
<1> HIDE DEF new
<1>5. Steady(ts, new)
  BY <1>1, <1>2, <1>4 DEF Steady
<1> QED
  BY <1>1, <1>2, <1>4, <1>5 DEF new

(* A panel builds its next transaction: the payments of a form that the    *)
(* SDK accepts, the create_bill of a form that has been paid, a settle.    *)
LEMMA BuildInv ==
    ASSUME ClientInv, NEW p \in Panels, panel[p].phase = "load",
           panel[p].call = "xlm" => Payable(panel[p].form),
           Build(p), UNCHANGED <<billVars, accountSeq>>
    PROVE  ClientInv'
<1> DEFINE old == panel[p]
           t == Transaction(old)
           n == Len(txs) + 1
           job == [old EXCEPT !.phase = IF old.call = "xlm" THEN "sign" ELSE "simulate",
                              !.cur = n]
<1>1. /\ old \in Job /\ JobInv(p, old, txs) /\ TxsInv(txs, bills, settled)
      /\ txs \in Seq(TxRecord) /\ BillInv /\ CountInv(panel["split"], txs)
      /\ panel \in [Panels -> Job] /\ accountSeq \in Nat
      /\ \A q \in Panels : JobInv(q, panel[q], txs)
  BY DEF ClientInv, TxsInv
<1>2. old.phase = "load" /\ (old.call = "xlm" => Payable(old.form))
  OBVIOUS
<1>3. txs' = Append(txs, t) /\ panel' = [panel EXCEPT ![p] = job]
  BY DEF Build, Become
<1>4. accountSeq' = accountSeq /\ bills' = bills /\ settled' = settled /\ UNCHANGED billVars
  BY DEF billVars, registryVars
<1> HIDE DEF old
<1>5. /\ t.call = old.call /\ t.form = old.form /\ t.bill = old.bill
      /\ t.share = IF old.call = "create_bill" THEN Recorded(old.form) ELSE 0
      /\ t.state = "built"
  BY DEF Transaction
<1>6. /\ old.call # "settle" => p = "split" /\ old.bill = 0 /\ Sendable(old.form)
      /\ old.call = "settle" => p = "settle" /\ old.form = NoForm
      /\ old.call \in CallsOf(p)
      /\ old.call = "create_bill" =>
            old.record /\ \E j \in DOMAIN txs : Paid(txs, j, old.form)
  BY <1>1, <1>2 DEF JobInv, Sendable, Panels, CallsOf
<1>7. t \in TxRecord
  <2>1. old.call = "create_bill" => Recorded(old.form) \in Nat
    BY <1>6, FormFacts DEF Sendable
  <2>2. MaxU32 \in Nat
    BY BillAssumption
  <2>3. /\ old.call \in Calls /\ old.form \in Forms \cup {NoForm}
        /\ old.bill \in 0 .. MaxU32
    BY <1>1 DEF Job
  <2>4. (IF old.call = "create_bill" THEN Recorded(old.form) ELSE 0) \in Nat
    BY <2>1
  <2>5. accountSeq + 1 \in Nat /\ 0 \in 0 .. MaxU32
    BY <1>1, <2>2
  <2> QED
    BY <2>3, <2>4, <2>5 DEF Transaction, TxRecord
<1> HIDE DEF t
<1> DEFINE new == Append(txs, t)
<1>8. /\ new \in Seq(TxRecord)
      /\ n \in Nat \ {0}
      /\ DOMAIN new = DOMAIN txs \cup {n}
      /\ n \notin DOMAIN txs /\ 0 \notin DOMAIN txs
      /\ DOMAIN txs = 1 .. n - 1
      /\ new[n] = t
      /\ \A i \in DOMAIN txs : new[i] = txs[i]
      /\ Steady(txs, new)
  BY <1>1, <1>7, AppendTx
<1> HIDE DEF new, n
<1>9. /\ job \in Job
      /\ job.phase = IF old.call = "xlm" THEN "sign" ELSE "simulate"
      /\ job.call = old.call /\ job.form = old.form /\ job.bill = old.bill
      /\ job.record = old.record /\ job.cur = n
  BY <1>1, <1>8 DEF Job, Working
<1> HIDE DEF job
<1>10. TxsInv(new, bills, settled)
  <2>1. ASSUME NEW i \in DOMAIN txs
        PROVE  TxInv(new, i, bills, settled)
    <3>1. Kept(bills, bills, settled, settled) /\ TxInv(txs, i, bills, settled)
      BY <1>1 DEF Kept, TxsInv
    <3> QED
      BY <1>1, <1>8, <3>1, TxStays
  <2>2. TxInv(new, n, bills, settled)
    <3>1. old.call = "create_bill" => \E j \in 1 .. n - 1 : Paid(new, j, old.form)
      BY <1>6, <1>8 DEF Paid
    <3> QED
      BY <1>5, <1>6, <1>8, <3>1 DEF TxInv, IsSettlement
  <2>3. ASSUME NEW i \in DOMAIN new, NEW j \in DOMAIN new,
               IsSettlement(new[i]), IsSettlement(new[j]), new[i].bill = new[j].bill
        PROVE  i = j
    <3>1. i # n /\ j # n
      BY <1>5, <1>8, <2>3 DEF IsSettlement
    <3> QED
      BY <1>1, <1>8, <2>3, <3>1 DEF TxsInv
  <2> QED
    BY <1>8, <2>1, <2>2, <2>3 DEF TxsInv
<1>11. ASSUME NEW q \in Panels
       PROVE  JobInv(q, panel'[q], new)
  <2>1. CASE q = p
    <3>1. panel'[q] = job
      BY <1>1, <1>3, <2>1
    <3>2. old.call = "create_bill" => \E j \in DOMAIN new : Paid(new, j, old.form)
      BY <1>6, <1>8 DEF Paid
    <3>3. JobInv(p, job, new)
      BY <1>1, <1>2, <1>5, <1>6, <1>8, <1>9, <3>2 DEF JobInv, Sendable
    <3> QED
      BY <2>1, <3>1, <3>3
  <2>2. CASE q # p
    <3>1. panel'[q] = panel[q] /\ JobInv(q, panel[q], txs)
      BY <1>1, <1>3, <2>2
    <3>2. panel[q].cur # 0 => new[panel[q].cur] = txs[panel[q].cur]
      BY <1>8, <3>1 DEF JobInv
    <3> QED
      BY <1>8, <3>1, <3>2, JobStays
  <2> QED
    BY <2>1, <2>2
<1>12. CountInv(panel'["split"], new)
  <2>1. "split" \in Panels
    BY DEF Panels
  <2> DEFINE split == panel["split"]
  <2>2. \A form \in Forms : PaymentsOf(txs, form) \subseteq PaymentsOf(new, form)
    BY <1>8 DEF PaymentsOf, Paid
  <2>3. CASE old.call # "create_bill"
    <3>1. \A form \in Forms : Created(new, form) = Created(txs, form)
      BY <1>5, <1>8, <2>3 DEF Created
    <3>2. ASSUME NEW form \in Forms, Owing(panel'["split"], new, form)
          PROVE  Owing(split, txs, form)
      <4>1. p # "split"
        BY <1>1, <1>3, <1>9, <2>1, <3>2 DEF Owing
      <4>2. panel'["split"] = split /\ JobInv("split", split, txs)
        BY <1>1, <1>3, <2>1, <4>1
      <4>3. split.phase = "confirm" => new[split.cur] = txs[split.cur]
        BY <1>8, <4>2 DEF JobInv
      <4> QED
        BY <3>2, <4>2, <4>3 DEF Owing
    <3> QED
      BY <1>1, <1>8, <2>2, <3>1, <3>2, CountStays
  <2>4. CASE old.call = "create_bill"
    <3>1. p = "split" /\ split = old /\ panel'["split"] = job
      BY <1>1, <1>3, <1>6, <2>1, <2>4 DEF old
    <3>2. ASSUME NEW form \in Forms
          PROVE  Cardinality(Created(new, form))
                   + (IF Owing(job, new, form) THEN 1 ELSE 0)
                       <= Cardinality(PaymentsOf(new, form))
      <4>1. ~ Owing(job, new, form)
        BY <1>9, <2>4 DEF Owing
      <4>2. /\ Cardinality(Created(txs, form)) + (IF Owing(old, txs, form) THEN 1 ELSE 0)
                 <= Cardinality(PaymentsOf(txs, form))
        BY <1>1, <3>1 DEF CountInv
      <4>3. /\ IsFiniteSet(Created(txs, form)) /\ IsFiniteSet(PaymentsOf(new, form))
            /\ Cardinality(Created(txs, form)) \in Nat
            /\ Cardinality(PaymentsOf(txs, form)) \in Nat
            /\ Cardinality(PaymentsOf(new, form)) \in Nat
        BY <1>1, <1>8, Countable
      <4>4. Cardinality(PaymentsOf(txs, form)) <= Cardinality(PaymentsOf(new, form))
        BY <2>2, <4>3, FS_Subset
      <4>5. CASE form = old.form
        <5>1. Owing(old, txs, form)
          BY <1>2, <2>4, <4>5 DEF Owing
        <5>2. /\ Created(new, form) = Created(txs, form) \cup {n}
              /\ n \notin Created(txs, form)
          BY <1>5, <1>8, <2>4, <4>5 DEF Created
        <5>3. Cardinality(Created(new, form)) = Cardinality(Created(txs, form)) + 1
          BY <4>3, <5>2, FS_AddElement
        <5> QED
          BY <4>1, <4>2, <4>3, <4>4, <5>1, <5>3
      <4>6. CASE form # old.form
        <5>1. Created(new, form) = Created(txs, form)
          BY <1>5, <1>8, <4>6 DEF Created
        <5> QED
          BY <4>1, <4>2, <4>3, <4>4, <5>1
      <4> QED
        BY <4>5, <4>6
    <3> QED
      BY <3>1, <3>2 DEF CountInv
  <2> QED
    BY <2>3, <2>4
<1>13. BillInv'
  BY <1>1, <1>4, BillStepInv
<1>14. panel' \in [Panels -> Job]
  BY <1>1, <1>3, <1>9
<1>15. txs' = new
  BY <1>3 DEF new
<1> QED
  BY <1>1, <1>4, <1>10, <1>11, <1>12, <1>13, <1>14, <1>15 DEF ClientInv

-----------------------------------------------------------------------------
\* A transaction changes its state.

(* A new version t of transaction i changes nothing else.                  *)
LEMMA ChangeTx ==
    ASSUME NEW ts \in Seq(TxRecord), NEW i \in DOMAIN ts, NEW t \in TxRecord,
           t.call = ts[i].call, t.form = ts[i].form, t.bill = ts[i].bill,
           t.share = ts[i].share, ts[i].state # "SUCCESS"
    PROVE  LET new == [ts EXCEPT ![i] = t] IN
           /\ new \in Seq(TxRecord)
           /\ DOMAIN new = DOMAIN ts
           /\ new[i] = t
           /\ \A k \in DOMAIN ts : k # i => new[k] = ts[k]
           /\ Steady(ts, new)
<1> DEFINE new == [ts EXCEPT ![i] = t]
<1>1. new \in Seq(TxRecord)
  <2>1. i \in 1 .. Len(ts)
    OBVIOUS
  <2> QED
    BY <2>1, ExceptSeq
<1>2. DOMAIN new = DOMAIN ts /\ new[i] = t
      /\ \A k \in DOMAIN ts : k # i => new[k] = ts[k]
  OBVIOUS
<1> HIDE DEF new
<1>3. Steady(ts, new)
  BY <1>2 DEF Steady
<1> QED
  BY <1>1, <1>2, <1>3 DEF new

\* Transaction i in another state.
InState(i, state) == [txs[i] EXCEPT !.state = state]

(* Such a version is a transaction with the same contents.                 *)
LEMMA InStateFacts ==
    ASSUME txs \in Seq(TxRecord), NEW i \in DOMAIN txs,
           NEW s \in {"built", "pending", "SUCCESS", "FAILED", "dropped"}
    PROVE  /\ InState(i, s) \in TxRecord
           /\ InState(i, s).call = txs[i].call /\ InState(i, s).form = txs[i].form
           /\ InState(i, s).bill = txs[i].bill /\ InState(i, s).share = txs[i].share
           /\ InState(i, s).state = s
           /\ Mark(i, s) <=> txs' = [txs EXCEPT ![i] = InState(i, s)]
<1>1. txs[i] \in TxRecord
  OBVIOUS
<1> QED
  BY <1>1 DEF InState, TxRecord, Mark

(* A panel sends its transaction and waits, or fails although the          *)
(* transaction is out; for a registry call that error is "other".          *)
LEMMA SendingInv ==
    ASSUME ClientInv, NEW p \in Panels, panel[p].phase = "send",
           Mark(panel[p].cur, "pending"), UNCHANGED <<billVars, accountSeq>>,
           NEW job \in Job, Become(p, job),
           job.call = panel[p].call, job.form = panel[p].form,
           job.bill = panel[p].bill, job.record = panel[p].record,
           job.cur = panel[p].cur,
           \/ job.phase = "confirm"
           \/ job.phase = "failed" /\ (job.call # "xlm" => job.error = "other")
    PROVE  ClientInv'
<1> DEFINE old == panel[p]
           i == old.cur
           t == InState(i, "pending")
           new == [txs EXCEPT ![i] = t]
<1>1. /\ JobInv(p, old, txs) /\ TxsInv(txs, bills, settled)
      /\ txs \in Seq(TxRecord) /\ BillInv /\ CountInv(panel["split"], txs)
      /\ panel \in [Panels -> Job] /\ accountSeq \in Nat
      /\ \A q \in Panels : JobInv(q, panel[q], txs)
  BY DEF ClientInv, TxsInv
<1>2. accountSeq' = accountSeq /\ bills' = bills /\ settled' = settled /\ UNCHANGED billVars
  BY DEF billVars, registryVars
<1>3. i # 0 /\ i \in DOMAIN txs /\ txs[i].state = "built" /\ txs[i].call \in CallsOf(p)
  BY <1>1 DEF JobInv
<1>4. /\ t \in TxRecord
      /\ t.call = txs[i].call /\ t.form = txs[i].form
      /\ t.bill = txs[i].bill /\ t.share = txs[i].share
      /\ t.state = "pending"
      /\ txs' = new
  BY <1>1, <1>3, InStateFacts
<1>5. /\ old.phase = "send"
      /\ job.call = old.call /\ job.form = old.form
      /\ job.bill = old.bill /\ job.record = old.record /\ job.cur = i
      /\ panel' = [panel EXCEPT ![p] = job]
  BY DEF Become
<1> HIDE DEF t
<1>6. /\ new \in Seq(TxRecord)
      /\ DOMAIN new = DOMAIN txs
      /\ new[i] = t
      /\ \A k \in DOMAIN txs : k # i => new[k] = txs[k]
      /\ Steady(txs, new)
  <2> HIDE DEF old, i
  <2> QED
    BY <1>1, <1>3, <1>4, ChangeTx
<1> HIDE DEF new, old, i
<1>7. TxsInv(new, bills, settled)
  <2>1. ASSUME NEW k \in DOMAIN new
        PROVE  TxInv(new, k, bills, settled)
    <3>1. Kept(bills, bills, settled, settled) /\ TxInv(txs, k, bills, settled)
      BY <1>1, <1>6 DEF Kept, TxsInv
    <3>2. new[k].state = "SUCCESS" => txs[k].state = "SUCCESS"
      BY <1>4, <1>6
    <3> QED
      BY <1>1, <1>6, <3>1, <3>2, TxStays
  <2>2. ASSUME NEW k \in DOMAIN new, IsSettlement(new[k])
        PROVE  k # i
    BY <1>4, <1>6, <2>2 DEF IsSettlement
  <2> QED
    BY <1>1, <1>6, <2>1, <2>2 DEF TxsInv
<1>8. ASSUME NEW q \in Panels
      PROVE  JobInv(q, panel'[q], new)
  <2>1. CASE q = p
    <3>1. panel'[q] = job
      BY <1>1, <1>5, <2>1
    <3>2. job.call = "create_bill" => \E j \in DOMAIN new : Paid(new, j, job.form)
      <4>1. ASSUME NEW j \in DOMAIN txs, Paid(txs, j, job.form)
            PROVE  Paid(new, j, job.form)
        BY <1>6, <4>1 DEF Steady, Paid
      <4>2. job.call = "create_bill" => \E j \in DOMAIN txs : Paid(txs, j, old.form)
        BY <1>1, <1>5 DEF JobInv
      <4> QED
        BY <1>5, <1>6, <4>1, <4>2
    <3>3. JobInv(p, job, new)
      <4>1. i \in DOMAIN new /\ new[i].call = old.call /\ new[i].form = old.form
            /\ new[i].bill = old.bill /\ new[i].call \in CallsOf(p)
        BY <1>1, <1>3, <1>4, <1>5, <1>6 DEF JobInv, i
      <4>2. job.phase \in {"confirm", "failed"}
            /\ (job.phase = "failed" => (job.call # "xlm" => job.error = "other"))
        OBVIOUS
      <4>3. /\ p = "split" => /\ job.call \in {"xlm", "create_bill"} /\ job.bill = 0
                              /\ job.form \in Forms /\ ValidForm(job.form)
            /\ p = "settle" => job.form = NoForm /\ job.call = "settle"
            /\ job.call = "create_bill" => job.record /\ Payable(job.form)
        BY <1>1, <1>5 DEF JobInv
      <4> QED
        BY <1>3, <1>5, <3>2, <4>1, <4>2, <4>3 DEF JobInv
    <3> QED
      BY <2>1, <3>1, <3>3
  <2>2. CASE q # p
    <3>1. panel'[q] = panel[q] /\ JobInv(q, panel[q], txs)
      BY <1>1, <1>5, <2>2
    <3>2. panel[q].cur # 0 => panel[q].cur # i /\ panel[q].cur \in DOMAIN txs
      BY <1>3, <2>2, <3>1 DEF JobInv, CallsOf, Panels
    <3>3. panel[q].cur # 0 => new[panel[q].cur] = txs[panel[q].cur]
      BY <1>6, <3>2
    <3> QED
      BY <1>6, <3>1, <3>3, JobStays
  <2> QED
    BY <2>1, <2>2
<1>9. CountInv(panel'["split"], new)
  <2>1. "split" \in Panels
    BY DEF Panels
  <2> DEFINE split == panel["split"]
  <2>2. ASSUME NEW form \in Forms
        PROVE  /\ Created(new, form) = Created(txs, form)
               /\ PaymentsOf(txs, form) \subseteq PaymentsOf(new, form)
    BY <1>3, <1>4, <1>6 DEF Created, PaymentsOf, Paid
  <2>3. ASSUME NEW form \in Forms, Owing(panel'["split"], new, form)
        PROVE  Owing(split, txs, form)
    <3>1. CASE p = "split"
      <4>1. panel'["split"] = job
        BY <1>1, <1>5, <3>1
      <4> QED
        BY <1>4, <1>5, <1>6, <2>3, <4>1 DEF Owing
    <3>2. CASE p # "split"
      <4>1. panel'["split"] = split /\ JobInv("split", split, txs)
        BY <1>1, <1>5, <2>1, <3>2
      <4>2. split.cur # 0 => split.cur # i /\ split.cur \in DOMAIN txs
        BY <1>3, <3>2, <4>1 DEF JobInv, CallsOf, Panels
      <4>3. split.phase = "confirm" => new[split.cur] = txs[split.cur]
        BY <1>6, <4>1, <4>2 DEF JobInv
      <4> QED
        BY <2>3, <4>1, <4>3 DEF Owing
    <3> QED
      BY <3>1, <3>2
  <2> QED
    BY <1>1, <1>6, <2>2, <2>3, CountStays
<1>10. BillInv'
  BY <1>1, <1>2, BillStepInv
<1>11. panel' \in [Panels -> Job]
  BY <1>1, <1>5
<1> QED
  BY <1>1, <1>2, <1>4, <1>7, <1>8, <1>9, <1>10, <1>11 DEF ClientInv

(* The network drops, refuses or applies a transaction that is out.  What  *)
(* is applied can be seen on chain, and a settle only if it was the first. *)
LEMMA NetworkInv ==
    ASSUME ClientInv, NEW i \in DOMAIN txs, txs[i].state = "pending",
           NEW t \in TxRecord, txs' = [txs EXCEPT ![i] = t],
           t.call = txs[i].call, t.form = txs[i].form, t.bill = txs[i].bill,
           t.share = txs[i].share,
           panel' = panel, accountSeq' \in Nat,
           BillInv', Kept(bills, bills', settled, settled'),
           t.state = "SUCCESS" =>
              /\ t.call = "create_bill" =>
                    /\ t.result \in DOMAIN bills'
                    /\ bills'[t.result] = [creator |-> User,
                                           payers |-> t.form.payers, share |-> t.share]
              /\ t.call = "settle" =>
                    <<t.bill, User>> \notin settled /\ <<t.bill, User>> \in settled'
    PROVE  ClientInv'
<1> DEFINE new == [txs EXCEPT ![i] = t]
<1>1. /\ TxsInv(txs, bills, settled)
      /\ txs \in Seq(TxRecord) /\ CountInv(panel["split"], txs)
      /\ panel \in [Panels -> Job]
      /\ \A q \in Panels : JobInv(q, panel[q], txs)
  BY DEF ClientInv, TxsInv
<1>2. /\ new \in Seq(TxRecord)
      /\ DOMAIN new = DOMAIN txs
      /\ new[i] = t
      /\ \A k \in DOMAIN txs : k # i => new[k] = txs[k]
      /\ Steady(txs, new)
  BY <1>1, ChangeTx
<1>3. txs' = new
  OBVIOUS
<1> HIDE DEF new
<1>4. TxsInv(new, bills', settled')
  <2>1. ASSUME NEW k \in DOMAIN txs, k # i
        PROVE  TxInv(new, k, bills', settled')
    <3>1. TxInv(txs, k, bills, settled)
      BY <1>1 DEF TxsInv
    <3> QED
      BY <1>1, <1>2, <2>1, <3>1, TxStays
  <2>2. TxInv(new, i, bills', settled')
    <3>1. TxInv(txs, i, bills, settled)
      BY <1>1 DEF TxsInv
    <3>2. t.call = "create_bill" => \E j \in 1 .. i - 1 : Paid(new, j, t.form)
      <4>1. ASSUME NEW j \in 1 .. i - 1, Paid(txs, j, t.form)
            PROVE  Paid(new, j, t.form)
        <5>1. j \in DOMAIN txs
          <6>1. DOMAIN txs = 1 .. Len(txs) /\ Len(txs) \in Nat
            BY <1>1
          <6> QED
            BY <6>1
        <5> QED
          BY <1>2, <4>1, <5>1 DEF Steady, Paid
      <4> QED
        BY <3>1, <4>1 DEF TxInv
    <3> QED
      BY <1>2, <3>1, <3>2 DEF TxInv, IsSettlement
  <2>3. ASSUME NEW k \in DOMAIN txs, k # i, IsSettlement(new[k]), IsSettlement(t)
        PROVE  new[k].bill # t.bill
    <3>1. IsSettlement(txs[k]) /\ TxInv(txs, k, bills, settled)
      BY <1>1, <1>2, <2>3 DEF TxsInv
    <3>2. <<txs[k].bill, User>> \in settled
      BY <3>1 DEF TxInv
    <3> QED
      BY <1>2, <2>3, <3>2 DEF IsSettlement
  <2>4. ASSUME NEW k \in DOMAIN new, NEW j \in DOMAIN new,
               IsSettlement(new[k]), IsSettlement(new[j]), new[k].bill = new[j].bill
        PROVE  k = j
    <3>1. CASE k # i /\ j # i
      BY <1>1, <1>2, <2>4, <3>1 DEF TxsInv
    <3>2. CASE k = i \/ j = i
      BY <1>2, <2>3, <2>4, <3>2
    <3> QED
      BY <3>1, <3>2
  <2> QED
    BY <1>2, <2>1, <2>2, <2>4 DEF TxsInv
<1>5. ASSUME NEW q \in Panels
      PROVE  JobInv(q, panel[q], new)
  <2>1. JobInv(q, panel[q], txs)
    BY <1>1
  <2>2. panel[q].cur # 0 /\ txs[panel[q].cur].state # "pending" =>
            new[panel[q].cur] = txs[panel[q].cur]
    BY <1>2, <2>1 DEF JobInv
  <2> QED
    BY <1>2, <2>1, <2>2, JobStays
<1>6. CountInv(panel["split"], new)
  <2> DEFINE split == panel["split"]
  <2>1. JobInv("split", split, txs)
    BY <1>1 DEF Panels
  <2> HIDE DEF split
  <2>2. ASSUME NEW form \in Forms
        PROVE  /\ Created(new, form) = Created(txs, form)
               /\ PaymentsOf(txs, form) \subseteq PaymentsOf(new, form)
    BY <1>2 DEF Created, PaymentsOf, Paid
  <2>3. ASSUME NEW form, Owing(split, new, form), ~ Owing(split, txs, form)
        PROVE  Paid(new, i, form) /\ t.form = form
    <3>1. split.phase = "confirm" /\ split.call = "xlm" /\ split.form = form
      BY <2>3 DEF Owing
    <3>2. /\ split.cur \in DOMAIN txs /\ txs[split.cur].form = form
          /\ txs[split.cur].call = "xlm" /\ new[split.cur].state = "SUCCESS"
      BY <2>1, <2>3, <3>1 DEF JobInv, Owing
    <3>3. split.cur = i
      BY <1>2, <2>3, <3>1, <3>2 DEF Owing
    <3> QED
      BY <1>2, <3>2, <3>3 DEF Paid
  <2>4. ASSUME NEW form \in Forms
        PROVE  Cardinality(Created(new, form))
                 + (IF Owing(split, new, form) THEN 1 ELSE 0)
                     <= Cardinality(PaymentsOf(new, form))
    <3>1. Cardinality(Created(txs, form)) + (IF Owing(split, txs, form) THEN 1 ELSE 0)
            <= Cardinality(PaymentsOf(txs, form))
      BY <1>1 DEF CountInv, split
    <3>2. /\ IsFiniteSet(PaymentsOf(txs, form)) /\ IsFiniteSet(PaymentsOf(new, form))
          /\ Cardinality(Created(txs, form)) \in Nat
          /\ Cardinality(PaymentsOf(txs, form)) \in Nat
          /\ Cardinality(PaymentsOf(new, form)) \in Nat
      BY <1>1, <1>2, Countable
    <3>3. CASE Owing(split, new, form) /\ ~ Owing(split, txs, form)
      <4>1. Paid(new, i, form) /\ i \notin PaymentsOf(txs, form)
        BY <2>3, <3>3 DEF PaymentsOf, Paid
      <4>2. PaymentsOf(new, form) = PaymentsOf(txs, form) \cup {i}
        BY <1>2, <4>1 DEF PaymentsOf, Paid
      <4>3. Cardinality(PaymentsOf(new, form)) = Cardinality(PaymentsOf(txs, form)) + 1
        BY <3>2, <4>1, <4>2, FS_AddElement
      <4> QED
        BY <2>2, <3>1, <3>2, <3>3, <4>3
    <3>4. CASE Owing(split, new, form) => Owing(split, txs, form)
      <4>1. Cardinality(PaymentsOf(txs, form)) <= Cardinality(PaymentsOf(new, form))
        BY <2>2, <3>2, FS_Subset
      <4> QED
        BY <2>2, <3>1, <3>2, <3>4, <4>1
    <3> QED
      BY <3>3, <3>4
  <2> QED
    BY <2>4 DEF CountInv, split
<1> QED
  BY <1>1, <1>3, <1>4, <1>5, <1>6 DEF ClientInv

-----------------------------------------------------------------------------
\* Every action.

(* The account is read and a transaction is built on it, unless the form   *)
(* cannot be paid or the account does not load.                            *)
LEMMA LoadAccountInv ==
    ASSUME ClientInv, NEW p \in Panels, LoadAccount(p)
    PROVE  ClientInv'
<1>1. panel[p].phase = "load" /\ panel[p].phase \in Working
  BY DEF LoadAccount, Working
<1>2. UNCHANGED <<billVars, accountSeq>>
  BY DEF LoadAccount
<1>3. CASE panel[p].call = "xlm" /\ Fail(p, "validation") /\ UNCHANGED txs
  BY <1>1, <1>2, <1>3, Failing DEF Categories
<1>4. CASE panel[p].call = "xlm" /\ Fail(p, "other") /\ UNCHANGED txs
  BY <1>1, <1>2, <1>4, Failing DEF Categories
<1>5. CASE (panel[p].call = "xlm" => Payable(panel[p].form)) /\ Build(p)
  BY <1>1, <1>2, <1>5, BuildInv
<1>6. CASE Fail(p, "rpc") /\ UNCHANGED txs
  BY <1>1, <1>2, <1>6, Failing DEF Categories
<1> QED
  BY <1>3, <1>4, <1>5, <1>6 DEF LoadAccount

(* What the simulation says of the call makes no difference here: whatever *)
(* it says, the transaction has not been sent.                             *)
LEMMA SimulateInv ==
    ASSUME ClientInv, NEW p \in Panels, Simulate(p)
    PROVE  ClientInv'
<1>1. /\ panel[p].phase = "simulate"
      /\ UNCHANGED <<billVars, accountSeq, txs>>
      /\ Go(p, "sign") \/ Fail(p, "simulation") \/ Fail(p, "other")
  BY DEF Simulate
<1>2. txs[panel[p].cur].state = "built"
  BY <1>1 DEF ClientInv, JobInv
<1>3. panel[p].phase \in Working /\ {"simulation", "other"} \subseteq Categories
  BY <1>1 DEF Working, Categories
<1>4. CASE Go(p, "sign")
  BY <1>1, <1>4, Going
<1>5. CASE Fail(p, "simulation")
  BY <1>1, <1>2, <1>3, <1>5, Failing
<1>6. CASE Fail(p, "other")
  BY <1>1, <1>3, <1>6, Failing
<1> QED
  BY <1>1, <1>4, <1>5, <1>6

(* The wallet signs what the panel has built, or refuses to.               *)
LEMMA SignInv ==
    ASSUME ClientInv, NEW p \in Panels, Sign(p)
    PROVE  ClientInv'
<1>1. /\ panel[p].phase = "sign"
      /\ UNCHANGED <<billVars, accountSeq, txs>>
      /\ Go(p, "send") \/ Fail(p, "rejected")
  BY DEF Sign
<1>2. txs[panel[p].cur].state = "built"
  BY <1>1 DEF ClientInv, JobInv
<1>3. panel[p].phase \in Working /\ "rejected" \in Categories
  BY <1>1 DEF Working, Categories
<1>4. CASE Go(p, "send")
  BY <1>1, <1>4, Going
<1>5. CASE Fail(p, "rejected")
  BY <1>1, <1>2, <1>3, <1>5, Failing
<1> QED
  BY <1>1, <1>4, <1>5

(* A signed transaction is handed to the network, which takes it, refuses  *)
(* it or does not answer.                                                  *)
LEMMA SendInv ==
    ASSUME ClientInv, NEW p \in Panels, Send(p)
    PROVE  ClientInv'
<1> DEFINE old == panel[p]
           waiting == [old EXCEPT !.phase = "confirm", !.waited = 0]
           lost == [old EXCEPT !.phase = "failed",
                               !.error = IF old.call = "xlm" THEN "submission" ELSE "other"]
<1>1. old.phase = "send" /\ UNCHANGED <<billVars, accountSeq>>
  BY DEF Send
<1>2. old \in Job /\ JobInv(p, old, txs) /\ old.phase \in Working
  BY <1>1 DEF ClientInv, Working
<1>3. txs[old.cur].state = "built"
  BY <1>1, <1>2 DEF JobInv
<1>4. /\ waiting \in Job /\ waiting.phase = "confirm"
      /\ waiting.call = old.call /\ waiting.form = old.form
      /\ waiting.bill = old.bill /\ waiting.record = old.record
      /\ waiting.cur = old.cur
  <2> HIDE DEF old
  <2> QED
    BY <1>2 DEF Job, Working
<1>5. /\ lost \in Job /\ lost.phase = "failed"
      /\ lost.call # "xlm" => lost.error = "other"
      /\ lost.call = old.call /\ lost.form = old.form
      /\ lost.bill = old.bill /\ lost.record = old.record
      /\ lost.cur = old.cur
  <2> HIDE DEF old
  <2> QED
    BY <1>2 DEF Job, Categories
<1>6. CASE Mark(old.cur, "pending") /\ Become(p, waiting)
  <2> HIDE DEF waiting, lost
  <2> QED
    BY <1>1, <1>4, <1>6, SendingInv
<1>7. CASE old.call # "xlm" /\ UNCHANGED txs /\ Become(p, waiting)
  BY <1>1, <1>7, WaitingInv
<1>8. CASE UNCHANGED txs /\ Fail(p, "submission")
  BY <1>1, <1>2, <1>3, <1>8, Failing DEF Categories
<1>9. CASE UNCHANGED txs /\ Fail(p, IF old.call = "xlm" THEN "submission" ELSE "other")
  <2>1. CASE old.call = "xlm"
    BY <1>1, <1>2, <1>9, <2>1, Failing DEF Categories
  <2>2. CASE old.call # "xlm"
    BY <1>1, <1>2, <1>9, <2>2, Failing DEF Categories
  <2> QED
    BY <2>1, <2>2
<1>10. CASE Mark(old.cur, "pending") /\ Fail(p, IF old.call = "xlm" THEN "submission" ELSE "other")
  <2>1. Become(p, lost)
    BY <1>10 DEF Fail
  <2> HIDE DEF waiting, lost
  <2> QED
    BY <1>1, <1>5, <1>10, <2>1, SendingInv
<1> QED
  BY <1>6, <1>7, <1>8, <1>9, <1>10 DEF Send

(* A panel that waits may hear of a failure or stop waiting.               *)
LEMMA GivingUpInv ==
    ASSUME ClientInv, NEW p \in Panels, HearFailure(p) \/ GiveUp(p) \/ PollThrows(p)
    PROVE  ClientInv'
<1>1. panel[p].phase = "confirm" /\ UNCHANGED <<billVars, accountSeq, txs>>
  BY DEF HearFailure, GiveUp, PollThrows
<1>2. panel[p].phase \in Working /\ {"submission", "rpc", "other"} \subseteq Categories
  BY <1>1 DEF Working, Categories
<1>3. CASE txs[panel[p].cur].state = "FAILED" /\ Fail(p, "submission")
  BY <1>1, <1>2, <1>3, Failing
<1>4. CASE panel[p].call = "xlm" /\ Fail(p, "submission")
  BY <1>1, <1>2, <1>4, Failing
<1>5. CASE Fail(p, "rpc")
  BY <1>1, <1>2, <1>5, Failing
<1>6. CASE Fail(p, "other")
  BY <1>1, <1>2, <1>6, Failing
<1> QED
  BY <1>3, <1>4, <1>5, <1>6 DEF HearFailure, GiveUp, PollThrows

(* A poll that has found nothing brings the panel nearer to giving up.     *)
LEMMA TickInv ==
    ASSUME ClientInv, NEW p \in Panels, Tick(p)
    PROVE  ClientInv'
<1> DEFINE n == panel[p].waited + 1
<1>1. /\ panel[p].phase = "confirm" /\ panel[p].call # "xlm"
      /\ UNCHANGED <<billVars, accountSeq, txs>>
      /\ Become(p, [panel[p] EXCEPT !.waited = n])
  BY DEF Tick
<1>2. panel[p] \in Job
  BY DEF ClientInv
<1>3. n \in Nat
  BY <1>2 DEF Job
<1>4. [panel[p] EXCEPT !.waited = n] = [panel[p] EXCEPT !.phase = "confirm", !.waited = n]
  <2> HIDE DEF n
  <2> QED
    BY <1>1, <1>2 DEF Job
<1> HIDE DEF n
<1> QED
  BY <1>1, <1>3, <1>4, WaitingInv

(* The network applies a transaction: it succeeds, and the contract does   *)
(* what was called, or it fails and nothing changes.                       *)
LEMMA ApplyInv ==
    ASSUME ClientInv, NEW i \in DOMAIN txs, Apply(i)
    PROVE  ClientInv'
<1>1. /\ txs[i].state = "pending" /\ accountSeq' = accountSeq + 1 /\ panel' = panel
  BY DEF Apply
<1>2. /\ txs \in Seq(TxRecord) /\ BillInv /\ accountSeq' \in Nat
  BY <1>1 DEF ClientInv, TxsInv
<1>3. ASSUME UNCHANGED billVars
      PROVE  BillInv' /\ Kept(bills, bills', settled, settled')
  BY <1>2, <1>3, OthersKeep
<1>4. CASE txs[i].call = "xlm" /\ Mark(i, "SUCCESS") /\ UNCHANGED billVars
  <2> DEFINE t == InState(i, "SUCCESS")
  <2>1. /\ t \in TxRecord /\ txs' = [txs EXCEPT ![i] = t]
        /\ t.call = txs[i].call /\ t.form = txs[i].form
        /\ t.bill = txs[i].bill /\ t.share = txs[i].share
    BY <1>2, <1>4, InStateFacts
  <2> HIDE DEF t
  <2> QED
    BY <1>1, <1>2, <1>3, <1>4, <2>1, NetworkInv
<1>5. CASE /\ ChainCall(txs[i])
           /\ txs' = [txs EXCEPT ![i].state = "SUCCESS", ![i].result = billCount']
  <2> DEFINE t == [txs[i] EXCEPT !.state = "SUCCESS", !.result = billCount']
  <2>1. /\ BillInv'
        /\ Kept(bills, bills', settled, settled')
        /\ billCount' \in 0 .. MaxU32
        /\ txs[i].call = "create_bill" =>
              /\ billCount' \in DOMAIN bills'
              /\ bills'[billCount'] = [creator |-> User, payers |-> txs[i].form.payers,
                                       share |-> txs[i].share]
        /\ txs[i].call = "settle" =>
              <<txs[i].bill, User>> \notin settled /\ <<txs[i].bill, User>> \in settled'
    BY <1>5, CallKeeps
  <2>2. txs[i] \in TxRecord
    BY <1>2
  <2>3. /\ t \in TxRecord /\ t.result = billCount'
        /\ t.call = txs[i].call /\ t.form = txs[i].form
        /\ t.bill = txs[i].bill /\ t.share = txs[i].share
    BY <2>1, <2>2 DEF TxRecord
  <2>4. txs' = [txs EXCEPT ![i] = t]
    BY <1>2, <1>5, <2>2 DEF TxRecord
  <2> HIDE DEF t
  <2> QED
    BY <1>1, <1>2, <2>1, <2>3, <2>4, NetworkInv
<1>6. CASE Mark(i, "FAILED") /\ UNCHANGED billVars
  <2> DEFINE t == InState(i, "FAILED")
  <2>1. /\ t \in TxRecord /\ txs' = [txs EXCEPT ![i] = t]
        /\ t.call = txs[i].call /\ t.form = txs[i].form
        /\ t.bill = txs[i].bill /\ t.share = txs[i].share
        /\ t.state = "FAILED"
    BY <1>2, <1>6, InStateFacts
  <2> HIDE DEF t
  <2> QED
    BY <1>1, <1>2, <1>3, <1>6, <2>1, NetworkInv
<1> QED
  BY <1>4, <1>5, <1>6 DEF Apply

(* A transaction that is not applied in time is gone for good.             *)
LEMMA DropInv ==
    ASSUME ClientInv, NEW i \in DOMAIN txs, Drop(i)
    PROVE  ClientInv'
<1>1. /\ txs[i].state = "pending" /\ Mark(i, "dropped")
      /\ UNCHANGED billVars /\ accountSeq' = accountSeq /\ panel' = panel
  BY DEF Drop
<1>2. /\ txs \in Seq(TxRecord) /\ BillInv /\ accountSeq' \in Nat
  BY <1>1 DEF ClientInv, TxsInv
<1>3. BillInv' /\ Kept(bills, bills', settled, settled')
  BY <1>1, <1>2, OthersKeep
<1> DEFINE t == InState(i, "dropped")
<1>4. /\ t \in TxRecord /\ txs' = [txs EXCEPT ![i] = t]
      /\ t.call = txs[i].call /\ t.form = txs[i].form
      /\ t.bill = txs[i].bill /\ t.share = txs[i].share
      /\ t.state = "dropped"
  BY <1>1, <1>2, InStateFacts
<1> HIDE DEF t
<1> QED
  BY <1>1, <1>2, <1>3, <1>4, NetworkInv

(* What others do to the chain does not concern the page.                  *)
LEMMA OthersInv ==
    ASSUME ClientInv, [BillNext]_billVars, accountSeq' \in Nat,
           txs' = txs, panel' = panel
    PROVE  ClientInv'
<1>1. BillInv' /\ Kept(bills, bills', settled, settled')
  BY OthersKeep DEF ClientInv
<1>2. txs \in Seq(TxRecord) /\ Steady(txs, txs)
  BY DEF ClientInv, TxsInv, Steady
<1>3. \A i \in DOMAIN txs : TxInv(txs, i, bills', settled')
  BY <1>1, <1>2, TxStays DEF ClientInv, TxsInv
<1>4. TxsInv(txs, bills', settled')
  BY <1>3 DEF ClientInv, TxsInv
<1> QED
  BY <1>1, <1>4 DEF ClientInv

-----------------------------------------------------------------------------

(* Nothing is built, sent or known at first.                               *)
LEMMA ClientInitInv == ClientInit => ClientInv
<1> SUFFICES ASSUME ClientInit
             PROVE  ClientInv
  OBVIOUS
<1>1. BillInv /\ accountSeq \in Nat
  BY BillInitInv DEF ClientInit
<1>2. txs = <<>> /\ txs \in Seq(TxRecord) /\ DOMAIN txs = {}
  BY EmptySeq DEF ClientInit
<1>3. panel = [p \in Panels |-> Idle]
  BY DEF ClientInit
<1>4. panel \in [Panels -> Job]
  BY <1>3, IdleIsJob
<1>5. ASSUME NEW p \in Panels
      PROVE  JobInv(p, panel[p], txs)
  BY <1>3 DEF JobInv, Idle
<1>6. CountInv(panel["split"], txs)
  <2>1. ASSUME NEW form \in Forms
        PROVE  Cardinality(Created(txs, form))
                 + (IF Owing(panel["split"], txs, form) THEN 1 ELSE 0)
                     <= Cardinality(PaymentsOf(txs, form))
    <3>1. Created(txs, form) = {} /\ PaymentsOf(txs, form) = {}
      BY <1>2 DEF Created, PaymentsOf
    <3>2. ~ Owing(panel["split"], txs, form)
      BY <1>3 DEF Owing, Idle, Panels
    <3>3. Cardinality({}) = 0
      BY FS_EmptySet
    <3> QED
      BY <3>1, <3>2, <3>3
  <2> QED
    BY <2>1 DEF CountInv
<1> QED
  BY <1>1, <1>2, <1>4, <1>5, <1>6 DEF ClientInv, TxsInv

(* Every step keeps ClientInv.                                             *)
LEMMA ClientStepInv == ClientInv /\ [ClientNext]_clientVars => ClientInv'
<1> SUFFICES ASSUME ClientInv, [ClientNext]_clientVars
             PROVE  ClientInv'
  OBVIOUS
<1>1. ASSUME NEW form \in Forms, NEW record \in BOOLEAN, StartSplit(form, record)
      PROVE  ClientInv'
  BY <1>1, StartSplitInv
<1>2. ASSUME NEW id \in 1 .. MaxU32, StartSettle(id)
      PROVE  ClientInv'
  BY <1>2, StartSettleInv
<1>3. ASSUME NEW p \in Panels, Proceed(p) \/ PollThrows(p) \/ Tick(p)
      PROVE  ClientInv'
  BY <1>3, LoadAccountInv, SimulateInv, SignInv, SendInv, HearSuccessInv,
     GivingUpInv, TickInv DEF Proceed
<1>4. ASSUME NEW i \in DOMAIN txs, Apply(i) \/ Drop(i)
      PROVE  ClientInv'
  BY <1>4, ApplyInv, DropInv
<1>5. CASE OtherTab
  <2>1. BillNext
    BY <1>5, ClientAssumption DEF OtherTab, BillNext
  <2>2. accountSeq' \in Nat /\ txs' = txs /\ panel' = panel
    BY <1>5 DEF OtherTab, ClientInv
  <2> QED
    BY <2>1, <2>2, OthersInv
<1>6. CASE OtherWallet
  <2>1. BillNext
    BY <1>6 DEF OtherWallet, BillNext, TokenNext
  <2>2. accountSeq' \in Nat /\ txs' = txs /\ panel' = panel
    BY <1>6 DEF OtherWallet, ClientInv
  <2> QED
    BY <2>1, <2>2, OthersInv
<1>7. CASE UNCHANGED clientVars
  <2>1. UNCHANGED billVars /\ accountSeq' = accountSeq /\ txs' = txs /\ panel' = panel
    BY <1>7 DEF clientVars
  <2>2. accountSeq' \in Nat
    BY <2>1 DEF ClientInv
  <2> QED
    BY <2>1, <2>2, OthersInv
<1> QED
  BY <1>1, <1>2, <1>3, <1>4, <1>5, <1>6, <1>7 DEF ClientNext

(* Every reachable state of the client has ClientInv.                      *)
THEOREM ClientInvariant == ClientSpec => []ClientInv
  BY ClientInitInv, ClientStepInv, PTL DEF ClientSpec

(* The page is always in one of its states, and whatever waits for an      *)
(* answer has a transaction of its own call to wait for.                   *)
THEOREM ClientTypeCorrect == ClientSpec => []ClientTypeOK
<1>1. ASSUME ClientInv
      PROVE  ClientTypeOK
  <2>1. txs \in Seq(TxRecord)
    BY <1>1 DEF ClientInv, TxsInv
  <2>2. ASSUME NEW p \in Panels
        PROVE  /\ panel[p].phase \in Working \cup {"idle", "success", "failed"}
               /\ panel[p].error \in Categories
               /\ panel[p].call \in IF p = "split" THEN {"xlm", "create_bill"}
                                    ELSE {"xlm", "settle"}
               /\ panel[p].phase \in {"simulate", "sign", "send", "confirm"} =>
                     /\ panel[p].cur \in DOMAIN txs
                     /\ txs[panel[p].cur].call = panel[p].call
    <3>1. panel[p] \in Job /\ JobInv(p, panel[p], txs)
      BY <1>1 DEF ClientInv
    <3>2. /\ panel[p].phase \in Working \cup {"idle", "success", "failed"}
          /\ panel[p].error \in Categories
      BY <3>1 DEF Job
    <3> QED
      BY <3>1, <3>2 DEF JobInv, Panels
  <2> QED
    BY <2>1, <2>2 DEF ClientTypeOK
<1> QED
  BY <1>1, ClientInvariant, PTL

(* A success banner is true, for every number of attempts, whatever other  *)
(* wallets and other tabs do meanwhile: the payments were applied, the     *)
(* bill it names is this form's, the share that was settled is marked.     *)
THEOREM SuccessIsAlwaysReal == ClientSpec => []SuccessIsReal
<1>1. ASSUME ClientInv
      PROVE  SuccessIsReal
  <2>1. \A p \in Panels : JobInv(p, panel[p], txs)
    BY <1>1 DEF ClientInv
  <2>2. \A i \in DOMAIN txs : TxInv(txs, i, bills, settled)
    BY <1>1 DEF ClientInv, TxsInv
  <2>3. ASSUME NEW j \in DOMAIN txs, NEW form, Paid(txs, j, form)
        PROVE  Applied("xlm", form, 0) # {}
    <3>1. txs[j].bill = 0
      BY <2>2, <2>3 DEF TxInv, Paid
    <3>2. j \in Applied("xlm", form, 0)
      BY <2>3, <3>1 DEF Applied, Paid
    <3> QED
      BY <3>2
  <2>4. ASSUME panel["split"].phase = "success"
        PROVE  LET job == panel["split"] IN
               /\ Applied("xlm", job.form, 0) # {}
               /\ job.record => /\ job.result \in DOMAIN bills
                                /\ bills[job.result].creator = User
                                /\ bills[job.result].payers = job.form.payers
                                /\ bills[job.result].share = Recorded(job.form)
    <3> DEFINE job == panel["split"]
               t == txs[job.cur]
    <3>1. JobInv("split", job, txs) /\ job.phase = "success"
      BY <2>1, <2>4 DEF Panels
    <3> HIDE DEF job
    <3>2. /\ job.call \in {"xlm", "create_bill"} /\ job.cur \in DOMAIN txs
          /\ t.call = job.call /\ t.form = job.form
          /\ t.state = "SUCCESS" /\ job.result = t.result
          /\ job.call = "xlm" => ~ job.record
          /\ job.call = "create_bill" => \E j \in DOMAIN txs : Paid(txs, j, job.form)
      BY <3>1 DEF JobInv
    <3>3. CASE job.call = "xlm"
      <4>1. Paid(txs, job.cur, job.form)
        BY <3>2, <3>3 DEF Paid
      <4>2. Applied("xlm", job.form, 0) # {}
        BY <2>3, <3>2, <4>1
      <4> QED
        BY <3>2, <3>3, <4>2 DEF job
    <3>4. CASE job.call = "create_bill"
      <4>1. Applied("xlm", job.form, 0) # {}
        BY <2>3, <3>2, <3>4
      <4>2. TxInv(txs, job.cur, bills, settled)
        BY <2>2, <3>2
      <4>3. /\ t.share = Recorded(job.form) /\ job.result \in DOMAIN bills
            /\ bills[job.result] = [creator |-> User, payers |-> job.form.payers,
                                    share |-> Recorded(job.form)]
        BY <3>2, <3>4, <4>2 DEF TxInv
      <4> QED
        BY <4>1, <4>3 DEF job
    <3> QED
      BY <3>2, <3>3, <3>4
  <2>5. ASSUME panel["settle"].phase = "success"
        PROVE  <<panel["settle"].bill, User>> \in settled
    <3> DEFINE job == panel["settle"]
    <3>1. JobInv("settle", job, txs) /\ job.phase = "success"
      BY <2>1, <2>5 DEF Panels
    <3> HIDE DEF job
    <3>2. /\ job.cur \in DOMAIN txs /\ IsSettlement(txs[job.cur])
          /\ txs[job.cur].bill = job.bill
      BY <3>1 DEF JobInv, IsSettlement
    <3>3. <<job.bill, User>> \in settled
      BY <2>2, <3>2 DEF TxInv
    <3> QED
      BY <3>3 DEF job
  <2> QED
    BY <2>4, <2>5 DEF SuccessIsReal
<1> QED
  BY <1>1, ClientInvariant, PTL

(* No bill is recorded for money that was not sent: of each form at most   *)
(* as many bills are created as payments were applied.                     *)
THEOREM BillsAreAlwaysPaidFirst == ClientSpec => []BillsArePaidFirst
<1>1. ASSUME ClientInv, NEW form \in Forms
      PROVE  Cardinality(Applied("create_bill", form, 0))
                 <= Cardinality(Applied("xlm", form, 0))
  <2>1. /\ txs \in Seq(TxRecord) /\ CountInv(panel["split"], txs)
        /\ \A i \in DOMAIN txs : TxInv(txs, i, bills, settled)
    BY <1>1 DEF ClientInv, TxsInv
  <2>2. Applied("create_bill", form, 0) \in SUBSET Created(txs, form)
    BY DEF Applied, Created
  <2>3. Applied("xlm", form, 0) = PaymentsOf(txs, form)
    BY <2>1 DEF Applied, PaymentsOf, Paid, TxInv
  <2>4. /\ IsFiniteSet(Created(txs, form))
        /\ Cardinality(Created(txs, form)) \in Nat
        /\ Cardinality(PaymentsOf(txs, form)) \in Nat
    BY <2>1, Countable
  <2>5. /\ Cardinality(Applied("create_bill", form, 0)) <= Cardinality(Created(txs, form))
        /\ IsFiniteSet(Applied("create_bill", form, 0))
    BY <2>2, <2>4, FS_Subset
  <2>6. Cardinality(Applied("create_bill", form, 0)) \in Nat
    BY <2>5, FS_CardinalityType
  <2>7. Cardinality(Created(txs, form))
          + (IF Owing(panel["split"], txs, form) THEN 1 ELSE 0)
              <= Cardinality(PaymentsOf(txs, form))
    BY <2>1 DEF CountInv
  <2> QED
    BY <2>3, <2>4, <2>5, <2>6, <2>7
<1>2. ClientInv => BillsArePaidFirst
  BY <1>1 DEF BillsArePaidFirst
<1> QED
  BY <1>2, ClientInvariant, PTL

(* Settling again after a timeout is harmless: of all the settle           *)
(* transactions this page sends for a bill at most one is ever applied.    *)
THEOREM AlwaysSettledAtMostOnce == ClientSpec => []SettledAtMostOnce
<1>1. ASSUME ClientInv, NEW id
      PROVE  Cardinality(Applied("settle", NoForm, id)) <= 1
  <2> DEFINE S == Applied("settle", NoForm, id)
  <2>1. \A i, j \in S : i = j
    BY <1>1 DEF Applied, ClientInv, TxsInv, IsSettlement
  <2> HIDE DEF S
  <2>2. CASE S = {}
    BY <2>2, FS_EmptySet DEF S
  <2>3. CASE S # {}
    <3>1. PICK i \in S : TRUE
      BY <2>3
    <3>2. S = {i}
      BY <2>1, <3>1
    <3>3. Cardinality({i}) = 1
      BY FS_Singleton
    <3> QED
      BY <3>2, <3>3 DEF S
  <2> QED
    BY <2>2, <2>3
<1>2. ClientInv => SettledAtMostOnce
  BY <1>1 DEF SettledAtMostOnce
<1> QED
  BY <1>2, ClientInvariant, PTL

(* A registry call that is reported as rejected, refused or failing in     *)
(* simulation has had no effect and never will.                            *)
THEOREM ErrorsAlwaysLeaveNothing == ClientSpec => []ErrorsLeaveNothing
<1>1. ASSUME ClientInv, NEW p \in Panels,
             NEW category \in {"validation", "rejected", "simulation", "submission"},
             panel[p].call # "xlm"
      PROVE  ~ Effective(p, category)
  <2>1. JobInv(p, panel[p], txs)
    BY <1>1 DEF ClientInv
  <2> QED
    BY <1>1, <2>1 DEF JobInv, Effective
<1>2. ClientInv => ErrorsLeaveNothing
  BY <1>1 DEF ErrorsLeaveNothing
<1> QED
  BY <1>2, ClientInvariant, PTL

(* The payments of a form, as the network reads their texts, add up to the *)
(* total as the page reads its text, for every total, every number of      *)
(* payers and every number of decimals.                                    *)
THEOREM PaymentsAlwaysAddUp == ClientSpec => []PaymentsAddUp
<1>1. ASSUME ClientInv, NEW i \in DOMAIN txs, txs[i].call = "xlm"
      PROVE  SumFunction(Moved(txs[i].form)) = Worth(txs[i].form.total)
  <2>1. Sendable(txs[i].form)
    BY <1>1 DEF ClientInv, TxsInv, TxInv
  <2>2. /\ Len(txs[i].form.payers) \in Nat \ {0} /\ Worth(txs[i].form.total) \in Nat
        /\ Moved(txs[i].form) =
              ComputeShares(Worth(txs[i].form.total), Len(txs[i].form.payers))
    BY <2>1, FormFacts DEF Sendable
  <2> QED
    BY <2>2, SharesAddUp
<1>2. ClientInv => PaymentsAddUp
  BY <1>1 DEF PaymentsAddUp
<1> QED
  BY <1>2, ClientInvariant, PTL

(* What a bill of this page says of its payers was paid before: each got   *)
(* at least the recorded share, and less than a stroop per payer was paid  *)
(* over.                                                                   *)
THEOREM RecordedIsAlwaysPaid == ClientSpec => []RecordedIsPaid
<1>1. ASSUME ClientInv, NEW i \in DOMAIN txs,
             txs[i].call = "create_bill", txs[i].state = "SUCCESS"
      PROVE  LET form  == txs[i].form
                 n     == Len(form.payers)
                 share == bills[txs[i].result].share
             IN  \E j \in 1 .. i - 1 :
                     /\ j \in Applied("xlm", form, 0)
                     /\ \A k \in 1 .. n : Moved(txs[j].form)[k] >= share
                     /\ SumFunction(Moved(txs[j].form)) - n * share \in 0 .. n - 1
  <2> DEFINE form  == txs[i].form
             n     == Len(form.payers)
             share == bills[txs[i].result].share
             total == Worth(form.total)
  <2>1. /\ TxInv(txs, i, bills, settled)
        /\ \A j \in DOMAIN txs : TxInv(txs, j, bills, settled)
        /\ DOMAIN txs = 1 .. Len(txs) /\ Len(txs) \in Nat
    BY <1>1 DEF ClientInv, TxsInv
  <2>2. Sendable(form) /\ share = Recorded(form)
    BY <1>1, <2>1 DEF TxInv
  <2>3. PICK j \in 1 .. i - 1 : Paid(txs, j, form)
    BY <1>1, <2>1 DEF TxInv
  <2>4. j \in Applied("xlm", form, 0) /\ txs[j].form = form
    <3>1. j \in DOMAIN txs
      BY <2>1
    <3> QED
      BY <2>1, <2>3, <3>1 DEF Applied, Paid, TxInv
  <2>5. /\ n \in Nat \ {0} /\ total \in Nat
        /\ Moved(form) = ComputeShares(total, n)
        /\ Moved(form) \in [1 .. n -> Nat]
    BY <2>2, FormFacts DEF Sendable
  <2> HIDE DEF form, n, total
  <2>6. share = BaseShare(total, n)
    BY <2>2 DEF Recorded, n, total
  <2> HIDE DEF share
  <2>7. share \in Nat /\ total - share * n \in 0 .. n - 1
    BY <2>5, <2>6, BaseShareBounds
  <2>8. ASSUME NEW k \in 1 .. n
        PROVE  Moved(form)[k] >= share
    <3>1. Moved(form)[k] - share \in IF k = n THEN 0 .. n - 1 ELSE {0}
      BY <2>5, <2>6, SharesAreFair
    <3>2. Moved(form)[k] \in Nat
      BY <2>5
    <3> QED
      BY <2>5, <2>7, <3>1, <3>2
  <2>9. SumFunction(Moved(form)) - n * share \in 0 .. n - 1
    <3>1. SumFunction(Moved(form)) = total
      BY <2>5, SharesAddUp
    <3>2. n * share = share * n
      BY <2>5, <2>7
    <3> QED
      BY <2>7, <3>1, <3>2
  <2> QED
    BY <2>4, <2>8, <2>9 DEF form, n, share
<1>2. ClientInv => RecordedIsPaid
  BY <1>1 DEF RecordedIsPaid
<1> QED
  BY <1>2, ClientInvariant, PTL

(* Of the forms that are paid, create_bill refuses those with too many     *)
(* payers and those whose blank memo is too long in bytes, and no other.   *)
THEOREM PaidFormsAreAlwaysRecordable == ClientSpec => []PaidFormsAreRecordable
<1>1. ASSUME ClientInv, NEW i \in DOMAIN txs,
             txs[i].call = "xlm", txs[i].state = "SUCCESS"
      PROVE  LET form == txs[i].form IN
             \/ ValidBill(form.payers, Recorded(form), Bytes(form.memo))
             \/ Len(form.payers) > MaxPayers
             \/ form.memo.blank /\ Bytes(form.memo) > MaxMemoLen
  <2> DEFINE form == txs[i].form
  <2>1. Sendable(form)
    BY <1>1 DEF ClientInv, TxsInv, TxInv
  <2> HIDE DEF form
  <2>2. /\ Recorded(form) > 0
        /\ form.memo.blank \/ Bytes(form.memo) <= MaxMemoLen
        /\ Bytes(form.memo) \in Nat
        /\ Len(form.payers) \in Nat
        /\ form.payers # <<>>
    <3>1. /\ Recorded(form) \in 1 .. MaxI64
          /\ form.memo.blank \/ Bytes(form.memo) <= MaxMemoLen
      BY <2>1, SendableFacts
    <3>2. MaxI64 \in Int
      BY ClientAssumption, TokenAssumption
    <3>3. /\ Len(form.payers) \in Nat \ {0} /\ form.payers # <<>>
          /\ Bytes(form.memo) \in Nat
      BY <2>1, FormFacts DEF Sendable, ValidForm
    <3> QED
      BY <3>1, <3>2, <3>3
  <2>3. MaxPayers \in Nat /\ MaxMemoLen \in Nat
    BY BillAssumption
  <2> QED
    BY <2>2, <2>3 DEF ValidBill, form
<1>2. ClientInv => PaidFormsAreRecordable
  BY <1>1 DEF PaidFormsAreRecordable
<1> QED
  BY <1>2, ClientInvariant, PTL

-----------------------------------------------------------------------------
\* Every attempt gets nearer to its end.

\* The confirmation loop has not gone on for longer than it may.
RoundsInv == \A p \in Panels : panel[p].waited <= PollLimit + 1

(* A panel at work that ends is at its end.                                *)
LEMMA EndingIsNearer ==
    ASSUME NEW old \in Job, old.phase \in Working, old.waited <= PollLimit + 1,
           NEW job, job.phase \in {"failed", "success"}
    PROVE  StepsLeft(job) < StepsLeft(old)
<1>1. PollLimit \in Nat /\ old.waited \in Nat
  BY ClientAssumption DEF Job
<1>2. StepsLeft(job) = 0
  BY <1>1 DEF StepsLeft, LeftOfLeg, Working
<1>3. StepsLeft(old) > 0
  BY <1>1 DEF StepsLeft, LeftOfLeg, Working
<1> QED
  BY <1>2, <1>3

(* Going on with the leg it is in brings it nearer to its end.             *)
LEMMA GoingIsNearer ==
    ASSUME NEW old \in Job, NEW job \in Job,
           job.call = old.call, job.record = old.record,
           \/ old.phase = "load" /\ job.phase \in {"simulate", "sign"}
           \/ old.phase = "simulate" /\ job.phase = "sign"
           \/ old.phase = "sign" /\ job.phase = "send"
           \/ old.phase = "send" /\ job.phase = "confirm" /\ job.waited = 0
           \/ old.phase = "confirm" /\ job.phase = "confirm"
              /\ job.waited = old.waited + 1
    PROVE  StepsLeft(job) < StepsLeft(old)
<1> DEFINE next == IF old.call = "xlm" /\ old.record THEN PollLimit + 6 ELSE 0
<1>1. PollLimit \in Nat /\ old.waited \in Nat /\ job.waited \in Nat
  BY ClientAssumption DEF Job
<1>2. next \in Nat
  BY <1>1
<1>3. StepsLeft(job) = LeftOfLeg(job) + next /\ StepsLeft(old) = LeftOfLeg(old) + next
  BY DEF StepsLeft, Working
<1> HIDE DEF next
<1>4. LeftOfLeg(job) \in Int /\ LeftOfLeg(old) \in Int /\ LeftOfLeg(job) < LeftOfLeg(old)
  BY <1>1 DEF LeftOfLeg
<1> QED
  BY <1>2, <1>3, <1>4

(* Once its payments are applied an attempt has its create_bill to come.   *)
LEMMA RecordingIsNearer ==
    ASSUME NEW old \in Job, old.phase = "confirm", old.call = "xlm", old.record,
           old.waited <= PollLimit + 1,
           NEW job, job.phase = "load", job.call = "create_bill"
    PROVE  StepsLeft(job) < StepsLeft(old)
<1>1. PollLimit \in Nat /\ old.waited \in Nat
  BY ClientAssumption DEF Job
<1>2. StepsLeft(job) = PollLimit + 6
  BY <1>1 DEF StepsLeft, LeftOfLeg, Working
<1>3. StepsLeft(old) = PollLimit + 2 - old.waited + (PollLimit + 6)
  BY <1>1 DEF StepsLeft, LeftOfLeg, Working
<1> QED
  BY <1>1, <1>2, <1>3

\* The panel goes on, to somewhere nearer to the end of its attempt.
ComesNearer(p) ==
    \E job : /\ Become(p, job)
             /\ job.waited <= PollLimit + 1
             /\ StepsLeft(job) < StepsLeft(panel[p])

(* Every answer that a panel at work hears, and every round of its loop,   *)
(* brings it nearer to its end.                                            *)
LEMMA AttemptComesNearer ==
    ASSUME ClientInv, RoundsInv, NEW p \in Panels,
           Proceed(p) \/ PollThrows(p) \/ Tick(p)
    PROVE  ComesNearer(p)
<1> DEFINE old == panel[p]
<1>1. /\ old \in Job /\ old.waited <= PollLimit + 1
      /\ old.waited \in Nat /\ PollLimit \in Nat
  BY ClientAssumption DEF ClientInv, RoundsInv, Job
<1>2. old.phase \in Working
  BY DEF Proceed, LoadAccount, Simulate, Sign, Send, HearSuccess, HearFailure,
         GiveUp, PollThrows, Tick, Working
<1>3. ASSUME NEW c, Fail(p, c)
      PROVE  ComesNearer(p)
  <2> DEFINE job == [old EXCEPT !.phase = "failed", !.error = c]
  <2>1. Become(p, job)
    BY <1>3 DEF Fail
  <2>2. job.phase = "failed" /\ job.waited = old.waited
    BY <1>1 DEF Job
  <2> HIDE DEF job, old
  <2>3. StepsLeft(job) < StepsLeft(old)
    BY <1>1, <1>2, <2>2, EndingIsNearer
  <2> QED
    BY <1>1, <2>1, <2>2, <2>3 DEF ComesNearer, old
<1>4. ASSUME NEW phase \in {"sign", "send"}, Go(p, phase),
             \/ old.phase = "simulate" /\ phase = "sign"
             \/ old.phase = "sign" /\ phase = "send"
      PROVE  ComesNearer(p)
  <2> DEFINE job == [old EXCEPT !.phase = phase]
  <2>1. Become(p, job)
    BY <1>4 DEF Go
  <2>2. /\ job \in Job /\ job.phase = phase /\ job.waited = old.waited
        /\ job.call = old.call /\ job.record = old.record
    BY <1>1 DEF Job, Working
  <2>3. \/ old.phase = "simulate" /\ phase = "sign"
        \/ old.phase = "sign" /\ phase = "send"
    BY <1>4
  <2> HIDE DEF job, old
  <2>4. StepsLeft(job) < StepsLeft(old)
    BY <1>1, <2>2, <2>3, GoingIsNearer
  <2> QED
    BY <1>1, <2>1, <2>2, <2>4 DEF ComesNearer, old
<1>5. ASSUME NEW n \in Nat, Become(p, [old EXCEPT !.phase = "confirm", !.waited = n]),
             \/ old.phase = "send" /\ n = 0
             \/ old.phase = "confirm" /\ n = old.waited + 1 /\ old.waited <= PollLimit
      PROVE  ComesNearer(p)
  <2> DEFINE job == [old EXCEPT !.phase = "confirm", !.waited = n]
  <2>1. Become(p, job)
    BY <1>5
  <2>2. /\ job \in Job /\ job.phase = "confirm" /\ job.waited = n
        /\ job.call = old.call /\ job.record = old.record
    BY <1>1 DEF Job, Working
  <2>3. \/ old.phase = "send" /\ n = 0
        \/ old.phase = "confirm" /\ n = old.waited + 1 /\ old.waited <= PollLimit
    BY <1>5
  <2> HIDE DEF job, old
  <2>4. StepsLeft(job) < StepsLeft(old)
    BY <1>1, <2>2, <2>3, GoingIsNearer
  <2>5. n <= PollLimit + 1
    BY <1>1, <2>3
  <2> QED
    BY <2>1, <2>2, <2>4, <2>5 DEF ComesNearer, old
<1>6. CASE LoadAccount(p)
  <2>1. CASE Build(p)
    <3> DEFINE phase == IF old.call = "xlm" THEN "sign" ELSE "simulate"
               next  == Len(txs) + 1
               job   == [old EXCEPT !.phase = phase, !.cur = next]
    <3>1. Become(p, job)
      BY <2>1 DEF Build
    <3>2. phase \in {"simulate", "sign"} /\ next \in Nat
      BY LenProperties DEF ClientInv, TxsInv
    <3>3. old.phase = "load"
      BY <1>6 DEF LoadAccount
    <3> HIDE DEF phase, next
    <3>4. /\ job \in Job /\ job.phase = phase /\ job.waited = old.waited
          /\ job.call = old.call /\ job.record = old.record
      BY <1>1, <3>2 DEF Job, Working
    <3> HIDE DEF job, old
    <3>5. StepsLeft(job) < StepsLeft(old)
      BY <1>1, <3>2, <3>3, <3>4, GoingIsNearer
    <3> QED
      BY <1>1, <3>1, <3>4, <3>5 DEF ComesNearer, old
  <2> QED
    BY <1>3, <1>6, <2>1 DEF LoadAccount
<1>7. CASE Simulate(p)
  BY <1>3, <1>4, <1>7 DEF Simulate
<1>8. CASE Sign(p)
  BY <1>3, <1>4, <1>8 DEF Sign
<1>9. CASE Send(p)
  <2>1. old.phase = "send"
    BY <1>9 DEF Send
  <2>2. CASE Become(p, [old EXCEPT !.phase = "confirm", !.waited = 0])
    BY <1>5, <2>1, <2>2
  <2> QED
    BY <1>3, <1>9, <2>2 DEF Send
<1>10. CASE HearSuccess(p)
  <2> DEFINE next == [old EXCEPT !.phase = "load", !.call = "create_bill"]
             done == [old EXCEPT !.phase = "success", !.result = txs[old.cur].result]
  <2>1. /\ old.phase = "confirm"
        /\ Become(p, IF old.call = "xlm" /\ old.record THEN next ELSE done)
    BY <1>10 DEF HearSuccess
  <2>2. /\ next.phase = "load" /\ next.call = "create_bill" /\ next.waited = old.waited
        /\ done.phase = "success" /\ done.waited = old.waited
    BY <1>1 DEF Job
  <2> HIDE DEF next, done, old
  <2>3. CASE old.call = "xlm" /\ old.record
    <3>1. StepsLeft(next) < StepsLeft(old)
      BY <1>1, <2>1, <2>2, <2>3, RecordingIsNearer
    <3> QED
      BY <1>1, <2>1, <2>2, <2>3, <3>1 DEF ComesNearer, old
  <2>4. CASE ~(old.call = "xlm" /\ old.record)
    <3>1. StepsLeft(done) < StepsLeft(old)
      BY <1>1, <1>2, <2>2, EndingIsNearer
    <3>2. Become(p, done)
      BY <2>1, <2>4
    <3> QED
      BY <1>1, <2>2, <3>1, <3>2 DEF ComesNearer, old
  <2> QED
    BY <2>3, <2>4
<1>11. CASE HearFailure(p) \/ GiveUp(p) \/ PollThrows(p)
  BY <1>3, <1>11 DEF HearFailure, GiveUp, PollThrows
<1>12. CASE Tick(p)
  <2>1. /\ old.phase = "confirm" /\ old.waited <= PollLimit
        /\ Become(p, [old EXCEPT !.waited = old.waited + 1])
    BY <1>12 DEF Tick
  <2>2. old.waited + 1 \in Nat
    BY <1>1
  <2>3. [old EXCEPT !.waited = old.waited + 1]
          = [old EXCEPT !.phase = "confirm", !.waited = old.waited + 1]
    BY <1>1, <2>1 DEF Job
  <2> QED
    BY <1>5, <2>1, <2>2, <2>3
<1> QED
  BY <1>6, <1>7, <1>8, <1>9, <1>10, <1>11, <1>12 DEF Proceed

\* What a step does to the panels: one goes on, one that is not at work
\* begins, or none does anything.
PanelsStep ==
    \/ panel' = panel
    \/ \E p \in Panels :
          \/ ComesNearer(p)
          \/ ~InProgress(p) /\ \E job : Become(p, job) /\ job.waited <= PollLimit + 1

(* Nothing else happens to them.                                           *)
LEMMA PanelsOnlyStep ==
    ASSUME ClientInv, RoundsInv, [ClientNext]_clientVars
    PROVE  PanelsStep
<1>1. Idle.waited = 0 /\ 0 <= PollLimit + 1
  BY ClientAssumption DEF Idle
<1>2. ASSUME NEW form \in Forms, NEW record \in BOOLEAN, StartSplit(form, record)
      PROVE  PanelsStep
  <2> DEFINE job == [Idle EXCEPT !.phase = "load", !.form = form, !.record = record]
  <2>1. "split" \in Panels /\ ~InProgress("split") /\ Become("split", job)
    BY <1>2 DEF StartSplit, Panels
  <2>2. job.waited = 0
    BY DEF Idle
  <2> HIDE DEF job
  <2> QED
    BY <1>1, <2>1, <2>2 DEF PanelsStep
<1>3. ASSUME NEW id, StartSettle(id)
      PROVE  PanelsStep
  <2> DEFINE job == [Idle EXCEPT !.phase = "load", !.call = "settle", !.bill = id]
  <2>1. "settle" \in Panels /\ ~InProgress("settle") /\ Become("settle", job)
    BY <1>3 DEF StartSettle, Panels
  <2>2. job.waited = 0
    BY DEF Idle
  <2> HIDE DEF job
  <2> QED
    BY <1>1, <2>1, <2>2 DEF PanelsStep
<1>4. ASSUME NEW p \in Panels, Proceed(p) \/ PollThrows(p) \/ Tick(p)
      PROVE  PanelsStep
  BY <1>4, AttemptComesNearer DEF PanelsStep
<1>5. CASE \/ \E i \in DOMAIN txs : Apply(i) \/ Drop(i)
           \/ OtherTab \/ OtherWallet \/ UNCHANGED clientVars
  BY <1>5 DEF PanelsStep, Apply, Drop, OtherTab, OtherWallet, clientVars
<1> QED
  BY <1>2, <1>3, <1>4, <1>5 DEF ClientNext

(* The loop gives up in time.                                              *)
LEMMA RoundsStepInv ==
    ClientInv /\ RoundsInv /\ [ClientNext]_clientVars => RoundsInv'
<1> SUFFICES ASSUME ClientInv, RoundsInv, [ClientNext]_clientVars
             PROVE  RoundsInv'
  OBVIOUS
<1>1. PanelsStep /\ panel \in [Panels -> Job]
  BY PanelsOnlyStep DEF ClientInv
<1>2. ASSUME NEW p \in Panels, NEW job, Become(p, job), job.waited <= PollLimit + 1
      PROVE  RoundsInv'
  BY <1>1, <1>2 DEF RoundsInv, Become
<1>3. CASE panel' = panel
  BY <1>3 DEF RoundsInv
<1> QED
  BY <1>1, <1>2, <1>3 DEF PanelsStep, ComesNearer

(* The half of EveryAttemptEnds that needs no fairness: whatever happens   *)
(* to a panel at work leaves it less to do, so that an attempt hears at    *)
(* most StepsLeft answers and rounds, whatever the limits are.             *)
THEOREM AnswersAreAlwaysProgress == ClientSpec => AnswersAreProgress
<1>1. ClientInit => RoundsInv
  <2>1. Idle.waited = 0 /\ PollLimit \in Nat
    BY ClientAssumption DEF Idle
  <2> QED
    BY <2>1 DEF ClientInit, RoundsInv
<1>2. ASSUME ClientInv, RoundsInv, [ClientNext]_clientVars
      PROVE  [\A p \in Panels :
                InProgress(p) => \/ panel'[p] = panel[p]
                                 \/ StepsLeft(panel'[p]) < StepsLeft(panel[p])]_clientVars
  <2>1. PanelsStep /\ panel \in [Panels -> Job]
    BY <1>2, PanelsOnlyStep DEF ClientInv
  <2>2. ASSUME NEW p \in Panels, InProgress(p), panel'[p] # panel[p]
        PROVE  StepsLeft(panel'[p]) < StepsLeft(panel[p])
    <3>1. PICK q \in Panels :
            \/ ComesNearer(q)
            \/ ~InProgress(q) /\ \E job : Become(q, job)
      BY <2>1, <2>2 DEF PanelsStep
    <3>2. q = p
      BY <2>1, <2>2, <3>1 DEF ComesNearer, Become
    <3> QED
      BY <2>1, <2>2, <3>1, <3>2 DEF ComesNearer, Become
  <2> QED
    BY <2>2
<1> QED
  BY <1>1, <1>2, ClientInitInv, ClientStepInv, RoundsStepInv, PTL
     DEF ClientSpec, AnswersAreProgress

\* What a panel does when the server or the user gives the worst answer: it
\* fails, or waits for another round.
WorstOutcome(job) ==
    IF job.phase = "confirm" /\ job.call # "xlm" /\ job.waited <= PollLimit
    THEN [job EXCEPT !.waited = @ + 1]
    ELSE [job EXCEPT !.phase = "failed",
                     !.error = CASE job.phase = "load"     -> "rpc"
                                 [] job.phase = "simulate" -> "other"
                                 [] job.phase = "sign"     -> "rejected"
                                 [] job.phase = "send"     -> "submission"
                                 [] OTHER -> IF job.call = "xlm"
                                             THEN "submission" ELSE "rpc"]

(* Fairness has something to be fair to: in every state of a panel at work *)
(* the worst answer it may get is a step of Proceed or of Tick that        *)
(* changes it, whatever the network has done to its transaction and        *)
(* without anything of the other panel, the chain or the account.          *)
THEOREM NoAttemptIsStuck ==
    ASSUME ClientInv, NEW p \in Panels, InProgress(p),
           Become(p, WorstOutcome(panel[p])),
           UNCHANGED <<billVars, accountSeq, txs>>
    PROVE  /\ Proceed(p) \/ Tick(p)
           /\ panel'[p] # panel[p]
<1> DEFINE old == panel[p]
<1>1. /\ old \in Job /\ old.waited \in Nat /\ PollLimit \in Nat
      /\ panel \in [Panels -> Job] /\ old.phase \in Working
  BY ClientAssumption DEF ClientInv, Job, InProgress
<1>2. panel'[p] = WorstOutcome(old)
  BY <1>1 DEF Become
<1>3. CASE old.phase = "load"
  <2>1. WorstOutcome(old) = [old EXCEPT !.phase = "failed", !.error = "rpc"]
    BY <1>3 DEF WorstOutcome
  <2>2. LoadAccount(p)
    BY <1>3, <2>1 DEF LoadAccount, Fail
  <2>3. WorstOutcome(old).phase = "failed"
    BY <1>1, <2>1 DEF Job
  <2> QED
    BY <1>2, <1>3, <2>2, <2>3 DEF Proceed
<1>4. CASE old.phase = "simulate"
  <2>1. WorstOutcome(old) = [old EXCEPT !.phase = "failed", !.error = "other"]
    BY <1>4 DEF WorstOutcome
  <2>2. Fail(p, "other")
    BY <2>1 DEF Fail
  <2>3. Simulate(p)
    BY <1>4, <2>2 DEF Simulate
  <2>4. WorstOutcome(old).phase = "failed"
    BY <1>1, <2>1 DEF Job
  <2> QED
    BY <1>2, <1>4, <2>3, <2>4 DEF Proceed
<1>5. CASE old.phase = "sign"
  <2>1. WorstOutcome(old) = [old EXCEPT !.phase = "failed", !.error = "rejected"]
    BY <1>5 DEF WorstOutcome
  <2>2. Sign(p)
    BY <1>5, <2>1 DEF Sign, Fail
  <2>3. WorstOutcome(old).phase = "failed"
    BY <1>1, <2>1 DEF Job
  <2> QED
    BY <1>2, <1>5, <2>2, <2>3 DEF Proceed
<1>6. CASE old.phase = "send"
  <2>1. WorstOutcome(old) = [old EXCEPT !.phase = "failed", !.error = "submission"]
    BY <1>6 DEF WorstOutcome
  <2>2. Fail(p, "submission")
    BY <2>1 DEF Fail
  <2>3. Send(p)
    BY <1>6, <2>2 DEF Send
  <2>4. WorstOutcome(old).phase = "failed"
    BY <1>1, <2>1 DEF Job
  <2> QED
    BY <1>2, <1>6, <2>3, <2>4 DEF Proceed
<1>7. CASE old.phase = "confirm" /\ old.call # "xlm" /\ old.waited <= PollLimit
  <2>1. WorstOutcome(old) = [old EXCEPT !.waited = old.waited + 1]
    BY <1>7 DEF WorstOutcome
  <2>2. Tick(p)
    BY <1>7, <2>1 DEF Tick
  <2>3. WorstOutcome(old).waited # old.waited
    BY <1>1, <2>1 DEF Job
  <2> QED
    BY <1>2, <2>2, <2>3
<1>8. CASE old.phase = "confirm" /\ ~(old.call # "xlm" /\ old.waited <= PollLimit)
  <2> DEFINE error == IF old.call = "xlm" THEN "submission" ELSE "rpc"
  <2>1. WorstOutcome(old) = [old EXCEPT !.phase = "failed", !.error = error]
    BY <1>8 DEF WorstOutcome
  <2>2. Fail(p, error)
    BY <2>1 DEF Fail
  <2>3. old.call = "xlm" \/ old.waited > PollLimit
    BY <1>1, <1>8
  <2>4. GiveUp(p)
    BY <1>8, <2>2, <2>3 DEF GiveUp
  <2>5. WorstOutcome(old).phase = "failed"
    BY <1>1, <2>1 DEF Job
  <2> QED
    BY <1>2, <1>8, <2>4, <2>5 DEF Proceed
<1> QED
  BY <1>1, <1>3, <1>4, <1>5, <1>6, <1>7, <1>8 DEF Working

-----------------------------------------------------------------------------
\* What a success names is new.

\* The bill that the split panel's transaction has recorded, if it has, is
\* newer than the attempt.
NewInv ==
    /\ began \in Nat /\ began <= billCount
    /\ LET cur == panel["split"].cur IN
       (cur # 0 /\ txs[cur].call = "create_bill" /\ txs[cur].state = "SUCCESS")
           => txs[cur].result > began

(* Bills that stay leave their number no smaller.                          *)
LEMMA CountGrows ==
    ASSUME BillInv, BillInv', Kept(bills, bills', settled, settled')
    PROVE  /\ billCount \in Nat /\ billCount' \in Nat
           /\ billCount <= billCount'
<1>1. /\ billCount \in 0 .. MaxU32 /\ billCount' \in 0 .. MaxU32 /\ MaxU32 \in Nat
      /\ DOMAIN bills = 1 .. billCount /\ DOMAIN bills' = 1 .. billCount'
  BY BillAssumption DEF BillInv, RegistryTypeOK
<1>2. billCount \in Nat /\ billCount' \in Nat
  BY <1>1
<1>3. CASE billCount = 0
  BY <1>2, <1>3
<1>4. CASE billCount # 0
  <2>1. billCount \in DOMAIN bills
    BY <1>1, <1>2, <1>4
  <2>2. billCount \in 1 .. billCount'
    BY <1>1, <2>1 DEF Kept
  <2> QED
    BY <1>2, <2>2
<1> QED
  BY <1>2, <1>3, <1>4

(* The split panel keeps its transaction, or has a new one that is not     *)
(* applied, or it was applied just now, to the newest bill.                *)
LEMMA NewStays ==
    ASSUME ClientInv, ClientInv', NewInv, UNCHANGED began,
           Kept(bills, bills', settled, settled'),
           LET cur == panel'["split"].cur IN
           \/ cur = panel["split"].cur /\ txs'[cur] = txs[cur]
           \/ cur = 0
           \/ txs'[cur].call # "create_bill"
           \/ txs'[cur].state # "SUCCESS"
           \/ txs'[cur].result = billCount' /\ billCount' = billCount + 1
    PROVE  NewInv'
<1>1. billCount \in Nat /\ billCount' \in Nat /\ billCount <= billCount'
  BY CountGrows DEF ClientInv
<1>2. began' = began /\ began \in Nat /\ began <= billCount
  BY DEF NewInv
<1>3. began <= billCount' /\ (billCount' = billCount + 1 => billCount' > began)
  BY <1>1, <1>2
<1> QED
  BY <1>2, <1>3 DEF NewInv

(* A step of a panel that keeps its transaction and what that is.          *)
LEMMA KeepingItsTx ==
    ASSUME ClientInv, ClientInv', NewInv, UNCHANGED <<began, billVars, txs>>,
           NEW p \in Panels, NEW job, Become(p, job), job.cur = panel[p].cur
    PROVE  NewInv'
<1>1. panel'["split"].cur = panel["split"].cur /\ txs' = txs
  BY DEF ClientInv, Become, Panels
<1>2. Kept(bills, bills', settled, settled')
  BY DEF Kept, billVars, registryVars
<1> QED
  BY <1>1, <1>2, NewStays

(* Steps of a panel.                                                       *)
LEMMA PanelsAreNew ==
    ASSUME ClientInv, ClientInv', NewInv, UNCHANGED began, NEW p \in Panels,
           Proceed(p) \/ PollThrows(p) \/ Tick(p)
    PROVE  NewInv'
<1> DEFINE old == panel[p]
<1>1. old \in Job /\ panel \in [Panels -> Job] /\ txs \in Seq(TxRecord)
  BY DEF ClientInv, TxsInv
<1>2. UNCHANGED billVars /\ Kept(bills, bills', settled, settled')
  <2>1. UNCHANGED billVars
    BY DEF Proceed, LoadAccount, Simulate, Sign, Send, HearSuccess, HearFailure,
           GiveUp, PollThrows, Tick
  <2> QED
    BY <2>1 DEF Kept, billVars, registryVars
<1>3. ASSUME NEW c, Fail(p, c), UNCHANGED txs
      PROVE  NewInv'
  <2> DEFINE job == [old EXCEPT !.phase = "failed", !.error = c]
  <2>1. Become(p, job)
    BY <1>3 DEF Fail
  <2>2. job.cur = old.cur
    BY <1>1 DEF Job
  <2> HIDE DEF job
  <2> QED
    BY <1>2, <1>3, <2>1, <2>2, KeepingItsTx
<1>4. ASSUME NEW phase, Go(p, phase), UNCHANGED txs
      PROVE  NewInv'
  <2> DEFINE job == [old EXCEPT !.phase = phase]
  <2>1. Become(p, job)
    BY <1>4 DEF Go
  <2>2. job.cur = old.cur
    BY <1>1 DEF Job
  <2> HIDE DEF job
  <2> QED
    BY <1>2, <1>4, <2>1, <2>2, KeepingItsTx
<1>5. CASE Build(p)
  <2> DEFINE t   == Transaction(old)
             job == [old EXCEPT !.phase = IF old.call = "xlm" THEN "sign" ELSE "simulate",
                                !.cur = Len(txs) + 1]
  <2>1. txs' = Append(txs, t) /\ Become(p, job)
    BY <1>5 DEF Build
  <2>2. t.state = "built"
    BY DEF Transaction
  <2>3. job.cur = Len(txs) + 1
    BY <1>1 DEF Job
  <2>4. /\ Len(txs) \in Nat /\ DOMAIN txs = 1 .. Len(txs)
        /\ txs'[Len(txs) + 1] = t
        /\ \A i \in 1 .. Len(txs) : txs'[i] = txs[i]
    <3> HIDE DEF t
    <3>1. txs' \in Seq(TxRecord) /\ Len(txs) \in Nat /\ Len(txs') = Len(txs) + 1
      BY <1>1, <2>1 DEF ClientInv, TxsInv
    <3> QED
      BY <1>1, <2>1, <3>1
  <2> HIDE DEF t, job
  <2>5. CASE p = "split"
    <3>1. panel'["split"].cur = Len(txs) + 1
      BY <1>1, <2>1, <2>3, <2>5 DEF Become
    <3> QED
      BY <1>2, <2>2, <2>4, <3>1, NewStays
  <2>6. CASE p # "split"
    <3>1. "split" \in Panels
      BY DEF Panels
    <3>2. panel'["split"] = panel["split"]
      BY <1>1, <2>1, <2>6, <3>1 DEF Become
    <3>3. panel["split"].cur # 0 => panel["split"].cur \in DOMAIN txs
      BY <3>1 DEF ClientInv, JobInv
    <3>4. CASE panel["split"].cur = 0
      BY <1>2, <3>2, <3>4, NewStays
    <3>5. CASE panel["split"].cur # 0
      BY <1>2, <2>4, <3>2, <3>3, <3>5, NewStays
    <3> QED
      BY <3>4, <3>5
  <2> QED
    BY <2>5, <2>6
<1>6. CASE LoadAccount(p)
  BY <1>3, <1>5, <1>6 DEF LoadAccount
<1>7. CASE Simulate(p)
  BY <1>3, <1>4, <1>7 DEF Simulate
<1>8. CASE Sign(p)
  BY <1>3, <1>4, <1>8 DEF Sign
<1>9. CASE Send(p)
  <2> DEFINE lost == IF old.call = "xlm" THEN "submission" ELSE "other"
             waiting == [old EXCEPT !.phase = "confirm", !.waited = 0]
  <2>1. ASSUME NEW job, Become(p, job), job.cur = old.cur,
               UNCHANGED txs \/ Mark(old.cur, "pending")
        PROVE  NewInv'
    <3>1. CASE UNCHANGED txs
      BY <1>2, <2>1, <3>1, KeepingItsTx
    <3>2. CASE Mark(old.cur, "pending")
      <4>1. panel'["split"].cur = panel["split"].cur
        BY <1>1, <2>1 DEF Become, Panels
      <4>2. old.phase = "send" /\ old.cur \in DOMAIN txs
        BY <1>9 DEF Send, ClientInv, JobInv
      <4>3. /\ txs'[old.cur].state = "pending"
            /\ \A i : i # old.cur => txs'[i] = txs[i] \/ i \notin DOMAIN txs
        <5>1. txs[old.cur] \in TxRecord
          BY <1>1, <4>2
        <5> QED
          BY <1>1, <3>2, <4>2, <5>1 DEF Mark, TxRecord
      <4>4. panel["split"].cur # 0 => panel["split"].cur \in DOMAIN txs
        BY DEF ClientInv, JobInv, Panels
      <4>5. CASE panel["split"].cur = 0
        BY <1>2, <4>1, <4>5, NewStays
      <4>6. CASE panel["split"].cur = old.cur
        BY <1>2, <4>1, <4>3, <4>6, NewStays
      <4>7. CASE panel["split"].cur # 0 /\ panel["split"].cur # old.cur
        BY <1>2, <4>1, <4>3, <4>4, <4>7, NewStays
      <4> QED
        BY <4>5, <4>6, <4>7
    <3> QED
      BY <2>1, <3>1, <3>2
  <2>2. CASE Become(p, waiting) /\ (UNCHANGED txs \/ Mark(old.cur, "pending"))
    <3>1. waiting.cur = old.cur
      BY <1>1 DEF Job
    <3> HIDE DEF waiting
    <3> QED
      BY <2>1, <2>2, <3>1
  <2>3. ASSUME NEW c, Fail(p, c), UNCHANGED txs \/ Mark(old.cur, "pending")
        PROVE  NewInv'
    <3> DEFINE job == [old EXCEPT !.phase = "failed", !.error = c]
    <3>1. Become(p, job)
      BY <2>3 DEF Fail
    <3>2. job.cur = old.cur
      BY <1>1 DEF Job
    <3> HIDE DEF job
    <3> QED
      BY <2>1, <2>3, <3>1, <3>2
  <2> QED
    BY <1>9, <2>2, <2>3 DEF Send
<1>10. CASE HearSuccess(p)
  <2> DEFINE next == [old EXCEPT !.phase = "load", !.call = "create_bill"]
             done == [old EXCEPT !.phase = "success", !.result = txs[old.cur].result]
             job  == IF old.call = "xlm" /\ old.record THEN next ELSE done
  <2>1. Become(p, job) /\ UNCHANGED txs
    BY <1>10 DEF HearSuccess
  <2>2. next.cur = old.cur /\ done.cur = old.cur
    BY <1>1 DEF Job
  <2> HIDE DEF next, done
  <2>3. job.cur = old.cur
    BY <2>2
  <2> HIDE DEF job
  <2> QED
    BY <1>2, <2>1, <2>3, KeepingItsTx
<1>11. CASE HearFailure(p) \/ GiveUp(p) \/ PollThrows(p)
  BY <1>3, <1>11 DEF HearFailure, GiveUp, PollThrows
<1>12. CASE Tick(p)
  <2> DEFINE job == [old EXCEPT !.waited = old.waited + 1]
  <2>1. Become(p, job) /\ UNCHANGED txs
    BY <1>12 DEF Tick
  <2>2. job.cur = old.cur
    BY <1>1 DEF Job
  <2> HIDE DEF job
  <2> QED
    BY <1>2, <2>1, <2>2, KeepingItsTx
<1> QED
  BY <1>6, <1>7, <1>8, <1>9, <1>10, <1>11, <1>12 DEF Proceed

(* Steps of the network: what it applies for the split panel is the newest *)
(* bill.                                                                   *)
LEMMA NetworkIsNew ==
    ASSUME ClientInv, ClientInv', NewInv, UNCHANGED began, NEW i \in DOMAIN txs,
           Apply(i) \/ Drop(i)
    PROVE  NewInv'
<1>1. /\ txs \in Seq(TxRecord) /\ txs[i] \in TxRecord /\ panel' = panel
      /\ txs[i].state = "pending"
  BY DEF ClientInv, TxsInv, Apply, Drop
<1>2. panel["split"].cur # 0 => panel["split"].cur \in DOMAIN txs
  BY DEF ClientInv, JobInv, Panels
<1>3. ASSUME Kept(bills, bills', settled, settled'),
             \A k \in DOMAIN txs : k # i => txs'[k] = txs[k],
             \/ txs'[i].call # "create_bill" \/ txs'[i].state # "SUCCESS"
             \/ txs'[i].result = billCount' /\ billCount' = billCount + 1
      PROVE  NewInv'
  <2>1. CASE panel["split"].cur = 0
    BY <1>1, <1>3, <2>1, NewStays
  <2>2. CASE panel["split"].cur = i
    BY <1>1, <1>3, <2>2, NewStays
  <2>3. CASE panel["split"].cur # 0 /\ panel["split"].cur # i
    BY <1>1, <1>2, <1>3, <2>3, NewStays
  <2> QED
    BY <2>1, <2>2, <2>3
<1>4. ASSUME NEW s \in {"SUCCESS", "FAILED", "dropped"}, Mark(i, s),
             UNCHANGED billVars,
             s # "SUCCESS" \/ txs[i].call = "xlm"
      PROVE  NewInv'
  <2>1. /\ txs'[i].state = s /\ txs'[i].call = txs[i].call
        /\ \A k \in DOMAIN txs : k # i => txs'[k] = txs[k]
    BY <1>1, <1>4 DEF Mark, TxRecord
  <2>2. Kept(bills, bills', settled, settled')
    BY <1>4 DEF Kept, billVars, registryVars
  <2> QED
    BY <1>3, <1>4, <2>1, <2>2
<1>5. CASE /\ ChainCall(txs[i])
           /\ txs' = [txs EXCEPT ![i].state = "SUCCESS", ![i].result = billCount']
  <2>1. Kept(bills, bills', settled, settled')
    BY <1>5, CallKeeps
  <2>2. /\ txs'[i].call = txs[i].call /\ txs'[i].result = billCount'
        /\ \A k \in DOMAIN txs : k # i => txs'[k] = txs[k]
    BY <1>1, <1>5 DEF TxRecord
  <2>3. txs[i].call = "create_bill" => billCount' = billCount + 1
    BY <1>5 DEF ChainCall, CreateBill, NextId
  <2> QED
    BY <1>3, <2>1, <2>2, <2>3
<1> QED
  BY <1>4, <1>5 DEF Apply, Drop

(* Every step of an attempt.                                               *)
LEMMA NewStepInv ==
    ClientInv /\ ClientInv' /\ NewInv /\ [AttemptNext]_attemptVars => NewInv'
<1> SUFFICES ASSUME ClientInv, ClientInv', NewInv, [AttemptNext]_attemptVars
             PROVE  NewInv'
  OBVIOUS
<1>1. CASE AttemptBegins
  <2>1. PICK form \in Forms, record \in BOOLEAN : StartSplit(form, record)
    BY <1>1 DEF AttemptBegins
  <2>2. began' = billCount /\ billCount' = billCount /\ billCount \in Nat
    <3>1. billCount \in 0 .. MaxU32 /\ MaxU32 \in Nat
      BY BillAssumption DEF ClientInv, BillInv, RegistryTypeOK
    <3> QED
      BY <1>1, <2>1, <3>1 DEF AttemptBegins, StartSplit, billVars, registryVars
  <2>3. panel'["split"].cur = 0
    <3> DEFINE job == [Idle EXCEPT !.phase = "load", !.form = form, !.record = record]
    <3>1. job.cur = 0
      BY DEF Idle
    <3>2. Become("split", job) /\ "split" \in Panels
      BY <2>1 DEF StartSplit, Panels
    <3> HIDE DEF job
    <3> QED
      BY <3>1, <3>2 DEF Become, ClientInv
  <2> QED
    BY <2>2, <2>3 DEF NewInv
<1>2. ASSUME NEW id, StartSettle(id), UNCHANGED began
      PROVE  NewInv'
  <2>1. panel'["split"] = panel["split"] /\ txs' = txs
    BY <1>2 DEF StartSettle, Become, ClientInv, Panels
  <2>2. Kept(bills, bills', settled, settled')
    BY <1>2 DEF StartSettle, Kept, billVars, registryVars
  <2> QED
    BY <1>2, <2>1, <2>2, NewStays
<1>3. ASSUME NEW p \in Panels, Proceed(p) \/ PollThrows(p) \/ Tick(p), UNCHANGED began
      PROVE  NewInv'
  BY <1>3, PanelsAreNew
<1>4. ASSUME NEW i \in DOMAIN txs, Apply(i) \/ Drop(i), UNCHANGED began
      PROVE  NewInv'
  BY <1>4, NetworkIsNew
<1>5. CASE (OtherTab \/ OtherWallet) /\ UNCHANGED began
  <2>1. BillNext
    BY <1>5, ClientAssumption DEF OtherTab, OtherWallet, BillNext, TokenNext
  <2>2. Kept(bills, bills', settled, settled')
    BY <2>1, OthersKeep DEF ClientInv
  <2>3. panel' = panel /\ txs' = txs
    BY <1>5 DEF OtherTab, OtherWallet
  <2> QED
    BY <1>5, <2>2, <2>3, NewStays
<1>6. CASE UNCHANGED attemptVars
  <2>1. Kept(bills, bills', settled, settled')
    BY <1>6 DEF Kept, attemptVars, clientVars, billVars, registryVars
  <2> QED
    BY <1>6, <2>1, NewStays DEF attemptVars, clientVars
<1> QED
  BY <1>1, <1>2, <1>3, <1>4, <1>5, <1>6 DEF AttemptNext, AttemptGoesOn

(* The bill a success banner names was created after the attempt began,    *)
(* whatever earlier attempts, another tab or other wallets have left on    *)
(* chain; with SuccessIsReal it is the bill that BillPage.SplitSucceeds    *)
(* takes for granted.                                                      *)
THEOREM SuccessIsAlwaysNew == AttemptSpec => []SuccessIsNew
<1>1. AttemptInit => ClientInit /\ NewInv
  <2> SUFFICES ASSUME AttemptInit
               PROVE  ClientInit /\ NewInv
    OBVIOUS
  <2>1. billCount = 0 /\ began = 0 /\ panel["split"].cur = 0
    BY DEF AttemptInit, ClientInit, BillInit, Panels, Idle
  <2> QED
    BY <2>1 DEF AttemptInit, NewInv
<1>2. [AttemptNext]_attemptVars => [ClientNext]_clientVars
  BY DEF AttemptNext, AttemptBegins, AttemptGoesOn, ClientNext, attemptVars
<1>3. ClientInv /\ NewInv => SuccessIsNew
  <2> SUFFICES ASSUME ClientInv, NewInv,
                      panel["split"].phase = "success", panel["split"].record
               PROVE  panel["split"].result > began
    BY DEF SuccessIsNew
  <2>1. JobInv("split", panel["split"], txs)
    BY DEF ClientInv, Panels
  <2> QED
    BY <2>1 DEF JobInv, NewInv
<1> QED
  BY <1>1, <1>2, <1>3, ClientInitInv, ClientStepInv, NewStepInv, PTL DEF AttemptSpec

-----------------------------------------------------------------------------
\* What the page reads while its own calls and those of others are applied.

FormPayers == {form.payers : form \in Forms}

Readers == INSTANCE BillChain WITH
    PayerLists   <- PayerLists \cup FormPayers,
    chainBills   <- ChainOf(billCount, bills),
    chainSettled <- settled

(* The read side builds on BillChain, whatever the write side does: with   *)
(* both panels at work, transactions applied late or never, another tab    *)
(* and other wallets, bills are only appended, each with the payers of a   *)
(* form or a caller, and what is marked is marked once and for good.       *)
ClientImplementsChain == Readers!ChainSpec

(* A call of the registry, as the page makes it or as anybody else does.   *)
LEMMA CallsAppendOrMark ==
    ASSUME RegistryTypeOK, NEW auth \in Address,
           \/ \E creator \in Address, payers \in PayerLists \cup FormPayers,
                 share \in I128, memoLen \in Nat :
                 CreateBill(auth, creator, payers, share, memoLen)
           \/ \E id \in Nat, payer \in Address : Settle(auth, id, payer)
    PROVE  Readers!ChainNext
<1>1. ASSUME NEW creator \in Address, NEW payers \in PayerLists \cup FormPayers,
             NEW share \in I128, NEW memoLen \in Nat,
             CreateBill(auth, creator, payers, share, memoLen)
      PROVE  Readers!AppendBill(creator, payers)
  <2>1. payers \in Seq(Address)
    <3>1. PayerLists \subseteq Seq(Address)
      BY BillAssumption
    <3>2. ASSUME NEW form \in Forms
          PROVE  form.payers \in Seq(Address)
      BY ClientAssumption
    <3> QED
      BY <3>1, <3>2 DEF FormPayers
  <2>2. ChainOf(billCount', bills') =
          Append(ChainOf(billCount, bills),
                 [creator |-> creator, payers |-> payers])
    BY <1>1, <2>1, CreateBillAppends
  <2>3. settled' = settled
    BY <1>1 DEF CreateBill
  <2> QED
    BY <2>2, <2>3 DEF Readers!AppendBill
<1>2. ASSUME NEW id \in Nat, NEW payer \in Address, Settle(auth, id, payer)
      PROVE  id \in DOMAIN ChainOf(billCount, bills) /\ Readers!MarkSettled(id, payer)
  BY <1>2, SettleMarks DEF Readers!Payers, Readers!MarkSettled
<1> QED
  BY <1>1, <1>2 DEF Readers!ChainNext

(* The page begins with the empty chain.                                   *)
LEMMA ReadersInitMaps == ClientInit => Readers!ChainInit
<1> SUFFICES ASSUME ClientInit
             PROVE  Readers!ChainInit
  OBVIOUS
<1>1. billCount = 0 /\ settled = {}
  BY DEF ClientInit, BillInit
<1>2. RegistryTypeOK
  BY ClientInitInv DEF ClientInv, BillInv
<1>3. ChainOf(billCount, bills) \in Seq(Entry) /\ Len(ChainOf(billCount, bills)) = 0
  BY <1>1, <1>2, RegistryIsChain, ChainIsSeq
<1>4. ChainOf(billCount, bills) = <<>>
  BY <1>3, EmptySeq
<1> QED
  BY <1>1, <1>4 DEF Readers!ChainInit

(* Every step of anybody is one of the chain or leaves it alone.           *)
LEMMA ReadersStepMaps ==
    ClientInv /\ [ClientNext]_clientVars => [Readers!ChainNext]_Readers!chainVars
<1> SUFFICES ASSUME ClientInv, [ClientNext]_clientVars
             PROVE  [Readers!ChainNext]_Readers!chainVars
  OBVIOUS
<1>1. RegistryTypeOK
  BY DEF ClientInv, BillInv
<1>2. ASSUME UNCHANGED registryVars
      PROVE  UNCHANGED Readers!chainVars
  BY <1>2 DEF registryVars, Readers!chainVars
<1>3. ASSUME NEW auth \in Address, RegistryCall(auth)
      PROVE  Readers!ChainNext
  <2>1. \/ \E creator \in Address, payers \in PayerLists \cup FormPayers,
              share \in I128, memoLen \in Nat :
              CreateBill(auth, creator, payers, share, memoLen)
        \/ \E id \in Nat, payer \in Address : Settle(auth, id, payer)
    BY <1>3, BillAssumption DEF RegistryCall
  <2> QED
    BY <1>1, <2>1, CallsAppendOrMark
<1>4. ASSUME NEW i \in DOMAIN txs, ChainCall(txs[i])
      PROVE  Readers!ChainNext
  <2> DEFINE t == txs[i]
  <2>1. t \in TxRecord /\ TxInv(txs, i, bills, settled) /\ User \in Address
    BY ClientAssumption DEF ClientInv, TxsInv
  <2>2. CASE t.call = "create_bill" /\ CreateBill(User, User, t.form.payers, t.share,
                                                  Bytes(t.form.memo))
    <3>1. Sendable(t.form) /\ t.share = Recorded(t.form)
      BY <2>1, <2>2 DEF TxInv
    <3>2. /\ t.form.payers \in FormPayers /\ Bytes(t.form.memo) \in Nat
          /\ t.share \in I128
      BY <3>1, FormFacts, SendableFacts DEF FormPayers, Sendable
    <3> QED
      BY <1>1, <2>1, <2>2, <3>2, CallsAppendOrMark
  <2>3. CASE t.call = "settle" /\ Settle(User, t.bill, User)
    <3>1. t.bill \in Nat
      BY <2>1, BillAssumption DEF TxRecord
    <3> QED
      BY <1>1, <2>1, <2>3, <3>1, CallsAppendOrMark
  <2> QED
    BY <1>4, <2>2, <2>3 DEF ChainCall
<1>5. CASE \E form \in Forms, record \in BOOLEAN : StartSplit(form, record)
  BY <1>2, <1>5 DEF StartSplit, billVars
<1>6. CASE \E id \in 1 .. MaxU32 : StartSettle(id)
  BY <1>2, <1>6 DEF StartSettle, billVars
<1>7. ASSUME NEW p \in Panels, Proceed(p) \/ PollThrows(p) \/ Tick(p)
      PROVE  UNCHANGED registryVars
  BY <1>7 DEF Proceed, LoadAccount, Simulate, Sign, Send, HearSuccess,
     HearFailure, GiveUp, PollThrows, Tick, billVars
<1>8. ASSUME NEW i \in DOMAIN txs, Apply(i) \/ Drop(i)
      PROVE  Readers!ChainNext \/ UNCHANGED registryVars
  BY <1>4, <1>8 DEF Apply, Drop, billVars
<1>9. CASE OtherTab
  BY <1>3, <1>9, ClientAssumption DEF OtherTab
<1>10. CASE OtherWallet
  BY <1>2, <1>3, <1>10 DEF OtherWallet
<1>11. CASE UNCHANGED clientVars
  BY <1>2, <1>11 DEF clientVars, billVars
<1> QED
  BY <1>2, <1>5, <1>6, <1>7, <1>8, <1>9, <1>10, <1>11 DEF ClientNext

(* The assumption that BillPage makes of the chain is met by everything    *)
(* that its own page does to it.                                           *)
THEOREM PageKeepsItsChain == ClientSpec => ClientImplementsChain
  BY ReadersInitMaps, ReadersStepMaps, ClientInvariant, PTL
     DEF ClientSpec, ClientImplementsChain, Readers!ChainSpec
=============================================================================
