------------------------------ MODULE Amounts ------------------------------
(***************************************************************************)
(* The arithmetic of lib.ts: amounts as the user types them and as the     *)
(* network reads them (decimal texts), amounts as bigints of stroops, and  *)
(* the shares a total is split into.                                       *)
(*                                                                         *)
(* A text that passes the form's pattern is its sign, its whole part and   *)
(* its fraction digits.  A trailing dot, spaces inside and letters, which  *)
(* the pattern refuses, have no such reading and are left out.             *)
(***************************************************************************)
EXTENDS Integers, Sequences, FiniteSets

CONSTANT Decimals       \* digits after the point that an amount may have: 7

ASSUME AmountsAssumption == Decimals \in Nat

\* The number that is written with these digits behind those of n.
Followed(n, digits) ==
    LET first[k \in 0 .. Len(digits)] ==
            IF k = 0 THEN n ELSE 10 * first[k - 1] + digits[k]
    IN  first[Len(digits)]

\* The number that a string of digits spells.
Spelled(digits) == Followed(0, digits)

\* A one and k zeros.
PowerOfTen(k) == Followed(1, [i \in 1 .. k |-> 0])

\* STROOPS_PER_XLM
Scale == PowerOfTen(Decimals)

Text == [neg : BOOLEAN, whole : Nat, frac : Seq(0 .. 9)]

-----------------------------------------------------------------------------

\* (frac + '0000000').slice(0, 7)
Padded(frac) == [k \in 1 .. Decimals |-> IF k <= Len(frac) THEN frac[k] ELSE 0]

\* What a text is worth, before xlmToStroops refuses what is not positive.
Worth(text) ==
    LET magnitude == text.whole * Scale + Spelled(Padded(text.frac))
    IN  IF text.neg THEN -magnitude ELSE magnitude

\* xlmToStroops gives an amount.
ValidAmount(text) == Len(text.frac) <= Decimals /\ Worth(text) > 0

\* (m % STROOPS_PER_XLM).toString().padStart(7, '0').replace(/0+$/, '')
Fraction(m) ==
    LET rest  == m % Scale
        all   == [k \in 1 .. Decimals |-> (rest \div PowerOfTen(Decimals - k)) % 10]
        zeros == {k \in 1 .. Decimals : \A j \in k .. Decimals : all[j] = 0}
    IN  SubSeq(all, 1, Decimals - Cardinality(zeros))

\* stroopsToXlm, which contract.ts repeats as stroopsAsXlmString.
StroopsToXlm(stroops) ==
    LET m == IF stroops < 0 THEN -stroops ELSE stroops
    IN  [neg |-> stroops < 0, whole |-> m \div Scale, frac |-> Fraction(m)]

-----------------------------------------------------------------------------

\* Mutant of BaseShare: rounds up.
BaseShareUp(total, n) == (total + n - 1) \div n

\* What each of n payers is owed at least.
BaseShare(total, n) == total \div n

\* Mutant of ComputeShares: the remainder is forgotten.
ComputeSharesEven(total, n) == [k \in 1 .. n |-> BaseShare(total, n)]

\* The last payer absorbs the remainder.
ComputeShares(total, n) ==
    LET base == BaseShare(total, n)
    IN  [[k \in 1 .. n |-> base] EXCEPT ![n] = base + (total - base * n)]
=============================================================================
