------------------------- MODULE ObligationsProofs -------------------------
(***************************************************************************)
(* What the book of debts itself guarantees: positions add up to the debts *)
(* that were discharged, for any parties and any debts.                    *)
(***************************************************************************)
EXTENDS Obligations, SumTheorems, TLAPS

BookInv ==
    /\ debts \subseteq Debt
    /\ paid \subseteq debts
    /\ IsFiniteSet(paid)
    /\ position \in [Party -> Int]
    /\ PositionIsBooks

(* A gain is a number.                                                     *)
LEMMA GainType ==
    ASSUME NEW d \in Debt, NEW a
    PROVE  d.amount \in Int /\ Gain(d, a) \in Int
  BY DEF Debt, Gain

(* One more discharged debt brings everybody what it is worth to them.     *)
LEMMA GainAdds ==
    ASSUME NEW P \in SUBSET Debt, IsFiniteSet(P), NEW d \in Debt \ P, NEW a
    PROVE  /\ SumFunction([e \in P |-> Gain(e, a)]) \in Int
           /\ SumFunction([e \in P \cup {d} |-> Gain(e, a)]) =
                SumFunction([e \in P |-> Gain(e, a)]) + Gain(d, a)
<1> DEFINE Q == P \cup {d}
           f == [e \in P |-> Gain(e, a)]
           g == [e \in Q |-> Gain(e, a)]
<1>1. IsFiniteSet(Q) /\ Q \subseteq Debt /\ P \in SUBSET Q /\ d \in Q \ P
  BY FS_AddElement
<1>2. IntegerOn(g, Q) /\ IntegerOn(f, P)
  BY <1>1, GainType DEF IntegerOn
<1>3. DOMAIN g = Q /\ DOMAIN f = P /\ g[d] = Gain(d, a)
  OBVIOUS
<1>4. \A e \in P : g[e] = f[e]
  OBVIOUS
<1> HIDE DEF f, g
<1>5. SumFunctionOnSet(g, P \cup {d}) = SumFunctionOnSet(g, P) + g[d]
  BY <1>1, <1>2, SumAdd
<1>6. SumFunctionOnSet(g, P) = SumFunctionOnSet(f, P)
  BY <1>2, <1>4, SumCongruence
<1>7. SumFunctionOnSet(f, P) \in Int
  BY <1>2, SumIsInt
<1>8. /\ SumFunction(f) = SumFunctionOnSet(f, P)
      /\ SumFunction(g) = SumFunctionOnSet(g, P \cup {d})
  BY <1>3 DEF SumFunction
<1>9. SumFunction(f) \in Int /\ SumFunction(g) = SumFunction(f) + Gain(d, a)
  BY <1>3, <1>5, <1>6, <1>7, <1>8
<1> QED
  BY <1>9 DEF f, g

(* The empty book adds up.                                                 *)
LEMMA BookInitInv == BookInit => BookInv
<1> SUFFICES ASSUME BookInit
             PROVE  BookInv
  OBVIOUS
<1>1. paid = {} /\ IsFiniteSet(paid)
  BY FS_EmptySet DEF BookInit
<1>2. ASSUME NEW a \in Party
      PROVE  position[a] = SumFunction([d \in paid |-> Gain(d, a)])
  <2>1. DOMAIN [d \in paid |-> Gain(d, a)] = {}
    BY <1>1
  <2>2. SumFunction([d \in paid |-> Gain(d, a)]) = 0
    BY <2>1, SumEmpty DEF SumFunction
  <2> QED
    BY <2>2 DEF BookInit
<1> QED
  BY <1>1, <1>2 DEF BookInit, BookInv, PositionIsBooks

(* Discharging a debt keeps the book.                                      *)
LEMMA DischargeInv ==
    ASSUME BookInv, NEW d \in debts, Discharge(d)
    PROVE  BookInv'
<1>1. d \in Debt \ paid /\ paid \in SUBSET Debt /\ IsFiniteSet(paid)
  BY DEF BookInv, Discharge
<1>2. paid' = paid \cup {d} /\ debts' = debts
  BY DEF Discharge
<1>3. IsFiniteSet(paid') /\ paid' \subseteq debts'
  BY <1>1, <1>2, FS_AddElement DEF BookInv
<1>4. d.amount \in Int /\ d.debtor \in Party /\ d.creditor \in Party
  BY <1>1 DEF Debt
<1>5. position' = [[position EXCEPT ![d.debtor] = @ - d.amount]
                      EXCEPT ![d.creditor] = @ + d.amount]
  BY DEF Discharge
<1>6. position \in [Party -> Int] /\ position' \in [Party -> Int]
  BY <1>4, <1>5 DEF BookInv
<1>7. ASSUME NEW a \in Party
      PROVE  position'[a] = SumFunction([e \in paid' |-> Gain(e, a)])
  <2>1. position[a] \in Int
    BY <1>6
  <2>2. position'[a] = position[a] + Gain(d, a)
    BY <1>4, <1>5, <1>6, <2>1 DEF Gain
  <2>3. SumFunction([e \in paid \cup {d} |-> Gain(e, a)]) =
          SumFunction([e \in paid |-> Gain(e, a)]) + Gain(d, a)
    BY <1>1, GainAdds
  <2>4. position[a] = SumFunction([e \in paid |-> Gain(e, a)])
    BY DEF BookInv, PositionIsBooks
  <2> QED
    BY <1>2, <2>2, <2>3, <2>4
<1> QED
  BY <1>2, <1>3, <1>6, <1>7 DEF BookInv, PositionIsBooks

(* Every step keeps the book.                                              *)
LEMMA BookStepInv == BookInv /\ [BookNext]_bookVars => BookInv'
<1> SUFFICES ASSUME BookInv, [BookNext]_bookVars
             PROVE  BookInv'
  OBVIOUS
<1>1. CASE Open
  BY <1>1 DEF Open, BookInv, PositionIsBooks
<1>2. ASSUME NEW d \in debts, Discharge(d)
      PROVE  BookInv'
  BY <1>2, DischargeInv
<1>3. CASE UNCHANGED bookVars
  BY <1>3 DEF bookVars, BookInv, PositionIsBooks
<1> QED
  BY <1>1, <1>2, <1>3 DEF BookNext

(* Everybody's position is what the debts discharged so far say, for any   *)
(* number of parties and debts of any amounts.                             *)
THEOREM PositionsAreBooked == BookSpec => []PositionIsBooks
<1>1. BookInv => PositionIsBooks
  BY DEF BookInv
<1> QED
  BY <1>1, BookInitInv, BookStepInv, PTL DEF BookSpec
=============================================================================
