--------------------------- MODULE ContractProofs ---------------------------
(***************************************************************************)
(* Both contracts for every set of addresses, every width and every choice *)
(* of bills.                                                               *)
(*                                                                         *)
(* The token.  That the supply never goes negative needs more than its     *)
(* type: a burn checks the holder's balance only, and the supply covers it *)
(* because it is the sum of all balances.  So the types and SupplyIsSum    *)
(* are proved together, as TokenInv.                                       *)
(*                                                                         *)
(* The registry with its token: the types of what is stored, the token's   *)
(* own invariant in spite of the calls the registry makes, that nothing    *)
(* stored is ever rewritten, and that indexes and events tell what storage *)
(* tells.                                                                  *)
(***************************************************************************)
EXTENDS BillSplit, SumTheorems, SequenceTheorems, TLAPS

-----------------------------------------------------------------------------
\* The token.

TokenInv == TokenTypeOK /\ SupplyIsSum

-----------------------------------------------------------------------------

(* Under TokenInv the balances are naturals and the supply their sum.      *)
LEMMA BalanceFacts ==
    ASSUME TokenTypeOK
    PROVE  /\ balance \in [Address -> Nat]
           /\ balance \in [Address -> Int]
           /\ DOMAIN balance = Address
           /\ IsFiniteSet(Address)
           /\ MaxI128 \in Nat
  BY TokenAssumption DEF TokenTypeOK

(* Moving tokens between two accounts, or from an account to itself, keeps *)
(* every balance in range and the sum of all balances.                     *)
LEMMA MoveKeepsSum ==
    ASSUME TokenInv, NEW from \in Address, NEW to \in Address,
           NEW amount \in I128, amount >= 0, MoveBalance(from, to, amount)
    PROVE  /\ balance' \in [Address -> 0 .. MaxI128]
           /\ SumFunction(balance') = SumFunction(balance)
<1> DEFINE v == balance[from] - amount
           debited == [balance EXCEPT ![from] = v]
           w == debited[to] + amount
<1>1. /\ balance \in [Address -> Int]
      /\ IsFiniteSet(Address)
      /\ MaxI128 \in Nat
  BY BalanceFacts DEF TokenInv
<1>2. amount \in Nat /\ balance[from] \in 0 .. MaxI128 /\ balance[from] >= amount
  BY <1>1 DEF TokenInv, TokenTypeOK, MoveBalance, I128
<1>3. v \in 0 .. MaxI128
  BY <1>1, <1>2
<1>4. debited \in [Address -> 0 .. MaxI128] /\ debited \in [Address -> Int]
  BY <1>1, <1>3 DEF TokenInv, TokenTypeOK
<1>5. w \in I128 /\ balance' = [debited EXCEPT ![to] = w]
  BY DEF MoveBalance, Debited
<1>6. debited[to] \in 0 .. MaxI128 /\ debited[to] \in Int /\ w \in Int
  BY <1>2, <1>4
<1>7. w \in 0 .. MaxI128
  BY <1>1, <1>2, <1>5, <1>6 DEF I128
<1>8. SumFunction(debited) = SumFunction(balance) - balance[from] + v
  <2>1. v \in Int
    BY <1>1, <1>3
  <2> HIDE DEF v
  <2> QED
    BY <1>1, <2>1, SumExcept
<1>9. SumFunction([debited EXCEPT ![to] = w])
        = SumFunction(debited) - debited[to] + w
  <2> HIDE DEF debited, w
  <2> QED
    BY <1>1, <1>4, <1>6, SumExcept
<1>10. SumFunction(balance) \in Int
  BY DEF TokenInv, TokenTypeOK, SupplyIsSum
<1>11. SumFunction(debited) = SumFunction(balance) - amount
  <2> HIDE DEF debited
  <2> QED
    BY <1>2, <1>8, <1>10
<1>12. w = debited[to] + amount
  OBVIOUS
<1>13. SumFunction([debited EXCEPT ![to] = w]) = SumFunction(balance)
  <2> HIDE DEF debited, w
  <2> QED
    BY <1>2, <1>6, <1>9, <1>10, <1>11, <1>12
<1>14. [debited EXCEPT ![to] = w] \in [Address -> 0 .. MaxI128]
  <2> HIDE DEF debited, w
  <2> QED
    BY <1>4, <1>7
<1> HIDE DEF debited, w
<1> QED
  BY <1>5, <1>13, <1>14

(* Taking tokens out of one account keeps every balance in range and takes *)
(* the amount out of the sum; the sum covers it.                           *)
LEMMA SpendTakesFromSum ==
    ASSUME TokenInv, NEW from \in Address, NEW amount \in I128, amount >= 0,
           SpendBalance(from, amount)
    PROVE  /\ balance' \in [Address -> 0 .. MaxI128]
           /\ SumFunction(balance') = SumFunction(balance) - amount
           /\ amount <= SumFunction(balance)
<1> DEFINE v == balance[from] - amount
<1>1. /\ balance \in [Address -> Int]
      /\ balance \in [Address -> Nat]
      /\ IsFiniteSet(Address)
      /\ MaxI128 \in Nat
  BY BalanceFacts DEF TokenInv
<1>2. amount \in Nat /\ balance[from] \in 0 .. MaxI128 /\ balance[from] >= amount
  BY <1>1 DEF TokenInv, TokenTypeOK, SpendBalance, I128
<1>3. v \in 0 .. MaxI128
  BY <1>1, <1>2
<1>4. balance' = [balance EXCEPT ![from] = v]
  BY DEF SpendBalance, Debited
<1>5. balance' \in [Address -> 0 .. MaxI128]
  BY <1>3, <1>4 DEF TokenInv, TokenTypeOK
<1>6. SumFunction([balance EXCEPT ![from] = v])
        = SumFunction(balance) - balance[from] + v
  <2>1. v \in Int
    BY <1>1, <1>3
  <2> HIDE DEF v
  <2> QED
    BY <1>1, <2>1, SumExcept
<1>7. SumFunction(balance) \in Int
  BY DEF TokenInv, TokenTypeOK, SupplyIsSum
<1>8. balance[from] <= SumFunction(balance)
  BY <1>1, SumOfOne
<1> QED
  BY <1>2, <1>4, <1>5, <1>6, <1>7, <1>8

(* A spender's draw leaves every allowance well formed.                    *)
LEMMA SpendAllowanceType ==
    ASSUME TokenTypeOK, NEW owner \in Address, NEW spender \in Address,
           NEW amount \in I128, amount >= 0,
           SpendAllowance(owner, spender, amount)
    PROVE  allowance' \in [Address \X Address ->
                              [amount : 0 .. MaxI128, expiration : Nat]]
<1> DEFINE old == allowance[<<owner, spender>>]
<1>1. old \in [amount : 0 .. MaxI128, expiration : Nat]
  BY DEF TokenTypeOK
<1>2. amount \in Nat /\ MaxI128 \in Nat
  BY TokenAssumption DEF I128
<1>3. old.amount >= amount /\ old.amount - amount \in 0 .. MaxI128
  BY <1>1, <1>2 DEF SpendAllowance
<1>4. allowance' = [allowance EXCEPT ![<<owner, spender>>] =
                       [old EXCEPT !.amount = old.amount - amount]]
  BY DEF SpendAllowance
<1>5. [old EXCEPT !.amount = old.amount - amount]
        \in [amount : 0 .. MaxI128, expiration : Nat]
  BY <1>1, <1>3
<1> QED
  BY <1>4, <1>5 DEF TokenTypeOK

-----------------------------------------------------------------------------
\* One lemma per entry point.  They take any amount of the width, not only
\* the ones in Amounts, so that a caller contract may use them.

(* Minting keeps TokenInv.                                                 *)
LEMMA MintInv ==
    ASSUME TokenInv, NEW auth, NEW to \in Address, NEW amount \in I128,
           Mint(auth, to, amount)
    PROVE  TokenInv'
<1> DEFINE v == balance[to] + amount
<1>1. /\ balance \in [Address -> Int]
      /\ IsFiniteSet(Address)
      /\ MaxI128 \in Nat
  BY BalanceFacts DEF TokenInv
<1>2. amount \in Nat /\ balance[to] \in 0 .. MaxI128
  BY <1>1 DEF TokenInv, TokenTypeOK, Mint, Nonneg, I128
<1>3. v \in 0 .. MaxI128 /\ v \in Int
  BY <1>1, <1>2 DEF Mint, Nonneg, I128
<1>4. balance' = [balance EXCEPT ![to] = v]
  BY DEF Mint
<1>5. totalSupply' = totalSupply + amount /\ totalSupply' \in 0 .. MaxI128
  BY <1>1, <1>2 DEF TokenInv, TokenTypeOK, Mint, BumpSupply, I128
<1>6. SumFunction([balance EXCEPT ![to] = v])
        = SumFunction(balance) - balance[to] + v
  <2> HIDE DEF v
  <2> QED
    BY <1>1, <1>3, SumExcept
<1>7. SumFunction(balance) \in Int
  BY DEF TokenInv, TokenTypeOK, SupplyIsSum
<1>8. SupplyIsSum'
  BY <1>2, <1>4, <1>5, <1>6, <1>7 DEF TokenInv, SupplyIsSum
<1>9. balance' \in [Address -> 0 .. MaxI128]
  BY <1>3, <1>4 DEF TokenInv, TokenTypeOK
<1>10. TokenTypeOK'
  BY <1>5, <1>9 DEF TokenInv, TokenTypeOK, Mint
<1> QED
  BY <1>8, <1>10 DEF TokenInv

(* Approving keeps TokenInv.                                               *)
LEMMA ApproveInv ==
    ASSUME TokenInv, NEW auth, NEW owner \in Address, NEW spender \in Address,
           NEW amount \in I128, NEW expiration \in Nat,
           Approve(auth, owner, spender, amount, expiration)
    PROVE  TokenInv'
<1>1. [amount |-> amount, expiration |-> expiration]
        \in [amount : 0 .. MaxI128, expiration : Nat]
  BY TokenAssumption DEF Approve, Nonneg, I128
<1>2. allowance' \in [Address \X Address ->
                         [amount : 0 .. MaxI128, expiration : Nat]]
  BY <1>1 DEF Approve, TokenInv, TokenTypeOK
<1> QED
  BY <1>2 DEF Approve, TokenInv, TokenTypeOK, SupplyIsSum

(* A transfer keeps TokenInv.                                              *)
LEMMA TransferInv ==
    ASSUME TokenInv, NEW auth, NEW from \in Address, NEW to \in Address,
           NEW amount \in I128, Transfer(auth, from, to, amount)
    PROVE  TokenInv'
<1>1. /\ balance' \in [Address -> 0 .. MaxI128]
      /\ SumFunction(balance') = SumFunction(balance)
  BY MoveKeepsSum DEF Transfer, Nonneg
<1> QED
  BY <1>1 DEF Transfer, TokenInv, TokenTypeOK, SupplyIsSum

(* A delegated transfer keeps TokenInv.                                    *)
LEMMA TransferFromInv ==
    ASSUME TokenInv, NEW auth, NEW spender \in Address, NEW from \in Address,
           NEW to \in Address, NEW amount \in I128,
           TransferFrom(auth, spender, from, to, amount)
    PROVE  TokenInv'
<1>1. /\ balance' \in [Address -> 0 .. MaxI128]
      /\ SumFunction(balance') = SumFunction(balance)
  BY MoveKeepsSum DEF TransferFrom, Nonneg
<1>2. allowance' \in [Address \X Address ->
                         [amount : 0 .. MaxI128, expiration : Nat]]
  BY SpendAllowanceType DEF TransferFrom, Nonneg, TokenInv
<1> QED
  BY <1>1, <1>2 DEF TransferFrom, TokenInv, TokenTypeOK, SupplyIsSum

(* What burn and burn_from do to balances and supply keeps them in step.   *)
LEMMA BurnKeepsSupply ==
    ASSUME TokenInv, NEW from \in Address, NEW amount \in I128, amount >= 0,
           SpendBalance(from, amount), BumpSupply(-amount)
    PROVE  /\ balance' \in [Address -> 0 .. MaxI128]
           /\ totalSupply' \in 0 .. MaxI128
           /\ SupplyIsSum'
<1>1. /\ balance' \in [Address -> 0 .. MaxI128]
      /\ SumFunction(balance') = SumFunction(balance) - amount
      /\ amount <= SumFunction(balance)
  BY SpendTakesFromSum
<1>2. amount \in Nat /\ MaxI128 \in Nat
  BY TokenAssumption DEF I128
<1>3. totalSupply \in 0 .. MaxI128 /\ totalSupply = SumFunction(balance)
  BY DEF TokenInv, TokenTypeOK, SupplyIsSum
<1>4. totalSupply' = totalSupply - amount
  BY <1>2, <1>3 DEF BumpSupply
<1>5. totalSupply' \in 0 .. MaxI128 /\ totalSupply' = SumFunction(balance')
  BY <1>1, <1>2, <1>3, <1>4
<1> QED
  BY <1>1, <1>5 DEF SupplyIsSum

(* Burning keeps TokenInv.                                                 *)
LEMMA BurnInv ==
    ASSUME TokenInv, NEW auth, NEW from \in Address, NEW amount \in I128,
           Burn(auth, from, amount)
    PROVE  TokenInv'
  BY BurnKeepsSupply DEF Burn, Nonneg, TokenInv, TokenTypeOK

(* A delegated burn keeps TokenInv.                                        *)
LEMMA BurnFromInv ==
    ASSUME TokenInv, NEW auth, NEW spender \in Address, NEW from \in Address,
           NEW amount \in I128, BurnFrom(auth, spender, from, amount)
    PROVE  TokenInv'
<1>1. /\ balance' \in [Address -> 0 .. MaxI128]
      /\ totalSupply' \in 0 .. MaxI128
      /\ SupplyIsSum'
  BY BurnKeepsSupply DEF BurnFrom, Nonneg
<1>2. allowance' \in [Address \X Address ->
                         [amount : 0 .. MaxI128, expiration : Nat]]
  BY SpendAllowanceType DEF BurnFrom, Nonneg, TokenInv
<1> QED
  BY <1>1, <1>2 DEF BurnFrom, TokenInv, TokenTypeOK

(* Dropping an allowance keeps TokenInv.                                   *)
LEMMA EvictInv ==
    ASSUME TokenInv, NEW owner \in Address, NEW spender \in Address,
           EvictAllowance(owner, spender)
    PROVE  TokenInv'
<1>1. NoAllowance \in [amount : 0 .. MaxI128, expiration : Nat]
  BY TokenAssumption DEF NoAllowance
<1>2. allowance' \in [Address \X Address ->
                         [amount : 0 .. MaxI128, expiration : Nat]]
  BY <1>1 DEF EvictAllowance, TokenInv, TokenTypeOK
<1> QED
  BY <1>2 DEF EvictAllowance, TokenInv, TokenTypeOK, SupplyIsSum

-----------------------------------------------------------------------------

(* The token is constructed in a state with TokenInv.                      *)
LEMMA TokenInitInv == TokenInit => TokenInv
<1> SUFFICES ASSUME TokenInit
             PROVE  TokenInv
  OBVIOUS
<1>1. IsFiniteSet(Address) /\ MaxI128 \in Nat
  BY TokenAssumption
<1>2. SupplyIsSum
  BY <1>1, SumOfZeros DEF TokenInit, SupplyIsSum
<1>3. NoAllowance \in [amount : 0 .. MaxI128, expiration : Nat]
  BY <1>1 DEF NoAllowance
<1>4. TokenTypeOK
  BY <1>1, <1>3 DEF TokenInit, TokenTypeOK
<1> QED
  BY <1>2, <1>4 DEF TokenInv

(* Every step of the token keeps TokenInv.                                 *)
LEMMA TokenStepInv == TokenInv /\ [TokenNext]_tokenVars => TokenInv'
<1> SUFFICES ASSUME TokenInv, [TokenNext]_tokenVars
             PROVE  TokenInv'
  OBVIOUS
<1> USE TokenAssumption
<1>1. ASSUME NEW auth \in Address, NEW to \in Address, NEW amount \in Amounts,
             Mint(auth, to, amount)
      PROVE  TokenInv'
  BY <1>1, MintInv
<1>2. ASSUME NEW auth \in Address, NEW newAdmin \in Address,
             SetAdmin(auth, newAdmin)
      PROVE  TokenInv'
  BY <1>2 DEF SetAdmin, TokenInv, TokenTypeOK, SupplyIsSum
<1>3. ASSUME NEW auth \in Address, NEW p \in Approvals, NEW amount \in Amounts,
             NEW expiration \in Expirations,
             Approve(auth, p[1], p[2], amount, expiration)
      PROVE  TokenInv'
  <2>1. p[1] \in Address /\ p[2] \in Address
    OBVIOUS
  <2> QED
    BY <1>3, <2>1, ApproveInv
<1>4. ASSUME NEW auth \in Address, NEW from \in Address, NEW to \in Address,
             NEW amount \in Amounts, Transfer(auth, from, to, amount)
      PROVE  TokenInv'
  BY <1>4, TransferInv
<1>5. ASSUME NEW auth \in Address, NEW spender \in Address,
             NEW from \in Address, NEW to \in Address, NEW amount \in Amounts,
             TransferFrom(auth, spender, from, to, amount)
      PROVE  TokenInv'
  BY <1>5, TransferFromInv
<1>6. ASSUME NEW auth \in Address, NEW from \in Address, NEW amount \in Amounts,
             Burn(auth, from, amount)
      PROVE  TokenInv'
  BY <1>6, BurnInv
<1>7. ASSUME NEW auth \in Address, NEW spender \in Address,
             NEW from \in Address, NEW amount \in Amounts,
             BurnFrom(auth, spender, from, amount)
      PROVE  TokenInv'
  BY <1>7, BurnFromInv
<1>8. CASE CloseLedger
  BY <1>8 DEF CloseLedger, TokenInv, TokenTypeOK, SupplyIsSum
<1>9. ASSUME NEW owner \in Address, NEW spender \in Address,
             EvictAllowance(owner, spender)
      PROVE  TokenInv'
  BY <1>9, EvictInv
<1>10. CASE UNCHANGED tokenVars
  BY <1>10 DEF tokenVars, TokenInv, TokenTypeOK, SupplyIsSum
<1> QED
  BY <1>1, <1>2, <1>3, <1>4, <1>5, <1>6, <1>7, <1>8, <1>9, <1>10
     DEF TokenNext, TokenCall, LedgerStep

(* Every reachable state of the token has TokenInv.                        *)
THEOREM TokenInvariant == TokenSpec => []TokenInv
  BY TokenInitInv, TokenStepInv, PTL DEF TokenSpec

(* The token never stores a negative or over-wide number.                  *)
THEOREM TokenTypeCorrect == TokenSpec => []TokenTypeOK
<1>1. TokenInv => TokenTypeOK
  BY DEF TokenInv
<1> QED
  BY <1>1, TokenInvariant, PTL

(* The supply counter is always the sum of all balances.                   *)
THEOREM SupplyAlwaysSum == TokenSpec => []SupplyIsSum
<1>1. TokenInv => SupplyIsSum
  BY DEF TokenInv
<1> QED
  BY <1>1, TokenInvariant, PTL

(* TokenInv leaves room for every transfer: the sum bounds any two         *)
(* balances together.                                                      *)
LEMMA CreditFits == TokenInv => CreditsNeverOverflow
<1> SUFFICES ASSUME TokenInv, NEW from \in Address, NEW to \in Address,
                    NEW amount \in 0 .. balance[from]
             PROVE  Debited(from, amount)[to] + amount \in I128
  BY DEF CreditsNeverOverflow
<1>1. /\ balance \in [Address -> Nat]
      /\ DOMAIN balance = Address
      /\ IsFiniteSet(Address)
      /\ MaxI128 \in Nat
  BY BalanceFacts DEF TokenInv
<1>2. amount \in Nat /\ amount <= balance[from] /\ balance[from] \in Nat
  BY <1>1
<1>3. balance[from] <= MaxI128
  BY DEF TokenInv, TokenTypeOK
<1>4. CASE from = to
  <2>1. Debited(from, amount)[to] + amount = balance[from]
    BY <1>1, <1>2, <1>4 DEF Debited
  <2> QED
    BY <1>1, <1>2, <1>3, <2>1 DEF I128
<1>5. CASE from # to
  <2>1. Debited(from, amount)[to] = balance[to]
    BY <1>1, <1>5 DEF Debited
  <2>2. balance[from] + balance[to] <= SumFunction(balance)
    BY <1>1, <1>5, SumOfTwo
  <2>3. SumFunction(balance) \in 0 .. MaxI128
    BY DEF TokenInv, TokenTypeOK, SupplyIsSum
  <2>4. balance[to] \in Nat
    BY <1>1
  <2>5. balance[to] + amount \in Nat /\ balance[to] + amount <= MaxI128
    BY <1>1, <1>2, <2>2, <2>3, <2>4
  <2> QED
    BY <1>1, <2>1, <2>5 DEF I128
<1> QED
  BY <1>4, <1>5

(* No transfer that the sender can afford is ever refused because the      *)
(* recipient holds too much.                                               *)
THEOREM TransfersNeverOverflow == TokenSpec => []CreditsNeverOverflow
  BY TokenInvariant, CreditFits, PTL

(* What the allowance view shows can be drawn, as far as the owner's       *)
(* balance goes: the step that writes what transfer_from writes is one     *)
(* that transfer_from makes, none of its checks fails.  And no more than   *)
(* the view shows can ever be drawn.                                       *)
THEOREM ViewIsWhatCanBeDrawn ==
    ASSUME TokenInv, NEW spender \in Address, NEW from \in Address,
           NEW to \in Address, NEW amount \in 1 .. MaxI128
    PROVE  /\ (/\ AllowanceView(from, spender) >= amount
               /\ balance[from] >= amount
               /\ balance' = [Debited(from, amount) EXCEPT ![to] = @ + amount]
               /\ allowance' = [allowance EXCEPT ![<<from, spender>>].amount = @ - amount]
               /\ UNCHANGED <<admin, totalSupply, ledgerSeq>>)
                 => TransferFrom(spender, spender, from, to, amount)
           /\ TransferFrom(spender, spender, from, to, amount)
                 => AllowanceView(from, spender) >= amount
<1>1. amount \in Int /\ amount > 0
  BY TokenAssumption
<1>2. AllowanceView(from, spender) >= amount
        => /\ allowance[<<from, spender>>].expiration >= ledgerSeq
           /\ allowance[<<from, spender>>].amount >= amount
  BY <1>1 DEF AllowanceView
<1>3. balance[from] >= amount => Debited(from, amount)[to] + amount \in I128
  <2>1. balance[from] \in Int
    BY BalanceFacts DEF TokenInv
  <2>2. balance[from] >= amount => amount \in 0 .. balance[from]
    BY <1>1, <2>1
  <2> QED
    BY <2>2, CreditFits DEF CreditsNeverOverflow
<1> QED
  BY <1>1, <1>2, <1>3
  DEF TransferFrom, Nonneg, SpendAllowance, MoveBalance, AllowanceView

-----------------------------------------------------------------------------
\* The registry and its token.

BillInv == TokenInv /\ RegistryTypeOK

-----------------------------------------------------------------------------

(* A payer is counted a natural number of times.                           *)
LEMMA OccurrencesType ==
    ASSUME NEW S, NEW payers \in Seq(S), NEW a
    PROVE  Occurrences(payers, a) \in Nat
<1>1. DOMAIN payers = 1 .. Len(payers) /\ Len(payers) \in Nat
  OBVIOUS
<1>2. IsFiniteSet(1 .. Len(payers))
  BY <1>1, FS_Interval
<1>3. {k \in DOMAIN payers : payers[k] = a} \in SUBSET (1 .. Len(payers))
  BY <1>1
<1>4. IsFiniteSet({k \in DOMAIN payers : payers[k] = a})
  BY <1>2, <1>3, FS_Subset
<1> QED
  BY <1>4, FS_CardinalityType DEF Occurrences

(* A list of n equal ids is a list.                                        *)
LEMMA ConstantSeq ==
    ASSUME NEW S, NEW id \in S, NEW n \in Nat
    PROVE  [k \in 1 .. n |-> id] \in Seq(S)
  BY SeqDef

(* What create_bill writes for one address in an index of the larger set   *)
(* of ids is a list of those.                                              *)
LEMMA IndexGrows ==
    ASSUME NEW S, NEW T, S \subseteq T, NEW seq \in Seq(S), NEW id \in T,
           NEW n \in Nat
    PROVE  /\ Append(seq, id) \in Seq(T)
           /\ seq \o [k \in 1 .. n |-> id] \in Seq(T)
           /\ seq \in Seq(T)
<1>1. seq \in Seq(T)
  BY SeqMonotonic
<1>2. [k \in 1 .. n |-> id] \in Seq(T)
  BY ConstantSeq
<1>3. seq \o [k \in 1 .. n |-> id] \in Seq(T)
  BY <1>1, <1>2, ConcatProperties
<1> QED
  BY <1>1, <1>3, AppendProperties

-----------------------------------------------------------------------------

(* A bill that create_bill accepts extends the registry by the next id and *)
(* leaves the other bills as they are.                                     *)
LEMMA CreateBillStores ==
    ASSUME RegistryTypeOK, NEW auth, NEW creator \in Address,
           NEW payers \in Seq(Address), NEW share \in I128, NEW memoLen,
           CreateBill(auth, creator, payers, share, memoLen)
    PROVE  /\ billCount' = billCount + 1
           /\ billCount' \in 1 .. MaxU32
           /\ DOMAIN bills' = DOMAIN bills \cup {billCount + 1}
           /\ DOMAIN bills' = 1 .. billCount'
           /\ billCount + 1 \notin DOMAIN bills
           /\ bills'[billCount + 1] =
                 [creator |-> creator, payers |-> payers, share |-> share]
           /\ \A id \in DOMAIN bills : bills'[id] = bills[id]
<1>1. billCount \in Nat /\ MaxU32 \in Nat /\ DOMAIN bills = 1 .. billCount
  BY BillAssumption DEF RegistryTypeOK
<1>2. billCount' = billCount + 1 /\ billCount + 1 <= MaxU32
  BY DEF CreateBill, NextId
<1>3. bills' = [i \in DOMAIN bills \cup {billCount + 1} |->
                  IF i = billCount + 1
                  THEN [creator |-> creator, payers |-> payers, share |-> share]
                  ELSE bills[i]]
  BY DEF CreateBill, NextId, StoreBill
<1>4. billCount + 1 \notin DOMAIN bills
  BY <1>1
<1>5. DOMAIN bills \cup {billCount + 1} = 1 .. billCount + 1
  BY <1>1
<1>6. DOMAIN bills' = DOMAIN bills \cup {billCount + 1}
  BY <1>3
<1>7. \A id \in DOMAIN bills : bills'[id] = bills[id]
  BY <1>3, <1>4
<1>8. bills'[billCount + 1] =
        [creator |-> creator, payers |-> payers, share |-> share]
  BY <1>3
<1> QED
  BY <1>1, <1>2, <1>4, <1>5, <1>6, <1>7, <1>8

(* create_bill keeps the types of the registry.                            *)
LEMMA CreateBillType ==
    ASSUME RegistryTypeOK, NEW auth, NEW creator \in Address,
           NEW payers \in Seq(Address), NEW share \in I128, NEW memoLen,
           CreateBill(auth, creator, payers, share, memoLen)
    PROVE  RegistryTypeOK'
<1> DEFINE new == billCount + 1
<1>1. /\ billCount' = new
      /\ billCount' \in 1 .. MaxU32
      /\ DOMAIN bills' = DOMAIN bills \cup {new}
      /\ DOMAIN bills' = 1 .. billCount'
      /\ new \notin DOMAIN bills
      /\ bills'[new] =
            [creator |-> creator, payers |-> payers, share |-> share]
      /\ \A id \in DOMAIN bills : bills'[id] = bills[id]
  BY CreateBillStores
<1>2. new \in Nat
  BY <1>1
<1> HIDE DEF new
<1>3. share > 0 /\ Len(payers) \in 1 .. MaxPayers
  <2>1. Len(payers) \in Nat /\ payers # <<>> /\ Len(payers) <= MaxPayers
    BY DEF CreateBill, ValidBill
  <2> QED
    BY <2>1, BillAssumption, EmptySeq DEF CreateBill, ValidBill
<1>4. ASSUME NEW id \in DOMAIN bills'
      PROVE  /\ bills'[id] \in Bill
             /\ bills'[id].share > 0
             /\ Len(bills'[id].payers) \in 1 .. MaxPayers
  <2>1. CASE id = new
    BY <1>1, <1>3, <2>1 DEF Bill
  <2>2. CASE id \in DOMAIN bills
    BY <1>1, <2>2 DEF RegistryTypeOK
  <2> QED
    BY <1>1, <2>1, <2>2
<1>5. /\ settled' \subseteq (DOMAIN bills') \X Address
      /\ \A p \in settled' : IsPayer(p[1], p[2])'
  <2>1. settled' = settled
    BY DEF CreateBill
  <2>2. ASSUME NEW p \in settled
        PROVE  p \in (DOMAIN bills') \X Address /\ IsPayer(p[1], p[2])'
    <3>1. p \in (DOMAIN bills) \X Address /\ IsPayer(p[1], p[2])
      BY DEF RegistryTypeOK
    <3>2. bills'[p[1]] = bills[p[1]]
      BY <1>1, <3>1
    <3> QED
      BY <1>1, <3>1, <3>2 DEF IsPayer
  <2> QED
    BY <2>1, <2>2
<1>6. byCreator' \in [Address -> Seq(DOMAIN bills')]
  <2>1. byCreator \in [Address -> Seq(DOMAIN bills)]
    BY DEF RegistryTypeOK
  <2>2. byCreator' = [byCreator EXCEPT ![creator] = Append(@, new)]
    BY DEF CreateBill, NextId, new
  <2>3. ASSUME NEW a \in Address
        PROVE  /\ byCreator[a] \in Seq(DOMAIN bills')
               /\ Append(byCreator[a], new) \in Seq(DOMAIN bills')
    BY <1>1, <2>1, IndexGrows
  <2> QED
    BY <2>1, <2>2, <2>3
<1>7. byPayer' \in [Address -> Seq(DOMAIN bills')]
  <2>1. byPayer \in [Address -> Seq(DOMAIN bills)]
    BY DEF RegistryTypeOK
  <2>2. byPayer' = [a \in Address |->
            byPayer[a] \o [k \in 1 .. Occurrences(payers, a) |-> new]]
    BY DEF CreateBill, NextId, IndexPayers, new
  <2>3. ASSUME NEW a \in Address
        PROVE  byPayer[a] \o [k \in 1 .. Occurrences(payers, a) |-> new]
                  \in Seq(DOMAIN bills')
    <3>1. Occurrences(payers, a) \in Nat
      BY OccurrencesType
    <3>2. byPayer[a] \in Seq(DOMAIN bills)
      BY <2>1
    <3>3. DOMAIN bills \subseteq DOMAIN bills' /\ new \in DOMAIN bills'
      BY <1>1
    <3> DEFINE n == Occurrences(payers, a)
    <3> HIDE DEF n
    <3>4. n \in Nat
      BY <3>1 DEF n
    <3>5. byPayer[a] \o [k \in 1 .. n |-> new] \in Seq(DOMAIN bills')
      BY <3>2, <3>3, <3>4, IndexGrows
    <3> QED
      BY <3>5 DEF n
  <2> QED
    BY <2>2, <2>3
<1>8. events' \in Seq(Event)
  <2>1. events' = Append(events, [topic |-> "created", who |-> creator,
                                  id |-> new, share |-> share])
    BY DEF CreateBill, Publish, NextId, new
  <2>2. [topic |-> "created", who |-> creator, id |-> new, share |-> share]
          \in Event
    BY <1>2 DEF Event
  <2> QED
    BY <2>1, <2>2, AppendProperties DEF RegistryTypeOK
<1>9. billCount' \in 0 .. MaxU32
  BY <1>1
<1> QED
  BY <1>1, <1>4, <1>5, <1>6, <1>7, <1>8, <1>9 DEF RegistryTypeOK

(* settle moves the share of a bill, which is an amount of the token, from *)
(* one address to another.                                                 *)
LEMMA SettleTransfers ==
    ASSUME RegistryTypeOK, NEW auth, NEW id, NEW payer \in Address,
           Settle(auth, id, payer)
    PROVE  /\ bills[id].creator \in Address
           /\ bills[id].share \in I128
           /\ bills[id].payers \in Seq(Address)
           /\ Transfer(auth, payer, bills[id].creator, bills[id].share)
<1>1. bills[id] \in Bill
  BY DEF Settle, RegistryTypeOK
<1> QED
  BY <1>1 DEF Settle, Due, Bill

(* settle keeps the types of the registry.                                 *)
LEMMA SettleType ==
    ASSUME RegistryTypeOK, NEW auth, NEW id, NEW payer \in Address,
           Settle(auth, id, payer)
    PROVE  RegistryTypeOK'
<1>1. UNCHANGED <<billCount, bills, byCreator, byPayer>>
  BY DEF Settle
<1>2. settled' = settled \cup {<<id, payer>>}
  BY DEF Settle
<1>3. id \in DOMAIN bills /\ IsPayer(id, payer)
  BY DEF Settle
<1>4. settled' \subseteq (DOMAIN bills) \X Address
  BY <1>2, <1>3 DEF RegistryTypeOK
<1>5. \A p \in settled' : IsPayer(p[1], p[2])
  BY <1>2, <1>3 DEF RegistryTypeOK
<1>6. \A p \in settled' : IsPayer(p[1], p[2])'
  BY <1>1, <1>5 DEF IsPayer
<1>7. events' \in Seq(Event)
  <2>1. events' = Append(events, [topic |-> "settled", who |-> payer,
                                  id |-> id, share |-> bills[id].share])
    BY DEF Settle, PublishSettled, Publish
  <2>2. id \in Nat /\ bills[id].share \in I128
    BY <1>3, SettleTransfers DEF RegistryTypeOK
  <2>3. [topic |-> "settled", who |-> payer, id |-> id,
         share |-> bills[id].share] \in Event
    BY <2>2 DEF Event
  <2> QED
    BY <2>1, <2>3, AppendProperties DEF RegistryTypeOK
<1> QED
  BY <1>1, <1>4, <1>6, <1>7 DEF RegistryTypeOK

-----------------------------------------------------------------------------

(* The registry is constructed empty.                                      *)
LEMMA BillInitInv == BillInit => BillInv
<1> SUFFICES ASSUME BillInit
             PROVE  BillInv
  OBVIOUS
<1>1. TokenInv
  BY TokenInitInv DEF BillInit
<1>2. DOMAIN bills = {} /\ billCount = 0 /\ MaxU32 \in Nat
  BY BillAssumption DEF BillInit
<1>3. 1 .. billCount = {}
  BY <1>2
<1>4. /\ byCreator \in [Address -> Seq(DOMAIN bills)]
      /\ byPayer \in [Address -> Seq(DOMAIN bills)]
      /\ events \in Seq(Event)
  BY EmptySeq DEF BillInit
<1>5. RegistryTypeOK
  BY <1>2, <1>3, <1>4 DEF BillInit, RegistryTypeOK
<1> QED
  BY <1>1, <1>5 DEF BillInv

(* A call of the registry is one of its two entry points, with arguments   *)
(* of their types.                                                         *)
LEMMA RegistryCases ==
    ASSUME NEW auth \in Address, RegistryCall(auth)
    PROVE  \/ \E creator \in Address, payers \in Seq(Address), share \in I128,
                 memoLen \in Nat : CreateBill(auth, creator, payers, share, memoLen)
           \/ \E id \in Nat, payer \in Address : Settle(auth, id, payer)
  BY BillAssumption DEF RegistryCall

(* Every step keeps the types of the registry and the token's invariant.   *)
LEMMA BillStepInv == BillInv /\ [BillNext]_billVars => BillInv'
<1> SUFFICES ASSUME BillInv, [BillNext]_billVars
             PROVE  BillInv'
  OBVIOUS
<1> USE DEF BillInv
<1>1. ASSUME NEW auth \in Address, NEW creator \in Address,
             NEW payers \in Seq(Address), NEW share \in I128, NEW memoLen \in Nat,
             CreateBill(auth, creator, payers, share, memoLen)
      PROVE  BillInv'
  <2>1. RegistryTypeOK'
    BY <1>1, CreateBillType
  <2>2. UNCHANGED tokenVars
    BY <1>1 DEF CreateBill
  <2>3. TokenInv'
    BY <2>2, TokenStepInv
  <2> QED
    BY <2>1, <2>3
<1>2. ASSUME NEW auth \in Address, NEW id \in Nat, NEW payer \in Address,
             Settle(auth, id, payer)
      PROVE  BillInv'
  <2>1. RegistryTypeOK'
    BY <1>2, SettleType
  <2>2. TokenInv'
    BY <1>2, SettleTransfers, TransferInv
  <2> QED
    BY <2>1, <2>2
<1>3. CASE TokenNext /\ UNCHANGED registryVars
  <2>1. TokenInv'
    BY <1>3, TokenStepInv
  <2>2. RegistryTypeOK'
    BY <1>3 DEF registryVars, RegistryTypeOK, IsPayer
  <2> QED
    BY <2>1, <2>2
<1>4. CASE UNCHANGED billVars
  <2>1. TokenInv'
    BY <1>4, TokenStepInv DEF billVars
  <2>2. RegistryTypeOK'
    BY <1>4 DEF billVars, registryVars, RegistryTypeOK, IsPayer
  <2> QED
    BY <2>1, <2>2
<1> QED
  BY <1>1, <1>2, <1>3, <1>4, RegistryCases DEF BillNext

(* Every reachable state of registry and token has BillInv.                *)
THEOREM BillInvariant == BillSpec => []BillInv
  BY BillInitInv, BillStepInv, PTL DEF BillSpec

(* Ids run from 1 without a gap, every bill is one that create_bill        *)
(* accepts and only listed payers are marked, however many bills there are *)
(* and whatever token calls interleave.                                    *)
THEOREM BillTypeCorrect == BillSpec => []BillTypeOK
<1>1. BillInv => BillTypeOK
  BY DEF BillInv, TokenInv, BillTypeOK
<1> QED
  BY <1>1, BillInvariant, PTL

(* The transfers that settle makes keep the supply the sum of all          *)
(* balances, for shares of any amount and payers who pay themselves.       *)
THEOREM SupplySurvivesSettling == BillSpec => []SupplyIsSum
<1>1. BillInv => SupplyIsSum
  BY DEF BillInv, TokenInv
<1> QED
  BY <1>1, BillInvariant, PTL

(* No step of either contract rewrites or removes a bill or a settled      *)
(* mark: the next id is always a fresh one.                                *)
LEMMA StepKeepsBills ==
    ASSUME BillInv, [BillNext]_billVars
    PROVE  /\ \A id \in DOMAIN bills : id \in DOMAIN bills' /\ bills'[id] = bills[id]
           /\ settled \subseteq settled'
<1>1. ASSUME NEW auth \in Address, NEW creator \in Address,
             NEW payers \in Seq(Address), NEW share \in I128, NEW memoLen \in Nat,
             CreateBill(auth, creator, payers, share, memoLen)
      PROVE  /\ \A id \in DOMAIN bills :
                   id \in DOMAIN bills' /\ bills'[id] = bills[id]
             /\ settled' = settled
  <2>1. settled' = settled
    BY <1>1 DEF CreateBill
  <2> QED
    BY <1>1, <2>1, CreateBillStores DEF BillInv
<1>2. ASSUME NEW auth \in Address, NEW id \in Nat, NEW payer \in Address,
             Settle(auth, id, payer)
      PROVE  bills' = bills /\ settled \subseteq settled'
  BY <1>2 DEF Settle
<1>3. CASE UNCHANGED registryVars
  BY <1>3 DEF registryVars
<1> QED
  BY <1>1, <1>2, <1>3, RegistryCases DEF BillNext, billVars

(* Bills and marks are for ever, also when the u32 counter runs out.       *)
THEOREM BillsStayAsCreated == BillSpec => BillsNeverRewritten
<1>1. BillInv /\ [BillNext]_billVars
        => [/\ \A id \in DOMAIN bills :
                  id \in DOMAIN bills' /\ bills'[id] = bills[id]
            /\ settled \subseteq settled']_billVars
  BY StepKeepsBills
<1> QED
  BY <1>1, BillInvariant, PTL DEF BillSpec, BillsNeverRewritten

(* Nobody is locked out of paying: in every state that BillInv allows, the *)
(* step that writes what settle writes is one that settle makes, for       *)
(* whoever is listed, has not settled and holds the share.  The recipient, *)
(* who may be the payer, never holds too much, and the amount is one.      *)
THEOREM NobodyIsLockedOut ==
    ASSUME BillInv, NEW id \in DOMAIN bills, NEW payer \in Address,
           IsPayer(id, payer), <<id, payer>> \notin settled,
           balance[payer] >= bills[id].share,
           balance' = [Debited(payer, bills[id].share)
                          EXCEPT ![bills[id].creator] = @ + bills[id].share],
           settled' = settled \cup {<<id, payer>>},
           PublishSettled(id, payer),
           UNCHANGED <<admin, totalSupply, allowance, ledgerSeq,
                       billCount, bills, byCreator, byPayer>>
    PROVE  Settle(payer, id, payer)
<1> DEFINE share == bills[id].share
           creator == bills[id].creator
<1>1. creator \in Address /\ share \in Int /\ share > 0
  BY DEF BillInv, RegistryTypeOK, Bill, I128
<1>2. balance[payer] \in Int
  BY BalanceFacts DEF BillInv, TokenInv
<1>3. share \in 0 .. balance[payer]
  BY <1>1, <1>2
<1>4. Debited(payer, share)[creator] + share \in I128
  <2>1. CreditsNeverOverflow
    BY CreditFits DEF BillInv
  <2> QED
    BY <1>1, <1>3, <2>1 DEF CreditsNeverOverflow
<1>5. MoveBalance(payer, creator, share)
  BY <1>4 DEF MoveBalance
<1>6. Transfer(payer, payer, creator, Due(id, payer))
  BY <1>1, <1>5 DEF Transfer, Nonneg, Due
<1> QED
  BY <1>6 DEF Settle, Unsettled

-----------------------------------------------------------------------------
\* The two indexes.

(* A list that gets n more times an id that it does not contain has the    *)
(* old ids as often as before, the new one n times.                        *)
LEMMA OccurrencesGrow ==
    ASSUME NEW S, NEW seq \in Seq(S), NEW new, new \notin S, NEW n \in Nat
    PROVE  LET longer == seq \o [k \in 1 .. n |-> new] IN
           /\ Occurrences(longer, new) = n
           /\ \A id \in S : Occurrences(longer, id) = Occurrences(seq, id)
<1> DEFINE tail == [k \in 1 .. n |-> new]
           longer == seq \o tail
<1>1. tail \in Seq({new}) /\ Len(tail) = n
  BY SeqDef
<1>2. Len(seq) \in Nat /\ DOMAIN seq = 1 .. Len(seq)
  OBVIOUS
<1>3. /\ DOMAIN longer = 1 .. Len(seq) + n
      /\ \A k \in 1 .. Len(seq) : longer[k] = seq[k]
      /\ \A k \in Len(seq) + 1 .. Len(seq) + n : longer[k] = new
  <2>1. seq \in Seq(S \cup {new}) /\ tail \in Seq(S \cup {new})
    BY <1>1, SeqMonotonic
  <2>2. /\ Len(longer) = Len(seq) + n /\ longer \in Seq(S \cup {new})
        /\ \A k \in 1 .. Len(longer) :
              longer[k] = IF k <= Len(seq) THEN seq[k] ELSE tail[k - Len(seq)]
    BY <1>1, <1>2, <2>1, ConcatProperties
  <2>3. \A k \in Len(seq) + 1 .. Len(seq) + n : k - Len(seq) \in 1 .. n
    BY <1>2
  <2>4. \A k \in 1 .. n : tail[k] = new
    OBVIOUS
  <2> HIDE DEF tail, longer
  <2>5. DOMAIN longer = 1 .. Len(seq) + n
    BY <2>2
  <2> QED
    BY <1>2, <2>2, <2>3, <2>4, <2>5
<1> HIDE DEF tail, longer
<1>4. Occurrences(longer, new) = n
  <2>1. {k \in DOMAIN longer : longer[k] = new} = Len(seq) + 1 .. Len(seq) + n
    BY <1>2, <1>3
  <2>2. Cardinality(Len(seq) + 1 .. Len(seq) + n) = n
    BY <1>2, FS_Interval
  <2> QED
    BY <2>1, <2>2 DEF Occurrences
<1>5. ASSUME NEW id \in S
      PROVE  Occurrences(longer, id) = Occurrences(seq, id)
  <2>1. {k \in DOMAIN longer : longer[k] = id} = {k \in DOMAIN seq : seq[k] = id}
    BY <1>2, <1>3
  <2> QED
    BY <2>1 DEF Occurrences
<1> QED
  BY <1>4, <1>5 DEF longer, tail

IndexInv == BillInv /\ IndexesMatchBills

(* What create_bill adds to an index comes after everything in it.         *)
LEMMA CreateBillIndexes ==
    ASSUME IndexInv, NEW auth, NEW creator \in Address,
           NEW payers \in Seq(Address), NEW share \in I128, NEW memoLen,
           CreateBill(auth, creator, payers, share, memoLen)
    PROVE  IndexesMatchBills'
<1> DEFINE new == billCount + 1
<1>1. /\ DOMAIN bills = 1 .. billCount
      /\ billCount \in Nat
      /\ DOMAIN bills' = DOMAIN bills \cup {new}
      /\ new \notin DOMAIN bills
      /\ bills'[new] = [creator |-> creator, payers |-> payers, share |-> share]
      /\ \A id \in DOMAIN bills : bills'[id] = bills[id]
  <2>1. RegistryTypeOK
    BY DEF IndexInv, BillInv
  <2>2. billCount \in Nat /\ DOMAIN bills = 1 .. billCount
    BY <2>1 DEF RegistryTypeOK
  <2> QED
    BY <2>1, <2>2, CreateBillStores
<1>2. new \in Nat /\ \A id \in DOMAIN bills : id < new /\ id \in Nat
  BY <1>1
<1>3. SUFFICES ASSUME NEW a \in Address
               PROVE  /\ \A j, k \in DOMAIN byCreator'[a] :
                            j < k => byCreator'[a][j] < byCreator'[a][k]
                      /\ \A id \in DOMAIN bills' :
                            (\E k \in DOMAIN byCreator'[a] : byCreator'[a][k] = id)
                               <=> bills'[id].creator = a
                      /\ \A j, k \in DOMAIN byPayer'[a] :
                            j < k => byPayer'[a][j] <= byPayer'[a][k]
                      /\ \A id \in DOMAIN bills' :
                            Occurrences(byPayer'[a], id)
                               = Occurrences(bills'[id].payers, a)
  BY Zenon DEF IndexesMatchBills, Occurrences
<1>4. /\ byCreator[a] \in Seq(DOMAIN bills)
      /\ byPayer[a] \in Seq(DOMAIN bills)
      /\ byCreator'[a] = IF a = creator THEN Append(byCreator[a], new)
                         ELSE byCreator[a]
      /\ byPayer'[a] = byPayer[a] \o [k \in 1 .. Occurrences(payers, a) |-> new]
  <2>1. byCreator \in [Address -> Seq(DOMAIN bills)]
        /\ byPayer \in [Address -> Seq(DOMAIN bills)]
    BY DEF IndexInv, BillInv, RegistryTypeOK
  <2> QED
    BY <2>1 DEF CreateBill, IndexPayers, NextId
<1> HIDE DEF new
<1> DEFINE s == byCreator[a]
           t == byCreator'[a]
<1>5. /\ \A j, k \in DOMAIN s : j < k => s[j] < s[k]
      /\ \A id \in DOMAIN bills : (\E k \in DOMAIN s : s[k] = id)
                                     <=> bills[id].creator = a
      /\ \A j, k \in DOMAIN byPayer[a] : j < k => byPayer[a][j] <= byPayer[a][k]
      /\ \A id \in DOMAIN bills :
            Occurrences(byPayer[a], id) = Occurrences(bills[id].payers, a)
  BY DEF IndexInv, IndexesMatchBills
<1>6. /\ \A j, k \in DOMAIN t : j < k => t[j] < t[k]
      /\ \A id \in DOMAIN bills' :
            (\E k \in DOMAIN t : t[k] = id) <=> bills'[id].creator = a
  <2>1. CASE a # creator
    <3>1. t = s
      BY <1>4, <2>1
    <3>2. \A k \in DOMAIN s : s[k] \in DOMAIN bills
      BY <1>4
    <3> QED
      BY <1>1, <1>5, <2>1, <3>1, <3>2
  <2>2. CASE a = creator
    <3>1. s \in Seq(DOMAIN bills) /\ t = Append(s, new)
      BY <1>4, <2>2
    <3> HIDE DEF s, t
    <3>2. /\ DOMAIN s = 1 .. Len(s) /\ Len(s) \in Nat
          /\ DOMAIN t = 1 .. Len(s) + 1
          /\ \A k \in 1 .. Len(s) : t[k] = s[k] /\ s[k] \in DOMAIN bills
          /\ t[Len(s) + 1] = new
      BY <3>1
    <3>3. \A j, k \in DOMAIN t : j < k => t[j] < t[k]
      BY <1>2, <1>5, <3>2
    <3>4. ASSUME NEW id \in DOMAIN bills'
          PROVE  (\E k \in DOMAIN t : t[k] = id) <=> bills'[id].creator = a
      <4>1. CASE id = new
        BY <1>1, <2>2, <3>2, <4>1
      <4>2. CASE id \in DOMAIN bills
        <5>1. (\E k \in DOMAIN t : t[k] = id) <=> \E k \in DOMAIN s : s[k] = id
          <6>1. new # id
            BY <1>1, <4>2
          <6>2. \A k \in DOMAIN t : k \in DOMAIN s \/ k = Len(s) + 1
            BY <3>2
          <6> QED
            BY <3>2, <6>1, <6>2
        <5>2. bills'[id] = bills[id]
          BY <1>1, <4>2
        <5>3. (\E k \in DOMAIN s : s[k] = id) <=> bills[id].creator = a
          BY <1>5, <4>2 DEF s
        <5> QED
          BY <5>1, <5>2, <5>3
      <4> QED
        BY <1>1, <4>1, <4>2
    <3> QED
      BY <3>3, <3>4
  <2> QED
    BY <2>1, <2>2
<1> DEFINE u == byPayer[a]
           n == Occurrences(payers, a)
           v == u \o [k \in 1 .. n |-> new]
<1>7. u \in Seq(DOMAIN bills) /\ n \in Nat /\ byPayer'[a] = v
  BY <1>4, OccurrencesType
<1>8. \A j, k \in DOMAIN v : j < k => v[j] <= v[k]
  <2> DEFINE tail == [k \in 1 .. n |-> new]
  <2> HIDE DEF n, u
  <2>1. tail \in Seq(DOMAIN bills') /\ Len(tail) = n
        /\ \A k \in 1 .. n : tail[k] = new
    BY <1>1, <1>7, ConstantSeq
  <2>2. u \in Seq(DOMAIN bills')
    BY <1>1, <1>7, SeqMonotonic
  <2> HIDE DEF tail
  <2>3. /\ Len(v) = Len(u) + n /\ v \in Seq(DOMAIN bills')
        /\ \A k \in 1 .. Len(v) :
              v[k] = IF k <= Len(u) THEN u[k] ELSE tail[k - Len(u)]
    BY <1>7, <2>1, <2>2, ConcatProperties DEF tail
  <2> HIDE DEF v
  <2>4. DOMAIN v = 1 .. Len(v) /\ Len(u) \in Nat /\ DOMAIN u = 1 .. Len(u)
        /\ \A k \in 1 .. Len(u) : u[k] \in DOMAIN bills
    BY <1>7, <2>3
  <2>5. SUFFICES ASSUME NEW j \in 1 .. Len(v), NEW k \in 1 .. Len(v), j < k
                 PROVE  v[j] <= v[k]
    BY <2>4
  <2>6. CASE k <= Len(u)
    <3>1. j \in DOMAIN u /\ k \in DOMAIN u
      BY <2>3, <2>4, <2>5, <2>6
    <3>2. v[j] = u[j] /\ v[k] = u[k]
      BY <2>3, <2>4, <2>6, <3>1
    <3>3. u[j] <= u[k]
      BY <1>5, <2>5, <3>1 DEF u
    <3> QED
      BY <3>2, <3>3
  <2>7. CASE ~(k <= Len(u))
    <3>1. k - Len(u) \in 1 .. n
      BY <1>7, <2>3, <2>4, <2>7
    <3>2. v[k] = new
      BY <2>1, <2>3, <2>7, <3>1
    <3>3. v[j] \in DOMAIN bills'
      BY <2>3
    <3> QED
      BY <1>1, <1>2, <3>2, <3>3
  <2> QED
    BY <2>6, <2>7
<1>9. \A id \in DOMAIN bills' : Occurrences(v, id) = Occurrences(bills'[id].payers, a)
  <2>1. /\ Occurrences(v, new) = n
        /\ \A id \in DOMAIN bills : Occurrences(v, id) = Occurrences(u, id)
    <3> HIDE DEF n, u
    <3>1. new \notin DOMAIN bills /\ u \in Seq(DOMAIN bills) /\ n \in Nat
      BY <1>1, <1>7
    <3> QED
      BY <3>1, OccurrencesGrow
  <2> HIDE DEF v
  <2> QED
    BY <1>1, <1>5, <2>1
<1> QED
  BY <1>6, <1>7, <1>8, <1>9

(* The registry begins with empty indexes.                                 *)
LEMMA IndexInitInv == BillInit => IndexInv
<1> SUFFICES ASSUME BillInit
             PROVE  IndexInv
  OBVIOUS
<1>1. IndexesMatchBills
  BY DEF BillInit, IndexesMatchBills
<1> QED
  BY <1>1, BillInitInv DEF IndexInv

(* Only create_bill touches bills or indexes.                              *)
LEMMA IndexStepInv == IndexInv /\ [BillNext]_billVars => IndexInv'
<1> SUFFICES ASSUME IndexInv, [BillNext]_billVars
             PROVE  IndexInv'
  OBVIOUS
<1>1. BillInv'
  BY BillStepInv DEF IndexInv
<1>2. ASSUME NEW auth \in Address, NEW creator \in Address,
             NEW payers \in Seq(Address), NEW share \in I128, NEW memoLen \in Nat,
             CreateBill(auth, creator, payers, share, memoLen)
      PROVE  IndexesMatchBills'
  BY <1>2, CreateBillIndexes
<1>3. ASSUME UNCHANGED <<bills, byCreator, byPayer>>
      PROVE  IndexesMatchBills'
  BY <1>3 DEF IndexInv, IndexesMatchBills, Occurrences
<1>4. ASSUME NEW auth \in Address, NEW id \in Nat, NEW payer \in Address,
             Settle(auth, id, payer)
      PROVE  IndexesMatchBills'
  BY <1>3, <1>4 DEF Settle
<1>5. ASSUME UNCHANGED registryVars
      PROVE  IndexesMatchBills'
  BY <1>3, <1>5 DEF registryVars
<1>6. IndexesMatchBills'
  BY <1>2, <1>4, <1>5, RegistryCases DEF BillNext, billVars
<1> QED
  BY <1>1, <1>6 DEF IndexInv

(* What the front end lists bills by is right, for any number of bills and *)
(* for payer lists that name an address many times or the creator.         *)
THEOREM IndexesAlwaysMatch == BillSpec => []IndexesMatchBills
<1>1. IndexInv => IndexesMatchBills
  BY DEF IndexInv
<1> QED
  BY <1>1, IndexInitInv, IndexStepInv, PTL DEF BillSpec

-----------------------------------------------------------------------------
\* The event log.

(* The log has one "created" event per bill, which the ranks alone would   *)
(* leave to an argument of counting.                                       *)
LogInv ==
    /\ BillInv
    /\ EventsTellState
    /\ IsFiniteSet(settled)
    /\ \A k \in CreatedEvents : events[k].id \in DOMAIN bills
    /\ \A id \in DOMAIN bills : \E k \in CreatedEvents : events[k].id = id

(* Positions of the log are finitely many, and an event that is appended   *)
(* is at the last one.                                                     *)
LEMMA LogGrows ==
    ASSUME events \in Seq(Event), NEW e \in Event, events' = Append(events, e)
    PROVE  LET n == Len(events) + 1 IN
           /\ n \in Nat /\ n \notin DOMAIN events
           /\ \A k \in DOMAIN events : k \in Nat /\ k < n /\ events'[k] = events[k]
           /\ DOMAIN events' = DOMAIN events \cup {n}
           /\ events'[n] = e
           /\ CreatedEvents' = IF e.topic = "created" THEN CreatedEvents \cup {n}
                               ELSE CreatedEvents
           /\ SettledEvents' = IF e.topic = "settled" THEN SettledEvents \cup {n}
                               ELSE SettledEvents
           /\ IsFiniteSet(CreatedEvents) /\ IsFiniteSet(SettledEvents)
           /\ CreatedEvents \subseteq DOMAIN events
           /\ SettledEvents \subseteq DOMAIN events
<1> DEFINE n == Len(events) + 1
<1>1. DOMAIN events = 1 .. Len(events) /\ Len(events) \in Nat
  OBVIOUS
<1>2. /\ DOMAIN events' = 1 .. n
      /\ \A k \in 1 .. Len(events) : events'[k] = events[k]
      /\ events'[n] = e
  BY <1>1, AppendProperties
<1>3. /\ n \in Nat /\ n \notin DOMAIN events
      /\ \A k \in DOMAIN events : k \in Nat /\ k < n
      /\ DOMAIN events' = DOMAIN events \cup {n}
  BY <1>1, <1>2
<1>4. IsFiniteSet(DOMAIN events)
  BY <1>1, FS_Interval
<1>5. CreatedEvents \subseteq DOMAIN events /\ SettledEvents \subseteq DOMAIN events
  BY DEF CreatedEvents, SettledEvents
<1>6. IsFiniteSet(CreatedEvents) /\ IsFiniteSet(SettledEvents)
  BY <1>4, <1>5, FS_Subset
<1> HIDE DEF n
<1>7. /\ CreatedEvents' = IF e.topic = "created" THEN CreatedEvents \cup {n}
                          ELSE CreatedEvents
      /\ SettledEvents' = IF e.topic = "settled" THEN SettledEvents \cup {n}
                          ELSE SettledEvents
  BY <1>1, <1>2, <1>3 DEF CreatedEvents, SettledEvents
<1> QED
  BY <1>1, <1>2, <1>3, <1>5, <1>6, <1>7 DEF n

(* The event of a new bill has the next rank.                              *)
LEMMA CreateBillLogs ==
    ASSUME LogInv, NEW auth, NEW creator \in Address,
           NEW payers \in Seq(Address), NEW share \in I128, NEW memoLen,
           CreateBill(auth, creator, payers, share, memoLen), BillInv'
    PROVE  LogInv'
<1> DEFINE new == billCount + 1
           n == Len(events) + 1
           e == [topic |-> "created", who |-> creator, id |-> new, share |-> share]
<1>1. /\ billCount \in Nat /\ billCount' = new
      /\ DOMAIN bills' = DOMAIN bills \cup {new}
      /\ new \notin DOMAIN bills
      /\ bills'[new] = [creator |-> creator, payers |-> payers, share |-> share]
      /\ \A id \in DOMAIN bills : bills'[id] = bills[id]
      /\ settled' = settled
  <2>1. RegistryTypeOK
    BY DEF LogInv, BillInv
  <2>2. billCount \in Nat
    BY <2>1 DEF RegistryTypeOK
  <2>3. settled' = settled
    BY DEF CreateBill
  <2> QED
    BY <2>1, <2>2, <2>3, CreateBillStores
<1>2. /\ events \in Seq(Event) /\ events' = Append(events, e) /\ e \in Event
      /\ settled \subseteq (DOMAIN bills) \X Address
  BY <1>1 DEF CreateBill, Publish, NextId, LogInv, BillInv, RegistryTypeOK, Event
<1>3. e.topic = "created" /\ e.who = creator /\ e.id = new /\ e.share = share
  OBVIOUS
<1> HIDE DEF new, n, e
<1>4. /\ n \in Nat /\ n \notin DOMAIN events
      /\ \A k \in DOMAIN events : k \in Nat /\ k < n /\ events'[k] = events[k]
      /\ events'[n] = e
      /\ CreatedEvents' = CreatedEvents \cup {n} /\ SettledEvents' = SettledEvents
      /\ IsFiniteSet(CreatedEvents)
      /\ CreatedEvents \subseteq DOMAIN events
      /\ SettledEvents \subseteq DOMAIN events
  BY <1>2, <1>3, LogGrows DEF n
<1>5. Cardinality(CreatedEvents') = billCount'
  BY <1>1, <1>4, FS_AddElement DEF LogInv, EventsTellState, new
<1>6. ASSUME NEW k \in CreatedEvents'
      PROVE  /\ events'[k].id = Cardinality({j \in CreatedEvents' : j <= k})
             /\ events'[k].who = bills'[events'[k].id].creator
             /\ events'[k].share = bills'[events'[k].id].share
             /\ events'[k].id \in DOMAIN bills'
  <2>1. CASE k = n
    <3>1. {j \in CreatedEvents' : j <= k} = CreatedEvents'
      BY <1>4, <2>1
    <3>2. /\ events'[k].id = new /\ events'[k].who = creator
          /\ events'[k].share = share
      BY <1>3, <1>4, <2>1
    <3>3. bills'[new].creator = creator /\ bills'[new].share = share
      BY <1>1
    <3>4. new = Cardinality({j \in CreatedEvents' : j <= k})
      BY <1>1, <1>5, <3>1
    <3>5. new \in DOMAIN bills'
      BY <1>1
    <3> QED
      BY <3>2, <3>3, <3>4, <3>5
  <2>2. CASE k \in CreatedEvents
    <3>1. {j \in CreatedEvents' : j <= k} = {j \in CreatedEvents : j <= k}
      BY <1>4, <2>2
    <3>2. /\ events[k].id = Cardinality({j \in CreatedEvents : j <= k})
          /\ events[k].who = bills[events[k].id].creator
          /\ events[k].share = bills[events[k].id].share
          /\ events[k].id \in DOMAIN bills
      BY <2>2 DEF LogInv, EventsTellState
    <3>3. events'[k] = events[k]
      BY <1>4, <2>2
    <3> QED
      BY <1>1, <3>1, <3>2, <3>3
  <2> QED
    BY <1>4, <2>1, <2>2
<1>7. ASSUME NEW k \in SettledEvents'
      PROVE  /\ <<events'[k].id, events'[k].who>> \in settled'
             /\ events'[k].share = bills'[events'[k].id].share
             /\ \E j \in CreatedEvents' : j < k /\ events'[j].id = events'[k].id
  <2>1. k \in SettledEvents /\ events'[k] = events[k]
    BY <1>4
  <2>2. /\ <<events[k].id, events[k].who>> \in settled
        /\ events[k].share = bills[events[k].id].share
        /\ \E j \in CreatedEvents : j < k /\ events[j].id = events[k].id
    BY <2>1 DEF LogInv, EventsTellState
  <2>3. events[k].id \in DOMAIN bills
    BY <1>2, <2>2
  <2> QED
    BY <1>1, <1>4, <2>1, <2>2, <2>3
<1>8. ASSUME NEW id \in DOMAIN bills'
      PROVE  \E k \in CreatedEvents' : events'[k].id = id
  <2>1. CASE id = new
    BY <1>3, <1>4, <2>1
  <2>2. CASE id \in DOMAIN bills
    BY <1>4, <2>2 DEF LogInv
  <2> QED
    BY <1>1, <2>1, <2>2
<1>9. Cardinality(SettledEvents') = Cardinality(settled')
  BY <1>1, <1>4 DEF LogInv, EventsTellState
<1>10. IsFiniteSet(settled')
  BY <1>1 DEF LogInv
<1>11. EventsTellState'
  BY <1>5, <1>6, <1>7, <1>9 DEF EventsTellState
<1> QED
  BY <1>6, <1>8, <1>10, <1>11 DEF LogInv

(* The event of a settled share comes after that of its bill.              *)
LEMMA SettleLogs ==
    ASSUME LogInv, NEW auth, NEW id, NEW payer \in Address,
           Settle(auth, id, payer), BillInv'
    PROVE  LogInv'
<1> DEFINE n == Len(events) + 1
           e == [topic |-> "settled", who |-> payer, id |-> id,
                 share |-> bills[id].share]
<1>1. /\ UNCHANGED <<billCount, bills>>
      /\ id \in DOMAIN bills
      /\ settled' = settled \cup {<<id, payer>>}
      /\ <<id, payer>> \notin settled
  BY DEF Settle, Unsettled
<1>2. /\ events \in Seq(Event) /\ events' = Append(events, e) /\ e \in Event
      /\ settled \subseteq (DOMAIN bills) \X Address
  <2>1. RegistryTypeOK
    BY DEF LogInv, BillInv
  <2>2. id \in Nat /\ bills[id].share \in I128
    BY <1>1, <2>1, SettleTransfers DEF RegistryTypeOK
  <2>3. e \in Event
    BY <2>2 DEF Event
  <2> QED
    BY <2>1, <2>3 DEF Settle, PublishSettled, Publish, RegistryTypeOK
<1>3. /\ e.topic = "settled" /\ e.who = payer /\ e.id = id
      /\ e.share = bills[id].share
  OBVIOUS
<1> HIDE DEF n, e
<1>4. /\ n \in Nat /\ n \notin DOMAIN events
      /\ \A k \in DOMAIN events : k \in Nat /\ k < n /\ events'[k] = events[k]
      /\ events'[n] = e
      /\ CreatedEvents' = CreatedEvents /\ SettledEvents' = SettledEvents \cup {n}
      /\ IsFiniteSet(SettledEvents)
      /\ CreatedEvents \subseteq DOMAIN events
      /\ SettledEvents \subseteq DOMAIN events
  BY <1>2, <1>3, LogGrows DEF n
<1>5. ASSUME NEW k \in CreatedEvents'
      PROVE  /\ events'[k].id = Cardinality({j \in CreatedEvents' : j <= k})
             /\ events'[k].who = bills'[events'[k].id].creator
             /\ events'[k].share = bills'[events'[k].id].share
             /\ events'[k].id \in DOMAIN bills'
  BY <1>1, <1>4 DEF LogInv, EventsTellState
<1>6. ASSUME NEW k \in SettledEvents'
      PROVE  /\ <<events'[k].id, events'[k].who>> \in settled'
             /\ events'[k].share = bills'[events'[k].id].share
             /\ \E j \in CreatedEvents' : j < k /\ events'[j].id = events'[k].id
  <2>1. CASE k = n
    <3>1. PICK j \in CreatedEvents : events[j].id = id
      BY <1>1 DEF LogInv
    <3>2. j < k /\ events'[j] = events[j]
      BY <1>4, <2>1
    <3> QED
      BY <1>1, <1>3, <1>4, <2>1, <3>1, <3>2
  <2>2. CASE k \in SettledEvents
    <3>1. /\ <<events[k].id, events[k].who>> \in settled
          /\ events[k].share = bills[events[k].id].share
          /\ \E j \in CreatedEvents : j < k /\ events[j].id = events[k].id
      BY <2>2 DEF LogInv, EventsTellState
    <3> QED
      BY <1>1, <1>4, <2>2, <3>1
  <2> QED
    BY <1>4, <2>1, <2>2
<1>7. Cardinality(SettledEvents') = Cardinality(settled')
  <2>1. Cardinality(SettledEvents) = Cardinality(settled) /\ IsFiniteSet(settled)
    BY DEF LogInv, EventsTellState
  <2>2. n \notin SettledEvents
    BY <1>4
  <2>3. Cardinality(SettledEvents \cup {n}) = Cardinality(SettledEvents) + 1
    BY <1>4, <2>2, FS_AddElement
  <2>4. Cardinality(settled \cup {<<id, payer>>}) = Cardinality(settled) + 1
    BY <1>1, <2>1, FS_AddElement
  <2> QED
    BY <1>1, <1>4, <2>1, <2>3, <2>4
<1>8. IsFiniteSet(settled')
  BY <1>1, FS_AddElement DEF LogInv
<1>9. Cardinality(CreatedEvents') = billCount'
  BY <1>1, <1>4 DEF LogInv, EventsTellState
<1>10. \A i \in DOMAIN bills' : \E k \in CreatedEvents' : events'[k].id = i
  BY <1>1, <1>4 DEF LogInv
<1>11. EventsTellState'
  BY <1>5, <1>6, <1>7, <1>9 DEF EventsTellState
<1> QED
  BY <1>5, <1>8, <1>10, <1>11 DEF LogInv

(* The registry begins with an empty log.                                  *)
LEMMA LogInitInv == BillInit => LogInv
<1> SUFFICES ASSUME BillInit
             PROVE  LogInv
  OBVIOUS
<1>1. CreatedEvents = {} /\ SettledEvents = {} /\ DOMAIN bills = {}
  BY DEF BillInit, CreatedEvents, SettledEvents
<1>2. billCount = 0 /\ settled = {}
  BY DEF BillInit
<1>3. Cardinality({}) = 0 /\ IsFiniteSet({})
  BY FS_EmptySet
<1>4. EventsTellState
  BY <1>1, <1>2, <1>3 DEF EventsTellState
<1> QED
  BY <1>1, <1>2, <1>3, <1>4, BillInitInv DEF LogInv

(* Every step keeps the log and the storage together.                      *)
LEMMA LogStepInv == LogInv /\ [BillNext]_billVars => LogInv'
<1> SUFFICES ASSUME LogInv, [BillNext]_billVars
             PROVE  LogInv'
  OBVIOUS
<1>1. BillInv'
  BY BillStepInv DEF LogInv
<1>2. ASSUME NEW auth \in Address, NEW creator \in Address,
             NEW payers \in Seq(Address), NEW share \in I128, NEW memoLen \in Nat,
             CreateBill(auth, creator, payers, share, memoLen)
      PROVE  LogInv'
  BY <1>1, <1>2, CreateBillLogs
<1>3. ASSUME NEW auth \in Address, NEW id \in Nat, NEW payer \in Address,
             Settle(auth, id, payer)
      PROVE  LogInv'
  BY <1>1, <1>3, SettleLogs
<1>4. CASE UNCHANGED registryVars
  BY <1>1, <1>4 DEF registryVars, LogInv, EventsTellState, CreatedEvents,
                    SettledEvents
<1> QED
  BY <1>2, <1>3, <1>4, RegistryCases DEF BillNext, billVars

(* Whoever reads the whole log knows the registry, for any number of bills *)
(* and settlements in any order.                                           *)
THEOREM EventsAlwaysTell == BillSpec => []EventsTellState
<1>1. LogInv => EventsTellState
  BY DEF LogInv
<1> QED
  BY <1>1, LogInitInv, LogStepInv, PTL DEF BillSpec

-----------------------------------------------------------------------------
\* The bills as readers see them.

Entry == [creator : Address, payers : Seq(Address)]

ChainOf(n, b) ==
    [id \in 1 .. n |-> [creator |-> b[id].creator, payers |-> b[id].payers]]

(* n bills as readers see them are a list of length n.                     *)
LEMMA ChainIsSeq ==
    ASSUME NEW n \in Nat, NEW b, \A id \in 1 .. n : b[id] \in Bill
    PROVE  ChainOf(n, b) \in Seq(Entry) /\ Len(ChainOf(n, b)) = n
<1>1. \A id \in 1 .. n :
          [creator |-> b[id].creator, payers |-> b[id].payers] \in Entry
  BY DEF Bill, Entry
<1>2. ChainOf(n, b) \in [1 .. n -> Entry]
  BY <1>1 DEF ChainOf
<1>3. ChainOf(n, b) \in Seq(Entry)
  BY <1>2, SeqDef
<1> QED
  BY <1>2, <1>3, LenProperties

(* The registry's types are what that needs.                               *)
LEMMA RegistryIsChain ==
    RegistryTypeOK => billCount \in Nat /\ \A id \in 1 .. billCount : bills[id] \in Bill
  BY BillAssumption DEF RegistryTypeOK

(* create_bill appends the new bill to what readers see.                   *)
LEMMA CreateBillAppends ==
    ASSUME RegistryTypeOK, NEW auth, NEW creator \in Address,
           NEW payers \in Seq(Address), NEW share \in I128, NEW memoLen,
           CreateBill(auth, creator, payers, share, memoLen)
    PROVE  ChainOf(billCount', bills') =
             Append(ChainOf(billCount, bills),
                    [creator |-> creator, payers |-> payers])
<1> DEFINE old == ChainOf(billCount, bills)
           new == ChainOf(billCount', bills')
           e == [creator |-> creator, payers |-> payers]
<1>1. old \in Seq(Entry) /\ Len(old) = billCount
  BY RegistryIsChain, ChainIsSeq
<1>2. billCount' \in Nat /\ \A id \in 1 .. billCount' : bills'[id] \in Bill
  <2>1. RegistryTypeOK'
    BY CreateBillType
  <2>2. billCount' \in 1 .. MaxU32 /\ DOMAIN bills' = 1 .. billCount'
    BY CreateBillStores
  <2>3. \A id \in DOMAIN bills' : bills'[id] \in Bill
    BY <2>1 DEF RegistryTypeOK, Bill
  <2> QED
    BY <2>2, <2>3
<1>3. new \in Seq(Entry) /\ Len(new) = billCount'
  BY <1>2, ChainIsSeq
<1>4. e \in Entry
  BY DEF Entry
<1>5. billCount' = billCount + 1 /\ billCount \in Nat
  BY CreateBillStores, RegistryIsChain
<1>6. ASSUME NEW id \in 1 .. billCount
      PROVE  new[id] = old[id]
  <2>1. id \in 1 .. billCount' /\ id \in DOMAIN bills
    BY <1>5 DEF RegistryTypeOK
  <2>2. bills'[id] = bills[id]
    BY <2>1, CreateBillStores
  <2> QED
    BY <2>1, <2>2 DEF ChainOf
<1>7. new[billCount + 1] = e
  <2>1. billCount + 1 \in 1 .. billCount'
    BY <1>5
  <2>2. bills'[billCount + 1] =
          [creator |-> creator, payers |-> payers, share |-> share]
    BY CreateBillStores
  <2> QED
    BY <2>1, <2>2 DEF ChainOf
<1> HIDE DEF old, new, e
<1>8. /\ Append(old, e) \in Seq(Entry)
      /\ Len(Append(old, e)) = billCount + 1
      /\ \A id \in 1 .. billCount : Append(old, e)[id] = old[id]
      /\ Append(old, e)[billCount + 1] = e
  BY <1>1, <1>4, AppendProperties
<1>9. \A id \in 1 .. Len(new) : new[id] = Append(old, e)[id]
  BY <1>3, <1>5, <1>6, <1>7, <1>8
<1>10. new = Append(old, e)
  BY <1>3, <1>5, <1>8, <1>9, SeqEqual
<1> QED
  BY <1>10 DEF old, new, e

(* settle marks a pair of a bill and one of its payers, once, and leaves   *)
(* the bills alone.                                                        *)
LEMMA SettleMarks ==
    ASSUME RegistryTypeOK, NEW auth, NEW id, NEW payer, Settle(auth, id, payer)
    PROVE  LET chain == ChainOf(billCount, bills) IN
           /\ id \in DOMAIN chain
           /\ payer \in {chain[id].payers[k] : k \in DOMAIN chain[id].payers}
           /\ <<id, payer>> \notin settled
           /\ settled' = settled \cup {<<id, payer>>}
           /\ ChainOf(billCount', bills') = chain
<1>1. id \in 1 .. billCount
  BY DEF Settle, RegistryTypeOK
<1>2. \E k \in DOMAIN bills[id].payers : bills[id].payers[k] = payer
  BY DEF Settle, IsPayer
<1>3. /\ <<id, payer>> \notin settled
      /\ settled' = settled \cup {<<id, payer>>}
      /\ billCount' = billCount /\ bills' = bills
  BY DEF Settle, Unsettled
<1> QED
  BY <1>1, <1>2, <1>3 DEF ChainOf
=============================================================================
