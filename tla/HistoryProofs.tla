--------------------------- MODULE HistoryProofs ---------------------------
(***************************************************************************)
(* What is said of the contracts with history variables, for every set of  *)
(* addresses, every width and every choice of bills.                       *)
(*                                                                         *)
(* StableTokenHistory: who may move whose tokens.  What was drawn and what *)
(* is left of an allowance add up to the grant while the entry exists, and *)
(* to no more than the grant when the host has dropped it.  That, with     *)
(* TokenInv, is inductive.                                                 *)
(*                                                                         *)
(* BillSplitAudit: the contracts implement what they promise, the chain    *)
(* that the page reads (BillChain) and the book of debts (Obligations).    *)
(***************************************************************************)
EXTENDS StableTokenHistory, BillSplitAudit, ContractProofs

-----------------------------------------------------------------------------
\* The token.

GrantInv ==
    /\ granted \in [Pairs -> Nat]
    /\ drawn \in [Pairs -> Nat]
    /\ \A p \in Pairs : drawn[p] + allowance[p].amount <= granted[p]
    /\ DrawnWithinGrant

HistoryInv == TokenInv /\ GrantInv /\ successor = admin

-----------------------------------------------------------------------------

(* The history variables restrict nothing: every step is a token step.     *)
LEMMA HistoryStepsAreTokenSteps ==
    [HistoryNext]_historyVars => [TokenNext]_tokenVars
  BY DEF HistoryNext, SignedMint, SignedSetAdmin, SignedApprove, SignedTransfer,
         SignedTransferFrom, SignedBurn, SignedBurnFrom, TokenNext, TokenCall,
         historyVars, tokenVars

(* A move takes from the sender alone, and no more than the amount.        *)
LEMMA MoveDebitsSender ==
    ASSUME TokenInv, NEW from \in Address, NEW to \in Address,
           NEW amount \in I128, amount >= 0, MoveBalance(from, to, amount),
           NEW a \in Address, balance'[a] < balance[a]
    PROVE  a = from /\ balance[a] - balance'[a] = amount
<1> DEFINE v == balance[from] - amount
           debited == [balance EXCEPT ![from] = v]
<1>1. balance \in [Address -> Int] /\ MaxI128 \in Nat
  BY BalanceFacts DEF TokenInv
<1>2. amount \in Int /\ v \in Int
  BY <1>1 DEF I128
<1>3. debited \in [Address -> Int] /\ debited[from] = v
      /\ \A b \in Address : b # from => debited[b] = balance[b]
  BY <1>1, <1>2
<1>4. balance' = [debited EXCEPT ![to] = debited[to] + amount]
  BY DEF MoveBalance, Debited
<1>5. \A b \in Address : balance'[b] = debited[b] + (IF b = to THEN amount ELSE 0)
  <2> HIDE DEF debited
  <2> QED
    BY <1>2, <1>3, <1>4
<1> HIDE DEF debited
<1> QED
  BY <1>1, <1>2, <1>3, <1>5

(* A draw lowers the one allowance it uses by the amount.                  *)
LEMMA DrawLowersAllowance ==
    ASSUME TokenTypeOK, NEW owner \in Address, NEW spender \in Address,
           NEW amount \in I128, SpendAllowance(owner, spender, amount)
    PROVE  LET p == <<owner, spender>> IN
           /\ allowance[p].amount \in Nat
           /\ allowance'[p].amount = allowance[p].amount - amount
           /\ allowance'[p].expiration = allowance[p].expiration
           /\ \A q \in Pairs : q # p => allowance'[q] = allowance[q]
<1> DEFINE p == <<owner, spender>>
<1>1. allowance[p] \in [amount : 0 .. MaxI128, expiration : Nat] /\ MaxI128 \in Nat
  BY TokenAssumption DEF TokenTypeOK
<1>2. p \in Pairs /\ DOMAIN allowance = Pairs
  BY DEF TokenTypeOK, Pairs
<1>3. allowance' = [allowance EXCEPT ![p] =
                       [allowance[p] EXCEPT !.amount = allowance[p].amount - amount]]
  BY DEF SpendAllowance
<1> QED
  BY <1>1, <1>2, <1>3

-----------------------------------------------------------------------------
\* Draws within grants.

(* A draw that is recorded keeps GrantInv.                                 *)
LEMMA DrawInv ==
    ASSUME TokenTypeOK, GrantInv, NEW owner \in Address, NEW spender \in Address,
           NEW amount \in I128, amount >= 0,
           SpendAllowance(owner, spender, amount),
           drawn' = [drawn EXCEPT ![<<owner, spender>>] = @ + amount],
           granted' = granted
    PROVE  GrantInv'
<1> DEFINE p == <<owner, spender>>
<1>1. amount \in Nat
  BY TokenAssumption DEF I128
<1>2. p \in Pairs /\ drawn[p] \in Nat /\ granted[p] \in Nat
  BY DEF Pairs, GrantInv
<1>3. /\ allowance[p].amount \in Nat
      /\ allowance'[p].amount = allowance[p].amount - amount
      /\ allowance'[p].expiration = allowance[p].expiration
      /\ \A q \in Pairs : q # p => allowance'[q] = allowance[q]
  BY DrawLowersAllowance
<1>4. allowance[p].amount >= amount
  BY DEF SpendAllowance
<1>5. drawn' \in [Pairs -> Nat] /\ drawn'[p] = drawn[p] + amount
      /\ \A q \in Pairs : q # p => drawn'[q] = drawn[q]
  BY <1>1, <1>2 DEF GrantInv
<1>6. drawn'[p] + allowance'[p].amount = drawn[p] + allowance[p].amount
  BY <1>1, <1>2, <1>3, <1>5
<1>7. allowance'[p] # NoAllowance => allowance[p] # NoAllowance
  <2> SUFFICES ASSUME allowance[p] = NoAllowance
               PROVE  allowance'[p] = NoAllowance
    OBVIOUS
  <2>1. allowance[p].amount = 0 /\ amount = 0
    BY <1>1, <1>4 DEF NoAllowance
  <2>2. allowance' = [allowance EXCEPT ![p] =
                         [allowance[p] EXCEPT !.amount = allowance[p].amount - amount]]
    BY DEF SpendAllowance
  <2>3. p \in DOMAIN allowance
    BY DEF TokenTypeOK
  <2> QED
    BY <2>1, <2>2, <2>3 DEF NoAllowance
<1>8. /\ drawn'[p] + allowance'[p].amount <= granted'[p]
      /\ drawn'[p] <= granted'[p]
      /\ allowance'[p] # NoAllowance =>
            drawn'[p] + allowance'[p].amount = granted'[p]
  BY <1>1, <1>2, <1>3, <1>4, <1>5, <1>6, <1>7 DEF GrantInv, DrawnWithinGrant
<1>9. \A q \in Pairs : q # p =>
         /\ drawn'[q] + allowance'[q].amount <= granted'[q]
         /\ drawn'[q] <= granted'[q]
         /\ allowance'[q] # NoAllowance =>
               drawn'[q] + allowance'[q].amount = granted'[q]
  BY <1>3, <1>5 DEF GrantInv, DrawnWithinGrant
<1> HIDE DEF p
<1> QED
  BY <1>5, <1>8, <1>9 DEF GrantInv, DrawnWithinGrant

(* An approval starts a new grant.                                         *)
LEMMA GrantInvApprove ==
    ASSUME TokenTypeOK, GrantInv, NEW auth \in Address, SignedApprove(auth)
    PROVE  GrantInv'
<1>1. PICK p \in Approvals, amount \in Amounts, expiration \in Expirations :
         /\ Approve(auth, p[1], p[2], amount, expiration)
         /\ granted' = [granted EXCEPT ![p] = amount]
         /\ drawn' = [drawn EXCEPT ![p] = 0]
  BY DEF SignedApprove
<1>2. p \in Pairs /\ p = <<p[1], p[2]>> /\ amount \in Nat
  BY <1>1, TokenAssumption DEF Pairs, Approve, Nonneg, I128
<1>3. allowance' = [allowance EXCEPT ![p] =
                       [amount |-> amount, expiration |-> expiration]]
  BY <1>1, <1>2 DEF Approve
<1>4. granted' \in [Pairs -> Nat] /\ drawn' \in [Pairs -> Nat]
      /\ granted'[p] = amount /\ drawn'[p] = 0 /\ allowance'[p].amount = amount
  BY <1>1, <1>2, <1>3 DEF GrantInv, TokenTypeOK, Pairs
<1>5. \A q \in Pairs : q # p => /\ granted'[q] = granted[q]
                                /\ drawn'[q] = drawn[q]
                                /\ allowance'[q] = allowance[q]
  BY <1>1, <1>3 DEF GrantInv, TokenTypeOK, Pairs
<1> QED
  BY <1>2, <1>4, <1>5 DEF GrantInv, DrawnWithinGrant

(* Dropping an entry keeps GrantInv.                                       *)
LEMMA GrantInvEvict ==
    ASSUME TokenTypeOK, GrantInv, NEW owner \in Address, NEW spender \in Address,
           EvictAllowance(owner, spender), UNCHANGED <<granted, drawn>>
    PROVE  GrantInv'
<1> DEFINE p == <<owner, spender>>
<1>1. p \in Pairs /\ DOMAIN allowance = Pairs
  BY DEF Pairs, TokenTypeOK
<1>2. allowance' = [allowance EXCEPT ![p] = NoAllowance]
  BY DEF EvictAllowance
<1>3. allowance'[p] = NoAllowance /\ NoAllowance.amount = 0
      /\ \A q \in Pairs : q # p => allowance'[q] = allowance[q]
  BY <1>1, <1>2 DEF NoAllowance
<1>4. \A q \in Pairs : drawn[q] \in Nat /\ granted[q] \in Nat
  BY DEF GrantInv
<1> HIDE DEF p
<1> QED
  BY <1>1, <1>3, <1>4 DEF GrantInv, DrawnWithinGrant

(* Construction grants nothing.                                            *)
LEMMA HistoryInitInv == HistoryInit => HistoryInv
<1> SUFFICES ASSUME HistoryInit
             PROVE  HistoryInv
  OBVIOUS
<1>1. TokenInv
  BY TokenInitInv DEF HistoryInit
<1>2. GrantInv /\ successor = admin
  BY DEF HistoryInit, TokenInit, GrantInv, DrawnWithinGrant, Pairs, NoAllowance
<1> QED
  BY <1>1, <1>2 DEF HistoryInv

(* Every step keeps the history invariant.                                 *)
LEMMA HistoryStepInv == HistoryInv /\ [HistoryNext]_historyVars => HistoryInv'
<1> SUFFICES ASSUME HistoryInv, [HistoryNext]_historyVars
             PROVE  HistoryInv'
  OBVIOUS
<1> USE TokenAssumption
<1>0. TokenInv /\ TokenTypeOK /\ GrantInv
  BY DEF HistoryInv, TokenInv
<1>1. TokenInv'
  BY <1>0, HistoryStepsAreTokenSteps, TokenStepInv
<1>2. ASSUME UNCHANGED <<allowance, granted, drawn>>
      PROVE  GrantInv'
  BY <1>0, <1>2 DEF GrantInv, DrawnWithinGrant
<1>3. ASSUME NEW auth \in Address, SignedTransferFrom(auth)
      PROVE  GrantInv'
  <2>1. PICK spender \in Address, from \in Address, to \in Address, amount \in Amounts :
           /\ TransferFrom(auth, spender, from, to, amount)
           /\ drawn' = [drawn EXCEPT ![<<from, spender>>] = @ + amount]
           /\ UNCHANGED granted
    BY <1>3 DEF SignedTransferFrom
  <2>2. amount \in I128 /\ amount >= 0 /\ SpendAllowance(from, spender, amount)
    BY <2>1 DEF TransferFrom, Nonneg
  <2> QED
    BY <1>0, <2>1, <2>2, DrawInv
<1>4. ASSUME NEW auth \in Address, SignedBurnFrom(auth)
      PROVE  GrantInv'
  <2>1. PICK spender \in Address, from \in Address, amount \in Amounts :
           /\ BurnFrom(auth, spender, from, amount)
           /\ drawn' = [drawn EXCEPT ![<<from, spender>>] = @ + amount]
           /\ UNCHANGED granted
    BY <1>4 DEF SignedBurnFrom
  <2>2. amount \in I128 /\ amount >= 0 /\ SpendAllowance(from, spender, amount)
    BY <2>1 DEF BurnFrom, Nonneg
  <2> QED
    BY <1>0, <2>1, <2>2, DrawInv
<1>5. ASSUME NEW auth \in Address,
             SignedMint(auth) \/ SignedSetAdmin(auth)
                \/ SignedTransfer(auth) \/ SignedBurn(auth)
      PROVE  UNCHANGED <<allowance, granted, drawn>>
  BY <1>5 DEF SignedMint, SignedSetAdmin, SignedTransfer, SignedBurn,
              Mint, SetAdmin, Transfer, Burn
<1>6. ASSUME LedgerStep, UNCHANGED <<granted, drawn>>
      PROVE  GrantInv'
  <2>1. CASE CloseLedger
    BY <1>2, <1>6, <2>1 DEF CloseLedger
  <2>2. ASSUME NEW owner \in Address, NEW spender \in Address,
               EvictAllowance(owner, spender)
        PROVE  GrantInv'
    BY <1>0, <1>6, <2>2, GrantInvEvict
  <2> QED
    BY <1>6, <2>1, <2>2 DEF LedgerStep
<1>7. GrantInv'
  <2>1. CASE UNCHANGED historyVars
    BY <1>2, <2>1 DEF historyVars, tokenVars
  <2>2. CASE LedgerStep /\ UNCHANGED <<granted, drawn>>
    BY <1>6, <2>2
  <2>3. ASSUME NEW auth \in Address, SignedApprove(auth)
        PROVE  GrantInv'
    BY <1>0, <2>3, GrantInvApprove
  <2> QED
    BY <1>2, <1>3, <1>4, <1>5, <2>1, <2>2, <2>3 DEF HistoryNext
<1>8. successor' = admin'
  <2>1. successor = admin
    BY DEF HistoryInv
  <2>2. ASSUME NEW auth \in Address, SignedSetAdmin(auth)
        PROVE  successor' = admin'
    BY <2>2 DEF SignedSetAdmin, SetAdmin
  <2>3. ASSUME NEW auth \in Address,
               SignedMint(auth) \/ SignedApprove(auth)
                  \/ SignedTransfer(auth) \/ SignedTransferFrom(auth)
                  \/ SignedBurn(auth) \/ SignedBurnFrom(auth)
        PROVE  UNCHANGED admin
    BY <2>3 DEF SignedMint, SignedApprove, SignedTransfer, SignedTransferFrom,
                SignedBurn, SignedBurnFrom, Mint, Approve, Transfer,
                TransferFrom, Burn, BurnFrom
  <2>4. LedgerStep \/ UNCHANGED historyVars => UNCHANGED admin
    BY DEF LedgerStep, CloseLedger, EvictAllowance, historyVars, tokenVars
  <2>5. UNCHANGED historyVars => UNCHANGED successor
    BY DEF historyVars
  <2> QED
    BY <2>1, <2>2, <2>3, <2>4, <2>5 DEF HistoryNext
<1> QED
  BY <1>1, <1>7, <1>8 DEF HistoryInv

(* The history invariant holds always.                                     *)
THEOREM HistoryInvariant == HistorySpec => []HistoryInv
  BY HistoryInitInv, HistoryStepInv, PTL DEF HistorySpec

(* Between two approvals of a pair the spender never draws more than was   *)
(* granted, however transfer_from, burn_from, expiry and eviction mix.     *)
THEOREM DrawsStayWithinGrants == HistorySpec => []DrawnWithinGrant
<1>1. HistoryInv => DrawnWithinGrant
  BY DEF HistoryInv, GrantInv
<1> QED
  BY <1>1, HistoryInvariant, PTL
-----------------------------------------------------------------------------
\* Debits and supply changes.

(* Minting lowers no balance.                                              *)
LEMMA MintDebitsNobody ==
    ASSUME TokenInv, NEW auth, NEW to \in Address, NEW amount \in I128,
           Mint(auth, to, amount), NEW a \in Address
    PROVE  ~(balance'[a] < balance[a])
<1> DEFINE v == balance[to] + amount
<1>1. balance \in [Address -> Int] /\ amount \in Int /\ amount >= 0
  BY BalanceFacts DEF TokenInv, Mint, Nonneg, I128
<1>2. v \in Int /\ v >= balance[to]
  BY <1>1
<1>3. balance' = [balance EXCEPT ![to] = v]
  BY DEF Mint
<1> HIDE DEF v
<1> QED
  BY <1>1, <1>2, <1>3

(* Burning lowers the one balance it names, by the amount.                 *)
LEMMA SpendDebitsHolder ==
    ASSUME TokenInv, NEW from \in Address, NEW amount \in I128,
           SpendBalance(from, amount), NEW a \in Address, balance'[a] < balance[a]
    PROVE  a = from /\ balance[a] - balance'[a] = amount
<1> DEFINE v == balance[from] - amount
<1>1. balance \in [Address -> Int] /\ MaxI128 \in Nat
  BY BalanceFacts DEF TokenInv
<1>2. amount \in Int /\ v \in Int
  BY <1>1 DEF I128
<1>3. balance' = [balance EXCEPT ![from] = v]
  BY DEF SpendBalance, Debited
<1> HIDE DEF v
<1>4. a = from /\ balance'[a] = v
  BY <1>1, <1>2, <1>3
<1> QED
  BY <1>1, <1>2, <1>4 DEF v

(* A debit that goes with a draw of the same amount is authorised.         *)
LEMMA DrawAuthorises ==
    ASSUME TokenTypeOK, NEW owner \in Address, NEW spender \in Address,
           NEW amount \in I128, SpendAllowance(owner, spender, amount),
           signer' = spender, balance[owner] - balance'[owner] = amount
    PROVE  DebitIsAuthorised(owner)
<1>1. amount \in Int
  BY TokenAssumption DEF I128
<1>2. /\ allowance[<<owner, spender>>].amount \in Nat
      /\ allowance'[<<owner, spender>>].amount
           = allowance[<<owner, spender>>].amount - amount
  BY DrawLowersAllowance
<1>3. amount = allowance[<<owner, spender>>].amount
                 - allowance'[<<owner, spender>>].amount
  BY <1>1, <1>2
<1> QED
  BY <1>3 DEF DebitIsAuthorised, SpendAllowance

(* Every step debits with the holder's consent only.                       *)
LEMMA StepDebitsAuthorised ==
    ASSUME TokenInv, [HistoryNext]_historyVars, NEW a \in Address,
           balance'[a] < balance[a]
    PROVE  DebitIsAuthorised(a)
<1> USE TokenAssumption
<1>0. TokenTypeOK /\ balance[a] \in Int
  BY BalanceFacts DEF TokenInv
<1>1. ASSUME UNCHANGED balance
      PROVE  FALSE
  BY <1>0, <1>1
<1>2. ASSUME NEW auth \in Address, signer' = auth, SignedTransfer(auth)
      PROVE  DebitIsAuthorised(a)
  <2>1. PICK from \in Address, to \in Address, amount \in Amounts :
           Transfer(auth, from, to, amount)
    BY <1>2 DEF SignedTransfer
  <2>2. amount \in I128 /\ amount >= 0 /\ MoveBalance(from, to, amount)
    BY <2>1 DEF Transfer, Nonneg
  <2>3. a = from
    BY <2>2, MoveDebitsSender
  <2> QED
    BY <1>2, <2>1, <2>3 DEF Transfer, DebitIsAuthorised
<1>3. ASSUME NEW auth \in Address, signer' = auth, SignedTransferFrom(auth)
      PROVE  DebitIsAuthorised(a)
  <2>1. PICK spender \in Address, from \in Address, to \in Address, amount \in Amounts :
           TransferFrom(auth, spender, from, to, amount)
    BY <1>3 DEF SignedTransferFrom
  <2>2. /\ amount \in I128 /\ amount >= 0 /\ signer' = spender
        /\ SpendAllowance(from, spender, amount)
        /\ MoveBalance(from, to, amount)
    BY <1>3, <2>1 DEF TransferFrom, Nonneg
  <2>3. a = from /\ balance[a] - balance'[a] = amount
    BY <2>2, MoveDebitsSender
  <2> QED
    BY <1>0, <2>2, <2>3, DrawAuthorises
<1>4. ASSUME NEW auth \in Address, signer' = auth, SignedBurn(auth)
      PROVE  DebitIsAuthorised(a)
  <2>1. PICK from \in Address, amount \in Amounts : Burn(auth, from, amount)
    BY <1>4 DEF SignedBurn
  <2>2. a = from
    BY <2>1, SpendDebitsHolder DEF Burn
  <2> QED
    BY <1>4, <2>1, <2>2 DEF Burn, DebitIsAuthorised
<1>5. ASSUME NEW auth \in Address, signer' = auth, SignedBurnFrom(auth)
      PROVE  DebitIsAuthorised(a)
  <2>1. PICK spender \in Address, from \in Address, amount \in Amounts :
           BurnFrom(auth, spender, from, amount)
    BY <1>5 DEF SignedBurnFrom
  <2>2. /\ amount \in I128 /\ signer' = spender
        /\ SpendAllowance(from, spender, amount)
        /\ SpendBalance(from, amount)
    BY <1>5, <2>1 DEF BurnFrom
  <2>3. a = from /\ balance[a] - balance'[a] = amount
    BY <2>2, SpendDebitsHolder
  <2> QED
    BY <1>0, <2>2, <2>3, DrawAuthorises
<1>6. ASSUME NEW auth \in Address, SignedMint(auth)
      PROVE  FALSE
  BY <1>6, MintDebitsNobody DEF SignedMint
<1>7. ASSUME NEW auth \in Address, SignedSetAdmin(auth) \/ SignedApprove(auth)
      PROVE  UNCHANGED balance
  BY <1>7 DEF SignedSetAdmin, SignedApprove, SetAdmin, Approve
<1>8. ASSUME LedgerStep
      PROVE  UNCHANGED balance
  BY <1>8 DEF LedgerStep, CloseLedger, EvictAllowance
<1>9. UNCHANGED historyVars => UNCHANGED balance
  BY DEF historyVars, tokenVars
<1> QED
  BY <1>1, <1>2, <1>3, <1>4, <1>5, <1>6, <1>7, <1>8, <1>9 DEF HistoryNext

(* Tokens leave an account only with its holder's signature or against an  *)
(* unexpired allowance that shrinks by the same amount.                    *)
THEOREM DebitsAlwaysAuthorised == HistorySpec => DebitsAuthorised
<1>1. HistoryInv /\ [HistoryNext]_historyVars
         => [\A a \in Address : balance'[a] < balance[a] => DebitIsAuthorised(a)
            ]_historyVars
  BY StepDebitsAuthorised DEF HistoryInv
<1> QED
  BY <1>1, HistoryInvariant, PTL DEF HistorySpec, DebitsAuthorised

(* Every step changes the supply as its owner may.                         *)
LEMMA StepSupplyOwned ==
    ASSUME TokenInv, successor = admin, [HistoryNext]_historyVars
    PROVE  SupplyChangeIsOwned
<1> USE TokenAssumption
<1>0. totalSupply \in Int
  BY DEF TokenInv, TokenTypeOK
<1>1. ASSUME UNCHANGED totalSupply
      PROVE  SupplyChangeIsOwned
  BY <1>0, <1>1 DEF SupplyChangeIsOwned
<1>2. ASSUME NEW auth \in Address, signer' = auth, SignedMint(auth)
      PROVE  SupplyChangeIsOwned
  <2>1. PICK to \in Address, amount \in Amounts : Mint(auth, to, amount)
    BY <1>2 DEF SignedMint
  <2>2. /\ signer' = successor /\ amount \in Nat
        /\ totalSupply' = totalSupply + amount
    BY <1>2, <2>1 DEF Mint, Nonneg, BumpSupply, I128
  <2> QED
    BY <1>0, <2>2 DEF SupplyChangeIsOwned
<1>3. ASSUME NEW from \in Address, NEW amount \in Amounts, Nonneg(amount),
             SpendBalance(from, amount), BumpSupply(-amount)
      PROVE  SupplyChangeIsOwned
  <2>1. amount \in Nat
    BY <1>3 DEF Nonneg, I128
  <2>2. totalSupply' = totalSupply - amount
    BY <1>0, <1>3, <2>1 DEF BumpSupply
  <2>3. amount = totalSupply - totalSupply' /\ ~(totalSupply' > totalSupply)
    BY <1>0, <2>1, <2>2
  <2>4. balance' = Debited(from, totalSupply - totalSupply')
    BY <1>3, <2>3 DEF SpendBalance
  <2> QED
    BY <2>3, <2>4 DEF SupplyChangeIsOwned
<1>4. ASSUME NEW auth \in Address, SignedBurn(auth) \/ SignedBurnFrom(auth)
      PROVE  SupplyChangeIsOwned
  BY <1>3, <1>4 DEF SignedBurn, SignedBurnFrom, Burn, BurnFrom
<1>5. ASSUME NEW auth \in Address,
             SignedSetAdmin(auth) \/ SignedApprove(auth)
                \/ SignedTransfer(auth) \/ SignedTransferFrom(auth)
      PROVE  UNCHANGED totalSupply
  BY <1>5 DEF SignedSetAdmin, SignedApprove, SignedTransfer, SignedTransferFrom,
              SetAdmin, Approve, Transfer, TransferFrom
<1>6. LedgerStep \/ UNCHANGED historyVars => UNCHANGED totalSupply
  BY DEF LedgerStep, CloseLedger, EvictAllowance, historyVars, tokenVars
<1> QED
  BY <1>1, <1>2, <1>4, <1>5, <1>6 DEF HistoryNext

(* Only whom the last set_admin has named adds to the supply, and the      *)
(* supply falls only by what one account gives up.                         *)
THEOREM SupplyChangesAlwaysOwned == HistorySpec => SupplyChangesAreOwned
<1>1. HistoryInv /\ [HistoryNext]_historyVars => [SupplyChangeIsOwned]_historyVars
  BY StepSupplyOwned DEF HistoryInv
<1> QED
  BY <1>1, HistoryInvariant, PTL DEF HistorySpec, SupplyChangesAreOwned

-----------------------------------------------------------------------------
\* The contracts together.

AuditInv ==
    /\ BillInv
    /\ external \in [Address -> Int]

-----------------------------------------------------------------------------

(* What a step of the audited registry is: one entry point with arguments  *)
(* of their types, a token call, or nothing.                               *)
LEMMA AuditCases ==
    ASSUME [AuditNext]_auditVars
    PROVE  \/ /\ external' = external
              /\ \E auth \in Address, creator \in Address,
                    payers \in PayerLists, share \in I128, memoLen \in Nat :
                    CreateBill(auth, creator, payers, share, memoLen)
           \/ /\ external' = external
              /\ \E auth \in Address, id \in Nat, payer \in Address :
                    Settle(auth, id, payer)
           \/ AuditedTokenCall
           \/ UNCHANGED auditVars
  BY BillAssumption DEF AuditNext, AuditedRegistryCall, RegistryCall

(* A step of the audited registry is a step of the registry.               *)
LEMMA AuditStepsAreBillSteps ==
    [AuditNext]_auditVars => [BillNext]_billVars
  BY DEF AuditNext, AuditedRegistryCall, AuditedTokenCall, BillNext, auditVars

(* The history variable starts at zero.                                    *)
LEMMA AuditInitInv == AuditInit => AuditInv
  BY BillInitInv DEF AuditInit, AuditInv

(* Every step keeps the history variable a number for each address.        *)
LEMMA AuditStepInv == AuditInv /\ [AuditNext]_auditVars => AuditInv'
<1> SUFFICES ASSUME AuditInv, [AuditNext]_auditVars
             PROVE  AuditInv'
  OBVIOUS
<1>1. BillInv'
  BY AuditStepsAreBillSteps, BillStepInv DEF AuditInv
<1>2. CASE external' = external
  BY <1>1, <1>2 DEF AuditInv
<1>3. CASE AuditedTokenCall
  <2>1. balance \in [Address -> Int] /\ balance' \in [Address -> Int]
    BY <1>1, BalanceFacts, TokenAssumption
       DEF AuditInv, BillInv, TokenInv, TokenTypeOK
  <2>2. external' = [a \in Address |-> external[a] + (balance'[a] - balance[a])]
    BY <1>3 DEF AuditedTokenCall
  <2> QED
    BY <1>1, <2>1, <2>2 DEF AuditInv
<1>4. CASE UNCHANGED auditVars
  BY <1>1, <1>4 DEF AuditInv, auditVars
<1> QED
  BY <1>2, <1>3, <1>4, AuditCases

(* Every reachable state of the audited registry has AuditInv.             *)
THEOREM AuditInvariant == AuditSpec => []AuditInv
  BY AuditInitInv, AuditStepInv, PTL DEF AuditSpec

-----------------------------------------------------------------------------
\* The chain that readers see.

(* The contracts begin with the empty chain.                               *)
LEMMA ChainInitMaps == AuditInit => Chain!ChainInit
<1> SUFFICES ASSUME AuditInit
             PROVE  Chain!ChainInit
  OBVIOUS
<1>1. billCount = 0 /\ settled = {}
  BY DEF AuditInit, BillInit
<1>2. RegistryTypeOK
  BY AuditInitInv DEF AuditInv, BillInv
<1>3. ChainOf(billCount, bills) \in Seq(Entry) /\ Len(ChainOf(billCount, bills)) = 0
  BY <1>1, <1>2, RegistryIsChain, ChainIsSeq
<1>4. ChainOf(billCount, bills) = <<>>
  BY <1>3, EmptySeq
<1> QED
  BY <1>1, <1>4 DEF ChainOf, Chain!ChainInit

(* Every step of the contracts is one of the chain or leaves it alone.     *)
LEMMA ChainStepMaps ==
    AuditInv /\ [AuditNext]_auditVars => [Chain!ChainNext]_Chain!chainVars
<1> SUFFICES ASSUME AuditInv, [AuditNext]_auditVars
             PROVE  [Chain!ChainNext]_Chain!chainVars
  OBVIOUS
<1>1. RegistryTypeOK
  BY DEF AuditInv, BillInv
<1>2. ASSUME NEW auth \in Address, NEW creator \in Address,
             NEW payers \in PayerLists, NEW share \in I128, NEW memoLen \in Nat,
             CreateBill(auth, creator, payers, share, memoLen)
      PROVE  Chain!AppendBill(creator, payers)
  <2>1. payers \in Seq(Address)
    BY BillAssumption
  <2>2. ChainOf(billCount', bills') =
          Append(ChainOf(billCount, bills),
                 [creator |-> creator, payers |-> payers])
    BY <1>1, <1>2, <2>1, CreateBillAppends
  <2>3. settled' = settled
    BY <1>2 DEF CreateBill
  <2> QED
    BY <2>2, <2>3 DEF ChainOf, Chain!AppendBill
<1>3. ASSUME NEW auth \in Address, NEW id \in Nat, NEW payer \in Address,
             Settle(auth, id, payer)
      PROVE  id \in 1 .. billCount /\ Chain!MarkSettled(id, payer)
  BY <1>1, <1>3, SettleMarks DEF ChainOf, Chain!Payers, Chain!MarkSettled
<1>4. CASE UNCHANGED registryVars
  BY <1>4 DEF registryVars, Chain!chainVars
<1>5. CASE AuditedTokenCall
  BY <1>4, <1>5 DEF AuditedTokenCall
<1>6. CASE UNCHANGED auditVars
  BY <1>4, <1>6 DEF auditVars, billVars
<1> QED
  BY <1>2, <1>3, <1>5, <1>6, AuditCases DEF Chain!ChainNext

(* What the page reads is an append-only list of bills and a set of marks  *)
(* that only grows: the contracts implement BillChain.                     *)
THEOREM ContractsImplementChain == AuditSpec => ImplementsChain
  BY ChainInitMaps, ChainStepMaps, AuditInvariant, PTL
     DEF AuditSpec, ImplementsChain, Chain!ChainSpec

-----------------------------------------------------------------------------
\* The book of debts.

Debts == {DebtOf(p) : p \in Liable}

Paid == {DebtOf(p) : p \in settled}

Position == [a \in Address |-> balance[a] - external[a]]

(* A liable pair is a listed payer of a stored bill, and its debt is one of *)
(* the book.                                                               *)
LEMMA LiableFacts ==
    ASSUME RegistryTypeOK, NEW p \in Liable
    PROVE  /\ p[1] \in 1 .. billCount
           /\ p[1] \in Nat
           /\ p[2] \in Address
           /\ p = <<p[1], p[2]>>
           /\ bills[p[1]] \in Bill
           /\ DebtOf(p) \in Book!Debt
<1>1. p \in (DOMAIN bills) \X Address /\ DOMAIN bills = 1 .. billCount
  BY DEF Liable, RegistryTypeOK
<1>2. p[1] \in 1 .. billCount /\ p[2] \in Address /\ p = <<p[1], p[2]>>
  BY <1>1
<1>3. billCount \in Nat
  BY RegistryIsChain
<1>4. bills[p[1]] \in Bill /\ bills[p[1]].share > 0
  BY <1>1, <1>2 DEF RegistryTypeOK
<1>5. bills[p[1]].share \in 1 .. MaxI128 /\ bills[p[1]].creator \in Address
  BY <1>4, TokenAssumption DEF Bill, I128
<1>6. p[1] \in Nat
  BY <1>2, <1>3
<1>7. DebtOf(p) \in Book!Debt
  BY <1>2, <1>5, <1>6 DEF DebtOf, Book!Debt
<1> QED
  BY <1>2, <1>4, <1>6, <1>7

(* A pair can be told from its debt.                                       *)
LEMMA DebtNamesPair ==
    ASSUME RegistryTypeOK, NEW p \in (DOMAIN bills) \X Address,
           NEW q \in (DOMAIN bills) \X Address, DebtOf(p) = DebtOf(q)
    PROVE  p = q
<1>1. p[1] = q[1] /\ p[2] = q[2]
  BY DEF DebtOf
<1> QED
  BY <1>1

(* create_bill enters the debts of one fresh bill.                         *)
LEMMA CreateBillOpens ==
    ASSUME AuditInv, NEW auth, NEW creator \in Address,
           NEW payers \in Seq(Address), NEW share \in I128, NEW memoLen,
           CreateBill(auth, creator, payers, share, memoLen),
           external' = external
    PROVE  Book!Open
<1> DEFINE id == billCount + 1
<1>1. RegistryTypeOK /\ RegistryTypeOK'
  BY CreateBillType DEF AuditInv, BillInv
<1>2. /\ DOMAIN bills' = DOMAIN bills \cup {id}
      /\ id \notin DOMAIN bills
      /\ bills'[id] = [creator |-> creator, payers |-> payers, share |-> share]
      /\ \A i \in DOMAIN bills : bills'[i] = bills[i]
  BY <1>1, CreateBillStores
<1>3. \A i \in DOMAIN bills : i < id
  BY <1>1, RegistryIsChain DEF RegistryTypeOK
<1>4. id \in Nat
  BY <1>1, RegistryIsChain
<1>5. settled' = settled /\ balance' = balance
  BY DEF CreateBill, tokenVars
<1> HIDE DEF id
<1>6. ASSUME NEW p \in (DOMAIN bills) \X Address
      PROVE  DebtOf(p)' = DebtOf(p) /\ (p \in Liable' <=> p \in Liable)
  BY <1>2 DEF DebtOf, Liable, IsPayer
<1>7. Paid' = Paid
  <2>1. settled \subseteq (DOMAIN bills) \X Address
    BY <1>1 DEF RegistryTypeOK
  <2> QED
    BY <1>5, <1>6, <2>1 DEF Paid
<1>8. Position' = Position
  BY <1>5 DEF Position
<1>9. Debts \subseteq Debts'
  <2>1. ASSUME NEW p \in Liable
        PROVE  p \in Liable' /\ DebtOf(p)' = DebtOf(p)
    BY <1>6 DEF Liable
  <2> QED
    BY <2>1 DEF Debts
<1>10. ASSUME NEW p \in Liable', p[1] # id
       PROVE  p \in Liable /\ DebtOf(p)' = DebtOf(p)
  <2>1. p \in (DOMAIN bills') \X Address
    BY DEF Liable
  <2>2. p \in (DOMAIN bills) \X Address
    BY <1>2, <1>10, <2>1
  <2> QED
    BY <1>6, <2>2
<1>11. ASSUME NEW d \in Debts' \ Debts
       PROVE  /\ d \in Book!Debt
              /\ d.bill = id /\ d.creditor = creator /\ d.amount = share
  <2>1. PICK p \in Liable' : d = DebtOf(p)'
    BY DEF Debts
  <2>2. p[1] = id
    BY <1>10, <2>1 DEF Debts
  <2>3. d = [bill |-> id, debtor |-> p[2], creditor |-> creator, amount |-> share]
    BY <1>2, <2>1, <2>2 DEF DebtOf
  <2>4. p[2] \in Address
    BY <2>1 DEF Liable
  <2>5. share \in 1 .. MaxI128
    BY TokenAssumption DEF CreateBill, ValidBill, I128
  <2> QED
    BY <1>4, <2>3, <2>4, <2>5 DEF Book!Debt
<1>12. \A e \in Debts : e.bill < id
  BY <1>1, <1>3 DEF Debts, DebtOf, Liable
<1>13. Debts' \ Debts # {}
  <2>1. 1 \in DOMAIN payers /\ payers[1] \in Address
    <3>1. payers # <<>>
      BY DEF CreateBill, ValidBill
    <3>2. Len(payers) \in Nat \ {0}
      BY <3>1, EmptySeq
    <3> QED
      BY <3>2, LenProperties, ElementOfSeq
  <2>2. PICK p \in Liable' : p[1] = id
    <3>1. <<id, payers[1]>> \in Liable'
      BY <1>2, <2>1 DEF Liable, IsPayer
    <3> QED
      BY <3>1
  <2>3. DebtOf(p)' \in Debts'
    BY <2>2 DEF Debts
  <2>4. DebtOf(p)'.bill = id
    BY <2>2 DEF DebtOf
  <2>5. DebtOf(p)' \notin Debts
    BY <1>4, <1>12, <2>4
  <2> QED
    BY <2>3, <2>5
<1>14. \A d \in Debts' \ Debts, e \in Debts : e.bill < d.bill
  BY <1>11, <1>12
<1>15. \A d, e \in Debts' \ Debts :
          d.bill = e.bill /\ d.creditor = e.creditor /\ d.amount = e.amount
  BY <1>11
<1> QED
  BY <1>7, <1>8, <1>9, <1>11, <1>13, <1>14, <1>15
     DEF Book!Open, Debts, Paid, Position

(* settle discharges the open debt of its payer.                           *)
LEMMA SettleDischarges ==
    ASSUME AuditInv, NEW auth, NEW id, NEW payer \in Address,
           Settle(auth, id, payer), external' = external
    PROVE  DebtOf(<<id, payer>>) \in Debts /\ Book!Discharge(DebtOf(<<id, payer>>))
<1> DEFINE d == DebtOf(<<id, payer>>)
           to == bills[id].creator
           share == bills[id].share
<1>1. RegistryTypeOK /\ TokenInv
  BY DEF AuditInv, BillInv
<1>2. id \in DOMAIN bills /\ IsPayer(id, payer)
      /\ <<id, payer>> \notin settled /\ settled' = settled \cup {<<id, payer>>}
      /\ bills' = bills
  BY DEF Settle, Unsettled
<1>3. <<id, payer>> \in Liable
  BY <1>2 DEF Liable
<1>4. d \in Debts
  BY <1>3 DEF Debts
<1>5. settled \subseteq (DOMAIN bills) \X Address
  BY <1>1 DEF RegistryTypeOK
<1>6. d \notin Paid
  <2> SUFFICES ASSUME NEW q \in settled, d = DebtOf(q)
               PROVE  FALSE
    BY DEF Paid
  <2>1. <<id, payer>> = q
    BY <1>1, <1>2, <1>5, DebtNamesPair
  <2> QED
    BY <1>2, <2>1
<1>7. \A p : DebtOf(p)' = DebtOf(p)
  BY <1>2 DEF DebtOf
<1>8. Paid' = Paid \cup {d}
  BY <1>2, <1>7 DEF Paid
<1>9. Debts' = Debts
  <2>1. Liable' = Liable
    BY <1>2 DEF Liable, IsPayer
  <2> QED
    BY <1>7, <2>1 DEF Debts
<1>10. d.debtor = payer /\ d.creditor = to /\ d.amount = share
  BY DEF DebtOf
<1>11. to \in Address /\ share \in I128 /\ share \in Int
       /\ Transfer(auth, payer, to, share)
  <2>1. to \in Address /\ share \in I128 /\ Transfer(auth, payer, to, share)
    BY <1>1, SettleTransfers
  <2> QED
    BY <2>1, TokenAssumption DEF I128
<1>12. balance \in [Address -> Int] /\ external \in [Address -> Int]
  BY <1>1, BalanceFacts DEF AuditInv, TokenInv
<1> HIDE DEF d, to, share
<1>13. balance' = [[balance EXCEPT ![payer] = @ - share] EXCEPT ![to] = @ + share]
  BY <1>11 DEF Transfer, MoveBalance, Debited
<1> DEFINE debited == [Position EXCEPT ![payer] = @ - share]
<1>14. Position' = [debited EXCEPT ![to] = @ + share]
  <2>1. ASSUME NEW a \in Address
        PROVE  Position'[a] = [debited EXCEPT ![to] = @ + share][a]
    <3>1. Position'[a] = balance'[a] - external[a]
      BY DEF Position
    <3>2. balance[a] \in Int /\ external[a] \in Int /\ share \in Int
      BY <1>11, <1>12
    <3>3. CASE a = to /\ a = payer
      BY <1>12, <1>13, <3>1, <3>2, <3>3 DEF Position
    <3>4. CASE a = to /\ a # payer
      BY <1>12, <1>13, <3>1, <3>2, <3>4 DEF Position
    <3>5. CASE a # to /\ a = payer
      BY <1>12, <1>13, <3>1, <3>2, <3>5 DEF Position
    <3>6. CASE a # to /\ a # payer
      BY <1>12, <1>13, <3>1, <3>2, <3>6 DEF Position
    <3> QED
      BY <3>3, <3>4, <3>5, <3>6
  <2> QED
    BY <2>1 DEF Position
<1>15. Book!Discharge(d)
  BY <1>4, <1>6, <1>8, <1>9, <1>10, <1>14
     DEF Book!Discharge, Debts, Paid, Position
<1> QED
  BY <1>4, <1>15 DEF d

(* A direct call of the token leaves the book alone.                       *)
LEMMA TokenCallLeavesBook ==
    ASSUME AuditInv, AuditInv', AuditedTokenCall
    PROVE  UNCHANGED <<Debts, Paid, Position>>
<1>1. bills' = bills /\ settled' = settled
  BY DEF AuditedTokenCall, registryVars
<1>2. /\ balance \in [Address -> Int]
      /\ balance' \in [Address -> Int]
      /\ external \in [Address -> Int]
  BY TokenAssumption DEF AuditInv, BillInv, TokenInv, TokenTypeOK
<1>3. external' = [a \in Address |-> external[a] + (balance'[a] - balance[a])]
  BY DEF AuditedTokenCall
<1>4. \A a \in Address : balance'[a] - external'[a] = balance[a] - external[a]
  BY <1>2, <1>3
<1>5. Position' = Position
  BY <1>4 DEF Position
<1> QED
  BY <1>1, <1>5 DEF Debts, Paid, Liable, IsPayer, DebtOf

(* The contracts begin with an empty book.                                 *)
LEMMA BookInitMaps == AuditInit => Book!BookInit
<1> SUFFICES ASSUME AuditInit
             PROVE  Book!BookInit
  OBVIOUS
<1>1. Liable = {} /\ settled = {}
  BY DEF AuditInit, BillInit, Liable
<1>2. Position = [a \in Address |-> 0]
  BY DEF AuditInit, BillInit, TokenInit, Position
<1> QED
  BY <1>1, <1>2 DEF Position, Book!BookInit

(* Every step of the contracts is one of the book or leaves it alone.      *)
LEMMA BookStepMaps ==
    AuditInv /\ [AuditNext]_auditVars => [Book!BookNext]_Book!bookVars
<1> SUFFICES ASSUME AuditInv, [AuditNext]_auditVars
             PROVE  [Book!BookNext]_Book!bookVars
  OBVIOUS
<1>1. ASSUME NEW auth \in Address, NEW creator \in Address,
             NEW payers \in PayerLists, NEW share \in I128, NEW memoLen \in Nat,
             CreateBill(auth, creator, payers, share, memoLen),
             external' = external
      PROVE  Book!Open
  BY <1>1, CreateBillOpens, BillAssumption
<1>2. ASSUME NEW auth \in Address, NEW id \in Nat, NEW payer \in Address,
             Settle(auth, id, payer), external' = external
      PROVE  \E d \in Debts : Book!Discharge(d)
  <2>1. /\ DebtOf(<<id, payer>>) \in Debts
        /\ Book!Discharge(DebtOf(<<id, payer>>))
    BY <1>2, SettleDischarges
  <2> QED
    BY <2>1 DEF Book!Discharge
<1>3. CASE AuditedTokenCall
  <2>1. AuditInv'
    BY AuditStepInv
  <2>2. UNCHANGED <<Debts, Paid, Position>>
    BY <1>3, <2>1, TokenCallLeavesBook
  <2> QED
    BY <2>2 DEF Book!bookVars, Debts, Paid, Position
<1>4. CASE UNCHANGED auditVars
  BY <1>4 DEF auditVars, billVars, tokenVars, registryVars, Book!bookVars,
     Liable, IsPayer, DebtOf
<1> QED
  BY <1>1, <1>2, <1>3, <1>4, AuditCases DEF Book!BookNext, Debts

(* Whatever calls interleave, settling is discharging debts one by one,    *)
(* each of them once and in its amount: the contracts implement            *)
(* Obligations.                                                            *)
THEOREM ContractsImplementBook == AuditSpec => ImplementsBook
  BY BookInitMaps, BookStepMaps, AuditInvariant, PTL
     DEF AuditSpec, ImplementsBook, Book!BookSpec

BookProofs == INSTANCE ObligationsProofs WITH
    Party    <- Address,
    Limit    <- MaxI128,
    debts    <- {DebtOf(p) : p \in Liable},
    paid     <- {DebtOf(p) : p \in settled},
    position <- [a \in Address |-> balance[a] - external[a]]

(* Balances tell exactly who settled what: it is so in the book, and the   *)
(* contracts implement the book.                                           *)
THEOREM BooksAlwaysBalance == AuditSpec => []SettlementBooksBalance
<1>1. BookProofs!BookInit => BookProofs!BookInv
  BY BookProofs!BookInitInv
<1>2. BookProofs!BookInv /\ [BookProofs!BookNext]_(BookProofs!bookVars)
        => BookProofs!BookInv'
  BY BookProofs!BookStepInv
<1>3. Book!BookInit => BookProofs!BookInit
  BY DEF Book!BookInit, BookProofs!BookInit
<1>4. [Book!BookNext]_(Book!bookVars) => [BookProofs!BookNext]_(BookProofs!bookVars)
  BY DEF Book!BookNext, BookProofs!BookNext, Book!bookVars, BookProofs!bookVars,
     Book!Open, BookProofs!Open, Book!Discharge, BookProofs!Discharge,
     Book!Debt, BookProofs!Debt
<1>5. \A f : BookProofs!SumFunction(f) = Book!SumFunction(f)
  BY Zenon
     DEF BookProofs!SumFunction, BookProofs!SumFunctionOnSet,
         BookProofs!FoldFunctionOnSet, BookProofs!MapThenFoldSet,
         Book!SumFunction, Book!SumFunctionOnSet,
         Book!FoldFunctionOnSet, Book!MapThenFoldSet
<1>6. BookProofs!BookInv => SettlementBooksBalance
  BY <1>5 DEF BookProofs!BookInv, BookProofs!PositionIsBooks, BookProofs!Gain,
     SettlementBooksBalance, Book!PositionIsBooks, Book!Gain
<1> QED
  BY <1>1, <1>2, <1>3, <1>4, <1>6, ContractsImplementBook, PTL
     DEF ImplementsBook, Book!BookSpec
=============================================================================
