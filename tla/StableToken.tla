---------------------------- MODULE StableToken ----------------------------
(***************************************************************************)
(* The settlement token, contracts/stable-token/src/lib.rs: balances,      *)
(* total supply, allowances and the admin, over the ledger sequence that   *)
(* allowances expire by.                                                   *)
(*                                                                         *)
(* A contract call is one transaction.  A panic, a failed require_auth or  *)
(* an arithmetic overflow (Cargo.toml sets overflow-checks) rolls the      *)
(* whole transaction back, so every such outcome is a call that is not     *)
(* enabled here.  `auth` is the address whose signature the transaction    *)
(* carries; each entry point requires exactly one.                         *)
(*                                                                         *)
(* Left out: token metadata, the token's own events (nothing reads them)   *)
(* and the mux id of a MuxedAddress, which transfer drops at once.         *)
(***************************************************************************)
EXTENDS Integers, FiniteSets, Functions

CONSTANTS
    Address,        \* accounts and contracts that can hold tokens
    Amounts,        \* i128 amounts callers pass, negative ones included
    Expirations,    \* u32 expiration ledgers callers pass to approve
    Approvals,      \* bound: the <<owner, spender>> pairs that get approved
    MaxI128,        \* largest i128
    MaxLedger       \* bound: last ledger sequence

I128 == -(MaxI128 + 1) .. MaxI128

ASSUME TokenAssumption ==
    /\ IsFiniteSet(Address)
    /\ MaxI128 \in Nat
    /\ MaxLedger \in Nat
    /\ Amounts \subseteq I128
    /\ Expirations \subseteq Nat
    /\ Approvals \subseteq Address \X Address

VARIABLES
    admin,          \* DataKey::Admin
    totalSupply,    \* DataKey::TotalSupply
    balance,        \* DataKey::Balance(a), 0 when absent
    allowance,      \* DataKey::Allowance(owner, spender), NoAllowance when absent
    ledgerSeq       \* env.ledger().sequence()

tokenVars == <<admin, totalSupply, balance, allowance, ledgerSeq>>

AllowanceData == [amount : I128, expiration : Nat]

\* check_nonneg
Nonneg(amount) == amount >= 0

\* What reading an absent entry yields.
NoAllowance == [amount |-> 0, expiration |-> 0]

-----------------------------------------------------------------------------

\* Mutant of BumpSupply: saturates instead of overflowing.
BumpSupplySaturating(delta) ==
    totalSupply' = IF totalSupply + delta > MaxI128 THEN MaxI128
                                                    ELSE totalSupply + delta

BumpSupply(delta) ==
    /\ totalSupply + delta \in I128
    /\ totalSupply' = totalSupply + delta

Debited(from, amount) == [balance EXCEPT ![from] = @ - amount]

\* Mutant of SpendBalance: does not look at the balance.
SpendBalanceUnchecked(from, amount) == balance' = Debited(from, amount)

SpendBalance(from, amount) ==
    /\ balance[from] >= amount
    /\ balance' = Debited(from, amount)

\* Mutant of MoveBalance: reads both balances before it writes either.
MoveBalanceStale(from, to, amount) ==
    /\ balance[from] >= amount
    /\ balance[to] + amount \in I128
    /\ balance' = [Debited(from, amount) EXCEPT ![to] = balance[to] + amount]

\* The recipient's balance is read after the sender's was written: the two
\* are the same entry when an account pays itself.
MoveBalance(from, to, amount) ==
    LET debited == Debited(from, amount) IN
    /\ balance[from] >= amount
    /\ debited[to] + amount \in I128
    /\ balance' = [debited EXCEPT ![to] = @ + amount]

\* Mutant of SpendAllowance: does not look at the expiration.
SpendAllowanceExpired(owner, spender, amount) ==
    /\ allowance[<<owner, spender>>].amount >= amount
    /\ allowance' = [allowance EXCEPT ![<<owner, spender>>].amount = @ - amount]

\* Mutant of SpendAllowance: checks the allowance and forgets to lower it.
SpendAllowanceKept(owner, spender, amount) ==
    /\ allowance[<<owner, spender>>].expiration >= ledgerSeq
    /\ allowance[<<owner, spender>>].amount >= amount
    /\ UNCHANGED allowance

SpendAllowance(owner, spender, amount) ==
    /\ allowance[<<owner, spender>>].expiration >= ledgerSeq
    /\ allowance[<<owner, spender>>].amount >= amount
    /\ allowance' = [allowance EXCEPT ![<<owner, spender>>].amount = @ - amount]

\* Mutant of AllowanceView: an allowance is gone in its last ledger.
AllowanceViewEarly(owner, spender) ==
    IF allowance[<<owner, spender>>].expiration > ledgerSeq
    THEN allowance[<<owner, spender>>].amount
    ELSE 0

\* The view other programs read: an expired allowance shows as zero.
AllowanceView(owner, spender) ==
    IF allowance[<<owner, spender>>].expiration >= ledgerSeq
    THEN allowance[<<owner, spender>>].amount
    ELSE 0

-----------------------------------------------------------------------------

TokenInit ==
    /\ admin \in Address
    /\ totalSupply = 0
    /\ balance = [a \in Address |-> 0]
    /\ allowance = [p \in Address \X Address |-> NoAllowance]
    /\ ledgerSeq = 1

Mint(auth, to, amount) ==
    /\ Nonneg(amount)
    /\ auth = admin
    /\ balance[to] + amount \in I128
    /\ balance' = [balance EXCEPT ![to] = @ + amount]
    /\ BumpSupply(amount)
    /\ UNCHANGED <<admin, allowance, ledgerSeq>>

\* Mutant of SetAdmin: the rights stay where they are.
SetAdminKept(auth, newAdmin) ==
    /\ auth = admin
    /\ UNCHANGED <<admin, totalSupply, balance, allowance, ledgerSeq>>

SetAdmin(auth, newAdmin) ==
    /\ auth = admin
    /\ admin' = newAdmin
    /\ UNCHANGED <<totalSupply, balance, allowance, ledgerSeq>>

\* The expiration is stored as it comes, one already past included.
Approve(auth, owner, spender, amount, expiration) ==
    /\ auth = owner
    /\ Nonneg(amount)
    /\ allowance' = [allowance EXCEPT ![<<owner, spender>>] =
                        [amount |-> amount, expiration |-> expiration]]
    /\ UNCHANGED <<admin, totalSupply, balance, ledgerSeq>>

Transfer(auth, from, to, amount) ==
    /\ auth = from
    /\ Nonneg(amount)
    /\ MoveBalance(from, to, amount)
    /\ UNCHANGED <<admin, totalSupply, allowance, ledgerSeq>>

TransferFrom(auth, spender, from, to, amount) ==
    /\ auth = spender
    /\ Nonneg(amount)
    /\ SpendAllowance(from, spender, amount)
    /\ MoveBalance(from, to, amount)
    /\ UNCHANGED <<admin, totalSupply, ledgerSeq>>

Burn(auth, from, amount) ==
    /\ auth = from
    /\ Nonneg(amount)
    /\ SpendBalance(from, amount)
    /\ BumpSupply(-amount)
    /\ UNCHANGED <<admin, allowance, ledgerSeq>>

BurnFrom(auth, spender, from, amount) ==
    /\ auth = spender
    /\ Nonneg(amount)
    /\ SpendAllowance(from, spender, amount)
    /\ SpendBalance(from, amount)
    /\ BumpSupply(-amount)
    /\ UNCHANGED <<admin, ledgerSeq>>

-----------------------------------------------------------------------------
\* The host the contract runs on.

CloseLedger ==
    /\ ledgerSeq < MaxLedger
    /\ ledgerSeq' = ledgerSeq + 1
    /\ UNCHANGED <<admin, totalSupply, balance, allowance>>

\* approve writes a temporary entry and nothing ever extends its lifetime:
\* the host may drop it, also before the expiration it carries.
EvictAllowance(owner, spender) ==
    /\ allowance[<<owner, spender>>] # NoAllowance
    /\ allowance' = [allowance EXCEPT ![<<owner, spender>>] = NoAllowance]
    /\ UNCHANGED <<admin, totalSupply, balance, ledgerSeq>>

-----------------------------------------------------------------------------

TokenCall(auth) ==
    \/ \E to \in Address, amount \in Amounts : Mint(auth, to, amount)
    \/ \E newAdmin \in Address : SetAdmin(auth, newAdmin)
    \/ \E p \in Approvals, amount \in Amounts, expiration \in Expirations :
          Approve(auth, p[1], p[2], amount, expiration)
    \/ \E from, to \in Address, amount \in Amounts :
          Transfer(auth, from, to, amount)
    \/ \E spender, from, to \in Address, amount \in Amounts :
          TransferFrom(auth, spender, from, to, amount)
    \/ \E from \in Address, amount \in Amounts : Burn(auth, from, amount)
    \/ \E spender, from \in Address, amount \in Amounts :
          BurnFrom(auth, spender, from, amount)

LedgerStep ==
    \/ CloseLedger
    \/ \E owner, spender \in Address : EvictAllowance(owner, spender)

TokenNext == (\E auth \in Address : TokenCall(auth)) \/ LedgerStep

TokenSpec == TokenInit /\ [][TokenNext]_tokenVars

-----------------------------------------------------------------------------

(* Every stored number stays in its width, and no balance, allowance or    *)
(* supply is ever negative although amounts are signed (check_nonneg, the  *)
(* comparisons in spend_balance and spend_allowance, overflow-checks).     *)
TokenTypeOK ==
    /\ admin \in Address
    /\ totalSupply \in 0 .. MaxI128
    /\ balance \in [Address -> 0 .. MaxI128]
    /\ allowance \in [Address \X Address ->
                        [amount : 0 .. MaxI128, expiration : Nat]]
    /\ ledgerSeq \in Nat

(* The supply counter is the sum of all balances: mint, burn and burn_from *)
(* keep the two entries in step, and a transfer, one to oneself included,  *)
(* neither makes nor loses a unit.                                         *)
SupplyIsSum == totalSupply = SumFunction(balance)

(* A transfer that passes its balance check cannot overflow the            *)
(* recipient's balance: the addition in `read_balance(to) + amount`        *)
(* of transfer and transfer_from never panics.                             *)
CreditsNeverOverflow ==
    \A from, to \in Address : \A amount \in 0 .. balance[from] :
        Debited(from, amount)[to] + amount \in I128

(* The allowance view tells the truth: a spender can draw a positive       *)
(* amount exactly when the view shows at least that much, also in the very *)
(* ledger the allowance expires in.                                        *)
AllowanceViewIsSpendable ==
    \A owner, spender \in Address : \A amount \in 1 .. MaxI128 :
        ENABLED SpendAllowance(owner, spender, amount)
            <=> AllowanceView(owner, spender) >= amount
=============================================================================
