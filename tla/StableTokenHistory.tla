------------------------- MODULE StableTokenHistory -------------------------
(***************************************************************************)
(* StableToken with history variables: who signed the last transaction,    *)
(* whom set_admin has last named, what an owner last granted to a spender, *)
(* and what the spender has drawn since.  They restrict nothing; they let  *)
(* the properties speak of who moved whose money.                          *)
(***************************************************************************)
EXTENDS StableToken

CONSTANT Nobody     \* the signer of a step that is no contract call

ASSUME NobodyAssumption == Nobody \notin Address

VARIABLES
    signer,     \* who signed the last step
    successor,  \* who was last made admin, as the calls say
    granted,    \* amount of the last approve of the pair
    drawn       \* what its spender took since then

historyVars == <<tokenVars, signer, successor, granted, drawn>>

Pairs == Address \X Address

HistoryInit ==
    /\ TokenInit
    /\ signer = Nobody
    /\ successor = admin
    /\ granted = [p \in Pairs |-> 0]
    /\ drawn = [p \in Pairs |-> 0]

SignedMint(auth) ==
    \E to \in Address, amount \in Amounts :
        /\ Mint(auth, to, amount)
        /\ UNCHANGED <<granted, drawn>>

SignedSetAdmin(auth) ==
    \E newAdmin \in Address :
        /\ SetAdmin(auth, newAdmin)
        /\ successor' = newAdmin
        /\ UNCHANGED <<granted, drawn>>

SignedApprove(auth) ==
    \E p \in Approvals, amount \in Amounts, expiration \in Expirations :
        /\ Approve(auth, p[1], p[2], amount, expiration)
        /\ granted' = [granted EXCEPT ![p] = amount]
        /\ drawn' = [drawn EXCEPT ![p] = 0]

SignedTransfer(auth) ==
    \E from, to \in Address, amount \in Amounts :
        /\ Transfer(auth, from, to, amount)
        /\ UNCHANGED <<granted, drawn>>

SignedTransferFrom(auth) ==
    \E spender, from, to \in Address, amount \in Amounts :
        /\ TransferFrom(auth, spender, from, to, amount)
        /\ drawn' = [drawn EXCEPT ![<<from, spender>>] = @ + amount]
        /\ UNCHANGED granted

SignedBurn(auth) ==
    \E from \in Address, amount \in Amounts :
        /\ Burn(auth, from, amount)
        /\ UNCHANGED <<granted, drawn>>

SignedBurnFrom(auth) ==
    \E spender, from \in Address, amount \in Amounts :
        /\ BurnFrom(auth, spender, from, amount)
        /\ drawn' = [drawn EXCEPT ![<<from, spender>>] = @ + amount]
        /\ UNCHANGED granted

HistoryNext ==
    \/ \E auth \in Address :
          /\ signer' = auth
          /\ \/ SignedSetAdmin(auth)
             \/ /\ \/ SignedMint(auth)
                   \/ SignedApprove(auth)
                   \/ SignedTransfer(auth)
                   \/ SignedTransferFrom(auth)
                   \/ SignedBurn(auth)
                   \/ SignedBurnFrom(auth)
                /\ UNCHANGED successor
    \/ LedgerStep /\ signer' = Nobody /\ UNCHANGED <<successor, granted, drawn>>

HistorySpec == HistoryInit /\ [][HistoryNext]_historyVars

-----------------------------------------------------------------------------

DebitIsAuthorised(a) ==
    \/ signer' = a
    \/ /\ signer' \in Address
       /\ allowance[<<a, signer'>>].expiration >= ledgerSeq
       /\ balance[a] - balance'[a]
            = allowance[<<a, signer'>>].amount - allowance'[<<a, signer'>>].amount

(* Nobody loses tokens without having agreed to it: when a balance falls,  *)
(* its holder signed, or the signer holds an unexpired allowance from the  *)
(* holder and that allowance shrinks by exactly the same amount.           *)
DebitsAuthorised ==
    [][\A a \in Address : balance'[a] < balance[a] => DebitIsAuthorised(a)
      ]_historyVars

(* Between two approvals of a pair the spender draws no more than was      *)
(* granted, through transfer_from and burn_from together, and what is left *)
(* is exactly what was not drawn unless the host dropped the entry.        *)
DrawnWithinGrant ==
    \A p \in Pairs :
        /\ drawn[p] <= granted[p]
        /\ allowance[p] # NoAllowance =>
              drawn[p] + allowance[p].amount = granted[p]

SupplyChangeIsOwned ==
    /\ totalSupply' > totalSupply => signer' = successor
    /\ totalSupply' < totalSupply =>
          \E a \in Address : balance' = Debited(a, totalSupply - totalSupply')

(* Only whom the last set_admin has named makes new tokens, the admin of   *)
(* the constructor before there is one: whoever has handed over cannot     *)
(* mint any more, and the supply never grows in any other way; it only     *)
(* shrinks by what a single account loses.                                 *)
SupplyChangesAreOwned == [][SupplyChangeIsOwned]_historyVars
=============================================================================
