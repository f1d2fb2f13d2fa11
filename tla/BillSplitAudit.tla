--------------------------- MODULE BillSplitAudit ---------------------------
(***************************************************************************)
(* BillSplit with one history variable: what the token calls made past the *)
(* registry have brought each address.  A balance less that part is what   *)
(* settling has brought it, which is the position that Obligations keeps.  *)
(***************************************************************************)
EXTENDS BillSplit

VARIABLE external

auditVars == <<billVars, external>>

AuditInit ==
    /\ BillInit
    /\ external = [a \in Address |-> 0]

\* create_bill and settle
AuditedRegistryCall ==
    /\ \E auth \in Address : RegistryCall(auth)
    /\ UNCHANGED external

\* the token, called directly
AuditedTokenCall ==
    /\ TokenNext
    /\ UNCHANGED registryVars
    /\ external' = [a \in Address |-> external[a] + (balance'[a] - balance[a])]

AuditNext == AuditedRegistryCall \/ AuditedTokenCall

AuditSpec == AuditInit /\ [][AuditNext]_auditVars

-----------------------------------------------------------------------------

\* The pairs a bill makes liable; a payer listed twice is one pair.
Liable == {p \in (DOMAIN bills) \X Address : IsPayer(p[1], p[2])}

DebtOf(p) == [bill |-> p[1], debtor |-> p[2],
              creditor |-> bills[p[1]].creator, amount |-> bills[p[1]].share]

Book == INSTANCE Obligations WITH
    Party    <- Address,
    Limit    <- MaxI128,
    debts    <- {DebtOf(p) : p \in Liable},
    paid     <- {DebtOf(p) : p \in settled},
    position <- [a \in Address |-> balance[a] - external[a]]

(* The contracts keep the promise of the book of debts: create_bill opens  *)
(* the debts of one fresh bill, settle discharges one open debt and moves  *)
(* its amount, and no token call is either.                                *)
ImplementsBook == Book!BookSpec

Chain == INSTANCE BillChain WITH
    chainBills   <- [id \in 1 .. billCount |->
                        [creator |-> bills[id].creator,
                         payers |-> bills[id].payers]],
    chainSettled <- settled

(* Readers may rely on BillChain: bills are appended in id order, and what *)
(* is marked is marked once, for a listed payer and for good.              *)
ImplementsChain == Chain!ChainSpec

(* Balances tell exactly who settled what: apart from tokens moved past    *)
(* the registry, an address has gained the shares settled on bills it      *)
(* created and lost the shares it settled, a creator who is also a payer   *)
(* and a payer listed twice included.                                      *)
SettlementBooksBalance == Book!PositionIsBooks
=============================================================================
