------------------------------ MODULE BillChain ------------------------------
(***************************************************************************)
(* What a reader of the bill registry may rely on, and all that the page   *)
(* reads: bills are numbered from 1 and only ever appended, a pair of a    *)
(* bill and one of its payers is marked as settled at most once and for    *)
(* good.  The contracts keep to it (BillSplitAudit), and whatever the page *)
(* itself does to them (SplitClientProofs).                                *)
(***************************************************************************)
EXTENDS Integers, Sequences

CONSTANTS
    Address,
    PayerLists      \* payer vectors of bills

VARIABLES
    chainBills,     \* the bills in id order: creator and payers
    chainSettled    \* the settled pairs

chainVars == <<chainBills, chainSettled>>

Payers(id) ==
    {chainBills[id].payers[k] : k \in DOMAIN chainBills[id].payers}

ChainInit == chainBills = <<>> /\ chainSettled = {}

AppendBill(creator, payers) ==
    /\ chainBills' = Append(chainBills, [creator |-> creator, payers |-> payers])
    /\ UNCHANGED chainSettled

MarkSettled(id, payer) ==
    /\ id \in DOMAIN chainBills
    /\ payer \in Payers(id)
    /\ <<id, payer>> \notin chainSettled
    /\ chainSettled' = chainSettled \cup {<<id, payer>>}
    /\ UNCHANGED chainBills

ChainNext ==
    \/ \E creator \in Address, payers \in PayerLists : AppendBill(creator, payers)
    \/ \E id \in DOMAIN chainBills, payer \in Address : MarkSettled(id, payer)

ChainSpec == ChainInit /\ [][ChainNext]_chainVars
=============================================================================
