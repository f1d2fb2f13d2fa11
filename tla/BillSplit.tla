----------------------------- MODULE BillSplit -----------------------------
(***************************************************************************)
(* The bill registry, contracts/bill-split/src/lib.rs, together with the   *)
(* token contract that settle calls into.  A bill names a creator, a list  *)
(* of payers and one share; settle moves a payer's share to the creator by *)
(* an inter-contract transfer and marks the (bill, payer) pair, all in one *)
(* transaction.                                                            *)
(*                                                                         *)
(* The token is bound at construction; here it is the repository's own     *)
(* StableToken, whose direct calls interleave with the registry's.  As in  *)
(* StableToken, a call that panics rolls back and is not enabled.          *)
(*                                                                         *)
(* Of a memo only its length is kept (create_bill checks nothing else) and *)
(* the timestamp is left out (nothing reads it back to decide anything).   *)
(***************************************************************************)
EXTENDS StableToken, Sequences

CONSTANTS
    PayerLists,     \* payer vectors callers pass, empty and overlong included
    Shares,         \* i128 shares callers pass
    MemoLengths,    \* byte lengths of the memos callers pass
    MaxPayers,      \* MAX_PAYERS
    MaxMemoLen,     \* MAX_MEMO_LEN
    MaxU32          \* largest u32, the width of a bill id

ASSUME BillAssumption ==
    /\ PayerLists \subseteq Seq(Address)
    /\ Shares \subseteq I128
    /\ MemoLengths \subseteq Nat
    /\ MaxPayers \in Nat
    /\ MaxMemoLen \in Nat
    /\ MaxU32 \in Nat

VARIABLES
    billCount,      \* DataKey::BillCount
    bills,          \* DataKey::Bill(id), a function on the ids stored
    settled,        \* the pairs whose DataKey::Settled(id, payer) is true
    byCreator,      \* DataKey::BillsByCreator(a), empty when absent
    byPayer,        \* DataKey::BillsByPayer(a), empty when absent
    events          \* what both entry points published, in order

registryVars == <<billCount, bills, settled, byCreator, byPayer, events>>

billVars == <<tokenVars, registryVars>>

Bill == [creator : Address, payers : Seq(Address), share : I128]

Event == [topic : {"created", "settled"}, who : Address, id : Nat, share : I128]

Occurrences(payers, a) == Cardinality({k \in DOMAIN payers : payers[k] = a})

\* Mutant of IsPayer: the creator may settle too.
IsPayerOrCreator(id, a) ==
    \/ bills[id].creator = a
    \/ \E k \in DOMAIN bills[id].payers : bills[id].payers[k] = a

IsPayer(id, a) == \E k \in DOMAIN bills[id].payers : bills[id].payers[k] = a

-----------------------------------------------------------------------------

BillInit ==
    /\ TokenInit
    /\ billCount = 0
    /\ bills = [id \in {} |-> {}]
    /\ settled = {}
    /\ byCreator = [a \in Address |-> <<>>]
    /\ byPayer = [a \in Address |-> <<>>]
    /\ events = <<>>

\* Mutant of IndexPayers: files a bill once per address.
IndexPayersOnce(payers, id) ==
    [a \in Address |->
        byPayer[a] \o (IF Occurrences(payers, a) > 0 THEN <<id>> ELSE <<>>)]

\* The loop over the payers appends the id once per occurrence: a payer
\* listed twice gets it twice.
IndexPayers(payers, id) ==
    [a \in Address |->
        byPayer[a] \o [k \in 1 .. Occurrences(payers, a) |-> id]]

StoreBill(id, bill) ==
    [i \in DOMAIN bills \cup {id} |-> IF i = id THEN bill ELSE bills[i]]

Publish(topic, who, id, share) ==
    events' = Append(events,
                [topic |-> topic, who |-> who, id |-> id, share |-> share])

\* Mutant of NextId: wraps to the first id.
NextIdWrapped == (billCount % MaxU32) + 1

\* The id after the last one; beyond u32 the addition panics.
NextId == billCount + 1

\* Mutant of ValidBill: a free bill is a bill.
ValidBillOrFree(payers, share, memoLen) ==
    /\ share >= 0
    /\ payers # <<>>
    /\ Len(payers) <= MaxPayers
    /\ memoLen <= MaxMemoLen

ValidBill(payers, share, memoLen) ==
    /\ share > 0
    /\ payers # <<>>
    /\ Len(payers) <= MaxPayers
    /\ memoLen <= MaxMemoLen

CreateBill(auth, creator, payers, share, memoLen) ==
    /\ auth = creator
    /\ ValidBill(payers, share, memoLen)
    /\ NextId <= MaxU32
    /\ billCount' = NextId
    /\ bills' = StoreBill(NextId,
                    [creator |-> creator, payers |-> payers, share |-> share])
    /\ byCreator' = [byCreator EXCEPT ![creator] = Append(@, NextId)]
    /\ byPayer' = IndexPayers(payers, NextId)
    /\ Publish("created", creator, NextId, share)
    /\ UNCHANGED <<tokenVars, settled>>

\* Mutant of Unsettled: the mark is not looked at.
UnsettledIgnored(id, payer) == TRUE

\* Mutant of Unsettled: the first mark closes the whole bill.
UnsettledBill(id, payer) == \A p \in settled : p[1] # id

Unsettled(id, payer) == <<id, payer>> \notin settled

\* Mutant of Due: a payer listed twice pays twice.
DuePerListing(id, payer) ==
    bills[id].share * Occurrences(bills[id].payers, payer)

\* What settling moves, whatever the number of times the payer is listed.
Due(id, payer) == bills[id].share

\* Mutant of PublishSettled: the event names the creator.
PublishSettledOfCreator(id, payer) ==
    Publish("settled", bills[id].creator, id, bills[id].share)

PublishSettled(id, payer) == Publish("settled", payer, id, bills[id].share)

Settle(auth, id, payer) ==
    /\ auth = payer
    /\ id \in DOMAIN bills
    /\ IsPayer(id, payer)
    /\ Unsettled(id, payer)
    /\ Transfer(auth, payer, bills[id].creator, Due(id, payer))
    /\ settled' = settled \cup {<<id, payer>>}
    /\ PublishSettled(id, payer)
    /\ UNCHANGED <<billCount, bills, byCreator, byPayer>>

-----------------------------------------------------------------------------

RegistryCall(auth) ==
    \/ \E creator \in Address, payers \in PayerLists,
          share \in Shares, memoLen \in MemoLengths :
          CreateBill(auth, creator, payers, share, memoLen)
    \/ \E id \in 0 .. MaxU32, payer \in Address : Settle(auth, id, payer)

BillNext ==
    \/ \E auth \in Address : RegistryCall(auth)
    \/ TokenNext /\ UNCHANGED registryVars

BillSpec == BillInit /\ [][BillNext]_billVars

-----------------------------------------------------------------------------

(* What the registry stores has the shape the entry points promise: ids    *)
(* run from 1 without a gap, a bill has a positive share and between 1 and *)
(* MaxPayers payers, and only listed payers are ever marked as settled.    *)
RegistryTypeOK ==
    /\ billCount \in 0 .. MaxU32
    /\ DOMAIN bills = 1 .. billCount
    /\ \A id \in DOMAIN bills :
          /\ bills[id] \in Bill
          /\ bills[id].share > 0
          /\ Len(bills[id].payers) \in 1 .. MaxPayers
    /\ settled \subseteq (DOMAIN bills) \X Address
    /\ \A p \in settled : IsPayer(p[1], p[2])
    /\ byCreator \in [Address -> Seq(DOMAIN bills)]
    /\ byPayer \in [Address -> Seq(DOMAIN bills)]
    /\ events \in Seq(Event)

BillTypeOK == TokenTypeOK /\ RegistryTypeOK

(* A bill, once created, is what its payers settle for ever: no later call *)
(* rewrites or removes it (an id is never used twice, not even when the    *)
(* u32 counter runs out), and no settled mark is ever taken back.          *)
BillsNeverRewritten ==
    [][ /\ \A id \in DOMAIN bills :
              id \in DOMAIN bills' /\ bills'[id] = bills[id]
        /\ settled \subseteq settled' ]_billVars

(* The entries by creator and by payer, which the views of both read,      *)
(* agree with the bills themselves: ids in creation order, each exactly as *)
(* often as its address is creator, or is listed as payer.                 *)
IndexesMatchBills ==
    \A a \in Address :
        /\ \A j, k \in DOMAIN byCreator[a] :
              j < k => byCreator[a][j] < byCreator[a][k]
        /\ \A id \in DOMAIN bills :
              (\E k \in DOMAIN byCreator[a] : byCreator[a][k] = id)
                 <=> bills[id].creator = a
        /\ \A j, k \in DOMAIN byPayer[a] :
              j < k => byPayer[a][j] <= byPayer[a][k]
        /\ \A id \in DOMAIN bills :
              Occurrences(byPayer[a], id) = Occurrences(bills[id].payers, a)

CreatedEvents == {k \in DOMAIN events : events[k].topic = "created"}

SettledEvents == {k \in DOMAIN events : events[k].topic = "settled"}

(* A reader of the event log knows the registry: one "created" event per   *)
(* bill, in id order and with its creator and share; one "settled" event   *)
(* per settled pair, after the bill's own and with the bill's share.       *)
EventsTellState ==
    /\ \A k \in CreatedEvents :
          /\ events[k].id = Cardinality({j \in CreatedEvents : j <= k})
          /\ events[k].who = bills[events[k].id].creator
          /\ events[k].share = bills[events[k].id].share
    /\ Cardinality(CreatedEvents) = billCount
    /\ \A k \in SettledEvents :
          /\ <<events[k].id, events[k].who>> \in settled
          /\ events[k].share = bills[events[k].id].share
          /\ \E j \in CreatedEvents : j < k /\ events[j].id = events[k].id
    /\ Cardinality(SettledEvents) = Cardinality(settled)

(* Nobody is locked out of paying: whoever is listed on a bill, has not    *)
(* settled it and holds the share can settle now, whatever others settled  *)
(* before, whoever created the bill and however full balances are.         *)
PayerCanAlwaysSettle ==
    \A id \in DOMAIN bills, payer \in Address :
        (/\ IsPayer(id, payer)
         /\ <<id, payer>> \notin settled
         /\ balance[payer] >= bills[id].share)
           => ENABLED Settle(payer, id, payer)
=============================================================================
