---------------------------- MODULE MCBillSplit ----------------------------
(* Instance of the registry and its token for TLC: two addresses, each a   *)
(* possible creator and payer, and payer lists that name one of them,      *)
(* both, one twice, nobody and too many.                                   *)
EXTENDS BillSplitAudit, TLC

CONSTANTS alice, bob

MCAmounts == {-1, 1}
MCPayerLists == {<<>>, <<bob>>, <<bob, bob>>, <<alice, bob>>,
                 <<bob, alice, bob>>}
MCApprovals == {<<bob, alice>>}
=============================================================================
