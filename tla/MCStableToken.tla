--------------------------- MODULE MCStableToken ---------------------------
(* Instance of the token for TLC: three holders, one of whom may spend for *)
(* another and one of whom may spend for itself.                           *)
EXTENDS StableTokenHistory, TLC

CONSTANTS alice, bob, carol

MCAmounts == {-1, 0, 1, 2}
MCApprovals == {<<alice, bob>>, <<carol, carol>>}
=============================================================================
