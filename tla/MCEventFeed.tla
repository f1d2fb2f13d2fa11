---------------------------- MODULE MCEventFeed ----------------------------
(* Instance of the feed for TLC: ledgers with no event, with one of either *)
(* kind, or with a bill and its settlement.                                *)
EXTENDS EventFeed

MCBatches == {<<>>, <<"settled">>, <<"created", "settled">>}
=============================================================================
