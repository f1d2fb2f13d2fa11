-------------------------- MODULE SplitClientAudit --------------------------
(***************************************************************************)
(* SplitClient with one history variable: how many bills there were when   *)
(* the split panel's attempt began.  BillPage takes a split that succeeds  *)
(* to have recorded a bill of its own that is newer than its attempt; here *)
(* that is asked of the pipeline.                                          *)
(***************************************************************************)
EXTENDS SplitClient

VARIABLE began

attemptVars == <<clientVars, began>>

AttemptInit == ClientInit /\ began = 0

\* The split panel is asked for another attempt.
AttemptBegins ==
    /\ \E form \in Forms, record \in BOOLEAN : StartSplit(form, record)
    /\ began' = billCount

\* Everything else that happens.
AttemptGoesOn ==
    /\ \/ \E id \in 1 .. MaxU32 : StartSettle(id)
       \/ \E p \in Panels : Proceed(p) \/ PollThrows(p) \/ Tick(p)
       \/ \E i \in DOMAIN txs : Apply(i) \/ Drop(i)
       \/ OtherTab
       \/ OtherWallet
    /\ UNCHANGED began

AttemptNext == AttemptBegins \/ AttemptGoesOn

AttemptSpec == AttemptInit /\ [][AttemptNext]_attemptVars /\ ClientFairness

-----------------------------------------------------------------------------

(* The bill a success banner names was created after the attempt began: it *)
(* is not an older bill with the same contents, whatever earlier attempts  *)
(* at the same form, another tab or other wallets have left on chain.      *)
SuccessIsNew ==
    (panel["split"].phase = "success" /\ panel["split"].record)
        => panel["split"].result > began
=============================================================================
