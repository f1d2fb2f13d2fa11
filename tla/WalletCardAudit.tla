-------------------------- MODULE WalletCardAudit --------------------------
(***************************************************************************)
(* WalletCard with one history variable: the wallets that were             *)
(* disconnected while something of theirs was under way, and that are not  *)
(* done with yet.  A refresh shows the balances of the wallet it was       *)
(* started for, whichever is connected in the end; here is kept which      *)
(* wallets that may still happen for.                                      *)
(***************************************************************************)
EXTENDS WalletCard

VARIABLE left

auditVars == <<cardVars, left>>

\* Wallets of refreshes that are waited for, and of the write, which will
\* start one in the end.
UnderWay ==
    {refresh[r].wallet : r \in {q \in Refreshes : refresh[q].open}}
        \cup ({write.wallet} \ {NoWallet})

AuditInit == CardInit /\ left = {}

WalletLeaves == Disconnect /\ left' = UnderWay

\* Everything else.  A wallet is done with when nothing of it is under way and
\* the card does not show it.
CardGoesOn ==
    /\ \/ \E r \in Refreshes :
             \/ RefreshStep(r)
             \/ \E a \in Wallets : Connect(r, a)
             \/ AskAgain(r)
             \/ SettleSucceeds(r) \/ SplitSucceeds(r)
       \/ \E call \in {"split", "settle"} : BeginWrite(call)
       \/ WriteFails
       \/ \E a \in Wallets : Expire(a) \/ TokenMoves(a)
    /\ left' = left \cap (UnderWay' \cup {card'.of})

AuditNext == WalletLeaves \/ CardGoesOn

AuditSpec == AuditInit /\ [][AuditNext]_auditVars /\ CardFairness

-----------------------------------------------------------------------------

(* The balances shown are those of the connected wallet, or of one that    *)
(* was disconnected in the middle of a refresh or a write of its own.  No  *)
(* other way of switching wallets, refreshing and writing brings another   *)
(* wallet's balances onto the card, and such a wallet shows no more once   *)
(* its requests have ended and the card has been set anew.                 *)
CardIsYours == card.of \in {NoWallet, address} \cup left
=============================================================================
