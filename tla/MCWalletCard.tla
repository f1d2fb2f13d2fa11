---------------------------- MODULE MCWalletCard ----------------------------
(* Instance of the wallet card for TLC.                                    *)
EXTENDS WalletCardAudit
=============================================================================
