----------------------------- MODULE MCBillPage -----------------------------
(* Instance of the page for TLC: wallets alice and bob are connected in    *)
(* turn; bills name one of them or both.                                   *)
EXTENDS BillPage

CONSTANTS alice, bob

MCBothPay == {<<alice, bob>>}
MCAlicePays == {<<alice>>}
=============================================================================
