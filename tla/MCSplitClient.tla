--------------------------- MODULE MCSplitClient ---------------------------
(* Instance of the front end for TLC: alice is at the page, bob is another *)
(* wallet.  Forms pass, or fail at one of the checks on their way: in the  *)
(* form, before the account is loaded, in the SDK, in the registry.        *)
EXTENDS SplitClient

CONSTANTS alice, bob

\* 0.01, 0.31 and so on, with two decimals
Cents(n) == [neg |-> FALSE, whole |-> 0, frac |-> <<n \div 10, n % 10>>]

Plain == [payers |-> <<bob>>, total |-> Cents(1),
          memo |-> [units |-> 0, width |-> 1, blank |-> TRUE]]

MCForms == {Plain,
            [Plain EXCEPT !.total.neg = TRUE],           \* the button is off
            [Plain EXCEPT !.payers = <<bob, bob, bob, bob>>],   \* MaxOps
            [Plain EXCEPT !.payers = <<bob, alice>>],    \* 0 and 0.01: the SDK
            [Plain EXCEPT !.memo = [units |-> 2, width |-> 3,
                                    blank |-> FALSE]],   \* the SDK
            [Plain EXCEPT !.memo = [units |-> 2, width |-> 3,
                                    blank |-> TRUE]],    \* the registry
            [Plain EXCEPT !.payers = <<bob, bob, bob>>,
                          !.total = Cents(31)],  \* 0.1, 0.1, 0.11: the registry
            [Plain EXCEPT !.payers = <<bob, alice>>,
                          !.total = Cents(3)]}           \* 0.01 and 0.02
\* without decimals
MCOneForm == {[Plain EXCEPT !.total = [neg |-> FALSE, whole |-> 1, frac |-> <<>>]]}
MCOtherLists == {<<bob>>}
MCPayerLists == {<<alice>>}
=============================================================================
