---------------------------- MODULE Obligations ----------------------------
(***************************************************************************)
(* What the bill registry promises, without contracts, storage or calls:   *)
(* a book of debts that is only ever extended, and payments that discharge *)
(* one open debt at a time by moving exactly its amount from the debtor to *)
(* the creditor.  position[a] is what settling has brought a so far, less  *)
(* what it has cost it.                                                    *)
(***************************************************************************)
EXTENDS Integers, FiniteSets, Functions

CONSTANTS
    Party,      \* who can owe and be owed
    Limit       \* largest amount of a debt

VARIABLES
    debts,      \* every debt ever entered
    paid,       \* those discharged
    position

bookVars == <<debts, paid, position>>

Debt == [bill : Nat, debtor : Party, creditor : Party, amount : 1 .. Limit]

BookInit ==
    /\ debts = {}
    /\ paid = {}
    /\ position = [a \in Party |-> 0]

\* One bill is entered as a whole: fresh, every debtor once, one creditor
\* and one amount.
Open ==
    LET new == debts' \ debts IN
    /\ debts \subseteq debts'
    /\ new # {}
    /\ new \subseteq Debt
    /\ \A d, e \in new : /\ d.bill = e.bill
                         /\ d.creditor = e.creditor
                         /\ d.amount = e.amount
    /\ \A d \in new, e \in debts : e.bill < d.bill
    /\ UNCHANGED <<paid, position>>

Discharge(d) ==
    LET debited == [position EXCEPT ![d.debtor] = @ - d.amount] IN
    /\ d \in debts \ paid
    /\ paid' = paid \cup {d}
    /\ position' = [debited EXCEPT ![d.creditor] = @ + d.amount]
    /\ UNCHANGED debts

BookNext ==
    \/ Open
    \/ \E d \in debts : Discharge(d)

BookSpec == BookInit /\ [][BookNext]_bookVars

-----------------------------------------------------------------------------

\* What discharging d brings a.
Gain(d, a) == (IF d.creditor = a THEN d.amount ELSE 0)
                - (IF d.debtor = a THEN d.amount ELSE 0)

(* Everybody's position is what the discharged debts say: no payment is    *)
(* made twice, misdirected, or made in another amount than the debt's.     *)
PositionIsBooks ==
    \A a \in Party : position[a] = SumFunction([d \in paid |-> Gain(d, a)])
=============================================================================
