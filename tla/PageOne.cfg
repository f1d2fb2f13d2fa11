\* One load at a time and a bill with two payers, whose flags are asked for
\* together and cached apart.
CONSTANTS
    alice = alice
    bob = bob
    NoWallet = NoWallet
    Address = {alice, bob}
    Wallets = {alice, bob}
    PayerLists <- MCBothPay
    Loads = {1}
    MaxBills = 1
SPECIFICATION PageSpec
INVARIANTS
    PageTypeOK
    PaidIsTrue
PROPERTIES
    LoadingEnds
