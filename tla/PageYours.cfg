\* Does the list belong to the connected wallet when nothing loads any more?
CONSTANTS
    alice = alice
    bob = bob
    NoWallet = NoWallet
    Address = {alice, bob}
    Wallets = {alice, bob}
    PayerLists <- MCAlicePays
    Loads = {1, 2}
    MaxBills = 1
SPECIFICATION PageSpec
INVARIANTS
    BillsAreYours
