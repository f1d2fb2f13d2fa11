\* Is a settled share seen by the load that follows?
CONSTANTS
    alice = alice
    bob = bob
    NoWallet = NoWallet
    Address = {alice, bob}
    Wallets = {alice}
    PayerLists <- MCAlicePays
    Loads = {1, 2}
    MaxBills = 1
SPECIFICATION PageSpec
INVARIANTS
    InvalidatedAfterWrites
