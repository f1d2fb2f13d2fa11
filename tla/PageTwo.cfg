\* Two loads that overlap, of the same wallet or of two in turn, and a bill
\* that one or both of them are concerned by.
CONSTANTS
    alice = alice
    bob = bob
    NoWallet = NoWallet
    Address = {alice, bob}
    Wallets = {alice, bob}
    PayerLists <- MCAlicePays
    Loads = {1, 2}
    MaxBills = 1
SPECIFICATION PageSpec
INVARIANTS
    PaidIsTrue
    OwnBillListed
PROPERTIES
    AskedIsHeard
    LoadsComeNearer
