\* Two wallets in turn, two refreshes that overlap, and a balance that changes
\* once: by the settle, or before it.
CONSTANTS
    Wallets = {alice, bob}
    NoWallet = NoWallet
    Refreshes = {1, 2}
    Moving = {alice}
    MaxChanges = 2
SPECIFICATION AuditSpec
INVARIANTS
    CardTypeOK
    CardIsYours
PROPERTIES
    SettleShowsInCard
    CardLoadingEnds
