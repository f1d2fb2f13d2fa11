\* The token on three holders.  A supply of at most MaxI128 = 2 lets a mint
\* reach the width limit; allowances expire in ledger 0 or 2 and the clock
\* runs from 1 to 3, so they are met before, in and after their last ledger and
\* also granted when already expired.
CONSTANTS
    alice = alice
    bob = bob
    carol = carol
    Address = {alice, bob, carol}
    Amounts <- MCAmounts
    Expirations = {0, 2}
    Approvals <- MCApprovals
    MaxI128 = 2
    MaxLedger = 3
    Nobody = Nobody
SPECIFICATION HistorySpec
INVARIANTS
    TokenTypeOK
    SupplyIsSum
    CreditsNeverOverflow
    AllowanceViewIsSpendable
    DrawnWithinGrant
PROPERTIES
    DebitsAuthorised
    SupplyChangesAreOwned
