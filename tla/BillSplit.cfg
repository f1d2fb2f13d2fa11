\* Registry and token together.  A supply of 2 against shares of 1 and 2 lets
\* payers hold too little, just enough and enough for two bills; two bill ids
\* reach the u32 limit; lists of up to three names reach MaxPayers and exceed
\* it.  Allowances can be drawn and evicted; their
\* expiry is the subject of the run on the token alone.
CONSTANTS
    alice = alice
    bob = bob
    Address = {alice, bob}
    Amounts <- MCAmounts
    Expirations = {1}
    Approvals <- MCApprovals
    MaxI128 = 2
    MaxLedger = 1
    PayerLists <- MCPayerLists
    Shares = {0, 1, 2}
    MemoLengths = {1, 2}
    MaxPayers = 2
    MaxMemoLen = 1
    MaxU32 = 2
SPECIFICATION AuditSpec
INVARIANTS
    BillTypeOK
    IndexesMatchBills
    EventsTellState
    PayerCanAlwaysSettle
    SettlementBooksBalance
PROPERTIES
    BillsNeverRewritten
    ImplementsBook
    ImplementsChain
