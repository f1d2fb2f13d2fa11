\* Is a payment reported as rejected never made?
CONSTANTS
    alice = alice
    bob = bob
    Address = {alice, bob}
    Amounts = {}
    Expirations = {1}
    Approvals = {}
    MaxI128 = 50
    MaxLedger = 1
    PayerLists <- MCOtherLists
    Shares = {1}
    MemoLengths = {0}
    MaxPayers = 2
    MaxMemoLen = 5
    MaxU32 = 2
    User = alice
    Forms <- MCForms
    MaxMemoText = 2
    MaxOps = 3
    MaxI64 = 50
    Decimals = 2
    PollLimit = 1
    MaxTx = 3
SPECIFICATION ClientSpec
INVARIANTS
    SubmissionRejectedIsTrue
CHECK_DEADLOCK FALSE
