\* Both panels at work for one account, so that they use the same sequence
\* number, and another wallet that creates a bill for it and mints tokens.
\* Deadlock is not checked: attempts are bounded.
CONSTANTS
    alice = alice
    bob = bob
    Address = {alice, bob}
    Amounts = {1}
    Expirations = {1}
    Approvals = {}
    MaxI128 = 1
    MaxLedger = 1
    PayerLists <- MCPayerLists
    Shares = {1}
    MemoLengths = {0}
    MaxPayers = 1
    MaxMemoLen = 1
    MaxU32 = 1
    User = alice
    Forms <- MCOneForm
    MaxMemoText = 1
    MaxOps = 2
    MaxI64 = 1
    Decimals = 0
    PollLimit = 0
    MaxTx = 3
SPECIFICATION ClientSpec
INVARIANTS
    ClientTypeOK
    SettledAtMostOnce
    ErrorsLeaveNothing
PROPERTIES
    AnswersAreProgress
    EveryAttemptEnds
CHECK_DEADLOCK FALSE
