\* The split form with retries, while another wallet creates bills too.  Three
\* transactions are a failed attempt and a whole one; two bill ids let
\* another bill come first.  Deadlock is not checked: attempts are bounded.
CONSTANTS
    alice = alice
    bob = bob
    Address = {alice, bob}
    Amounts = {}
    Expirations = {1}
    Approvals = {}
    MaxI128 = 50
    MaxLedger = 1
    PayerLists <- MCOtherLists
    Shares = {1}
    MemoLengths = {0}
    MaxPayers = 2
    MaxMemoLen = 5
    MaxU32 = 2
    User = alice
    Forms <- MCForms
    MaxMemoText = 2
    MaxOps = 3
    MaxI64 = 50
    Decimals = 2
    PollLimit = 1
    MaxTx = 3
SPECIFICATION AttemptSpec
INVARIANTS
    SuccessIsReal
    BillsArePaidFirst
    PaymentsAddUp
    RecordedIsPaid
    PaidFormsAreRecordable
    SuccessIsNew
CHECK_DEADLOCK FALSE
