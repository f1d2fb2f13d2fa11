\* Two fetches that overlap, over a window of three ledgers and an answer of
\* three events, which five ledgers of up to two events overflow and leave.
CONSTANTS
    Fetches = {1, 2}
    LedgersBack = 2
    Limit = 3
    Batches <- MCBatches
    MaxLedger = 5
SPECIFICATION FeedSpec
INVARIANTS
    FeedTypeOK
    FeedIsTrue
PROPERTIES
    FeedCatchesUp
