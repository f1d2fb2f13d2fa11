\* Does an answer contain the newest settlement of its window?
CONSTANTS
    Fetches = {1, 2}
    LedgersBack = 2
    Limit = 3
    Batches <- MCBatches
    MaxLedger = 5
SPECIFICATION FeedSpec
PROPERTIES
    FeedShowsNewest
