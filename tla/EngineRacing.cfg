\* Two adapters feed one book.
SPECIFICATION Spec
CONSTANTS
    Adapters = {coinbase, kraken}
    Symbols = {"BTC"}
    Subscribed = {"BTC"}
    Feed <- FeedAll
    MaxPrice = 2
    Sizes = {1}
    Messages <- RacingMessages
    Garbage = {7}
    MaxMessages = 2
    MaxSessions = 1
INVARIANTS
    BooksUncrossed
PROPERTY
    BooksAreOrderBooks
SYMMETRY AdapterSymmetry
CHECK_DEADLOCK FALSE
