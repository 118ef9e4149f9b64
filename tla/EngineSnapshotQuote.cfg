\* What the receiver of a snapshot update takes its bid for.
SPECIFICATION Spec
CONSTANTS
    Adapters = {"coinbase"}
    Symbols = {"BTC", "ETH"}
    Subscribed = {"BTC"}
    Feed <- FeedAll
    MaxPrice = 3
    Sizes = {1}
    Messages <- BtcAndOtherMessages
    Garbage = {7}
    MaxMessages = 3
    MaxSessions = 1
INVARIANT
    SnapshotUpdateIsTop
CHECK_DEADLOCK FALSE
