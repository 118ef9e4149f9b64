\* One adapter, through a stop and a second initialize.
SPECIFICATION FairSpec
CONSTANTS
    Adapters = {"coinbase"}
    Symbols = {"BTC", "ETH"}
    Subscribed = {"BTC"}
    Feed <- FeedAll
    MaxPrice = 3
    Sizes = {1}
    Messages <- BtcAndOtherMessages
    Garbage = {7}
    MaxMessages = 3
    MaxSessions = 2
INVARIANTS
    TypeOK
    MirrorsExchange
    DeltaUpdateIsTop
    NoCallbackAfterStop
PROPERTIES
    TakenInOrder
    StopReturns
    PublishedIsTaken
CHECK_DEADLOCK FALSE
