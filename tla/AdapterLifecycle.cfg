\* Each of the three adapters, with an exchange that sends up to two messages.
SPECIFICATION FeedFairSpec
CONSTANTS
    Venues = {"coinbase", "kraken", "binance"}
    Symbols <- MCSymbols
    Events <- MCEvents
    MaxSent = 2
INVARIANTS
    TypeOK
    NoCallbackAfterDisconnect
    NoThreadAfterDestroy
    OneReadAtATime
    DeliveredAsSaid
PROPERTIES
    DisconnectReturns
    DestroyReturns
    MessagesAreHandled
    FirstRequestIsSent
CHECK_DEADLOCK FALSE
