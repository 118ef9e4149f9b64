\* Coinbase, the one adapter TradingSystem creates.
SPECIFICATION Spec
CONSTANTS
    Venues = {"coinbase"}
INVARIANT
    ReconnectedCanReceive
CHECK_DEADLOCK FALSE
