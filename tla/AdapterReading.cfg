\* Coinbase, the one adapter TradingSystem creates.
SPECIFICATION Spec
CONSTANTS
    Venues = {"coinbase"}
INVARIANT
    ContinuesReading
CHECK_DEADLOCK FALSE
