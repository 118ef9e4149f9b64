\* Coinbase, the one adapter that TradingSystem creates, and both signals.
SPECIFICATION SystemFairSpec
CONSTANTS
    Venues = {"coinbase"}
    Signals = {"SIGINT", "SIGTERM"}
    MaxSignals = 3
INVARIANTS
    SystemTypeOK
    EngineOutlivesCallbacks
    ReturnsAlone
    StoppedStaysDisconnected
PROPERTY
    StopsReturn
CHECK_DEADLOCK FALSE
