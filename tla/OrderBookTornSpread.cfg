\* The threads of ThreadSafetyWithRandomDeltas: a reader and an updater.
SPECIFICATION Spec
CONSTANTS
    MaxPrice = 3
    Sizes = {1}
    Snapshots <- UncrossedSnapshots
    Calls = {"updateBid", "updateAsk", "removeBid", "removeAsk"}
    Readers = {"reader"}
INVARIANT
    SpreadMatchesQuote
