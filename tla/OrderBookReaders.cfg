\* The threads of ConcurrentUpdates: writers that add levels, and a reader.
SPECIFICATION Spec
CONSTANTS
    MaxPrice = 4
    Sizes = {1}
    Snapshots <- UncrossedSnapshots
    Calls = {"updateBid", "updateAsk"}
    Readers = {"reader"}
INVARIANTS
    TornQuoteUncrossed
    TornSpreadWithinCall
