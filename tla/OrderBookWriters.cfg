\* Every writing call, with snapshots that cross among the inputs.
SPECIFICATION Spec
CONSTANTS
    MaxPrice = 4
    Sizes = {0, 1, 2}
    Snapshots <- MixedSnapshots
    Calls = {"updateBid", "updateAsk", "removeBid", "removeAsk", "setSnapshot", "clear"}
    Readers = {}
INVARIANTS
    TypeOK
    CrossedAsInSnapshot
    CumulativeVolumesAreSums
PROPERTIES
    NoNewCrossing
