\* A ring of 2, a page of 3, four traps in each of two starts of the API.
SPECIFICATION Spec
CONSTANTS
    BufferSize = 2
    PageSize = 3
    MaxSeq = 4
    MaxEpoch = 2
    None = None
INVARIANTS TypeOK NothingLost PageInOrder
PROPERTIES ShownOnce
