SPECIFICATION FairSpec
CONSTANTS
    DEPTH_SPEC = 4
    DEPTH_COMMIT = 4
    s0 = s0
    s1 = s1
    Store = {s0, s1}
    ZeroStore = s0
    PageOffset <- MCPageOffset
    OffsetOf <- MCOffsetOf
INVARIANTS RingInv InterlockExact
PROPERTIES ImplementsQueue CommittedDrains
