SPECIFICATION MCSpec
CONSTANTS
    Handle = {h1, h2, h3}
    Address = {a1, a2, a3, a4}
    EmptyArray = EmptyArray
    NoObject = NoObject
    v1 = v1
    Value = {v1, v2}
    MaxLength = 2
    MaxLocks = 1
SYMMETRY Symmetry
INVARIANTS
    TypeOK
    RefsCountOwners
    LockIsOwn
    FitsCapacity
    EmptyArrayIntact
PROPERTIES
    LockedBufferStays
    OneArrayChanges
    OperationsAsPromised
