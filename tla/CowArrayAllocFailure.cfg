SPECIFICATION SpecOrThrow
CONSTANTS
    Handle = {h1, h2}
    Address = {a1, a2, a3}
    EmptyArray = EmptyArray
    NoObject = NoObject
    Value = {v1, v2}
    MaxLength = 2
    MaxLocks = 1
INVARIANT
    ReleaseAssertion
