SPECIFICATION Spec
CONSTANTS
    Handle = {h1, h2}
    Literal = Literal
    LiteralText <- Text
    Address = {a1, a2, a3}
    EmptyString = EmptyString
    LiteralBuffer = LiteralBuffer
    NoObject = NoObject
    c1 = c1
    Char = {c1, c2}
    MaxLength = 2
    MaxLocks = 1
SYMMETRY Symmetry
INVARIANT
    NullTerminated
