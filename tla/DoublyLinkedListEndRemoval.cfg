SPECIFICATION Spec
CONSTANTS
    Element = {e1, e2, e3, e4}
    NULL = NULL
SYMMETRY Symmetry
INVARIANT
    EndsAreClosed
