SPECIFICATION Spec
CONSTANTS
  Slash = "/"
  Dot = "."
  Strings <- MCStrings
  Objects = {p, q}
  UINT_MAX = 7
  MaxLevels = 2
  MaxText = 3
PROPERTY
  ArraysDoNotOverlap
