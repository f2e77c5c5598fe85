SPECIFICATION Spec
CONSTANTS
  Programs = {p1}
  Paths <- MCPaths
  Removable <- MCRemovable
  Files = {}
INVARIANT
  CreatesMissingParent
