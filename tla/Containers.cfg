SPECIFICATION MCSpec
CONSTANTS
  Element = {e1, e2, e3, e4}
  Objects = {a, b, c, io}
  Singletons = {io}
  Refs = {r, s}
  MaxDepth = 6
  NULL = NULL
  Number = {1, 2, 3}
  QueueLength = 7
  SortLength = 6
SYMMETRY ObjectSymmetry
INVARIANTS
  LinksFollowList
  RefsCountHolders
  NoDanglingRef
  QueueIsHeap
  SortsItsInput
PROPERTIES
  WritesMembersOnly
  IsPriorityBag
  CallsReturn
