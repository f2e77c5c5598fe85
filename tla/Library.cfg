SPECIFICATION MCSpec
CONSTANTS
  Pathnames = {p, q}
  PathStrings <- SomePathnames
  Slash <- Separator
  Dot <- FullStop
  UINT_MAX = 7
  MaxLevels = 2
  MaxText = 3
  Programs = {p1, p2}
  TreeNodes <- EightNodes
  TreeKeys <- EightKeys
  MapNodes <- SixElements
  MapKeys <- SixKeys
  Inputs <- SomeInputs
  Patterns <- SomePatterns
  Views = {v, w}
  Value = {x, y}
  NULL = NULL
  Byte <- SomeBytes
  Space <- Blank
  Written <- SomeData
  Offsets <- SomeOffsets
  SIZE_MAX = 15
  Overhead = 1
  MaxLength = 5
  ViewedTexts <- SomeTexts
  Delim <- Comma
  HelpTexts <- SomeHelpTexts
  Newline <- LineFeed
  HelpWidths = {1, 5}
  HelpCalls <- SomeHelpCalls
  Created <- SomePaths
  Removable <- SomeRemovable
  Files <- SomeFiles
CHECK_DEADLOCK FALSE
INVARIANTS
  TreeIsSound
  MapIsSound
  PathMeansText
  NormalForm
  RelativeToIsUndone
  FillsTheBuffer
  PiecesAreIndependent
  LinesAreWrapped
  BehavesLikeAFile
  MatchesAsDefined
  SplitsAsPromised
  AnswersAreRight
  CreatorsSucceed
PROPERTIES
  SortedByKey
  IsOrderedMap
