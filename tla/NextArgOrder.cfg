SPECIFICATION MCSpec
CONSTANTS
  Letters = {"a", "o"}
  Options <- MCOptions
  Commands = {{"c"}, {"c", "help"}}
  MaxOperands = 3
  Lines <- MCLines
  VersionInfo = {TRUE, FALSE}
CHECK_DEADLOCK FALSE
INVARIANT
  InCommandLineOrder
