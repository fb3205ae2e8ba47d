CONSTANTS
  Links <- FanLinks
  Scripts <- AnyScripts
  StaticGroups <- AnyStatic
  Helpers = {}
  Top = 9
  InitialMax = 5
  Growth = 4
  MaxCalls = 3
  MaxMarks = 0
  MaxKills = 0
SPECIFICATION Spec
INVARIANTS
  TableMatches
