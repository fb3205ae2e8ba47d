CONSTANTS
  Links <- MixedLinks
  Scripts <- AnyScripts
  StaticGroups <- AnyStatic
  Helpers = {1, 7}
  Top = 9
  InitialMax = 5
  Growth = 4
  MaxCalls = 3
  MaxMarks = 1
  MaxKills = 1
SPECIFICATION FairSpec
INVARIANTS
  TypeOK
  TableFits
  MarkFindsAll
  NoRouteMissing
PROPERTIES
  EventDelivered
