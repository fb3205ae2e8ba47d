CONSTANTS
  inner = inner
  outer = outer
  ball = ball
  floor = floor
  touch = touch
  grip = grip
  NoGroup = NoGroup
  NoShape = NoShape
  Groups = {inner, outer}
  Shapes = {ball, floor}
  Above <- Nested
  Sensors = {touch, grip}
  Worlds <- SomeWorlds
  KindOf <- TouchAndSphere
  MaxChanges = 2
  quick = quick
  slow = slow
  NoClock = NoClock
  Clocks = {quick, slow}
  CycleOf <- TwoAndThree
  FirstTime = 4
  MaxTime = 8
  MaxStep = 2
  MaxCalls = 4
SPECIFICATION BothSpec
INVARIANTS
  TypeOK
  NoSensorLeftOn
  EachTicksOnce
PROPERTIES
  OverStays
  RunsAsSet
  CycleTimeOnce
  PointerSettles
