CONSTANTS
  v1 = v1
  v2 = v2
  v3 = v3
  Nodes <- Three
  NoNode = NoNode
  MaxEvents = 1
  MaxWishes = 1
  MaxParses = 2
  MaxKills = 1
SPECIFICATION Spec
SYMMETRY Alike
INVARIANTS
  TypeOK
  BindMatchesStack
  RegisteredAlive
