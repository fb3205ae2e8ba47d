SPECIFICATION FairSpec
CONSTANTS
  g = g
  h = h
  r = r
  i = i
  b = b
  d = d
  w0 = w0
  w1 = w1
  s = s
  fi = fi
  Root = root
  Groups = {g, h, r}
  Inlines = {i}
  Leaves = {b, d}
  Worlds = {w1}
  Strings = {s}
  FirstWorld = w0
  FileOf <- MCFileOf
  Tops <- MCTops
  Parts <- MCParts
  Content <- MCContent
  AnswerGroup <- MCAnswerGroup
  Sends <- MCSends
  Settle = 2
  MaxCalls = 2
  MaxReplacements = 1
  MaxGiven = 1
  MinUrls = 2
  MaxUrls = 2
INVARIANTS
  TypeOK
  ParentsKnown
  ShowsItsChildren
  NeverDrawsFreed
PROPERTY
  InlineSettles
