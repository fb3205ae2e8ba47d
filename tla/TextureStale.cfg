CONSTANTS
  t1 = t1
  t2 = t2
  a = a
  b = b
  lost = lost
  text = text
  NoFile = NoFile
  Textures = {t1}
  NodeTypings <- OneImage
  Files = {a, b, lost, text}
  Missing = {lost}
  NotImage = {text}
  UrlFields <- TwoUrls
  MaxChanges = 1
  SpuriousWakeups = FALSE
SPECIFICATION Spec
CHECK_DEADLOCK FALSE
INVARIANTS
  ShownIsCurrent
