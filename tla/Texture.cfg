CONSTANTS
  t1 = t1
  t2 = t2
  a = a
  b = b
  lost = lost
  text = text
  NoFile = NoFile
  Textures = {t1, t2}
  NodeTypings <- ImageAndOther
  Files = {a, b, lost, text}
  Missing = {lost}
  NotImage = {text}
  UrlFields <- Urls
  MaxChanges = 1
  SpuriousWakeups = TRUE
SPECIFICATION FairSpec
CHECK_DEADLOCK FALSE
INVARIANTS
  TypeOK
  ImageOwnedByOne
  WaitingIsForSomething
PROPERTIES
  TextureSettles
  ImplementsFairQueue
