CONSTANTS
  clock = clock
  set = set
  out = out
  pos = pos
  shadow = shadow
  far = far
  rest = rest
  in = in
  eo = eo
  eo2 = eo2
  Fields <- AllFields
  Routes <- Chain
  Outputs <- NoOutputs
  Sources = {clock, pos}
  NotReady = {}
  MaxEvents = 2
SPECIFICATION Spec
PROPERTIES
  EventIsMarked
