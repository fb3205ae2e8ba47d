CONSTANTS
  clock = clock
  set = set
  out = out
  pos = pos
  shadow = shadow
  far = far
  rest = rest
  in = in
  eo = eo
  eo2 = eo2
  Fields <- AllFields
  Routes <- Animation
  Outputs <- AnimationOutputs
  Sources = {clock}
  NotReady = {eo2}
  MaxEvents = 2
SPECIFICATION FairSpec
INVARIANTS
  TypeOK
  EventArrives
  ScriptsGathered
PROPERTIES
  CascadeSettles
