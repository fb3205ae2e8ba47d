--------------------------- MODULE SensorsProofs ---------------------------
(***************************************************************************)
(* Proofs about the two sources of events of a frame: PointerSensors, for  *)
(* any scene of shapes, groups and sensors and any number of changes of it,*)
(* and TimeSensors, for any clocks with any cycles, any moments at which   *)
(* they are set and frames of any length.                                  *)
(***************************************************************************)
EXTENDS PointerSensors, TimeSensors, WellFoundedInduction, FiniteSetTheorems,
        TLAPS

\* The sensitive pass is not begun while the user navigates.
PassInv == stage \in {"button", "cursor"} => ~NavigationMode

(* While a sensor is dragged, the delay of isOver is on: the group of the  *)
(* drag is not picked, so the pointer seems to be elsewhere.               *)
DragInv ==
  /\ stage = "button" /\ dragged => lastPressedOver # NoGroup
  /\ dragged /\ hypersensitive # NoGroup /\ lastOver # NoGroup
       => lastOverButtonPressed

IInv == TypeOK /\ NavigatesOrDrags /\ NoSensorLeftOn /\ PassInv /\ DragInv

-----------------------------------------------------------------------------
(* Sending events to sensors, and picking. *)

\* Nobody takes an event that is sent to no group.
LEMMA NobodyTakes ==
  ASSUME TypeOK
  PROVE  Takes(NoGroup) = {} /\ Deaf(NoGroup) = {}
  BY SensorsAssumption DEF TypeOK, Takes, Deaf

\* A sensor that takes an event, or is deaf to it, is recorded in its group.
LEMMA TakersRecorded ==
  ASSUME NEW g, NEW s \in Sensors
  PROVE  /\ s \in Takes(g) \/ s \in Deaf(g) <=> <<g, s>> \in SensorEvents
         /\ ~(s \in Takes(g) /\ s \in Deaf(g))
  BY DEF Takes, Deaf

\* Only one group is the innermost sensitive one under the pointer.
LEMMA UnderIsUnique ==
  ASSUME TypeOK, NEW g, NEW h, Under(g), Under(h)
  PROVE  g = h
  <1>1. PICK i \in DOMAIN Above[pointer] :
          /\ g = Above[pointer][i] /\ g \in sensitive
          /\ \A j \in 1..(i - 1) : Above[pointer][j] \notin sensitive
    BY DEF Under
  <1>2. PICK k \in DOMAIN Above[pointer] :
          /\ h = Above[pointer][k] /\ h \in sensitive
          /\ \A j \in 1..(k - 1) : Above[pointer][j] \notin sensitive
    BY DEF Under
  <1>3. DOMAIN Above[pointer] = 1..Len(Above[pointer])
        /\ Len(Above[pointer]) \in Nat
    BY SensorsAssumption DEF TypeOK, Under
  <1>4. i \in Nat /\ k \in Nat /\ i >= 1 /\ k >= 1
    BY <1>3
  <1>5. ~(i < k) /\ ~(k < i)
    BY <1>1, <1>2, <1>4
  <1> QED BY <1>1, <1>2, <1>4, <1>5

\* What is hit is a group, and then nothing is dragged.
LEMMA HitIsGroup ==
  ASSUME TypeOK, NEW g, RayHit(g), g # NoGroup
  PROVE  hypersensitive = NoGroup /\ Under(g) /\ g \in Groups
  BY DEF TypeOK, RayHit, Hit

-----------------------------------------------------------------------------
(* The invariant. *)

\* A world is loaded, nothing is pressed.
LEMMA InitIInv == Init => IInv
  <1> SUFFICES ASSUME Init PROVE IInv
    OBVIOUS
  <1>1. TypeOK
    <2>1. /\ parents \in [Sensors -> SUBSET Groups]
          /\ changes \in 0..MaxChanges
      BY SensorsAssumption DEF Init
    <2>2. /\ isOver \in [Sensors -> BOOLEAN]
          /\ isActive \in [Sensors -> BOOLEAN]
          /\ \A s \in Sensors : ~isOver[s]
      BY DEF Init
    <2>3. SensorEvents \subseteq Groups \X Sensors
      BY DEF Init, Entries
    <2> QED
      BY <2>1, <2>2, <2>3 DEF Init, TypeOK, SomeGroup
  <1>2. NoSensorLeftOn
    BY DEF Init, NoSensorLeftOn
  <1>3. NavigatesOrDrags /\ PassInv /\ DragInv
    BY DEF Init, NavigatesOrDrags, PassInv, DragInv
  <1> QED BY <1>1, <1>2, <1>3 DEF IInv

\* Every step keeps the types.
LEMMA NextTypeOK == IInv /\ [Next]_vars => TypeOK'
  <1> SUFFICES ASSUME IInv, [Next]_vars PROVE TypeOK'
    OBVIOUS
  <1> USE SensorsAssumption DEF IInv, TypeOK
  <1>1. CASE UNCHANGED vars
    BY <1>1 DEF vars, userVars, sceneVars, fieldVars, flagVars, pressVars,
                overVars, historyVars, Entries
  <1>2. CASE PointerMoves
    BY <1>2 DEF PointerMoves, sceneVars, fieldVars, flagVars, pressVars,
                overVars, historyVars, Entries
  <1>3. ASSUME NEW b \in {1, 3}, MouseButton(b) PROVE TypeOK'
    BY <1>3 DEF MouseButton, sceneVars, fieldVars, flagVars, pressVars,
                overVars, historyVars, Entries
  <1>4. ASSUME NEW s \in Sensors, SetEnabled(s) PROVE TypeOK'
    BY <1>4 DEF SetEnabled, Change, userVars, flagVars, pressVars, overVars,
                historyVars, Entries
  <1>5. ASSUME NEW s \in Sensors, NEW g \in Groups, AddOrRemoveParent(s, g)
        PROVE  TypeOK'
    <2>1. /\ parents' \in [Sensors -> SUBSET Groups]
          /\ SensorEvents' \subseteq Groups \X Sensors
      BY <1>5 DEF AddOrRemoveParent, SetSensitive
    <2>2. Entries(parents') \subseteq SensorEvents'
      <3> SUFFICES ASSUME NEW e \in Groups \X Sensors,
                          e[1] \in parents'[e[2]]
                   PROVE  e \in SensorEvents'
        BY DEF Entries
      <3>1. /\ e[1] \in parents[e[2]] => e \in SensorEvents
            /\ SensorEvents \subseteq SensorEvents'
        BY <1>5 DEF AddOrRemoveParent, SetSensitive, Entries
      <3>2. CASE e[2] = s /\ e[1] = g
        <4>1. e = <<g, s>>
          BY <3>2
        <4>2. CASE g \notin parents[s]
          BY <1>5, <4>1, <4>2 DEF AddOrRemoveParent, SetSensitive
        <4>3. CASE g \in parents[s]
          BY <3>1, <3>2, <4>3
        <4> QED BY <4>2, <4>3
      <3>3. CASE ~(e[2] = s /\ e[1] = g)
        <4>1. e[1] \in parents[e[2]]
          BY <1>5, <3>3 DEF AddOrRemoveParent
        <4> QED BY <3>1, <4>1
      <3> QED BY <3>2, <3>3
    <2>3. changes' \in 0..MaxChanges
      BY <1>5 DEF AddOrRemoveParent, Change
    <2> QED
      BY <1>5, <2>1, <2>2, <2>3
      DEF AddOrRemoveParent, userVars, fieldVars, flagVars, pressVars,
          overVars, historyVars, Entries
  <1>6. CASE Parse
    BY <1>6 DEF Parse, Change, userVars, fieldVars, flagVars, pressVars,
                overVars, historyVars, Entries
  <1>7. CASE ReplaceWorld
    BY <1>7 DEF ReplaceWorld, Change, userVars, flagVars, SomeGroup, Entries
  <1>8. CASE StartOfLoop
    <2>1. EnabledParents \subseteq Groups
      BY DEF EnabledParents
    <2> QED
      BY <1>8, <2>1 DEF StartOfLoop, userVars, sceneVars, fieldVars,
                        pressVars, overVars, historyVars, Entries
  <1>9. CASE Pick
    <2>1. PICK cos \in SomeGroup : Pick!3!(cos)
      BY <1>9 DEF Pick
    <2>2. deafOver' \subseteq Sensors
      BY <2>1 DEF Deaf
    <2>3. /\ isOver' \in [Sensors -> BOOLEAN]
          /\ \A s \in Sensors : isOver'[s] => KindOf[s] = "touch"
          /\ lastOver' \in SomeGroup
          /\ lastOverButtonPressed' \in BOOLEAN
          /\ CursorOverSensitive' \in SomeGroup
      BY <2>1 DEF Touches
    <2> QED
      BY <1>9, <2>2, <2>3 DEF Pick, userVars, flagVars, pressVars, Entries
  <1>10. CASE NoPass
    BY <1>10 DEF NoPass, userVars, sceneVars, fieldVars, flagVars, pressVars,
                 overVars, historyVars, Entries
  <1>11. CASE Button
    <2>1. /\ isActive' \in [Sensors -> BOOLEAN]
          /\ deafActive' \subseteq Sensors
          /\ lastPressedOver' \in SomeGroup
          /\ hypersensitive' \in SomeGroup
      <3>1. CASE Press
        BY <3>1 DEF Press
      <3>2. CASE Release
        BY <3>2 DEF Release, AfterRelease, Deaf, SomeGroup
      <3>3. CASE Neither
        BY <3>3 DEF Neither, pressVars
      <3> QED BY <1>11, <3>1, <3>2, <3>3 DEF Button
    <2> QED
      BY <1>11, <2>1 DEF Button, userVars, flagVars, overVars, Entries
  <1>12. CASE Cursor
    BY <1>12 DEF Cursor, userVars, sceneVars, fieldVars, flagVars, pressVars,
                 overVars, historyVars, SomeGroup, Entries
  <1> QED
    BY <1>1, <1>2, <1>3, <1>4, <1>5, <1>6, <1>7, <1>8, <1>9, <1>10, <1>11,
       <1>12 DEF Next, Frame

\* Every step keeps navigating and dragging apart.
LEMMA NextNavigates ==
  IInv /\ [Next]_vars => NavigatesOrDrags' /\ PassInv'
  <1> SUFFICES ASSUME IInv, [Next]_vars PROVE NavigatesOrDrags' /\ PassInv'
    OBVIOUS
  <1> USE DEF IInv, NavigatesOrDrags, PassInv
  <1>1. CASE UNCHANGED vars
    BY <1>1 DEF vars, userVars, pressVars, overVars
  <1>2. CASE PointerMoves
    BY <1>2 DEF PointerMoves, pressVars, overVars
  <1>3. ASSUME NEW b \in {1, 3}, MouseButton(b)
        PROVE  NavigatesOrDrags' /\ PassInv'
    BY <1>3 DEF MouseButton, OverNothing, pressVars, overVars
  <1>4. ASSUME NEW s \in Sensors, SetEnabled(s)
        PROVE  NavigatesOrDrags' /\ PassInv'
    BY <1>4 DEF SetEnabled, userVars, pressVars, overVars
  <1>5. ASSUME NEW s \in Sensors, NEW g \in Groups, AddOrRemoveParent(s, g)
        PROVE  NavigatesOrDrags' /\ PassInv'
    BY <1>5 DEF AddOrRemoveParent, userVars, pressVars, overVars
  <1>6. CASE Parse
    BY <1>6 DEF Parse, userVars, pressVars, overVars
  <1>7. CASE ReplaceWorld
    BY <1>7 DEF ReplaceWorld, userVars
  <1>8. CASE StartOfLoop
    BY <1>8 DEF StartOfLoop, userVars, pressVars, overVars
  <1>9. CASE Pick
    BY <1>9 DEF Pick, userVars, pressVars
  <1>10. CASE NoPass
    BY <1>10 DEF NoPass, userVars, pressVars, overVars
  <1>11. CASE Button
    BY <1>11 DEF Button, Press, Release, AfterRelease, Neither, userVars,
                 pressVars, overVars
  <1>12. CASE Cursor
    BY <1>12 DEF Cursor, userVars, pressVars, overVars
  <1> QED
    BY <1>1, <1>2, <1>3, <1>4, <1>5, <1>6, <1>7, <1>8, <1>9, <1>10, <1>11,
       <1>12 DEF Next, Frame

\* Every step keeps the delay on during a drag.
LEMMA NextDragInv == IInv /\ [Next]_vars => DragInv'
  <1> SUFFICES ASSUME IInv, [Next]_vars PROVE DragInv'
    OBVIOUS
  <1> USE DEF IInv, DragInv
  <1>1. CASE UNCHANGED vars
    BY <1>1 DEF vars, pressVars, overVars, historyVars
  <1>2. CASE PointerMoves
    BY <1>2 DEF PointerMoves, pressVars, overVars, historyVars
  <1>3. ASSUME NEW b \in {1, 3}, MouseButton(b) PROVE DragInv'
    BY <1>3 DEF MouseButton, pressVars, overVars, historyVars
  <1>4. ASSUME NEW s \in Sensors, SetEnabled(s) PROVE DragInv'
    BY <1>4 DEF SetEnabled, pressVars, overVars, historyVars
  <1>5. ASSUME NEW s \in Sensors, NEW g \in Groups, AddOrRemoveParent(s, g)
        PROVE  DragInv'
    BY <1>5 DEF AddOrRemoveParent, pressVars, overVars, historyVars
  <1>6. CASE Parse
    BY <1>6 DEF Parse, pressVars, overVars, historyVars
  <1>7. CASE ReplaceWorld
    BY <1>7 DEF ReplaceWorld
  <1>8. CASE StartOfLoop
    BY <1>8 DEF StartOfLoop, pressVars, overVars, historyVars
  <1>9. CASE Pick
    <2>1. PICK cos \in SomeGroup : Pick!3!(cos)
      BY <1>9 DEF Pick
    <2>2. dragged' => 1 \in ButDown /\ lastPressedOver # NoGroup
      BY <1>9 DEF Pick
    <2>3. stage' = "button" /\ UNCHANGED pressVars
      BY <1>9 DEF Pick
    <2>4. CASE dragged' /\ lastOver' # NoGroup
      <3>1. hypersensitive # NoGroup
        BY <2>2, <2>4 DEF NavigatesOrDrags
      <3>2. cos = NoGroup
        BY <2>1, <3>1, HitIsGroup
      <3>3. lastOver # cos
        BY <2>1, <2>4, <3>2
      <3>4. lastOverButtonPressed' = TRUE
        BY <2>1, <2>2, <2>4, <3>3 DEF AfterButton
      <3> QED BY <2>2, <2>3, <2>4, <3>4 DEF pressVars
    <2>5. CASE ~(dragged' /\ lastOver' # NoGroup)
      BY <2>2, <2>3, <2>5 DEF pressVars
    <2> QED BY <2>4, <2>5
  <1>10. CASE NoPass
    BY <1>10 DEF NoPass, pressVars, overVars, historyVars
  <1>11. CASE Button
    BY <1>11 DEF Button, Press, Release, AfterRelease, Neither, pressVars,
                 overVars
  <1>12. CASE Cursor
    BY <1>12 DEF Cursor, pressVars, overVars, historyVars
  <1> QED
    BY <1>1, <1>2, <1>3, <1>4, <1>5, <1>6, <1>7, <1>8, <1>9, <1>10, <1>11,
       <1>12 DEF Next, Frame

\* A step that leaves the fields and their groups alone, and forgets no entry,
\* leaves no sensor on.
LEMMA SameFields ==
  ASSUME IInv,
         UNCHANGED <<isOver, isActive, lastOver, lastPressedOver, deafOver,
                     deafActive>>,
         SensorEvents \subseteq SensorEvents'
  PROVE  NoSensorLeftOn'
  BY DEF IInv, NoSensorLeftOn

\* Telling the group the pointer has left, and then the one it is on, leaves
\* no sensor over.
LEMMA PickLeavesNone == IInv /\ Pick => NoSensorLeftOn'
  <1> SUFFICES ASSUME IInv, Pick, NEW s \in Sensors
               PROVE  /\ isActive'[s] =>
                           \/ <<lastPressedOver', s>> \in SensorEvents'
                           \/ s \in deafActive'
                      /\ isOver'[s] =>
                           \/ <<lastOver', s>> \in SensorEvents'
                           \/ s \in deafOver'
    BY DEF NoSensorLeftOn
  <1>1. UNCHANGED <<isActive, lastPressedOver, SensorEvents, deafActive>>
    BY DEF Pick, pressVars
  <1>2. PICK cos \in SomeGroup : Pick!3!(cos)
    BY DEF Pick
  <1>3. isOver[s] => <<lastOver, s>> \in SensorEvents \/ s \in deafOver
    BY DEF IInv, NoSensorLeftOn
  <1>4. isOver'[s] => <<lastOver', s>> \in SensorEvents \/ s \in deafOver'
    <2>1. CASE lastOver # cos /\ 1 \notin ButDown /\ ~lastOverButtonPressed
      <3>1. /\ isOver'[s] <=> \/ s \in Touches(Takes(cos))
                              \/ isOver[s] /\ s \notin Touches(Takes(lastOver))
            /\ deafOver' = (deafOver \ Takes(cos)) \cup Deaf(lastOver)
            /\ lastOver' = cos
        BY <1>2, <2>1
      <3>2. isOver[s] => KindOf[s] = "touch"
        BY DEF IInv, TypeOK
      <3> QED BY <1>3, <3>1, <3>2, TakersRecorded DEF Touches
    <2>2. CASE ~(lastOver # cos /\ 1 \notin ButDown /\ ~lastOverButtonPressed)
      BY <1>2, <1>3, <2>2
    <2> QED BY <2>1, <2>2
  <1>5. isActive[s] => \/ <<lastPressedOver, s>> \in SensorEvents
                       \/ s \in deafActive
    BY DEF IInv, NoSensorLeftOn
  <1> QED BY <1>1, <1>4, <1>5

\* Pressing and releasing leaves no sensor active.
LEMMA ButtonLeavesNone == IInv /\ Button => NoSensorLeftOn'
  <1> SUFFICES ASSUME IInv, Button, NEW s \in Sensors
               PROVE  /\ isActive'[s] =>
                           \/ <<lastPressedOver', s>> \in SensorEvents'
                           \/ s \in deafActive'
                      /\ isOver'[s] =>
                           \/ <<lastOver', s>> \in SensorEvents'
                           \/ s \in deafOver'
    BY DEF NoSensorLeftOn
  <1>1. UNCHANGED <<isOver, lastOver, SensorEvents, deafOver>>
    BY DEF Button, overVars
  <1>2. isOver[s] => <<lastOver, s>> \in SensorEvents \/ s \in deafOver
    BY DEF IInv, NoSensorLeftOn
  <1>3. isActive[s] => \/ <<lastPressedOver, s>> \in SensorEvents
                       \/ s \in deafActive
    BY DEF IInv, NoSensorLeftOn
  <1>4. <<NoGroup, s>> \notin SensorEvents
    BY SensorsAssumption DEF IInv, TypeOK
  <1>5. isActive'[s] => \/ <<lastPressedOver', s>> \in SensorEvents
                        \/ s \in deafActive'
    <2>1. CASE Press
      <3>1. PICK refuses \in SUBSET Takes(CursorOverSensitive) :
              /\ isActive'[s] <=>
                   isActive[s] \/ s \in Takes(CursorOverSensitive) \ refuses
              /\ deafActive' =
                   deafActive \ (Takes(CursorOverSensitive) \ refuses)
        BY <2>1 DEF Press
      <3>2. lastPressedOver' = CursorOverSensitive
            /\ lastPressedOver = NoGroup
        BY <2>1 DEF Press
      <3> QED BY <1>3, <1>4, <3>1, <3>2, TakersRecorded
    <2>2. CASE Release
      BY <1>3, <2>2, TakersRecorded DEF Release, Released
    <2>3. CASE Neither
      BY <1>3, <2>3 DEF Neither, pressVars
    <2> QED BY <2>1, <2>2, <2>3 DEF Button
  <1> QED BY <1>1, <1>2, <1>5

\* No step leaves a sensor on.
LEMMA NextNoneLeftOn == IInv /\ [Next]_vars => NoSensorLeftOn'
  <1> SUFFICES ASSUME IInv, [Next]_vars PROVE NoSensorLeftOn'
    OBVIOUS
  <1>1. CASE UNCHANGED vars
    BY <1>1, SameFields DEF vars, sceneVars, fieldVars, pressVars, overVars,
                            historyVars
  <1>2. CASE PointerMoves
    BY <1>2, SameFields DEF PointerMoves, sceneVars, fieldVars, pressVars,
                            overVars, historyVars
  <1>3. ASSUME NEW b \in {1, 3}, MouseButton(b) PROVE NoSensorLeftOn'
    BY <1>3, SameFields DEF MouseButton, sceneVars, fieldVars, pressVars,
                            overVars, historyVars
  <1>4. ASSUME NEW s \in Sensors, SetEnabled(s) PROVE NoSensorLeftOn'
    BY <1>4, SameFields DEF SetEnabled, pressVars, overVars, historyVars
  <1>5. ASSUME NEW s \in Sensors, NEW g \in Groups, AddOrRemoveParent(s, g)
        PROVE  NoSensorLeftOn'
    BY <1>5, SameFields DEF AddOrRemoveParent, SetSensitive, fieldVars,
                            pressVars, overVars, historyVars
  <1>6. CASE Parse
    BY <1>6, SameFields DEF Parse, fieldVars, pressVars, overVars, historyVars
  <1>7. CASE ReplaceWorld
    BY <1>7 DEF ReplaceWorld, NoSensorLeftOn
  <1>8. CASE StartOfLoop
    BY <1>8, SameFields DEF StartOfLoop, sceneVars, fieldVars, pressVars,
                            overVars, historyVars
  <1>9. CASE Pick
    BY <1>9, PickLeavesNone
  <1>10. CASE NoPass
    BY <1>10, SameFields DEF NoPass, sceneVars, fieldVars, pressVars,
                             overVars, historyVars
  <1>11. CASE Button
    BY <1>11, ButtonLeavesNone
  <1>12. CASE Cursor
    BY <1>12, SameFields DEF Cursor, sceneVars, fieldVars, pressVars,
                             overVars, historyVars
  <1> QED
    BY <1>1, <1>2, <1>3, <1>4, <1>5, <1>6, <1>7, <1>8, <1>9, <1>10, <1>11,
       <1>12 DEF Next, Frame

LEMMA SpecIInv == Spec => []IInv
  <1>1. IInv /\ [Next]_vars => IInv'
    BY NextTypeOK, NextNavigates, NextNoneLeftOn, NextDragInv DEF IInv
  <1> QED BY <1>1, InitIInv, PTL DEF Spec

-----------------------------------------------------------------------------
(* isOver stays. *)

\* A pass that takes isOver away from a sensor the pointer is on ends a press
\* in which no pass saw the button stay down.
LEMMA PickDropsOnShortClick ==
  ASSUME IInv, Pick, NEW s \in Sensors, isOver[s], ~isOver'[s], PointerOn(s)
  PROVE  hypersensitive # NoGroup /\ ~dragged
  <1>1. PICK cos \in SomeGroup : Pick!3!(cos)
    BY DEF Pick
  <1>2. /\ lastOver # cos /\ ~lastOverButtonPressed
        /\ s \notin Touches(Takes(cos)) /\ s \in Touches(Takes(lastOver))
    BY <1>1
  <1>3. PICK g \in parents[s] : Under(g)
    BY DEF PointerOn
  <1>4. <<g, s>> \in SensorEvents /\ g \in Groups
    BY DEF IInv, TypeOK, Entries
  <1>5. s \in Touches(Takes(g))
    BY <1>2, <1>4 DEF Touches, Takes
  <1>6. hypersensitive # NoGroup
    <2> SUFFICES ASSUME hypersensitive = NoGroup PROVE FALSE
      OBVIOUS
    <2>1. Hit(g)
      BY <1>3, <1>4 DEF Hit
    <2>2. Hit(cos)
      BY <1>1, <1>4, <2>1 DEF RayHit
    <2>3. cos = g
      BY <2>1, <2>2, UnderIsUnique DEF Hit, IInv
    <2> QED BY <1>2, <1>5, <2>3
  <1>7. lastOver # NoGroup
    BY <1>2, NobodyTakes DEF Touches, IInv
  <1>8. ~dragged
    BY <1>2, <1>6, <1>7 DEF IInv, DragInv
  <1> QED BY <1>6, <1>8

\* Only Pick and a new world take isOver away.
LEMMA OthersKeepOver ==
  ASSUME IInv, [Next]_vars, ~Pick, ~ReplaceWorld
  PROVE  UNCHANGED isOver
  BY DEF Next, Frame, vars, PointerMoves, MouseButton, SetEnabled,
         AddOrRemoveParent, Parse, StartOfLoop, NoPass, Button, Cursor,
         sceneVars, fieldVars

-----------------------------------------------------------------------------
(* The theorems. *)

\* The variables keep their types, and every parent is recorded.
THEOREM TypeCorrect == Spec => []TypeOK
  <1>1. IInv => TypeOK
    BY DEF IInv
  <1> QED BY <1>1, SpecIInv, PTL

\* The user never navigates and drags at once, and picking is off only while
\* a sensor is pressed.
THEOREM NeverBoth == Spec => []NavigatesOrDrags
  <1>1. IInv => NavigatesOrDrags
    BY DEF IInv
  <1> QED BY <1>1, SpecIInv, PTL

\* No sensor is left over or active that was not disabled at the end.
THEOREM NoneLeftOn == Spec => []NoSensorLeftOn
  <1>1. IInv => NoSensorLeftOn
    BY DEF IInv
  <1> QED BY <1>1, SpecIInv, PTL

\* isOver goes off under the pointer only after a click of one pass.
THEOREM OverAlwaysStays == Spec => OverStays
  <1>1. IInv /\ [Next]_vars =>
          [\A s \in Sensors :
             isOver[s] /\ ~isOver'[s] /\ PointerOn(s) =>
               \/ hypersensitive # NoGroup /\ ~dragged
               \/ ReplaceWorld]_vars
    BY PickDropsOnShortClick, OthersKeepOver
  <1> QED BY <1>1, SpecIInv, PTL DEF Spec, OverStays

-----------------------------------------------------------------------------
(* The clock events. *)

TimeSensor ==
  [enabled : BOOLEAN, loop : BOOLEAN, startTime : Nat, stopTime : Nat,
   cycleInterval : Nat \ {0}, isActive : BOOLEAN, ctflag : Nat]

ClockTypeOK ==
  /\ now \in Nat /\ now >= FirstTime
  /\ node \in [Clocks -> TimeSensor]
  /\ \A c \in Clocks : node[c].cycleInterval = CycleOf[c]
  /\ life \in [Clocks -> {"none", "there", "given up", "dying"}]
  /\ ClockEvents \in Seq(Clocks \cup {NoClock})
  /\ cycled \subseteq Clocks /\ started \subseteq Clocks
  /\ touched \subseteq Clocks /\ ended \subseteq Clocks
  /\ forgotten \subseteq Clocks
  /\ calls \in Nat

Listed(c) == \E i \in DOMAIN ClockEvents : ClockEvents[i] = c

\* A node has one place in the list while it lives in the present world.
ListInv ==
  /\ \A i, j \in DOMAIN ClockEvents :
       ClockEvents[i] = ClockEvents[j] => i = j \/ ClockEvents[i] = NoClock
  /\ \A c \in Clocks :
       Listed(c) <=> life[c] \in {"there", "given up"} /\ c \notin forgotten

\* What stopped by itself has a stopTime after its startTime, and in the past.
EndedInv ==
  \A c \in ended :
    /\ ~node[c].isActive
    /\ node[c].startTime < node[c].stopTime
    /\ node[c].stopTime <= now

\* __ctflag holds the fraction of the last frame.
FlagInv ==
  \A c \in Clocks \ touched :
    Listed(c) /\ node[c].isActive /\ node[c].startTime <= now
      => node[c].ctflag = Fraction(node[c], now)

ClockIInv == ClockTypeOK /\ ListInv /\ EndedInv /\ FlagInv

(* do_active_inactive. *)

LEMMA DecidedType ==
  ASSUME NEW n \in TimeSensor, NEW t \in Nat
  PROVE  LET m == DoActiveInactive(n, t)
         IN  /\ m \in TimeSensor
             /\ m.cycleInterval = n.cycleInterval /\ m.loop = n.loop
             /\ m.enabled = n.enabled /\ m.ctflag = n.ctflag
  <1> DEFINE h == IF Stops(n, t) THEN Halted(n, t) ELSE n
  <1>1. /\ h \in TimeSensor
        /\ h.cycleInterval = n.cycleInterval /\ h.loop = n.loop
        /\ h.enabled = n.enabled /\ h.ctflag = n.ctflag
    BY DEF TimeSensor, Halted
  <1>2. DoActiveInactive(n, t) =
          IF Starts(h, t)
          THEN [h EXCEPT !.isActive = TRUE,
                         !.startTime = IF @ > 0 THEN @ ELSE t]
          ELSE h
    BY DEF DoActiveInactive
  <1> HIDE DEF h
  <1> QED BY <1>1, <1>2 DEF TimeSensor

(* A sensor whose startTime has come and that is active goes on, or halts; *)
(* it does not start again in the same tick.                               *)
LEMMA GoesOnOrHalts ==
  ASSUME NEW n \in TimeSensor, NEW t \in Nat, n.isActive, t >= n.startTime
  PROVE  LET m == DoActiveInactive(n, t)
         IN  \/ ~Stops(n, t) /\ m = n
             \/ /\ Stops(n, t) /\ m = Halted(n, t)
                /\ ~m.isActive /\ m.stopTime = t
                /\ m.startTime = n.startTime /\ n.startTime < t
  <1>1. CASE ~Stops(n, t)
    <2>1. ~Starts(n, t) BY DEF Starts
    <2> QED BY <1>1, <2>1 DEF DoActiveInactive
  <1>2. CASE Stops(n, t)
    <2>1. n.startTime < t
      BY <1>2 DEF Stops, TimeSensor
    <2>2. /\ Halted(n, t).startTime = n.startTime
          /\ Halted(n, t).stopTime = t
          /\ Halted(n, t).isActive = FALSE
      BY DEF Halted, TimeSensor
    <2>3. ~Starts(Halted(n, t), t)
      BY <2>1, <2>2 DEF Starts, TimeSensor
    <2> QED BY <1>2, <2>1, <2>2, <2>3 DEF DoActiveInactive
  <1> QED BY <1>1, <1>2

LEMMA StartsOrWaits ==
  ASSUME NEW n \in TimeSensor, NEW t \in Nat, ~n.isActive
  PROVE  LET m == DoActiveInactive(n, t)
         IN  \/ ~Starts(n, t) /\ m = n
             \/ /\ Starts(n, t) /\ m.isActive
                /\ m.startTime = IF n.startTime > 0 THEN n.startTime ELSE t
  <1>1. ~Stops(n, t) BY DEF Stops
  <1>2. CASE ~Starts(n, t)
    BY <1>1, <1>2 DEF DoActiveInactive
  <1>3. CASE Starts(n, t)
    <2>1. DoActiveInactive(n, t) =
            [n EXCEPT !.isActive = TRUE,
                      !.startTime = IF @ > 0 THEN @ ELSE t]
      BY <1>1, <1>3 DEF DoActiveInactive
    <2> QED BY <1>3, <2>1 DEF TimeSensor
  <1> QED BY <1>2, <1>3

LEMMA TickedType ==
  ASSUME NEW n \in TimeSensor, NEW t \in Nat
  PROVE  /\ Ticked(n, t) \in TimeSensor
         /\ Ticked(n, t).cycleInterval = n.cycleInterval
  <1> DEFINE m == DoActiveInactive(n, t)
  <1>1. m \in TimeSensor /\ m.cycleInterval = n.cycleInterval
    BY DecidedType
  <1>2. CASE ~n.enabled
    <2>1. Ticked(n, t) = [n EXCEPT !.isActive = FALSE]
      BY <1>2 DEF Ticked, Awaited
    <2> QED BY <2>1 DEF TimeSensor
  <1>3. CASE n.enabled /\ t < n.startTime
    BY <1>3 DEF Ticked, Awaited, TimeSensor
  <1>4. CASE Awaited(n, t) /\ ~m.isActive
    <2>1. Ticked(n, t) = m
      BY <1>4 DEF Ticked, Awaited, TimeSensor
    <2> QED BY <1>1, <2>1
  <1>5. CASE Awaited(n, t) /\ m.isActive
    <2>1. Ticked(n, t) = [m EXCEPT !.ctflag = Fraction(m, t)]
      BY <1>5 DEF Ticked, Awaited, TimeSensor
    <2>2. t >= m.startTime
      BY <1>5, GoesOnOrHalts, StartsOrWaits DEF Awaited, TimeSensor
    <2>3. Fraction(m, t) \in Nat
      BY <1>1, <2>2 DEF Fraction, TimeSensor
    <2> QED BY <1>1, <2>1, <2>3 DEF TimeSensor
  <1>6. n.enabled \in BOOLEAN /\ n.startTime \in Nat
    BY DEF TimeSensor
  <1> QED BY <1>2, <1>3, <1>4, <1>5, <1>6 DEF Awaited

\* A node that stopped by itself does not start again.
LEMMA EndedStays ==
  ASSUME NEW n \in TimeSensor, NEW t \in Nat,
         ~n.isActive, n.startTime < n.stopTime, n.stopTime < t
  PROVE  Ticked(n, t) = n
  <1>1. ~Starts(n, t)
    BY DEF Starts, TimeSensor
  <1>2. DoActiveInactive(n, t) = n
    BY <1>1, StartsOrWaits
  <1>3. [n EXCEPT !.isActive = FALSE] = n
    BY DEF TimeSensor
  <1>4. n.enabled \in BOOLEAN /\ n.startTime \in Nat
    BY DEF TimeSensor
  <1> QED BY <1>2, <1>3, <1>4 DEF Ticked, Awaited

\* One that stops by itself gets a stopTime after its startTime.
LEMMA HaltsAtEnd ==
  ASSUME NEW n \in TimeSensor, NEW t \in Nat,
         n.enabled, n.isActive, ~Ticked(n, t).isActive
  PROVE  /\ Ticked(n, t).startTime < Ticked(n, t).stopTime
         /\ Ticked(n, t).stopTime = t
  <1> DEFINE m == DoActiveInactive(n, t)
  <1>1. t >= n.startTime
    BY DEF Ticked, Awaited, TimeSensor
  <1>2. Awaited(n, t)
    BY <1>1 DEF Awaited
  <1>3. ~m.isActive
    <2>1. m \in TimeSensor BY DecidedType
    <2>2. SUFFICES ASSUME m.isActive PROVE FALSE
      OBVIOUS
    <2>3. Ticked(n, t) = [m EXCEPT !.ctflag = Fraction(m, t)]
      BY <1>1, <1>2, <2>2 DEF Ticked, TimeSensor
    <2>4. Ticked(n, t).isActive = m.isActive
      BY <2>1, <2>3 DEF TimeSensor
    <2> QED BY <2>2, <2>4
  <1>4. Ticked(n, t) = m
    BY <1>1, <1>2, <1>3 DEF Ticked, TimeSensor
  <1> QED BY <1>1, <1>3, <1>4, GoesOnOrHalts

\* After a tick that leaves it active, __ctflag is the fraction.
LEMMA TickedFlag ==
  ASSUME NEW n \in TimeSensor, NEW t \in Nat,
         Ticked(n, t).isActive, Ticked(n, t).startTime <= t
  PROVE  Ticked(n, t).ctflag = Fraction(Ticked(n, t), t)
  <1> DEFINE m == DoActiveInactive(n, t)
  <1>1. n.enabled
    <2>1. SUFFICES ASSUME ~n.enabled PROVE FALSE
      OBVIOUS
    <2>2. Ticked(n, t) = [n EXCEPT !.isActive = FALSE]
      BY <2>1 DEF Ticked, Awaited
    <2> QED BY <2>2 DEF TimeSensor
  <1>2. Awaited(n, t)
    BY <1>1 DEF Ticked, Awaited, TimeSensor
  <1>3. ~(t < n.startTime)
    BY <1>2 DEF Awaited, TimeSensor
  <1>4. m.isActive
    BY <1>1, <1>2, <1>3 DEF Ticked
  <1>5. Ticked(n, t) = [m EXCEPT !.ctflag = Fraction(m, t)]
    BY <1>1, <1>2, <1>3, <1>4 DEF Ticked
  <1>6. m \in TimeSensor
    BY DecidedType
  <1> QED BY <1>5, <1>6 DEF Fraction, TimeSensor

-----------------------------------------------------------------------------
(* The list. *)

\* DeleteFirst keeps the places of the others.
LEMMA DeletePlaces ==
  ASSUME NEW list \in Seq(Clocks \cup {NoClock}), NEW gone \in SUBSET Clocks
  PROVE  /\ DeleteFirst(list, gone) \in Seq(Clocks \cup {NoClock})
         /\ DOMAIN DeleteFirst(list, gone) = DOMAIN list
         /\ \A i \in DOMAIN list :
              DeleteFirst(list, gone)[i] =
                IF list[i] \in gone THEN NoClock ELSE list[i]
  <1>1. DOMAIN list = 1..Len(list) /\ Len(list) \in Nat
    OBVIOUS
  <1>2. \A i \in DOMAIN list : list[i] \in Clocks \cup {NoClock}
    OBVIOUS
  <1>3. DeleteFirst(list, gone) =
          [i \in 1..Len(list) |-> IF list[i] \in gone THEN NoClock ELSE list[i]]
    BY <1>1 DEF DeleteFirst
  <1>4. DeleteFirst(list, gone) \in [1..Len(list) -> Clocks \cup {NoClock}]
    BY <1>1, <1>2, <1>3
  <1>5. DeleteFirst(list, gone) \in Seq(Clocks \cup {NoClock})
    BY ONLY <1>1, <1>4 DEF Seq
  <1> QED BY <1>1, <1>3, <1>5

\* What a frame does, node by node.
LEMMA FrameByNode ==
  ASSUME ClockIInv, NEW t \in Nat, t > now, NEW freed, ClockFrame(t, freed)
  PROVE  /\ now' = t
         /\ ClockEvents' \in Seq(Clocks \cup {NoClock})
         /\ DOMAIN ClockEvents' = DOMAIN ClockEvents
         /\ \A i \in DOMAIN ClockEvents :
              ClockEvents'[i] = ClockEvents[i] \/ ClockEvents'[i] = NoClock
         /\ \A c \in Clocks :
              /\ Listed(c)' <=> Listed(c) /\ life[c] # "given up"
              /\ node'[c] = IF Listed(c)' THEN Ticked(node[c], t) ELSE node[c]
         /\ cycled' = {c \in Clocks : Listed(c)' /\ SendsCycleTime(node[c], t)}
         /\ started' = {c \in Clocks : /\ Listed(c)' /\ ~node[c].isActive
                                       /\ node'[c].isActive}
         /\ ended' = {c \in ended : life[c] # "given up"} \cup
                     {c \in Clocks : /\ Listed(c)' /\ node[c].enabled
                                     /\ node[c].isActive /\ ~node'[c].isActive}
         /\ touched' = {c \in touched : ~Listed(c)'}
  <1> DEFINE dead == {c \in Clocks : life[c] = "given up"}
             list == DeleteFirst(ClockEvents, dead)
             all  == {list[i] : i \in DOMAIN list} \ {NoClock}
  <1>1. /\ ClockEvents' = list /\ now' = t
        /\ node' = [c \in Clocks |-> IF c \in all THEN Ticked(node[c], t)
                                     ELSE node[c]]
        /\ cycled' = {c \in all : SendsCycleTime(node[c], t)}
        /\ started' = {c \in all : ~node[c].isActive /\ node'[c].isActive}
        /\ ended' = (ended \ dead) \cup
                    {c \in all : node[c].enabled /\ node[c].isActive
                                 /\ ~node'[c].isActive}
        /\ touched' = touched \ all
    BY DEF ClockFrame
  <1>2. ClockEvents \in Seq(Clocks \cup {NoClock})
    BY DEF ClockIInv, ClockTypeOK
  <1>3. /\ list \in Seq(Clocks \cup {NoClock})
        /\ DOMAIN list = DOMAIN ClockEvents
        /\ \A i \in DOMAIN ClockEvents :
             list[i] = IF ClockEvents[i] \in dead THEN NoClock
                       ELSE ClockEvents[i]
    BY <1>2, DeletePlaces
  <1> HIDE DEF list
  <1>4. all \subseteq Clocks
    <2>1. \A i \in DOMAIN ClockEvents : ClockEvents[i] \in Clocks \cup {NoClock}
      BY <1>2
    <2>2. \A i \in DOMAIN list : list[i] \in Clocks \cup {NoClock}
      BY <1>3, <2>1
    <2> QED BY <2>2
  <1>5. ASSUME NEW c \in Clocks
        PROVE  /\ Listed(c)' <=> c \in all
               /\ Listed(c)' <=> Listed(c) /\ life[c] # "given up"
    <2>1. Listed(c)' <=> \E i \in DOMAIN list : list[i] = c
      BY <1>1 DEF Listed
    <2>2. c # NoClock
      BY ClocksAssumption
    <2> QED BY <1>3, <2>1, <2>2 DEF Listed
  <1> HIDE DEF all
  <1>6. \A c \in Clocks :
          node'[c] = IF Listed(c)' THEN Ticked(node[c], t) ELSE node[c]
    BY <1>1, <1>5
  <1>7. cycled' = {c \in Clocks : Listed(c)' /\ SendsCycleTime(node[c], t)}
    BY <1>1, <1>4, <1>5
  <1>8. started' = {c \in Clocks : /\ Listed(c)' /\ ~node[c].isActive
                                   /\ node'[c].isActive}
    BY <1>1, <1>4, <1>5
  <1>9. touched \subseteq Clocks /\ ended \subseteq Clocks
    BY DEF ClockIInv, ClockTypeOK
  <1>10. touched' = {c \in touched : ~Listed(c)'}
    BY <1>1, <1>5, <1>9
  <1>11. ended' = {c \in ended : life[c] # "given up"} \cup
                  {c \in Clocks : /\ Listed(c)' /\ node[c].enabled
                                  /\ node[c].isActive /\ ~node'[c].isActive}
    BY <1>1, <1>4, <1>5, <1>9
  <1> QED BY <1>1, <1>3, <1>5, <1>6, <1>7, <1>8, <1>10, <1>11

LEMMA ClockInitIInv == ClockInit => ClockIInv
  <1> SUFFICES ASSUME ClockInit PROVE ClockIInv
    OBVIOUS
  <1>1. \A c \in Clocks : NewNode(c) \in TimeSensor
    BY ClocksAssumption DEF NewNode, TimeSensor
  <1>2. \A c \in Clocks : node[c] = NewNode(c)
    BY DEF ClockInit
  <1>3. ClockTypeOK
    BY <1>1, <1>2, ClocksAssumption DEF ClockInit, ClockTypeOK, NewNode
  <1>4. ListInv
    BY DEF ClockInit, ListInv, Listed
  <1>5. EndedInv /\ FlagInv
    BY DEF ClockInit, EndedInv, FlagInv, Listed
  <1> QED BY <1>3, <1>4, <1>5 DEF ClockIInv

LEMMA FrameIInv ==
  ASSUME ClockIInv, NEW t \in (now + 1)..(now + MaxStep),
         NEW freed \in SUBSET Clocks, ClockFrame(t, freed)
  PROVE  ClockIInv'
  <1>1. now \in Nat /\ t \in Nat /\ t > now /\ now >= FirstTime
    <2>1. now \in Nat /\ now >= FirstTime
      BY DEF ClockIInv, ClockTypeOK
    <2>2. MaxStep \in Nat
      BY ClocksAssumption
    <2> QED BY ONLY <2>1, <2>2, t \in (now + 1)..(now + MaxStep)
  <1>2. /\ node \in [Clocks -> TimeSensor]
        /\ \A c \in Clocks : node[c] \in TimeSensor
    BY DEF ClockIInv, ClockTypeOK
  <1>3. \A c \in Clocks : Ticked(node[c], t) \in TimeSensor
        /\ Ticked(node[c], t).cycleInterval = node[c].cycleInterval
    BY <1>1, <1>2, TickedType
  <1>4. /\ DOMAIN life' = Clocks /\ life' = [c \in Clocks |-> life'[c]]
        /\ \A c \in Clocks :
             \/ life[c] = "given up" /\ life'[c] = "dying"
             \/ life[c] = "dying" /\ life'[c] = "none"
             \/ life[c] # "given up" /\ life'[c] = life[c]
        /\ UNCHANGED <<forgotten, calls>>
    <2>1. life' = [c \in Clocks |->
                     CASE c \in {d \in Clocks : life[d] = "given up"} -> "dying"
                       [] c \in freed -> "none"
                       [] OTHER -> life[c]]
      BY DEF ClockFrame
    <2>2. ASSUME NEW c \in Clocks
          PROVE  \/ life[c] = "given up" /\ life'[c] = "dying"
                 \/ life[c] = "dying" /\ life'[c] = "none"
                 \/ life[c] # "given up" /\ life'[c] = life[c]
      <3>1. c \in freed => life[c] = "dying"
        BY DEF ClockFrame
      <3>2. CASE life[c] = "given up"
        BY <2>1, <3>1, <3>2
      <3>3. CASE c \in freed
        BY <2>1, <3>1, <3>3
      <3>4. CASE life[c] # "given up" /\ c \notin freed
        BY <2>1, <3>4
      <3> QED BY <3>2, <3>3, <3>4
    <2>3. UNCHANGED <<forgotten, calls>>
      BY DEF ClockFrame
    <2> QED BY <2>1, <2>2, <2>3
  <1>5. ClockTypeOK'
    <2>1. /\ node' \in [Clocks -> TimeSensor]
          /\ \A c \in Clocks : node'[c].cycleInterval = CycleOf[c]
      <3>1. node' = [c \in Clocks |-> node'[c]]
        BY DEF ClockFrame
      <3>2. \A c \in Clocks : /\ node'[c] \in TimeSensor
                              /\ node'[c].cycleInterval = CycleOf[c]
        BY <1>1, <1>2, <1>3, FrameByNode DEF ClockIInv, ClockTypeOK
      <3> QED BY <3>1, <3>2
    <2>2. life' \in [Clocks -> {"none", "there", "given up", "dying"}]
      BY <1>4 DEF ClockIInv, ClockTypeOK
    <2>3. /\ now' = t /\ ClockEvents' \in Seq(Clocks \cup {NoClock})
          /\ cycled' \subseteq Clocks /\ started' \subseteq Clocks
          /\ touched' \subseteq Clocks /\ ended' \subseteq Clocks
      BY <1>1, FrameByNode DEF ClockIInv, ClockTypeOK
    <2>4. forgotten' \subseteq Clocks /\ calls' \in Nat
      BY <1>4 DEF ClockIInv, ClockTypeOK
    <2>5. now' \in Nat /\ now' >= FirstTime
      BY <1>1, <2>3, ClocksAssumption
    <2> QED BY <2>1, <2>2, <2>3, <2>4, <2>5 DEF ClockTypeOK
  <1>6. ListInv'
    <2>1. \A i, j \in DOMAIN ClockEvents' :
            ClockEvents'[i] = ClockEvents'[j]
              => i = j \/ ClockEvents'[i] = NoClock
      BY <1>1, FrameByNode DEF ClockIInv, ListInv
    <2>2. ASSUME NEW c \in Clocks
          PROVE  Listed(c)' <=> life'[c] \in {"there", "given up"}
                                /\ c \notin forgotten'
      <3>1. Listed(c)' <=> Listed(c) /\ life[c] # "given up"
        BY <1>1, FrameByNode
      <3>2. Listed(c) <=> life[c] \in {"there", "given up"}
                          /\ c \notin forgotten
        BY DEF ClockIInv, ListInv
      <3> QED BY <1>4, <3>1, <3>2
    <2> QED BY <2>1, <2>2 DEF ListInv
  <1>7. EndedInv'
    <2> SUFFICES ASSUME NEW c \in ended'
                 PROVE  /\ ~node'[c].isActive
                        /\ node'[c].startTime < node'[c].stopTime
                        /\ node'[c].stopTime <= now'
      BY DEF EndedInv
    <2>1. c \in Clocks /\ now' = t
      BY <1>1, FrameByNode DEF ClockIInv, ClockTypeOK
    <2>2. node[c] \in TimeSensor
      BY <1>2, <2>1
    <2>3. CASE c \in ended
      <3>1. /\ ~node[c].isActive /\ node[c].startTime < node[c].stopTime
            /\ node[c].stopTime <= now
        BY <2>3 DEF ClockIInv, EndedInv
      <3>2. node[c].stopTime \in Nat
        BY <2>2 DEF TimeSensor
      <3>3. node[c].stopTime < t
        BY <1>1, <3>1, <3>2
      <3>4. Ticked(node[c], t) = node[c]
        BY <1>1, <2>2, <3>1, <3>3, EndedStays
      <3>5. node'[c] = node[c]
        BY <1>1, <2>1, <3>4, FrameByNode
      <3> QED BY <1>1, <2>1, <3>1, <3>2, <3>3, <3>5
    <2>4. CASE c \notin ended
      <3>1. /\ Listed(c)' /\ node[c].enabled /\ node[c].isActive
            /\ ~node'[c].isActive
        BY <1>1, <2>4, FrameByNode
      <3>2. node'[c] = Ticked(node[c], t)
        BY <1>1, <2>1, <3>1, FrameByNode
      <3> QED BY <1>1, <2>1, <2>2, <3>1, <3>2, HaltsAtEnd
    <2> QED BY <2>3, <2>4
  <1>8. FlagInv'
    <2> SUFFICES ASSUME NEW c \in Clocks, Listed(c)', node'[c].isActive,
                        node'[c].startTime <= now'
                 PROVE  node'[c].ctflag = Fraction(node'[c], now')
      BY DEF FlagInv
    <2>1. node'[c] = Ticked(node[c], t) /\ now' = t
      BY <1>1, FrameByNode
    <2> QED BY <1>1, <1>2, <2>1, TickedFlag
  <1> QED BY <1>5, <1>6, <1>7, <1>8 DEF ClockIInv

\* A new node takes the first hole, or the end of the list.
LEMMA AddPlaces ==
  ASSUME ClockTypeOK, ListInv, NEW c \in Clocks, ~Listed(c)
  PROVE  /\ AddFirst(c) \in Seq(Clocks \cup {NoClock})
         /\ \E k \in DOMAIN AddFirst(c) :
              /\ AddFirst(c)[k] = c
              /\ k \in DOMAIN ClockEvents => ClockEvents[k] = NoClock
              /\ DOMAIN AddFirst(c) = DOMAIN ClockEvents \cup {k}
              /\ \A i \in DOMAIN ClockEvents \ {k} :
                   AddFirst(c)[i] = ClockEvents[i]
  <1>1. /\ ClockEvents \in Seq(Clocks \cup {NoClock})
        /\ DOMAIN ClockEvents = 1..Len(ClockEvents) /\ Len(ClockEvents) \in Nat
    <2>1. ClockEvents \in Seq(Clocks \cup {NoClock})
      BY DEF ClockTypeOK
    <2> QED BY <2>1
  <1>2. Places(c) = {}
    BY DEF Places, Listed
  <1>3. CASE Places(NoClock) # {}
    <2> DEFINE k == First(Places(NoClock))
    <2>1. k \in Places(NoClock)
      <3>1. \E i \in Places(NoClock) : \A j \in Places(NoClock) : i <= j
        <4>1. Places(NoClock) \subseteq Nat
          BY <1>1 DEF Places
        <4>2. PICK i \in Places(NoClock) :
                \A j \in Places(NoClock) : <<j, i>> \notin OpToRel(<, Nat)
          BY <1>3, <4>1, NatLessThanWellFounded, WFMin
        <4>3. \A j \in Places(NoClock) : ~(j < i)
          BY <4>1, <4>2 DEF OpToRel
        <4> QED BY <4>1, <4>3
      <3> QED BY <3>1 DEF First
    <2>2. k \in DOMAIN ClockEvents /\ ClockEvents[k] = NoClock
      BY <2>1 DEF Places
    <2>3. AddFirst(c) = [ClockEvents EXCEPT ![k] = c]
      BY <1>2, <1>3 DEF AddFirst
    <2> HIDE DEF k
    <2>4. [ClockEvents EXCEPT ![k] = c] \in Seq(Clocks \cup {NoClock})
      BY <1>1, <2>2
    <2>5. DOMAIN AddFirst(c) = DOMAIN ClockEvents
          /\ AddFirst(c)[k] = c
          /\ \A i \in DOMAIN ClockEvents \ {k} : AddFirst(c)[i] = ClockEvents[i]
      BY <2>2, <2>3
    <2> QED BY <2>2, <2>3, <2>4, <2>5
  <1>4. CASE Places(NoClock) = {}
    <2>1. AddFirst(c) = Append(ClockEvents, c)
      BY <1>2, <1>4 DEF AddFirst
    <2>2. /\ Append(ClockEvents, c) \in Seq(Clocks \cup {NoClock})
          /\ DOMAIN Append(ClockEvents, c) = 1..(Len(ClockEvents) + 1)
          /\ \A i \in 1..Len(ClockEvents) :
               Append(ClockEvents, c)[i] = ClockEvents[i]
          /\ Append(ClockEvents, c)[Len(ClockEvents) + 1] = c
      BY <1>1
    <2>3. Len(ClockEvents) + 1 \notin DOMAIN ClockEvents
      BY <1>1
    <2>4. DOMAIN Append(ClockEvents, c)
            = DOMAIN ClockEvents \cup {Len(ClockEvents) + 1}
      BY <1>1, <2>2
    <2> QED BY <1>1, <2>1, <2>2, <2>3, <2>4
  <1> QED BY <1>3, <1>4

LEMMA Counted ==
  ASSUME ClockIInv
  PROVE  now \in Nat /\ calls \in Nat
  BY DEF ClockIInv, ClockTypeOK

LEMMA MakeIInv ==
  ASSUME ClockIInv, NEW c \in Clocks, NEW n \in TimeSensor,
         n.cycleInterval = CycleOf[c], Make(c, n)
  PROVE  ClockIInv'
  <1>1. /\ ~Listed(c) /\ ClockTypeOK /\ ListInv
        /\ ClockEvents' = AddFirst(c)
        /\ life[c] = "none"
    BY DEF Make, ClockIInv, ListInv
  <1>2. /\ life' = [life EXCEPT ![c] = "there"]
        /\ node' = [node EXCEPT ![c] = n]
        /\ touched' = touched \cup {c}
        /\ ended' = ended \ {c} /\ forgotten' = forgotten \ {c}
        /\ UNCHANGED <<now, cycled, started>>
    BY DEF Make
  <1>3. PICK k \in DOMAIN ClockEvents' :
          /\ ClockEvents'[k] = c
          /\ k \in DOMAIN ClockEvents => ClockEvents[k] = NoClock
          /\ DOMAIN ClockEvents' = DOMAIN ClockEvents \cup {k}
          /\ \A i \in DOMAIN ClockEvents \ {k} :
               ClockEvents'[i] = ClockEvents[i]
    <2>1. \E k \in DOMAIN AddFirst(c) :
            /\ AddFirst(c)[k] = c
            /\ k \in DOMAIN ClockEvents => ClockEvents[k] = NoClock
            /\ DOMAIN AddFirst(c) = DOMAIN ClockEvents \cup {k}
            /\ \A i \in DOMAIN ClockEvents \ {k} :
                 AddFirst(c)[i] = ClockEvents[i]
      BY <1>1, AddPlaces
    <2>2. ClockEvents' = AddFirst(c)
      BY <1>1
    <2> QED BY ONLY <2>1, <2>2
  <1>4. /\ Listed(c)'
        /\ \A d \in Clocks \ {c} : Listed(d)' <=> Listed(d)
    BY <1>3, ClocksAssumption DEF Listed
  <1>5. ClockTypeOK'
    <2>1. ClockEvents' \in Seq(Clocks \cup {NoClock})
      BY <1>1, AddPlaces
    <2>2. calls' \in Nat
      <3>1. calls' = calls + 1
        BY DEF Make
      <3> QED BY <3>1, Counted
    <2>3. node' \in [Clocks -> TimeSensor]
          /\ \A d \in Clocks : node'[d].cycleInterval = CycleOf[d]
      BY <1>2 DEF ClockIInv, ClockTypeOK
    <2>4. life' \in [Clocks -> {"none", "there", "given up", "dying"}]
      BY <1>2 DEF ClockIInv, ClockTypeOK
    <2>5. /\ cycled' \subseteq Clocks /\ started' \subseteq Clocks
          /\ touched' \subseteq Clocks /\ ended' \subseteq Clocks
          /\ forgotten' \subseteq Clocks
      BY <1>2 DEF ClockIInv, ClockTypeOK
    <2>6. now' \in Nat /\ now' >= FirstTime
      BY <1>2 DEF ClockIInv, ClockTypeOK
    <2> QED BY <2>1, <2>2, <2>3, <2>4, <2>5, <2>6 DEF ClockTypeOK
  <1>6. ListInv'
    <2>1. \A i, j \in DOMAIN ClockEvents' :
            ClockEvents'[i] = ClockEvents'[j]
              => i = j \/ ClockEvents'[i] = NoClock
      <3>1. \A i \in DOMAIN ClockEvents : ClockEvents[i] # c
        BY <1>1 DEF Listed
      <3>2. \A i, j \in DOMAIN ClockEvents :
              ClockEvents[i] = ClockEvents[j]
                => i = j \/ ClockEvents[i] = NoClock
        BY <1>1 DEF ListInv
      <3> QED BY ONLY <1>3, <3>1, <3>2
    <2>2. ASSUME NEW d \in Clocks
          PROVE  Listed(d)' <=> life'[d] \in {"there", "given up"}
                                /\ d \notin forgotten'
      <3>1. life \in [Clocks -> {"none", "there", "given up", "dying"}]
        BY <1>1 DEF ClockTypeOK
      <3>2. Listed(d) <=> life[d] \in {"there", "given up"}
                          /\ d \notin forgotten
        BY <1>1 DEF ListInv
      <3> QED BY <1>2, <1>4, <3>1, <3>2
    <2> QED BY <2>1, <2>2 DEF ListInv
  <1>7. EndedInv'
    BY <1>2 DEF ClockIInv, ClockTypeOK, EndedInv
  <1>8. FlagInv'
    BY <1>2, <1>4 DEF ClockIInv, ClockTypeOK, FlagInv, Fraction
  <1> QED BY <1>5, <1>6, <1>7, <1>8 DEF ClockIInv

LEMMA SetFieldIInv ==
  ASSUME ClockIInv, NEW c \in Clocks, NEW n \in TimeSensor,
         n.cycleInterval = CycleOf[c], SetField(c, n)
  PROVE  ClockIInv'
  <1>1. /\ node' = [node EXCEPT ![c] = n]
        /\ touched' = touched \cup {c} /\ ended' = ended \ {c}
        /\ UNCHANGED <<now, life, ClockEvents, cycled, started, forgotten>>
    BY DEF SetField
  <1>2. \A d \in Clocks : Listed(d)' <=> Listed(d)
    BY <1>1 DEF Listed
  <1>3. ClockTypeOK'
    <2>1. node' \in [Clocks -> TimeSensor]
          /\ \A d \in Clocks : node'[d].cycleInterval = CycleOf[d]
      BY <1>1 DEF ClockIInv, ClockTypeOK
    <2>2. calls' \in Nat
      <3>1. calls' = calls + 1
        BY DEF SetField
      <3> QED BY <3>1, Counted
    <2> QED BY <1>1, <2>1, <2>2 DEF ClockIInv, ClockTypeOK
  <1>4. ListInv'
    BY <1>1, <1>2 DEF ClockIInv, ListInv
  <1>5. EndedInv'
    BY <1>1 DEF ClockIInv, ClockTypeOK, EndedInv
  <1>6. FlagInv'
    BY <1>1, <1>2 DEF ClockIInv, ClockTypeOK, FlagInv, Fraction
  <1> QED BY <1>3, <1>4, <1>5, <1>6 DEF ClockIInv

LEMMA SetIInv ==
  ASSUME ClockIInv, NEW c \in Clocks, Set(c)
  PROVE  ClockIInv'
  <1>1. node[c] \in TimeSensor /\ node[c].cycleInterval = CycleOf[c]
    BY DEF ClockIInv, ClockTypeOK
  <1>2. CASE SetField(c, [node[c] EXCEPT !.enabled = ~@])
    <2>1. /\ [node[c] EXCEPT !.enabled = ~@] \in TimeSensor
          /\ [node[c] EXCEPT !.enabled = ~@].cycleInterval = CycleOf[c]
      BY <1>1 DEF TimeSensor
    <2> QED BY <1>2, <2>1, SetFieldIInv
  <1>3. CASE SetField(c, [node[c] EXCEPT !.loop = ~@])
    <2>1. /\ [node[c] EXCEPT !.loop = ~@] \in TimeSensor
          /\ [node[c] EXCEPT !.loop = ~@].cycleInterval = CycleOf[c]
      BY <1>1 DEF TimeSensor
    <2> QED BY <1>3, <2>1, SetFieldIInv
  <1>4. Moments \subseteq Nat
    <2>1. now \in Nat /\ now >= FirstTime
      BY DEF ClockIInv, ClockTypeOK
    <2>2. CycleOf[c] \in Nat /\ CycleOf[c] >= 1 /\ CycleOf[c] < FirstTime
      BY ClocksAssumption
    <2>3. FirstTime \in Nat
      BY ClocksAssumption
    <2>4. now - 1 \in Nat /\ now + 2 \in Nat
      BY ONLY <2>1, <2>2, <2>3
    <2> QED BY <2>1, <2>4 DEF Moments
  <1>5. CASE \E t \in Moments : SetField(c, [node[c] EXCEPT !.startTime = t])
    <2>1. PICK t \in Moments : SetField(c, [node[c] EXCEPT !.startTime = t])
      BY <1>5
    <2>2. /\ [node[c] EXCEPT !.startTime = t] \in TimeSensor
          /\ [node[c] EXCEPT !.startTime = t].cycleInterval = CycleOf[c]
      BY <1>1, <1>4 DEF TimeSensor
    <2> QED BY <2>1, <2>2, SetFieldIInv
  <1>6. CASE \E t \in Moments : SetField(c, [node[c] EXCEPT !.stopTime = t])
    <2>1. PICK t \in Moments : SetField(c, [node[c] EXCEPT !.stopTime = t])
      BY <1>6
    <2>2. /\ [node[c] EXCEPT !.stopTime = t] \in TimeSensor
          /\ [node[c] EXCEPT !.stopTime = t].cycleInterval = CycleOf[c]
      BY <1>1, <1>4 DEF TimeSensor
    <2> QED BY <2>1, <2>2, SetFieldIInv
  <1> QED BY <1>2, <1>3, <1>5, <1>6 DEF Set

LEMMA DisposeIInv ==
  ASSUME ClockIInv, NEW c \in Clocks, Dispose(c)
  PROVE  ClockIInv'
  <1>1. /\ life[c] = "there" /\ life' = [life EXCEPT ![c] = "given up"]
        /\ UNCHANGED <<now, node, ClockEvents, cycled, started, touched, ended,
                       forgotten>>
    BY DEF Dispose, clockHistory
  <1>2. \A d \in Clocks : Listed(d)' <=> Listed(d)
    BY <1>1 DEF Listed
  <1>3. ClockTypeOK'
    <2>1. calls' \in Nat
      <3>1. calls' = calls + 1
        BY DEF Dispose
      <3> QED BY <3>1, Counted
    <2>2. life' \in [Clocks -> {"none", "there", "given up", "dying"}]
      BY <1>1 DEF ClockIInv, ClockTypeOK
    <2> QED BY <1>1, <2>1, <2>2 DEF ClockIInv, ClockTypeOK
  <1>4. ListInv'
    BY <1>1, <1>2 DEF ClockIInv, ClockTypeOK, ListInv
  <1>5. EndedInv' /\ FlagInv'
    BY <1>1, <1>2 DEF ClockIInv, EndedInv, FlagInv, Fraction
  <1> QED BY <1>3, <1>4, <1>5 DEF ClockIInv

LEMMA KillOldWorldIInv ==
  ASSUME ClockIInv, NEW kept \in SUBSET Clocks, KillOldWorld(kept)
  PROVE  ClockIInv'
  <1>1. /\ life' = [c \in Clocks |-> IF life[c] = "there" /\ c \notin kept
                                     THEN "given up" ELSE life[c]]
        /\ ClockEvents' = <<>>
        /\ forgotten' = forgotten \cup {c \in Clocks : life[c] # "none"}
        /\ UNCHANGED <<now, node, cycled, started, touched, ended>>
    BY DEF KillOldWorld
  <1>2. /\ DOMAIN ClockEvents' = {}
        /\ ClockEvents' \in Seq(Clocks \cup {NoClock})
    <2>1. ClockEvents' = <<>>
      BY <1>1
    <2> QED BY ONLY <2>1
  <1>3. \A c \in Clocks : ~Listed(c)'
    BY <1>2 DEF Listed
  <1>4. ClockTypeOK'
    <2>1. calls' \in Nat
      <3>1. calls' = calls + 1
        BY DEF KillOldWorld
      <3> QED BY <3>1, Counted
    <2>2. life' \in [Clocks -> {"none", "there", "given up", "dying"}]
      BY <1>1 DEF ClockIInv, ClockTypeOK
    <2>3. ClockEvents' \in Seq(Clocks \cup {NoClock})
      BY <1>2
    <2>4. forgotten' \subseteq Clocks
      BY <1>1 DEF ClockIInv, ClockTypeOK
    <2> QED BY <1>1, <2>1, <2>2, <2>3, <2>4 DEF ClockIInv, ClockTypeOK
  <1>5. ListInv'
    <2>1. \A i, j \in DOMAIN ClockEvents' :
            ClockEvents'[i] = ClockEvents'[j]
              => i = j \/ ClockEvents'[i] = NoClock
      BY <1>2
    <2>2. \A c \in Clocks : life'[c] \in {"there", "given up"}
                              => c \in forgotten'
      BY <1>1
    <2> QED BY <1>3, <2>1, <2>2 DEF ListInv
  <1>6. EndedInv' /\ FlagInv'
    BY <1>1, <1>3 DEF ClockIInv, EndedInv, FlagInv
  <1> QED BY <1>4, <1>5, <1>6 DEF ClockIInv

LEMMA ClockNextIInv == ClockIInv /\ [ClockNext]_clockVars => ClockIInv'
  <1> SUFFICES ASSUME ClockIInv, [ClockNext]_clockVars PROVE ClockIInv'
    OBVIOUS
  <1>1. ASSUME NEW t \in (now + 1)..(now + MaxStep), NEW freed \in SUBSET Clocks,
               ClockFrame(t, freed)
        PROVE  ClockIInv'
    BY <1>1, FrameIInv
  <1>2. ASSUME NEW c \in Clocks, Set(c) \/ Dispose(c)
        PROVE  ClockIInv'
    BY <1>2, SetIInv, DisposeIInv
  <1>3. ASSUME NEW c \in Clocks, NEW l \in BOOLEAN, NEW s \in {0, now + 1},
               Make(c, [NewNode(c) EXCEPT !.loop = l, !.startTime = s])
        PROVE  ClockIInv'
    <2> DEFINE n == [NewNode(c) EXCEPT !.loop = l, !.startTime = s]
    <2>1. s \in Nat
      BY Counted
    <2>2. NewNode(c) \in TimeSensor /\ NewNode(c).cycleInterval = CycleOf[c]
      BY ClocksAssumption DEF NewNode, TimeSensor
    <2>3. n \in TimeSensor /\ n.cycleInterval = CycleOf[c]
      BY <2>1, <2>2 DEF TimeSensor
    <2> QED BY <1>3, <2>3, MakeIInv
  <1>4. ASSUME NEW kept \in SUBSET Clocks, KillOldWorld(kept)
        PROVE  ClockIInv'
    BY <1>4, KillOldWorldIInv
  <1>5. CASE UNCHANGED clockVars
    <2>1. UNCHANGED <<now, node, life, ClockEvents, cycled, started, touched,
                      ended, forgotten, calls>>
      BY <1>5 DEF clockVars, clockHistory
    <2>2. \A c : Listed(c)' <=> Listed(c)
      BY <2>1 DEF Listed
    <2>3. ClockTypeOK' = ClockTypeOK /\ ListInv' = ListInv
      BY <2>1, <2>2 DEF ClockTypeOK, ListInv
    <2>4. EndedInv' = EndedInv /\ FlagInv' = FlagInv
      BY <2>1, <2>2 DEF EndedInv, FlagInv, Fraction
    <2> QED BY <2>3, <2>4 DEF ClockIInv
  <1> QED BY <1>1, <1>2, <1>3, <1>4, <1>5 DEF ClockNext

LEMMA ClockSpecIInv == ClockSpec => []ClockIInv
  BY ClockInitIInv, ClockNextIInv, PTL DEF ClockSpec

-----------------------------------------------------------------------------
(* What follows from the invariant. *)

\* The time moves only in a frame.
LEMMA TimeMovesInFrame ==
  ASSUME ClockNext, now' # now
  PROVE  \E t \in (now + 1)..(now + MaxStep), freed \in SUBSET Clocks :
           ClockFrame(t, freed)
  BY DEF ClockNext, Set, SetField, Dispose, Make, KillOldWorld

LEMMA PlacesListed == \A c : Places(c) # {} <=> Listed(c)
  BY DEF Places, Listed

(* From one cycle to the next: when less than a whole cycle has passed, the*)
(* fraction falls exactly when the number of the cycle grows.              *)
LEMMA Wraps ==
  ASSUME NEW d \in Nat \ {0}, NEW a \in Nat, NEW b \in Nat, a < b, b - a < d
  PROVE  b % d < a % d <=> b \div d > a \div d
  <1>1. PICK p \in Nat, q \in Nat, r \in Nat, u \in Nat :
          /\ p = a \div d /\ q = b \div d /\ r = a % d /\ u = b % d
    OBVIOUS
  <1>2. a = d * p + r /\ r < d
    BY <1>1
  <1>3. b = d * q + u /\ u < d
    BY <1>1
  <1>4. CASE q < p
    <2>1. q + 1 <= p
      BY <1>4
    <2>2. d * (q + 1) <= d * p
      BY <2>1
    <2>3. d * (q + 1) = d * q + d
      OBVIOUS
    <2>4. d * q \in Nat /\ d * p \in Nat
      OBVIOUS
    <2> QED BY <1>2, <1>3, <2>2, <2>3, <2>4
  <1>5. CASE q = p
    BY <1>1, <1>2, <1>3, <1>5
  <1>6. CASE q = p + 1
    <2>1. d * q = d * p + d
      BY <1>6
    <2>2. d * p \in Nat
      OBVIOUS
    <2> QED BY <1>1, <1>2, <1>3, <1>6, <2>1, <2>2
  <1>7. CASE q > p + 1
    <2>1. q >= p + 2
      BY <1>7
    <2>2. d * q >= d * (p + 2)
      BY <2>1
    <2>3. d * (p + 2) = d * p + 2 * d
      OBVIOUS
    <2>4. d * q \in Nat /\ d * p \in Nat
      OBVIOUS
    <2> QED BY <1>2, <1>3, <2>2, <2>3, <2>4
  <1> QED BY <1>4, <1>5, <1>6, <1>7

\* What do_active_inactive decides is what the fields say.
LEMMA TickObeys ==
  ASSUME NEW n \in TimeSensor, NEW t \in Nat, Awaited(n, t)
  PROVE  LET active == Ticked(n, t).isActive
             wanted == n.loop \/ n.startTime > 0 \/ t < n.stopTime
         IN  /\ active <=> DoActiveInactive(n, t).isActive
             /\ active => Due(n, t) \/ t = n.stopTime \/ ~n.isActive
             /\ Due(n, t) /\ wanted => active
  <1> DEFINE m == DoActiveInactive(n, t)
             wanted == n.loop \/ n.startTime > 0 \/ t < n.stopTime
  <1>1. n.enabled /\ t >= n.startTime /\ ~(t < n.startTime)
    BY DEF Awaited, TimeSensor
  <1>2. Ticked(n, t).isActive <=> m.isActive
    <2>1. m \in TimeSensor
      BY DecidedType
    <2>2. CASE ~m.isActive
      BY <1>1, <2>2 DEF Ticked
    <2>3. CASE m.isActive
      <3>1. Ticked(n, t) = [m EXCEPT !.ctflag = Fraction(m, t)]
        BY <1>1, <2>3 DEF Ticked
      <3>2. Ticked(n, t).isActive = m.isActive
        BY <2>1, <3>1 DEF TimeSensor
      <3> QED BY <3>2
    <2> QED BY <2>2, <2>3
  <1>3. CASE n.isActive
    <2>1. m.isActive <=> ~Stops(n, t)
      BY <1>1, <1>3, GoesOnOrHalts
    <2>2. ~Stops(n, t) => Due(n, t) \/ t = n.stopTime
      BY <1>1, <1>3 DEF Stops, Due, TimeSensor
    <2>3. Due(n, t) => ~Stops(n, t)
      BY <1>1 DEF Stops, Due, TimeSensor
    <2> QED BY <1>2, <2>1, <2>2, <2>3
  <1>4. CASE ~n.isActive
    <2>1. Starts(n, t) => m.isActive
      BY <1>4, StartsOrWaits
    <2>2. Due(n, t) /\ wanted => Starts(n, t)
      BY <1>1, <1>4 DEF Starts, Due, TimeSensor
    <2> QED BY <1>2, <1>4, <2>1, <2>2
  <1> QED BY <1>3, <1>4

\* A sensor that starts sends cycleTime: __ctflag is above every fraction.
LEMMA StartSendsCycleTime ==
  ASSUME NEW n \in TimeSensor, NEW t \in Nat, Awaited(n, t), ~n.isActive,
         DoActiveInactive(n, t).isActive
  PROVE  SendsCycleTime(n, t)
  <1> DEFINE m == DoActiveInactive(n, t)
  <1>1. /\ m \in TimeSensor /\ m.cycleInterval = n.cycleInterval
        /\ t >= m.startTime
    <2>1. m.startTime = n.startTime \/ m.startTime = t
      BY StartsOrWaits
    <2>2. t >= n.startTime
      BY DEF Awaited
    <2> QED BY <2>1, <2>2, DecidedType
  <1>2. FlagBefore(n, m) = 10 * n.cycleInterval
    BY DEF FlagBefore, Forced
  <1>3. t - m.startTime \in Nat /\ m.cycleInterval \in Nat \ {0}
    BY <1>1 DEF TimeSensor
  <1>4. (t - m.startTime) % m.cycleInterval < m.cycleInterval
    BY <1>3
  <1>5. (t - m.startTime) % m.cycleInterval \in Nat
    BY <1>3
  <1>6. Fraction(m, t) \in Nat /\ Fraction(m, t) <= m.cycleInterval
    BY <1>3, <1>4, <1>5 DEF Fraction
  <1>7. Fraction(m, t) < FlagBefore(n, m)
    BY <1>1, <1>2, <1>3, <1>6
  <1> QED BY <1>7 DEF SendsCycleTime

(* A sensor that goes on sends cycleTime exactly when the number of the    *)
(* cycle has grown, if less than a whole cycle has passed.                 *)
LEMMA GoingOnSendsCycleTime ==
  ASSUME NEW n \in TimeSensor, NEW t \in Nat, NEW s \in Nat, s < t,
         Awaited(n, t), n.isActive, DoActiveInactive(n, t).isActive,
         n.startTime <= s, n.ctflag = Fraction(n, s),
         n.loop => t - s < n.cycleInterval
  PROVE  SendsCycleTime(n, t) <=> n.loop /\ Cycle(n, t) > Cycle(n, s)
  <1> DEFINE a == s - n.startTime
             b == t - n.startTime
             d == n.cycleInterval
  <1>1. DoActiveInactive(n, t) = n
    BY GoesOnOrHalts DEF Awaited
  <1>2. SendsCycleTime(n, t) <=> Fraction(n, t) < Fraction(n, s)
    BY <1>1 DEF SendsCycleTime, FlagBefore
  <1>3. /\ a \in Nat /\ b \in Nat /\ d \in Nat \ {0} /\ a < b /\ b - a = t - s
        /\ n.loop \in BOOLEAN
    BY DEF TimeSensor
  <1>4. CASE n.loop
    <2>1. Fraction(n, t) = b % d /\ Fraction(n, s) = a % d
      BY <1>4 DEF Fraction
    <2>2. Cycle(n, t) = b \div d /\ Cycle(n, s) = a \div d
      BY DEF Cycle
    <2> HIDE DEF a, b, d
    <2>3. b % d < a % d <=> b \div d > a \div d
      <3>1. b - a < d
        BY <1>3, <1>4 DEF d
      <3> QED BY <1>3, <3>1, Wraps
    <2> QED BY <1>2, <1>4, <2>1, <2>2, <2>3
  <1>5. CASE ~n.loop
    <2>1. /\ Fraction(n, t) = IF b > d THEN d ELSE b
          /\ Fraction(n, s) = IF a > d THEN d ELSE a
      BY <1>5 DEF Fraction
    <2> HIDE DEF a, b, d
    <2>2. ~(Fraction(n, t) < Fraction(n, s))
      BY <1>3, <2>1
    <2> QED BY <1>2, <1>5, <2>2
  <1> QED BY <1>3, <1>4, <1>5

\* Every field and every history keeps its type.
THEOREM ClockTypeCorrect == ClockSpec => []ClockTypeOK
  <1>1. ClockIInv => ClockTypeOK
    BY DEF ClockIInv
  <1> QED BY <1>1, ClockSpecIInv, PTL

(* Every node of the present world has exactly one place in ClockEvents    *)
(* while it lives, and so ticks once in a frame, whatever was deleted and  *)
(* added in between (add_first, delete_first, kill_clockEvents).           *)
THEOREM OnePlaceEach == ClockSpec => []EachTicksOnce
  <1>1. ASSUME ClockIInv PROVE EachTicksOnce
    <2> SUFFICES ASSUME NEW c \in Clocks
                 PROVE  Cardinality(Places(c)) =
                          IF life[c] \in {"there", "given up"}
                             /\ c \notin forgotten THEN 1 ELSE 0
      BY DEF EachTicksOnce
    <2>1. Listed(c) <=> life[c] \in {"there", "given up"} /\ c \notin forgotten
      BY <1>1 DEF ClockIInv, ListInv
    <2>2. CASE Listed(c)
      <3>1. PICK i \in DOMAIN ClockEvents : ClockEvents[i] = c
        BY <2>2 DEF Listed
      <3>2. Places(c) = {i}
        BY <1>1, <3>1, ClocksAssumption DEF Places, ClockIInv, ListInv
      <3> QED BY <2>1, <2>2, <3>2, FS_Singleton
    <2>3. CASE ~Listed(c)
      <3>1. Places(c) = {}
        BY <2>3, PlacesListed
      <3> QED BY <2>1, <2>3, <3>1, FS_EmptySet
    <2> QED BY <2>2, <2>3
  <1> QED BY <1>1, ClockSpecIInv, PTL

(* After its tick a sensor is active exactly when its fields say so, and   *)
(* one that came to its end does not begin again until it is set           *)
(* (do_active_inactive), for any cycles, times and lengths of a frame.     *)
THEOREM AlwaysRunsAsSet == ClockSpec => RunsAsSet
  <1> DEFINE Obeys(c) ==
        LET n == node[c]
            active == node'[c].isActive
            wanted == n.loop \/ n.startTime > 0 \/ now' < n.stopTime
        IN  Places(c)' # {} /\ Awaited(n, now') =>
              /\ active => Due(n, now') \/ now' = n.stopTime \/ ~n.isActive
              /\ Due(n, now') /\ wanted => active
              /\ active => c \notin ended
  <1>1. ASSUME ClockIInv, [ClockNext]_clockVars, now' # now, NEW c \in Clocks,
               Places(c)' # {}, Awaited(node[c], now')
        PROVE  Obeys(c)
    <2>1. ClockNext
      BY <1>1 DEF clockVars
    <2>2. PICK t \in (now + 1)..(now + MaxStep), freed \in SUBSET Clocks :
            ClockFrame(t, freed)
      BY <1>1, <2>1, TimeMovesInFrame
    <2>3. now \in Nat /\ t \in Nat /\ t > now
      <3>1. now \in Nat /\ MaxStep \in Nat
        BY <1>1, Counted, ClocksAssumption
      <3> QED BY ONLY <3>1, t \in (now + 1)..(now + MaxStep)
    <2>4. Listed(c)'
      BY <1>1 DEF Places, Listed
    <2>5. now' = t /\ node'[c] = Ticked(node[c], t)
      BY <1>1, <2>2, <2>3, <2>4, FrameByNode
    <2>6. node[c] \in TimeSensor
      BY <1>1 DEF ClockIInv, ClockTypeOK
    <2>7. node'[c].isActive => c \notin ended
      <3> SUFFICES ASSUME c \in ended PROVE ~node'[c].isActive
        OBVIOUS
      <3>1. /\ ~node[c].isActive /\ node[c].startTime < node[c].stopTime
            /\ node[c].stopTime <= now
        BY <1>1 DEF ClockIInv, EndedInv
      <3>2. node[c].stopTime < t
        BY <2>3, <2>6, <3>1 DEF TimeSensor
      <3> QED BY <2>3, <2>5, <2>6, <3>1, <3>2, EndedStays
    <2> QED BY <1>1, <2>3, <2>5, <2>6, <2>7, TickObeys
  <1>2. ClockIInv /\ [ClockNext]_clockVars
          => [now' # now => \A c \in Clocks : Obeys(c)]_clockVars
    BY <1>1
  <1> QED BY <1>2, ClockSpecIInv, PTL DEF ClockSpec, RunsAsSet

(* A sensor that nobody sets sends cycleTime once at its start and once in *)
(* every further cycle (do_TimeSensorTick), for any cycleInterval and any  *)
(* length of a frame below it.                                             *)
THEOREM CycleTimeAlwaysOnce == ClockSpec => CycleTimeOnce
  <1> DEFINE Sends(c) ==
        LET n == node[c]
            newCycle == n.loop /\ Cycle(n, now') > Cycle(n, now)
        IN  Places(c)' # {} /\ Awaited(n, now') /\ node'[c].isActive =>
              \/ c \in started' /\ c \in cycled'
              \/ n.isActive /\ n.startTime > now
              \/ n.isActive /\ (c \in cycled' <=> newCycle)
              \/ n.isActive /\ n.loop /\ now' - now >= n.cycleInterval
  <1>1. ASSUME ClockIInv, [ClockNext]_clockVars, now' # now,
               NEW c \in Clocks \ touched, Places(c)' # {},
               Awaited(node[c], now'), node'[c].isActive
        PROVE  Sends(c)
    <2>1. ClockNext
      BY <1>1 DEF clockVars
    <2>2. PICK t \in (now + 1)..(now + MaxStep), freed \in SUBSET Clocks :
            ClockFrame(t, freed)
      BY <1>1, <2>1, TimeMovesInFrame
    <2>3. now \in Nat /\ t \in Nat /\ t > now
      <3>1. now \in Nat /\ MaxStep \in Nat
        BY <1>1, Counted, ClocksAssumption
      <3> QED BY ONLY <3>1, t \in (now + 1)..(now + MaxStep)
    <2>4. Listed(c)' /\ Listed(c)
      <3>1. Listed(c)'
        BY <1>1 DEF Places, Listed
      <3> QED BY <1>1, <2>2, <2>3, <3>1, FrameByNode
    <2>5. now' = t /\ node'[c] = Ticked(node[c], t)
          /\ (c \in cycled' <=> SendsCycleTime(node[c], t))
          /\ (c \in started' <=> ~node[c].isActive)
      BY <1>1, <2>2, <2>3, <2>4, FrameByNode
    <2>6. node[c] \in TimeSensor
      BY <1>1 DEF ClockIInv, ClockTypeOK
    <2>7. DoActiveInactive(node[c], t).isActive
      BY <1>1, <2>3, <2>5, <2>6, TickObeys
    <2>8. CASE ~node[c].isActive
      BY <1>1, <2>3, <2>5, <2>6, <2>7, <2>8, StartSendsCycleTime
    <2>9. CASE /\ node[c].isActive
               /\ node[c].startTime <= now
               /\ node[c].loop => t - now < node[c].cycleInterval
      <3>1. node[c].ctflag = Fraction(node[c], now)
        BY <1>1, <2>4, <2>9 DEF ClockIInv, FlagInv
      <3>2. SendsCycleTime(node[c], t)
              <=> node[c].loop /\ Cycle(node[c], t) > Cycle(node[c], now)
        BY <1>1, <2>3, <2>5, <2>6, <2>7, <2>9, <3>1, GoingOnSendsCycleTime
      <3> QED BY <2>5, <2>9, <3>2
    <2>10. CASE node[c].isActive /\ node[c].startTime > now
      BY <2>10
    <2>11. CASE /\ node[c].isActive /\ node[c].loop
                /\ t - now >= node[c].cycleInterval
      BY <2>5, <2>11
    <2>12. /\ node[c].startTime \in Nat /\ node[c].cycleInterval \in Nat
           /\ node[c].isActive \in BOOLEAN /\ node[c].loop \in BOOLEAN
      BY <2>6 DEF TimeSensor
    <2>13. /\ node[c].startTime <= now \/ node[c].startTime > now
           /\ \/ t - now < node[c].cycleInterval
              \/ t - now >= node[c].cycleInterval
      BY ONLY <2>3, <2>12
    <2> QED BY <2>8, <2>9, <2>10, <2>11, <2>13
  <1>2. ClockIInv /\ [ClockNext]_clockVars
          => [now' # now => \A c \in Clocks \ touched : Sends(c)]_clockVars
    BY <1>1
  <1> QED BY <1>2, ClockSpecIInv, PTL DEF ClockSpec, CycleTimeOnce
=============================================================================
