--------------------------- MODULE PointerSensors ---------------------------
(***************************************************************************)
(* The mouse and the pointing device sensors: handle_Xevents and the       *)
(* sensitive pass of fwl_RenderSceneUpdateScene (main/MainLoop.c), the     *)
(* list SensorEvents, the flags startOfLoopNodeUpdates sets                *)
(* (opengl/OpenGL_Utils.c), and the fields isOver and isActive of the      *)
(* sensors (input/SensInterps.c).                                          *)
(*                                                                         *)
(* Everything is done by the display thread; a frame goes through the      *)
(* stages "update", "input", "button" and "cursor".  A shape on the screen *)
(* is below some groups; a sensor makes its parent groups sensitive.       *)
(***************************************************************************)
EXTENDS Naturals, Sequences

CONSTANTS Shapes,      \* what the pointer can be on
          Groups,      \* grouping nodes
          Above,       \* Above[shape]: its groups, the innermost first
          Sensors,     \* sibling-sensitive nodes
          KindOf,      \* the kind of a sensor
          Worlds,      \* what the parents of the sensors can be at first
          MaxChanges,  \* bound: changes of the scene
          NoGroup, NoShape

(* plane   PlaneSensor and CylinderSensor                                  *)
(* sphere  SphereSensor: does not become active when pressed at its centre *)
Kinds == {"touch", "plane", "sphere"}

ASSUME SensorsAssumption ==
  /\ NoGroup \notin Groups
  /\ NoShape \notin Shapes
  /\ Above \in [Shapes -> Seq(Groups)]
  /\ KindOf \in [Sensors -> Kinds]
  /\ Worlds \subseteq [Sensors -> SUBSET Groups]
  /\ MaxChanges \in Nat

VARIABLES
  \* the user
  pointer,              \* the shape under the pointer
  ButDown,              \* the buttons that are down, of 1 and 3
  \* the scene
  enabled, isOver, isActive, \* fields of the sensors
  parents,              \* _parentVector of the sensors
  parsing,              \* fwl_isinputThreadParsing
  changes,              \* bound counter
  \* the main loop
  stage,
  sensitive,            \* the groups with the flag VF_Sensitive
  HaveSensitive,
  SensorEvents,         \* pairs of fromnode and datanode
  NavigationMode,
  CursorOverSensitive, lastOver, lastPressedOver, oldCOS,
  lastOverButtonPressed,
  hypersensitive,
  \* history
  dragged,              \* a pass has seen the button stay down
  deafOver, deafActive  \* sensors that were disabled when their end came

userVars  == <<pointer, ButDown>>
fieldVars == <<enabled, isOver, isActive>>
sceneVars == <<fieldVars, parents, parsing, changes>>
flagVars  == <<sensitive, HaveSensitive>>
pressVars == <<lastPressedOver, hypersensitive>>
overVars  == <<CursorOverSensitive, lastOver, lastOverButtonPressed>>
historyVars == <<dragged, deafOver, deafActive>>
vars == <<userVars, sceneVars, stage, flagVars, SensorEvents, NavigationMode,
          pressVars, overVars, oldCOS, historyVars>>

SomeGroup == Groups \cup {NoGroup}

\* A loaded world: setSensitive has been called for every parent.
Entries(p) == {e \in Groups \X Sensors : e[1] \in p[e[2]]}

Init ==
  /\ pointer = NoShape
  /\ ButDown = {}
  /\ enabled \in [Sensors -> BOOLEAN]
  /\ isOver = [s \in Sensors |-> FALSE]
  /\ isActive = [s \in Sensors |-> FALSE]
  /\ parents \in Worlds
  /\ parsing = FALSE
  /\ changes = 0
  /\ stage = "update"
  /\ sensitive = {}
  /\ HaveSensitive = FALSE
  /\ SensorEvents = Entries(parents)
  /\ NavigationMode = FALSE
  /\ CursorOverSensitive = NoGroup
  /\ lastOver = NoGroup
  /\ lastPressedOver = NoGroup
  /\ oldCOS = NoGroup
  /\ lastOverButtonPressed = FALSE
  /\ hypersensitive = NoGroup
  /\ dragged = FALSE
  /\ deafOver = {}
  /\ deafActive = {}

-----------------------------------------------------------------------------
(* The user.  All pending events are handled before the frame goes on.     *)

\* The pointer moves, or the shapes under it do.
PointerMoves ==
  /\ stage = "input"
  /\ pointer' \in Shapes \cup {NoShape}
  /\ UNCHANGED <<ButDown, sceneVars, stage, flagVars, SensorEvents,
                 NavigationMode, pressVars, overVars, oldCOS, historyVars>>

\* Not over a sensitive node, and no button down from one.
OverNothing ==
  CursorOverSensitive = NoGroup /\ lastPressedOver = NoGroup

\* handle_Xevents, ButtonPress and ButtonRelease
MouseButton(b) ==
  /\ stage = "input"
  /\ ButDown' = IF b \in ButDown THEN ButDown \ {b} ELSE ButDown \cup {b}
  /\ NavigationMode' = IF OverNothing THEN ButDown' # {} ELSE NavigationMode
  /\ UNCHANGED <<pointer, sceneVars, stage, flagVars, SensorEvents,
                 pressVars, overVars, oldCOS, historyVars>>

-----------------------------------------------------------------------------
(* The scene, changed by routes, scripts, the EAI and the parser.          *)

Change == changes < MaxChanges /\ changes' = changes + 1

SetEnabled(s) ==
  /\ stage \in {"update", "input"}
  /\ Change
  /\ enabled' = [enabled EXCEPT ![s] = ~@]
  /\ UNCHANGED <<userVars, isOver, isActive, parents, parsing, stage,
                 flagVars, SensorEvents, NavigationMode, pressVars, overVars,
                 oldCOS, historyVars>>

\* Mutant: a second sensor of the same group is taken for a duplicate.
MutSetSensitive(g, s) ==
  IF \E t \in Sensors : <<g, t>> \in SensorEvents
  THEN SensorEvents ELSE SensorEvents \cup {<<g, s>>}

\* setSensitive, without duplicates
SetSensitive(g, s) == SensorEvents \cup {<<g, s>>}

(* add_parent, which calls setSensitive, and remove_parent, which leaves   *)
(* SensorEvents alone.  The sensor itself lives on.                        *)
AddOrRemoveParent(s, g) ==
  /\ stage = "update"
  /\ Change
  /\ \/ /\ g \notin parents[s]
        /\ parents' = [parents EXCEPT ![s] = @ \cup {g}]
        /\ SensorEvents' = SetSensitive(g, s)
     \/ /\ g \in parents[s]
        /\ parents' = [parents EXCEPT ![s] = @ \ {g}]
        /\ UNCHANGED SensorEvents
  /\ UNCHANGED <<userVars, fieldVars, parsing, stage, flagVars,
                 NavigationMode, pressVars, overVars, oldCOS, historyVars>>

\* The parser goes to work, on an Inline or the like, or is done.
Parse ==
  /\ stage = "update"
  /\ IF parsing THEN UNCHANGED changes ELSE Change
  /\ parsing' = ~parsing
  /\ UNCHANGED <<userVars, fieldVars, parents, stage, flagVars, SensorEvents,
                 NavigationMode, pressVars, overVars, oldCOS, historyVars>>

(* kill_oldWorld and resetSensorEvents; what the parser then adds is a     *)
(* world of other nodes, taken as one step.                                *)
ReplaceWorld ==
  /\ stage = "update"
  /\ Change
  /\ enabled' \in [Sensors -> BOOLEAN]
  /\ isOver' = [s \in Sensors |-> FALSE]
  /\ isActive' = [s \in Sensors |-> FALSE]
  /\ parents' \in Worlds
  /\ SensorEvents' = Entries(parents')
  /\ CursorOverSensitive' = NoGroup
  /\ oldCOS' = NoGroup
  /\ lastPressedOver' = NoGroup
  /\ lastOver' = NoGroup
  /\ hypersensitive' = NoGroup
  /\ deafOver' = {} /\ deafActive' = {}
  /\ UNCHANGED <<userVars, parsing, stage, flagVars, NavigationMode,
                 lastOverButtonPressed, dragged>>

-----------------------------------------------------------------------------
(* The main loop.                                                          *)

EnabledParents == UNION {parents[s] : s \in {t \in Sensors : enabled[t]}}

(* startOfLoopNodeUpdates forgets that there are sensitive nodes; while    *)
(* the parser is at work it does nothing else.                             *)
StartOfLoop ==
  /\ stage = "update"
  /\ stage' = "input"
  /\ \/ /\ parsing
        /\ HaveSensitive' = FALSE
        /\ UNCHANGED sensitive
     \/ /\ ~parsing
        /\ sensitive' = EnabledParents
        /\ HaveSensitive' = (EnabledParents # {})
  /\ UNCHANGED <<userVars, sceneVars, SensorEvents, NavigationMode,
                 pressVars, overVars, oldCOS, historyVars>>

\* g is the innermost sensitive group of the shape under the pointer.
Under(g) ==
  /\ pointer # NoShape
  /\ \E i \in DOMAIN Above[pointer] :
       /\ g = Above[pointer][i]
       /\ g \in sensitive
       /\ \A j \in 1..(i - 1) : Above[pointer][j] \notin sensitive

(* getRayHit finds the group in SensorEvents; nothing is hit while a node  *)
(* is hypersensitive.                                                      *)
Hit(g) ==
  /\ hypersensitive = NoGroup
  /\ Under(g)
  /\ \E s \in Sensors : <<g, s>> \in SensorEvents

RayHit(g) == Hit(g) \/ (g = NoGroup /\ \A h \in Groups : ~Hit(h))

\* sendSensorEvents: the sensors that take an event sent to group g.
Takes(g) == {s \in Sensors : <<g, s>> \in SensorEvents /\ enabled[s]}

Deaf(g) == {s \in Sensors : <<g, s>> \in SensorEvents /\ ~enabled[s]}

Touches(set) == {s \in set : KindOf[s] = "touch"}

\* Mutant: no delay after a button was down.
MutAfterButton == FALSE

\* lastOverButtonPressed, while the button is down over something else.
AfterButton == TRUE

(* The first half of the pass: what the pointer is over.  After the button *)
(* was down, isOver waits for one more pass.                               *)
Pick ==
  /\ stage = "input"
  /\ ~NavigationMode /\ HaveSensitive
  /\ \E cos \in SomeGroup :
       /\ RayHit(cos)
       /\ CursorOverSensitive' = cos
       /\ \/ /\ lastOver # cos /\ 1 \notin ButDown /\ ~lastOverButtonPressed
             /\ isOver' = [s \in Sensors |->
                  \/ s \in Touches(Takes(cos))
                  \/ isOver[s] /\ s \notin Touches(Takes(lastOver))]
             /\ deafOver' = (deafOver \ Takes(cos)) \cup Deaf(lastOver)
             /\ lastOver' = cos
             /\ UNCHANGED lastOverButtonPressed
          \/ /\ lastOver # cos /\ (1 \in ButDown \/ lastOverButtonPressed)
             /\ lastOverButtonPressed' = (1 \in ButDown /\ AfterButton)
             /\ UNCHANGED <<isOver, deafOver, lastOver>>
          \/ /\ lastOver = cos
             /\ UNCHANGED <<isOver, deafOver, lastOver,
                            lastOverButtonPressed>>
  /\ dragged' = (1 \in ButDown /\ lastPressedOver # NoGroup)
  /\ stage' = "button"
  /\ UNCHANGED <<userVars, enabled, isActive, parents, parsing, changes,
                 flagVars, SensorEvents, NavigationMode, pressVars, oldCOS,
                 deafActive>>

\* Navigating, or nothing to sense: the pass is left out.
NoPass ==
  /\ stage = "input"
  /\ NavigationMode \/ ~HaveSensitive
  /\ stage' = "update"
  /\ UNCHANGED <<userVars, sceneVars, flagVars, SensorEvents, NavigationMode,
                 pressVars, overVars, oldCOS, historyVars>>

Press ==
  /\ 1 \in ButDown /\ lastPressedOver = NoGroup
  /\ LET pressed == Takes(CursorOverSensitive)
     IN  \E refuses \in SUBSET {s \in pressed : KindOf[s] = "sphere"} :
           /\ isActive' = [s \in Sensors |->
                             isActive[s] \/ s \in pressed \ refuses]
           /\ deafActive' = deafActive \ (pressed \ refuses)
  /\ lastPressedOver' = CursorOverSensitive
  /\ hypersensitive' = CursorOverSensitive

\* Mutant: picking is not switched on again.
MutAfterRelease == hypersensitive

\* hypersensitive after the button was released.
AfterRelease == NoGroup

\* Mutant: the release is sent to what the pointer is over.
MutReleased == CursorOverSensitive

\* The node that is told of the release.
Released == lastPressedOver

Release ==
  /\ 1 \notin ButDown /\ lastPressedOver # NoGroup
  /\ isActive' = [s \in Sensors |->
                    isActive[s] /\ s \notin Takes(Released)]
  /\ deafActive' = deafActive \cup Deaf(Released)
  /\ lastPressedOver' = NoGroup
  /\ hypersensitive' = AfterRelease

Neither ==
  /\ 1 \in ButDown <=> lastPressedOver # NoGroup
  /\ UNCHANGED <<isActive, deafActive, pressVars>>

\* ButtonPress and ButtonRelease for the sensors.
Button ==
  /\ stage = "button"
  /\ Press \/ Release \/ Neither
  /\ stage' = "cursor"
  /\ UNCHANGED <<userVars, enabled, isOver, parents, parsing, changes,
                 flagVars, SensorEvents, NavigationMode, overVars, oldCOS,
                 dragged, deafOver>>

(* MapNotify: the node the description in the status bar is of.  Motion    *)
(* events, which only change positions, are sent before it.                *)
Cursor ==
  /\ stage = "cursor"
  /\ oldCOS' = CASE CursorOverSensitive # NoGroup
                       /\ lastPressedOver = NoGroup -> CursorOverSensitive
                 [] CursorOverSensitive = NoGroup
                       /\ 1 \notin ButDown -> NoGroup
                 [] OTHER -> oldCOS
  /\ stage' = "update"
  /\ UNCHANGED <<userVars, sceneVars, flagVars, SensorEvents, NavigationMode,
                 pressVars, overVars, historyVars>>

-----------------------------------------------------------------------------
Frame == StartOfLoop \/ Pick \/ NoPass \/ Button \/ Cursor

Next ==
  \/ PointerMoves
  \/ \E b \in {1, 3} : MouseButton(b)
  \/ \E s \in Sensors : SetEnabled(s)
  \/ \E s \in Sensors, g \in Groups : AddOrRemoveParent(s, g)
  \/ Parse \/ ReplaceWorld
  \/ Frame

Spec == Init /\ [][Next]_vars

\* Frame follows frame.
FairSpec == Spec /\ WF_vars(Frame)
-----------------------------------------------------------------------------
(* Every variable has its type; setSensitive has recorded every parent of  *)
(* every sensor; only a TouchSensor has an isOver.                         *)
TypeOK ==
  /\ pointer \in Shapes \cup {NoShape}
  /\ ButDown \subseteq {1, 3}
  /\ enabled \in [Sensors -> BOOLEAN]
  /\ isOver \in [Sensors -> BOOLEAN] /\ isActive \in [Sensors -> BOOLEAN]
  /\ \A s \in Sensors : isOver[s] => KindOf[s] = "touch"
  /\ parents \in [Sensors -> SUBSET Groups]
  /\ parsing \in BOOLEAN /\ changes \in 0..MaxChanges
  /\ stage \in {"update", "input", "button", "cursor"}
  /\ sensitive \subseteq Groups /\ HaveSensitive \in BOOLEAN
  /\ SensorEvents \subseteq Groups \X Sensors
  /\ Entries(parents) \subseteq SensorEvents
  /\ NavigationMode \in BOOLEAN /\ lastOverButtonPressed \in BOOLEAN
  /\ CursorOverSensitive \in SomeGroup /\ lastOver \in SomeGroup
  /\ lastPressedOver \in SomeGroup /\ oldCOS \in SomeGroup
  /\ hypersensitive \in SomeGroup
  /\ dragged \in BOOLEAN
  /\ deafOver \subseteq Sensors /\ deafActive \subseteq Sensors

(* The user walks or drags, never both: handle_Xevents starts navigating   *)
(* only over nothing and with no sensor pressed, and then the sensitive    *)
(* pass, which is left out, cannot press one.  Picking is off exactly      *)
(* while a sensor is pressed (hypersensitive and lastPressedOver).         *)
NavigatesOrDrags ==
  /\ NavigationMode => /\ lastPressedOver = NoGroup
                       /\ CursorOverSensitive = NoGroup
                       /\ ButDown # {}
  /\ hypersensitive = lastPressedOver

(* No sensor is left on: one that isActive belongs to the group the button *)
(* went down on, one that isOver to the group the pointer was last seen    *)
(* over, unless it was disabled when it was to be told of the end          *)
(* (do_TouchSensor and the others return when they are not enabled).       *)
NoSensorLeftOn ==
  \A s \in Sensors :
    /\ isActive[s] => \/ <<lastPressedOver, s>> \in SensorEvents
                      \/ s \in deafActive
    /\ isOver[s] => <<lastOver, s>> \in SensorEvents \/ s \in deafOver

\* The pointer is on the group of sensor s.
PointerOn(s) == \E g \in parents[s] : Under(g)

(* What the comment at main/MainLoop.c:686 is after: isOver does not go    *)
(* off and on while the pointer rests on the sensor.  It may do so only    *)
(* when the button is released in the pass after it was pressed; dragging  *)
(* does not do it.                                                         *)
OverStays ==
  [][\A s \in Sensors :
       isOver[s] /\ ~isOver'[s] /\ PointerOn(s) =>
         \/ hypersensitive # NoGroup /\ ~dragged
         \/ ReplaceWorld]_vars

\* No button is down, and the pointer stays on group g, or on none.
Rests(g) ==
  /\ ButDown = {}
  /\ HaveSensitive
  /\ Under(g) \/ (g = NoGroup /\ \A h \in Groups : ~Under(h))

(* When the user leaves the mouse alone and there is something to sense,   *)
(* the five places where the main loop remembers a group come to agree     *)
(* with what is under the pointer: a drag has ended, isOver was sent, the  *)
(* status bar shows the right description.                                 *)
PointerSettles ==
  \A g \in SomeGroup :
    <>[]Rests(g) => <>[](/\ CursorOverSensitive = g
                        /\ lastOver = g
                        /\ oldCOS = g
                        /\ lastPressedOver = NoGroup
                        /\ hypersensitive = NoGroup)
=============================================================================
