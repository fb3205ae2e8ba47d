------------------------- MODULE MCPointerSensors -------------------------
(***************************************************************************)
(* The two sources of events that the display thread looks at in every     *)
(* frame, the pointing device sensors and the clock events, side by side.  *)
(* A ball is in a group in a group: the pointer can be on the ball or      *)
(* beside it, and the sensors can be in either group or, with USE, in both.*)
(*                                                                         *)
(* The two share no state, so a behaviour moves one of them only: their    *)
(* product would show nothing more.                                        *)
(***************************************************************************)
EXTENDS PointerSensors, TimeSensors, TLC

CONSTANTS inner, outer, ball, floor, touch, grip

Nested == ball :> <<inner, outer>> @@ floor :> <<outer>>
\* Both in one group; one in each; and one of them in both.
SomeWorlds ==
  {touch :> {inner} @@ grip :> {inner},
   touch :> {outer} @@ grip :> {inner},
   touch :> {inner, outer} @@ grip :> {outer}}

TouchAndSphere == touch :> "touch" @@ grip :> "sphere"

-----------------------------------------------------------------------------
(* The clock events. *)

CONSTANTS quick, slow

TwoAndThree == quick :> 2 @@ slow :> 3

-----------------------------------------------------------------------------
(* Side by side. *)

\* The clock events move before the first frame of the pointer and its sensors,
AtFirst ==
  /\ pointer = NoShape /\ ButDown = {}
  /\ stage = "update" /\ sensitive = {} /\ ~parsing /\ changes = 0
  /\ enabled = [s \in Sensors |-> TRUE]
  /\ parents = touch :> {inner} @@ grip :> {inner}

\* ... and the others while no time has passed and nobody called.
ClockAtFirst == now = FirstTime /\ calls = 0

PointerStep == ClockAtFirst /\ Next /\ UNCHANGED clockVars
ClockStep == AtFirst /\ ClockNext /\ UNCHANGED vars

\* The bound on the time; the pointer has no such end.
TimeIsOver == now = MaxTime /\ UNCHANGED <<vars, clockVars>>

BothInit == Init /\ ClockInit

BothSpec ==
  /\ BothInit
  /\ [][PointerStep \/ ClockStep \/ TimeIsOver]_<<vars, clockVars>>
  /\ WF_<<vars, clockVars>>(ClockAtFirst /\ Frame /\ UNCHANGED clockVars)
=============================================================================
