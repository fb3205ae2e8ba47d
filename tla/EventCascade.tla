---------------------------- MODULE EventCascade ----------------------------
(***************************************************************************)
(* One event cascade after another: mark_event, propagate_events and       *)
(* gatherScriptEventOuts of src/lib/vrml_parser/CRoutes.c, over a routing  *)
(* table that does not change meanwhile.  The table is sorted by the       *)
(* address of the node a route comes from, so its order is arbitrary: it   *)
(* is chosen in the initial state.                                         *)
(*                                                                         *)
(* A field holds the number of the event its value stems from.  The time   *)
(* stamps of the routes are only ever compared with thisIntTimeStamp: the  *)
(* set "stamped" holds the routes for which they are equal.                *)
(***************************************************************************)
EXTENDS Naturals, Sequences, FiniteSets

CONSTANTS Fields,       \* a field is a node and an offset (script: a name)
          Routes,       \* records [from, to, dir] with the fields they join
          Outputs,      \* Outputs[f]: what the interpolator or script with
                        \* the eventIn f sets
          Sources,      \* fields set by sensors, the mouse or the EAI
          NotReady,     \* eventOuts of scripts not initialised or not OK
          MaxEvents     \* bound: events from outside

(* dir is direction_flag: "none", "to_script" or "from_script".            *)
ASSUME CascadeAssumption ==
  /\ IsFiniteSet(Routes)
  /\ Routes \subseteq [from : Fields, to : Fields,
                       dir : {"none", "to_script", "from_script"}]
  /\ Outputs \in [Fields -> SUBSET Fields]
  /\ Sources \subseteq Fields
  /\ NotReady \subseteq Fields
  /\ MaxEvents \in Nat

\* The eventOuts of scripts, and the fields that anything else sets.
ScriptEventOuts ==
  UNION {Outputs[r.to] : r \in {q \in Routes : q.dir = "to_script"}}
OtherFields ==
  Sources \cup {r.to : r \in Routes} \cup
  UNION {Outputs[r.to] : r \in {q \in Routes : q.dir # "to_script"}}

(* CRoutes_Register gives the routes from a script the direction_flag, and *)
(* nobody but its script sets an eventOut.                                 *)
ASSUME ScriptAssumption ==
  \A r \in Routes :
    /\ r.from \in ScriptEventOuts => r.dir = "from_script"
    /\ r.dir = "from_script" => r.from \notin OtherFields

VARIABLES table,      \* CRoutes without its two sentinels
          value,      \* value[f]: the event the value of f stems from
          active,     \* the routes with isActive
          stamped,    \* the routes with intTimeStamp = thisIntTimeStamp
          touched,    \* script eventOuts with their valueChanged flag set
          phase,      \* outside propagate_events, in its pass or after it
          counter,    \* the route propagate_events looks at
          havinterp,
          events      \* bound counter

vars == <<table, value, active, stamped, touched, phase, counter, havinterp,
          events>>

Sorted(t) == \A i, j, k \in DOMAIN t :
               i < j /\ j < k /\ t[i].from = t[k].from => t[j].from = t[i].from

Tables == {t \in [1..Cardinality(Routes) -> Routes] :
             (\A r \in Routes : \E i \in DOMAIN t : t[i] = r) /\ Sorted(t)}

\* Mutant: the pass starts at the sentinel.
MutFirstRoute == 0

FirstRoute == 1

Init ==
  /\ table \in Tables
  /\ value = [f \in Fields |-> 0]
  /\ active = {}
  /\ stamped = {}
  /\ touched = {}
  /\ phase = "events"
  /\ counter = FirstRoute
  /\ havinterp = FALSE
  /\ events = 0

-----------------------------------------------------------------------------
(* mark_event: the routes from the fields F are made active, unless they   *)
(* were already in this time stamp, which breaks routing loops.            *)

RoutesFrom(F) == {r \in Routes : r.from \in F}

\* Mutant: routing loops are not broken.
MutFresh(F) == RoutesFrom(F)

Fresh(F) == RoutesFrom(F) \ stamped

\* An event from outside, between two calls of propagate_events.
Event(f) ==
  /\ phase = "events"
  /\ events < MaxEvents
  /\ events' = events + 1
  /\ value' = [value EXCEPT ![f] = events + 1]
  /\ active' = active \cup Fresh({f})
  /\ stamped' = stamped \cup Fresh({f})
  /\ UNCHANGED <<table, touched, phase, counter, havinterp>>

StartPropagate ==
  /\ phase = "events"
  /\ phase' = "pass"
  /\ stamped' = {}
  /\ counter' = FirstRoute
  /\ havinterp' = FALSE
  /\ UNCHANGED <<table, value, active, touched, events>>

-----------------------------------------------------------------------------
(* One route of a pass. *)

Route == table[counter]

\* A pass goes up to the sentinel at the end of the table.
PassLength == Len(table)

InPass == phase = "pass" /\ counter <= PassLength

Skip ==
  /\ InPass
  /\ Route \notin active
  /\ counter' = counter + 1
  /\ UNCHANGED <<table, value, active, stamped, touched, phase, havinterp,
                 events>>

\* The fields an interpolator sets from the eventIn the route goes to.
Interpolated(r) == IF r.dir = "to_script" THEN {} ELSE Outputs[r.to]

\* Mutant: the receiver is not marked, so an exposedField sends nothing on.
MutMarkedBy(r) == Interpolated(r)

\* What a copying route marks: the field itself and the interpolated ones.
MarkedBy(r) == {r.to} \cup Interpolated(r)

Deliver(F, v) == [f \in Fields |-> IF f \in F THEN v ELSE value[f]]

Fire ==
  /\ InPass
  /\ Route \in active
  /\ LET marks == IF Route.dir = "none" THEN MarkedBy(Route) ELSE {Route.to}
     IN  /\ active' = (active \ {Route}) \cup Fresh(marks)
         /\ stamped' = stamped \cup Fresh(marks)
         /\ CASE Route.dir = "none" ->
                   /\ value' = Deliver({Route.to} \cup Interpolated(Route),
                                       value[Route.from])
                   /\ UNCHANGED touched
              [] Route.dir = "to_script" ->
                   /\ LET result == Outputs[Route.to] \ NotReady
                      IN  /\ value' = Deliver({Route.to} \cup result,
                                              value[Route.from])
                          /\ touched' = touched \cup result
              [] Route.dir = "from_script" -> UNCHANGED <<value, touched>>
         /\ havinterp' = (\/ havinterp
                          \/ Route.dir # "none"
                          \/ Interpolated(Route) # {})
  /\ counter' = counter + 1
  /\ UNCHANGED <<table, phase, events>>

-----------------------------------------------------------------------------
(* The end of a pass: gatherScriptEventOuts, and again if an interpolator  *)
(* or a script was triggered.                                              *)

\* Mutant: a script that is not ready anywhere ends the scan.
MutScanned == {i \in 1..PassLength :
                 \A j \in 1..PassLength : table[j].dir = "from_script"
                                           => table[j].from \notin NotReady}

\* gatherScriptEventOuts returns at the first script that is not ready.
Scanned == {i \in 1..PassLength :
              \A j \in 1..i : table[j].dir = "from_script"
                                => table[j].from \notin NotReady}

Gathered == {i \in Scanned : /\ table[i].dir = "from_script"
                             /\ table[i].from \in touched}

Latest(I) == CHOOSE i \in I : \A j \in I : j <= i

GatheredTo(f) == {i \in Gathered : f \in {table[i].to}
                                           \cup Interpolated(table[i])}

GatherMarks == UNION {{table[i].from} \cup Interpolated(table[i]) :
                        i \in Gathered}

EndPass ==
  /\ phase = "pass"
  /\ counter > PassLength
  /\ value' = [f \in Fields |-> IF GatheredTo(f) = {} THEN value[f]
                                ELSE value[table[Latest(GatheredTo(f))].from]]
  /\ active' = active \cup Fresh(GatherMarks)
  /\ stamped' = stamped \cup Fresh(GatherMarks)
  /\ touched' = touched \ {table[i].from : i \in Gathered}
  /\ phase' = IF havinterp THEN "pass" ELSE "events"
  /\ counter' = FirstRoute
  /\ havinterp' = FALSE
  /\ UNCHANGED <<table, events>>

PropagateEvents == StartPropagate \/ Skip \/ Fire \/ EndPass

Next == PropagateEvents \/ \E f \in Sources : Event(f)

Spec == Init /\ [][Next]_vars

\* The main loop calls propagate_events twice in every frame.
FairSpec == Spec /\ WF_vars(PropagateEvents)

-----------------------------------------------------------------------------
(* Properties. *)

TypeOK ==
  /\ table \in Seq(Routes)
  /\ value \in [Fields -> 0..MaxEvents]
  /\ active \subseteq Routes
  /\ stamped \subseteq Routes
  /\ touched \subseteq Fields
  /\ phase \in {"events", "pass"}
  /\ counter \in 1..(Len(table) + 1)
  /\ havinterp \in BOOLEAN
  /\ events \in 0..MaxEvents

\* What propagate_events leaves for the next call was marked during this one:
\* every event pending when it was called has been delivered.
PendingIsDelivered ==
  [][phase = "pass" /\ phase' = "events" => active' \subseteq stamped']_vars

\* With one event, everything the event is routed to gets it, whatever the
\* order of the table: no route on the way ends in an older value than it
\* begins with, unless that is still in a script.
EventArrives ==
  events = 1 /\ phase = "events" /\ active = {}
    => \A r \in Routes : value[r.to] >= value[r.from] \/ r.from \in touched

\* propagate_events returns, also with routing loops through interpolators and
\* scripts, and the event is delivered at last, maybe by several calls.
CascadeSettles ==
  /\ phase = "pass" ~> phase = "events"
  /\ <>[](active = {})

\* When propagate_events returns, the route of an eventOut that is left in its
\* script comes after one of a script that is not ready.
ScriptsGathered ==
  phase = "events" =>
    \A f \in touched, j \in DOMAIN table :
      table[j].from = f /\ table[j].dir = "from_script"
        => \E i \in 1..(j - 1) : table[i].from \in NotReady

\* mark_event: "Mark all relevant entries in the routing table that this
\* node/offset triggered an event", for an event from outside.
EventIsMarked ==
  [][\A f \in Sources :
       events' = events + 1 /\ value'[f] = events'
         => RoutesFrom({f}) \subseteq active'
    ]_vars
=============================================================================
