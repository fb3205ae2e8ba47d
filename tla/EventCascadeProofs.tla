------------------------- MODULE EventCascadeProofs -------------------------
(***************************************************************************)
(* Proofs about EventCascade, for any routes in any order, any outputs of  *)
(* interpolators and scripts, and any number of events.                    *)
(***************************************************************************)
EXTENDS EventCascade, WellFoundedInduction, FiniteSetTheorems, TLAPS

\* Every route is in the table, and the routes from a field are neighbours.
TableInv ==
  /\ \A r \in Routes : \E i \in DOMAIN table : table[i] = r
  /\ Sorted(table)

\* A route the pass has gone by is active again only with this time stamp.
LeftBehind ==
  phase = "pass" =>
    \A i \in DOMAIN table :
      i < counter /\ table[i] \in active => table[i] \in stamped

\* What waits in a script is an eventOut of a script that runs.
ScriptInv == touched \subseteq ScriptEventOuts \ NotReady

IInv == TypeOK /\ TableInv /\ LeftBehind /\ ScriptInv /\ ScriptsGathered

-----------------------------------------------------------------------------
(* Helpers. *)

\* A set of numbers up to n has a greatest one.
LEMMA MaxExists ==
  ASSUME NEW n \in Nat, NEW I \in SUBSET (1..n), I # {}
  PROVE  \E i \in I : \A j \in I : j <= i
  <1> DEFINE T == {n - i : i \in I}
  <1>1. T \subseteq Nat
    OBVIOUS
  <1>2. T # {}
    <2>1. PICK i \in I : TRUE
      OBVIOUS
    <2> QED BY <2>1
  <1>3. PICK x \in T : \A y \in T : <<y, x>> \notin OpToRel(<, Nat)
    BY <1>1, <1>2, NatLessThanWellFounded, WFMin
  <1>4. \A y \in T : ~(y < x)
    BY <1>1, <1>3 DEF OpToRel
  <1>5. PICK i \in I : x = n - i
    OBVIOUS
  <1>6. ASSUME NEW j \in I PROVE j <= i
    <2>1. n - j \in T
      OBVIOUS
    <2>2. ~(n - j < n - i)
      BY <2>1, <1>4, <1>5
    <2> HIDE DEF T
    <2> QED BY <2>2
  <1> QED BY <1>6

\* The last of several places in the table is one of them.
LEMMA LatestIsOne ==
  ASSUME table \in Seq(Routes), NEW I \in SUBSET (1..PassLength), I # {}
  PROVE  Latest(I) \in I
  <1>1. PassLength \in Nat
    BY DEF PassLength
  <1>2. \E i \in I : \A j \in I : j <= i
    BY <1>1, MaxExists
  <1> QED BY <1>2 DEF Latest

\* A table is a sequence of routes.
LEMMA TablesAreSequences ==
  ASSUME NEW t \in Tables
  PROVE  /\ t \in Seq(Routes)
         /\ Sorted(t)
         /\ \A r \in Routes : \E i \in DOMAIN t : t[i] = r
  <1>1. Cardinality(Routes) \in Nat
    BY CascadeAssumption, FS_CardinalityType
  <1>2. t \in [1..Cardinality(Routes) -> Routes]
    BY DEF Tables
  <1>3. t \in Seq(Routes)
    BY <1>1, <1>2
  <1> QED BY <1>3 DEF Tables

\* The fields that a route joins, and those its receiver sets.
LEMMA RouteTypes ==
  ASSUME NEW r \in Routes
  PROVE  /\ r.from \in Fields /\ r.to \in Fields
         /\ r.dir \in {"none", "to_script", "from_script"}
         /\ Outputs[r.to] \subseteq Fields
         /\ Interpolated(r) \subseteq Fields
  <1>1. r \in [from : Fields, to : Fields,
               dir : {"none", "to_script", "from_script"}]
    BY CascadeAssumption
  <1>2. Outputs[r.to] \subseteq Fields
    BY <1>1, CascadeAssumption
  <1> QED BY <1>1, <1>2 DEF Interpolated

\* Fresh routes are routes.
LEMMA FreshTypes ==
  ASSUME NEW F
  PROVE  /\ Fresh(F) \subseteq Routes
         /\ RoutesFrom(F) = {r \in Routes : r.from \in F}
         /\ RoutesFrom(F) \subseteq stamped \cup Fresh(F)
  BY DEF Fresh, RoutesFrom

\* The gathered places are places of routes from what waits in a script.
LEMMA GatheredTypes ==
  ASSUME table \in Seq(Routes)
  PROVE  /\ Gathered \subseteq 1..PassLength
         /\ \A i \in Gathered : /\ table[i] \in Routes
                                /\ table[i].from \in touched
                                /\ table[i].dir = "from_script"
         /\ \A f : GatheredTo(f) \subseteq Gathered
  BY DEF Gathered, Scanned, GatheredTo, PassLength

\* The route an active pass looks at.
LEMMA RouteInPass ==
  ASSUME TypeOK, InPass
  PROVE  /\ Route \in Routes
         /\ counter \in DOMAIN table
         /\ counter \in Nat
         /\ Route = table[counter]
  BY DEF TypeOK, InPass, Route, PassLength

-----------------------------------------------------------------------------
(* The invariant. *)

LEMMA InitIInv == Init => IInv
  <1> SUFFICES ASSUME Init PROVE IInv
    OBVIOUS
  <1>1. /\ table \in Seq(Routes)
        /\ Sorted(table)
        /\ \A r \in Routes : \E i \in DOMAIN table : table[i] = r
    BY TablesAreSequences DEF Init
  <1>2. MaxEvents \in Nat /\ Len(table) \in Nat
    BY <1>1, CascadeAssumption
  <1>3. FirstRoute \in 1..(Len(table) + 1) /\ 0 \in 0..MaxEvents
    BY <1>2 DEF FirstRoute
  <1>4. TypeOK
    BY <1>1, <1>3 DEF Init, TypeOK
  <1> QED BY <1>1, <1>4
          DEF Init, IInv, TableInv, LeftBehind, ScriptInv, ScriptsGathered

LEMMA EventKeepsIInv ==
  ASSUME IInv, NEW f \in Sources, Event(f)
  PROVE  IInv'
  <1> USE DEF IInv
  <1>1. TypeOK'
    <2>1. MaxEvents \in Nat /\ events' \in 0..MaxEvents
      BY CascadeAssumption DEF TypeOK, Event
    <2>2. value' \in [Fields -> 0..MaxEvents]
      BY <2>1 DEF TypeOK, Event
    <2> QED BY <2>1, <2>2, FreshTypes DEF TypeOK, Event
  <1>2. (TableInv /\ LeftBehind /\ ScriptInv)'
    BY DEF TableInv, LeftBehind, ScriptInv, Event
  <1>3. ScriptsGathered'
    BY DEF ScriptsGathered, Event
  <1> QED BY <1>1, <1>2, <1>3

LEMMA StartKeepsIInv ==
  ASSUME IInv, StartPropagate
  PROVE  IInv'
  <1> USE DEF IInv
  <1>1. Len(table) \in Nat
    BY DEF TypeOK
  <1>2. TypeOK'
    <2>1. FirstRoute \in 1..(Len(table) + 1)
      BY <1>1 DEF FirstRoute
    <2> QED BY <2>1 DEF TypeOK, StartPropagate
  <1>3. LeftBehind'
    BY <1>1 DEF TypeOK, LeftBehind, StartPropagate, FirstRoute
  <1> QED BY <1>2, <1>3
          DEF TableInv, ScriptInv, ScriptsGathered, StartPropagate

LEMMA SkipKeepsIInv ==
  ASSUME IInv, Skip
  PROVE  IInv'
  <1> USE DEF IInv
  <1>1. /\ counter \in 1..Len(table) /\ Len(table) \in Nat
        /\ table[counter] \notin active
    BY DEF TypeOK, Skip, InPass, Route, PassLength
  <1>2. TypeOK'
    BY <1>1 DEF TypeOK, Skip
  <1>3. LeftBehind'
    <2> SUFFICES ASSUME NEW i \in DOMAIN table,
                        i < counter + 1, table[i] \in active
                 PROVE  table[i] \in stamped
      BY DEF LeftBehind, Skip
    <2>1. i \in Nat /\ i # counter
      BY <1>1 DEF TypeOK
    <2>2. i < counter
      BY <1>1, <2>1
    <2> QED BY <2>2 DEF LeftBehind, Skip, InPass
  <1> QED BY <1>2, <1>3
          DEF TableInv, ScriptInv, ScriptsGathered, Skip, InPass

\* What a route that fires does to the fields and to the scripts.
LEMMA FireEffect ==
  ASSUME TypeOK, Fire
  PROVE  /\ value' \in [Fields -> 0..MaxEvents]
         /\ touched \subseteq touched' /\ touched' \subseteq Fields
         /\ touched' \ touched \subseteq ScriptEventOuts \ NotReady
         /\ havinterp' \in BOOLEAN
  <1>1. Route \in Routes
    BY RouteInPass DEF Fire
  <1>2. /\ Route.from \in Fields /\ Route.to \in Fields
        /\ Route.dir \in {"none", "to_script", "from_script"}
        /\ Outputs[Route.to] \subseteq Fields
    BY <1>1, RouteTypes
  <1>3. /\ value \in [Fields -> 0..MaxEvents]
        /\ touched \subseteq Fields
        /\ havinterp \in BOOLEAN
    BY DEF TypeOK
  <1>4. ASSUME NEW F
        PROVE  Deliver(F, value[Route.from]) \in [Fields -> 0..MaxEvents]
    BY <1>2, <1>3 DEF Deliver
  <1>5. havinterp' \in BOOLEAN
    BY <1>3 DEF Fire
  <1>6. CASE Route.dir = "none"
    <2>1. /\ value' = Deliver({Route.to} \cup Interpolated(Route),
                              value[Route.from])
          /\ touched' = touched
      BY <1>6 DEF Fire
    <2> QED BY <2>1, <1>3, <1>4, <1>5
  <1>7. CASE Route.dir = "to_script"
    <2> DEFINE result == Outputs[Route.to] \ NotReady
    <2>1. /\ value' = Deliver({Route.to} \cup result, value[Route.from])
          /\ touched' = touched \cup result
      BY <1>7 DEF Fire
    <2>2. result \subseteq ScriptEventOuts \ NotReady
      BY <1>1, <1>7 DEF ScriptEventOuts
    <2> QED BY <2>1, <2>2, <1>2, <1>3, <1>4, <1>5
  <1>8. CASE Route.dir = "from_script"
    <2>1. value' = value /\ touched' = touched
      BY <1>8 DEF Fire
    <2> QED BY <2>1, <1>3, <1>5
  <1> QED BY <1>2, <1>6, <1>7, <1>8

\* What a route that fires does to the marks: it marks some fields.
LEMMA FireMarks ==
  ASSUME TypeOK, Fire
  PROVE  \E marks :
           /\ Route.to \in marks
           /\ marks = IF Route.dir = "none" THEN MarkedBy(Route)
                                            ELSE {Route.to}
           /\ active' = (active \ {Route}) \cup Fresh(marks)
           /\ stamped' = stamped \cup Fresh(marks)
           /\ Fresh(marks) \subseteq Routes
  <1> DEFINE marks == IF Route.dir = "none" THEN MarkedBy(Route)
                                            ELSE {Route.to}
  <1>1. Route.to \in marks
    BY DEF MarkedBy
  <1>2. /\ active' = (active \ {Route}) \cup Fresh(marks)
        /\ stamped' = stamped \cup Fresh(marks)
    BY DEF Fire
  <1> QED BY <1>1, <1>2, FreshTypes

LEMMA FireKeepsIInv ==
  ASSUME IInv, Fire
  PROVE  IInv'
  <1> USE DEF IInv
  <1>1. /\ counter \in 1..Len(table) /\ Len(table) \in Nat
        /\ Route = table[counter]
    BY DEF TypeOK, Fire, InPass, Route, PassLength
  <1>2. PICK marks : /\ active' = (active \ {Route}) \cup Fresh(marks)
                     /\ stamped' = stamped \cup Fresh(marks)
                     /\ Fresh(marks) \subseteq Routes
    BY FireMarks
  <1>3. /\ phase = "pass"
        /\ UNCHANGED <<table, phase, events>>
        /\ counter' = counter + 1
    BY DEF Fire, InPass
  <1>4. TypeOK'
    BY <1>1, <1>2, <1>3, FireEffect DEF TypeOK
  <1>5. LeftBehind'
    <2> SUFFICES ASSUME NEW i \in DOMAIN table,
                        i < counter + 1, table[i] \in active'
                 PROVE  table[i] \in stamped'
      BY <1>3 DEF LeftBehind
    <2>1. CASE table[i] \in Fresh(marks)
      BY <2>1, <1>2
    <2>2. CASE table[i] \in active \ {Route}
      <3>1. i \in Nat /\ i # counter
        BY <2>2, <1>1 DEF TypeOK
      <3>2. i < counter
        BY <3>1, <1>1
      <3> QED BY <3>2, <2>2, <1>2, <1>3 DEF LeftBehind
    <2> QED BY <2>1, <2>2, <1>2
  <1>6. ScriptInv'
    BY FireEffect DEF ScriptInv
  <1> QED BY <1>3, <1>4, <1>5, <1>6 DEF TableInv, ScriptsGathered

\* Routes from the same eventOut are gathered together.
LEMMA GatheredTogether ==
  ASSUME IInv, NEW i \in Gathered, NEW j \in DOMAIN table,
         table[j].from = table[i].from
  PROVE  j \in Gathered
  <1> USE DEF IInv
  <1>1. /\ DOMAIN table = 1..PassLength /\ PassLength \in Nat
        /\ i \in Nat /\ j \in Nat /\ i \in DOMAIN table
    BY GatheredTypes DEF TypeOK, PassLength
  <1>2. table[i].from \in touched /\ table[j] \in Routes
    BY GatheredTypes DEF TypeOK
  <1>3. table[j].dir = "from_script"
    BY <1>2, ScriptAssumption DEF ScriptInv
  <1>4. ASSUME NEW k \in 1..j, table[k].dir = "from_script"
        PROVE  table[k].from \notin NotReady
    <2>1. k \in Nat /\ k \in DOMAIN table
      BY <1>1
    <2>2. CASE k <= i
      BY <2>1, <2>2, <1>1, <1>4 DEF Gathered, Scanned
    <2>3. CASE i < k
      <3>1. table[k].from = table[i].from
        <4>1. CASE k = j
          BY <4>1
        <4>2. CASE k < j
          BY <4>2, <2>1, <2>3, <1>1 DEF TableInv, Sorted
        <4> QED BY <4>1, <4>2, <1>1, <2>1
      <3> QED BY <3>1, <1>2 DEF ScriptInv
    <2> QED BY <2>1, <2>2, <2>3, <1>1
  <1> QED BY <1>1, <1>2, <1>3, <1>4 DEF Gathered, Scanned

\* What the end of a pass leaves in the scripts was not scanned.
LEMMA LeftUnscanned ==
  ASSUME IInv, EndPass, NEW f \in touched', NEW j \in DOMAIN table,
         table[j].from = f, table[j].dir = "from_script"
  PROVE  \E i \in 1..(j - 1) : table[i].from \in NotReady
  <1> USE DEF IInv
  <1>1. f \in touched /\ j \notin Gathered
    BY DEF EndPass
  <1>2. DOMAIN table = 1..PassLength /\ PassLength \in Nat /\ j \in Nat
    BY DEF TypeOK, PassLength
  <1>3. j \notin Scanned
    BY <1>1 DEF Gathered
  <1>4. PICK i \in 1..j : /\ table[i].dir = "from_script"
                          /\ table[i].from \in NotReady
    BY <1>2, <1>3 DEF Scanned
  <1>5. i # j
    BY <1>1, <1>4 DEF ScriptInv
  <1>6. i \in 1..(j - 1)
    BY <1>2, <1>4, <1>5
  <1> QED BY <1>4, <1>6

LEMMA EndPassKeepsIInv ==
  ASSUME IInv, EndPass
  PROVE  IInv'
  <1> USE DEF IInv
  <1>1. table \in Seq(Routes) /\ Len(table) \in Nat
    BY DEF TypeOK
  <1>2. value' \in [Fields -> 0..MaxEvents]
    <2>1. ASSUME NEW f \in Fields, GatheredTo(f) # {}
          PROVE  value[table[Latest(GatheredTo(f))].from] \in 0..MaxEvents
      <3>1. GatheredTo(f) \in SUBSET (1..PassLength)
        BY <1>1, GatheredTypes
      <3>2. Latest(GatheredTo(f)) \in Gathered
        BY <1>1, <2>1, <3>1, LatestIsOne, GatheredTypes
      <3>3. table[Latest(GatheredTo(f))].from \in Fields
        BY <1>1, <3>2, GatheredTypes, RouteTypes
      <3> QED BY <3>3 DEF TypeOK
    <2> QED BY <2>1 DEF EndPass, TypeOK
  <1>3. TypeOK'
    <2>1. FirstRoute \in 1..(Len(table) + 1)
      BY <1>1 DEF FirstRoute
    <2> QED BY <2>1, <1>2, FreshTypes DEF TypeOK, EndPass
  <1>4. LeftBehind'
    <2>1. ASSUME NEW i \in DOMAIN table PROVE ~(i < 1)
      BY <1>1
    <2> QED BY <2>1 DEF LeftBehind, EndPass, FirstRoute
  <1>5. TableInv' /\ ScriptInv'
    BY DEF TableInv, ScriptInv, EndPass
  <1>6. ScriptsGathered'
    <2>1. table' = table
      BY DEF EndPass
    <2> QED BY <2>1, LeftUnscanned DEF ScriptsGathered
  <1> QED BY <1>3, <1>4, <1>5, <1>6

LEMMA NextKeepsIInv == IInv /\ [Next]_vars => IInv'
  <1> SUFFICES ASSUME IInv, [Next]_vars PROVE IInv'
    OBVIOUS
  <1>1. CASE StartPropagate
    BY <1>1, StartKeepsIInv
  <1>2. CASE Skip
    BY <1>2, SkipKeepsIInv
  <1>3. CASE Fire
    BY <1>3, FireKeepsIInv
  <1>4. CASE EndPass
    BY <1>4, EndPassKeepsIInv
  <1>5. CASE \E f \in Sources : Event(f)
    BY <1>5, EventKeepsIInv
  <1>6. CASE UNCHANGED vars
    BY <1>6 DEF vars, IInv, TypeOK, TableInv, LeftBehind, ScriptInv,
                ScriptsGathered
  <1> QED BY <1>1, <1>2, <1>3, <1>4, <1>5, <1>6 DEF Next, PropagateEvents

LEMMA SpecIInv == Spec => []IInv
  <1> QED BY InitIInv, NextKeepsIInv, PTL DEF Spec

-----------------------------------------------------------------------------
(* The way of one event.  A route that has to carry it is marked, or what  *)
(* it comes from waits in a script, or the route that brings the event to  *)
(* its origin, which copied it already, is still to mark it.               *)

Pending(r) ==
  \/ r \in active
  \/ r.from \in touched
  \/ \E q \in active : q.dir = "from_script" /\ q.to = r.from

\* Nobody has the event before it happens.
Quiet == active = {} /\ stamped = {} /\ touched = {}

\* What is marked, and what waits in a script, has the event.
Carried ==
  /\ \A r \in active : value[r.from] = 1
  /\ \A r \in active : r.dir = "from_script" => value[r.to] = 1
  /\ \A f \in touched : value[f] = 1

\* A route that is not marked again has brought the event on.
Passed ==
  \A r \in stamped \ active :
    value[r.to] = 1 /\ RoutesFrom({r.to}) \subseteq stamped

OnItsWay ==
  \A r \in Routes : value[r.from] = 1 => value[r.to] = 1 \/ Pending(r)

OneEvent ==
  events <= 1 =>
    /\ \A f \in Fields : value[f] <= events
    /\ events = 0 => Quiet
    /\ Carried /\ Passed /\ OnItsWay

\* The event happens.
LEMMA EventKeepsOneEvent ==
  ASSUME IInv, OneEvent, NEW f \in Sources, Event(f)
  PROVE  OneEvent'
  <1> SUFFICES ASSUME events' <= 1 PROVE OneEvent'
    BY DEF OneEvent
  <1>1. events = 0 /\ events' = 1 /\ f \in Fields
    BY CascadeAssumption DEF IInv, TypeOK, Event
  <1>2. Quiet /\ \A g \in Fields : value[g] = 0
    BY <1>1 DEF OneEvent, IInv, TypeOK
  <1>3. value' = [value EXCEPT ![f] = 1] /\ value \in [Fields -> 0..MaxEvents]
    BY <1>1 DEF Event, IInv, TypeOK
  <1>4. /\ active' = RoutesFrom({f}) /\ stamped' = RoutesFrom({f})
        /\ touched' = {}
    BY <1>2 DEF Event, Fresh, Quiet
  <1>5. \A g \in Fields : value'[g] <= events'
    BY <1>1, <1>2, <1>3
  <1>6. Carried'
    <2>1. \A r \in active' : r.from = f /\ r.dir # "from_script"
      BY <1>4, ScriptAssumption DEF RoutesFrom, OtherFields
    <2> QED BY <2>1, <1>1, <1>3, <1>4 DEF Carried
  <1>7. Passed'
    BY <1>4 DEF Passed
  <1>8. OnItsWay'
    <2> SUFFICES ASSUME NEW r \in Routes, value'[r.from] = 1
                 PROVE  r \in active'
      BY DEF OnItsWay, Pending
    <2>1. r.from \in Fields
      BY RouteTypes
    <2> QED BY <2>1, <1>2, <1>3, <1>4 DEF RoutesFrom
  <1> QED BY <1>1, <1>5, <1>6, <1>7, <1>8 DEF OneEvent

\* propagate_events begins: the time stamp is a new one.
LEMMA StartKeepsOneEvent ==
  ASSUME OneEvent, StartPropagate
  PROVE  OneEvent'
  BY DEF OneEvent, StartPropagate, Quiet, Carried, Passed, OnItsWay, Pending

LEMMA SkipKeepsOneEvent ==
  ASSUME OneEvent, Skip
  PROVE  OneEvent'
  BY DEF OneEvent, Skip, Quiet, Carried, Passed, OnItsWay, Pending, RoutesFrom

\* A route that fires hands on the event: what it sets has it then, and
\* nothing else changes.
LEMMA FireHandsOn ==
  ASSUME IInv, events = 1, \A f \in Fields : value[f] <= 1, Carried, Fire
  PROVE  /\ value'[Route.to] = 1
         /\ \A f \in Fields : value[f] = 1 => value'[f] = 1
         /\ \A f \in Fields : value'[f] <= 1
         /\ \A f \in touched' : value'[f] = 1
         /\ \A f \in Fields : value'[f] = 1 /\ value[f] # 1 =>
              \/ f \in touched'
              \/ f \in (IF Route.dir = "none" THEN MarkedBy(Route)
                                              ELSE {Route.to})
  <1>1. /\ Route \in Routes /\ Route \in active
        /\ value[Route.from] = 1
    BY RouteInPass DEF IInv, Fire, Carried
  <1>2. /\ Route.from \in Fields /\ Route.to \in Fields
        /\ Route.dir \in {"none", "to_script", "from_script"}
        /\ Outputs[Route.to] \subseteq Fields
    BY <1>1, RouteTypes
  <1>3. touched \subseteq Fields /\ \A f \in touched : value[f] = 1
    BY DEF IInv, TypeOK, Carried
  <1>4. CASE Route.dir = "none"
    <2>1. /\ value' = Deliver({Route.to} \cup Interpolated(Route), 1)
          /\ touched' = touched
      BY <1>1, <1>4 DEF Fire
    <2> QED BY <2>1, <1>2, <1>3, <1>4 DEF Deliver, MarkedBy
  <1>5. CASE Route.dir = "to_script"
    <2> DEFINE result == Outputs[Route.to] \ NotReady
    <2>1. /\ value' = Deliver({Route.to} \cup result, 1)
          /\ touched' = touched \cup result
      BY <1>1, <1>5 DEF Fire
    <2> HIDE DEF result
    <2> QED BY <2>1, <1>2, <1>3, <1>5, FireEffect DEF Deliver, IInv, TypeOK
  <1>6. CASE Route.dir = "from_script"
    <2>1. value' = value /\ touched' = touched
      BY <1>6 DEF Fire
    <2>2. value[Route.to] = 1
      BY <1>1, <1>6 DEF Carried
    <2> QED BY <2>1, <2>2, <1>3
  <1> QED BY <1>2, <1>4, <1>5, <1>6

LEMMA FireKeepsOneEvent ==
  ASSUME IInv, OneEvent, Fire
  PROVE  OneEvent'
  <1> SUFFICES ASSUME events' <= 1 PROVE OneEvent'
    BY DEF OneEvent
  <1>1. Route \in Routes /\ Route \in active
    BY RouteInPass DEF IInv, Fire
  <1>2. events = 1 /\ events' = 1
    BY <1>1 DEF IInv, TypeOK, Fire, OneEvent, Quiet
  <1>3. /\ \A f \in Fields : value[f] <= 1
        /\ Carried /\ Passed /\ OnItsWay
    BY <1>2 DEF OneEvent
  <1> DEFINE marks == IF Route.dir = "none" THEN MarkedBy(Route)
                                            ELSE {Route.to}
  <1>4. /\ Route.to \in marks
        /\ active' = (active \ {Route}) \cup Fresh(marks)
        /\ stamped' = stamped \cup Fresh(marks)
        /\ Fresh(marks) \subseteq Routes
        /\ active \subseteq Routes /\ stamped \subseteq Routes
    BY FireMarks DEF IInv, TypeOK
  <1>5. /\ value'[Route.to] = 1
        /\ \A f \in Fields : value[f] = 1 => value'[f] = 1
        /\ \A f \in Fields : value'[f] <= 1
        /\ \A f \in touched' : value'[f] = 1
        /\ \A f \in Fields : value'[f] = 1 /\ value[f] # 1 =>
             f \in touched' \/ f \in marks
    BY <1>2, <1>3, FireHandsOn
  <1>6. /\ RoutesFrom(marks) \subseteq stamped'
        /\ \A r \in Fresh(marks) : r.from \in marks
        /\ touched \subseteq touched'
    BY <1>4, FreshTypes, FireEffect DEF Fresh, RoutesFrom, IInv
  <1>7. \A f \in marks : value'[f] = 1 /\ f \in OtherFields
    <2>1. Route.to \in OtherFields
      BY <1>1 DEF OtherFields
    <2>2. CASE Route.dir = "none"
      <3>1. value' = Deliver(marks, 1)
        BY <1>1, <1>3, <2>2 DEF Fire, MarkedBy, Carried
      <3>2. marks \subseteq Fields
        BY <1>1, RouteTypes DEF MarkedBy
      <3>3. marks \subseteq OtherFields
        BY <1>1, <2>1, <2>2 DEF MarkedBy, Interpolated, OtherFields
      <3> HIDE DEF marks
      <3> QED BY <3>1, <3>2, <3>3 DEF Deliver
    <2>3. CASE Route.dir # "none"
      BY <2>1, <2>3, <1>5
    <2> QED BY <2>2, <2>3
  <1> HIDE DEF marks
  <1>8. Carried'
    <2>1. ASSUME NEW r \in active'
          PROVE  /\ value'[r.from] = 1
                 /\ r.dir = "from_script" => value'[r.to] = 1
      <3>1. r \in Routes /\ r.from \in Fields /\ r.to \in Fields
        BY <1>4, RouteTypes
      <3>2. CASE r \in active
        BY <3>1, <3>2, <1>3, <1>5 DEF Carried
      <3>3. CASE r \in Fresh(marks)
        BY <3>1, <3>3, <1>6, <1>7, ScriptAssumption
      <3> QED BY <3>2, <3>3, <1>4
    <2> QED BY <2>1, <1>5 DEF Carried
  <1>9. ASSUME NEW r \in stamped' \ active'
        PROVE  /\ value'[r.to] = 1
               /\ RoutesFrom({r.to}) \subseteq stamped'
    <2>1. r \in Routes /\ r.to \in Fields /\ r \in stamped
      BY <1>4, RouteTypes
    <2>2. CASE r = Route
      BY <2>2, <1>4, <1>5, <1>6 DEF RoutesFrom
    <2>3. CASE r \notin active
      BY <2>1, <2>3, <1>3, <1>4, <1>5 DEF Passed
    <2> QED BY <2>2, <2>3, <1>4
  <1>10. Passed'
    BY <1>9 DEF Passed, RoutesFrom
  <1>11. OnItsWay'
    <2> SUFFICES ASSUME NEW r \in Routes, value'[r.from] = 1
                 PROVE  value'[r.to] = 1 \/ Pending(r)'
      BY DEF OnItsWay
    <2>1. r.from \in Fields /\ r.to \in Fields
      BY RouteTypes
    <2>2. CASE r.from \in marks
      <3>1. r \in stamped'
        BY <2>2, <1>6 DEF RoutesFrom
      <3> QED BY <3>1, <1>9 DEF Pending
    <2>3. CASE r.from \in touched'
      BY <2>3 DEF Pending
    <2>4. CASE r.from \notin marks /\ r.from \notin touched'
      <3>1. value[r.from] = 1 /\ r.from \notin touched
        BY <2>1, <2>4, <1>5, <1>6
      <3>2. CASE value[r.to] = 1
        BY <3>2, <2>1, <1>5
      <3>3. CASE r \in active
        BY <3>3, <1>4, <1>5 DEF Pending
      <3>4. ASSUME NEW q \in active, q.dir = "from_script", q.to = r.from
            PROVE  Pending(r)'
        <4>1. q # Route
          BY <3>4, <2>4, <1>4
        <4> QED BY <3>4, <4>1, <1>4 DEF Pending
      <3> QED BY <3>1, <3>2, <3>3, <3>4, <1>3 DEF OnItsWay, Pending
    <2> QED BY <2>2, <2>3, <2>4
  <1> QED BY <1>2, <1>5, <1>8, <1>10, <1>11 DEF OneEvent

\* The end of a pass copies what waits in the scripts.
LEMMA EndPassHandsOn ==
  ASSUME IInv, Carried, EndPass, NEW f \in Fields
  PROVE  value'[f] = IF GatheredTo(f) = {} THEN value[f] ELSE 1
  <1>1. CASE GatheredTo(f) # {}
    <2>1. table \in Seq(Routes)
      BY DEF IInv, TypeOK
    <2>2. GatheredTo(f) \in SUBSET (1..PassLength)
      BY <2>1, GatheredTypes
    <2>3. Latest(GatheredTo(f)) \in Gathered
      BY <1>1, <2>1, <2>2, LatestIsOne, GatheredTypes
    <2>4. value[table[Latest(GatheredTo(f))].from] = 1
      BY <2>1, <2>3, GatheredTypes DEF Carried
    <2> QED BY <1>1, <2>4 DEF EndPass
  <1>2. CASE GatheredTo(f) = {}
    BY <1>2 DEF EndPass
  <1> QED BY <1>1, <1>2

LEMMA EndPassKeepsOneEvent ==
  ASSUME IInv, OneEvent, EndPass
  PROVE  OneEvent'
  <1> SUFFICES ASSUME events' <= 1 PROVE OneEvent'
    BY DEF OneEvent
  <1>1. /\ events' = events /\ events \in {0, 1}
        /\ \A f \in Fields : value[f] <= events
        /\ Carried /\ Passed /\ OnItsWay
    BY DEF OneEvent, IInv, TypeOK, EndPass
  <1>2. /\ table \in Seq(Routes)
        /\ active \subseteq Routes /\ stamped \subseteq Routes
        /\ touched \subseteq Fields
    BY DEF IInv, TypeOK
  <1>3. /\ \A i \in Gathered : /\ table[i] \in Routes
                               /\ table[i].from \in touched
                               /\ table[i].dir = "from_script"
        /\ \A f : GatheredTo(f) \subseteq Gathered
    BY <1>2, GatheredTypes
  <1>4. \A f \in Fields :
          value'[f] = IF GatheredTo(f) = {} THEN value[f] ELSE 1
    BY <1>1, EndPassHandsOn
  <1>5. /\ active' = active \cup Fresh(GatherMarks)
        /\ stamped' = stamped \cup Fresh(GatherMarks)
        /\ Fresh(GatherMarks) \subseteq Routes
        /\ RoutesFrom(GatherMarks) \subseteq stamped'
        /\ \A r \in Fresh(GatherMarks) : r.from \in GatherMarks
    BY FreshTypes DEF EndPass, Fresh
  <1>6. events = 0 => Quiet'
    <2> SUFFICES ASSUME events = 0 PROVE Quiet'
      OBVIOUS
    <2>1. touched = {} /\ active = {} /\ stamped = {}
      BY DEF OneEvent, Quiet
    <2>2. GatherMarks = {} /\ touched' = {}
      BY <2>1, <1>3 DEF GatherMarks, EndPass
    <2> QED BY <2>1, <2>2, <1>5 DEF Quiet, Fresh, RoutesFrom
  <1>7. \A f \in Fields : value'[f] <= events'
    <2> SUFFICES ASSUME NEW f \in Fields PROVE value'[f] <= events
      BY <1>1
    <2>1. CASE events = 0
      <3>1. Gathered = {}
        BY <2>1, <1>3 DEF OneEvent, Quiet
      <3> QED BY <3>1, <1>1, <1>3, <1>4
    <2>2. CASE events = 1
      BY <2>2, <1>1, <1>4
    <2> QED BY <2>1, <2>2, <1>1
  <1>8. /\ \A f \in Fields : value[f] = 1 => value'[f] = 1
        /\ \A i \in Gathered : value'[table[i].to] = 1
    <2>1. ASSUME NEW i \in Gathered
          PROVE  table[i].to \in Fields /\ i \in GatheredTo(table[i].to)
      BY <1>3, RouteTypes DEF GatheredTo
    <2> QED BY <2>1, <1>4
  \* What is marked is an eventOut that waited, or was just set from one.
  <1>9. ASSUME NEW f \in GatherMarks
        PROVE  value'[f] = 1 /\ (f \in touched \/ f \in OtherFields)
    <2>1. PICK i \in Gathered : f \in {table[i].from}
                                  \cup Interpolated(table[i])
      BY DEF GatherMarks
    <2>2. CASE f = table[i].from
      BY <2>2, <1>1, <1>2, <1>3, <1>8 DEF Carried
    <2>3. CASE f \in Interpolated(table[i])
      <3>1. f \in Fields /\ i \in GatheredTo(f)
        BY <2>3, <1>3, RouteTypes DEF GatheredTo
      <3>2. f \in OtherFields
        BY <2>3, <1>3 DEF Interpolated, OtherFields
      <3> QED BY <3>1, <3>2, <1>4
    <2> QED BY <2>1, <2>2, <2>3
  \* The routes from an eventOut that waited are gathered together.
  <1>10. ASSUME NEW r \in Routes, r.from \in touched \ touched'
         PROVE  /\ value'[r.to] = 1
                /\ r \in stamped'
    <2>1. PICK i \in Gathered : r.from = table[i].from
      BY <1>10 DEF EndPass
    <2>2. PICK j \in DOMAIN table : table[j] = r
      BY DEF IInv, TableInv
    <2>3. j \in Gathered
      BY <2>1, <2>2, GatheredTogether
    <2>4. r \in RoutesFrom(GatherMarks)
      BY <2>1 DEF GatherMarks, RoutesFrom
    <2> QED BY <2>2, <2>3, <2>4, <1>5, <1>8
  <1>11. touched' \subseteq touched
    BY DEF EndPass
  <1>12. Carried'
    <2>1. ASSUME NEW r \in active'
          PROVE  /\ value'[r.from] = 1
                 /\ r.dir = "from_script" => value'[r.to] = 1
      <3>1. r \in Routes /\ r.from \in Fields /\ r.to \in Fields
        BY <1>2, <1>5, RouteTypes
      <3>2. CASE r \in active
        BY <3>1, <3>2, <1>1, <1>8 DEF Carried
      <3>3. CASE r \in Fresh(GatherMarks)
        <4>1. value'[r.from] = 1
          BY <3>3, <1>5, <1>9
        <4>2. ASSUME r.dir = "from_script" PROVE value'[r.to] = 1
          <5>1. PICK i \in Gathered : r.from \in {table[i].from}
                                           \cup Interpolated(table[i])
            BY <3>3, <1>5 DEF GatherMarks
          <5>2. r.from \notin OtherFields
            BY <3>1, <4>2, ScriptAssumption
          <5>3. r.from = table[i].from
            BY <5>1, <5>2, <1>3 DEF Interpolated, OtherFields
          <5>4. r.from \in touched \ touched'
            BY <5>3, <1>3 DEF EndPass
          <5> QED BY <3>1, <5>4, <1>10
        <4> QED BY <4>1, <4>2
      <3> QED BY <3>2, <3>3, <1>5
    <2>2. \A f \in touched' : value'[f] = 1
      BY <1>1, <1>2, <1>8, <1>11 DEF Carried
    <2> QED BY <2>1, <2>2 DEF Carried
  <1>13. ASSUME NEW r \in stamped' \ active'
         PROVE  /\ value'[r.to] = 1
                /\ RoutesFrom({r.to}) \subseteq stamped'
    <2>1. r \in stamped \ active /\ r.to \in Fields
      BY <1>2, <1>5, RouteTypes
    <2> QED BY <2>1, <1>1, <1>5, <1>8 DEF Passed
  <1>14. Passed'
    BY <1>13 DEF Passed, RoutesFrom
  <1>15. OnItsWay'
    <2> SUFFICES ASSUME NEW r \in Routes, value'[r.from] = 1
                 PROVE  value'[r.to] = 1 \/ Pending(r)'
      BY DEF OnItsWay
    <2>1. r.from \in Fields /\ r.to \in Fields
      BY RouteTypes
    <2>2. CASE r \in stamped'
      BY <2>2, <1>13 DEF Pending
    <2>3. CASE r.from \in touched \ touched'
      BY <2>3, <1>10
    <2>4. CASE GatheredTo(r.from) # {} /\ r \notin stamped'
      <3>1. PICK i \in Gathered : r.from \in {table[i].to}
                                         \cup Interpolated(table[i])
        BY <2>4, <1>3 DEF GatheredTo
      <3>2. r.from \notin GatherMarks
        BY <2>4, <1>5 DEF RoutesFrom
      <3>3. r.from = table[i].to
        BY <3>1, <3>2 DEF GatherMarks
      <3>4. table[i] \in Routes /\ table[i].from \in GatherMarks
        BY <1>3 DEF GatherMarks
      <3>5. table[i] \in stamped'
        BY <3>4, <1>5 DEF RoutesFrom
      <3>6. table[i] \in active'
        BY <3>3, <3>5, <2>4, <1>13 DEF RoutesFrom
      <3> QED BY <3>3, <3>6, <1>3 DEF Pending
    <2>5. CASE GatheredTo(r.from) = {} /\ ~(r.from \in touched \ touched')
      <3>1. value[r.from] = 1
        BY <2>1, <2>5, <1>4
      <3>2. value[r.to] = 1 \/ Pending(r)
        BY <3>1, <1>1 DEF OnItsWay
      <3> QED BY <3>2, <2>1, <2>5, <1>5, <1>8 DEF Pending
    <2> QED BY <2>2, <2>3, <2>4, <2>5
  <1> QED BY <1>1, <1>6, <1>7, <1>12, <1>14, <1>15 DEF OneEvent

LEMMA NextKeepsOneEvent == IInv /\ OneEvent /\ [Next]_vars => OneEvent'
  <1> SUFFICES ASSUME IInv, OneEvent, [Next]_vars PROVE OneEvent'
    OBVIOUS
  <1>1. CASE StartPropagate
    BY <1>1, StartKeepsOneEvent
  <1>2. CASE Skip
    BY <1>2, SkipKeepsOneEvent
  <1>3. CASE Fire
    BY <1>3, FireKeepsOneEvent
  <1>4. CASE EndPass
    BY <1>4, EndPassKeepsOneEvent
  <1>5. CASE \E f \in Sources : Event(f)
    BY <1>5, EventKeepsOneEvent
  <1>6. CASE UNCHANGED vars
    BY <1>6 DEF vars, OneEvent, Quiet, Carried, Passed, OnItsWay, Pending,
                RoutesFrom
  <1> QED BY <1>1, <1>2, <1>3, <1>4, <1>5, <1>6 DEF Next, PropagateEvents

LEMMA InitOneEvent == Init => OneEvent
  <1> SUFFICES ASSUME Init PROVE OneEvent
    OBVIOUS
  <1>1. Quiet /\ \A f \in Fields : value[f] = 0
    BY DEF Init, Quiet
  <1>2. OnItsWay
    BY <1>1, RouteTypes DEF OnItsWay
  <1>3. events = 0
    BY DEF Init
  <1> QED BY <1>1, <1>2, <1>3 DEF OneEvent, Quiet, Carried, Passed

LEMMA SpecOneEvent == Spec => [](IInv /\ OneEvent)
  <1>1. Init => IInv /\ OneEvent
    BY InitIInv, InitOneEvent
  <1>2. IInv /\ OneEvent /\ [Next]_vars => (IInv /\ OneEvent)'
    BY NextKeepsIInv, NextKeepsOneEvent
  <1> QED BY <1>1, <1>2, PTL DEF Spec

-----------------------------------------------------------------------------
(* The theorems. *)

\* Routes, values and marks stay what the routing table and the scene allow.
THEOREM TypeCorrect == Spec => []TypeOK
  <1>1. IInv => TypeOK
    BY DEF IInv
  <1> QED BY <1>1, SpecIInv, PTL

\* propagate_events leaves an eventOut in its script only if its route comes
\* after one of a script that is not ready, where gatherScriptEventOuts stops.
THEOREM GatherIsComplete == Spec => []ScriptsGathered
  <1>1. IInv => ScriptsGathered
    BY DEF IInv
  <1> QED BY <1>1, SpecIInv, PTL

\* Every event pending when propagate_events is called is delivered before it
\* returns: the routes it leaves marked were marked during the call.
THEOREM PendingDelivered == Spec => PendingIsDelivered
  <1>1. ASSUME IInv, [Next]_vars, phase = "pass", phase' = "events"
        PROVE  active' \subseteq stamped'
    <2>1. EndPass
      BY <1>1 DEF Next, PropagateEvents, StartPropagate, Skip, Fire, InPass,
                  Event, vars
    <2>2. ASSUME NEW r \in active PROVE r \in stamped
      <3>1. PICK i \in DOMAIN table : table[i] = r
        BY <1>1 DEF IInv, TypeOK, TableInv
      <3>2. i < counter
        BY <1>1, <2>1 DEF IInv, TypeOK, EndPass, PassLength
      <3> QED BY <1>1, <3>1, <3>2 DEF IInv, LeftBehind
    <2> QED BY <2>1, <2>2 DEF EndPass
  <1>2. IInv /\ [Next]_vars
          => [phase = "pass" /\ phase' = "events"
                => active' \subseteq stamped']_vars
    BY <1>1
  <1> QED BY <1>2, SpecIInv, PTL DEF Spec, PendingIsDelivered

\* A single event reaches every field that routes, interpolators and scripts
\* lead to, whatever the order of the routing table and whatever its loops.
THEOREM EventReaches == Spec => []EventArrives
  <1>1. IInv /\ OneEvent => EventArrives
    <2> SUFFICES ASSUME IInv, OneEvent, events = 1, active = {},
                        NEW r \in Routes
                 PROVE  value[r.to] >= value[r.from] \/ r.from \in touched
      BY DEF EventArrives
    <2>1. r.from \in Fields /\ r.to \in Fields
      BY RouteTypes
    <2>2. value[r.from] \in {0, 1} /\ value[r.to] \in {0, 1}
      BY <2>1 DEF IInv, TypeOK, OneEvent
    <2>3. value[r.from] = 1 => value[r.to] = 1 \/ r.from \in touched
      BY DEF OneEvent, OnItsWay, Pending
    <2> QED BY <2>2, <2>3
  <1> QED BY <1>1, SpecOneEvent, PTL
=============================================================================
