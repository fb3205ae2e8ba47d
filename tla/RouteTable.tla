----------------------------- MODULE RouteTable -----------------------------
(***************************************************************************)
(* The routing table of src/lib/vrml_parser/CRoutes.c: the sorted array    *)
(* CRoutes with its two sentinels, the routes that wait to be entered      *)
(* (routesToRegister), the events that came before there was a table       *)
(* (preEvents), and do_first, which brings the three together in every     *)
(* frame.  What a delivered event sets off is the subject of EventCascade; *)
(* here it marks no other route, so time stamps do not matter.             *)
(*                                                                         *)
(* Routes are registered by the parser thread, by scripts and by the EAI;  *)
(* do_first and kill_routing belong to the main thread.                    *)
(***************************************************************************)
EXTENDS Integers, Sequences, SequencesExt

CONSTANTS Links,        \* the routes [from, fn, to, tofn] that are asked for
          Scripts,      \* nodes that take and send events as scripts do
          StaticGroups,
          Helpers,      \* addresses for nodes between two scripts
          Top,          \* the address -1, above every other one
          InitialMax, Growth,   \* sizes of the array: 25 and 50
          MaxCalls, MaxMarks, MaxKills   \* bounds

Links4 == [from : 1..(Top - 1), fn : Nat, to : 1..(Top - 1), tofn : Nat]

\* A node is its address.  A helper node is a new one: no route names it.
ASSUME TableAssumption ==
  /\ Top \in Nat \ {0}
  /\ Links \subseteq Links4
  /\ Scripts \subseteq Nat
  /\ StaticGroups \subseteq Nat
  /\ Helpers \subseteq 1..(Top - 1)
  /\ \A r \in Links : r.from \notin Helpers /\ r.to \notin Helpers
  /\ InitialMax \in Nat /\ InitialMax > 2
  /\ Growth \in Nat /\ Growth > 3
  /\ MaxCalls \in Nat /\ MaxMarks \in Nat /\ MaxKills \in Nat

VARIABLES initiated,  \* CRoutes_Initiated
          table,      \* CRoutes: entries [route, active]; Len: CRoutes_Count
          max,        \* CRoutes_MAX
          pending,    \* routesToRegister: requests [add, route]
          preEvents,  \* pairs of a node and an offset
          phase,      \* where the main thread is in do_first
          wanted,     \* history: the routes the calls so far ask for
          due,        \* history: those of them with an event on the way
          calls, marks, kills     \* bound counters

vars == <<initiated, table, max, pending, preEvents, phase, wanted, due,
          calls, marks, kills>>

Entry(r) == [route |-> r, active |-> FALSE]

\* Mutant: the offset 0x8FFFFFFF of the last one is a negative number.
MutSentinels == <<Entry([from |-> 0, fn |-> 0, to |-> 0, tofn |-> 0]),
                  Entry([from |-> Top, fn |-> -1, to |-> 0, tofn |-> 0])>>

Sentinels == <<Entry([from |-> 0, fn |-> 0, to |-> 0, tofn |-> 0]),
               Entry([from |-> Top, fn |-> Top, to |-> 0, tofn |-> 0])>>

Init ==
  /\ initiated = FALSE
  /\ table = <<>>
  /\ max = 0
  /\ pending = <<>>
  /\ preEvents = <<>>
  /\ phase = "frame"
  /\ wanted = {}
  /\ due = {}
  /\ calls = 0 /\ marks = 0 /\ kills = 0

-----------------------------------------------------------------------------
(* Asking for routes.  The mutex is only held for long while do_first      *)
(* enters routes into the table.                                           *)

MutexFree == phase # "register"

\* A node that joins two scripts: setValue (1) and valueChanged (2).
In == 1
Out == 2

Used == {table[i].route.from : i \in DOMAIN table}
          \cup {pending[i].route.from : i \in DOMAIN pending}

Add(r) == [add |-> TRUE, route |-> r]
Drop(r) == [add |-> FALSE, route |-> r]

ThroughHelper(r, h) ==
  <<Add([r EXCEPT !.to = h, !.tofn = In]), Add([r EXCEPT !.from = h, !.fn = Out])>>

Call ==
  /\ MutexFree
  /\ calls < MaxCalls
  /\ calls' = calls + 1
  /\ UNCHANGED <<initiated, table, max, preEvents, phase, marks, kills>>

RegisterSimple(r) ==
  /\ Call
  /\ (r.to \in Scripts \/ r.to \notin StaticGroups)
  /\ (r.from \in Scripts \/ r.from \notin StaticGroups)
  /\ IF {r.from, r.to} \subseteq Scripts
     THEN \E h \in Helpers \ Used : pending' = pending \o ThroughHelper(r, h)
     ELSE pending' = Append(pending, Add(r))
  /\ wanted' = wanted \cup {r}
  /\ UNCHANGED due

\* The direction given to CRoutes_Register is 0, whatever the nodes are.
RemoveSimple(r) ==
  /\ Call
  /\ pending' = Append(pending, Drop(r))
  /\ wanted' = wanted \ {r}
  /\ due' = due \ {r}

-----------------------------------------------------------------------------
(* mark_event. *)

\* The search stops at g: first past the smaller nodes, then past the other
\* offsets of this node.
SearchStops(n, o, g) ==
  \E f \in 2..g :
    /\ n <= table[f].route.from
    /\ \A j \in 2..(f - 1) : n > table[j].route.from
    /\ \A j \in f..(g - 1) : table[j].route.from = n /\ table[j].route.fn # o
    /\ ~(table[g].route.from = n /\ table[g].route.fn # o)

\* The entries that are marked when the search has stopped at g.
RunFrom(n, o, g) ==
  {i \in g..Len(table) :
     \A j \in g..i : table[j].route.from = n /\ table[j].route.fn = o}

Mark(n, o) ==
  \E g \in 2..Len(table) :
    /\ SearchStops(n, o, g)
    /\ table' = [i \in DOMAIN table |->
                   IF i \in RunFrom(n, o, g)
                   THEN [table[i] EXCEPT !.active = TRUE] ELSE table[i]]

\* An entry is the route r, or its first half if a node joins two scripts.
Leg(e, r) == /\ e.route.from = r.from /\ e.route.fn = r.fn
             /\ \/ e.route = r
                \/ e.route.to \in Helpers /\ {r.from, r.to} \subseteq Scripts

InTable(r) == \E i \in DOMAIN table : Leg(table[i], r)

IsActive(r) == \E i \in DOMAIN table : Leg(table[i], r) /\ table[i].active

\* The main thread marks between two calls of do_first.  Before there is a
\* table the parser marks too, whatever the main thread does.
MarkEvent(n, o) ==
  /\ marks < MaxMarks
  /\ marks' = marks + 1
  /\ phase = "frame" \/ ~initiated
  /\ IF initiated
     THEN Mark(n, o) /\ UNCHANGED preEvents
     ELSE preEvents' = Append(preEvents, <<n, o>>) /\ UNCHANGED table
  /\ due' = due \cup {r \in wanted : /\ r.from = n /\ r.fn = o
                                     /\ ~initiated \/ InTable(r)}
  /\ UNCHANGED <<initiated, max, pending, phase, wanted, calls, kills>>

-----------------------------------------------------------------------------
(* do_first, and kill_routing. *)

\* propagate_events follows every active route.
DoFirst ==
  /\ phase = "frame"
  /\ phase' = "first"
  /\ table' = [i \in DOMAIN table |-> [table[i] EXCEPT !.active = FALSE]]
  /\ due' = {r \in due : ~IsActive(r)}
  /\ UNCHANGED <<initiated, max, pending, preEvents, wanted, calls, marks, kills>>

AnyRoutesWaiting ==
  /\ phase = "first"
  /\ phase' = IF pending = <<>> THEN "replay" ELSE "register"
  /\ UNCHANGED <<initiated, table, max, pending, preEvents, wanted, due, calls,
                 marks, kills>>

Before(q, r) == q.from < r.from \/ (q.from = r.from /\ q.fn < r.fn)

\* Mutant: the offset is not looked at.
MutIsPosition(t, r, i) == /\ t[i].route.from >= r.from
                          /\ \A j \in 2..(i - 1) : t[j].route.from < r.from

\* Where the request for r is carried out: at the first entry of t that is not
\* before it.
IsPosition(t, r, i) == /\ ~Before(t[i].route, r)
                       /\ \A j \in 2..(i - 1) : Before(t[j].route, r)

\* Mutant: the array grows when it is full.
MutNeedsRoom(count, m) == count >= m

NeedsRoom(count, m) == count >= m - 2

\* Mutant: the receiver is not looked at.
MutIsThere(t, i, r) == t[i].route.from = r.from /\ t[i].route.fn = r.fn

\* A duplicate is looked for at the position only.
IsThere(t, i, r) == t[i].route = r

Enter(t, m, q) ==
  \E i \in 2..Len(t) :
    /\ IsPosition(t, q.route, i)
    /\ \/ /\ q.add /\ ~IsThere(t, i, q.route)
          /\ table' = InsertAt(t, i, Entry(q.route))
          /\ max' = IF NeedsRoom(Len(t), m) THEN m + Growth ELSE m
       \/ /\ ~q.add /\ IsThere(t, i, q.route)
          /\ table' = RemoveAt(t, i)
          /\ max' = m
       \/ /\ q.add = IsThere(t, i, q.route)
          /\ table' = t
          /\ max' = m

\* One round of the loop of actually_do_CRoutes_Register.
RegisterOne ==
  /\ phase = "register" /\ pending # <<>>
  /\ initiated' = TRUE
  /\ IF initiated THEN Enter(table, max, Head(pending))
                  ELSE Enter(Sentinels, InitialMax, Head(pending))
  /\ pending' = Tail(pending)
  /\ UNCHANGED <<preEvents, phase, wanted, due, calls, marks, kills>>

RegisterDone ==
  /\ phase = "register" /\ pending = <<>>
  /\ phase' = "replay"
  /\ UNCHANGED <<initiated, table, max, pending, preEvents, wanted, due, calls,
                 marks, kills>>

\* Mutant: the saved events are dropped if there is still no table.
MutKeepsSaved == <<>>

\* What is left of preEvents when there is no table to mark in.
KeepsSaved == preEvents

\* One saved event is marked, or there is none, or nowhere to mark it.
Replay ==
  /\ phase = "replay"
  /\ IF initiated /\ preEvents # <<>>
     THEN /\ Mark(Head(preEvents)[1], Head(preEvents)[2])
          /\ preEvents' = Tail(preEvents)
          /\ UNCHANGED phase
     ELSE /\ phase' = "frame"
          /\ preEvents' = KeepsSaved
          /\ UNCHANGED table
  /\ UNCHANGED <<initiated, max, pending, wanted, due, calls, marks, kills>>

\* Neither the waiting routes nor the saved events are touched.
KillRouting ==
  /\ phase = "frame"
  /\ kills < MaxKills
  /\ kills' = kills + 1
  /\ initiated' = FALSE
  /\ table' = <<>>
  /\ max' = 0
  /\ wanted' = {}
  /\ due' = {}
  /\ UNCHANGED <<pending, preEvents, phase, calls, marks>>

Frame == DoFirst \/ AnyRoutesWaiting \/ RegisterOne \/ RegisterDone \/ Replay

Next ==
  \/ Frame
  \/ KillRouting
  \/ \E r \in Links : \/ RegisterSimple(r)
                      \/ RemoveSimple(r)
                      \/ MarkEvent(r.from, r.fn)

Spec == Init /\ [][Next]_vars

\* The main loop never ends.
FairSpec == Spec /\ WF_vars(Frame)

-----------------------------------------------------------------------------
(* Properties. *)

Route == [from : 0..Top, fn : Nat, to : Nat, tofn : Nat]

TypeOK ==
  /\ initiated \in BOOLEAN
  /\ table \in Seq([route : Route, active : BOOLEAN])
  /\ max \in Nat
  /\ pending \in Seq([add : BOOLEAN, route : Links4])
  /\ preEvents \in Seq((1..(Top - 1)) \X Nat)
  /\ phase \in {"frame", "first", "register", "replay"}
  /\ wanted \subseteq Links
  /\ due \subseteq Links
  /\ calls \in Nat /\ marks \in Nat /\ kills \in Nat

\* The sentinels are at the ends and the entries between them in the order of
\* node and offset: what every search in the table relies on.
TableSorted ==
  initiated =>
    /\ Len(table) >= 2
    /\ table[1].route.from = 0 /\ table[Len(table)].route.from = Top
    /\ \A i \in 2..(Len(table) - 1) : table[i].route.from \in 1..(Top - 1)
    /\ \A i, j \in DOMAIN table :
         i < j => ~Before(table[j].route, table[i].route)

\* There is always room for one more entry: a registration writes at the index
\* CRoutes_Count and a removal reads there, before the array can grow.
TableFits == initiated => Len(table) < max

\* Wherever the search of mark_event stops, the entries it then marks are all
\* the routes from that field.
MarkFindsAll ==
  initiated =>
    \A r \in Links : \A g \in 2..Len(table) :
      SearchStops(r.from, r.fn, g)
        => RunFrom(r.from, r.fn, g)
             = {i \in DOMAIN table : /\ table[i].route.from = r.from
                                     /\ table[i].route.fn = r.fn}

\* Once all requests are carried out, no route that was asked for is missing.
NoRouteMissing == pending = <<>> => \A r \in wanted : InTable(r)

\* Once all requests are carried out, the table holds exactly the routes the
\* calls asked for, each of them once.
TableMatches ==
  pending = <<>> /\ initiated =>
    /\ NoRouteMissing
    /\ \A i \in 2..(Len(table) - 1) :
         \/ table[i].route.from \in Helpers
         \/ \E r \in wanted : Leg(table[i], r)
    /\ \A i, j \in DOMAIN table : i # j => table[i].route # table[j].route

\* An event for a route that is in the table, or for a route that waits while
\* there is no table yet, is marked there or saved until it is delivered.
EventKept ==
  \A r \in due : IsActive(r) \/ \E i \in DOMAIN preEvents :
                                  preEvents[i] = <<r.from, r.fn>>

\* Such an event is delivered at last, if the route is not removed before.
EventDelivered == \A r \in Links : r \in due ~> r \notin due
=============================================================================
