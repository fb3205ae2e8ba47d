---------------------------- MODULE TimeSensors ----------------------------
(***************************************************************************)
(* The clock events of a frame: the list ClockEvents with its holes        *)
(* (add_first, delete_first, kill_clockEvents and the loop of do_first in  *)
(* vrml_parser/CRoutes.c), and what one of its functions does, the tick of *)
(* a TimeSensor (scenegraph/Component_Time.c, and do_active_inactive of    *)
(* input/SensInterps.c).                                                   *)
(*                                                                         *)
(* Time is counted in whole units; a frame comes any number of them after  *)
(* the one before, more when the parser was at work in between.            *)
(***************************************************************************)
EXTENDS Naturals, Sequences, FiniteSets

CONSTANTS Clocks,        \* TimeSensors, as addresses: used again when freed
          CycleOf,       \* cycleInterval, which is not set again
          FirstTime,     \* the time is never near zero
          MaxTime, MaxStep, MaxCalls,  \* bounds
          NoClock

ASSUME ClocksAssumption ==
  /\ NoClock \notin Clocks
  /\ CycleOf \in [Clocks -> Nat \ {0}]
  /\ FirstTime \in Nat /\ MaxTime \in Nat
  /\ \A c \in Clocks : CycleOf[c] < FirstTime
  /\ MaxStep \in Nat \ {0} /\ MaxCalls \in Nat

VARIABLES now,           \* TickTime()
          node,          \* the fields of each TimeSensor
          life,          \* "none", "there", given up, off the list
          ClockEvents,   \* nodes, and NoClock where one was deleted
          cycled,        \* who sent cycleTime in the last frame
          started,       \* history: who became active in it
          touched,       \* history: who was set or made since
          ended,         \* history: who stopped by itself and was not set
          forgotten,     \* history: nodes of an earlier world
          calls          \* bound counter

clockHistory == <<started, touched, ended, forgotten>>
clockVars == <<now, node, life, ClockEvents, cycled, clockHistory, calls>>

\* __ctflag is made to force a cycleTime event: 10, and a fraction is at most 1.
Forced(n) == 10 * n.cycleInterval

\* What createNewX3DNode puts in.
NewNode(c) == [enabled |-> TRUE, loop |-> FALSE, startTime |-> 0,
               stopTime |-> 0, cycleInterval |-> CycleOf[c],
               isActive |-> FALSE, ctflag |-> 10 * CycleOf[c]]

ClockInit ==
  /\ now = FirstTime
  /\ node = [c \in Clocks |-> NewNode(c)]
  /\ life = [c \in Clocks |-> "none"]
  /\ ClockEvents = <<>>
  /\ cycled = {}
  /\ started = {} /\ touched = {} /\ ended = {} /\ forgotten = {}
  /\ calls = 0

-----------------------------------------------------------------------------
(* The list. *)

Places(c) == {i \in DOMAIN ClockEvents : ClockEvents[i] = c}
First(places) == CHOOSE i \in places : \A j \in places : i <= j

AddFirst(c) ==
  CASE Places(c) # {} -> ClockEvents
    [] Places(c) = {} /\ Places(NoClock) # {} ->
         [ClockEvents EXCEPT ![First(Places(NoClock))] = c]
    [] OTHER -> Append(ClockEvents, c)

\* Mutant: the deleted entry is the end of the list.
MutDeleteFirst(list, gone) ==
  LET ends == {i \in DOMAIN list : list[i] \in gone}
  IN  IF ends = {} THEN list ELSE SubSeq(list, 1, First(ends) - 1)

\* delete_first leaves a hole, so that the others keep their places.
DeleteFirst(list, gone) ==
  [i \in DOMAIN list |-> IF list[i] \in gone THEN NoClock ELSE list[i]]

-----------------------------------------------------------------------------
(* do_active_inactive, at time t. *)

\* "active - should we stop?"
Stops(n, t) ==
  /\ n.isActive
  /\ t > n.stopTime
  /\ \/ n.startTime < n.stopTime
     \/ ~n.loop /\ t >= n.startTime + n.cycleInterval

\* "should we start?"  __inittime is 0.
Starts(n, t) ==
  /\ ~n.isActive
  /\ \/ t < n.stopTime
     \/ n.startTime >= n.stopTime /\ (n.loop \/ n.startTime > 0)

\* Mutant: stopTime is left as it was.
MutHalted(n, t) == [n EXCEPT !.isActive = FALSE]

\* The time of the end is the new stopTime, so that it does not start again.
Halted(n, t) == [n EXCEPT !.isActive = FALSE, !.stopTime = t]

DoActiveInactive(n, t) ==
  LET m == IF Stops(n, t) THEN Halted(n, t) ELSE n
  IN  IF Starts(m, t)
      THEN [m EXCEPT !.isActive = TRUE,
                     !.startTime = IF @ > 0 THEN @ ELSE t]
      ELSE m

-----------------------------------------------------------------------------
(* do_TimeSensorTick, for a sensor that is enabled and whose startTime has *)
(* come; one that is not enabled is made inactive, and one whose startTime *)
(* is to come is left as it is.                                            *)

\* The fraction, in parts of the cycle.
Fraction(n, t) ==
  IF n.loop THEN (t - n.startTime) % n.cycleInterval
  ELSE IF t - n.startTime > n.cycleInterval THEN n.cycleInterval
  ELSE t - n.startTime

\* Mutant: the flag of the last run is kept.
MutFlagBefore(n, m) == n.ctflag

\* __ctflag as the fraction is compared with it.
FlagBefore(n, m) == IF ~n.isActive /\ m.isActive THEN Forced(n) ELSE n.ctflag

Awaited(n, t) == n.enabled /\ t >= n.startTime

Ticked(n, t) ==
  LET m == DoActiveInactive(n, t)
  IN  CASE ~n.enabled -> [n EXCEPT !.isActive = FALSE]
        [] n.enabled /\ t < n.startTime -> n
        [] Awaited(n, t) /\ ~m.isActive -> m
        [] Awaited(n, t) /\ m.isActive -> [m EXCEPT !.ctflag = Fraction(m, t)]

SendsCycleTime(n, t) ==
  LET m == DoActiveInactive(n, t)
  IN  Awaited(n, t) /\ m.isActive /\ Fraction(m, t) < FlagBefore(n, m)

-----------------------------------------------------------------------------
(* A frame: the time is set, startOfLoopNodeUpdates takes what was given up*)
(* off the list (killNode), and do_first ticks every entry.  A node is     *)
(* freed in one of the frames after that.                                  *)
ClockFrame(t, freed) ==
  /\ t <= MaxTime
  /\ freed \subseteq {c \in Clocks : life[c] = "dying"}
  /\ now' = t
  /\ LET dead == {c \in Clocks : life[c] = "given up"}
         list == DeleteFirst(ClockEvents, dead)
         all == {list[i] : i \in DOMAIN list} \ {NoClock}
     IN  /\ ClockEvents' = list
         /\ life' = [c \in Clocks |-> CASE c \in dead -> "dying"
                                        [] c \in freed -> "none"
                                        [] OTHER -> life[c]]
         /\ node' = [c \in Clocks |-> IF c \in all THEN Ticked(node[c], t)
                                      ELSE node[c]]
         /\ cycled' = {c \in all : SendsCycleTime(node[c], t)}
         /\ started' = {c \in all : ~node[c].isActive /\ node'[c].isActive}
         /\ ended' = (ended \ dead) \cup
                     {c \in all : node[c].enabled /\ node[c].isActive
                                  /\ ~node'[c].isActive}
         /\ touched' = touched \ all
  /\ UNCHANGED <<forgotten, calls>>

(* The parser makes a node, with the fields its file gives it.             *)
Make(c, n) ==
  /\ life[c] = "none" /\ calls < MaxCalls
  /\ life' = [life EXCEPT ![c] = "there"]
  /\ node' = [node EXCEPT ![c] = n]
  /\ ClockEvents' = AddFirst(c)
  /\ touched' = touched \cup {c}
  /\ ended' = ended \ {c} /\ forgotten' = forgotten \ {c}
  /\ calls' = calls + 1
  /\ UNCHANGED <<now, cycled, started>>

(* A route, a script or the EAI sets a field; of a moment of time it knows *)
(* the present one, and some before and after.                             *)
SetField(c, n) ==
  /\ life[c] = "there" /\ calls < MaxCalls
  /\ node' = [node EXCEPT ![c] = n]
  /\ touched' = touched \cup {c}
  /\ ended' = ended \ {c}
  /\ calls' = calls + 1
  /\ UNCHANGED <<now, life, ClockEvents, cycled, started, forgotten>>

Moments == {0, now - 1, now, now + 2}

Set(c) ==
  \/ SetField(c, [node[c] EXCEPT !.enabled = ~@])
  \/ SetField(c, [node[c] EXCEPT !.loop = ~@])
  \/ \E t \in Moments : SetField(c, [node[c] EXCEPT !.startTime = t])
  \/ \E t \in Moments : SetField(c, [node[c] EXCEPT !.stopTime = t])

\* A node is disposed of (markForDispose).
Dispose(c) ==
  /\ life[c] = "there" /\ calls < MaxCalls
  /\ life' = [life EXCEPT ![c] = "given up"]
  /\ calls' = calls + 1
  /\ UNCHANGED <<now, node, ClockEvents, cycled, clockHistory>>

(* kill_oldWorld: its nodes are given up, save those that a client holds,  *)
(* and kill_clockEvents empties the list.                                  *)
KillOldWorld(kept) ==
  /\ kept \subseteq {c \in Clocks : life[c] = "there"} /\ calls < MaxCalls
  /\ calls' = calls + 1
  /\ life' = [c \in Clocks |-> IF life[c] = "there" /\ c \notin kept
                               THEN "given up" ELSE life[c]]
  /\ ClockEvents' = <<>>
  /\ forgotten' = forgotten \cup {c \in Clocks : life[c] # "none"}
  /\ UNCHANGED <<now, node, cycled, started, touched, ended>>

ClockNext ==
  \/ \E t \in (now + 1)..(now + MaxStep), freed \in SUBSET Clocks :
       ClockFrame(t, freed)
  \/ \E c \in Clocks : Set(c) \/ Dispose(c)
  \/ \E c \in Clocks, l \in BOOLEAN, s \in {0, now + 1} :
       Make(c, [NewNode(c) EXCEPT !.loop = l, !.startTime = s])
  \/ \E kept \in SUBSET Clocks : KillOldWorld(kept)

ClockSpec == ClockInit /\ [][ClockNext]_clockVars

-----------------------------------------------------------------------------
(* What the fields say of a sensor at time t, when its startTime has come: *)
(* a run that is newer than stopTime goes on for a cycle, or for ever in a *)
(* loop; one that is older goes on until stopTime.                         *)
Due(n, t) ==
  IF n.startTime >= n.stopTime
  THEN n.loop \/ t < n.startTime + n.cycleInterval
  ELSE t < n.stopTime

(* Whatever was set in whatever order and however far apart the frames are,*)
(* after its tick a sensor is active exactly when the fields say so, and   *)
(* one that has come to its end does not begin again until it is set.  One *)
(* that was set too late runs for a single tick, and one whose startTime   *)
(* was never set waits for that.  (do_active_inactive; "VRML standards,    *)
(* table 4.2")                                                             *)
RunsAsSet ==
  [][now' # now =>
       \A c \in Clocks :
         LET n == node[c]
             active == node'[c].isActive
             wanted == n.loop \/ n.startTime > 0 \/ now' < n.stopTime
         IN  Places(c)' # {} /\ Awaited(n, now') =>
               /\ active => Due(n, now') \/ now' = n.stopTime \/ ~n.isActive
               /\ Due(n, now') /\ wanted => active
               /\ active => c \notin ended]_clockVars

\* The number of the cycle that a sensor is in at time t.
Cycle(n, t) == (t - n.startTime) \div n.cycleInterval

(* "cycleTime events once at start, and once every loop" (do_TimeSensorTick*)
(* of Component_Time.c): a sensor that nobody sets sends one in the tick   *)
(* that starts it and in the first tick of every further cycle, unless a   *)
(* whole cycle has passed between two ticks, which can go unnoticed.  One  *)
(* whose startTime was moved ahead of the present while it was active is   *)
(* silent until then, and is not held to this when it goes on.             *)
CycleTimeOnce ==
  [][now' # now =>
       \A c \in Clocks \ touched :
         LET n == node[c]
             newCycle == n.loop /\ Cycle(n, now') > Cycle(n, now)
         IN  Places(c)' # {} /\ Awaited(n, now') /\ node'[c].isActive =>
               \/ c \in started' /\ c \in cycled'
               \/ n.isActive /\ n.startTime > now
               \/ n.isActive /\ (c \in cycled' <=> newCycle)
               \/ n.isActive /\ n.loop /\ now' - now >= n.cycleInterval]_clockVars

(* A node ticks once in a frame from the time it was made until it is      *)
(* given up, wherever the list had holes when it came; no entry outlives   *)
(* its node.  What a client keeps of a replaced world does not tick.       *)
(* (add_first, delete_first, kill_clockEvents)                             *)
EachTicksOnce ==
  \A c \in Clocks :
    Cardinality(Places(c)) =
      IF life[c] \in {"there", "given up"} /\ c \notin forgotten THEN 1 ELSE 0
=============================================================================
