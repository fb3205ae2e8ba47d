----------------------------- MODULE BindStack ------------------------------
(***************************************************************************)
(* The viewpoint stack of src/lib/x3d_parser/Bindable.c, and who works on  *)
(* it: the main thread, which binds nodes in every frame, and the parser   *)
(* thread, which registers the nodes of a new world and then asks for the  *)
(* first of them to be bound.  The stacks of the other bindables are kept  *)
(* in the same way.                                                        *)
(*                                                                         *)
(* Neither thread takes a lock for it.  A call of bind_node is a sequence  *)
(* of steps, and those of the two threads interleave.  One step tests or   *)
(* writes isBound and set_bind of one node, or loads or stores the size of *)
(* the stack, or tests that there is a top and reads it.                   *)
(***************************************************************************)
EXTENDS Integers, Sequences, SequencesExt

CONSTANTS Nodes,        \* the viewpoints of all worlds
          NoNode,       \* the null pointer
          MaxEvents, MaxWishes, MaxParses, MaxKills   \* bounds

ASSUME BindAssumption ==
  /\ NoNode \notin Nodes
  /\ {MaxEvents, MaxWishes, MaxParses, MaxKills} \subseteq Nat

VARIABLES life,      \* life[n]: not parsed yet, in use, disposed of, freed
          setBind,   \* set_bind: 0, 1, or 100 if there is nothing to do
          isBound,
          stack,     \* viewpoint_stack
          viewpoints,  \* t->viewpointNodes
          toBind,    \* t->setViewpointBindInRender
          parser,    \* what the parser thread does
          hasRoot,   \* root_res is set
          root,      \* the parser works on the root resource: shouldBind
          next,      \* the index into viewpoints it is at
          phase,     \* where the main thread is in its frame
          doEvents,
          call,      \* call[t]: where thread t is in bind_node, its node and
                     \* oldTOS, and the array up to the size it has loaded
          clash,     \* history: calls of the two threads overlap
          torn,      \* history: the nodes that were bound while calls
                     \* overlapped; a call alone has not written them since
          covered,   \* history: no node of the stack was taken away or unbound
                     \* by force, and no calls overlapped, since a call alone
                     \* bound a node
          events, wishes, parses, kills    \* bound counters

nodeVars == <<life, setBind, isBound, stack, viewpoints>>
parserVars == <<parser, hasRoot, root, next>>
callVars == <<call, clash, torn, covered>>
bounds == <<events, wishes, parses, kills>>
vars == <<nodeVars, toBind, parserVars, phase, doEvents, callVars, bounds>>

Threads == {"main", "parser"}

NoCall == [at |-> "out", node |-> NoNode, old |-> NoNode, held |-> <<>>]

Init ==
  /\ life = [n \in Nodes |-> "new"]
  /\ setBind = [n \in Nodes |-> 100]
  /\ isBound = [n \in Nodes |-> FALSE]
  /\ stack = <<>>
  /\ viewpoints = <<>>
  /\ toBind = NoNode
  /\ parser = "idle" /\ hasRoot = FALSE /\ root = FALSE /\ next = 1
  /\ phase = "start"
  /\ doEvents = FALSE
  /\ call = [t \in Threads |-> NoCall]
  /\ clash = FALSE /\ torn = {}
  /\ covered = TRUE
  /\ events = 0 /\ wishes = 0 /\ parses = 0 /\ kills = 0

-----------------------------------------------------------------------------
(* bind_node, called by thread t. *)

InCall(t) == call[t].at # "out"

Other(t) == IF t = "main" THEN "parser" ELSE "main"

GoTo(t, step) == call' = [call EXCEPT ![t].at = step] /\ UNCHANGED clash

Return(t) ==
  /\ call' = [call EXCEPT ![t] = NoCall]
  /\ clash' = (clash /\ InCall(Other(t)))

CallOf(n) == [at |-> "test", node |-> n, old |-> NoNode, held |-> <<>>]

\* The call begins with the value v in the set_bind of n.
Begin(t, n, v) ==
  /\ setBind' = [setBind EXCEPT ![n] = v]
  /\ call' = [call EXCEPT ![t] = CallOf(n)]
  /\ clash' = InCall(Other(t))
  /\ torn' = IF clash' THEN {m \in Nodes : isBound[m]} ELSE torn
  /\ covered' = (covered /\ ~clash')
  /\ UNCHANGED <<life, viewpoints, isBound, stack>>

\* A node that has been freed may still look like a viewpoint, or not.
SendBindTo(t, n, v) ==
  \/ Begin(t, n, v)
  \/ life[n] = "freed" /\ UNCHANGED <<nodeVars, callVars>>

\* Mutant: taken events leave the set_bind below 100, but not free.
MutTaken(n) == [setBind EXCEPT ![n] = 99]

\* The node n has no event for set_bind any more.
Taken(n) == [setBind EXCEPT ![n] = 100]

Bind(n) ==
  /\ isBound' = [isBound EXCEPT ![n] = TRUE]
  /\ setBind' = Taken(n)
  /\ torn' = IF clash THEN torn \cup {n} ELSE torn \ {n}

Unbind(n) ==
  /\ isBound' = [isBound EXCEPT ![n] = FALSE]
  /\ setBind' = Taken(n)
  /\ torn' = torn \ {n}

IsTop(n) == stack # <<>> /\ Last(stack) = n

\* A bound node that is bound again returns at once.
Test(t) ==
  LET n == call[t].node IN
  /\ call[t].at = "test"
  /\ \/ isBound[n] /\ setBind[n] # 0 /\ setBind' = Taken(n) /\ Return(t)
     \/ ~isBound[n] /\ setBind[n] = 1 /\ GoTo(t, "push") /\ UNCHANGED setBind
     \/ ~isBound[n] /\ setBind[n] = 100 /\ Return(t) /\ UNCHANGED setBind
     \/ setBind[n] = 0 /\ GoTo(t, "pop") /\ UNCHANGED setBind
  /\ UNCHANGED <<isBound, stack, torn, covered>>

Push(t) ==
  /\ call[t].at = "push"
  /\ Bind(call[t].node)
  /\ covered' = ~clash
  /\ GoTo(t, "over")
  /\ UNCHANGED stack

\* Mutant: the node below stays bound.
MutOver(t) ==
  /\ call[t].at = "over"
  /\ IF IsTop(call[t].node) THEN Return(t) ELSE GoTo(t, "put")
  /\ UNCHANGED <<setBind, isBound, stack, torn, covered>>

\* What is the top, if any?  The same node is not pushed again.
Over(t) ==
  /\ call[t].at = "over"
  /\ \/ stack = <<>> /\ GoTo(t, "put")
     \/ IsTop(call[t].node) /\ Return(t)
     \/ /\ stack # <<>> /\ Last(stack) # call[t].node
        /\ call' = [call EXCEPT ![t].at = "cover", ![t].old = Last(stack)]
        /\ UNCHANGED clash
  /\ UNCHANGED <<setBind, isBound, stack, torn, covered>>

Cover(t) ==
  /\ call[t].at = "cover"
  /\ Unbind(call[t].old)
  /\ GoTo(t, "put")
  /\ UNCHANGED <<stack, covered>>

\* vector_pushBack and vector_popBack load the size, ...
Load(t) ==
  /\ call[t].at \in {"put", "take"}
  /\ call' = [call EXCEPT ![t].held = stack,
                         ![t].at = IF @ = "put" THEN "store" ELSE "drop"]
  /\ UNCHANGED <<clash, setBind, isBound, stack, torn, covered>>

\* The k-th place of the array, for who has a size that reaches it.
Placed(s, k, n) == IF k \in DOMAIN s THEN [s EXCEPT ![k] = n] ELSE s

\* ... the one writes the node behind the end it knows ...
Store(t) ==
  LET n == call[t].node
      k == Len(call[t].held) + 1
  IN  /\ call[t].at = "store"
      /\ stack' = Placed(stack, k, n)
      /\ call' = [u \in Threads |->
                   IF u = t
                   THEN [call[t] EXCEPT !.held = Append(@, n), !.at = "grow"]
                   ELSE [call[u] EXCEPT !.held = Placed(@, k, n)]]
      /\ UNCHANGED <<clash, setBind, isBound, torn, covered>>

\* ... and stores the size, whatever the other thread has done to it.
Grow(t) ==
  /\ call[t].at = "grow"
  /\ stack' = call[t].held
  /\ Return(t)
  /\ UNCHANGED <<setBind, isBound, torn, covered>>

\* The node loses isBound even if it is not the top; then it stays in the stack.
Pop(t) ==
  /\ call[t].at = "pop"
  /\ Unbind(call[t].node)
  /\ GoTo(t, "under")
  /\ UNCHANGED <<stack, covered>>

Under(t) ==
  /\ call[t].at = "under"
  /\ IF IsTop(call[t].node) THEN GoTo(t, "take") ELSE Return(t)
  /\ UNCHANGED <<setBind, isBound, stack, torn, covered>>

\* Two calls may have taken the same node; the size is then below zero, which
\* is empty here.
Drop(t) ==
  /\ call[t].at = "drop"
  /\ stack' = IF call[t].held = <<>> THEN <<>> ELSE Front(call[t].held)
  /\ GoTo(t, "below")
  /\ UNCHANGED <<setBind, isBound, torn, covered>>

\* Is there an older one to get back?
Below(t) ==
  /\ call[t].at = "below"
  /\ \/ stack = <<>> /\ Return(t)
     \/ /\ stack # <<>>
        /\ call' = [call EXCEPT ![t].at = "uncover", ![t].old = Last(stack)]
        /\ UNCHANGED clash
  /\ UNCHANGED <<setBind, isBound, stack, torn, covered>>

Uncover(t) ==
  /\ call[t].at = "uncover"
  /\ Bind(call[t].old)
  /\ Return(t)
  /\ UNCHANGED <<stack, covered>>

BindNode(t) ==
  /\ \/ Test(t)
     \/ Push(t) \/ Over(t) \/ Cover(t) \/ Load(t) \/ Store(t) \/ Grow(t)
     \/ Pop(t) \/ Under(t) \/ Drop(t) \/ Below(t) \/ Uncover(t)
  /\ UNCHANGED <<life, viewpoints, toBind, parserVars, phase, doEvents, bounds>>

-----------------------------------------------------------------------------
(* The main thread, when it is not in bind_node. *)

Registered == {viewpoints[i] : i \in DOMAIN viewpoints}

\* unbind_node, for each of N.
UnbindNodes(N) ==
  /\ isBound' = [n \in Nodes |-> isBound[n] /\ n \notin N]
  /\ torn' = torn \ N
  /\ covered' = FALSE

\* The beginning of a frame; textures may be loading.
StartFrame ==
  /\ phase = "start"
  /\ phase' = "update"
  /\ doEvents' \in {FALSE, parser = "idle"}
  /\ UNCHANGED <<nodeVars, toBind, parserVars, callVars, bounds>>

\* Mutant: the nodes are taken off the list of viewpoints only.
MutWithoutDead(s) == s

\* DELETE_IF_IN_STACK copies what is left, for all the nodes at once.
WithoutDead(s) ==
  LET newStack[i \in 0..Len(s)] ==
        IF i = 0 THEN <<>>
        ELSE IF life[s[i]] = "dying" THEN newStack[i - 1]
             ELSE Append(newStack[i - 1], s[i])
  IN  newStack[Len(s)]

\* startOfLoopNodeUpdates does nothing while the parser is at work.
SkipUpdates ==
  /\ phase = "update" /\ parser # "idle"
  /\ phase' = "bind"
  /\ UNCHANGED <<nodeVars, toBind, parserVars, doEvents, callVars, bounds>>

\* killNode for every node that is disposed of; some of them have waited long
\* enough and are freed.
KillNodes ==
  /\ phase = "update" /\ parser = "idle"
  /\ phase' = "nodes"
  /\ stack' = WithoutDead(stack)
  /\ viewpoints' = WithoutDead(viewpoints)
  /\ \E F \in SUBSET {n \in Nodes : life[n] = "dying"} :
       life' = [n \in Nodes |-> IF n \in F THEN "freed" ELSE life[n]]
  /\ covered' = (covered /\ stack' = stack)
  /\ UNCHANGED <<call, clash, torn>>
  /\ UNCHANGED <<setBind, isBound, toBind, parserVars, doEvents, bounds>>

Waiting == {n \in Nodes : life[n] = "live" /\ setBind[n] < 100}

\* A viewpoint with references has had an event for its set_bind.
UpdateViewpoint ==
  /\ phase = "nodes"
  /\ \E n \in Waiting : Begin("main", n, setBind[n])
  /\ UNCHANGED <<toBind, parserVars, phase, doEvents, bounds>>

UpdatesDone ==
  /\ phase = "nodes" /\ Waiting = {}
  /\ phase' = "bind"
  /\ UNCHANGED <<nodeVars, toBind, parserVars, doEvents, callVars, bounds>>

SendBindIfRequired ==
  /\ phase = "bind" /\ doEvents /\ toBind # NoNode
  /\ SendBindTo("main", toBind, 1)
  /\ phase' = "clear"
  /\ UNCHANGED <<toBind, parserVars, doEvents, bounds>>

\* The second half of SEND_BIND_IF_REQUIRED.
ClearBind ==
  /\ phase = "clear"
  /\ toBind' = NoNode
  /\ phase' = "events"
  /\ UNCHANGED <<nodeVars, parserVars, doEvents, callVars, bounds>>

NothingToBind ==
  /\ phase = "bind"
  /\ ~doEvents \/ toBind = NoNode
  /\ phase' = IF doEvents THEN "events" ELSE "start"
  /\ UNCHANGED <<nodeVars, toBind, parserVars, doEvents, callVars, bounds>>

\* A route, a script or the EAI sets the set_bind of a node.
SetBindEvent(n, v) ==
  /\ phase \in {"bind", "events"} /\ doEvents
  /\ events < MaxEvents
  /\ life[n] = "live"
  /\ setBind' = [setBind EXCEPT ![n] = v]
  /\ events' = events + 1
  /\ UNCHANGED <<life, isBound, stack, viewpoints, toBind, parserVars, phase,
                 doEvents, callVars, wishes, parses, kills>>

EndFrame ==
  /\ phase = "events"
  /\ phase' = "start"
  /\ UNCHANGED <<nodeVars, toBind, parserVars, doEvents, callVars, bounds>>

\* The user, or the name in a url, asks for a viewpoint: fwl_Next_ViewPoint,
\* fwl_gotoViewpoint and the like.
AskForViewpoint ==
  /\ wishes < MaxWishes
  /\ wishes' = wishes + 1
  /\ \E n \in Registered : toBind' = n
  /\ UNCHANGED <<nodeVars, parserVars, phase, doEvents, callVars, events, parses,
                 kills>>

\* goToViewpoint, for an anchor: first the viewpoint with number currboundvpno,
\* any of them, is unbound.
LeaveViewpoint ==
  /\ phase = "start"
  /\ wishes < MaxWishes
  /\ wishes' = wishes + 1
  /\ \E n \in Registered : SendBindTo("main", n, 0)
  /\ phase' = "anchor"
  /\ UNCHANGED <<toBind, parserVars, doEvents, events, parses, kills>>

\* A world that begins in between has no viewpoint to go to.
GoToViewpoint ==
  /\ phase = "anchor"
  /\ phase' = "start"
  /\ \/ \E n \in Registered : SendBindTo("main", n, 1)
     \/ Registered = {} /\ UNCHANGED <<nodeVars, callVars>>
  /\ UNCHANGED <<toBind, parserVars, doEvents, bounds>>

\* markForDispose of the nodes under the root.  Those with other references
\* stay in use.
DisposeOfWorld ==
  /\ kills < MaxKills
  /\ kills' = kills + 1
  /\ \E D \in SUBSET {n \in Nodes : life[n] = "live"} :
       life' = [n \in Nodes |-> IF n \in D THEN "dying" ELSE life[n]]
  /\ UNCHANGED <<setBind, stack, toBind, parser, root, next, phase, doEvents,
                 events, wishes, parses>>

\* send_resource_to_parser with a new root leaves the bindables to the parser.
SendNewRoot ==
  /\ phase = "start"
  /\ DisposeOfWorld
  /\ UNCHANGED <<hasRoot, isBound, viewpoints, callVars>>

\* Between two frames, or for the EAI among the events of one.  It disposes of
\* the nodes first; EAI_killBindables then waits for the parser.  The stack stays.
KillOldWorld ==
  /\ phase \in {"start", "events"}
  /\ parser = "idle"
  /\ DisposeOfWorld
  /\ UnbindNodes(Registered)
  /\ viewpoints' = <<>>
  /\ hasRoot' = FALSE
  /\ UNCHANGED <<call, clash>>

-----------------------------------------------------------------------------
(* The parser thread: parser_process_res_VRML_X3D. *)

\* The first resource after none becomes the root; it may be a string of the EAI,
\* which is not treated as one.  The nodes that were there before the bindables
\* are killed are counted.
StartParse ==
  /\ parser = "idle"
  /\ parses < MaxParses
  /\ parses' = parses + 1
  /\ hasRoot' = TRUE
  /\ root' \in {FALSE, ~hasRoot}
  /\ parser' = IF root' THEN "kill" ELSE "parse"
  /\ next' = IF root' THEN 1 ELSE Len(viewpoints) + 1
  /\ UNCHANGED <<nodeVars, toBind, phase, doEvents, callVars, events, wishes,
                 kills>>

\* kill_bindables unbinds the nodes, one after the other, ...
KillNext ==
  /\ parser = "kill"
  /\ next <= Len(viewpoints)
  /\ UnbindNodes({viewpoints[next]})
  /\ next' = next + 1
  /\ UNCHANGED <<life, setBind, stack, viewpoints, toBind, parser, hasRoot, root,
                 phase, doEvents, call, clash, bounds>>

\* ... and forgets them; the stack stays.
KillBindables ==
  /\ parser = "kill"
  /\ next > Len(viewpoints)
  /\ viewpoints' = <<>>
  /\ parser' = "parse"
  /\ UNCHANGED <<life, setBind, isBound, stack, toBind, hasRoot, root, next, phase,
                 doEvents, callVars, bounds>>

RegisterBindable(n) ==
  /\ parser = "parse"
  /\ life[n] = "new"
  /\ life' = [life EXCEPT ![n] = "live"]
  /\ setBind' = [setBind EXCEPT ![n] = 100]
  /\ isBound' = [isBound EXCEPT ![n] = FALSE]
  /\ viewpoints' = Append(viewpoints, n)
  /\ UNCHANGED <<stack, toBind, parserVars, phase, doEvents, callVars, bounds>>

Parsed ==
  /\ parser = "parse"
  /\ parser' = IF root /\ viewpoints # <<>> THEN "unbind" ELSE "idle"
  /\ UNCHANGED <<nodeVars, toBind, hasRoot, root, next, phase, doEvents,
                 callVars, bounds>>

UnbindNext ==
  /\ parser = "unbind"
  /\ next <= Len(viewpoints)
  /\ SendBindTo("parser", viewpoints[next], 0)
  /\ next' = next + 1
  /\ UNCHANGED <<toBind, parser, hasRoot, root, phase, doEvents, bounds>>

BindFirst ==
  /\ parser = "unbind"
  /\ next > Len(viewpoints)
  /\ toBind' = viewpoints[1]
  /\ parser' = "idle"
  /\ UNCHANGED <<nodeVars, hasRoot, root, next, phase, doEvents, callVars,
                 bounds>>

-----------------------------------------------------------------------------

Main ==
  \/ StartFrame \/ SkipUpdates \/ KillNodes \/ UpdateViewpoint \/ UpdatesDone
  \/ SendBindIfRequired \/ ClearBind \/ NothingToBind \/ EndFrame
  \/ LeaveViewpoint \/ GoToViewpoint \/ SendNewRoot \/ KillOldWorld
  \/ \E n \in Nodes, v \in {0, 1} : SetBindEvent(n, v)

Parser ==
  \/ StartParse \/ KillNext \/ KillBindables
  \/ \E n \in Nodes : RegisterBindable(n)
  \/ Parsed \/ UnbindNext \/ BindFirst

Next ==
  \/ ~InCall("main") /\ Main
  \/ ~InCall("parser") /\ Parser
  \/ AskForViewpoint
  \/ \E t \in Threads : BindNode(t)

Spec == Init /\ [][Next]_vars

-----------------------------------------------------------------------------
(* Properties. *)

Labels == {"out", "test", "push", "over", "cover", "put", "store", "grow",
           "pop", "under", "take", "drop", "below", "uncover"}

Calls == [at : Labels, node : Nodes \cup {NoNode}, old : Nodes \cup {NoNode},
          held : Seq(Nodes)]

\* A set_bind is 0, 1 or the 100 of bind_node, and the lists hold viewpoints.
TypeOK ==
  /\ life \in [Nodes -> {"new", "live", "dying", "freed"}]
  /\ setBind \in [Nodes -> {0, 1, 100}]
  /\ isBound \in [Nodes -> BOOLEAN]
  /\ stack \in Seq(Nodes)
  /\ viewpoints \in Seq(Nodes)
  /\ toBind \in Nodes \cup {NoNode}
  /\ parser \in {"idle", "kill", "parse", "unbind"}
  /\ hasRoot \in BOOLEAN /\ root \in BOOLEAN
  /\ next \in Nat
  /\ phase \in {"start", "update", "nodes", "bind", "clear", "events",
               "anchor"}
  /\ doEvents \in BOOLEAN
  /\ call \in [Threads -> Calls]
  /\ clash \in BOOLEAN /\ torn \subseteq Nodes /\ covered \in BOOLEAN

\* bind_node returns early for a bound node: "It has to be at the top of the
\* stack so return".  So it has, as long as the node is in use, unless calls of
\* the two threads overlapped while it was bound.
BoundIsTop ==
  \A n \in Nodes : life[n] = "live" /\ isBound[n] /\ n \notin torn => IsTop(n)

\* A world with a stack looks through its top: the top is bound, unless a node
\* of the stack was disposed of, a world replaced, or calls overlapped, after
\* the last bind.
TopIsBound == covered /\ stack # <<>> => isBound[Last(stack)]

\* Whenever neither thread is in bind_node, isBound and the stack agree in both
\* directions, although kill_bindables drops the one and not the other, and
\* whatever the other thread does between the calls or with its own call in
\* the middle of one: what an overlap has left wrong is gone for a node when a
\* call alone binds or unbinds it, and for the top with the next push.
BindMatchesStack ==
  (\A t \in Threads : ~InCall(t)) => BoundIsTop /\ TopIsBound

\* The lists hold no freed node: the user, the parser and the main thread follow
\* them without looking.
RegisteredAlive == \A n \in Registered : life[n] # "freed"

=============================================================================
