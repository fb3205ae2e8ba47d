# FreeWRL: TLA+ models, checks and proofs

FreeWRL (`src/`) is a VRML/X3D browser in C. It keeps a scene graph, renders it
frame by frame in a display thread, parses worlds in a second thread, loads
textures in a third, and is driven by routes between the fields of nodes, by
the mouse, by scripts and by external programs. These models are about what is
hard to test in that: three threads that share lists and status fields, event
cascades over a table whose order is a matter of memory addresses, nodes that
are freed ten frames after they were dropped, and requests that wait while the
world they belong to is replaced.

Paths below are relative to `src/src/lib/` unless they begin with `libeai/`
(`src/src/libeai/`).

## 1. Inventory

| Part | State | Operations | What makes it correct |
|---|---|---|---|
| Parser hand-off (`main/ProdCon.c`) | `_P_LOCK_VAR`, `resource_list_to_parse`, one mutex, one condition | `send_resource_to_parser`, its async form, `EAI_killBindables`, `_inputParseThread` | one request at a time; a synchronous call returns, and only after its own request; the result is final |
| Resources (`resources.c`) | `type`, `status`, `media_type`, `complete`, url list | create, identify, fetch, load, identify type | every resource leaves the list, in a state its caller understands |
| Texture loader (`opengl/LoadTextures.c`, `Textures.c`) | texture table entries, request list, `loader_waiting` | `new_bind_image`, `loadTextureNode`, `releaseTexture`, `_textureThread` | no request lost, no image shared by two threads, the image on screen is the one of the url |
| Routing table (`vrml_parser/CRoutes.c`) | sorted array, `routesToRegister`, `preEvents` | `CRoutes_RegisterSimple`, `CRoutes_RemoveSimple`, `mark_event`, `do_first`, `kill_routing` | sorted, inside its memory, complete; events before there is a table are kept |
| Event cascades (`CRoutes.c`) | active flags, time stamps, script eventOuts | `mark_event`, `propagate_events`, `gatherScriptEventOuts` | a cascade ends and reaches every receiver, in any order of the table |
| Bindables (`x3d_parser/Bindable.c`) | four stacks, `isBound`, `set_bind`, lists of registered nodes | `bind_node`, `send_bind_to`, `kill_bindables`, `registerBindable` | the bound node is the top of its stack; no list names a freed node |
| Node memory (`opengl/OpenGL_Utils.c`) | memory table, reference counts | `markForDispose`, `killNode`, `kill_oldWorld` | freed once, late enough, and out of every list |
| Scene children (`CRoutes.c`, `scenegraph/RenderFuncs.c`, `Component_Grouping.c`) | `children`, `addChildren`, `removeChildren`, `_parentVector`, `_sortedChildren`, `_change` | `AddRemoveChildren`, `update_node`, `sortChildren`, `compile_Group` | children and parents agree; a group shows its present children |
| Inline, LoadSensor (`scenegraph/Component_Networking.c`) | `__loadstatus`, `__loadResource` | `load_Inline`, `render_LoadSensor` | each ends loaded or failed |
| Pointing device sensors (`main/MainLoop.c`, `input/SensInterps.c`) | `SensorEvents`, `VF_Sensitive`, `lastOver`, `lastPressedOver`, `hypersensitive`, ...; `isOver`, `isActive` | mouse events, the sensitive pass, `sendSensorEvents`, `do_TouchSensor` and its kin | no sensor stays on; the five memories of the pass agree with the pointer in the end |
| Clock events (`CRoutes.c`, `scenegraph/Component_Time.c`, `input/SensInterps.c`) | list with holes; `isActive`, `startTime`, `stopTime`, `__ctflag` of a sensor | `add_first`, `delete_first`, `do_first`, `do_TimeSensorTick`, `do_active_inactive` | every living sensor ticks once in a frame, is active when its times say so, and sends `cycleTime` once in a cycle |
| EAI server (`input/EAI*.c`) and client (`libeai/`) | socket, two buffers, `eailock`, `receivedData`, `readbuffer`, `_X3D_queryno`, listener tables | one command at a time, replies, asynchronous events | each query gets its own reply, each event its listener |
| Scripts (`world_script/`) | script table, `_initialized`, `scriptOK` | register, initialise, events in and out | no eventOut lost |
| Main loop (`main/MainLoop.c`) | `doEvents`, frame order | one frame | events only when nothing is parsed |
| Parsers, protos (`vrml_parser/`, `x3d_parser/`) | lexer, DEF names | parse | sequential |
| Rendering, geometry, collision, viewer, sound, UI, plug-in | OpenGL state, floating point, sockets | – | not a matter of order |

How they interact. The **main thread** starts the others and sends the first
resource; the **display thread** runs the frames: `startOfLoopNodeUpdates`
(frees nodes, moves children, loads Inlines, binds viewpoints), `do_first`
(clock events, `propagate_events`, then the waiting routes and saved events),
the mouse, rendering (which asks for textures), the sensitive pass,
`SEND_BIND_IF_REQUIRED`, `propagate_events` again, the EAI. The **parser
thread** takes one resource at a time, creates nodes, registers routes and
bindables. The **texture thread** takes a list of textures at a time. An
**application** linked with `libeai` has threads of its own and a read thread.
Nodes, routes and texture entries are shared with few locks: the flag of the
parser, looked at once in a frame, keeps most things apart.

Hard behaviours: lost wake-ups (hand-off, loader, EAI client), status fields
without locks (textures, resources), state older than its object (saved
viewpoints, texture results, saved events, waiting routes, parents that were
freed), partial failure of one url or script, arbitrary order of the table,
loops of routes, counters at array limits. All of them, with their lines, are
the hazards of `PROJECT.json`.

## 2. Modules

```
ResourceLadder <-- ParserHandoff  --implements--> ParserService
       ^                 ^-- MCParserHandoff, ParserHandoffProofs
       +---------- SceneGraph       (MCSceneGraph, SceneGraphProofs)
EAIChannel     --implements--> EAIService     (MCEAIChannel, EAIChannelProofs)
TextureLoader  --implements--> TextureQueue   (MCTextureLoader, TextureLoaderProofs)
EventCascade   (MCEventCascade, EventCascadeProofs)
RouteTable     (MCRouteTable, RouteTableProofs)
BindStack      (MCBindStack, BindStackProofs)
PointerSensors, TimeSensors    (MCPointerSensors, SensorsProofs)
```

**ResourceLadder** – the operators on one resource record. A download or a file
may or may not be there, so `Identify`, `Fetch`, `Load` return the *set* of
records the C function can leave; `ProcessRes` is one call of
`parser_process_res`.

**ParserHandoff** – clients and parser thread, step by step between the points
where another thread can be seen: `Lock`, `TestFlag` (the loop of
`WAIT_WHILE_...`, which may begin to wait), `Reacquire`, `Send`,
`SignalAndUnlock`, and for the parser `ParserProcess` (one resource),
`ParserNextPass`, `ParserFinishing`. `waiting` is the set of threads in
`pthread_cond_wait`; a signal takes any one of them out. The kinds of call are
the callers in the sources (listed at `Kinds`); what they do before and after
the send (fetch, `resource_wait`, dropping the children of the root) is part of
them. What a parse builds is whose nodes are under the root (`rootChildren`)
and in the bindable lists (`bindables`). **ParserService** is the promise: ask,
accept one, serve it, return.

**TextureLoader** – the display thread (`LoadTextureNode`, `BindImage`,
`SendTextureToLoader`, `MoveTextureToOpenGL`, and the events that change a url
or free a node) and the texture thread (`LoaderWait`, `TakeRequests`,
`ProcessList`, one action per url tried, `ImageReady`). Critical sections are
one step; each unlocked access to `status` or `texdata` is a step of its own.
Files are missing, not images, or images. **TextureQueue** is the promise:
first come, first served.

**EventCascade** – one pass of `propagate_events` looks at one route per step.
The order of the table follows node addresses and is chosen in `Init`. A field
holds the number of the event its value stems from, so that delivery can be
stated; only equality with `thisIntTimeStamp` matters, so time stamps are the
set `stamped`. `ScriptAssumption` says what `CRoutes_Register` makes true of a
route: one that leaves a script carries that direction, and nobody but its
script sets an eventOut.

**RouteTable** – the array with its sentinels, the requests, the saved events,
and the steps of `do_first`. A node is its address; two scripts are joined by a
helper node whose address may be below, between or above them. The linear
search of `mark_event` is the relation `SearchStops` ("the loop can end at
this entry"), and `RunFrom` is what it then marks.

**BindStack** – the viewpoint stack and `bind_node`, step by step: `call[t]` is
where thread `t` is in it, and the steps of the main thread and the parser
interleave. A push is `Test`, `Push`, `Over`, `Cover` and then `Load`, `Store`,
`Grow` of `vector_pushBack`; a pop is `Test`, `Pop`, `Under`, then `Load` and
`Drop` of `vector_popBack`, `Below`, `Uncover`. Around it stand the frame of the
display thread as far as it binds (`KillNodes`, `UpdateViewpoint`,
`SendBindIfRequired`, `ClearBind`), the parser (`StartParse`, `KillNext` and
`KillBindables` of `kill_bindables`, `RegisterBindable`, `UnbindNext`,
`BindFirst`), the user and anchors, and the disposal of a world. Three variables
are history: `clash` (the calls of the two threads overlap), `torn` (nodes bound
while they did, and not written by a call alone since), `covered` (no node was
taken away or unbound by force, and no calls overlapped, since a call alone
bound a node). `currboundvpno` is abstracted to any registered node.

**SceneGraph** – nodes with their counts, fields, parents and the copy a group
draws. A frame is four phases: clients and events (`SendNode` is
`getMFNodetype`, `CreateVrml` is `EAI_RW` with its `retGroup`), `NodeUpdates`
(the whole of `startOfLoopNodeUpdates`: `killNode` for what was counted down,
then `addChildren`, `removeChildren` and `update_node` for what is left),
`LoadInline` (one url of one Inline), `Draw` (the compilation of every changed
group in view). `KillOldWorld`, `AnchorLoads` and `ReplaceWorld` are what
replaces a world. Order among children is not modelled: a list is a bag.
Everything but the parse of the first world is in the display thread.

**PointerSensors** – one frame in four stages: `StartOfLoop` (the flags
`VF_Sensitive`, from the parents of enabled sensors), the input (mouse events
that change pointer, buttons and `NavigationMode`), `Pick` or `NoPass`, then
`Button` and `Cursor`. The pass picks the innermost sensitive group under the
pointer; while a sensor is pressed the ray test is left out, as in the code.
`dragged`, `deafOver` and `deafActive` are history: a pass has seen the button
stay down; a sensor was disabled when its end came.

**TimeSensors** – `ClockFrame` takes what was given up off the list (`DeleteFirst`
leaves a hole) and ticks every entry: `Ticked` is `do_TimeSensorTick`, with
`DoActiveInactive` and its three decisions `Stops`, `Halted` and `Starts`.
Between frames of any length nodes are made (`AddFirst`), set, given up, or
replaced with their world. Time is counted in whole units and the fraction in
parts of the cycle, which keeps every comparison of the code. `started` and
`ended` are history.

**EAIChannel** – the threads of a client step by step (number taken, listener
entered, `eailock`, command written, `receivedData` cleared, wait, use of
`readbuffer`), its read thread (one read takes any number of segments), and the
server's three stages of a frame (`Propagate` with events to listeners,
`Refresh` of the sockets, `HandleCommand`). Clients come one after the other;
the server may be stopped, may quit, or go on with another world.
**EAIService** is the promise: commands are taken in the order of their
numbers, and each that wants a reply gets one, under its own number; a client
that is dismissed gets nothing more (`Dismiss`).

`EventCascade` and `RouteTable` divide `CRoutes.c`: the table of the one is
fixed, the cascades of the other mark nothing. `do_first` runs a cascade before
it enters routes, so no cascade sees a table that changes. `SceneGraph` takes
the loading of a file from the same `ResourceLadder` as the hand-off, and of
the hand-off only what `ParserHandoff` shows: a synchronous send is one step of
its caller. `BindStack` frees viewpoints by the count that `SceneGraph` models
in full.

## 3. Runs

| Run | What it asks | Bounds and why they are enough |
|---|---|---|
| `handoff` | nothing passes a request that is not its own, a replaced world is shown, and alone if nobody else sent one, the result is final, the service is implemented; a client that is alone gets its answer and the list drains | two clients and three calls, spurious wake-ups; a third thread would only repeat the second's role. While both clients send, the display thread makes calls of three kinds, or replaces worlds; alone, of all kinds, so that the second call meets every state the first left. Its two calls are alike, so they come in one order. No url or one |
| `handoff_lost_wakeup` | (violated) every call returns with two clients | two callers suffice for the wrong one to be woken |
| `texture` | one owner of an image, no request lost, what is in sight is shown or given up, the fair queue is implemented | an image texture beside a pixel or a movie texture; no url, an image, or a missing file before one that is no image; one change; spurious wake-ups. Two entries make the list and its copy differ; one change makes two generations of requests meet |
| `texture_stale` | (violated) the image shown is one of the url field | one texture, one change |
| `cascade` | cascades end, arrive, gather scripts | seven routes with a loop through an interpolator, an exposedField, two scripts (one not ready), for *every* order of the table; two events, so that one meets the marks of the other |
| `cascade_marked` | (violated) an event from outside marks its routes | two copies in a chain |
| `route` | the memory and the search of the table, no route and no event lost | five routes, three calls, one mark, one replaced world; arrays of 5 growing by 4 in place of 25 and 50, so that they grow |
| `route_fan_remove` | (violated) the table holds exactly what was asked for, once | four routes, three calls |
| `bind` | the bound viewpoint is the top; lists name no freed node | three viewpoints (symmetric), two parses, one event, one wish, one disposal: the old and the new world overlap, and so do calls of `bind_node` in the two threads, at every step of each |
| `eai` | replies and events reach whom they are for, the service is implemented, a call that never returns was lost in a known way | two threads and the read thread, three commands, two clients one after the other, one event of the scene, a buffer of two commands: a reply, an event and a half-read reply can meet in one read |
| `sensors` | no sensor left on, `isOver` does not flicker, the pass settles; TimeSensors tick once, run as set and count their cycles | a ball in two nested groups, a floor in one, a TouchSensor and a SphereSensor in one group, in two, or with USE in both; two changes of the scene, so that one sensor can be disabled and enabled during a press. Two TimeSensors with cycles of 2 and 3, four calls, four units of time in frames of 1 or 2: a hole is filled, a cycle ends on a tick, between ticks, and unnoticed. The two parts share no state, so a behaviour moves only one of them |
| `scene` | every place has its parent, groups show their children, nothing freed is drawn, Inlines settle | a Group with an Inline whose file has one node, a world behind an Anchor, a text with a Group; two calls of clients, one replacement with at most one kept node, two urls, a count-down of 2 in place of 10: longer than the frame in which a node is dropped, and nothing else depends on its length |

`CHECK_DEADLOCK FALSE` stands where the bounded system really stops: all calls
made, or no url left to change and no node in sight.

Every property of a passing run has a mutant in `PROJECT.json`: a plausible
slip in the modelled code (a dropped reset, `if` for `while`, an off-by-one)
under which TLC finds the property violated. The mutated operators stand in
the modules before the ones they replace, named `Mut...`; nothing uses them.

### Fairness

* `ParserHandoff`: weak fairness of each thread that is inside a call, and only
  finitely many spurious wake-ups. With finitely many calls the mutex cannot be
  fought over for ever. Starting a call is not promised.
* `TextureLoader`: weak fairness of the texture thread (not of its spurious
  wake-up) and of a bind in progress; strong fairness of each
  `LoadTextureNode`, because every frame renders every texture in sight while
  other events of the display thread disable the action again and again.
* `EventCascade`: weak fairness of `propagate_events`, which the main loop
  calls twice a frame. `RouteTable`, `PointerSensors`: weak fairness of the
  frame.
* `EAIChannel`: weak fairness of each thread inside a command, of the read
  thread and of the server's frame. No client has to call, connect or exit.
* `TimeSensors` states safety only.
* `SceneGraph`: weak fairness of the display thread (its frame and the
  replacement it is in) and of the end of the first parse.
* `BindStack` states safety only.

### What the properties leave out

Where the code does not do what one would like, the property names the case and
claims the rest; each exception is a state the model reaches.

* `AnsweredOrLost` – a caller of `libeai` may wait for ever if its reply came
  before it cleared `receivedData` (`Overtaken`), was read behind something
  else in one read (`unseen`), waits behind a handler that waits for the same
  lock (`HandlerBlocked`), or if the client was told to quit or is not served.
* `EventFindsListener` – a listener is entered under the number its command is
  *expected* to get; another thread's command in between takes the number.
* `OverStays` – the comment at `main/MainLoop.c:686` wants `isOver` not to
  flicker when the button is released. It does flicker when the button is
  released in the pass after it was pressed, before a drag began.
* `RunsAsSet` – a sensor whose whole run lies before its tick becomes active
  for one tick. Its end becomes its `stopTime`, so setting `loop` afterwards
  does not start it again; the property follows the fields there.
* `CycleTimeOnce` – a new cycle is seen by a smaller fraction, so one that
  passes between two ticks can go unnoticed; a sensor whose `startTime` is
  moved ahead while it is active keeps silent, with `isActive` TRUE.
* `EachTicksOnce` – what a client keeps of a replaced world is off the list.
* `NoSensorLeftOn` – a sensor that is disabled when its end comes keeps
  `isActive` or `isOver`.
* `ShowsItsChildren`, `NeverDrawsFreed` – `kill_oldWorld` empties the root
  without `_change ++`; if the next world does not load the root goes on
  drawing its copy, of nodes that are freed (`Hollow`). What a client kept of a
  replaced world may be freed under it (`reused`).
* `InlineSettles` – an Inline whose file is fetched but is no world stays at
  INLINE_PARSING.
* `TextureSettles` – the url loop ends at a file that is no image, and the
  texture is given up. `ImageOwnedByOne` leaves out pixel textures, which get
  TEX_NEEDSBINDING before they are filled.
* `CascadeSettles` – a pass without interpolators is the last, so a copy that
  marks a route earlier in the table leaves it to the next call.
  `ScriptsGathered` – `gatherScriptEventOuts` returns at the first script that
  is not ready. `EventArrives` speaks of a single event.
* `EventDelivered` – the start-up event of a node whose routes
  still wait is saved only while there is no table at all (`CRoutes.c:1417`).
* `ListDrains` – a multi request without urls keeps the parser looping.
* `NewWorldShown` – `Anchor_ReplaceWorld` drops the children of the root before
  it takes the lock, and nothing keeps the world of another client out: if one
  is on its way to the parser while the world is replaced, its nodes may end up
  beside the new world, which the property then only promises to be there. (The
  history `met` of `MCParserHandoff` says whether there was one.)
* `BindMatchesStack` – speaks of living nodes: a viewpoint asked for while it
  waits to be freed is pushed after it was freed. And it leaves out what calls of
  the two threads that overlapped have left wrong (`torn`, `covered`), because
  `bind_node` takes no lock. Two such runs: the main thread pushes `n`
  (`isBound` 1), the parser's `send_bind_to(n, 0)` sets it to 0 and returns,
  since `n` is not the top yet, and the main thread goes on and makes `n` a top
  that is not bound. Or `send_bind_to(n, 0)` has set it to 0 and still has to look
  for the top when the main thread pushes `n`: the parser then takes `n` off the
  stack, and `n` stays bound outside it, where every later bind of it returns at once ("It has to
  be at the top of the stack so return", `Bindable.c:328`). A call that
  overlaps with no other puts its node right again.

### What the violated runs show

* **`handoff_lost_wakeup`** – one condition variable for two conditions and
  `pthread_cond_signal`: the wake-up can reach the thread that cannot use it,
  and everybody waits.
* **`texture_stale`** – `releaseTexture` resets the status while the loader
  still works on the old url; its result is taken for the new one.
* **`cascade_marked`** – `mark_event` drops an event from the mouse or the EAI
  if the same field was marked in the cascade before it: the time stamp changes
  only at the start of `propagate_events`.
* **`route_fan_remove`** – only the first entry of a field is compared, so
  with two receivers duplicates get in and a removal may do nothing.

The models contain more that a reader of the code should know, and that no run
reports because no document promises otherwise: `resource_wait` never returns
for a failed fetch (`ProcessRes`, `ResourceWait`); the psp structure of
`EAI_killBindables` is never read; a route between two scripts cannot be
removed; waiting routes and saved events survive `kill_routing`; a viewpoint
the parser asks for between the two halves of `SEND_BIND_IF_REQUIRED` is lost;
`kill_oldWorld` clears `root_res` without a lock, while the parser looks through
it (`main/ProdCon.c:603`);
after a client has gone the EAI server leaves its listening socket open and
accepts nobody; the nodes of a `retGroup` keep it in `_parentVector` after it
was freed, `update_node` walks that entry, and together with a cycle of groups
it would not come back; an Inline gives up when `resource_identify` fails for
one url although others are left; `addChildren` of the root is never looked at.

## 4. Proofs

Checked by TLAPS for every value of the constants that satisfies the named
assumptions (`ClientsAssumption`, `UrlsAssumption`, `TableAssumption`,
`SensorsAssumption`, `ClocksAssumption`, `EAIAssumption`, `ScriptAssumption`,
`SceneAssumption` and the like, which TLC evaluates in the runs). Each module proves one inductive invariant `IInv`
and takes its theorems from it.

**ParserHandoffProofs** – `TypeCorrect`, `FlagCorrect`, `OneAtATime`,
`SyncCorrect`, `ResultFinal`, `Refinement` (`Spec => Service!Spec`),
`WorldReplaced`, for any number of clients, calls and urls and with spurious
wake-ups. (What `Identify`, `Fetch`, `Load` and `ProcessRes` do to a record is
proved at the head of this module and again in SceneGraphProofs.) `IInv` adds to `TypeOK` and
`OneRequestAtATime`: who is in a critical section holds the mutex (`MutexInv`);
a client about to send, or past its second wait, sees the flag clear, and a
parser that drains sees it set (`FlagInv`); a client works on a call of its own
(`JobInv`); an answered call is off the list (`AnsweredInv`).
`OneRequestAtATime` alone is not inductive: a send needs to know that the flag
it tested is still clear, which is the mutex, and `SyncMeansProcessed` needs
that a clear flag means an empty list. Safety does not need the condition
variable at all, which is why the lost wake-up spoils liveness only. The
refinement has one lemma per step the service can see (`CallAsks`,
`SendAccepts`, `FinishingServes`, `LeavingReturns`) and one for all the others
(`InvisibleStep`).
`WorldReplaced` is `ReplacedWorldAlone` under a hypothesis, `[]ReplacesAlone`:
while a client replaces the world no other client has a resource for the root on
its way. Without it the property is false, and the attempt to prove it showed
how: another client's push, parsed behind the new world, leaves its nodes
beside it. The run checks `NewWorldShown`, which asks the same of each call that
met no such resource, whatever went before it. `OwnerInv` and `RootInv` say whose
request can be served, and what can be below the root, from the call to its
return.

**TextureLoaderProofs** – `TypeCorrect`, `NeverOversleeps`, `OneOwner`,
`NoRequestLost` and `ImplementsQueue` (`Spec => Loading!Spec`, the safety part
of the refinement). With no lock on an entry, that it has one owner rests on
`OwnerInv`: while the loader works on an entry its status says so, pixel
textures apart. `NoRequestLost` needs `AgainInv`: a pixel texture that is asked
for while its old image is filled in is in the queue a second time.

**EventCascadeProofs** – `TypeCorrect`, `GatherIsComplete`,
`PendingDelivered`, `EventReaches`, for every table in every order and any
loops. `LeftBehind` (a route the pass has gone by is active only with this time
stamp) gives the delivery. `EventReaches` is about a cascade of one event; its
invariant `OneEvent` follows the value from field to field: what holds the
event has its routes active, done, or ahead of the pass. That the last of
several places exists is `MaxExists`, from `WFMin` of the library.

**RouteTableProofs** – `TypeCorrect`, `AlwaysSorted`, `AlwaysFits`,
`AlwaysFindsAll`, `NoneMissing`, `NoEventLost`, for any routes, addresses and
helpers, any array size above 2 and any growth above 3. `TableInv` is `TypeOK`,
`TableSorted` and `TableFits`: that an insertion finds a place at all, and
before the last sentinel, needs the order. `MarkFindsAll` follows from the
order alone. `KeptInv` says of each wanted route that it is in the table with
no removal waiting, or that its request waits with no removal after it; the
removal of one of two routes from the same field is the case it is made for.
`EventInv` says of each due route that it is active, or its event is saved.

**BindStackProofs** – `TypeCorrect`, `BindMatches`, `ListsAlive`, for any
viewpoints and worlds, with the steps of `bind_node` interleaved.
`BindMatchesStack` speaks of moments when neither thread is in a call, so the
invariant says what is known in the middle of one: `AloneInv` for a call that
has met no other, by the step it is at, and `ClashInv` for calls that overlap
(every bound node is then `torn`). That a call is alone at its end follows from
`clash` alone, because `Begin` sets it whenever the other thread is inside. It
also needs that what is in a list or a call has been parsed (`ParsedInv`) and
that the parser goes through a list that is not empty (`ParserInv`). The copy
that leaves out dying nodes is a recursive function; `CopyUpTo` shows by a least
counterexample that it exists, and `WithoutDeadLeft` what is in it.

**EAIChannelProofs** – `TypeCorrect`, `OwnReply`, `ListenersFound` and
`Refinement` (`Spec => Service!Spec`), for any threads, commands, clients and
buffer. `OwnReply` rests on two facts: only the holder of `eailock` waits for a
reply, and its number is the number of commands sent (`NumberInv`); so every
command in the pipe that wants a reply, and every reply, is one that it waits
for, and there is at most one (`PipeInv`, `CommandsAwaited`, `RepliesAwaited`).
`ListenersFound` needs what each thread does between the number it expects and
the one it gets (`EnteringInv`). The refinement needs that only the first client
is served and that a client which was told to quit has been dismissed. The first
attempt failed, for a good reason: EAIService let no command be taken after a
client was dismissed, while the server still takes what is in the socket.

**SensorsProofs** – for PointerSensors `TypeCorrect`, `NeverBoth`, `NoneLeftOn`,
`OverAlwaysStays`, for any scene and any changes. `NoSensorLeftOn` is inductive
only with `NavigatesOrDrags`: the button went down on one group and no other
can be pressed. `OverAlwaysStays` needs `DragInv`: once a drag has begun, the
delay of `isOver` (`lastOverButtonPressed`) is on. For TimeSensors, with any
cycles and lengths of frames, `ClockTypeCorrect`, `OnePlaceEach`,
`AlwaysRunsAsSet` and `CycleTimeAlwaysOnce`. The list has no living node twice,
whatever holes `DeleteFirst` leaves (`ListInv`); that `isActive` follows the
times needs that what stopped by itself has a `stopTime` in the past
(`EndedInv`); and that `cycleTime` is sent once needs that `__ctflag` of an
active sensor is the fraction of the last frame (`FlagInv`). `Wraps` is the
arithmetic of that: when less than a cycle has passed, the fraction falls
exactly when the number of the cycle grows.

**SceneGraphProofs** – `Typed`, `EntriesForPlaces`, `GroupsShowChildren` and
`FreedNeverDrawn`, for any files, texts and calls. `IInv` is `TypeOK`, `ParentsKnown`,
`ShowsItsChildren` and `Counting` (a node in memory is above `-Settle`, so a
count-down stops where it frees). `EntriesCover` is the arithmetic of one
addition, removal or set; `AddRemoveKnown` and `ParseKnown` carry it to the
fields of a node, `AddRemoveMarks` and `ParseMarks` show that whatever changes
children sets `_change`, and `MarkedStep` that this keeps `ShowsItsChildren`.
One lemma per action follows.
`FreedNeverDrawn` is `NeverDrawsFreed`, the invariant the other three lead to.
`Closure` is a function by recursion over steps; `ClosureLeast` shows that such
a function exists, by giving one, and by a least counterexample that it never
leaves a set that no step of `Shown` leaves. So it is enough to name such a set
of nodes in memory, and the four parts of `DeadInv` do: only nodes that were
made are listed, and never the group of an answer (`BornInv`); only what is in
memory has lists (`HolderInv`); only nodes of a replaced world and groups of
answers are given up, and freed for it (`GivenUpInv`); and no list that is drawn
has a node of a replaced world that nobody kept (`ReusedInv`). The first attempt
failed because two guards of the CASE in `Shown` overlapped, so that TLC's
choice of the first was more than the definition says; `Shown` is a set
comprehension with disjoint guards now.

Only model-checked: everything under fairness (liveness, `ENABLED` and the fair
part of the refinements are beyond TLAPS); the violated runs; `NewWorldShown`,
whose history belongs to the run. `FlagNeverWrong`, `OneRequestAtATime`, `TableSorted`,
`NavigatesOrDrags`, `LoaderNeverOversleeps`, `SyncMeansProcessed`, `EventKept`
and `PendingIsDelivered` are proved and no longer run: they are parts of
stronger theorems, or a run checks a stronger property beside them. No module has a
RECURSIVE operator.

## 5. Not modelled

The build modelled is the desktop one: `FRONTEND_GETS_FILES`, Android, iPhone
and the Motif and Windows file pickers are left out. Beyond the parts of the
inventory without a module:

* the growth of a vector by one thread while another reads it (undefined
  behaviour, listed as hazards);
* routing: EAI listeners as receivers of routes, direction flags of arrays;
* bindables: ViewpointGroup, the camera, the three other stacks; two calls of
  `bind_node` that empty the stack between the other's look at its size and at
  its top, or take its size below zero (reads outside the array);
* textures and values: sizes and contents;
* EAI: SIGPIPE and `service_onclose`, plug-in mode, the wait loop of CREATEVS
  and the second part of LOADURL, several clients at once, what a query
  answers, MIDI, SWIG, the Java classes;
* clock events: a change of `cycleInterval`; the ticks of MovieTexture,
  AudioClip (the same `do_active_inactive`), Collision and the sensors of the
  environment;
* sensors: Anchor and GeoTouchSensor, the motion outputs, other buttons,
  several touches;
* scene: counts of X3D USE and of SFNode children, order and sorting by
  distance, Switch and LOD, Inline with `load` FALSE, LoadSensor.

Why each part is left out stands in `PROJECT.json` under its component. Most of
the tree is geometry, generated field tables, the parsers' grammar and the
conversions of fields to and from JavaScript: sequential code whose errors are
not a matter of order, and which a model would only repeat.

## 6. Plan

1. **ScriptTable**: registration and initialisation of scripts between frames.
2. **FrameLoop**: composes hand-off, routing and binding by `doEvents`, which
   is computed once in a frame while the parser may start after it.
3. **SceneGraph**: the counts of X3D USE, the order of children and sorting.

The questions of new modules would share runs with old ones, or take the place
of the properties that are proved.
