--------------------------- MODULE ParserHandoff ----------------------------
(***************************************************************************)
(* The hand-off of resources to the parser thread: src/lib/main/ProdCon.c, *)
(* with the resources of src/lib/resources.c.                              *)
(*                                                                         *)
(* Clients (the main thread and the display thread) call                   *)
(* send_resource_to_parser, send_resource_to_parser_async or               *)
(* EAI_killBindables; the parser thread runs _inputParseThread.  They share*)
(* mutex_resource_list, ONE condition variable, resource_list_condition,   *)
(* for both directions, the flag _P_LOCK_VAR and resource_list_to_parse.   *)
(*                                                                         *)
(* A step is the code between two points where another thread can be seen: *)
(* taking the mutex, testing the flag (and starting to wait, which releases*)
(* the mutex), the critical section, signal and unlock.                    *)
(***************************************************************************)
EXTENDS ResourceLadder, Sequences

CONSTANTS Clients,          \* threads that send to the parser
          Parser,           \* the parser thread
          Jobs,             \* bound: the calls made, each with its resource
          JobsOf,           \* JobsOf[c]: the calls client c makes
          KindsOf,          \* KindsOf[c]: the kinds of call client c makes
          NoThread, NoJob,
          SpuriousWakeups   \* may pthread_cond_wait return unsignalled?

(* push    fwl_resource_push_single_request: send, no wait for the result  *)
(* world   Anchor_ReplaceWorld: new_root, send, resource_wait              *)
(* string  EAI_CreateVrml and the SFNode constructor: send, resource_wait  *)
(* multi   VrmlBrowserCreateVrmlFromURL: the parser picks the url          *)
(* audio   locateAudioSource: the client fetches, send, resource_wait      *)
(* inline  load_Inline: a fetched file, send, its state polled later       *)
(* async   loadInline: as inline, through send_resource_to_parser_async    *)
(* kill    EAI_killBindables: the round trip without a resource            *)
Kinds == {"push", "world", "string", "multi", "audio", "inline", "async",
          "kill"}

ASSUME ClientsAssumption ==
  /\ Parser \notin Clients
  /\ NoThread \notin Clients \cup {Parser}
  /\ NoJob \notin Jobs
  /\ JobsOf \in [Clients -> SUBSET Jobs]
  /\ \A c, d \in Clients : c # d => JobsOf[c] \cap JobsOf[d] = {}
  /\ KindsOf \in [Clients -> SUBSET Kinds]
  /\ SpuriousWakeups \in BOOLEAN

Threads == Clients \cup {Parser}

VARIABLES
  displayInitialized,   \* IS_DISPLAY_INITIALIZED
  inputParseInitialized,
  mutex,                \* holder of mutex_resource_list
  waiting,              \* threads inside pthread_cond_wait
  lockVar,              \* _P_LOCK_VAR
  flagWrong,            \* a "flag wrong!" message has been printed
  list,                 \* resource_list_to_parse
  cursor,               \* the element ml_foreach looks at next
  current,              \* history: the call SEND_TO_PARSER was last done for
  pc,                   \* where each thread is
  job,                  \* the call each client is in
  kind,                 \* the kind of each call made so far, or "none"
  res,                  \* the resource of each call
  rootRes,              \* resources.root_res
  rootChildren,         \* whose nodes are children of rootNode()
  bindables             \* whose nodes are in the bindable vectors

threadVars == <<displayInitialized, inputParseInitialized>>
lockVars   == <<mutex, waiting>>
queueVars  == <<lockVar, flagWrong, list, cursor, current>>
callVars   == <<job, kind>>
sceneVars  == <<rootRes, rootChildren, bindables>>
vars == <<threadVars, lockVars, queueVars, pc, callVars, res, sceneVars>>

ClientStates == {"idle", "poll", "lock1", "test1", "wait1", "send", "unlock1",
                 "lock2", "test2", "wait2", "unlock2", "resource_wait"}
ParserStates == {"start", "lock", "test", "wait", "drain", "unlock"}

Init ==
  /\ displayInitialized = FALSE
  /\ inputParseInitialized = FALSE
  /\ mutex = NoThread
  /\ waiting = {}
  /\ lockVar = 0
  /\ flagWrong = FALSE
  /\ list = <<>>
  /\ cursor = 1
  /\ current = NoJob
  /\ pc = [t \in Threads |-> IF t = Parser THEN "start" ELSE "idle"]
  /\ job = [c \in Clients |-> NoJob]
  /\ kind = [j \in Jobs |-> "none"]
  /\ res = [j \in Jobs |-> NewResourceItem]
  /\ rootRes = NoJob
  /\ rootChildren = {}
  /\ bindables = {}

-----------------------------------------------------------------------------
(* Locking. *)

Goto(t, label) == pc' = [pc EXCEPT ![t] = label]

Lock(t, from, to) ==
  /\ pc[t] = from
  /\ mutex = NoThread
  /\ mutex' = t
  /\ Goto(t, to)
  /\ UNCHANGED <<threadVars, waiting, queueVars, callVars, res, sceneVars>>

(* One evaluation of the loop of WAIT_WHILE_...: pthread_cond_wait releases*)
(* the mutex as it starts to wait.                                         *)
TestFlag(t, from, busy, asleep, to) ==
  /\ pc[t] = from
  /\ IF lockVar = busy
     THEN /\ mutex' = NoThread
          /\ waiting' = waiting \cup {t}
          /\ Goto(t, asleep)
     ELSE /\ Goto(t, to)
          /\ UNCHANGED lockVars
  /\ UNCHANGED <<threadVars, queueVars, callVars, res, sceneVars>>

\* A thread taken off the wait set takes the mutex and tests again.
Reacquire(t, asleep, test) == t \notin waiting /\ Lock(t, asleep, test)

\* Mutant: the mutex is unlocked and nobody is signalled.
MutSignalAndUnlock(t, from, to) ==
  pc[t] = from /\ mutex' = NoThread /\ Goto(t, to) /\ UNCHANGED waiting

\* UNLOCK: pthread_cond_signal wakes one waiter, whichever that is.
SignalAndUnlock(t, from, to) ==
  /\ pc[t] = from
  /\ IF waiting = {} THEN UNCHANGED waiting
                     ELSE \E u \in waiting : waiting' = waiting \ {u}
  /\ mutex' = NoThread
  /\ Goto(t, to)

SpuriousWakeup ==
  /\ SpuriousWakeups
  /\ \E t \in waiting : waiting' = waiting \ {t}
  /\ UNCHANGED <<threadVars, mutex, queueVars, pc, callVars, res, sceneVars>>

-----------------------------------------------------------------------------
(* Clients. *)

(* The resource a call of kind k starts with, as the caller prepares it.   *)
Created(k) ==
  CASE k \in {"push", "world", "kill"} -> {NewResourceItem}
    [] k = "string"  -> {CreateFromString}
    [] k = "multi"   -> CreateMulti
    [] k = "audio"   -> UNION {ValidUrlFromMulti(m) : m \in CreateMulti}
    [] k \in {"inline", "async"} ->
         {[NewResourceItem EXCEPT !.type = t, !.status = "downloaded"] :
            t \in {"url", "file"}}

(* The calls a node of the scene makes; the others come from the user or   *)
(* from an external program.                                               *)
SceneKinds == {"multi", "audio", "inline", "async"}

\* Mutant: new_root is ignored.
MutKeptChildren(k) == rootChildren

\* With new_root the children of rootNode() are dropped, before any lock.
KeptChildren(k) == IF k = "world" THEN {} ELSE rootChildren

(* The caller creates its resource; the first one becomes root_res.        *)
Call(c, j, k) ==
  /\ pc[c] = "idle"
  /\ k \in SceneKinds => rootChildren # {}
  /\ kind[j] = "none"
  /\ kind' = [kind EXCEPT ![j] = k]
  /\ job' = [job EXCEPT ![c] = j]
  /\ \E r \in Created(k) : res' = [res EXCEPT ![j] = r]
  /\ rootRes' = IF rootRes = NoJob /\ k # "kill" THEN j ELSE rootRes
  /\ rootChildren' = KeptChildren(k)
  /\ Goto(c, IF k = "kill" THEN "lock1" ELSE "poll")
  /\ UNCHANGED <<threadVars, lockVars, queueVars, bindables>>

PollThreads(c) ==
  /\ pc[c] = "poll"
  /\ displayInitialized
  /\ inputParseInitialized
  /\ Goto(c, "lock1")
  /\ UNCHANGED <<threadVars, lockVars, queueVars, callVars, res, sceneVars>>

(* Append the resource and SEND_TO_PARSER.  EAI_killBindables fills psp,   *)
(* which the parser thread never reads, and leaves the list alone.         *)
Send(c) ==
  /\ pc[c] = "send"
  /\ list' = IF kind[job[c]] = "kill" THEN list ELSE Append(list, job[c])
  /\ flagWrong' = (flagWrong \/ lockVar # 0)
  /\ lockVar' = 1
  /\ current' = job[c]
  /\ Goto(c, "unlock1")
  /\ UNCHANGED <<threadVars, lockVars, cursor, callVars, res, sceneVars>>

AfterWait(k) == IF k \in {"world", "string", "multi", "audio"}
                THEN "resource_wait" ELSE "idle"

\* Mutant: send_resource_to_parser without its second wait.
MutAfterSend(k) == AfterWait(k)

AfterSend(k) == IF k = "async" THEN "idle" ELSE "lock2"

UnlockAfterSend(c) ==
  /\ SignalAndUnlock(c, "unlock1", AfterSend(kind[job[c]]))
  /\ UNCHANGED <<threadVars, queueVars, callVars, res, sceneVars>>

UnlockAfterWait(c) ==
  /\ SignalAndUnlock(c, "unlock2", AfterWait(kind[job[c]]))
  /\ UNCHANGED <<threadVars, queueVars, callVars, res, sceneVars>>

ResourceWait(c) ==
  /\ pc[c] = "resource_wait"
  /\ res[job[c]].complete
  /\ Goto(c, "idle")
  /\ UNCHANGED <<threadVars, lockVars, queueVars, callVars, res, sceneVars>>

Client(c) ==
  \/ \E j \in JobsOf[c], k \in KindsOf[c] : Call(c, j, k)
  \/ PollThreads(c)
  \/ Lock(c, "lock1", "test1")
  \/ TestFlag(c, "test1", 1, "wait1", "send")
  \/ Reacquire(c, "wait1", "test1")
  \/ Send(c)
  \/ UnlockAfterSend(c)
  \/ Lock(c, "lock2", "test2")
  \/ TestFlag(c, "test2", 1, "wait2", "unlock2")
  \/ Reacquire(c, "wait2", "test2")
  \/ UnlockAfterWait(c)
  \/ ResourceWait(c)

-----------------------------------------------------------------------------
(* The parser thread. *)

DisplayInitialize ==
  /\ ~displayInitialized
  /\ displayInitialized' = TRUE
  /\ UNCHANGED <<inputParseInitialized, lockVars, queueVars, pc, callVars,
                 res, sceneVars>>

ParserStart ==
  /\ pc[Parser] = "start"
  /\ inputParseInitialized' = TRUE
  /\ Goto(Parser, "lock")
  /\ UNCHANGED <<displayInitialized, lockVars, queueVars, callVars, res,
                 sceneVars>>

(* parser_process_res on the element ml_foreach is at.  Parsing a file for *)
(* root_res forgets the bindables first; the parsed nodes register theirs  *)
(* and become children of rootNode() or of the node the caller named.      *)
ParserProcess ==
  /\ pc[Parser] = "drain"
  /\ cursor <= Len(list)
  /\ LET j == list[cursor]
     IN  \E out \in ProcessRes(res[j]) :
           /\ res' = [res EXCEPT ![j] = out.res]
           /\ IF out.remove
              THEN /\ list' = SubSeq(list, 1, cursor - 1)
                              \o SubSeq(list, cursor + 1, Len(list))
                   /\ UNCHANGED cursor
              ELSE /\ cursor' = cursor + 1
                   /\ UNCHANGED list
           /\ IF out.res.status = "parsed"
              THEN /\ bindables' =
                        {j} \cup (IF j = rootRes /\ res[j].type # "string"
                                  THEN {} ELSE bindables)
                   /\ rootChildren' = IF kind[j] \in {"push", "world"}
                                      THEN rootChildren \cup {j}
                                      ELSE rootChildren
              ELSE UNCHANGED <<bindables, rootChildren>>
  /\ UNCHANGED <<threadVars, lockVars, lockVar, flagWrong, current, pc, callVars,
                 rootRes>>

ParserNextPass ==
  /\ pc[Parser] = "drain"
  /\ list # <<>>
  /\ cursor > Len(list)
  /\ cursor' = 1
  /\ UNCHANGED <<threadVars, lockVars, lockVar, flagWrong, list, current, pc,
                 callVars, res, sceneVars>>

\* The list is empty: PARSER_FINISHING.
ParserFinishing ==
  /\ pc[Parser] = "drain"
  /\ list = <<>>
  /\ flagWrong' = (flagWrong \/ lockVar # 1)
  /\ lockVar' = 0
  /\ cursor' = 1
  /\ Goto(Parser, "unlock")
  /\ UNCHANGED <<threadVars, lockVars, list, current, callVars, res,
                 sceneVars>>

ParserUnlock ==
  /\ SignalAndUnlock(Parser, "unlock", "lock")
  /\ UNCHANGED <<threadVars, queueVars, callVars, res, sceneVars>>

ParserThread ==
  \/ ParserStart
  \/ Lock(Parser, "lock", "test")
  \/ TestFlag(Parser, "test", 0, "wait", "drain")
  \/ Reacquire(Parser, "wait", "test")
  \/ ParserProcess
  \/ ParserNextPass
  \/ ParserFinishing
  \/ ParserUnlock

Next ==
  \/ \E c \in Clients : Client(c)
  \/ ParserThread
  \/ DisplayInitialize
  \/ SpuriousWakeup

Spec == Init /\ [][Next]_vars

Running(c) == pc[c] # "idle" /\ Client(c)

(* Every thread that can run is scheduled, and only finitely many wake-ups *)
(* are spurious; calls are finitely many too, so the mutex is not fought   *)
(* over for ever and weak fairness is enough.  Starting a call is not      *)
(* promised.                                                               *)
Fairness ==
  /\ <>[][~SpuriousWakeup]_vars
  /\ WF_vars(DisplayInitialize)
  /\ WF_vars(ParserThread)
  /\ \A c \in Clients : WF_vars(Running(c))

FairSpec == Spec /\ Fairness

-----------------------------------------------------------------------------
(* Properties. *)

TypeOK ==
  /\ displayInitialized \in BOOLEAN
  /\ inputParseInitialized \in BOOLEAN
  /\ mutex \in Threads \cup {NoThread}
  /\ waiting \subseteq Threads
  /\ lockVar \in {0, 1}
  /\ flagWrong \in BOOLEAN
  /\ list \in Seq(Jobs)
  /\ cursor \in Nat
  /\ current \in Jobs \cup {NoJob}
  /\ pc \in [Threads -> ClientStates \cup ParserStates]
  /\ job \in [Clients -> Jobs \cup {NoJob}]
  /\ kind \in [Jobs -> Kinds \cup {"none"}]
  /\ res \in [Jobs -> Resource]
  /\ rootRes \in Jobs \cup {NoJob}
  /\ rootChildren \subseteq Jobs
  /\ bindables \subseteq Jobs

Listed(j) == \E i \in 1..Len(list) : list[i] = j

InSend(c) == pc[c] \notin {"idle", "resource_wait"}

\* The messages of SEND_TO_PARSER and PARSER_FINISHING are never printed:
\* whatever the order of the threads, the flag is 0 at every send and 1 at
\* every finish.
FlagNeverWrong == ~flagWrong

\* At most one resource is queued, and only while the flag tells the other
\* clients to keep away: a client that finds the flag clear finds an empty
\* list.
OneRequestAtATime == list # <<>> => lockVar = 1 /\ Len(list) = 1

\* "wait for the parser to finish": past the second wait of
\* send_resource_to_parser the resource is off the list, even though other
\* clients may have sent in between.
SyncMeansProcessed ==
  \A c \in Clients : pc[c] \in {"unlock2", "resource_wait"} => ~Listed(job[c])

ResultKept ==
  \A c \in Clients :
    job[c] # NoJob /\ kind[job[c]] # "async" /\ ~InSend(c)
      => res'[job[c]] = res[job[c]]

\* After a synchronous send has returned, callers read res->status and
\* res->complete without a lock: the parser must never write that resource
\* again.
ResultIsFinal == [][ResultKept]_vars

\* Where a client is that has still to send its resource.
AskingStates == {"poll", "lock1", "test1", "wait1", "send"}

\* The client is replacing the world.
Replacing(c) == pc[c] # "idle" /\ kind[job[c]] = "world"

\* Its resource is on its way to the parser, which will put it below the root.
Rooting(c) ==
  /\ job[c] # NoJob /\ kind[job[c]] \in {"push", "world"}
  /\ pc[c] \in AskingStates \/ Listed(job[c])

\* Anchor_ReplaceWorld drops the children of rootNode() before it takes any
\* lock; when its send has returned, only the new world is below the root.
\* This holds for clients that replace the world alone (MCParserHandoff).
ReplacedWorldAlone ==
  \A c \in Clients :
    pc[c] = "resource_wait" /\ kind[job[c]] = "world"
      => rootChildren \subseteq {job[c]}

\* send_resource_to_parser returns, whoever else is sending.
SendReturns == \A c \in Clients : InSend(c) ~> ~InSend(c)

\* No other client ever sends, and no request comes with an empty url list.
Undisturbed(c) ==
  /\ \A d \in Clients \ {c} : pc[d] = "idle"
  /\ \A j \in Jobs : res[j].type = "multi" => res[j].urls > 0

\* The same for a client that is alone, as the display thread is once the
\* first world is loaded: the parser is woken and it wakes the client.
SendReturnsAlone ==
  \A c \in Clients : []Undisturbed(c) => (InSend(c) ~> ~InSend(c))

\* "go through the resource list until it is empty": the parser gets there,
\* whoever sends, if every request has a url to try.
ListDrains ==
  [](\A j \in Jobs : res[j].type = "multi" => res[j].urls > 0)
     => (pc[Parser] = "drain" ~> list = <<>>)

-----------------------------------------------------------------------------
(* Refinement: the service the hand-off implements. *)

Asking(j) ==
  \E c \in Clients : job[c] = j /\ pc[c] \in AskingStates

Phase(j) == IF kind[j] = "none" THEN "new"
            ELSE IF Asking(j) THEN "asked"
            ELSE IF lockVar = 1 /\ j = current THEN "accepted"
            ELSE "served"

Returned(j) == /\ kind[j] # "none"
               /\ \A c \in Clients : job[c] = j => ~InSend(c)

Service == INSTANCE ParserService WITH
  Requests <- Jobs,
  phase    <- [j \in Jobs |-> Phase(j)],
  sync     <- {j \in Jobs : kind[j] \notin {"none", "async"}},
  returned <- {j \in Jobs : Returned(j)}

\* The locks, the shared condition variable and the flag implement the
\* service: one request at a time, and no synchronous return before its own
\* request is served.
ImplementsService == Service!Spec
=============================================================================
