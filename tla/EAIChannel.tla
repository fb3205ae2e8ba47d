----------------------------- MODULE EAIChannel -----------------------------
(***************************************************************************)
(* The External Authoring Interface: the client library (src/libeai) in one*)
(* process, FreeWRL's socket server (src/lib/input/EAIServ.c) and command  *)
(* loop (MainLoop.c, EAIEventsIn.c, EAIEventsOut.c) in another.            *)
(*                                                                         *)
(* Callers of the library share eailock, the query number, receivedData and*)
(* the one readbuffer with the read thread; only eailock is a lock.  The   *)
(* server runs in the display thread, once per frame.                      *)
(*                                                                         *)
(* What passes to the client is a sequence of segments: a reply begins with*)
(* "RE", an event with "EV", the good-bye with "QUIT"; "more" is the second*)
(* part of a reply longer than one read.  A read takes any number of them. *)
(***************************************************************************)
EXTENDS Naturals, Sequences, FiniteSets

CONSTANTS Callers,      \* threads of the application that call the library
          Reader,       \* the thread of freewrlReadThread
          CommandsOf,   \* CommandsOf[t]: the commands thread t uses
          MaxCalls,     \* bound: commands of one client
          MaxClients,   \* bound: client processes, one after the other
          MaxEvents,    \* bound: events of the scene itself
          BufferSize,   \* EAIREADSIZE, in commands
          NoThread

(* query   GETNODE, GETFIELDTYPE, SENDCHILD ...: a reply is waited for     *)
(* event   SENDEVENT: no reply                                             *)
(* listen  REGLISTENER, from X3DAdvise                                     *)
(* stop    STOPFREEWRL, from X3D_shutdown                                  *)
Commands == {"query", "event", "listen", "stop"}

Threads == Callers \cup {Reader}

ASSUME EAIAssumption ==
  /\ Reader \notin Callers
  /\ NoThread \notin Threads
  /\ CommandsOf \in [Threads -> SUBSET Commands]
  /\ CommandsOf[Reader] \subseteq {"event"}
  /\ MaxCalls \in Nat
  /\ MaxClients \in Nat \ {0}
  /\ MaxEvents \in Nat
  /\ BufferSize \in Nat \ {0}

VARIABLES
  \* the client process
  clientUp, clients,    \* is it running; history: how many there were
  pc, cmd, number,      \* of each thread: where it is, its command, its number
  calls,                \* bound counter
  eailock,              \* who holds it
  queryno,              \* _X3D_queryno
  receivedData,
  readbuffer,           \* the segments of the last read
  listenerTable,        \* EAI_ListenerTable: the numbers registered under
  \* the connection
  toServer, toClient,
  \* the server
  serverUp,
  conn,                 \* the connection: "none", "backlog" or "open"
  wanted,               \* service_wanted
  stopped,              \* service_status is RxTx_STOP
  stage,                \* where the frame is
  eaiBuffer,            \* EAIbuffer from EAIbufpos on
  routesToRegister,     \* listeners do_first has not entered yet
  listening,            \* the number in the route to the listener, 0 if none
  marked,               \* the route's field has a new value
  events,               \* bound counter
  \* history
  sent,                 \* the commands written, and by which thread
  handled, answered, dismissed, \* see EAIService
  lastReply,            \* the number of the last reply the reader announced
  unseen                \* numbers of replies that were read and not looked at

callVars   == <<pc, cmd, number, calls, eailock>>
bufferVars == <<receivedData, readbuffer>>
clientVars == <<clientUp, clients, callVars, queryno, bufferVars,
                listenerTable>>
socketVars == <<conn, wanted, stopped>>
sceneVars  == <<routesToRegister, listening, marked, events>>
serverVars == <<serverUp, socketVars, stage, eaiBuffer, sceneVars>>
serviceVars == <<handled, answered, dismissed>>
readVars   == <<lastReply, unseen>>
historyVars == <<sent, serviceVars, readVars>>
vars == <<clientVars, toServer, toClient, serverVars, historyVars>>

Home(t) == IF t = Reader THEN "select" ELSE "idle"

(* X3D_initialize has connected; fwl_initFreeWRL has started the service.  *)
Init ==
  /\ pc = [t \in Threads |-> Home(t)]
  /\ calls = 0
  /\ cmd = [t \in Threads |-> "none"]
  /\ number = [t \in Threads |-> 0]
  /\ eailock = NoThread
  /\ queryno = 1
  /\ receivedData = FALSE
  /\ readbuffer = <<>>
  /\ listenerTable = <<>>
  /\ lastReply = 0
  /\ unseen = {}
  /\ clientUp = TRUE
  /\ clients = 1
  /\ toServer = <<>>
  /\ toClient = <<>>
  /\ serverUp = TRUE
  /\ conn = "backlog"
  /\ wanted = TRUE
  /\ stopped = FALSE
  /\ stage = "events"
  /\ eaiBuffer = <<>>
  /\ routesToRegister = <<>>
  /\ listening = 0
  /\ marked = FALSE
  /\ events = 0
  /\ sent = <<>>
  /\ handled = 0
  /\ answered = <<>>
  /\ dismissed = FALSE

-----------------------------------------------------------------------------
(* The client library. *)

Wants(k) == k \in {"query", "listen", "stop"}

Goto(t, label) == pc' = [pc EXCEPT ![t] = label]

Return(t) ==
  /\ Goto(t, Home(t))
  /\ cmd' = [cmd EXCEPT ![t] = "none"]
  /\ number' = [number EXCEPT ![t] = 0]

\* exit() ends every thread of the client process, and its memory is gone.
Exit ==
  /\ clientUp' = FALSE
  /\ pc' = [t \in Threads |-> Home(t)]
  /\ calls' = 0
  /\ cmd' = [t \in Threads |-> "none"]
  /\ number' = [t \in Threads |-> 0]
  /\ eailock' = NoThread
  /\ queryno' = 1
  /\ receivedData' = FALSE
  /\ readbuffer' = <<>>
  /\ listenerTable' = <<>>
  /\ lastReply' = 0
  /\ unseen' = {}
  /\ toClient' = <<>>
  /\ UNCHANGED <<clients, toServer, serverVars, sent, serviceVars>>

\* Mutant: the number after the one of the command.
MutListenerNumber == queryno + 1

\* FreeWRL_RegisterNumber
ListenerNumber == queryno

(* X3DAdvise enters the listener under the query number it expects its     *)
(* command to get, before it takes the lock.                               *)
Call(t, k) ==
  /\ clientUp
  /\ pc[t] = Home(t)
  /\ k \in CommandsOf[t]
  /\ calls < MaxCalls
  /\ calls' = calls + 1
  /\ cmd' = [cmd EXCEPT ![t] = k]
  /\ listenerTable' = IF k = "listen"
                      THEN Append(listenerTable, ListenerNumber)
                      ELSE listenerTable
  /\ Goto(t, "lock")
  /\ UNCHANGED <<clientUp, clients, number, eailock, queryno, bufferVars,
                 toServer, toClient, serverVars, historyVars>>

\* Mutant: the command is put together before EAILOCK.
MutLockFree == TRUE

LockFree == eailock = NoThread

\* EAILOCK, and the command is put together with the query number.
Lock(t) ==
  /\ pc[t] = "lock"
  /\ LockFree
  /\ eailock' = t
  /\ number' = [number EXCEPT ![t] = queryno]
  /\ Goto(t, "write")
  /\ UNCHANGED <<clientUp, clients, cmd, calls, queryno, bufferVars,
                 listenerTable, toServer, toClient, serverVars, historyVars>>

\* Mutant: the query number is only counted for commands with a reply.
MutAfterWrite(k) == queryno

\* The query number after a command that waits for no reply was written.
AfterWrite(k) == IF Wants(k) THEN queryno ELSE queryno + 1

\* A client that finds its server gone ends, here or at its next read.
Write(t) ==
  /\ pc[t] = "write"
  /\ \/ /\ serverUp
        /\ toServer' = Append(toServer, [n |-> number[t], cmd |-> cmd[t]])
        /\ sent' = Append(sent, [by |-> t, wants |-> Wants(cmd[t])])
        /\ queryno' = AfterWrite(cmd[t])
        /\ Goto(t, IF Wants(cmd[t]) THEN "clear" ELSE "unlock")
        /\ UNCHANGED <<clientUp, clients, cmd, number, calls, eailock,
                       bufferVars, listenerTable, toClient, serverVars,
                       serviceVars, readVars>>
     \/ ~serverUp /\ Exit

\* Mutant: receivedData is not cleared.
MutCleared == receivedData

Cleared == FALSE

ClearReceived(t) ==
  /\ pc[t] = "clear"
  /\ receivedData' = Cleared
  /\ Goto(t, "spin")
  /\ UNCHANGED <<clientUp, clients, cmd, number, calls, eailock, queryno,
                 readbuffer, listenerTable, toServer, toClient, serverVars,
                 historyVars>>

(* The loop ends and the reply is taken out of readbuffer: the time and the*)
(* query number.  The end of a long reply may or may not look like them.   *)
TakeReply(t) ==
  /\ pc[t] = "spin"
  /\ receivedData
  /\ \/ /\ queryno' = queryno + 1
        /\ Goto(t, "unlock")
        /\ UNCHANGED <<clientUp, clients, cmd, number, calls, eailock,
                       bufferVars, listenerTable, toServer, toClient,
                       serverVars, historyVars>>
     \/ Head(readbuffer).kind = "more" /\ Exit

\* EAIUNLOCK.  What sendToFreeWRL returned still points into readbuffer.
Unlock(t) ==
  /\ pc[t] = "unlock"
  /\ eailock' = NoThread
  /\ IF cmd[t] = "query" THEN Goto(t, "use") /\ UNCHANGED <<cmd, number>>
                         ELSE Return(t)
  /\ UNCHANGED <<clientUp, clients, calls, queryno, bufferVars,
                 listenerTable, toServer, toClient, serverVars, historyVars>>

UseReply(t) ==
  /\ pc[t] = "use"
  /\ Return(t)
  /\ UNCHANGED <<clientUp, clients, calls, eailock, queryno, bufferVars,
                 listenerTable, toServer, toClient, serverVars, historyVars>>

InCommand(t) ==
  Lock(t) \/ Write(t) \/ ClearReceived(t) \/ TakeReply(t) \/ Unlock(t)
  \/ UseReply(t)

Replies(segments) ==
  {segments[i].n : i \in {j \in DOMAIN segments : segments[j].kind = "RE"}}

\* freewrlReadThread: one read, into the buffer the last reply may be in.
Read ==
  /\ clientUp
  /\ pc[Reader] = "select"
  /\ \E n \in 1..Len(toClient) :
       /\ readbuffer' = SubSeq(toClient, 1, n)
       /\ toClient' = SubSeq(toClient, n + 1, Len(toClient))
       /\ unseen' = unseen \cup Replies(SubSeq(toClient, 2, n))
  /\ Goto(Reader, "dispatch")
  /\ UNCHANGED <<clientUp, clients, cmd, number, calls, eailock, queryno,
                 receivedData, listenerTable, toServer, serverVars, sent,
                 serviceVars, lastReply>>

ReadFails ==
  /\ clientUp
  /\ pc[Reader] = "select"
  /\ toClient = <<>> /\ ~serverUp
  /\ Exit

Known(n) == \E i \in DOMAIN listenerTable : listenerTable[i] = n

(* Only the beginning of what was read is looked at.  The handler of a     *)
(* listener is a function of the application, and it may send events.      *)
Dispatch ==
  /\ pc[Reader] = "dispatch"
  /\ LET first == Head(readbuffer)
     IN  \/ first.kind = "QUIT" /\ Exit
         \/ /\ first.kind # "QUIT"
            /\ receivedData' = (receivedData \/ first.kind = "RE")
            /\ lastReply' = IF first.kind = "RE" THEN first.n ELSE lastReply
            /\ Goto(Reader, IF first.kind = "EV" /\ Known(first.n)
                            THEN "handler" ELSE "select")
            /\ UNCHANGED <<clientUp, clients, cmd, number, calls, eailock,
                           queryno, readbuffer, listenerTable, toServer,
                           toClient, serverVars, sent, serviceVars, unseen>>

Handler ==
  /\ pc[Reader] = "handler"
  /\ \/ /\ Goto(Reader, "select")
        /\ UNCHANGED <<cmd, calls>>
     \/ /\ calls < MaxCalls
        /\ \E k \in CommandsOf[Reader] : cmd' = [cmd EXCEPT ![Reader] = k]
        /\ calls' = calls + 1
        /\ Goto(Reader, "lock")
  /\ UNCHANGED <<clientUp, clients, number, eailock, queryno, bufferVars,
                 listenerTable, toServer, toClient, serverVars, historyVars>>

ReadThread == Read \/ ReadFails \/ Dispatch \/ Handler \/ InCommand(Reader)

\* The application ends, whatever its threads are doing.
ClientExit == clientUp /\ Exit

(* The next application connects.  privSocketRead has forgotten the        *)
(* descriptor of the listening socket but not closed it, so X3D_initialize *)
(* succeeds.  Bound: one client at a time, when the commands of the one    *)
(* before are done.                                                        *)
NewClient ==
  /\ ~clientUp /\ clients < MaxClients
  /\ serverUp /\ conn = "none" /\ eaiBuffer = <<>>
  /\ clientUp' = TRUE
  /\ clients' = clients + 1
  /\ conn' = "backlog"
  /\ sent' = <<>> /\ handled' = 0 /\ answered' = <<>> /\ dismissed' = FALSE
  /\ UNCHANGED <<callVars, queryno, bufferVars, listenerTable, toServer,
                 toClient, serverUp, wanted, stopped, stage, eaiBuffer,
                 sceneVars, readVars>>

-----------------------------------------------------------------------------
(* The server, in the display thread: a frame passes the events of the     *)
(* scene on, then looks at the socket and handles what was read.           *)

Segment(kind, n) == [kind |-> kind, n |-> n]

Quit == Segment("QUIT", 0)

\* fwlio_RxTx_sendbuffer: what is written after the client has gone is lost.
SendBuffer(segments) ==
  toClient' = IF clientUp /\ conn = "open" THEN toClient \o segments
                                           ELSE toClient

\* The process is gone, and what it held; the client has to end as well.
ServerEnds ==
  /\ serverUp' = FALSE
  /\ conn' = "none" /\ wanted' = FALSE /\ stopped' = TRUE
  /\ stage' = "events"
  /\ toServer' = <<>> /\ eaiBuffer' = <<>>
  /\ routesToRegister' = <<>> /\ listening' = 0 /\ marked' = FALSE
  /\ dismissed' = TRUE
  /\ UNCHANGED <<clientVars, events, sent, answered, readVars>>

(* RxTx_STOP tells a connected client to quit, once.                       *)
Stop ==
  LET tells == conn = "open" /\ ~stopped
  IN  /\ stopped' = TRUE
      /\ dismissed' = (dismissed \/ tells)
      /\ SendBuffer(IF tells THEN <<Quit>> ELSE <<>>)

(* fwlio_RxTx_sendbuffer appends a newline to that QUIT, which is a string *)
(* literal: whether this ends the process depends on the build.            *)
StopFaults ==
  conn = "open" /\ ~stopped /\ ServerEnds /\ UNCHANGED <<toClient, handled>>

\* fwl_doQuit: kill_oldWorld, which stops the service, and exit.
DoQuit ==
  /\ ServerEnds
  /\ UNCHANGED toClient \/ (~stopped /\ SendBuffer(<<Quit>>))

\* A field that is listened to gets a new value, from inside FreeWRL.
SceneEvent ==
  /\ serverUp /\ stage = "events"
  /\ listening # 0 /\ ~marked
  /\ events < MaxEvents
  /\ events' = events + 1
  /\ marked' = TRUE
  /\ UNCHANGED <<clientVars, toServer, toClient, serverUp, socketVars, stage,
                 eaiBuffer, routesToRegister, listening, historyVars>>

\* kill_oldWorld(TRUE, ...), from an Anchor or the user.
WorldReplaced ==
  /\ serverUp /\ stage = "events"
  /\ \/ /\ Stop
        /\ listening' = 0
        /\ marked' = FALSE
        /\ UNCHANGED <<clientVars, toServer, serverUp, conn, wanted, stage,
                       eaiBuffer, routesToRegister, events, sent, handled,
                       answered, readVars>>
     \/ StopFaults

\* The user quits.
ServerQuit ==
  /\ serverUp /\ stage = "events"
  /\ DoQuit
  /\ UNCHANGED handled

(* do_first enters the routes to the listener that wait, unless the parser *)
(* is at work; a second route from the same field is a duplicate.          *)
(* propagate_events then calls EAIListener for a field that is marked.     *)
Propagate ==
  /\ serverUp /\ stage = "events"
  /\ stage' = "eai"
  /\ \/ /\ routesToRegister # <<>>
        /\ routesToRegister' = <<>>
        /\ listening' = IF listening = 0 THEN Head(routesToRegister)
                                         ELSE listening
     \/ UNCHANGED <<routesToRegister, listening>>
  /\ marked' = FALSE
  /\ SendBuffer(IF marked THEN <<Segment("EV", listening)>> ELSE <<>>)
  /\ UNCHANGED <<clientVars, toServer, serverUp, socketVars, eaiBuffer,
                 events, historyVars>>

\* privSocketSetup, then privSocketRead until nothing is left to read.
Accept ==
  /\ wanted /\ conn = "backlog"
  /\ conn' = "open"
  /\ stopped' = FALSE
  /\ UNCHANGED <<clientVars, toServer, toClient, serverUp, wanted, stage,
                 eaiBuffer, sceneVars, historyVars>>

NothingToDo ==
  /\ ~wanted \/ conn = "none"
  /\ stage' = "events"
  /\ stopped' = (stopped /\ ~wanted)
  /\ UNCHANGED <<clientVars, toServer, toClient, serverUp, conn, wanted,
                 eaiBuffer, sceneVars, historyVars>>

\* privSocketRead forgets a client that has gone.
ReadSocket ==
  /\ wanted /\ conn = "open"
  /\ Len(toServer) <= BufferSize
  /\ toServer' = <<>>
  /\ eaiBuffer' = toServer
  /\ stage' = IF toServer = <<>> THEN "events" ELSE "commands"
  /\ \/ clientUp /\ UNCHANGED <<conn, wanted, stopped>>
     \/ ~clientUp /\ conn' = "none" /\ wanted' = FALSE /\ stopped' = TRUE
  /\ UNCHANGED <<clientVars, serverUp, toClient, sceneVars, historyVars>>

(* fwl_EAI_handleBuffer refuses more than EAIREADSIZE characters and tells *)
(* the client to quit.                                                     *)
RefuseBuffer ==
  /\ wanted /\ conn = "open"
  /\ Len(toServer) > BufferSize
  /\ \/ /\ clientUp
        /\ Stop
        /\ UNCHANGED <<conn, wanted>>
     \/ /\ ~clientUp
        /\ conn' = "none" /\ wanted' = FALSE /\ stopped' = TRUE
        /\ UNCHANGED <<toClient, dismissed>>
  /\ toServer' = <<>>
  /\ stage' = "events"
  /\ UNCHANGED <<clientVars, serverUp, eaiBuffer, sceneVars, sent, handled,
                 answered, readVars>>

Refresh ==
  /\ serverUp /\ stage = "eai"
  /\ \/ Accept \/ NothingToDo
     \/ ReadSocket \/ RefuseBuffer
     \/ clientUp /\ Len(toServer) > BufferSize /\ StopFaults

\* Mutant: only the first command of what was read is handled.
MutRest(buffer) == <<>>

\* What is left for fwl_EAI_handleRest.
Rest(buffer) == Tail(buffer)

\* Only the replies to queries may be longer than one read.
Reply(c) ==
  {<<Segment("RE", c.n)>>} \cup
  {<<Segment("RE", c.n), Segment("more", 0)>> : k \in {c.cmd} \ {"listen"}}

(* EAI_core_commands handles one command.  A value sent to a field that is *)
(* listened to marks it, unless mark_event drops the mark.                 *)
HandleCommand ==
  LET c == Head(eaiBuffer)
  IN  /\ serverUp /\ stage = "commands"
      /\ handled' = c.n
      /\ \/ /\ c.cmd # "stop"
            /\ eaiBuffer' = Rest(eaiBuffer)
            /\ stage' = IF eaiBuffer' = <<>> THEN "events" ELSE "commands"
            /\ \/ /\ c.cmd = "event"
                  /\ marked' \in {marked, listening # 0}
                  /\ UNCHANGED <<toClient, answered, routesToRegister>>
               \/ /\ c.cmd # "event"
                  /\ \E r \in Reply(c) : SendBuffer(r)
                  /\ answered' = Append(answered, c.n)
                  /\ routesToRegister' =
                       IF c.cmd = "listen" THEN Append(routesToRegister, c.n)
                                           ELSE routesToRegister
                  /\ UNCHANGED marked
            /\ UNCHANGED <<clientVars, toServer, serverUp, socketVars,
                           listening, events, sent, dismissed, readVars>>
         \/ c.cmd = "stop" /\ DoQuit

-----------------------------------------------------------------------------
Next ==
  \/ \E t \in Callers, k \in Commands : Call(t, k)
  \/ \E t \in Callers : InCommand(t)
  \/ ReadThread
  \/ ClientExit \/ NewClient
  \/ SceneEvent \/ WorldReplaced \/ ServerQuit
  \/ Propagate \/ Refresh \/ HandleCommand

Spec == Init /\ [][Next]_vars

(* Threads that wait for nothing get on, and frame follows frame.          *)
Fairness ==
  /\ \A t \in Callers : WF_vars(InCommand(t))
  /\ WF_vars(ReadThread)
  /\ WF_vars(Propagate \/ Refresh \/ HandleCommand)

FairSpec == Spec /\ Fairness

-----------------------------------------------------------------------------
Labels ==
  {"idle", "select", "lock", "write", "clear", "spin", "unlock", "use",
   "dispatch", "handler"}

Segments == [kind : {"RE", "EV", "QUIT", "more"}, n : Nat]

(* Every variable has its type; eailock is held by the thread that is in   *)
(* a command, and commands of the client have gone out under the numbers   *)
(* 1, 2, ... (EAILOCK and _X3D_queryno of libeai, EAIServ.c, MainLoop.c).  *)
TypeOK ==
  /\ clientUp \in BOOLEAN /\ serverUp \in BOOLEAN
  /\ clients \in 1..MaxClients
  /\ pc \in [Threads -> Labels]
  /\ cmd \in [Threads -> Commands \cup {"none"}]
  /\ number \in [Threads -> Nat]
  /\ calls \in 0..MaxCalls
  /\ eailock \in Threads \cup {NoThread}
  /\ \A t \in Threads :
       pc[t] \in {"write", "clear", "spin", "unlock"} <=> eailock = t
  /\ queryno \in Nat /\ receivedData \in BOOLEAN
  /\ readbuffer \in Seq(Segments)
  /\ listenerTable \in Seq(Nat)
  /\ toServer \in Seq([n : Nat \ {0}, cmd : Commands])
  /\ toClient \in Seq(Segments)
  /\ conn \in {"none", "backlog", "open"}
  /\ wanted \in BOOLEAN /\ stopped \in BOOLEAN /\ marked \in BOOLEAN
  /\ stage \in {"events", "eai", "commands"}
  /\ eaiBuffer \in Seq([n : Nat \ {0}, cmd : Commands])
  /\ stage = "commands" <=> eaiBuffer # <<>>
  /\ routesToRegister \in Seq(Nat)
  /\ listening \in Nat /\ events \in 0..MaxEvents
  /\ sent \in Seq([by : Threads, wants : BOOLEAN]) /\ handled \in 0..Len(sent)
  /\ answered \in Seq(1..Len(sent)) /\ dismissed \in BOOLEAN
  /\ lastReply \in Nat /\ unseen \subseteq Nat

(* sendToFreeWRL only warns about a reply with another number (the check   *)
(* of readquery against _X3D_queryno).  It never gets one: a caller that   *)
(* sees receivedData finds its own reply in readbuffer, or what was read   *)
(* after it, and so does a caller that still uses the reply when no other  *)
(* command was written.                                                    *)
NeverAnothersReply ==
  \A c \in Callers :
    /\ \/ pc[c] = "spin" /\ receivedData
       \/ pc[c] = "use" /\ Len(sent) = number[c]
    /\ Head(readbuffer).kind = "RE"
    => Head(readbuffer).n = number[c]

(* X3DAdvise enters the listener in EAI_ListenerTable under the number it  *)
(* expects its command to get.  An event whose number is not in the table  *)
(* is one whose listener was registered right behind another thread's      *)
(* command.                                                                *)
EventFindsListener ==
  pc[Reader] = "dispatch" /\ Head(readbuffer).kind = "EV" =>
    LET n == Head(readbuffer).n
    IN  Known(n) \/ (n > 1 /\ sent[n - 1].by # sent[n].by)

\* The reply was announced before receivedData was cleared.
Overtaken(c) ==
  pc[c] = "spin" /\ ~receivedData /\ lastReply = number[c]

\* The handler of an event waits for eailock, so nobody reads the reply.
HandlerBlocked(c) == pc[Reader] = "lock" /\ lastReply # number[c]

(* A caller that holds eailock gives it back (sendToFreeWRL ends), unless  *)
(* one of the following has happened to it: its reply came before it       *)
(* cleared receivedData, was read behind something else, or waits behind a *)
(* handler that waits for the same lock; the client was told to quit; it   *)
(* connected to a server that serves no more.                              *)
AnsweredOrLost ==
  \A c \in Callers :
    eailock = c ~> \/ eailock # c
                   \/ Overtaken(c)
                   \/ number[c] \in unseen
                   \/ HandlerBlocked(c)
                   \/ dismissed
                   \/ ~wanted /\ conn # "open"

(* Whatever the threads do, the server takes the commands of a client in   *)
(* the order of their numbers and replies to each that wants it, once      *)
(* (EAI_core_commands, fwl_EAI_handleRest, _X3D_queryno).                  *)
Service == INSTANCE EAIService WITH
  asked <- [n \in DOMAIN sent |-> sent[n].wants], served <- handled

ImplementsService == Service!Spec
=============================================================================
