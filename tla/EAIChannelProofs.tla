-------------------------- MODULE EAIChannelProofs --------------------------
(***************************************************************************)
(* Proofs about EAIChannel, for any number of threads, commands, clients   *)
(* and events and any size of the buffer.                                  *)
(***************************************************************************)
EXTENDS EAIChannel, SequenceTheorems, TLAPS

USE DEF vars, clientVars, callVars, bufferVars, serverVars, socketVars,
        sceneVars, historyVars, serviceVars, readVars

-----------------------------------------------------------------------------
(* The inductive invariant.  TypeOK in four parts. *)

ThreadType ==
  /\ clientUp \in BOOLEAN
  /\ pc \in [Threads -> Labels]
  /\ cmd \in [Threads -> Commands \cup {"none"}]
  /\ number \in [Threads -> Nat]
  /\ calls \in 0..MaxCalls
  /\ eailock \in Threads \cup {NoThread}
  /\ \A t \in Threads :
       pc[t] \in {"write", "clear", "spin", "unlock"} <=> eailock = t

BufferType ==
  /\ clients \in 1..MaxClients
  /\ queryno \in Nat /\ receivedData \in BOOLEAN
  /\ readbuffer \in Seq(Segments)
  /\ toClient \in Seq(Segments)
  /\ listenerTable \in Seq(Nat)
  /\ lastReply \in Nat /\ unseen \subseteq Nat

Command == [n : Nat \ {0}, cmd : Commands]

ServerType ==
  /\ serverUp \in BOOLEAN
  /\ toServer \in Seq(Command)
  /\ conn \in {"none", "backlog", "open"}
  /\ wanted \in BOOLEAN /\ stopped \in BOOLEAN /\ marked \in BOOLEAN
  /\ stage \in {"events", "eai", "commands"}
  /\ eaiBuffer \in Seq(Command)
  /\ stage = "commands" <=> eaiBuffer # <<>>
  /\ routesToRegister \in Seq(Nat)
  /\ listening \in Nat /\ events \in 0..MaxEvents

HistoryType ==
  /\ sent \in Seq([by : Threads, wants : BOOLEAN])
  /\ handled \in 0..Len(sent)
  /\ answered \in Seq(1..Len(sent))
  /\ dismissed \in BOOLEAN

\* Where a thread can be, and with which command.
CallerInv ==
  \A c \in Callers :
    /\ pc[c] \in {"idle", "lock", "write", "clear", "spin", "unlock", "use"}
    /\ pc[c] # "idle" => cmd[c] \in Commands
    /\ pc[c] \in {"clear", "spin"} => Wants(cmd[c])
    /\ pc[c] = "use" => cmd[c] = "query"

ReaderInv ==
  /\ pc[Reader] \in
       {"select", "dispatch", "handler", "lock", "write", "unlock"}
  /\ pc[Reader] \in {"lock", "write", "unlock"} => cmd[Reader] = "event"
  /\ pc[Reader] = "dispatch" => readbuffer # <<>>

\* What a process leaves when it is gone.
DownInv ==
  /\ ~clientUp =>
       /\ \A t \in Threads : pc[t] = Home(t)
       /\ toClient = <<>> /\ readbuffer = <<>> /\ ~receivedData
       /\ queryno = 1 /\ listenerTable = <<>>
  /\ conn = "none" /\ serverUp => ~clientUp /\ toServer = <<>>
  /\ ~serverUp =>
       dismissed /\ conn = "none" /\ toServer = <<>> /\ eaiBuffer = <<>>

\* Only the first client is ever served.
ServedInv ==
  /\ conn = "none" => ~wanted
  /\ conn = "open" => wanted
  /\ conn = "open" /\ stopped => dismissed
  /\ clients > 1 => ~wanted /\ toClient = <<>> /\ readbuffer = <<>>

\* A caller that waits for its reply, and one that a reply will still reach.
Waits(c) == pc[c] \in {"clear", "spin"}
Awaited(n) ==
  \E c \in Callers : /\ number[c] = n
                     /\ pc[c] = "clear" \/ (pc[c] = "spin" /\ ~receivedData)

\* The query number counts the commands written; while one waits it is behind.
NumberInv ==
  clientUp =>
    /\ queryno >= 1
    /\ (\E c \in Callers : Waits(c)) => Len(sent) = queryno
    /\ (\A c \in Callers : ~Waits(c)) => Len(sent) = queryno - 1
    /\ \A t \in Threads :
         /\ pc[t] = "write" => number[t] = queryno
         /\ pc[t] \in {"clear", "spin"} =>
              number[t] = queryno /\ sent[queryno].by = t
         /\ pc[t] = "unlock" => number[t] = queryno - 1
         /\ pc[t] = "use" => number[t] < queryno

\* The commands between client and server are the last that were written, in
\* their order, and none before them is left out unless the client was told.
PipeInv ==
  /\ handled + Len(eaiBuffer) + Len(toServer) <= Len(sent)
  /\ ~dismissed /\ (conn # "none" \/ eaiBuffer # <<>>)
       => handled + Len(eaiBuffer) + Len(toServer) = Len(sent)
  /\ \A i \in 1..Len(toServer) :
       /\ toServer[i].n = Len(sent) - Len(toServer) + i
       /\ sent[toServer[i].n].wants = Wants(toServer[i].cmd)
  /\ \A i \in 1..Len(eaiBuffer) :
       /\ eaiBuffer[i].n = Len(sent) - Len(toServer) - Len(eaiBuffer) + i
       /\ sent[eaiBuffer[i].n].wants = Wants(eaiBuffer[i].cmd)

\* What wants a reply is the command of a caller that waits for it ...
CommandsAwaited ==
  clientUp =>
    /\ \A i \in 1..Len(toServer) :
         Wants(toServer[i].cmd) => Awaited(toServer[i].n)
    /\ \A i \in 1..Len(eaiBuffer) :
         Wants(eaiBuffer[i].cmd) => Awaited(eaiBuffer[i].n)

FirstIs(kind) == pc[Reader] = "dispatch" /\ Head(readbuffer).kind = kind
IsReply(i) == toClient[i].kind = "RE"

\* ... and so is what a reply on its way is for; there is only one.
RepliesAwaited ==
  clientUp =>
    /\ \A i \in 1..Len(toClient) :
         IsReply(i) => Awaited(toClient[i].n) /\ toClient[i].n <= handled
    /\ \A i, j \in 1..Len(toClient) : IsReply(i) /\ IsReply(j) => i = j
    /\ FirstIs("RE") =>
         /\ Awaited(Head(readbuffer).n) /\ Head(readbuffer).n <= handled
         /\ \A i \in 1..Len(toClient) : ~IsReply(i)

\* NeverAnothersReply, from the reply on until it is used.
OwnReplyInv ==
  \A c \in Callers :
    /\ \/ pc[c] = "spin" /\ receivedData
       \/ pc[c] = "unlock" /\ cmd[c] = "query"
       \/ pc[c] = "use" /\ Len(sent) = number[c]
    /\ Head(readbuffer).kind = "RE"
    => Head(readbuffer).n = number[c]

\* A listener is in the table under n, or another thread wrote the command
\* just before n.
Entered(n) ==
  /\ n \in 1..Len(sent)
  /\ Known(n) \/ (n > 1 /\ sent[n - 1].by # sent[n].by)

EnteringInv ==
  clientUp =>
    \A c \in Callers :
      pc[c] \in {"lock", "write"} /\ cmd[c] = "listen" =>
        Known(queryno) \/ (queryno > 1 /\ sent[queryno - 1].by # c)

ListenInv ==
  clientUp /\ clients = 1 =>
    /\ \A i \in 1..Len(toServer) :
         toServer[i].cmd = "listen" => Entered(toServer[i].n)
    /\ \A i \in 1..Len(eaiBuffer) :
         eaiBuffer[i].cmd = "listen" => Entered(eaiBuffer[i].n)
    /\ \A i \in 1..Len(routesToRegister) : Entered(routesToRegister[i])
    /\ listening = 0 => ~marked
    /\ listening # 0 => Entered(listening)
    /\ \A i \in 1..Len(toClient) :
         toClient[i].kind = "EV" => Entered(toClient[i].n)
    /\ FirstIs("EV") => Entered(Head(readbuffer).n)

IInv ==
  /\ ThreadType /\ BufferType /\ ServerType /\ HistoryType
  /\ CallerInv /\ ReaderInv /\ DownInv /\ ServedInv
  /\ NumberInv /\ PipeInv
  /\ CommandsAwaited /\ RepliesAwaited /\ OwnReplyInv
  /\ EnteringInv /\ ListenInv

-----------------------------------------------------------------------------
\* The threads are apart from one another.
LEMMA ThreadsApart ==
  /\ \A c \in Callers : c # Reader /\ c \in Threads
  /\ Reader \in Threads
  /\ \A t \in Threads : t # NoThread
  BY EAIAssumption DEF Threads

\* Appending keeps what is there and adds one element.
LEMMA Appended ==
  ASSUME NEW S, NEW s \in Seq(S), NEW x \in S
  PROVE  /\ Append(s, x) \in Seq(S)
         /\ Len(s) \in Nat /\ DOMAIN s = 1..Len(s)
         /\ Len(Append(s, x)) = Len(s) + 1
         /\ DOMAIN Append(s, x) = 1..(Len(s) + 1)
         /\ \A i \in 1..Len(s) : Append(s, x)[i] = s[i]
         /\ Append(s, x)[Len(s) + 1] = x
  BY AppendProperties

\* The initial state satisfies the invariant.
LEMMA InitIInv == Init => IInv
  <1> SUFFICES ASSUME Init PROVE IInv
    OBVIOUS
  <1> USE ThreadsApart, EAIAssumption DEF Init
  <1>1. ThreadType
    BY DEF ThreadType, Labels, Home
  <1>0. /\ \A S : <<>> \in Seq(S)
        /\ Len(<<>>) = 0
    BY ONLY TRUE
  <1>2. BufferType
    <2>1. /\ clients = 1 /\ queryno = 1
          /\ readbuffer = <<>> /\ toClient = <<>> /\ listenerTable = <<>>
          /\ lastReply = 0 /\ unseen = {}
      OBVIOUS
    <2>2. receivedData \in BOOLEAN
      OBVIOUS
    <2> QED BY ONLY <1>0, <2>1, <2>2, EAIAssumption DEF BufferType
  <1>6. ServerType
    <2>1. /\ toServer = <<>> /\ conn = "backlog" /\ stage = "events"
          /\ eaiBuffer = <<>> /\ routesToRegister = <<>>
          /\ listening = 0 /\ events = 0
      OBVIOUS
    <2>2. /\ serverUp \in BOOLEAN /\ wanted \in BOOLEAN
          /\ stopped \in BOOLEAN /\ marked \in BOOLEAN
      OBVIOUS
    <2> QED BY ONLY <1>0, <2>1, <2>2, EAIAssumption DEF ServerType
  <1>7. HistoryType
    <2>1. sent = <<>> /\ handled = 0 /\ answered = <<>>
      OBVIOUS
    <2>2. dismissed \in BOOLEAN
      OBVIOUS
    <2> QED BY ONLY <1>0, <2>1, <2>2 DEF HistoryType
  <1>3. CallerInv /\ ReaderInv /\ DownInv /\ ServedInv
    BY DEF CallerInv, ReaderInv, DownInv, ServedInv, Home
  <1>4. NumberInv /\ PipeInv /\ CommandsAwaited
    BY DEF NumberInv, PipeInv, CommandsAwaited, Waits, Home
  <1>5. RepliesAwaited /\ OwnReplyInv /\ EnteringInv /\ ListenInv
    BY DEF RepliesAwaited, OwnReplyInv, EnteringInv, ListenInv, FirstIs, Home
  <1> QED BY <1>1, <1>2, <1>3, <1>4, <1>5, <1>6, <1>7 DEF IInv

\* X3DAdvise and its like begin.
LEMMA CallStep ==
  ASSUME IInv, NEW t \in Callers, NEW k \in Commands, Call(t, k)
  PROVE  IInv'
  <1> USE ThreadsApart, EAIAssumption DEF IInv, Call, Goto, ListenerNumber
  <1>1. ThreadType'
    BY DEF ThreadType, Labels, Home
  <1>2. BufferType'
    BY DEF BufferType
  <1>3. ServerType' /\ HistoryType' /\ DownInv' /\ ServedInv' /\ PipeInv'
    BY DEF ServerType, HistoryType, DownInv, ServedInv, PipeInv
  <1>4. CallerInv' /\ ReaderInv'
    BY DEF CallerInv, ReaderInv, ThreadType, Home
  <1>5. NumberInv'
    BY DEF NumberInv, ThreadType, Waits, Home
  <1>6. \A n : Awaited(n)' <=> Awaited(n)
    BY DEF Awaited, ThreadType, Home
  <1>7. CommandsAwaited' /\ RepliesAwaited'
    BY <1>6 DEF CommandsAwaited, RepliesAwaited, FirstIs, IsReply, ThreadType
  <1>8. OwnReplyInv'
    BY DEF OwnReplyInv, ThreadType
  <1>9. /\ \A n : Known(n) => Known(n)'
        /\ k = "listen" => Known(queryno)'
    <2>1. listenerTable \in Seq(Nat) /\ queryno \in Nat
      BY DEF BufferType
    <2>2. CASE k = "listen"
      <3>1. listenerTable' = Append(listenerTable, queryno)
        BY <2>2
      <3>2. /\ DOMAIN listenerTable = 1..Len(listenerTable)
            /\ DOMAIN listenerTable' = 1..(Len(listenerTable) + 1)
            /\ Len(listenerTable) \in Nat
            /\ \A i \in 1..Len(listenerTable) :
                 listenerTable'[i] = listenerTable[i]
            /\ listenerTable'[Len(listenerTable) + 1] = queryno
        BY ONLY <2>1, <3>1, Appended
      <3> QED BY <3>2 DEF Known
    <2> QED BY <2>2 DEF Known
  <1>10. EnteringInv'
    BY <1>9 DEF EnteringInv, ThreadType
  <1>11. \A n : Entered(n) => Entered(n)'
    BY <1>9 DEF Entered
  <1>12. ListenInv'
    BY <1>11 DEF ListenInv, FirstIs, ThreadType
  <1> QED BY <1>1, <1>2, <1>3, <1>4, <1>5, <1>7, <1>8, <1>10, <1>12

\* Only the holder of eailock waits for a reply, under the last number.
LEMMA Holder ==
  ASSUME IInv, clientUp, NEW n, Awaited(n)
  PROVE  /\ eailock \in Callers /\ number[eailock] = n
         /\ pc[eailock] \in {"clear", "spin"}
         /\ pc[eailock] = "spin" => ~receivedData
         /\ n = Len(sent)
  <1>1. PICK c \in Callers :
          /\ number[c] = n
          /\ pc[c] = "clear" \/ (pc[c] = "spin" /\ ~receivedData)
    BY DEF Awaited
  <1>2. eailock = c
    BY <1>1, ThreadsApart DEF IInv, ThreadType
  <1>3. n = Len(sent)
    BY <1>1, ThreadsApart DEF IInv, NumberInv, Waits
  <1> QED BY <1>1, <1>2, <1>3

\* The commands on their way come after the one handled last.
LEMMA Ahead ==
  ASSUME IInv
  PROVE  /\ \A i \in 1..Len(toServer) :
              toServer[i].n > handled /\ toServer[i].n \in 1..Len(sent)
         /\ \A i \in 1..Len(eaiBuffer) :
              eaiBuffer[i].n > handled /\ eaiBuffer[i].n \in 1..Len(sent)
  <1>1. /\ Len(toServer) \in Nat /\ Len(eaiBuffer) \in Nat
        /\ Len(sent) \in Nat /\ handled \in Nat
    BY DEF IInv, ServerType, HistoryType
  <1>2. handled + Len(eaiBuffer) + Len(toServer) <= Len(sent)
    BY DEF IInv, PipeInv
  <1>3. /\ \A i \in 1..Len(toServer) :
             toServer[i].n = Len(sent) - Len(toServer) + i
        /\ \A i \in 1..Len(eaiBuffer) :
             eaiBuffer[i].n = Len(sent) - Len(toServer) - Len(eaiBuffer) + i
    BY DEF IInv, PipeInv
  <1> QED BY ONLY <1>1, <1>2, <1>3

\* A client that is gone holds no lock and waits for nothing.
LEMMA Busy ==
  ASSUME IInv
  PROVE  /\ \A t \in Threads : pc[t] # Home(t) => clientUp
         /\ \A c \in Callers : pc[c] # "idle" => clientUp
         /\ pc[Reader] # "select" => clientUp
  BY ThreadsApart DEF IInv, DownInv, Home

\* EAILOCK.
LEMMA LockStep ==
  ASSUME IInv, NEW t \in Threads, Lock(t)
  PROVE  IInv'
  <1> USE ThreadsApart, EAIAssumption DEF IInv, Lock, LockFree, Goto
  <1>0. clientUp
    BY Busy DEF Threads, Home
  <1>1. ThreadType'
    BY DEF ThreadType, BufferType, Labels
  <1>2. BufferType' /\ ServerType' /\ HistoryType' /\ ServedInv' /\ PipeInv'
    BY DEF BufferType, ServerType, HistoryType, ServedInv, PipeInv
  <1>3. CallerInv' /\ ReaderInv'
    BY DEF CallerInv, ReaderInv, ThreadType
  <1>4. DownInv'
    BY <1>0 DEF DownInv
  <1>5. NumberInv'
    BY <1>0 DEF NumberInv, ThreadType, BufferType, Waits
  <1>6. \A n : Awaited(n)' <=> Awaited(n)
    BY DEF Awaited, ThreadType
  <1>7. CommandsAwaited' /\ RepliesAwaited'
    BY <1>6 DEF CommandsAwaited, RepliesAwaited, FirstIs, IsReply, ThreadType
  <1>8. OwnReplyInv'
    BY DEF OwnReplyInv, ThreadType
  <1>9. EnteringInv' /\ ListenInv'
    BY DEF EnteringInv, ListenInv, Entered, Known, FirstIs, ThreadType
  <1> QED BY <1>1, <1>2, <1>3, <1>4, <1>5, <1>7, <1>8, <1>9

\* The client process ends: by itself, because its server is gone, because
\* it is told to quit, or over a reply it cannot read.
LEMMA ExitStep ==
  ASSUME IInv, Exit
  PROVE  IInv'
  <1> USE ThreadsApart, EAIAssumption DEF IInv, Exit
  <1>0. clientUp' \in BOOLEAN /\ receivedData' \in BOOLEAN
    OBVIOUS
  <1>1. ThreadType'
    <2>1. /\ pc' = [t \in Threads |-> Home(t)]
          /\ cmd' = [t \in Threads |-> "none"]
          /\ number' = [t \in Threads |-> 0]
          /\ calls' = 0 /\ eailock' = NoThread
      OBVIOUS
    <2> QED BY ONLY <1>0, <2>1, ThreadsApart, EAIAssumption
            DEF ThreadType, Labels, Home
  <1>2. BufferType'
    <2>1. /\ clients' = clients /\ queryno' = 1
          /\ readbuffer' = <<>> /\ toClient' = <<>> /\ listenerTable' = <<>>
          /\ lastReply' = 0 /\ unseen' = {}
          /\ clients \in 1..MaxClients
      BY DEF BufferType
    <2> QED BY ONLY <1>0, <2>1, EmptySeq DEF BufferType
  <1>3. ServerType' /\ HistoryType' /\ PipeInv'
    BY DEF ServerType, HistoryType, PipeInv
  <1>4. CallerInv' /\ ReaderInv'
    BY DEF CallerInv, ReaderInv, Home
  <1>5. DownInv' /\ ServedInv'
    BY DEF DownInv, ServedInv
  <1>6. NumberInv' /\ CommandsAwaited' /\ RepliesAwaited' /\ EnteringInv'
        /\ ListenInv'
    BY DEF NumberInv, CommandsAwaited, RepliesAwaited, EnteringInv, ListenInv
  <1>7. OwnReplyInv'
    BY DEF OwnReplyInv, Home
  <1> QED BY <1>1, <1>2, <1>3, <1>4, <1>5, <1>6, <1>7

\* receivedData is cleared.
LEMMA ClearStep ==
  ASSUME IInv, NEW t \in Threads, ClearReceived(t)
  PROVE  IInv'
  <1> USE ThreadsApart, EAIAssumption DEF IInv, ClearReceived, Cleared, Goto
  <1>0. clientUp /\ t \in Callers /\ eailock = t
    BY Busy DEF Threads, Home, ReaderInv, ThreadType
  <1>1. ThreadType'
    BY DEF ThreadType, Labels
  <1>2. BufferType' /\ ServerType' /\ HistoryType' /\ ServedInv' /\ PipeInv'
    BY DEF BufferType, ServerType, HistoryType, ServedInv, PipeInv
  <1>3. CallerInv' /\ ReaderInv'
    BY <1>0 DEF CallerInv, ReaderInv, ThreadType
  <1>4. DownInv'
    BY <1>0 DEF DownInv
  <1>5. NumberInv'
    BY <1>0 DEF NumberInv, ThreadType, Waits
  <1>6. \A n : Awaited(n)' <=> Awaited(n)
    BY <1>0 DEF Awaited, ThreadType
  <1>7. CommandsAwaited' /\ RepliesAwaited'
    BY <1>0, <1>6
    DEF CommandsAwaited, RepliesAwaited, FirstIs, IsReply, ThreadType
  <1>8. OwnReplyInv'
    BY <1>0 DEF OwnReplyInv, ThreadType
  <1>9. EnteringInv' /\ ListenInv'
    BY <1>0
    DEF EnteringInv, ListenInv, Entered, Known, FirstIs, ThreadType
  <1> QED BY <1>1, <1>2, <1>3, <1>4, <1>5, <1>7, <1>8, <1>9

\* A command is written while the server is there: the holder of eailock is
\* the one who writes, so nobody waits and no reply is on its way.
LEMMA WriteStep ==
  ASSUME IInv, NEW t \in Threads, pc[t] = "write",
         toServer' = Append(toServer, [n |-> number[t], cmd |-> cmd[t]]),
         sent' = Append(sent, [by |-> t, wants |-> Wants(cmd[t])]),
         queryno' = AfterWrite(cmd[t]), serverUp,
         Goto(t, IF Wants(cmd[t]) THEN "clear" ELSE "unlock"),
         UNCHANGED <<clientUp, clients, cmd, number, calls, eailock,
                     bufferVars, listenerTable, toClient, serverVars,
                     serviceVars, readVars>>
  PROVE  IInv'
  <1> DEFINE c == [n |-> number[t], cmd |-> cmd[t]]
             s == [by |-> t, wants |-> Wants(cmd[t])]
  <1> USE ThreadsApart, EAIAssumption DEF IInv, Goto
  <1>1. clientUp /\ eailock = t /\ conn # "none"
    BY Busy DEF Threads, Home, ThreadType, DownInv
  <1>2. /\ \A d \in Callers : ~Waits(d)
        /\ \A n : ~Awaited(n)
    BY <1>1 DEF ThreadType, Waits, Awaited
  <1>3. /\ Len(sent) = queryno - 1 /\ queryno \in Nat /\ queryno >= 1
        /\ number[t] = queryno
    BY <1>1, <1>2 DEF NumberInv, BufferType
  <1>4. /\ cmd[t] \in Commands
        /\ t = Reader => cmd[t] = "event"
        /\ Wants(cmd[t]) \in BOOLEAN
        /\ ~Wants(cmd[t]) => cmd[t] = "event"
    BY DEF CallerInv, ReaderInv, Threads, Commands, Wants
  <1>5. c \in Command /\ s \in [by : Threads, wants : BOOLEAN]
    BY <1>3, <1>4 DEF Command
  <1>6. /\ toServer' \in Seq(Command)
        /\ Len(toServer) \in Nat /\ Len(toServer') = Len(toServer) + 1
        /\ \A i \in 1..Len(toServer) : toServer'[i] = toServer[i]
        /\ toServer'[Len(toServer) + 1] = c
    <2>1. toServer \in Seq(Command)
      BY DEF ServerType
    <2>2. toServer' = Append(toServer, c)
      OBVIOUS
    <2> QED BY ONLY <1>5, <2>1, <2>2, Appended
  <1>7. /\ sent' \in Seq([by : Threads, wants : BOOLEAN])
        /\ Len(sent) \in Nat /\ Len(sent') = Len(sent) + 1
        /\ \A i \in 1..Len(sent) : sent'[i] = sent[i]
        /\ sent'[queryno] = s
    <2>1. sent \in Seq([by : Threads, wants : BOOLEAN])
      BY DEF HistoryType
    <2>2. sent' = Append(sent, s)
      OBVIOUS
    <2>3. /\ sent' \in Seq([by : Threads, wants : BOOLEAN])
          /\ Len(sent) \in Nat /\ Len(sent') = Len(sent) + 1
          /\ \A i \in 1..Len(sent) : sent'[i] = sent[i]
          /\ sent'[Len(sent) + 1] = s
      BY ONLY <1>5, <2>1, <2>2, Appended
    <2> QED BY <2>3, <1>3
  <1> HIDE DEF c, s
  <1>8. c.n = queryno /\ c.cmd = cmd[t] /\ s.by = t /\ s.wants = Wants(c.cmd)
    BY <1>3 DEF c, s
  <1>9. /\ queryno' = IF Wants(cmd[t]) THEN queryno ELSE queryno + 1
        /\ pc' = [pc EXCEPT ![t] = IF Wants(cmd[t]) THEN "clear"
                                                    ELSE "unlock"]
    BY DEF AfterWrite
  <1>10. /\ Len(eaiBuffer) \in Nat /\ handled \in Nat
         /\ \A i \in 1..Len(toServer) : toServer[i].n \in 1..Len(sent)
         /\ \A i \in 1..Len(eaiBuffer) : eaiBuffer[i].n \in 1..Len(sent)
    <2>1. Len(eaiBuffer) \in Nat /\ handled \in Nat
      BY DEF ServerType, HistoryType
    <2> QED BY ONLY <2>1, IInv, Ahead
  <1>11. ThreadType'
    BY <1>1, <1>9 DEF ThreadType, Labels
  <1>12. BufferType' /\ ServerType'
    <2>1. queryno' \in Nat
      BY <1>3, <1>9
    <2>2. BufferType'
      BY <2>1 DEF BufferType
    <2>3. ServerType'
      BY <1>6 DEF ServerType
    <2> QED BY <2>2, <2>3
  <1>13. HistoryType'
    <2>1. handled' \in 0..Len(sent')
      BY <1>7 DEF HistoryType
    <2>2. answered \in Seq(1..Len(sent)) /\ 1..Len(sent) \subseteq 1..Len(sent')
      BY <1>7 DEF HistoryType
    <2>3. answered' \in Seq(1..Len(sent'))
      BY <2>2
    <2> QED BY <1>7, <2>1, <2>3 DEF HistoryType
  <1>14. CallerInv'
    BY <1>4, <1>9 DEF CallerInv, ThreadType
  <1>26. ReaderInv'
    BY <1>4, <1>9 DEF ReaderInv, ThreadType, Wants
  <1>15. DownInv' /\ ServedInv'
    BY <1>1 DEF DownInv, ServedInv
  <1>16. NumberInv'
    <2>1. CASE Wants(cmd[t])
      <3>1. t \in Callers /\ Waits(t)'
        BY <1>4, <1>9, <2>1 DEF Threads, Waits, ThreadType, Wants
      <3> QED BY <1>1, <1>2, <1>3, <1>7, <1>8, <1>9, <2>1, <3>1
              DEF NumberInv, ThreadType, Waits
    <2>2. CASE ~Wants(cmd[t])
      <3>1. \A d \in Callers : ~Waits(d)'
        BY <1>2, <1>9, <2>2 DEF ThreadType, Waits
      <3>2. Len(sent') = queryno' - 1 /\ queryno' = queryno + 1
        BY <1>3, <1>7, <1>9, <2>2
      <3>3. \A u \in Threads :
              /\ pc'[u] \notin {"write", "clear", "spin"}
              /\ pc'[u] = "unlock" => number'[u] = queryno' - 1
              /\ pc'[u] = "use" => number'[u] < queryno'
        BY <1>1, <1>3, <1>9, <2>2, <3>2 DEF NumberInv, ThreadType
      <3> QED BY <1>3, <3>1, <3>2, <3>3 DEF NumberInv
    <2> QED BY <2>1, <2>2
  <1>17. PipeInv'
    <2>1. /\ handled + Len(eaiBuffer) + Len(toServer) <= Len(sent)
          /\ ~dismissed => handled + Len(eaiBuffer) + Len(toServer) = Len(sent)
      BY <1>1 DEF PipeInv
    <2>2. ASSUME NEW i \in 1..Len(toServer')
          PROVE  /\ toServer'[i].n = Len(sent') - Len(toServer') + i
                 /\ sent'[toServer'[i].n].wants = Wants(toServer'[i].cmd)
      <3>1. CASE i \in 1..Len(toServer)
        <4>1. /\ toServer[i].n = Len(sent) - Len(toServer) + i
              /\ sent[toServer[i].n].wants = Wants(toServer[i].cmd)
          BY <3>1 DEF PipeInv
        <4>2. toServer'[i] = toServer[i] /\ toServer[i].n \in 1..Len(sent)
          BY <1>6, <1>10, <3>1
        <4>3. sent'[toServer[i].n] = sent[toServer[i].n]
          BY <1>7, <4>2
        <4> QED BY <1>6, <1>7, <4>1, <4>2, <4>3
      <3>2. CASE i = Len(toServer) + 1
        <4>1. toServer'[i] = c /\ sent'[c.n] = s
          BY <1>6, <1>7, <1>8, <3>2
        <4>2. c.n = Len(sent') - Len(toServer') + i
          BY ONLY <1>3, <1>6, <1>7, <1>8, <3>2
        <4>3. sent'[c.n].wants = Wants(c.cmd)
          BY ONLY <1>8, <4>1
        <4> QED BY ONLY <4>1, <4>2, <4>3
      <3> QED BY ONLY <1>6, <2>2, <3>1, <3>2
    <2>3. ASSUME NEW i \in 1..Len(eaiBuffer)
          PROVE  /\ eaiBuffer[i].n
                      = Len(sent') - Len(toServer') - Len(eaiBuffer) + i
                 /\ sent'[eaiBuffer[i].n].wants = Wants(eaiBuffer[i].cmd)
      <3>1. /\ eaiBuffer[i].n
                 = Len(sent) - Len(toServer) - Len(eaiBuffer) + i
            /\ sent[eaiBuffer[i].n].wants = Wants(eaiBuffer[i].cmd)
        BY DEF PipeInv
      <3>2. sent'[eaiBuffer[i].n] = sent[eaiBuffer[i].n]
        BY <1>7, <1>10
      <3> QED BY <1>6, <1>7, <1>10, <3>1, <3>2
    <2>4. eaiBuffer' = eaiBuffer /\ handled' = handled /\ dismissed' = dismissed
      OBVIOUS
    <2> QED BY <1>6, <1>7, <1>10, <2>1, <2>2, <2>3, <2>4 DEF PipeInv
  <1>18. /\ \A i \in 1..Len(toServer) : ~Wants(toServer[i].cmd)
         /\ \A i \in 1..Len(eaiBuffer) : ~Wants(eaiBuffer[i].cmd)
         /\ \A i \in 1..Len(toClient) : ~IsReply(i)
         /\ ~FirstIs("RE")
    BY <1>1, <1>2 DEF CommandsAwaited, RepliesAwaited
  <1>19. CommandsAwaited'
    <2>1. \A n : Wants(cmd[t]) /\ n = queryno => Awaited(n)'
      BY <1>3, <1>4, <1>9 DEF Awaited, ThreadType, Threads, Wants
    <2>2. ASSUME NEW i \in 1..Len(toServer'), Wants(toServer'[i].cmd),
                 NEW n, n = toServer'[i].n
          PROVE  Awaited(n)'
      <3>1. CASE i \in 1..Len(toServer)
        BY <1>6, <1>18, <2>2, <3>1
      <3>2. CASE i = Len(toServer) + 1
        <4>1. toServer'[i] = c
          BY <1>6, <3>2
        <4> QED BY <1>8, <2>1, <2>2, <4>1 DEF Awaited
      <3> QED BY <1>6, <3>1, <3>2
    <2> QED BY <1>18, <2>2 DEF CommandsAwaited
  <1>20. RepliesAwaited'
    <2>1. toClient' = toClient /\ readbuffer' = readbuffer
      OBVIOUS
    <2>2. ~FirstIs("RE")'
      BY <1>9, <1>18 DEF FirstIs, ThreadType
    <2> QED BY <1>18, <2>1, <2>2 DEF RepliesAwaited, IsReply
  <1>21. OwnReplyInv'
    BY <1>1, <1>3, <1>4, <1>7, <1>9
    DEF OwnReplyInv, ThreadType, NumberInv, Wants
  <1>22. /\ \A n : Known(n)' <=> Known(n)
         /\ \A n : Entered(n) => Entered(n)'
    <2>1. \A n : Known(n)' <=> Known(n)
      BY DEF Known
    <2> QED BY <2>1, <1>7 DEF Entered
  <1>23. EnteringInv'
    <2> SUFFICES ASSUME NEW d \in Callers, pc'[d] \in {"lock", "write"},
                        cmd'[d] = "listen"
                 PROVE  Known(queryno)' \/ (queryno > 1 /\ sent[queryno - 1].by # d)'
      BY DEF EnteringInv
    <2>1. d # t /\ pc[d] = "lock" /\ cmd[d] = "listen"
      BY <1>1, <1>9 DEF ThreadType
    <2>2. Known(queryno) \/ (queryno > 1 /\ sent[queryno - 1].by # d)
      BY <1>1, <2>1 DEF EnteringInv
    <2>3. CASE Wants(cmd[t])
      BY <1>3, <1>7, <1>9, <1>22, <2>2, <2>3
    <2>4. CASE ~Wants(cmd[t])
      BY <1>3, <1>7, <1>8, <1>9, <2>1, <2>4
    <2> QED BY <2>3, <2>4
  <1>24. \A n : cmd[t] = "listen" /\ n = queryno => Entered(n)'
    <2> SUFFICES ASSUME cmd[t] = "listen", NEW n, n = queryno
                 PROVE  Entered(n)'
      OBVIOUS
    <2>1. Known(queryno) \/ (queryno > 1 /\ sent[queryno - 1].by # t)
      BY <1>1, <1>4 DEF EnteringInv, Threads
    <2>2. queryno' = queryno
      BY <1>9 DEF Wants
    <2> QED BY <1>3, <1>7, <1>8, <1>22, <2>1, <2>2 DEF Entered
  <1>25. ListenInv'
    <2> SUFFICES ASSUME clients = 1 PROVE ListenInv'
      BY DEF ListenInv
    <2>1. ASSUME NEW i \in 1..Len(toServer'), toServer'[i].cmd = "listen"
          PROVE  \A n : n = toServer'[i].n => Entered(n)'
      <3>1. CASE i \in 1..Len(toServer)
        BY <1>1, <1>6, <1>22, <2>1, <3>1 DEF ListenInv
      <3>2. CASE i = Len(toServer) + 1
        <4> QED BY <1>6, <1>8, <1>24, <2>1, <3>2
      <3> QED BY <1>6, <3>1, <3>2
    <2>2. FirstIs("EV")' => FirstIs("EV")
      BY <1>9 DEF FirstIs, ThreadType
    <2>3. /\ toClient' = toClient /\ readbuffer' = readbuffer
          /\ eaiBuffer' = eaiBuffer /\ routesToRegister' = routesToRegister
          /\ listening' = listening /\ marked' = marked
      OBVIOUS
    <2> QED BY <1>1, <1>22, <2>1, <2>2, <2>3 DEF ListenInv
  <1> QED BY <1>11, <1>12, <1>13, <1>14, <1>15, <1>16, <1>26, <1>17, <1>19, <1>20,
             <1>21, <1>23, <1>25

\* A caller that has seen receivedData takes its reply: nothing it sent and
\* nothing that is sent to it is left.
LEMMA TakeStep ==
  ASSUME IInv, NEW t \in Threads, pc[t] = "spin", receivedData,
         queryno' = queryno + 1, Goto(t, "unlock"),
         UNCHANGED <<clientUp, clients, cmd, number, calls, eailock,
                     bufferVars, listenerTable, toServer, toClient,
                     serverVars, historyVars>>
  PROVE  IInv'
  <1> USE ThreadsApart, EAIAssumption DEF IInv, Goto
  <1>1. clientUp /\ t \in Callers /\ eailock = t
    BY Busy DEF Threads, Home, ReaderInv, ThreadType
  <1>2. /\ \A c \in Callers : ~Waits(c)'
        /\ \A n : ~Awaited(n) /\ ~Awaited(n)'
    BY <1>1 DEF ThreadType, Waits, Awaited
  <1>3. /\ Len(sent) = queryno /\ number[t] = queryno
        /\ queryno \in Nat /\ queryno >= 1 /\ sent[queryno].by = t
    BY <1>1 DEF NumberInv, BufferType, Waits
  <1>4. ThreadType'
    BY DEF ThreadType, Labels
  <1>5. BufferType' /\ ServerType' /\ HistoryType' /\ ServedInv' /\ PipeInv'
    BY <1>3 DEF BufferType, ServerType, HistoryType, ServedInv, PipeInv
  <1>6. CallerInv' /\ ReaderInv' /\ DownInv'
    BY <1>1 DEF CallerInv, ReaderInv, DownInv, ThreadType
  <1>7. NumberInv'
    <2>1. \A u \in Threads :
            /\ pc'[u] \notin {"write", "clear", "spin"}
            /\ pc'[u] = "unlock" => number'[u] = queryno' - 1
            /\ pc'[u] = "use" => number'[u] < queryno'
      BY <1>1, <1>3 DEF NumberInv, ThreadType
    <2> QED BY <1>2, <1>3, <2>1 DEF NumberInv
  <1>8. CommandsAwaited' /\ RepliesAwaited'
    BY <1>1, <1>2
    DEF CommandsAwaited, RepliesAwaited, FirstIs, IsReply, ThreadType
  <1>9. OwnReplyInv'
    BY <1>1 DEF OwnReplyInv, ThreadType
  <1>10. EnteringInv'
    BY <1>1, <1>3 DEF EnteringInv, ThreadType
  <1>11. ListenInv'
    BY <1>1 DEF ListenInv, Entered, Known, FirstIs, ThreadType
  <1> QED BY <1>4, <1>5, <1>6, <1>7, <1>8, <1>9, <1>10, <1>11

\* EAIUNLOCK.
LEMMA UnlockStep ==
  ASSUME IInv, NEW t \in Threads, Unlock(t)
  PROVE  IInv'
  <1> USE ThreadsApart, EAIAssumption DEF IInv, Unlock, Goto, Return
  <1>1. /\ clientUp /\ eailock = t
        /\ t = Reader => cmd[t] = "event"
        /\ number[t] = queryno - 1 /\ queryno \in Nat
    <2>1. clientUp
      BY Busy DEF Threads, Home
    <2> QED BY <2>1 DEF ThreadType, ReaderInv, NumberInv, BufferType
  <1>2. \A u \in Threads : u # t => pc'[u] = pc[u] /\ cmd'[u] = cmd[u]
                                    /\ number'[u] = number[u]
    BY DEF ThreadType
  <1>3. /\ pc'[t] = IF cmd[t] = "query" THEN "use" ELSE Home(t)
        /\ cmd[t] = "query" => cmd'[t] = cmd[t] /\ number'[t] = number[t]
    BY DEF ThreadType
  <1>4. ThreadType'
    BY DEF ThreadType, Labels, Home
  <1>5. BufferType' /\ ServerType' /\ HistoryType' /\ ServedInv' /\ PipeInv'
    BY DEF BufferType, ServerType, HistoryType, ServedInv, PipeInv
  <1>6. CallerInv' /\ ReaderInv' /\ DownInv'
    BY <1>1, <1>2, <1>3 DEF CallerInv, ReaderInv, DownInv, Threads, Home
  <1>7. NumberInv'
    BY <1>1, <1>2, <1>3 DEF NumberInv, Waits, Threads, Home
  <1>8. \A n : Awaited(n)' <=> Awaited(n)
    BY <1>2, <1>3 DEF Awaited, Threads, Home
  <1>9. CommandsAwaited' /\ RepliesAwaited'
    BY <1>1, <1>2, <1>3, <1>8
    DEF CommandsAwaited, RepliesAwaited, FirstIs, IsReply, Home
  <1>10. OwnReplyInv'
    BY <1>1, <1>2, <1>3 DEF OwnReplyInv, Threads, Home
  <1>11. EnteringInv' /\ ListenInv'
    BY <1>1, <1>2, <1>3
    DEF EnteringInv, ListenInv, Entered, Known, FirstIs, Threads, Home
  <1> QED BY <1>4, <1>5, <1>6, <1>7, <1>9, <1>10, <1>11

\* The caller is done with its reply.
LEMMA UseStep ==
  ASSUME IInv, NEW t \in Threads, UseReply(t)
  PROVE  IInv'
  <1> USE ThreadsApart, EAIAssumption DEF IInv, UseReply, Goto, Return
  <1>1. clientUp /\ t \in Callers
    BY Busy DEF Threads, Home, ReaderInv
  <1>2. \A u \in Threads : u # t => pc'[u] = pc[u] /\ cmd'[u] = cmd[u]
                                    /\ number'[u] = number[u]
    BY DEF ThreadType
  <1>3. pc'[t] = "idle"
    BY <1>1 DEF ThreadType, Home
  <1>4. ThreadType'
    BY DEF ThreadType, Labels, Home
  <1>5. BufferType' /\ ServerType' /\ HistoryType' /\ ServedInv' /\ PipeInv'
    BY DEF BufferType, ServerType, HistoryType, ServedInv, PipeInv
  <1>6. CallerInv' /\ ReaderInv' /\ DownInv'
    BY <1>1, <1>2, <1>3 DEF CallerInv, ReaderInv, DownInv
  <1>7. NumberInv'
    BY <1>1, <1>2, <1>3 DEF NumberInv, Waits
  <1>8. \A n : Awaited(n)' <=> Awaited(n)
    BY <1>2, <1>3 DEF Awaited
  <1>9. CommandsAwaited' /\ RepliesAwaited'
    BY <1>1, <1>2, <1>3, <1>8
    DEF CommandsAwaited, RepliesAwaited, FirstIs, IsReply
  <1>10. OwnReplyInv'
    BY <1>1, <1>2, <1>3 DEF OwnReplyInv
  <1>11. EnteringInv' /\ ListenInv'
    BY <1>1, <1>2, <1>3
    DEF EnteringInv, ListenInv, Entered, Known, FirstIs
  <1> QED BY <1>4, <1>5, <1>6, <1>7, <1>9, <1>10, <1>11

\* Of a sequence that is read in part, and of what is left of it.
LEMMA Split ==
  ASSUME NEW S, NEW s \in Seq(S), NEW n \in 1..Len(s)
  PROVE  /\ SubSeq(s, 1, n) \in Seq(S) /\ SubSeq(s, 1, n) # <<>>
         /\ Head(SubSeq(s, 1, n)) = s[1]
         /\ SubSeq(s, n + 1, Len(s)) \in Seq(S)
         /\ Len(SubSeq(s, n + 1, Len(s))) = Len(s) - n
         /\ \A i \in 1..(Len(s) - n) : SubSeq(s, n + 1, Len(s))[i] = s[i + n]
  <1>1. n \in Int /\ Len(s) \in Nat /\ n >= 1 /\ n <= Len(s)
    OBVIOUS
  <1>2. \A i \in 1..Len(s) : s[i] \in S
    OBVIOUS
  <1>3. /\ SubSeq(s, 1, n) \in Seq(S)
        /\ Len(SubSeq(s, 1, n)) = n
        /\ \A i \in 1..n : SubSeq(s, 1, n)[i] = s[i]
    BY <1>1, <1>2, SubSeqProperties
  <1>4. SubSeq(s, 1, n) # <<>> /\ Head(SubSeq(s, 1, n)) = s[1]
    BY <1>1, <1>3
  <1>5. /\ SubSeq(s, n + 1, Len(s)) \in Seq(S)
        /\ Len(SubSeq(s, n + 1, Len(s)))
             = IF n + 1 <= Len(s) THEN Len(s) - (n + 1) + 1 ELSE 0
        /\ \A i \in 1..(Len(s) - (n + 1) + 1) :
             SubSeq(s, n + 1, Len(s))[i] = s[n + 1 + i - 1]
    BY <1>1, <1>2, SubSeqProperties
  <1> QED BY <1>1, <1>3, <1>4, <1>5

\* The read thread reads into the buffer the last reply may still be in: what
\* comes first now is no reply, or one that a caller waits for.
LEMMA ReadStep ==
  ASSUME IInv, Read
  PROVE  IInv'
  <1> USE ThreadsApart, EAIAssumption DEF IInv, Goto
  <1>1. PICK n \in 1..Len(toClient) :
          /\ readbuffer' = SubSeq(toClient, 1, n)
          /\ toClient' = SubSeq(toClient, n + 1, Len(toClient))
          /\ unseen' = unseen \cup Replies(SubSeq(toClient, 2, n))
    BY DEF Read
  <1>2. /\ clientUp /\ pc[Reader] = "select"
        /\ pc' = [pc EXCEPT ![Reader] = "dispatch"]
        /\ UNCHANGED <<clientUp, clients, cmd, number, calls, eailock, queryno,
                       receivedData, listenerTable, toServer, serverVars,
                       sent, serviceVars, lastReply>>
    BY DEF Read
  <1>3. toClient \in Seq(Segments) /\ Len(toClient) \in Nat
    BY DEF BufferType
  <1>4. /\ readbuffer' \in Seq(Segments) /\ readbuffer' # <<>>
        /\ Head(readbuffer') = toClient[1]
        /\ toClient' \in Seq(Segments)
        /\ Len(toClient') = Len(toClient) - n
        /\ \A i \in 1..(Len(toClient) - n) : toClient'[i] = toClient[i + n]
    BY ONLY <1>1, <1>3, Split
  <1>5. unseen' \subseteq Nat
    <2>1. 2 \in Int /\ n \in Int
      BY <1>3
    <2>2. \A i \in 2..n : toClient[i] \in Segments
      BY <1>1, <1>3
    <2>3. SubSeq(toClient, 2, n) \in Seq(Segments)
      BY ONLY <2>1, <2>2, SubSeqProperties
    <2>4. Replies(SubSeq(toClient, 2, n)) \subseteq Nat
      BY ONLY <2>3 DEF Replies, Segments
    <2> QED BY <1>1, <2>4 DEF BufferType
  <1>6. ThreadType'
    BY <1>2 DEF ThreadType, Labels
  <1>7. BufferType'
    BY <1>2, <1>4, <1>5 DEF BufferType
  <1>8. ServerType' /\ HistoryType' /\ PipeInv'
    BY <1>2 DEF ServerType, HistoryType, PipeInv
  <1>9. /\ \A u \in Threads : u # Reader => pc'[u] = pc[u]
        /\ pc'[Reader] = "dispatch"
    BY <1>2 DEF ThreadType
  <1>10. CallerInv' /\ ReaderInv'
    BY <1>2, <1>4, <1>9 DEF CallerInv, ReaderInv
  <1>11. clients = 1
    BY <1>1, <1>3 DEF ServedInv, BufferType
  <1>12. DownInv' /\ ServedInv'
    BY <1>2, <1>11 DEF DownInv, ServedInv
  <1>13. NumberInv'
    BY <1>2, <1>9 DEF NumberInv, Waits
  <1>14. \A m : Awaited(m)' <=> Awaited(m)
    BY <1>2, <1>9 DEF Awaited
  <1>15. toClient[1].kind = "RE" => Awaited(toClient[1].n)
    BY <1>1, <1>2, <1>3 DEF RepliesAwaited, IsReply
  <1>16. CommandsAwaited'
    BY <1>2, <1>14 DEF CommandsAwaited
  <1>17. RepliesAwaited'
    <2>1. /\ \A i \in 1..Len(toClient) :
               IsReply(i) => Awaited(toClient[i].n) /\ toClient[i].n <= handled
          /\ \A i, j \in 1..Len(toClient) : IsReply(i) /\ IsReply(j) => i = j
      BY <1>2 DEF RepliesAwaited
    <2>2. \A i \in 1..Len(toClient') :
            /\ toClient'[i] = toClient[i + n] /\ i + n \in 1..Len(toClient)
            /\ i + n # 1
      BY ONLY <1>1, <1>3, <1>4
    <2>3. \A i \in 1..Len(toClient') : IsReply(i)' <=> IsReply(i + n)
      BY <2>2 DEF IsReply
    <2>4. FirstIs("RE")' <=> IsReply(1)
      BY <1>4, <1>9 DEF FirstIs, IsReply
    <2>5. 1 \in 1..Len(toClient)
      BY <1>1, <1>3
    <2>6. \A i, j \in 1..Len(toClient') :
            IsReply(i)' /\ IsReply(j)' => i = j
      <3> SUFFICES ASSUME NEW i \in 1..Len(toClient'),
                          NEW j \in 1..Len(toClient'), IsReply(i)', IsReply(j)'
                   PROVE  i = j
        OBVIOUS
      <3>1. i + n = j + n
        BY <2>1, <2>2, <2>3
      <3> QED BY <1>3, <1>4, <3>1
    <2>7. FirstIs("RE")' => \A i \in 1..Len(toClient') : ~IsReply(i)'
      BY <2>1, <2>2, <2>3, <2>4, <2>5
    <2>8. \A i \in 1..Len(toClient') :
            IsReply(i)' => /\ Awaited(toClient[i + n].n)
                           /\ toClient[i + n].n <= handled
      BY <2>1, <2>2, <2>3
    <2>9. FirstIs("RE")' =>
            Awaited(toClient[1].n) /\ toClient[1].n <= handled
      BY <2>1, <2>4, <2>5
    <2> QED BY <1>2, <1>4, <1>14, <2>2, <2>6, <2>7, <2>8, <2>9
            DEF RepliesAwaited
  <1>18. OwnReplyInv'
    <2> SUFFICES ASSUME NEW c \in Callers,
                        \/ pc[c] = "spin" /\ receivedData
                        \/ pc[c] = "unlock"
                        \/ pc[c] = "use" /\ Len(sent) = number[c],
                        toClient[1].kind = "RE"
                 PROVE  FALSE
      BY <1>2, <1>4, <1>9 DEF OwnReplyInv
    <2>1. /\ eailock \in Callers /\ pc[eailock] \in {"clear", "spin"}
          /\ pc[eailock] = "spin" => ~receivedData
          /\ toClient[1].n = Len(sent) /\ number[eailock] = toClient[1].n
      BY <1>2, <1>15, Holder
    <2>2. pc[c] = "use" /\ Len(sent) = number[c]
      BY <2>1 DEF ThreadType
    <2>3. number[c] < queryno /\ Len(sent) = queryno /\ queryno \in Nat
      BY <1>2, <2>1, <2>2 DEF NumberInv, BufferType, Waits
    <2> QED BY ONLY <2>2, <2>3
  <1>19. EnteringInv'
    BY <1>2, <1>9 DEF EnteringInv, Known
  <1>20. \A m : Entered(m)' <=> Entered(m)
    BY <1>2 DEF Entered, Known
  <1>21. ListenInv'
    <2>1. \A i \in 1..Len(toClient) :
            toClient[i].kind = "EV" => Entered(toClient[i].n)
      BY <1>2, <1>11 DEF ListenInv
    <2>2. \A i \in 1..Len(toClient') :
            toClient'[i] = toClient[i + n] /\ i + n \in 1..Len(toClient)
      BY ONLY <1>1, <1>3, <1>4
    <2>3. FirstIs("EV")' => Entered(toClient[1].n)
      BY <1>1, <1>3, <1>4, <2>1 DEF FirstIs
    <2>4. \A i \in 1..Len(toClient') :
            toClient'[i].kind = "EV" => Entered(toClient'[i].n)
      BY <2>1, <2>2
    <2> QED BY <1>2, <1>4, <1>11, <1>20, <2>3, <2>4 DEF ListenInv
  <1> QED BY <1>6, <1>7, <1>8, <1>10, <1>12, <1>13, <1>16, <1>17, <1>18,
             <1>19, <1>21

\* The read thread looks at the beginning of what it read.  The caller a reply
\* is for has sent nothing else that is still on its way.
LEMMA DispatchStep ==
  ASSUME IInv, pc[Reader] = "dispatch", Head(readbuffer).kind # "QUIT",
         receivedData' = (receivedData \/ Head(readbuffer).kind = "RE"),
         lastReply' = IF Head(readbuffer).kind = "RE"
                      THEN Head(readbuffer).n ELSE lastReply,
         Goto(Reader, IF Head(readbuffer).kind = "EV"
                         /\ Known(Head(readbuffer).n)
                      THEN "handler" ELSE "select"),
         UNCHANGED <<clientUp, clients, cmd, number, calls, eailock,
                     queryno, readbuffer, listenerTable, toServer,
                     toClient, serverVars, sent, serviceVars, unseen>>
  PROVE  IInv'
  <1> USE ThreadsApart, EAIAssumption DEF IInv, Goto
  <1>1. /\ clientUp /\ readbuffer # <<>> /\ readbuffer \in Seq(Segments)
        /\ Head(readbuffer).n \in Nat
    <2>1. readbuffer # <<>> /\ readbuffer \in Seq(Segments)
      BY DEF ReaderInv, BufferType
    <2>2. Head(readbuffer) \in Segments
      BY ONLY <2>1, HeadTailProperties
    <2>3. Head(readbuffer).n \in Nat
      BY ONLY <2>2 DEF Segments
    <2> QED BY <2>1, <2>3, Busy
  <1>2. /\ \A u \in Threads : u # Reader => pc'[u] = pc[u]
        /\ pc'[Reader] \in {"handler", "select"}
    BY DEF ThreadType
  <1>3. ThreadType'
    BY DEF ThreadType, Labels
  <1>4. BufferType'
    <2>1. lastReply' \in Nat /\ receivedData' \in BOOLEAN
      BY <1>1 DEF BufferType
    <2> QED BY <2>1 DEF BufferType
  <1>5. ServerType' /\ HistoryType' /\ PipeInv'
    BY DEF ServerType, HistoryType, PipeInv
  <1>6. CallerInv' /\ ReaderInv'
    BY <1>2 DEF CallerInv, ReaderInv
  <1>7. DownInv' /\ ServedInv'
    BY <1>1 DEF DownInv, ServedInv
  <1>8. NumberInv'
    BY <1>1, <1>2 DEF NumberInv, Waits
  <1>9. EnteringInv'
    BY <1>1, <1>2 DEF EnteringInv, Known
  <1>10. ListenInv'
    <2>1. \A m : Entered(m)' <=> Entered(m)
      BY DEF Entered, Known
    <2>2. ~FirstIs("EV")'
      BY <1>2 DEF FirstIs
    <2> QED BY <1>1, <2>1, <2>2 DEF ListenInv
  <1>11. CASE Head(readbuffer).kind # "RE"
    <2>1. receivedData' = receivedData
      BY <1>11 DEF BufferType
    <2>2. \A m : Awaited(m)' <=> Awaited(m)
      BY <1>2, <2>1 DEF Awaited
    <2>3. ~FirstIs("RE")'
      BY <1>2 DEF FirstIs
    <2>4. CommandsAwaited' /\ RepliesAwaited'
      BY <1>1, <2>2, <2>3 DEF CommandsAwaited, RepliesAwaited, IsReply
    <2>5. OwnReplyInv'
      BY <1>2, <2>1 DEF OwnReplyInv
    <2> QED BY <1>3, <1>4, <1>5, <1>6, <1>7, <1>8, <1>9, <1>10, <2>4, <2>5
  <1>12. CASE Head(readbuffer).kind = "RE"
    <2>1. /\ Awaited(Head(readbuffer).n) /\ Head(readbuffer).n <= handled
          /\ \A i \in 1..Len(toClient) : ~IsReply(i)
      BY <1>1, <1>12 DEF RepliesAwaited, FirstIs
    <2>2. /\ eailock \in Callers /\ number[eailock] = Head(readbuffer).n
          /\ Head(readbuffer).n = Len(sent)
          /\ pc[eailock] \in {"clear", "spin"}
      BY ONLY <1>1, <2>1, IInv, Holder
    <2>3. /\ \A i \in 1..Len(toServer) : ~Awaited(toServer[i].n)
          /\ \A i \in 1..Len(eaiBuffer) : ~Awaited(eaiBuffer[i].n)
      <3>1. \A n : Awaited(n) => n = Len(sent)
        BY ONLY <1>1, IInv, Holder
      <3>2. Len(sent) <= handled /\ handled \in Nat /\ Len(sent) \in Nat
        BY <2>1, <2>2 DEF HistoryType
      <3> QED BY ONLY <3>1, <3>2, IInv, Ahead
    <2>4. CommandsAwaited'
      BY <1>1, <2>3 DEF CommandsAwaited
    <2>5. RepliesAwaited'
      <3>1. ~FirstIs("RE")'
        BY <1>2 DEF FirstIs
      <3> QED BY <2>1, <3>1 DEF RepliesAwaited, IsReply
    <2>6. OwnReplyInv'
      <3> SUFFICES ASSUME NEW c \in Callers,
                          \/ pc[c] = "spin"
                          \/ pc[c] = "unlock" /\ cmd[c] = "query"
                          \/ pc[c] = "use" /\ Len(sent) = number[c]
                   PROVE  Head(readbuffer).n = number[c]
        BY <1>2 DEF OwnReplyInv
      <3>1. CASE pc[c] \in {"spin", "unlock"}
        BY <2>2, <3>1 DEF ThreadType
      <3>2. CASE pc[c] = "use"
        BY <2>2, <3>2
      <3> QED BY <3>1, <3>2
    <2> QED BY <1>3, <1>4, <1>5, <1>6, <1>7, <1>8, <1>9, <1>10, <2>4, <2>5,
               <2>6
  <1> QED BY <1>11, <1>12

\* The handler of an event returns, or sends an event.
LEMMA HandlerStep ==
  ASSUME IInv, Handler
  PROVE  IInv'
  <1> USE ThreadsApart, EAIAssumption DEF IInv, Goto
  <1>1. clientUp /\ pc[Reader] = "handler"
    BY Busy DEF Handler
  <1>2. /\ \/ pc' = [pc EXCEPT ![Reader] = "select"] /\ UNCHANGED <<cmd, calls>>
           \/ /\ pc' = [pc EXCEPT ![Reader] = "lock"]
              /\ cmd' = [cmd EXCEPT ![Reader] = "event"]
              /\ calls' \in 0..MaxCalls
        /\ UNCHANGED <<clientUp, clients, number, eailock, queryno,
                       bufferVars, listenerTable, toServer, toClient,
                       serverVars, historyVars>>
    BY DEF Handler, ThreadType
  <1>3. /\ \A u \in Threads : u # Reader => pc'[u] = pc[u] /\ cmd'[u] = cmd[u]
        /\ \/ pc'[Reader] = "select"
           \/ pc'[Reader] = "lock" /\ cmd'[Reader] = "event"
    BY <1>2 DEF ThreadType
  <1>4. ThreadType'
    BY <1>1, <1>2 DEF ThreadType, Labels, Commands
  <1>5. BufferType' /\ ServerType' /\ HistoryType' /\ ServedInv' /\ PipeInv'
    BY <1>2 DEF BufferType, ServerType, HistoryType, ServedInv, PipeInv
  <1>6. CallerInv' /\ ReaderInv' /\ DownInv'
    BY <1>1, <1>2, <1>3 DEF CallerInv, ReaderInv, DownInv
  <1>7. NumberInv'
    BY <1>1, <1>2, <1>3 DEF NumberInv, Waits
  <1>8. \A n : Awaited(n)' <=> Awaited(n)
    BY <1>2, <1>3 DEF Awaited
  <1>9. CommandsAwaited' /\ RepliesAwaited'
    BY <1>1, <1>2, <1>3, <1>8
    DEF CommandsAwaited, RepliesAwaited, FirstIs, IsReply
  <1>10. OwnReplyInv'
    BY <1>1, <1>2, <1>3 DEF OwnReplyInv
  <1>11. EnteringInv' /\ ListenInv'
    BY <1>1, <1>2, <1>3 DEF EnteringInv, ListenInv, Entered, Known, FirstIs
  <1> QED BY <1>4, <1>5, <1>6, <1>7, <1>9, <1>10, <1>11

\* The next application connects, to a server that reads its socket no more.
LEMMA NewClientStep ==
  ASSUME IInv, NewClient
  PROVE  IInv'
  <1> USE ThreadsApart, EAIAssumption DEF IInv
  <1>1. /\ UNCHANGED <<callVars, queryno, bufferVars, listenerTable, toServer,
                       toClient, serverUp, wanted, stopped, stage, eaiBuffer,
                       sceneVars, readVars>>
        /\ sent' = <<>> /\ handled' = 0 /\ answered' = <<>>
        /\ clients' = clients + 1 /\ conn' = "backlog"
    BY DEF NewClient
  <1>2. /\ clientUp' \in BOOLEAN /\ clientUp' /\ ~dismissed' /\ serverUp'
        /\ dismissed' \in BOOLEAN
    BY DEF NewClient
  <1>3. /\ toServer = <<>> /\ eaiBuffer = <<>> /\ toClient = <<>>
        /\ readbuffer = <<>> /\ ~wanted /\ queryno = 1 /\ ~receivedData
        /\ \A t \in Threads : pc[t] = Home(t)
    BY DEF NewClient, DownInv, ServedInv
  <1>4. clients \in Nat /\ clients >= 1 /\ clients' \in 1..MaxClients
    BY DEF NewClient, BufferType
  <1>5. \A t \in Threads : pc'[t] \in {"idle", "select"}
    BY <1>1, <1>3 DEF Home
  <1>6. ThreadType'
    BY <1>1, <1>2 DEF ThreadType
  <1>7. BufferType' /\ ServerType'
    BY <1>1, <1>2, <1>4 DEF BufferType, ServerType
  <1>8. HistoryType'
    BY ONLY <1>1, <1>2, EmptySeq DEF HistoryType
  <1>9. CallerInv' /\ ReaderInv'
    BY <1>1, <1>3 DEF CallerInv, ReaderInv, Home
  <1>10. DownInv' /\ ServedInv'
    BY <1>1, <1>2, <1>3, <1>4 DEF DownInv, ServedInv
  <1>11. NumberInv'
    BY <1>1, <1>3, <1>5, EmptySeq DEF NumberInv, Waits
  <1>12. PipeInv'
    BY ONLY <1>1, <1>3, EmptySeq DEF PipeInv
  <1>13. CommandsAwaited' /\ RepliesAwaited'
    BY <1>1, <1>3, <1>5, EmptySeq
    DEF CommandsAwaited, RepliesAwaited, FirstIs, IsReply
  <1>14. OwnReplyInv' /\ EnteringInv'
    BY <1>1, <1>5 DEF OwnReplyInv, EnteringInv
  <1>15. ListenInv'
    BY <1>1, <1>4 DEF ListenInv
  <1> QED BY <1>6, <1>7, <1>8, <1>9, <1>10, <1>11, <1>12, <1>13, <1>14, <1>15

\* What fwlio_RxTx_sendbuffer does: only the connected client gets anything.
LEMMA Sending ==
  ASSUME IInv, NEW segs \in Seq(Segments), SendBuffer(segs)
  PROVE  /\ toClient' \in Seq(Segments)
         /\ Len(toClient) \in Nat /\ Len(segs) \in Nat
         /\ \/ toClient' = toClient
            \/ /\ clientUp /\ conn = "open" /\ clients = 1
               /\ Len(toClient') = Len(toClient) + Len(segs)
         /\ \A i \in 1..Len(toClient) : toClient'[i] = toClient[i]
         /\ \A i \in 1..Len(toClient') :
              \/ i \in 1..Len(toClient)
              \/ /\ clientUp
                 /\ i - Len(toClient) \in 1..Len(segs)
                 /\ toClient'[i] = segs[i - Len(toClient)]
  <1>1. toClient \in Seq(Segments)
    BY DEF IInv, BufferType
  <1>2. CASE clientUp /\ conn = "open"
    <2>1. toClient' = toClient \o segs
      BY <1>2 DEF SendBuffer
    <2>2. clients = 1
      BY <1>2 DEF IInv, ServedInv, BufferType
    <2>3. /\ toClient' \in Seq(Segments)
          /\ Len(toClient') = Len(toClient) + Len(segs)
          /\ \A i \in 1..(Len(toClient) + Len(segs)) :
               toClient'[i] = IF i <= Len(toClient)
                              THEN toClient[i] ELSE segs[i - Len(toClient)]
      BY ONLY <1>1, <2>1, ConcatProperties, segs \in Seq(Segments)
    <2>4. Len(toClient) \in Nat /\ Len(segs) \in Nat
      BY <1>1
    <2> QED BY ONLY <1>2, <2>2, <2>3, <2>4
  <1>3. CASE ~(clientUp /\ conn = "open")
    BY <1>1, <1>3 DEF SendBuffer
  <1> QED BY <1>2, <1>3

\* A good-bye is no reply and no event: what is true of the replies and events
\* on their way stays true.
LEMMA GoodBye ==
  ASSUME IInv,
         \/ UNCHANGED toClient
         \/ SendBuffer(<<Quit>>)
         \/ SendBuffer(<<>>)
  PROVE  /\ toClient' \in Seq(Segments)
         /\ toClient' = toClient \/ (clientUp /\ clients = 1)
         /\ \A i \in 1..Len(toClient') :
              \/ i \in 1..Len(toClient) /\ toClient'[i] = toClient[i]
              \/ toClient'[i] = Quit
  <1>1. toClient \in Seq(Segments)
    BY DEF IInv, BufferType
  <1>2. Quit \in Segments /\ <<Quit>> \in Seq(Segments) /\ <<Quit>>[1] = Quit
        /\ Len(<<Quit>>) = 1 /\ <<>> \in Seq(Segments) /\ Len(<<>>) = 0
    BY DEF Quit, Segment, Segments
  <1>3. CASE UNCHANGED toClient
    BY <1>1, <1>3
  <1>4. CASE SendBuffer(<<Quit>>)
    <2>1. /\ toClient' \in Seq(Segments)
          /\ \/ toClient' = toClient
             \/ clientUp /\ clients = 1
          /\ \A i \in 1..Len(toClient) : toClient'[i] = toClient[i]
          /\ \A i \in 1..Len(toClient') :
               \/ i \in 1..Len(toClient)
               \/ /\ i - Len(toClient) \in 1..Len(<<Quit>>)
                  /\ toClient'[i] = <<Quit>>[i - Len(toClient)]
      BY ONLY IInv, <1>2, <1>4, Sending
    <2>2. \A i \in 1..Len(<<Quit>>) : <<Quit>>[i] = Quit
      BY ONLY <1>2
    <2> QED BY ONLY <2>1, <2>2
  <1>5. CASE SendBuffer(<<>>)
    <2>1. toClient' = toClient \o <<>> \/ toClient' = toClient
      BY <1>5 DEF SendBuffer
    <2>2. toClient' = toClient
      BY ONLY <1>1, <2>1, ConcatEmptySeq
    <2> QED BY ONLY <1>1, <2>2
  <1> QED BY <1>3, <1>4, <1>5

\* The server passes nothing on but a good-bye, and handles no command but
\* perhaps one that it does not reply to.
LEMMA StillReplied ==
  ASSUME IInv,
         \/ UNCHANGED toClient
         \/ SendBuffer(<<Quit>>)
         \/ SendBuffer(<<>>),
         handled \in Nat, handled' \in Nat, handled <= handled',
         UNCHANGED <<clientVars, sent>>
  PROVE  /\ RepliesAwaited'
         /\ clientUp /\ clients = 1 =>
              /\ \A i \in 1..Len(toClient') :
                   toClient'[i].kind = "EV" => Entered(toClient'[i].n)
              /\ FirstIs("EV") => Entered(Head(readbuffer).n)
         /\ \A n : Entered(n)' <=> Entered(n)
  <1> USE DEF IInv
  <1>1. \A i \in 1..Len(toClient') :
          \/ i \in 1..Len(toClient) /\ toClient'[i] = toClient[i]
          \/ toClient'[i] = Quit
    BY GoodBye
  <1>2. Quit.kind # "RE" /\ Quit.kind # "EV"
    BY DEF Quit, Segment
  <1>3. \A n : (Awaited(n)' <=> Awaited(n)) /\ (Entered(n)' <=> Entered(n))
    BY DEF Awaited, Entered, Known
  <1>4. FirstIs("RE")' <=> FirstIs("RE")
    BY DEF FirstIs
  <1>5. \A i \in 1..Len(toClient') :
          IsReply(i)' => /\ i \in 1..Len(toClient) /\ IsReply(i)
                         /\ toClient'[i] = toClient[i]
    BY <1>1, <1>2 DEF IsReply
  <1>6. RepliesAwaited'
    <2> SUFFICES ASSUME clientUp PROVE RepliesAwaited'
      BY DEF RepliesAwaited
    <2>1. \A i \in 1..Len(toClient') : IsReply(i)' =>
            /\ Awaited(toClient'[i].n)
            /\ toClient'[i].n = toClient[i].n /\ toClient[i].n <= handled
      BY <1>5 DEF RepliesAwaited
    <2>2. \A m \in Int : m <= handled => m <= handled'
      OBVIOUS
    <2>3. \A i \in 1..Len(toClient) : toClient[i].n \in Int
      <3>1. \A i \in 1..Len(toClient) : toClient[i] \in Segments
        BY DEF BufferType
      <3> QED BY ONLY <3>1 DEF Segments
    <2>4. /\ FirstIs("RE")' => /\ Awaited(Head(readbuffer).n)
                               /\ Head(readbuffer).n <= handled
                               /\ \A i \in 1..Len(toClient') : ~IsReply(i)'
          /\ \A i, j \in 1..Len(toClient') :
               IsReply(i)' /\ IsReply(j)' => i = j
      BY <1>4, <1>5 DEF RepliesAwaited
    <2>5. FirstIs("RE") => Head(readbuffer).n \in Int
      <3>1. FirstIs("RE") => readbuffer # <<>> /\ readbuffer \in Seq(Segments)
        BY DEF FirstIs, ReaderInv, BufferType
      <3>2. FirstIs("RE") => Head(readbuffer) \in Segments
        BY ONLY <3>1, HeadTailProperties
      <3> QED BY <3>2 DEF Segments
    <2> QED BY <1>3, <1>4, <1>5, <2>1, <2>2, <2>3, <2>4, <2>5 DEF RepliesAwaited
  <1> QED BY <1>1, <1>2, <1>3, <1>6 DEF ListenInv

\* A field that is listened to gets a new value.
LEMMA SceneEventStep ==
  ASSUME IInv, SceneEvent
  PROVE  IInv'
  <1> USE ThreadsApart, EAIAssumption DEF IInv
  <1>1. /\ UNCHANGED <<clientVars, toServer, toClient, serverUp, socketVars,
                       stage, eaiBuffer, routesToRegister, listening,
                       historyVars>>
        /\ listening # 0 /\ events' = events + 1 /\ events < MaxEvents
    BY DEF SceneEvent
  <1>2. marked' \in BOOLEAN
    BY DEF SceneEvent
  <1>3. ThreadType' /\ BufferType' /\ HistoryType'
    BY <1>1 DEF ThreadType, BufferType, HistoryType
  <1>4. ServerType'
    BY <1>1, <1>2 DEF ServerType
  <1>5. CallerInv' /\ ReaderInv' /\ DownInv' /\ ServedInv'
    BY <1>1 DEF CallerInv, ReaderInv, DownInv, ServedInv
  <1>6. NumberInv' /\ PipeInv' /\ OwnReplyInv'
    BY <1>1 DEF NumberInv, PipeInv, Waits, OwnReplyInv
  <1>7. CommandsAwaited' /\ RepliesAwaited'
    BY <1>1 DEF CommandsAwaited, RepliesAwaited, Awaited, FirstIs, IsReply
  <1>8. EnteringInv' /\ ListenInv'
    BY <1>1 DEF EnteringInv, ListenInv, Entered, Known, FirstIs
  <1> QED BY <1>3, <1>4, <1>5, <1>6, <1>7, <1>8

\* kill_oldWorld, when the server goes on.
LEMMA WorldStep ==
  ASSUME IInv, Stop, listening' = 0, marked' = FALSE, serverUp,
         UNCHANGED <<clientVars, toServer, serverUp, conn, wanted, stage,
                     eaiBuffer, routesToRegister, events, sent, handled,
                     answered, readVars>>
  PROVE  IInv'
  <1> USE ThreadsApart, EAIAssumption DEF IInv
  <1>1. /\ SendBuffer(<<Quit>>) \/ SendBuffer(<<>>)
        /\ dismissed => dismissed'
        /\ dismissed' \in BOOLEAN /\ stopped' \in BOOLEAN /\ stopped'
        /\ conn = "open" /\ ~stopped => dismissed'
        /\ conn # "open" => toClient' = toClient
    BY DEF Stop, HistoryType, SendBuffer
  <1>2. /\ toClient' \in Seq(Segments)
        /\ toClient' = toClient \/ (clientUp /\ clients = 1)
    BY GoodBye, <1>1
  <1>3. handled \in Nat /\ handled' = handled
    BY DEF HistoryType
  <1>4. RepliesAwaited'
    BY StillReplied, <1>1, <1>3
  <1>5. ThreadType' /\ CallerInv' /\ ReaderInv' /\ NumberInv' /\ OwnReplyInv'
    BY DEF ThreadType, CallerInv, ReaderInv, NumberInv, Waits, OwnReplyInv
  <1>6. BufferType' /\ HistoryType'
    BY <1>1, <1>2 DEF BufferType, HistoryType
  <1>7. ServerType'
    <2>1. marked' \in BOOLEAN
      OBVIOUS
    <2>2. listening' \in Nat
      OBVIOUS
    <2> QED BY <1>1, <2>1, <2>2 DEF ServerType
  <1>8. DownInv' /\ ServedInv'
    BY <1>1, <1>2 DEF DownInv, ServedInv
  <1>9. PipeInv'
    BY <1>1 DEF PipeInv
  <1>10. CommandsAwaited' /\ EnteringInv'
    BY DEF CommandsAwaited, Awaited, EnteringInv, Known
  <1>11. ListenInv'
    <2>1. /\ clientUp /\ clients = 1 =>
               /\ \A i \in 1..Len(toClient') :
                    toClient'[i].kind = "EV" => Entered(toClient'[i].n)
               /\ FirstIs("EV") => Entered(Head(readbuffer).n)
          /\ \A n : Entered(n)' <=> Entered(n)
      BY StillReplied, <1>1, <1>3
    <2>2. FirstIs("EV")' <=> FirstIs("EV")
      BY DEF FirstIs
    <2>3. ~marked' /\ listening' = 0
      OBVIOUS
    <2> QED BY <2>1, <2>2, <2>3 DEF ListenInv
  <1> QED BY <1>4, <1>5, <1>6, <1>7, <1>8, <1>9, <1>10, <1>11

\* The server process ends, with or without a good-bye.
LEMMA ServerEndsStep ==
  ASSUME IInv, ServerEnds, handled <= handled', handled' \in 0..Len(sent),
         UNCHANGED toClient \/ SendBuffer(<<Quit>>)
  PROVE  IInv'
  <1> USE ThreadsApart, EAIAssumption DEF IInv
  <1>1. /\ conn' = "none" /\ stage' = "events"
        /\ toServer' = <<>> /\ eaiBuffer' = <<>>
        /\ routesToRegister' = <<>> /\ listening' = 0
        /\ UNCHANGED <<clientVars, events, sent, answered, readVars>>
    BY DEF ServerEnds
  <1>2. /\ ~serverUp' /\ ~wanted' /\ stopped' /\ ~marked' /\ dismissed'
        /\ serverUp' \in BOOLEAN /\ wanted' \in BOOLEAN /\ stopped' \in BOOLEAN
        /\ marked' \in BOOLEAN /\ dismissed' \in BOOLEAN
    BY DEF ServerEnds
  <1>3. /\ toClient' \in Seq(Segments)
        /\ toClient' = toClient \/ (clientUp /\ clients = 1)
    BY GoodBye
  <1>4. handled \in Nat /\ handled' \in Nat /\ Len(sent) \in Nat
    BY DEF HistoryType
  <1>5. RepliesAwaited'
    BY StillReplied, <1>1, <1>4
  <1>6. ThreadType' /\ CallerInv' /\ ReaderInv' /\ NumberInv' /\ OwnReplyInv'
    BY <1>1
    DEF ThreadType, CallerInv, ReaderInv, NumberInv, Waits, OwnReplyInv
  <1>7. BufferType' /\ HistoryType'
    BY <1>1, <1>2, <1>3 DEF BufferType, HistoryType
  <1>8. ServerType'
    <2>1. events \in 0..MaxEvents
      BY DEF ServerType
    <2> QED BY ONLY <1>1, <1>2, <2>1, EmptySeq DEF ServerType
  <1>9. DownInv' /\ ServedInv'
    BY <1>1, <1>2, <1>3 DEF DownInv, ServedInv
  <1>10. PipeInv' /\ CommandsAwaited'
    <2>1. 1..Len(toServer') = {} /\ 1..Len(eaiBuffer') = {}
          /\ Len(toServer') = 0 /\ Len(eaiBuffer') = 0
      BY ONLY <1>1, EmptySeq
    <2> QED BY ONLY <1>1, <1>2, <1>4, <2>1, handled' \in 0..Len(sent)
            DEF PipeInv, CommandsAwaited
  <1>11. EnteringInv'
    BY <1>1 DEF EnteringInv, Known
  <1>12. ListenInv'
    <2>1. /\ clientUp /\ clients = 1 =>
               /\ \A i \in 1..Len(toClient') :
                    toClient'[i].kind = "EV" => Entered(toClient'[i].n)
               /\ FirstIs("EV") => Entered(Head(readbuffer).n)
          /\ \A n : Entered(n)' <=> Entered(n)
      BY StillReplied, <1>1, <1>4
    <2>2. FirstIs("EV")' <=> FirstIs("EV")
      BY <1>1 DEF FirstIs
    <2>3. /\ 1..Len(toServer') = {} /\ 1..Len(eaiBuffer') = {}
          /\ 1..Len(routesToRegister') = {}
      BY ONLY <1>1, EmptySeq
    <2> QED BY <1>1, <1>2, <2>1, <2>2, <2>3 DEF ListenInv
  <1> QED BY <1>5, <1>6, <1>7, <1>8, <1>9, <1>10, <1>11, <1>12

\* do_first and propagate_events: the routes that wait are entered, and the
\* client hears of the field that is marked.
LEMMA PropagateStep ==
  ASSUME IInv, Propagate
  PROVE  IInv'
  <1> USE ThreadsApart, EAIAssumption DEF IInv
  <1>1. /\ serverUp /\ stage = "events" /\ stage' = "eai"
        /\ \/ /\ routesToRegister # <<>> /\ routesToRegister' = <<>>
              /\ listening' = IF listening = 0 THEN Head(routesToRegister)
                                               ELSE listening
           \/ UNCHANGED <<routesToRegister, listening>>
        /\ UNCHANGED <<clientVars, toServer, serverUp, socketVars, eaiBuffer,
                       events, historyVars>>
    BY DEF Propagate
  <1>2. ~marked' /\ marked' \in BOOLEAN
    BY DEF Propagate
  <1>3. routesToRegister \in Seq(Nat) /\ Len(routesToRegister) \in Nat
        /\ listening \in Nat /\ toClient \in Seq(Segments)
    BY DEF ServerType, BufferType
  <1>4. routesToRegister # <<>> =>
          /\ 1 \in 1..Len(routesToRegister)
          /\ Head(routesToRegister) = routesToRegister[1]
          /\ Head(routesToRegister) \in Nat
    BY <1>3
  <1>5. routesToRegister' \in Seq(Nat) /\ listening' \in Nat
    BY ONLY <1>1, <1>3, <1>4, EmptySeq
  <1>6. /\ toClient' \in Seq(Segments)
        /\ toClient' = toClient \/ (clientUp /\ conn = "open" /\ clients = 1)
        /\ \A i \in 1..Len(toClient') :
             \/ i \in 1..Len(toClient) /\ toClient'[i] = toClient[i]
             \/ /\ clientUp /\ marked
                /\ toClient'[i] = Segment("EV", listening)
    <2>1. CASE marked
      <3>1. /\ <<Segment("EV", listening)>> \in Seq(Segments)
            /\ Len(<<Segment("EV", listening)>>) = 1
            /\ <<Segment("EV", listening)>>[1] = Segment("EV", listening)
        BY <1>3 DEF Segment, Segments
      <3>2. SendBuffer(<<Segment("EV", listening)>>)
        BY <2>1 DEF Propagate
      <3>3. /\ toClient' \in Seq(Segments) /\ Len(toClient) \in Nat
            /\ \/ toClient' = toClient
               \/ clientUp /\ conn = "open" /\ clients = 1
            /\ \A i \in 1..Len(toClient) : toClient'[i] = toClient[i]
            /\ \A i \in 1..Len(toClient') :
                 \/ i \in 1..Len(toClient)
                 \/ /\ clientUp
                    /\ i - Len(toClient) \in 1..1
                    /\ toClient'[i]
                         = <<Segment("EV", listening)>>[i - Len(toClient)]
        BY ONLY IInv, <3>1, <3>2, Sending
      <3>4. \A k : k \in 1..1 => k = 1
        OBVIOUS
      <3> QED BY ONLY <2>1, <3>1, <3>3, <3>4
    <2>2. CASE ~marked
      <3>1. SendBuffer(<<>>)
        BY <2>2 DEF Propagate
      <3>2. toClient' = toClient \o <<>> \/ toClient' = toClient
        BY ONLY <3>1 DEF SendBuffer
      <3>3. toClient' = toClient
        BY ONLY <1>3, <3>2, ConcatEmptySeq
      <3> QED BY ONLY <1>3, <3>3
    <2> QED BY ONLY <2>1, <2>2, ServerType DEF ServerType
  <1>7. ThreadType' /\ HistoryType'
    BY <1>1 DEF ThreadType, HistoryType
  <1>8. BufferType'
    BY <1>1, <1>6 DEF BufferType
  <1>9. ServerType'
    BY <1>1, <1>2, <1>5 DEF ServerType
  <1>10. CallerInv' /\ ReaderInv' /\ NumberInv' /\ OwnReplyInv' /\ PipeInv'
    BY <1>1 DEF CallerInv, ReaderInv, NumberInv, Waits, OwnReplyInv, PipeInv
  <1>11. DownInv' /\ ServedInv'
    BY <1>1, <1>6 DEF DownInv, ServedInv
  <1>12. \A n : (Awaited(n)' <=> Awaited(n)) /\ (Entered(n)' <=> Entered(n))
    BY <1>1 DEF Awaited, Entered, Known
  <1>13. CommandsAwaited' /\ EnteringInv'
    BY <1>1, <1>12 DEF CommandsAwaited, EnteringInv, Known
  <1>14. RepliesAwaited'
    <2>1. \A i \in 1..Len(toClient') :
            IsReply(i)' => /\ i \in 1..Len(toClient) /\ IsReply(i)
                           /\ toClient'[i] = toClient[i]
      BY <1>6 DEF IsReply, Segment
    <2>2. (FirstIs("RE")' <=> FirstIs("RE"))
          /\ handled' = handled /\ clientUp' = clientUp
          /\ readbuffer' = readbuffer
      BY <1>1 DEF FirstIs
    <2> QED BY <1>12, <2>1, <2>2 DEF RepliesAwaited
  <1>15. ListenInv'
    <2> SUFFICES ASSUME clientUp, clients = 1 PROVE ListenInv'
      BY <1>1 DEF ListenInv
    <2>1. (FirstIs("EV")' <=> FirstIs("EV")) /\ toServer' = toServer
          /\ readbuffer' = readbuffer /\ eaiBuffer' = eaiBuffer
      BY <1>1 DEF FirstIs
    <2>2. \A i \in 1..Len(toClient') :
            toClient'[i].kind = "EV" => Entered(toClient'[i].n)
      <3>1. /\ marked => Entered(listening)
            /\ \A i \in 1..Len(toClient) :
                 toClient[i].kind = "EV" => Entered(toClient[i].n)
        BY DEF ListenInv
      <3>2. Segment("EV", listening).n = listening
        BY DEF Segment
      <3> QED BY ONLY <1>6, <3>1, <3>2
    <2>3. /\ \A i \in 1..Len(routesToRegister') : Entered(routesToRegister'[i])
          /\ listening' # 0 => Entered(listening')
      <3>1. /\ \A i \in 1..Len(routesToRegister) : Entered(routesToRegister[i])
            /\ listening # 0 => Entered(listening)
        BY DEF ListenInv
      <3>2. routesToRegister # <<>> => Entered(Head(routesToRegister))
        BY ONLY <1>4, <3>1
      <3> QED BY ONLY <1>1, <3>1, <3>2, EmptySeq
    <2> QED BY <1>2, <1>12, <2>1, <2>2, <2>3 DEF ListenInv
  <1> QED BY <1>7, <1>8, <1>9, <1>10, <1>11, <1>13, <1>14, <1>15

\* Nothing passes, and nothing is handled: the server accepts its client, or
\* has nothing to do.
LEMMA IdleStep ==
  ASSUME IInv, serverUp, stage \in {"events", "eai"},
         stage' \in {"events", "eai"},
         \/ conn' = conn
         \/ conn = "backlog" /\ wanted /\ conn' = "open" /\ ~stopped',
         stopped' \in BOOLEAN, stopped' => stopped,
         UNCHANGED <<clientVars, toServer, toClient, serverUp, wanted,
                     eaiBuffer, sceneVars, historyVars>>
  PROVE  IInv'
  <1> USE ThreadsApart, EAIAssumption DEF IInv
  <1>1. ThreadType' /\ BufferType' /\ HistoryType' /\ ServerType'
    BY DEF ThreadType, BufferType, HistoryType, ServerType
  <1>2. CallerInv' /\ ReaderInv' /\ DownInv' /\ ServedInv'
    BY DEF CallerInv, ReaderInv, DownInv, ServedInv
  <1>3. NumberInv' /\ PipeInv' /\ OwnReplyInv'
    BY DEF NumberInv, PipeInv, Waits, OwnReplyInv
  <1>4. CommandsAwaited' /\ RepliesAwaited'
    BY DEF CommandsAwaited, RepliesAwaited, Awaited, FirstIs, IsReply
  <1>5. EnteringInv' /\ ListenInv'
    BY DEF EnteringInv, ListenInv, Entered, Known, FirstIs
  <1> QED BY <1>1, <1>2, <1>3, <1>4, <1>5

\* privSocketRead hands over what was written, and forgets a client that has
\* gone.
LEMMA ReadSocketStep ==
  ASSUME IInv, serverUp, stage = "eai", ReadSocket
  PROVE  IInv'
  <1> USE ThreadsApart, EAIAssumption DEF IInv
  <1>0. \/ clientUp /\ conn' = "open" /\ wanted' /\ (stopped' => stopped)
        \/ ~clientUp /\ conn' = "none" /\ ~wanted'
    BY DEF ReadSocket
  <1>1. /\ conn = "open" /\ wanted
        /\ toServer' = <<>> /\ eaiBuffer' = toServer
        /\ stage' = IF toServer = <<>> THEN "events" ELSE "commands"
        /\ UNCHANGED <<clientVars, serverUp, toClient, sceneVars, historyVars>>
    BY DEF ReadSocket
  <1>2. wanted' \in BOOLEAN /\ stopped' \in BOOLEAN /\ conn' \in {"none", "open"}
    BY DEF ReadSocket, ServerType
  <1>3. eaiBuffer = <<>> /\ toServer \in Seq(Command)
    BY DEF ServerType
  <1>4. ThreadType' /\ BufferType' /\ HistoryType'
    BY <1>1 DEF ThreadType, BufferType, HistoryType
  <1>5. ServerType'
    BY <1>1, <1>2, <1>3 DEF ServerType
  <1>6. CallerInv' /\ ReaderInv'
    BY <1>1 DEF CallerInv, ReaderInv
  <1>11. DownInv' /\ ServedInv'
    BY <1>0, <1>1 DEF DownInv, ServedInv
  <1>7. NumberInv' /\ OwnReplyInv'
    BY <1>1 DEF NumberInv, Waits, OwnReplyInv
  <1>8. PipeInv'
    <2>1. /\ Len(eaiBuffer) = 0 /\ Len(toServer) \in Nat /\ Len(sent) \in Nat
          /\ Len(toServer') = 0 /\ Len(eaiBuffer') = Len(toServer)
          /\ handled \in Nat
      BY <1>1, <1>3 DEF HistoryType
    <2> QED BY <1>1, <2>1 DEF PipeInv
  <1>9. CommandsAwaited' /\ RepliesAwaited'
    BY <1>1 DEF CommandsAwaited, RepliesAwaited, Awaited, FirstIs, IsReply
  <1>10. EnteringInv' /\ ListenInv'
    BY <1>1 DEF EnteringInv, ListenInv, Entered, Known, FirstIs
  <1> QED BY <1>4, <1>5, <1>6, <1>7, <1>8, <1>9, <1>10, <1>11

\* fwl_EAI_handleBuffer refuses what was written and tells the client to quit.
LEMMA RefuseStep ==
  ASSUME IInv, serverUp, stage = "eai", RefuseBuffer
  PROVE  IInv'
  <1> USE ThreadsApart, EAIAssumption DEF IInv
  <1>1. /\ conn = "open" /\ wanted /\ toServer' = <<>> /\ stage' = "events"
        /\ \/ clientUp /\ conn' = "open" /\ wanted'
           \/ ~clientUp /\ conn' = "none" /\ ~wanted'
        /\ UNCHANGED <<clientVars, serverUp, eaiBuffer, sceneVars, sent,
                       handled, answered, readVars>>
        /\ \/ UNCHANGED toClient
           \/ SendBuffer(<<Quit>>)
           \/ SendBuffer(<<>>)
    BY DEF RefuseBuffer, Stop
  <1>2. /\ wanted' \in BOOLEAN /\ stopped' \in BOOLEAN
        /\ dismissed' \in BOOLEAN /\ conn' \in {"none", "open"}
        /\ dismissed => dismissed'
        /\ conn' = "open" => dismissed'
    <2>1. CASE clientUp
      <3>1. wanted' \in BOOLEAN /\ conn' = "open"
        BY <2>1 DEF RefuseBuffer, ServerType
      <3>2. /\ dismissed' = (dismissed \/ (conn = "open" /\ ~stopped))
            /\ stopped' \in BOOLEAN
        BY <2>1 DEF RefuseBuffer, Stop
      <3>3. stopped => dismissed
        BY <1>1 DEF ServedInv
      <3>4. /\ dismissed' \in BOOLEAN /\ dismissed'
        BY ONLY <1>1, <3>2, <3>3
      <3> QED BY ONLY <3>1, <3>2, <3>4
    <2>2. CASE ~clientUp
      <3>1. wanted' \in BOOLEAN /\ stopped' \in BOOLEAN /\ conn' = "none"
        BY <2>2 DEF RefuseBuffer
      <3>2. dismissed' = dismissed
        BY <2>2 DEF RefuseBuffer
      <3>3. dismissed' \in BOOLEAN
        BY <3>2 DEF HistoryType
      <3> QED BY ONLY <3>1, <3>2, <3>3
    <2> QED BY <2>1, <2>2
  <1>3. eaiBuffer = <<>> /\ handled \in Nat /\ handled' = handled
    BY <1>1 DEF ServerType, HistoryType
  <1>4. /\ toClient' \in Seq(Segments)
        /\ toClient' = toClient \/ (clientUp /\ clients = 1)
    BY GoodBye, <1>1
  <1>5. ThreadType'
    BY <1>1 DEF ThreadType
  <1>6. BufferType'
    BY <1>1, <1>4 DEF BufferType
  <1>14. HistoryType'
    BY <1>1, <1>2 DEF HistoryType
  <1>7. ServerType'
    BY <1>1, <1>2, <1>3, EmptySeq DEF ServerType
  <1>8. CallerInv' /\ ReaderInv' /\ NumberInv' /\ OwnReplyInv'
    BY <1>1 DEF CallerInv, ReaderInv, NumberInv, Waits, OwnReplyInv
  <1>9. DownInv'
    BY <1>1, <1>2, <1>3, <1>4 DEF DownInv
  <1>15. ServedInv'
    BY <1>1, <1>2, <1>4 DEF ServedInv
  <1>10. PipeInv'
    <2>1. /\ Len(eaiBuffer') = 0 /\ Len(toServer') = 0 /\ eaiBuffer' = <<>>
          /\ handled' \in 0..Len(sent') /\ Len(sent') \in Nat
      BY <1>1, <1>3 DEF HistoryType
    <2>2. 1..Len(eaiBuffer') = {} /\ 1..Len(toServer') = {}
      BY <2>1
    <2>3. handled' + Len(eaiBuffer') + Len(toServer') <= Len(sent')
      BY ONLY <2>1
    <2>4. conn' # "none" \/ eaiBuffer' # <<>> => dismissed'
      BY ONLY <1>2, <2>1
    <2> QED BY ONLY <2>2, <2>3, <2>4 DEF PipeInv
  <1>11. CommandsAwaited' /\ EnteringInv'
    BY <1>1, <1>3 DEF CommandsAwaited, EnteringInv, Known
  <1>12. RepliesAwaited'
    BY StillReplied, <1>1, <1>3
  <1>13. ListenInv'
    <2>1. /\ clientUp /\ clients = 1 =>
               /\ \A i \in 1..Len(toClient') :
                    toClient'[i].kind = "EV" => Entered(toClient'[i].n)
               /\ FirstIs("EV") => Entered(Head(readbuffer).n)
          /\ \A n : Entered(n)' <=> Entered(n)
      BY StillReplied, <1>1, <1>3
    <2>2. FirstIs("EV")' <=> FirstIs("EV")
      BY <1>1 DEF FirstIs
    <2> QED BY <1>1, <1>3, <2>1, <2>2 DEF ListenInv
  <1> QED BY <1>5, <1>6, <1>7, <1>8, <1>9, <1>10, <1>11, <1>12, <1>13,
             <1>14, <1>15

\* EAI_core_commands handles the first command that is left and, if the
\* command is no STOPFREEWRL, goes on.
LEMMA HandleStep ==
  ASSUME IInv, HandleCommand, Head(eaiBuffer).cmd # "stop"
  PROVE  IInv'
  <1> DEFINE c == Head(eaiBuffer)
  <1> USE ThreadsApart, EAIAssumption DEF IInv
  <1>1. /\ serverUp /\ stage = "commands" /\ handled' = c.n
        /\ eaiBuffer' = Tail(eaiBuffer)
        /\ stage' = IF eaiBuffer' = <<>> THEN "events" ELSE "commands"
        /\ UNCHANGED <<clientVars, toServer, serverUp, socketVars, listening,
                       events, sent, dismissed, readVars>>
    BY DEF HandleCommand, Rest
  <1>2. /\ eaiBuffer \in Seq(Command) /\ eaiBuffer # <<>>
        /\ toServer \in Seq(Command)
    BY <1>1 DEF ServerType
  <1>3. /\ c = eaiBuffer[1] /\ c \in Command /\ 1 \in 1..Len(eaiBuffer)
        /\ eaiBuffer' \in Seq(Command)
        /\ Len(eaiBuffer) \in Nat /\ Len(eaiBuffer') = Len(eaiBuffer) - 1
        /\ \A i \in 1..Len(eaiBuffer') :
             eaiBuffer'[i] = eaiBuffer[i + 1] /\ i + 1 \in 1..Len(eaiBuffer)
    <2>1. /\ eaiBuffer' \in Seq(Command) /\ c \in Command
          /\ Len(eaiBuffer') = Len(eaiBuffer) - 1
          /\ \A i \in 1..Len(eaiBuffer') : eaiBuffer'[i] = eaiBuffer[i + 1]
      BY ONLY <1>1, <1>2, HeadTailProperties
    <2>2. Len(eaiBuffer) \in Nat /\ Len(eaiBuffer) # 0 /\ c = eaiBuffer[1]
      BY ONLY <1>2
    <2>3. \A i \in 1..Len(eaiBuffer') : i + 1 \in 1..Len(eaiBuffer)
      BY ONLY <2>1, <2>2
    <2> QED BY ONLY <2>1, <2>2, <2>3
  <1>4. /\ c.n > handled /\ c.n \in 1..Len(sent) /\ handled \in Nat
        /\ Len(sent) \in Nat /\ c.cmd \in Commands \ {"stop"}
        /\ Len(toServer) \in Nat
    <2>1. c.n > handled /\ c.n \in 1..Len(sent)
      BY ONLY <1>3, IInv, Ahead
    <2>2. handled \in Nat /\ Len(sent) \in Nat /\ Len(toServer) \in Nat
      BY <1>2 DEF HistoryType
    <2>3. c.cmd \in Commands
      BY <1>3 DEF Command
    <2> QED BY <2>1, <2>2, <2>3
  <1>5. \/ /\ c.cmd = "event" /\ marked' \in {marked, listening # 0}
           /\ UNCHANGED <<toClient, answered, routesToRegister>>
        \/ /\ c.cmd \in {"query", "listen"}
           /\ \E r \in Reply(c) : SendBuffer(r)
           /\ answered' = Append(answered, c.n)
           /\ routesToRegister' =
                IF c.cmd = "listen" THEN Append(routesToRegister, c.n)
                                    ELSE routesToRegister
           /\ UNCHANGED marked
    BY <1>4 DEF HandleCommand, Commands
  <1> HIDE DEF c
  <1>6. /\ \A i \in 1..Len(toServer) :
             /\ toServer[i].n = Len(sent) - Len(toServer) + i
             /\ sent[toServer[i].n].wants = Wants(toServer[i].cmd)
        /\ \A i \in 1..Len(eaiBuffer) :
             /\ eaiBuffer[i].n = Len(sent) - Len(toServer) - Len(eaiBuffer) + i
             /\ sent[eaiBuffer[i].n].wants = Wants(eaiBuffer[i].cmd)
    BY DEF PipeInv
  <1>7. PipeInv'
    <2>1. handled' + Len(eaiBuffer') + Len(toServer') = Len(sent')
      <3>1. c.n = Len(sent) - Len(toServer) - Len(eaiBuffer) + 1
        BY ONLY <1>3, <1>6
      <3> QED BY ONLY <1>1, <1>3, <1>4, <3>1
    <2>2. ASSUME NEW i \in 1..Len(eaiBuffer')
          PROVE  eaiBuffer'[i].n
                   = Len(sent) - Len(toServer) - Len(eaiBuffer') + i
      <3>1. eaiBuffer'[i] = eaiBuffer[i + 1] /\ i + 1 \in 1..Len(eaiBuffer)
        BY ONLY <1>3, <2>2
      <3>2. eaiBuffer[i + 1].n
              = Len(sent) - Len(toServer) - Len(eaiBuffer) + (i + 1)
        BY ONLY <1>6, <3>1
      <3>3. eaiBuffer'[i].n
              = Len(sent) - Len(toServer) - Len(eaiBuffer) + (i + 1)
        BY ONLY <3>1, <3>2
      <3> QED BY ONLY <1>3, <1>4, <2>2, <3>3
    <2>3. \A i \in 1..Len(eaiBuffer') :
            sent[eaiBuffer'[i].n].wants = Wants(eaiBuffer'[i].cmd)
      BY ONLY <1>3, <1>6
    <2>4. handled' + Len(eaiBuffer') + Len(toServer') <= Len(sent')
      BY ONLY <1>1, <1>4, <2>1
    <2>5. sent' = sent /\ toServer' = toServer
      BY <1>1
    <2> QED BY ONLY <1>6, <2>1, <2>2, <2>3, <2>4, <2>5 DEF PipeInv
  <1>8. ThreadType' /\ CallerInv' /\ ReaderInv' /\ NumberInv' /\ OwnReplyInv'
    BY <1>1
    DEF ThreadType, CallerInv, ReaderInv, NumberInv, Waits, OwnReplyInv
  <1>9. \A n : (Awaited(n)' <=> Awaited(n)) /\ (Entered(n)' <=> Entered(n))
    BY <1>1 DEF Awaited, Entered, Known
  <1>10. CommandsAwaited' /\ EnteringInv'
    <2>1. clientUp => \A i \in 1..Len(eaiBuffer') :
            Wants(eaiBuffer'[i].cmd) => Awaited(eaiBuffer'[i].n)
      BY <1>3 DEF CommandsAwaited
    <2> QED BY <1>1, <1>9, <2>1 DEF CommandsAwaited, EnteringInv, Known
  <1>11. \A r \in Reply(c) :
           /\ r \in Seq(Segments) /\ Len(r) \in Nat
           /\ \A i \in 1..Len(r) : \/ i = 1 /\ r[i] = Segment("RE", c.n)
                                   \/ r[i] = Segment("more", 0)
    <2>1. Segment("RE", c.n) \in Segments /\ Segment("more", 0) \in Segments
      BY <1>4 DEF Segment, Segments
    <2> DEFINE re == Segment("RE", c.n)
               more == Segment("more", 0)
    <2> HIDE DEF re, more
    <2>2. re \in Segments /\ more \in Segments
      BY <2>1 DEF re, more
    <2>3. \A r \in Reply(c) : r = <<re>> \/ r = <<re, more>>
      BY DEF Reply, re, more
    <2>4. \A r : r = <<re>> \/ r = <<re, more>> =>
            /\ r \in Seq(Segments) /\ Len(r) \in Nat
            /\ \A i \in 1..Len(r) : (i = 1 /\ r[i] = re) \/ r[i] = more
      <3>1. /\ <<re>> \in Seq(Segments) /\ Len(<<re>>) = 1 /\ <<re>>[1] = re
            /\ \A i \in 1..1 : i = 1
        BY ONLY <2>2
      <3>2. /\ <<re, more>> \in Seq(Segments) /\ Len(<<re, more>>) = 2
            /\ <<re, more>>[1] = re /\ <<re, more>>[2] = more
            /\ \A i \in 1..2 : i = 1 \/ i = 2
        BY ONLY <2>2
      <3> QED BY ONLY <3>1, <3>2
    <2> QED BY ONLY <2>3, <2>4 DEF re, more
  <1>12. /\ toClient' \in Seq(Segments) /\ Len(toClient) \in Nat
         /\ toClient' = toClient \/ (clientUp /\ conn = "open" /\ clients = 1)
         /\ \A i \in 1..Len(toClient') :
              \/ i \in 1..Len(toClient) /\ toClient'[i] = toClient[i]
              \/ /\ clientUp /\ c.cmd \in {"query", "listen"}
                 /\ \/ /\ i = Len(toClient) + 1
                       /\ toClient'[i] = Segment("RE", c.n)
                    \/ toClient'[i] = Segment("more", 0)
    <2>1. CASE UNCHANGED toClient
      BY <2>1 DEF BufferType
    <2>2. CASE c.cmd \in {"query", "listen"} /\ \E r \in Reply(c) : SendBuffer(r)
      <3>1. PICK r \in Reply(c) : SendBuffer(r)
        BY <2>2
      <3>2. r \in Seq(Segments)
        BY <1>11
      <3>3. /\ toClient' \in Seq(Segments)
            /\ Len(toClient) \in Nat /\ Len(r) \in Nat
            /\ \/ toClient' = toClient
               \/ clientUp /\ conn = "open" /\ clients = 1
            /\ \A i \in 1..Len(toClient) : toClient'[i] = toClient[i]
            /\ \A i \in 1..Len(toClient') :
                 \/ i \in 1..Len(toClient)
                 \/ /\ clientUp
                    /\ i - Len(toClient) \in 1..Len(r)
                    /\ toClient'[i] = r[i - Len(toClient)]
        BY ONLY IInv, <3>1, <3>2, Sending
      <3>4. \A i \in 1..Len(r) : \/ i = 1 /\ r[i] = Segment("RE", c.n)
                                 \/ r[i] = Segment("more", 0)
        BY <1>11
      <3> QED BY ONLY <2>2, <3>3, <3>4
    <2> QED BY ONLY <1>5, <2>1, <2>2
  <1>13. BufferType' /\ DownInv' /\ ServedInv'
    <2>1. BufferType'
      BY <1>1, <1>12 DEF BufferType
    <2>2. DownInv'
      BY <1>1, <1>12 DEF DownInv
    <2>3. ServedInv'
      BY <1>1, <1>12 DEF ServedInv
    <2> QED BY <2>1, <2>2, <2>3
  <1>14. ServerType'
    <2>1. routesToRegister' \in Seq(Nat)
      <3>1. routesToRegister \in Seq(Nat)
        BY DEF ServerType
      <3>2. Append(routesToRegister, c.n) \in Seq(Nat)
        BY ONLY <1>4, <3>1
      <3> QED BY ONLY <1>5, <3>1, <3>2
    <2>2. marked' \in BOOLEAN
      BY <1>5 DEF ServerType
    <2>3. stage' = "commands" <=> eaiBuffer' # <<>>
      BY <1>1
    <2> QED BY <1>1, <1>3, <2>1, <2>2, <2>3 DEF ServerType
  <1>15. HistoryType'
    <2>1. answered' \in Seq(1..Len(sent))
      <3>1. answered \in Seq(1..Len(sent))
        BY DEF HistoryType
      <3>2. Append(answered, c.n) \in Seq(1..Len(sent))
        BY ONLY <1>4, <3>1
      <3> QED BY ONLY <1>5, <3>1, <3>2
    <2> QED BY <1>1, <1>4, <2>1 DEF HistoryType
  <1>16. RepliesAwaited'
    <2> SUFFICES ASSUME clientUp PROVE RepliesAwaited'
      BY <1>1 DEF RepliesAwaited
    <2>1. clientUp' = clientUp /\ readbuffer' = readbuffer /\ handled' = c.n
          /\ (FirstIs("RE")' <=> FirstIs("RE"))
      BY <1>1 DEF FirstIs
    <2>2. c.cmd \in {"query", "listen"} => Awaited(c.n)
      BY <1>3 DEF CommandsAwaited, Wants
    <2>3. /\ \A i \in 1..Len(toClient) :
               IsReply(i) => Awaited(toClient[i].n) /\ toClient[i].n <= handled
          /\ \A i, j \in 1..Len(toClient) : IsReply(i) /\ IsReply(j) => i = j
          /\ FirstIs("RE") =>
               /\ Awaited(Head(readbuffer).n)
               /\ Head(readbuffer).n <= handled
               /\ \A i \in 1..Len(toClient) : ~IsReply(i)
      BY DEF RepliesAwaited
    <2>4. Awaited(c.n) => \A n : Awaited(n) => n = c.n
      BY ONLY IInv, clientUp, Holder
    <2>5. c.cmd \in {"query", "listen"} =>
            /\ \A i \in 1..Len(toClient) : ~IsReply(i)
            /\ ~FirstIs("RE")
      BY ONLY <1>4, <2>2, <2>3, <2>4
    <2>6. \A i \in 1..Len(toClient') : IsReply(i)' =>
            \/ /\ i \in 1..Len(toClient) /\ IsReply(i)
               /\ toClient'[i] = toClient[i]
            \/ /\ c.cmd \in {"query", "listen"} /\ i = Len(toClient) + 1
               /\ toClient'[i].n = c.n
      BY <1>12 DEF IsReply, Segment
    <2>7. \A n : n <= handled /\ Awaited(n) => n <= c.n
      <3>1. \A n : Awaited(n) => n = Len(sent)
        BY ONLY IInv, clientUp, Holder
      <3> QED BY ONLY <1>4, <3>1
    <2>8. /\ \A i \in 1..Len(toClient') : IsReply(i)' =>
               Awaited(toClient'[i].n) /\ toClient'[i].n <= c.n
          /\ \A i, j \in 1..Len(toClient') :
               IsReply(i)' /\ IsReply(j)' => i = j
          /\ FirstIs("RE") =>
               /\ Awaited(Head(readbuffer).n)
               /\ Head(readbuffer).n <= c.n
               /\ \A i \in 1..Len(toClient') : ~IsReply(i)'
      BY ONLY <1>4, <2>2, <2>3, <2>5, <2>6, <2>7
    <2> QED BY <1>9, <2>1, <2>8 DEF RepliesAwaited
  <1>17. ListenInv'
    <2> SUFFICES ASSUME clientUp, clients = 1 PROVE ListenInv'
      BY <1>1 DEF ListenInv
    <2>1. /\ \A i \in 1..Len(toServer) :
               toServer[i].cmd = "listen" => Entered(toServer[i].n)
          /\ \A i \in 1..Len(eaiBuffer) :
               eaiBuffer[i].cmd = "listen" => Entered(eaiBuffer[i].n)
          /\ \A i \in 1..Len(routesToRegister) : Entered(routesToRegister[i])
          /\ listening = 0 => ~marked
          /\ listening # 0 => Entered(listening)
          /\ \A i \in 1..Len(toClient) :
               toClient[i].kind = "EV" => Entered(toClient[i].n)
          /\ FirstIs("EV") => Entered(Head(readbuffer).n)
      BY DEF ListenInv
    <2>2. \A i \in 1..Len(toClient') :
            toClient'[i].kind = "EV" => Entered(toClient'[i].n)
      BY <1>12, <2>1 DEF Segment
    <2>3. \A i \in 1..Len(eaiBuffer') :
            eaiBuffer'[i].cmd = "listen" => Entered(eaiBuffer'[i].n)
      BY ONLY <1>3, <2>1
    <2>4. \A i \in 1..Len(routesToRegister') : Entered(routesToRegister'[i])
      <3>1. c.cmd = "listen" => Entered(c.n)
        BY ONLY <1>3, <2>1
      <3>2. CASE routesToRegister' = routesToRegister
        BY ONLY <2>1, <3>2
      <3>3. CASE routesToRegister' = Append(routesToRegister, c.n)
                 /\ c.cmd = "listen"
        <4>1. routesToRegister \in Seq(Nat) /\ c.n \in Nat
          BY <1>4 DEF ServerType
        <4>2. /\ Len(routesToRegister) \in Nat
              /\ Len(routesToRegister') = Len(routesToRegister) + 1
              /\ \A i \in 1..Len(routesToRegister) :
                   routesToRegister'[i] = routesToRegister[i]
              /\ routesToRegister'[Len(routesToRegister) + 1] = c.n
          BY ONLY <3>3, <4>1, Appended
        <4> QED BY ONLY <2>1, <3>1, <3>3, <4>2
      <3> QED BY <1>5, <3>2, <3>3
    <2>5. listening = 0 => ~marked'
      BY <1>5, <2>1
    <2>6. listening' = listening /\ toServer' = toServer
          /\ readbuffer' = readbuffer /\ (FirstIs("EV")' <=> FirstIs("EV"))
      BY <1>1 DEF FirstIs
    <2> QED BY <1>9, <2>1, <2>2, <2>3, <2>4, <2>5, <2>6 DEF ListenInv
  <1> QED BY <1>7, <1>8, <1>10, <1>13, <1>14, <1>15, <1>16, <1>17

-----------------------------------------------------------------------------
(* The invariant, action by action. *)

\* What one thread of the client does.
LEMMA InCommandStep ==
  ASSUME IInv, NEW t \in Threads, InCommand(t)
  PROVE  IInv'
  <1>1. CASE Lock(t)
    BY <1>1, LockStep
  <1>2. CASE Write(t)
    <2>1. CASE Exit
      BY <2>1, ExitStep
    <2>2. CASE ~Exit
      BY <1>2, <2>2, WriteStep DEF Write
    <2> QED BY <2>1, <2>2
  <1>3. CASE ClearReceived(t)
    BY <1>3, ClearStep
  <1>4. CASE TakeReply(t)
    <2>1. CASE Exit
      BY <2>1, ExitStep
    <2>2. CASE ~Exit
      BY <1>4, <2>2, TakeStep DEF TakeReply
    <2> QED BY <2>1, <2>2
  <1>5. CASE Unlock(t)
    BY <1>5, UnlockStep
  <1>6. CASE UseReply(t)
    BY <1>6, UseStep
  <1> QED BY <1>1, <1>2, <1>3, <1>4, <1>5, <1>6 DEF InCommand

LEMMA ReadThreadStep ==
  ASSUME IInv, ReadThread
  PROVE  IInv'
  <1>1. CASE Read
    BY <1>1, ReadStep
  <1>2. CASE ReadFails
    BY <1>2, ExitStep DEF ReadFails
  <1>3. CASE Dispatch
    <2>1. CASE Exit
      BY <2>1, ExitStep
    <2>2. CASE ~Exit
      BY <1>3, <2>2, DispatchStep DEF Dispatch
    <2> QED BY <2>1, <2>2
  <1>4. CASE Handler
    BY <1>4, HandlerStep
  <1>5. CASE InCommand(Reader)
    BY <1>5, InCommandStep, ThreadsApart
  <1> QED BY <1>1, <1>2, <1>3, <1>4, <1>5 DEF ReadThread

\* The server ends in four places, and may have taken a command.
LEMMA Ending ==
  ASSUME IInv
  PROVE  /\ StopFaults => IInv'
         /\ ServerQuit => IInv'
         /\ HandleCommand /\ Head(eaiBuffer).cmd = "stop" =>
              IInv' /\ ServerEnds
  <1>1. handled \in Nat /\ Len(sent) \in Nat /\ handled \in 0..Len(sent)
    BY DEF IInv, HistoryType
  <1>2. ASSUME StopFaults
        PROVE  IInv'
    BY <1>1, <1>2, ServerEndsStep DEF StopFaults
  <1>3. ASSUME ServerQuit
        PROVE  IInv'
    BY <1>1, <1>3, ServerEndsStep DEF ServerQuit, DoQuit
  <1>4. ASSUME HandleCommand, Head(eaiBuffer).cmd = "stop"
        PROVE  IInv' /\ ServerEnds
    <2>1. handled' = Head(eaiBuffer).n /\ stage = "commands" /\ DoQuit
      BY <1>4 DEF HandleCommand
    <2>2. eaiBuffer \in Seq(Command) /\ eaiBuffer # <<>>
      BY <2>1 DEF IInv, ServerType
    <2>3. Head(eaiBuffer) = eaiBuffer[1] /\ 1 \in 1..Len(eaiBuffer)
      BY ONLY <2>2
    <2>4. handled <= handled' /\ handled' \in 0..Len(sent)
      <3>1. handled' > handled /\ handled' \in 1..Len(sent)
        BY ONLY <2>1, <2>3, IInv, Ahead
      <3> QED BY ONLY <1>1, <3>1
    <2> QED BY <2>1, <2>4, ServerEndsStep DEF DoQuit
  <1> QED BY <1>2, <1>3, <1>4

\* What the server does once per frame.
LEMMA ServerStep ==
  ASSUME IInv,
         \/ SceneEvent \/ WorldReplaced \/ ServerQuit
         \/ Propagate \/ Refresh \/ HandleCommand
  PROVE  IInv'
  <1>1. CASE SceneEvent
    BY <1>1, SceneEventStep
  <1>2. CASE WorldReplaced
    <2>1. CASE StopFaults
      BY <2>1, Ending
    <2>2. CASE ~StopFaults
      BY <1>2, <2>2, WorldStep DEF WorldReplaced
    <2> QED BY <2>1, <2>2
  <1>3. CASE ServerQuit
    BY <1>3, Ending
  <1>4. CASE Propagate
    BY <1>4, PropagateStep
  <1>5. CASE Refresh
    <2>1. serverUp /\ stage = "eai"
      BY <1>5 DEF Refresh
    <2>2. CASE Accept
      BY <2>1, <2>2, IdleStep DEF Accept
    <2>3. CASE NothingToDo
      <3>1. stopped' \in BOOLEAN /\ (stopped' => stopped)
        BY <2>3 DEF NothingToDo
      <3> QED BY <2>1, <2>3, <3>1, IdleStep DEF NothingToDo
    <2>4. CASE ReadSocket
      BY <2>1, <2>4, ReadSocketStep
    <2>5. CASE RefuseBuffer
      BY <2>1, <2>5, RefuseStep
    <2>6. CASE StopFaults
      BY <2>6, Ending
    <2> QED BY <1>5, <2>2, <2>3, <2>4, <2>5, <2>6 DEF Refresh
  <1>6. CASE HandleCommand
    BY <1>6, HandleStep, Ending
  <1> QED BY <1>1, <1>2, <1>3, <1>4, <1>5, <1>6

\* Every step keeps the invariant.
LEMMA NextIInv == IInv /\ [Next]_vars => IInv'
  <1> SUFFICES ASSUME IInv, [Next]_vars PROVE IInv'
    OBVIOUS
  <1>1. ASSUME NEW t \in Callers, NEW k \in Commands, Call(t, k)
        PROVE  IInv'
    BY <1>1, CallStep
  <1>2. ASSUME NEW t \in Callers, InCommand(t)
        PROVE  IInv'
    BY <1>2, InCommandStep, ThreadsApart
  <1>3. CASE ReadThread
    BY <1>3, ReadThreadStep
  <1>4. CASE ClientExit
    BY <1>4, ExitStep DEF ClientExit
  <1>5. CASE NewClient
    BY <1>5, NewClientStep
  <1>6. CASE \/ SceneEvent \/ WorldReplaced \/ ServerQuit
             \/ Propagate \/ Refresh \/ HandleCommand
    BY <1>6, ServerStep
  <1>7. CASE UNCHANGED vars
    <2>1. ThreadType' /\ BufferType' /\ ServerType' /\ HistoryType'
      BY <1>7 DEF IInv, ThreadType, BufferType, ServerType, HistoryType
    <2>2. CallerInv' /\ ReaderInv' /\ DownInv' /\ ServedInv'
      BY <1>7 DEF IInv, CallerInv, ReaderInv, DownInv, ServedInv
    <2>3. NumberInv' /\ PipeInv' /\ OwnReplyInv'
      BY <1>7 DEF IInv, NumberInv, PipeInv, Waits, OwnReplyInv
    <2>4. CommandsAwaited' /\ RepliesAwaited'
      BY <1>7
      DEF IInv, CommandsAwaited, RepliesAwaited, Awaited, FirstIs, IsReply
    <2>5. EnteringInv' /\ ListenInv'
      BY <1>7 DEF IInv, EnteringInv, ListenInv, Entered, Known, FirstIs
    <2> QED BY <2>1, <2>2, <2>3, <2>4, <2>5 DEF IInv
  <1> QED BY <1>1, <1>2, <1>3, <1>4, <1>5, <1>6, <1>7 DEF Next

\* The inductive invariant holds in every state of the interface.
THEOREM Invariance == Spec => []IInv
  BY InitIInv, NextIInv, PTL DEF Spec

\* Every variable of the interface keeps its type, and eailock is held by the
\* thread that is in a command.
THEOREM TypeCorrect == Spec => []TypeOK
  <1>1. IInv => TypeOK
    BY DEF IInv, ThreadType, BufferType, ServerType, HistoryType, Command,
           TypeOK
  <1> QED BY <1>1, Invariance, PTL

\* A caller never takes the reply to another command for its own, however many
\* threads call the library (sendToFreeWRL only warns about such a reply).
THEOREM OwnReply == Spec => []NeverAnothersReply
  <1>1. IInv => NeverAnothersReply
    BY DEF IInv, OwnReplyInv, NeverAnothersReply
  <1> QED BY <1>1, Invariance, PTL

\* An event that reaches the client has a listener, unless another thread's
\* command came between X3DAdvise's number and its command.
THEOREM ListenersFound == Spec => []EventFindsListener
  <1>1. IInv => EventFindsListener
    <2> SUFFICES ASSUME IInv, FirstIs("EV")
                 PROVE  Entered(Head(readbuffer).n)
      BY DEF EventFindsListener, FirstIs, Entered
    <2>1. clientUp /\ readbuffer # <<>>
      BY Busy DEF FirstIs, IInv, ReaderInv
    <2>2. clients = 1
      BY <2>1 DEF IInv, ServedInv, BufferType
    <2> QED BY <2>1, <2>2 DEF IInv, ListenInv
  <1> QED BY <1>1, Invariance, PTL

-----------------------------------------------------------------------------
(* The interface implements the service. *)

\* What the service knows of the commands.
Asked == [n \in DOMAIN sent |-> sent[n].wants]

LEMMA AskedIsSeq ==
  ASSUME IInv
  PROVE  /\ Asked \in Seq(BOOLEAN)
         /\ Len(Asked) = Len(sent) /\ Len(sent) \in Nat
         /\ \A n \in 1..Len(sent) : Asked[n] = sent[n].wants
  <1>1. sent \in Seq([by : Threads, wants : BOOLEAN])
    BY DEF IInv, HistoryType
  <1>2. /\ Len(sent) \in Nat /\ DOMAIN sent = 1..Len(sent)
        /\ \A n \in 1..Len(sent) : sent[n] \in [by : Threads, wants : BOOLEAN]
    BY ONLY <1>1, LenProperties, ElementOfSeq
  <1>3. \A n \in 1..Len(sent) : sent[n].wants \in BOOLEAN
    BY ONLY <1>2
  <1>4. Asked \in [1..Len(sent) -> BOOLEAN]
    BY ONLY <1>2, <1>3 DEF Asked
  <1>5. Asked \in Seq(BOOLEAN)
    BY ONLY <1>2, <1>4, SeqDef
  <1>6. Len(Asked) = Len(sent)
    BY ONLY <1>2, <1>4, <1>5
  <1>7. \A n \in 1..Len(sent) : Asked[n] = sent[n].wants
    BY ONLY <1>2 DEF Asked
  <1> QED BY <1>2, <1>5, <1>6, <1>7

\* A command that is written is asked.
LEMMA Asking ==
  ASSUME IInv, NEW t \in Threads, NEW wants \in BOOLEAN,
         sent' = Append(sent, [by |-> t, wants |-> wants])
  PROVE  Asked' = Append(Asked, wants)
  <1> DEFINE s == [by |-> t, wants |-> wants]
  <1>1. s \in [by : Threads, wants : BOOLEAN] /\ s.wants = wants
    OBVIOUS
  <1>2. sent \in Seq([by : Threads, wants : BOOLEAN]) /\ sent' = Append(sent, s)
    BY DEF IInv, HistoryType
  <1> HIDE DEF s
  <1>3. /\ Len(sent) \in Nat /\ DOMAIN sent' = 1..(Len(sent) + 1)
        /\ \A n \in 1..Len(sent) : sent'[n] = sent[n]
        /\ sent'[Len(sent) + 1] = s
    BY ONLY <1>1, <1>2, Appended
  <1>4. /\ Asked \in Seq(BOOLEAN) /\ Len(Asked) = Len(sent)
        /\ \A n \in 1..Len(sent) : Asked[n] = sent[n].wants
    BY AskedIsSeq
  <1>5. /\ Append(Asked, wants) \in Seq(BOOLEAN)
        /\ DOMAIN Append(Asked, wants) = 1..(Len(sent) + 1)
        /\ \A n \in 1..Len(sent) : Append(Asked, wants)[n] = Asked[n]
        /\ Append(Asked, wants)[Len(sent) + 1] = wants
    <2>1. wants \in BOOLEAN
      OBVIOUS
    <2> QED BY ONLY <1>4, <2>1, Appended
  <1>6. Asked' = [n \in 1..(Len(sent) + 1) |-> sent'[n].wants]
    BY ONLY <1>3 DEF Asked
  <1>7. \A n \in 1..(Len(sent) + 1) : sent'[n].wants = Append(Asked, wants)[n]
    <2>1. \A n \in 1..(Len(sent) + 1) : n \in 1..Len(sent) \/ n = Len(sent) + 1
      BY ONLY <1>3
    <2> QED BY ONLY <1>1, <1>3, <1>4, <1>5, <2>1
  <1>8. Append(Asked, wants)
          = [n \in 1..(Len(sent) + 1) |-> Append(Asked, wants)[n]]
    <2> DEFINE a == Append(Asked, wants)
    <2>1. a \in Seq(BOOLEAN) /\ DOMAIN a = 1..(Len(sent) + 1)
      BY ONLY <1>5
    <2> HIDE DEF a
    <2>2. a \in [1..Len(a) -> BOOLEAN]
      BY ONLY <2>1, LenProperties
    <2>3. a = [n \in DOMAIN a |-> a[n]]
      BY ONLY <2>2
    <2> QED BY ONLY <2>1, <2>3 DEF a
  <1> QED BY ONLY <1>6, <1>7, <1>8

\* Steps that ask and answer nothing, and perhaps tell the client to quit.
LEMMA Quietly ==
  ASSUME IInv, sent' = sent, answered' = answered,
         \/ handled' = handled /\ dismissed' = dismissed
         \/ /\ dismissed' = TRUE
            /\ handled' \in handled..Len(sent)
            /\ handled' > handled + 1 => dismissed
  PROVE  [Service!Next]_(Service!vars)
  <1>1. Asked' = Asked /\ Len(Asked) = Len(sent)
    BY AskedIsSeq DEF Asked
  <1>2. CASE handled' = handled /\ dismissed' = dismissed
    BY <1>1, <1>2 DEF Service!vars, Asked
  <1>3. CASE /\ dismissed' = TRUE
             /\ handled' \in handled..Len(sent)
             /\ handled' > handled + 1 => dismissed
    BY <1>1, <1>3 DEF Service!Next, Service!Dismiss, Asked
  <1> QED BY <1>2, <1>3

\* HandleCommand takes the next command, or one behind those the client lost
\* when it was told to quit.
LEMMA InOrder ==
  ASSUME IInv, HandleCommand
  PROVE  /\ handled' \in (handled + 1)..Len(sent)
         /\ handled' # handled + 1 => dismissed
         /\ handled' = Head(eaiBuffer).n
         /\ sent[handled'].wants = Wants(Head(eaiBuffer).cmd)
  <1>1. handled' = Head(eaiBuffer).n /\ stage = "commands"
    BY DEF HandleCommand
  <1>2. eaiBuffer \in Seq(Command) /\ eaiBuffer # <<>> /\ handled \in Nat
        /\ Len(sent) \in Nat /\ Len(toServer) \in Nat
    BY <1>1 DEF IInv, ServerType, HistoryType
  <1>3. /\ Head(eaiBuffer) = eaiBuffer[1] /\ 1 \in 1..Len(eaiBuffer)
        /\ Len(eaiBuffer) \in Nat
    BY ONLY <1>2
  <1>4. handled' > handled /\ handled' \in 1..Len(sent)
    BY ONLY <1>1, <1>3, IInv, Ahead
  <1>5. /\ eaiBuffer[1].n = Len(sent) - Len(toServer) - Len(eaiBuffer) + 1
        /\ sent[eaiBuffer[1].n].wants = Wants(eaiBuffer[1].cmd)
    BY <1>3 DEF IInv, PipeInv
  <1>6. ~dismissed => handled + Len(eaiBuffer) + Len(toServer) = Len(sent)
    BY <1>2 DEF IInv, PipeInv
  <1>7. ~dismissed => handled' = handled + 1
    BY ONLY <1>1, <1>2, <1>3, <1>5, <1>6
  <1>8. handled' \in (handled + 1)..Len(sent)
    BY ONLY <1>2, <1>4
  <1> QED BY ONLY <1>1, <1>3, <1>5, <1>7, <1>8

\* ... and replies if a reply is wanted.
LEMMA Serving ==
  ASSUME IInv, HandleCommand
  PROVE  [Service!Next]_(Service!vars)
  <1> DEFINE c == Head(eaiBuffer)
  <1>1. /\ handled' \in (handled + 1)..Len(sent)
        /\ handled' # handled + 1 => dismissed
        /\ handled' = c.n
        /\ sent[handled'].wants = Wants(c.cmd)
    BY InOrder
  <1>2. handled \in Nat /\ Len(sent) \in Nat
    BY DEF IInv, HistoryType
  <1> HIDE DEF c
  <1>3. CASE c.cmd = "stop"
    <2>1. ServerEnds
      BY <1>3, Ending DEF c
    <2>2. sent' = sent /\ answered' = answered /\ dismissed' = TRUE
      BY <2>1 DEF ServerEnds
    <2>3. /\ handled' \in handled..Len(sent)
          /\ handled' > handled + 1 => dismissed
      BY ONLY <1>1, <1>2
    <2> QED BY <2>2, <2>3, Quietly
  <1>4. CASE c.cmd # "stop"
    <2>1. /\ sent' = sent /\ dismissed' = dismissed
          /\ \/ c.cmd = "event" /\ answered' = answered
             \/ c.cmd # "event" /\ answered' = Append(answered, c.n)
      BY <1>4 DEF HandleCommand, c
    <2>2. c.cmd \in Commands
      <3>1. eaiBuffer \in Seq(Command) /\ eaiBuffer # <<>>
        BY DEF IInv, ServerType, HandleCommand
      <3>2. c \in Command
        BY ONLY <3>1 DEF c
      <3> QED BY ONLY <3>2 DEF Command
    <2>3. Asked' = Asked /\ Len(Asked) = Len(sent)
          /\ Asked[handled'] = Wants(c.cmd)
      <3>1. handled' \in 1..Len(sent)
        BY ONLY <1>1, <1>2
      <3>2. Asked[handled'] = sent[handled'].wants /\ Len(Asked) = Len(sent)
        BY <3>1, AskedIsSeq
      <3> QED BY <1>1, <2>1, <3>2 DEF Asked
    <2>4. answered' = IF Asked[handled'] THEN Append(answered, handled')
                                         ELSE answered
      <3>1. CASE c.cmd = "event"
        BY ONLY <2>1, <2>3, <3>1 DEF Wants
      <3>2. CASE c.cmd # "event"
        <4>1. Wants(c.cmd)
          BY ONLY <1>4, <2>2, <3>2 DEF Commands, Wants
        <4> QED BY ONLY <1>1, <2>1, <2>3, <3>2, <4>1
      <3> QED BY <3>1, <3>2
    <2> QED BY ONLY <1>1, <2>1, <2>3, <2>4 DEF Service!Next, Service!Serve, Asked
  <1> QED BY <1>3, <1>4

\* What the threads of the client do.
LEMMA ClientRefines ==
  ASSUME IInv,
         \/ \E t \in Callers, k \in Commands : Call(t, k)
         \/ \E t \in Threads : InCommand(t)
         \/ ReadThread \/ ClientExit \/ NewClient
  PROVE  [Service!Next]_(Service!vars)
  <1>1. ASSUME sent' = sent, handled' = handled, answered' = answered,
               dismissed' = dismissed
        PROVE  [Service!Next]_(Service!vars)
    BY <1>1, Quietly
  <1>2. CASE Exit
    BY <1>1, <1>2 DEF Exit
  <1>3. ASSUME NEW t \in Callers, NEW k \in Commands, Call(t, k)
        PROVE  [Service!Next]_(Service!vars)
    BY <1>1, <1>3 DEF Call
  <1>4. ASSUME NEW t \in Threads, InCommand(t), ~Exit
        PROVE  [Service!Next]_(Service!vars)
    <2>1. CASE Write(t)
      <3>1. /\ sent' = Append(sent, [by |-> t, wants |-> Wants(cmd[t])])
            /\ UNCHANGED serviceVars
        BY <1>4, <2>1 DEF Write
      <3>2. Wants(cmd[t]) \in BOOLEAN
        BY DEF Wants
      <3>3. Asked' = Append(Asked, Wants(cmd[t]))
        BY <3>1, <3>2, Asking
      <3> QED BY <3>1, <3>2, <3>3
              DEF Service!Next, Service!Ask, Asked, serviceVars
    <2>2. CASE Lock(t) \/ ClearReceived(t) \/ TakeReply(t) \/ Unlock(t)
               \/ UseReply(t)
      BY <1>1, <1>4, <2>2
      DEF Lock, ClearReceived, TakeReply, Unlock, UseReply
    <2> QED BY <1>4, <2>1, <2>2 DEF InCommand
  <1>5. CASE ReadThread
    <2>1. CASE InCommand(Reader)
      BY <1>2, <1>4, <2>1, ThreadsApart
    <2>2. CASE Read \/ ReadFails \/ Dispatch \/ Handler
      BY <1>1, <1>2, <2>2 DEF Read, ReadFails, Dispatch, Handler
    <2> QED BY <1>5, <2>1, <2>2 DEF ReadThread
  <1>6. CASE ClientExit
    BY <1>2, <1>6 DEF ClientExit
  <1>7. CASE NewClient
    <2>1. /\ sent' = <<>> /\ handled' = 0 /\ answered' = <<>>
          /\ dismissed' = FALSE
      BY <1>7 DEF NewClient
    <2>2. Asked' = <<>>
      BY <2>1 DEF Asked
    <2> QED BY <2>1, <2>2 DEF Service!Next, Service!NewClient, Asked
  <1> QED BY <1>2, <1>3, <1>4, <1>5, <1>6, <1>7

\* What the server does.
LEMMA ServerRefines ==
  ASSUME IInv,
         \/ SceneEvent \/ WorldReplaced \/ ServerQuit
         \/ Propagate \/ Refresh \/ HandleCommand
  PROVE  [Service!Next]_(Service!vars)
  <1>1. handled \in handled..Len(sent) /\ ~(handled > handled + 1)
    BY DEF IInv, HistoryType
  <1>2. ASSUME sent' = sent, handled' = handled, answered' = answered,
               dismissed' = TRUE \/ dismissed' = dismissed
        PROVE  [Service!Next]_(Service!vars)
    BY <1>1, <1>2, Quietly
  <1>3. Stop => dismissed' = TRUE \/ dismissed' = dismissed
    BY DEF Stop, IInv, HistoryType
  <1>4. CASE StopFaults \/ ServerQuit
    BY <1>2, <1>4 DEF StopFaults, ServerQuit, DoQuit, ServerEnds
  <1>5. CASE SceneEvent \/ Propagate
    BY <1>2, <1>5 DEF SceneEvent, Propagate
  <1>6. CASE WorldReplaced
    BY <1>2, <1>3, <1>4, <1>6 DEF WorldReplaced
  <1>7. CASE Refresh
    BY <1>2, <1>3, <1>4, <1>7
    DEF Refresh, Accept, NothingToDo, ReadSocket, RefuseBuffer
  <1>8. CASE HandleCommand
    BY <1>8, Serving
  <1> QED BY <1>4, <1>5, <1>6, <1>7, <1>8

\* The server takes the commands of each client in the order of their numbers
\* and replies to each that wants it, once, whatever the threads of the client
\* do, however many events pass and whoever ends first.
THEOREM Refinement == Spec => ImplementsService
  <1>1. Init => Service!Init
    <2> SUFFICES ASSUME Init PROVE Service!Init
      OBVIOUS
    <2>1. sent = <<>> /\ handled = 0 /\ answered = <<>>
      BY DEF Init
    <2>2. dismissed = FALSE
      BY DEF Init
    <2>3. Asked = <<>>
      BY ONLY <2>1 DEF Asked
    <2> QED BY <2>1, <2>2, <2>3 DEF Service!Init, Asked
  <1>2. IInv /\ [Next]_vars => [Service!Next]_(Service!vars)
    <2> SUFFICES ASSUME IInv, [Next]_vars
                 PROVE  [Service!Next]_(Service!vars)
      OBVIOUS
    <2>1. CASE UNCHANGED vars
      BY <2>1, Quietly
    <2>2. CASE \/ \E t \in Callers, k \in Commands : Call(t, k)
               \/ \E t \in Callers : InCommand(t)
               \/ ReadThread \/ ClientExit \/ NewClient
      BY <2>2, ClientRefines, ThreadsApart
    <2>3. CASE \/ SceneEvent \/ WorldReplaced \/ ServerQuit
               \/ Propagate \/ Refresh \/ HandleCommand
      BY <2>3, ServerRefines
    <2> QED BY <2>1, <2>2, <2>3 DEF Next
  <1> QED BY <1>1, <1>2, Invariance, PTL
          DEF Spec, Service!Spec, ImplementsService
=============================================================================
