------------------------ MODULE ParserHandoffProofs -------------------------
(***************************************************************************)
(* Proofs about ParserHandoff, for any number of clients and calls.        *)
(***************************************************************************)
EXTENDS ParserHandoff, TLAPS

-----------------------------------------------------------------------------
(* Every step of the ladder leaves a record that is a Resource, for any    *)
(* number of urls.                                                         *)

\* A new record is a resource.
LEMMA NewResourceItemType == NewResourceItem \in Resource
  BY UrlsAssumption DEF NewResourceItem, Resource, Types, Statuses, Media

\* resource_create_multi makes a resource.
LEMMA CreateMultiType ==
  ASSUME NEW m \in CreateMulti
  PROVE  m \in Resource
  <1>1. PICK n \in MinUrls..MaxUrls :
          m = [NewResourceItem EXCEPT !.type = "multi", !.urls = n]
    BY DEF CreateMulti
  <1>2. n \in 0..MaxUrls
    BY UrlsAssumption
  <1> HIDE UrlsAssumption
  <1> QED BY <1>1, <1>2, NewResourceItemType DEF Resource, Types

\* resource_identify leaves a resource, whatever the base and the url.
LEMMA IdentifyType ==
  ASSUME NEW r \in Resource, NEW x \in Identify(r)
  PROVE  x \in Resource
  <1>1. CASE r.type = "multi" /\ r.urls = 0
    BY <1>1 DEF Identify
  <1>2. CASE ~(r.type = "multi" /\ r.urls = 0)
    <2> DEFINE n == IF r.type = "multi" THEN r.urls - 1 ELSE r.urls
    <2>1. n \in 0..MaxUrls
      BY <1>2, UrlsAssumption DEF Resource
    <2> HIDE DEF n
    <2>2. \A t \in {"url", "file"} :
            [r EXCEPT !.type = t, !.status = "starts_good", !.urls = n]
              \in Resource
      BY <2>1 DEF Resource, Types, Statuses
    <2>3. [r EXCEPT !.type = "invalid", !.urls = n] \in Resource
      BY <2>1 DEF Resource, Types
    <2>4. \/ \E t \in {"url", "file"} :
                x = [r EXCEPT !.type = t, !.status = "starts_good", !.urls = n]
          \/ x = [r EXCEPT !.type = "invalid", !.urls = n]
      BY <1>2 DEF Identify, n
    <2> QED BY <2>2, <2>3, <2>4
  <1> QED BY <1>1, <1>2

\* resource_fetch keeps the record a resource.
LEMMA FetchType ==
  ASSUME NEW r \in Resource, NEW x \in Fetch(r)
  PROVE  x \in Resource
  BY DEF Fetch, Resource, Statuses

\* resource_load keeps the record a resource.
LEMMA LoadType ==
  ASSUME NEW r \in Resource, NEW x \in Load(r)
  PROVE  x \in Resource
  <1>1. CASE r.status # "downloaded"
    BY <1>1 DEF Load
  <1>2. CASE r.status = "downloaded" /\ x = [r EXCEPT !.status = "not_loaded"]
    BY <1>2 DEF Resource, Statuses
  <1>3. CASE \E md \in {"unknown", "vrml", r.media} :
               x = [r EXCEPT !.status = "loaded", !.opened = TRUE,
                             !.media = md]
    BY <1>3 DEF Resource, Statuses, Media
  <1> QED BY <1>1, <1>2, <1>3 DEF Load

\* The last step of the ladder keeps the record a resource.
LEMMA FinishType ==
  ASSUME NEW r \in Resource
  PROVE  Finish(r) \in Resource
  <1>1. CASE r.media = "unknown"
    BY <1>1 DEF Finish, Resource, Statuses
  <1>2. CASE r.media = "vrml"
    BY <1>2 DEF Finish, ParsesTo, Resource, Statuses
  <1>3. CASE r.media = "image"
    BY <1>3 DEF Finish, Resource
  <1> QED BY <1>1, <1>2, <1>3 DEF Resource, Media

\* parser_process_res keeps the record a resource.
LEMMA ProcessResType ==
  ASSUME NEW r \in Resource, NEW out \in ProcessRes(r)
  PROVE  out.res \in Resource /\ out.remove \in BOOLEAN
  <1>1. CASE r.status = "invalid"
    <2>1. PICK x \in Identify(r) :
            out = [res |-> x, remove |-> x.type = "invalid"]
      BY <1>1 DEF ProcessRes
    <2> QED BY <2>1, IdentifyType
  <1>2. CASE r.status = "starts_good"
    <2>1. PICK x \in Fetch(r) : out = [res |-> x, remove |-> FALSE]
      BY <1>2 DEF ProcessRes
    <2> QED BY <2>1, FetchType
  <1>3. CASE r.status = "downloaded"
    <2>1. PICK x \in Load(r) :
            out = [res |-> x, remove |-> x.status # "loaded"]
      BY <1>3 DEF ProcessRes
    <2> QED BY <2>1, LoadType
  <1>4. CASE r.status = "loaded"
    <2>1. out = [res |-> Finish(r), remove |-> TRUE]
      BY <1>4 DEF ProcessRes
    <2> QED BY <2>1, FinishType
  <1>5. CASE r.status \notin {"invalid", "starts_good", "downloaded", "loaded"}
    <2>1. out = [res |-> r, remove |-> TRUE]
      BY <1>5 DEF ProcessRes
    <2> QED BY <2>1
  <1> QED BY <1>1, <1>2, <1>3, <1>4, <1>5

-----------------------------------------------------------------------------
\* What the callers create is a resource.
LEMMA CreatedType ==
  ASSUME NEW k \in Kinds, NEW x \in Created(k)
  PROVE  x \in Resource
  <1>1. NewResourceItem \in Resource
    BY NewResourceItemType
  <1>2. CreateFromString \in Resource
    BY <1>1 DEF CreateFromString, Resource, Types, Statuses, Media
  <1>3. ASSUME NEW m \in CreateMulti
        PROVE  m \in Resource
    BY CreateMultiType
  <1>4. CASE k \in {"push", "world", "kill"}
    BY <1>1, <1>4 DEF Created
  <1>5. CASE k = "string"
    BY <1>2, <1>5 DEF Created
  <1>6. CASE k = "multi"
    BY <1>3, <1>6 DEF Created
  <1>7. CASE k = "audio"
    <2>1. PICK m \in CreateMulti : x \in ValidUrlFromMulti(m)
      BY <1>7 DEF Created
    <2> DEFINE last == [m EXCEPT !.urls = IF m.urls = 0 THEN 0 ELSE 1]
    <2>2. last \in Resource
      BY <1>3, UrlsAssumption DEF Resource
    <2>3. PICK i \in Identify(last) : x \in Fetch(i)
      BY <2>1 DEF ValidUrlFromMulti
    <2> QED BY <2>2, <2>3, IdentifyType, FetchType
  <1>8. CASE k \in {"inline", "async"}
    <2>1. PICK t \in {"url", "file"} :
            x = [NewResourceItem EXCEPT !.type = t, !.status = "downloaded"]
      BY <1>8 DEF Created
    <2> QED BY <1>1, <2>1 DEF Resource, Types, Statuses
  <1> QED BY <1>4, <1>5, <1>6, <1>7, <1>8 DEF Kinds

-----------------------------------------------------------------------------
(* The inductive invariant. *)

Critical == {"test1", "send", "unlock1", "test2", "unlock2"}

\* Who is in a critical section holds mutex_resource_list, and the labels of
\* clients and parser are apart.
MutexInv ==
  /\ \A c \in Clients : /\ pc[c] \in ClientStates
                        /\ pc[c] \in Critical <=> mutex = c
  /\ pc[Parser] \in ParserStates
  /\ pc[Parser] \in {"test", "drain", "unlock"} <=> mutex = Parser

\* The flag is tested before it is set, and set while the parser drains.
FlagInv ==
  /\ ~flagWrong
  /\ \A c \in Clients : pc[c] \in {"send", "unlock2"} => lockVar = 0
  /\ pc[Parser] = "drain" => lockVar = 1

\* A client works on a call of its own that has been made.
JobInv ==
  \A c \in Clients :
    /\ job[c] # NoJob => job[c] \in JobsOf[c] /\ kind[job[c]] # "none"
    /\ pc[c] # "idle" => job[c] # NoJob

\* A client that has come back from a synchronous send.
Answered(c) ==
  \/ pc[c] \in {"unlock2", "resource_wait"}
  \/ pc[c] = "idle" /\ job[c] # NoJob /\ kind[job[c]] # "async"

AnsweredInv == \A c \in Clients : Answered(c) => ~Listed(job[c])

IInv == /\ TypeOK
        /\ MutexInv
        /\ FlagInv
        /\ OneRequestAtATime
        /\ cursor >= 1
        /\ JobInv
        /\ AnsweredInv

\* The threads are apart from one another.
LEMMA ThreadsApart ==
  /\ \A c \in Clients : c # Parser /\ c # NoThread
  /\ Parser # NoThread
  BY ClientsAssumption

\* The initial state satisfies the invariant.
LEMMA InitIInv == Init => IInv
  <1> SUFFICES ASSUME Init PROVE IInv
    OBVIOUS
  <1> USE ThreadsApart DEF Init
  <1>1. TypeOK
    <2>1. NewResourceItem \in Resource
      BY CreatedType DEF Created, Kinds
    <2>2. pc \in [Threads -> ClientStates \cup ParserStates]
      BY DEF Threads, ClientStates, ParserStates
    <2>3. res \in [Jobs -> Resource]
      BY <2>1
    <2>4. /\ job \in [Clients -> Jobs \cup {NoJob}]
          /\ kind \in [Jobs -> Kinds \cup {"none"}]
      OBVIOUS
    <2>5. list \in Seq(Jobs) /\ cursor \in Nat
      OBVIOUS
    <2> QED BY <2>2, <2>3, <2>4, <2>5 DEF TypeOK
  <1>2. MutexInv
    BY DEF MutexInv, Threads, ClientStates, ParserStates, Critical
  <1>3. FlagInv /\ OneRequestAtATime /\ cursor >= 1
    BY DEF FlagInv, OneRequestAtATime, Threads
  <1>4. JobInv
    BY DEF JobInv, Threads
  <1>5. AnsweredInv
    BY DEF AnsweredInv, Listed
  <1> QED BY <1>1, <1>2, <1>3, <1>4, <1>5 DEF IInv

\* Taking the mutex preserves the invariant, for clients and for the parser.
LEMMA LockStep ==
  ASSUME IInv,
         \/ \E c \in Clients : \/ Lock(c, "lock1", "test1")
                               \/ Reacquire(c, "wait1", "test1")
                               \/ Lock(c, "lock2", "test2")
                               \/ Reacquire(c, "wait2", "test2")
         \/ Lock(Parser, "lock", "test")
         \/ Reacquire(Parser, "wait", "test")
  PROVE  IInv'
  <1> USE ThreadsApart
  <1>1. ASSUME NEW c \in Clients,
               \/ Lock(c, "lock1", "test1")
               \/ Reacquire(c, "wait1", "test1")
               \/ Lock(c, "lock2", "test2")
               \/ Reacquire(c, "wait2", "test2")
        PROVE  IInv'
    <2> PICK from \in {"lock1", "wait1", "lock2", "wait2"},
             to \in {"test1", "test2"} : Lock(c, from, to)
      BY <1>1 DEF Reacquire
    <2> USE DEF Lock, Goto, IInv, threadVars, queueVars, callVars, sceneVars
    <2>1. TypeOK'
      BY DEF TypeOK, Threads, ClientStates
    <2>2. MutexInv'
      BY DEF MutexInv, TypeOK, Threads, ClientStates, Critical
    <2>3. FlagInv' /\ OneRequestAtATime' /\ cursor' >= 1
      BY DEF FlagInv, OneRequestAtATime, TypeOK, Threads
    <2>4. JobInv'
      BY DEF JobInv, TypeOK, Threads
    <2>5. AnsweredInv'
      BY DEF AnsweredInv, Answered, Listed, TypeOK, Threads
    <2> QED BY <2>1, <2>2, <2>3, <2>4, <2>5
  <1>2. ASSUME \/ Lock(Parser, "lock", "test")
               \/ Reacquire(Parser, "wait", "test")
        PROVE  IInv'
    <2> PICK from \in {"lock", "wait"} : Lock(Parser, from, "test")
      BY <1>2 DEF Reacquire
    <2> USE DEF Lock, Goto, IInv, threadVars, queueVars, callVars, sceneVars
    <2>1. TypeOK'
      BY DEF TypeOK, Threads, ParserStates
    <2>2. MutexInv'
      BY DEF MutexInv, TypeOK, Threads, ParserStates, Critical, ClientStates
    <2>3. FlagInv' /\ OneRequestAtATime' /\ cursor' >= 1
      BY DEF FlagInv, OneRequestAtATime, TypeOK, Threads
    <2>4. JobInv' /\ AnsweredInv'
      BY DEF JobInv, AnsweredInv, Answered, Listed, TypeOK, Threads
    <2> QED BY <2>1, <2>2, <2>3, <2>4
  <1> QED BY <1>1, <1>2

\* Testing the flag, and waiting or going on, preserves the invariant: a
\* client goes on only with the flag clear, so with an empty list.
LEMMA TestStep ==
  ASSUME IInv,
         \/ \E c \in Clients : \/ TestFlag(c, "test1", 1, "wait1", "send")
                               \/ TestFlag(c, "test2", 1, "wait2", "unlock2")
         \/ TestFlag(Parser, "test", 0, "wait", "drain")
  PROVE  IInv'
  <1> USE ThreadsApart
  <1>1. ASSUME NEW c \in Clients,
               \/ TestFlag(c, "test1", 1, "wait1", "send")
               \/ TestFlag(c, "test2", 1, "wait2", "unlock2")
        PROVE  IInv'
    <2> PICK from \in {"test1", "test2"}, to \in {"send", "unlock2"},
             asleep \in {"wait1", "wait2"} : TestFlag(c, from, 1, asleep, to)
      BY <1>1
    <2> USE DEF TestFlag, Goto, IInv, threadVars, lockVars, queueVars,
                callVars, sceneVars
    <2>1. TypeOK'
      BY DEF TypeOK, Threads, ClientStates
    <2>2. MutexInv'
      BY DEF MutexInv, TypeOK, Threads, ClientStates, Critical
    <2>3. FlagInv' /\ OneRequestAtATime' /\ cursor' >= 1
      BY DEF FlagInv, OneRequestAtATime, TypeOK, Threads
    <2>4. JobInv'
      BY DEF JobInv, TypeOK, Threads
    <2>5. AnsweredInv'
      <3>1. lockVar # 1 => \A j \in Jobs : ~Listed(j)
        BY DEF OneRequestAtATime, Listed
      <3>2. job[c] \in Jobs
        BY DEF JobInv, TypeOK
      <3>3. CASE lockVar = 1
        BY <3>3 DEF AnsweredInv, Answered, Listed, TypeOK, Threads
      <3>4. CASE lockVar # 1
        BY <3>1, <3>2, <3>4
           DEF AnsweredInv, Answered, Listed, TypeOK, Threads
      <3> QED BY <3>3, <3>4
    <2> QED BY <2>1, <2>2, <2>3, <2>4, <2>5
  <1>2. ASSUME TestFlag(Parser, "test", 0, "wait", "drain")
        PROVE  IInv'
    <2> USE <1>2 DEF TestFlag, Goto, IInv, threadVars, lockVars, queueVars,
                     callVars, sceneVars
    <2>1. TypeOK'
      BY DEF TypeOK, Threads, ParserStates
    <2>2. MutexInv'
      BY DEF MutexInv, TypeOK, Threads, ParserStates, Critical, ClientStates
    <2>3. FlagInv' /\ OneRequestAtATime' /\ cursor' >= 1
      BY DEF FlagInv, OneRequestAtATime, TypeOK, Threads
    <2>4. JobInv' /\ AnsweredInv'
      BY DEF JobInv, AnsweredInv, Answered, Listed, TypeOK, Threads
    <2> QED BY <2>1, <2>2, <2>3, <2>4
  <1> QED BY <1>1, <1>2

\* Starting a call preserves the invariant: the call is a new one.
LEMMA CallStep ==
  ASSUME IInv, NEW c \in Clients, NEW j \in JobsOf[c], NEW k \in KindsOf[c],
         Call(c, j, k)
  PROVE  IInv'
  <1> USE ThreadsApart DEF Call, Goto, IInv, threadVars, lockVars, queueVars
  <1>1. j \in Jobs /\ k \in Kinds /\ k # "none" /\ j # NoJob
    BY ClientsAssumption DEF Kinds
  <1>2. TypeOK'
    <2>1. res' \in [Jobs -> Resource]
      BY <1>1, CreatedType DEF TypeOK
    <2>2. rootRes' \in Jobs \cup {NoJob} /\ rootChildren' \subseteq Jobs
      BY <1>1 DEF TypeOK, KeptChildren
    <2> QED BY <1>1, <2>1, <2>2 DEF TypeOK, Threads, ClientStates
  <1>3. MutexInv'
    BY DEF MutexInv, TypeOK, Threads, ClientStates, Critical
  <1>4. FlagInv' /\ OneRequestAtATime' /\ cursor' >= 1
    BY DEF FlagInv, OneRequestAtATime, TypeOK, Threads
  <1>5. JobInv'
    BY <1>1 DEF JobInv, TypeOK, Threads
  <1>6. AnsweredInv'
    <2> SUFFICES ASSUME NEW d \in Clients, Answered(d)'
                 PROVE  ~Listed(job[d])'
      BY DEF AnsweredInv
    <2>1. d # c /\ pc'[d] = pc[d] /\ job'[d] = job[d]
      BY DEF Answered, TypeOK, Threads
    <2>2. job[d] # NoJob => kind'[job[d]] = kind[job[d]]
      BY <1>1 DEF JobInv, TypeOK
    <2> QED BY <2>1, <2>2 DEF AnsweredInv, Answered, Listed
  <1> QED BY <1>2, <1>3, <1>4, <1>5, <1>6

\* Appending the resource and setting the flag preserves the invariant: the
\* flag was clear, so the list was empty.
LEMMA SendStep ==
  ASSUME IInv, NEW c \in Clients, Send(c)
  PROVE  IInv'
  <1> USE ThreadsApart DEF Send, Goto, IInv, threadVars, lockVars, callVars,
                           sceneVars
  <1>1. lockVar = 0 /\ list = <<>> /\ job[c] \in JobsOf[c] /\ job[c] \in Jobs
    BY ClientsAssumption DEF FlagInv, OneRequestAtATime, JobInv, TypeOK
  <1>2. list' = <<>> \/ list' = <<job[c]>>
    BY <1>1
  <1>3. TypeOK'
    BY <1>1, <1>2 DEF TypeOK, Threads, ClientStates
  <1>4. MutexInv'
    BY DEF MutexInv, TypeOK, Threads, ClientStates, Critical
  <1>5. FlagInv' /\ OneRequestAtATime' /\ cursor' >= 1
    <2>1. \A d \in Clients : d # c => pc[d] \notin {"send", "unlock2"}
      BY DEF MutexInv, Critical
    <2> QED BY <1>1, <1>2, <2>1
            DEF FlagInv, OneRequestAtATime, TypeOK, Threads
  <1>6. JobInv'
    BY DEF JobInv, TypeOK, Threads
  <1>7. AnsweredInv'
    <2> SUFFICES ASSUME NEW d \in Clients, Answered(d)'
                 PROVE  ~Listed(job[d])'
      BY DEF AnsweredInv
    <2>1. d # c
      BY DEF Answered, TypeOK, Threads
    <2>2. job[d] # job[c]
      BY <1>1, <2>1, ClientsAssumption DEF JobInv
    <2> QED BY <1>2, <2>2 DEF Listed
  <1> QED BY <1>3, <1>4, <1>5, <1>6, <1>7

\* Signalling and unlocking preserves the invariant; an asynchronous caller
\* leaves with its resource still listed.
LEMMA UnlockStep ==
  ASSUME IInv,
         \/ \E c \in Clients : UnlockAfterSend(c) \/ UnlockAfterWait(c)
         \/ ParserUnlock
  PROVE  IInv'
  <1> USE ThreadsApart
  <1>1. ASSUME NEW c \in Clients, UnlockAfterSend(c)
        PROVE  IInv'
    <2> USE <1>1 DEF UnlockAfterSend, SignalAndUnlock, Goto, AfterSend, IInv,
                     threadVars, queueVars, callVars, sceneVars
    <2>1. TypeOK'
      BY DEF TypeOK, Threads, ClientStates
    <2>2. MutexInv'
      BY DEF MutexInv, TypeOK, Threads, ClientStates, Critical
    <2>3. FlagInv' /\ OneRequestAtATime' /\ cursor' >= 1
      BY DEF FlagInv, OneRequestAtATime, TypeOK, Threads
    <2>4. JobInv' /\ AnsweredInv'
      BY DEF JobInv, AnsweredInv, Answered, Listed, TypeOK, Threads
    <2> QED BY <2>1, <2>2, <2>3, <2>4
  <1>2. ASSUME NEW c \in Clients, UnlockAfterWait(c)
        PROVE  IInv'
    <2> USE <1>2 DEF UnlockAfterWait, SignalAndUnlock, Goto, AfterWait, IInv,
                     threadVars, queueVars, callVars, sceneVars
    <2>1. TypeOK'
      BY DEF TypeOK, Threads, ClientStates
    <2>2. MutexInv'
      BY DEF MutexInv, TypeOK, Threads, ClientStates, Critical
    <2>3. FlagInv' /\ OneRequestAtATime' /\ cursor' >= 1
      BY DEF FlagInv, OneRequestAtATime, TypeOK, Threads
    <2>4. JobInv' /\ AnsweredInv'
      BY DEF JobInv, AnsweredInv, Answered, Listed, TypeOK, Threads
    <2> QED BY <2>1, <2>2, <2>3, <2>4
  <1>3. ASSUME ParserUnlock
        PROVE  IInv'
    <2> USE <1>3 DEF ParserUnlock, SignalAndUnlock, Goto, IInv, threadVars,
                     queueVars, callVars, sceneVars
    <2>1. TypeOK'
      BY DEF TypeOK, Threads, ParserStates
    <2>2. MutexInv'
      BY DEF MutexInv, TypeOK, Threads, ParserStates, Critical, ClientStates
    <2>3. FlagInv' /\ OneRequestAtATime' /\ cursor' >= 1
      BY DEF FlagInv, OneRequestAtATime, TypeOK, Threads
    <2>4. JobInv' /\ AnsweredInv'
      BY DEF JobInv, AnsweredInv, Answered, Listed, TypeOK, Threads
    <2> QED BY <2>1, <2>2, <2>3, <2>4
  <1> QED BY <1>1, <1>2, <1>3

\* One call of parser_process_res preserves the invariant: it can only take
\* the one listed resource off the list.
LEMMA ProcessStep ==
  ASSUME IInv, ParserProcess
  PROVE  IInv'
  <1> USE DEF ParserProcess, IInv, threadVars, lockVars, callVars
  <1>1. /\ list # <<>> /\ Len(list) = 1 /\ cursor = 1
        /\ list = <<list[1]>> /\ list[1] \in Jobs
    <2>1. list \in Seq(Jobs) /\ cursor \in Nat /\ cursor >= 1
      BY DEF TypeOK
    <2>2. list # <<>> /\ Len(list) = 1 /\ cursor = 1
      BY <2>1 DEF OneRequestAtATime
    <2>3. list[1] \in Jobs
      BY <2>1, <2>2
    <2> QED BY <2>1, <2>2, <2>3
  <1>2. PICK out \in ProcessRes(res[list[1]]) :
          /\ res' = [res EXCEPT ![list[1]] = out.res]
          /\ IF out.remove
             THEN /\ list' = SubSeq(list, 1, cursor - 1)
                             \o SubSeq(list, cursor + 1, Len(list))
                  /\ UNCHANGED cursor
             ELSE cursor' = cursor + 1 /\ UNCHANGED list
          /\ IF out.res.status = "parsed"
             THEN /\ bindables' \subseteq {list[1]} \cup bindables
                  /\ rootChildren' \subseteq {list[1]} \cup rootChildren
             ELSE UNCHANGED <<bindables, rootChildren>>
    BY <1>1, ZenonT(30)
  <1>3. list' = <<>> \/ list' = list
    <2>1. SubSeq(list, 1, 0) = <<>> /\ SubSeq(list, 2, 1) = <<>>
      BY <1>1
    <2> QED BY <1>1, <1>2, <2>1
  <1>4. out.res \in Resource
    BY <1>1, <1>2, ProcessResType DEF TypeOK
  <1>5. TypeOK'
    BY <1>1, <1>2, <1>3, <1>4 DEF TypeOK
  <1>6. MutexInv' /\ FlagInv' /\ JobInv'
    BY DEF MutexInv, FlagInv, JobInv
  <1>7. OneRequestAtATime' /\ cursor' >= 1
    BY <1>1, <1>2, <1>3 DEF OneRequestAtATime
  <1>8. AnsweredInv'
    BY <1>1, <1>3 DEF AnsweredInv, Answered, Listed
  <1> QED BY <1>5, <1>6, <1>7, <1>8

\* The remaining steps touch neither the queue nor the critical sections.
LEMMA OtherStep ==
  ASSUME IInv,
         \/ \E c \in Clients : PollThreads(c) \/ ResourceWait(c)
         \/ ParserStart
         \/ ParserNextPass
         \/ DisplayInitialize
         \/ SpuriousWakeup
         \/ UNCHANGED vars
  PROVE  IInv'
  <1> USE ThreadsApart DEF IInv, threadVars, lockVars, queueVars, callVars,
                           sceneVars
  <1>1. ASSUME NEW c \in Clients, PollThreads(c) \/ ResourceWait(c)
        PROVE  IInv'
    <2> USE <1>1 DEF PollThreads, ResourceWait, Goto
    <2>1. TypeOK'
      BY DEF TypeOK, Threads, ClientStates
    <2>2. MutexInv'
      BY DEF MutexInv, TypeOK, Threads, ClientStates, Critical
    <2>3. FlagInv' /\ OneRequestAtATime' /\ cursor' >= 1
      BY DEF FlagInv, OneRequestAtATime, TypeOK, Threads
    <2>4. JobInv' /\ AnsweredInv'
      BY DEF JobInv, AnsweredInv, Answered, Listed, TypeOK, Threads
    <2> QED BY <2>1, <2>2, <2>3, <2>4
  <1>2. ASSUME ParserStart
        PROVE  IInv'
    <2> USE <1>2 DEF ParserStart, Goto
    <2>1. TypeOK'
      BY DEF TypeOK, Threads, ParserStates
    <2>2. MutexInv'
      BY DEF MutexInv, TypeOK, Threads, ParserStates, Critical, ClientStates
    <2>3. FlagInv' /\ OneRequestAtATime' /\ cursor' >= 1
      BY DEF FlagInv, OneRequestAtATime, TypeOK, Threads
    <2>4. JobInv' /\ AnsweredInv'
      BY DEF JobInv, AnsweredInv, Answered, Listed, TypeOK, Threads
    <2> QED BY <2>1, <2>2, <2>3, <2>4
  <1>3. ASSUME \/ ParserNextPass \/ DisplayInitialize \/ SpuriousWakeup
               \/ UNCHANGED vars
        PROVE  IInv'
    <2> USE <1>3 DEF ParserNextPass, DisplayInitialize, SpuriousWakeup, vars
    <2>1. TypeOK'
      <3>1. CASE ParserNextPass
        BY <3>1 DEF TypeOK
      <3>2. CASE DisplayInitialize
        BY <3>2 DEF TypeOK
      <3>3. CASE SpuriousWakeup
        BY <3>3 DEF TypeOK
      <3>4. CASE UNCHANGED vars
        BY <3>4 DEF TypeOK
      <3> QED BY <3>1, <3>2, <3>3, <3>4
    <2>2. MutexInv' /\ FlagInv' /\ OneRequestAtATime' /\ cursor' >= 1
      BY DEF MutexInv, FlagInv, OneRequestAtATime
    <2>3. JobInv' /\ AnsweredInv'
      BY DEF JobInv, AnsweredInv, Answered, Listed
    <2> QED BY <2>1, <2>2, <2>3
  <1> QED BY <1>1, <1>2, <1>3

\* Finding the list empty and clearing the flag preserves the invariant.
LEMMA FinishingStep ==
  ASSUME IInv, ParserFinishing
  PROVE  IInv'
  <1> USE ThreadsApart DEF ParserFinishing, Goto, IInv, threadVars, lockVars,
                           callVars, sceneVars
  <1>1. TypeOK'
    BY DEF TypeOK, Threads, ParserStates
  <1>2. MutexInv'
    BY DEF MutexInv, TypeOK, Threads, ParserStates, Critical, ClientStates
  <1>3. FlagInv' /\ OneRequestAtATime' /\ cursor' >= 1
    BY DEF FlagInv, OneRequestAtATime, TypeOK, Threads
  <1>4. JobInv' /\ AnsweredInv'
    BY DEF JobInv, AnsweredInv, Answered, Listed, TypeOK, Threads
  <1> QED BY <1>1, <1>2, <1>3, <1>4

\* Every step of the hand-off preserves the invariant.
LEMMA NextIInv == IInv /\ [Next]_vars => IInv'
  <1> SUFFICES ASSUME IInv, [Next]_vars PROVE IInv'
    OBVIOUS
  <1>1. ASSUME NEW c \in Clients, Client(c)
        PROVE  IInv'
    BY <1>1, CallStep, OtherStep, LockStep, TestStep, SendStep, UnlockStep
       DEF Client
  <1>2. ASSUME ParserThread
        PROVE  IInv'
    BY <1>2, OtherStep, LockStep, TestStep, ProcessStep, FinishingStep,
       UnlockStep
       DEF ParserThread
  <1> QED BY <1>1, <1>2, OtherStep DEF Next

\* The inductive invariant holds in every state of the hand-off.
THEOREM Invariance == Spec => []IInv
  BY InitIInv, NextIInv, PTL DEF Spec

\* Every variable of the hand-off keeps its type.
THEOREM TypeCorrect == Spec => []TypeOK
  BY Invariance, PTL DEF IInv

\* SEND_TO_PARSER and PARSER_FINISHING never find the flag wrong.
THEOREM FlagCorrect == Spec => []FlagNeverWrong
  <1>1. IInv => FlagNeverWrong
    BY DEF IInv, FlagInv, FlagNeverWrong
  <1> QED BY <1>1, Invariance, PTL

\* There is one request at a time, and only while the flag is set.
THEOREM OneAtATime == Spec => []OneRequestAtATime
  BY Invariance, PTL DEF IInv

\* A synchronous send returns only after its resource has left the list.
THEOREM SyncCorrect == Spec => []SyncMeansProcessed
  <1>1. IInv => SyncMeansProcessed
    BY DEF IInv, AnsweredInv, Answered, SyncMeansProcessed
  <1> QED BY <1>1, Invariance, PTL

\* After a synchronous send nothing writes the resource again: a new call
\* has a new resource, and the parser works on the list.
THEOREM ResultFinal == Spec => ResultIsFinal
  <1>1. IInv /\ [Next]_vars => [ResultKept]_vars
    <2> SUFFICES ASSUME IInv, Next, NEW c \in Clients,
                        job[c] # NoJob, kind[job[c]] # "async", ~InSend(c)
                 PROVE  res'[job[c]] = res[job[c]]
      BY DEF ResultKept
    <2>1. kind[job[c]] # "none" /\ job[c] \in Jobs
      BY ClientsAssumption DEF IInv, JobInv
    <2>2. ~Listed(job[c])
      BY DEF IInv, AnsweredInv, Answered, InSend
    <2>3. ASSUME NEW d \in Clients, NEW j \in JobsOf[d], NEW k \in KindsOf[d],
                 Call(d, j, k)
          PROVE  res'[job[c]] = res[job[c]]
      BY <2>1, <2>3 DEF Call, IInv, TypeOK
    <2>4. CASE ParserProcess
      <3>1. cursor \in 1..Len(list)
        BY <2>4 DEF ParserProcess, IInv, TypeOK
      <3>2. list[cursor] # job[c]
        BY <3>1, <2>2 DEF Listed
      <3>3. PICK out \in ProcessRes(res[list[cursor]]) :
              res' = [res EXCEPT ![list[cursor]] = out.res]
        BY <2>4, ZenonT(30) DEF ParserProcess
      <3> QED BY <3>2, <3>3, <2>1 DEF IInv, TypeOK
    <2>5. \/ UNCHANGED res
          \/ ParserProcess
          \/ \E d \in Clients : \E j \in JobsOf[d], k \in KindsOf[d] :
               Call(d, j, k)
      BY DEF Next, Client, ParserThread, PollThreads, Lock, TestFlag,
             Reacquire, Send, UnlockAfterSend, UnlockAfterWait,
             ResourceWait, ParserStart, ParserNextPass, ParserFinishing,
             ParserUnlock, DisplayInitialize, SpuriousWakeup
    <2> QED BY <2>3, <2>4, <2>5
  <1> QED BY <1>1, Invariance, PTL DEF Spec, ResultIsFinal

-----------------------------------------------------------------------------
\* Two clients never work on the same call.
LEMMA JobsApart ==
  ASSUME IInv, NEW c \in Clients, NEW d \in Clients, c # d,
         job[c] # NoJob, job[d] # NoJob
  PROVE  job[c] # job[d]
  BY ClientsAssumption DEF IInv, JobInv

-----------------------------------------------------------------------------
(* Replacing the world.  Anchor_ReplaceWorld drops the old children without *)
(* a lock, so it can only promise what it does when no other thread has a   *)
(* world of its own on its way to the parser.                               *)

ReplacesAlone ==
  \A c, d \in Clients : c # d /\ Replacing(c) => ~Rooting(d)

\* A listed resource that goes below the root is of the call of some client.
OwnerInv ==
  \A j \in Jobs :
    Listed(j) /\ kind[j] \in {"push", "world"}
      => \E d \in Clients : job[d] = j

RootInv == \A c \in Clients : Replacing(c) => rootChildren \subseteq {job[c]}

\* Only a call and the parser change what is below the root, only a call
\* changes the calls, and only a send makes the list longer.
LEMMA WhoRoots ==
  ASSUME Next
  PROVE  \/ \E c \in Clients : \E j \in JobsOf[c], k \in KindsOf[c] :
              Call(c, j, k)
         \/ ParserProcess
         \/ \E c \in Clients : Send(c) /\ UNCHANGED <<rootChildren, callVars>>
         \/ UNCHANGED <<rootChildren, callVars, list>>
  BY DEF Next, Client, ParserThread, PollThreads, Lock, TestFlag, Reacquire,
         Send, UnlockAfterSend, UnlockAfterWait, ResourceWait, ParserStart,
         ParserNextPass, ParserFinishing, ParserUnlock, DisplayInitialize,
         SpuriousWakeup, callVars, sceneVars, queueVars

\* A client leaves "idle" only with a call.
LEMMA OnlyCallsStart ==
  ASSUME IInv, Next, NEW c \in Clients, pc[c] = "idle", pc'[c] # "idle"
  PROVE  \E j \in JobsOf[c], k \in KindsOf[c] : Call(c, j, k)
  <1> DEFINE Moves(t) == pc' = pc \/ \E label : pc' = [pc EXCEPT ![t] = label]
  <1>1. pc \in [Threads -> ClientStates \cup ParserStates] /\ c \in Threads
    BY DEF IInv, TypeOK, Threads
  <1>2. ASSUME NEW d \in Clients, Client(d)
        PROVE  /\ Moves(d)
               /\ \/ pc[d] # "idle"
                  \/ \E j \in JobsOf[d], k \in KindsOf[d] : Call(d, j, k)
    BY <1>2 DEF Client, PollThreads, Lock, TestFlag, Reacquire, Goto, Call,
                Send, UnlockAfterSend, UnlockAfterWait, SignalAndUnlock,
                ResourceWait
  <1>3. ParserThread \/ DisplayInitialize \/ SpuriousWakeup => Moves(Parser)
    BY DEF ParserThread, Lock, TestFlag, Reacquire, Goto, ParserStart,
           ParserProcess, ParserNextPass, ParserFinishing, ParserUnlock,
           SignalAndUnlock, DisplayInitialize, SpuriousWakeup
  <1>4. \A t : t # c /\ Moves(t) => pc'[c] = pc[c]
    BY <1>1
  <1>5. ~(ParserThread \/ DisplayInitialize \/ SpuriousWakeup)
    BY <1>3, <1>4, ThreadsApart
  <1>6. PICK d \in Clients : Client(d)
    BY <1>5 DEF Next
  <1>7. d = c
    BY <1>2, <1>4, <1>6
  <1> QED BY <1>2, <1>6, <1>7

\* The parser leaves the list a part of what it was.
LEMMA ProcessShrinks ==
  ASSUME IInv, ParserProcess
  PROVE  /\ list[1] \in Jobs /\ Listed(list[1])
         /\ \A j : Listed(j)' => Listed(j)
         /\ \/ rootChildren' = rootChildren
            \/ /\ kind[list[1]] \in {"push", "world"}
               /\ rootChildren' = rootChildren \cup {list[1]}
  <1>1. list \in Seq(Jobs) /\ list # <<>> /\ Len(list) = 1 /\ cursor = 1
    BY DEF ParserProcess, IInv, TypeOK, OneRequestAtATime
  <1>2. list[1] \in Jobs /\ Listed(list[1]) /\ list = <<list[1]>>
    BY <1>1 DEF Listed
  <1>3. SubSeq(list, 1, 0) \o SubSeq(list, 2, 1) = <<>>
    BY <1>1
  <1>4. \/ list' = list
        \/ list' = SubSeq(list, 1, cursor - 1)
                   \o SubSeq(list, cursor + 1, Len(list))
    BY ZenonT(30) DEF ParserProcess
  <1>5. list' = list \/ list' = <<>>
    BY <1>1, <1>3, <1>4
  <1>6. \A j : Listed(j)' => Listed(j)
    BY <1>5 DEF Listed
  <1>7. \/ rootChildren' = rootChildren
        \/ /\ kind[list[cursor]] \in {"push", "world"}
           /\ rootChildren' = rootChildren \cup {list[cursor]}
    BY ZenonT(30) DEF ParserProcess
  <1> QED BY <1>1, <1>2, <1>6, <1>7

LEMMA NextOwner == IInv /\ OwnerInv /\ [Next]_vars => OwnerInv'
  <1> SUFFICES ASSUME IInv, OwnerInv, [Next]_vars,
                      NEW j \in Jobs, Listed(j)', kind'[j] \in {"push", "world"}
               PROVE  \E d \in Clients : job'[d] = j
    BY DEF OwnerInv
  <1>1. ASSUME NEW c \in Clients, NEW i \in JobsOf[c], NEW k \in KindsOf[c],
               Call(c, i, k)
        PROVE  \E d \in Clients : job'[d] = j
    <2>1. /\ job' = [job EXCEPT ![c] = i] /\ kind' = [kind EXCEPT ![i] = k]
          /\ list' = list /\ kind[i] = "none" /\ pc[c] = "idle"
      BY <1>1 DEF Call, queueVars
    <2>2. job \in [Clients -> Jobs \cup {NoJob}]
          /\ kind \in [Jobs -> Kinds \cup {"none"}]
      BY DEF IInv, TypeOK
    <2>3. CASE j = i
      BY <2>1, <2>2, <2>3
    <2>4. CASE j # i
      <3>1. Listed(j) /\ kind[j] \in {"push", "world"}
        BY <2>1, <2>2, <2>4 DEF Listed
      <3>2. PICK d \in Clients : job[d] = j
        BY <3>1 DEF OwnerInv
      <3>3. d # c
        <4>1. j # NoJob
          BY ClientsAssumption
        <4> QED BY <2>1, <3>1, <3>2, <4>1 DEF IInv, AnsweredInv, Answered
      <3> QED BY <2>1, <2>2, <3>2, <3>3
    <2> QED BY <2>3, <2>4
  <1>2. CASE ParserProcess
    <2>1. Listed(j) /\ UNCHANGED <<job, kind>>
      BY <1>2, ProcessShrinks DEF ParserProcess, callVars
    <2> QED BY <2>1 DEF OwnerInv
  <1>3. ASSUME NEW c \in Clients, Send(c), UNCHANGED callVars
        PROVE  \E d \in Clients : job'[d] = j
    <2>1. list' = list \/ list' = Append(list, job[c])
      BY <1>3 DEF Send
    <2>2. list \in Seq(Jobs) /\ job[c] \in Jobs
      <3>1. job[c] # NoJob
        BY <1>3 DEF Send, IInv, JobInv
      <3> QED BY <3>1 DEF IInv, TypeOK
    <2>3. Listed(j) \/ j = job[c]
      BY <2>1, <2>2 DEF Listed
    <2> QED BY <1>3, <2>3 DEF OwnerInv, callVars
  <1>4. CASE UNCHANGED <<callVars, list>>
    BY <1>4 DEF OwnerInv, Listed, callVars
  <1> QED BY <1>1, <1>2, <1>3, <1>4, WhoRoots DEF vars, queueVars

LEMMA NextRoot ==
  IInv /\ OwnerInv /\ RootInv /\ ReplacesAlone /\ [Next]_vars => RootInv'
  <1> SUFFICES ASSUME IInv, OwnerInv, RootInv, ReplacesAlone, [Next]_vars,
                      NEW c \in Clients, Replacing(c)'
               PROVE  rootChildren' \subseteq {job'[c]}
    BY DEF RootInv
  <1>1. job \in [Clients -> Jobs \cup {NoJob}]
        /\ kind \in [Jobs -> Kinds \cup {"none"}]
    BY DEF IInv, TypeOK
  <1>2. ASSUME NEW d \in Clients, NEW i \in JobsOf[d], NEW k \in KindsOf[d],
               Call(d, i, k)
        PROVE  rootChildren' \subseteq {job'[c]}
    <2>1. /\ job' = [job EXCEPT ![d] = i] /\ kind' = [kind EXCEPT ![i] = k]
          /\ rootChildren' = KeptChildren(k) /\ kind[i] = "none"
          /\ i \in Jobs
      BY <1>2, ClientsAssumption DEF Call
    <2>2. CASE k = "world"
      BY <2>1, <2>2 DEF KeptChildren
    <2>3. CASE k # "world"
      <3>1. d # c
        BY <1>1, <2>1, <2>3 DEF Replacing
      <3>2. job'[c] = job[c] /\ pc'[c] = pc[c]
        BY <1>1, <1>2, <2>1, <3>1 DEF Call, Goto, IInv, TypeOK, Threads
      <3>3. kind[job[c]] = "world"
        BY <1>1, <2>1, <2>3, <3>2, ClientsAssumption
        DEF Replacing, IInv, JobInv
      <3>4. Replacing(c)
        BY <3>2, <3>3 DEF Replacing
      <3> QED BY <2>1, <2>3, <3>2, <3>4 DEF RootInv, KeptChildren
    <2> QED BY <2>2, <2>3
  <1>3. ASSUME ~\E d \in Clients : \E j \in JobsOf[d], k \in KindsOf[d] :
                  Call(d, j, k),
               UNCHANGED callVars
        PROVE  Replacing(c)
    BY <1>3, OnlyCallsStart DEF Replacing, callVars, vars
  <1>4. CASE ParserProcess
    <2>1. UNCHANGED <<job, kind, pc>>
      BY <1>4 DEF ParserProcess, callVars
    <2>2. Replacing(c)
      BY <2>1 DEF Replacing
    <2>3. rootChildren \subseteq {job[c]}
      BY <2>2 DEF RootInv
    <2>4. CASE rootChildren' = rootChildren
      BY <2>1, <2>3, <2>4
    <2>5. CASE /\ kind[list[1]] \in {"push", "world"}
               /\ rootChildren' = rootChildren \cup {list[1]}
      <3>1. list[1] \in Jobs /\ Listed(list[1])
        BY <1>4, ProcessShrinks
      <3>2. PICK d \in Clients : job[d] = list[1]
        BY <2>5, <3>1 DEF OwnerInv
      <3>3. Rooting(d)
        BY <2>5, <3>1, <3>2, ClientsAssumption DEF Rooting
      <3>4. d = c
        BY <2>2, <3>3 DEF ReplacesAlone
      <3> QED BY <2>1, <2>3, <2>5, <3>2, <3>4
    <2> QED BY <1>4, <2>4, <2>5, ProcessShrinks
  <1>5. CASE /\ UNCHANGED <<rootChildren, callVars>>
             /\ ~\E d \in Clients : \E j \in JobsOf[d], k \in KindsOf[d] :
                  Call(d, j, k)
    BY <1>3, <1>5 DEF RootInv, callVars
  <1>6. CASE UNCHANGED vars
    BY <1>6 DEF vars, callVars, sceneVars, RootInv, Replacing
  <1> QED BY <1>2, <1>4, <1>5, <1>6, WhoRoots

(* When the send of Anchor_ReplaceWorld has returned, only the new world is *)
(* below the root: as long as, whenever a client replaces the world, no     *)
(* other client has a resource for the root on its way to the parser.       *)
(* Without that the property is false.                                      *)
THEOREM WorldReplaced ==
  Spec /\ []ReplacesAlone => []ReplacedWorldAlone
  <1>1. Init => OwnerInv /\ RootInv
    BY DEF Init, OwnerInv, RootInv, Listed, Replacing, Threads
  <1>2. RootInv => ReplacedWorldAlone
    BY DEF RootInv, ReplacedWorldAlone, Replacing
  <1> QED BY <1>1, <1>2, Invariance, NextOwner, NextRoot, PTL DEF Spec

-----------------------------------------------------------------------------
(* Refinement: every step of the hand-off is a step of the service or       *)
(* leaves the service where it was.                                        *)

\* A step that keeps flag, calls and kinds, and moves client c between states
\* on the same side of both Asking and InSend, is invisible to the service.
LEMMA InvisibleStep ==
  ASSUME UNCHANGED <<lockVar, current, callVars>>,
         \A c \in Clients :
           /\ pc[c] \in AskingStates <=> pc'[c] \in AskingStates
           /\ InSend(c) <=> InSend(c)'
  PROVE  UNCHANGED Service!vars
  <1>1. \A j \in Jobs : Asking(j)' <=> Asking(j)
    BY DEF Asking, AskingStates, callVars
  <1>2. \A j \in Jobs : Phase(j)' = Phase(j)
    BY <1>1 DEF Phase, callVars
  <1>3. \A j \in Jobs : Returned(j)' <=> Returned(j)
    BY DEF Returned, callVars
  <1>4. [j \in Jobs |-> Phase(j)]' = [j \in Jobs |-> Phase(j)]
    BY <1>2
  <1>5. {j \in Jobs : Returned(j)}' = {j \in Jobs : Returned(j)}
    BY <1>3
  <1>6. {j \in Jobs : kind[j] \notin {"none", "async"}}'
          = {j \in Jobs : kind[j] \notin {"none", "async"}}
    BY DEF callVars
  <1> QED BY <1>4, <1>5, <1>6 DEF Service!vars

\* Starting a call is asking the service.
LEMMA CallAsks ==
  ASSUME IInv, NEW c \in Clients, NEW j \in JobsOf[c], NEW k \in KindsOf[c],
         Call(c, j, k)
  PROVE  Service!Ask(j)
  <1> USE ThreadsApart DEF Call, Goto, queueVars
  <1>1. j \in Jobs /\ k \in Kinds /\ k # "none" /\ j # NoJob
    BY ClientsAssumption DEF Kinds
  <1>2. /\ pc'[c] \in AskingStates /\ job'[c] = j /\ kind'[j] = k
        /\ \A d \in Clients : d # c => pc'[d] = pc[d] /\ job'[d] = job[d]
        /\ \A q \in Jobs : q # j => kind'[q] = kind[q]
    BY <1>1 DEF IInv, TypeOK, Threads, AskingStates
  <1>3. ASSUME NEW q \in Jobs, q # j
        PROVE  Phase(q)' = Phase(q) /\ (Returned(q)' <=> Returned(q))
    <2>1. Asking(q)' <=> Asking(q)
      BY <1>2, <1>3 DEF Asking, AskingStates
    <2> QED BY <1>2, <1>3, <2>1 DEF Phase, Returned, InSend
  <1>4. Phase(j) = "new" /\ Phase(j)' = "asked"
    <2>1. Asking(j)'
      BY <1>2 DEF Asking, AskingStates
    <2> QED BY <1>1, <1>2, <2>1 DEF Phase
  <1>5. ~Returned(j) /\ ~Returned(j)'
    BY <1>2 DEF Returned, InSend, AskingStates
  <1>6. [q \in Jobs |-> Phase(q)]'
          = [[q \in Jobs |-> Phase(q)] EXCEPT ![j] = "asked"]
    BY <1>1, <1>3, <1>4
  <1>7. {q \in Jobs : Returned(q)}' = {q \in Jobs : Returned(q)}
    BY <1>3, <1>5
  <1>8. {q \in Jobs : kind[q] \notin {"none", "async"}}' \in
          {{q \in Jobs : kind[q] \notin {"none", "async"}},
           {q \in Jobs : kind[q] \notin {"none", "async"}} \cup {j}}
    <2>1. CASE k = "async"
      <3>1. {q \in Jobs : kind[q] \notin {"none", "async"}}'
              = {q \in Jobs : kind[q] \notin {"none", "async"}}
        BY <1>1, <1>2, <2>1
      <3> QED BY <3>1
    <2>2. CASE k # "async"
      <3>1. {q \in Jobs : kind[q] \notin {"none", "async"}}'
              = {q \in Jobs : kind[q] \notin {"none", "async"}} \cup {j}
        BY <1>1, <1>2, <2>2
      <3> QED BY <3>1
    <2> QED BY <2>1, <2>2
  <1> QED BY <1>1, <1>4, <1>6, <1>7, <1>8 DEF Service!Ask

\* Setting the flag is accepting the request: no other is accepted.
LEMMA SendAccepts ==
  ASSUME IInv, NEW c \in Clients, Send(c)
  PROVE  Service!Accept(job[c])
  <1> USE ThreadsApart DEF Send, Goto, callVars
  <1>1. job[c] \in Jobs /\ job[c] # NoJob /\ kind[job[c]] # "none"
    BY ClientsAssumption DEF IInv, JobInv
  <1>2. lockVar = 0
    BY DEF IInv, FlagInv
  <1>3. /\ pc'[c] = "unlock1"
        /\ \A d \in Clients : d # c => pc'[d] = pc[d]
    BY DEF IInv, TypeOK, Threads
  <1>4. \A d \in Clients : InSend(d)' <=> InSend(d)
    BY <1>3 DEF InSend
  <1>5. ASSUME NEW q \in Jobs, q # job[c]
        PROVE  Phase(q)' = Phase(q) /\ Phase(q) # "accepted"
    <2>1. Asking(q)' <=> Asking(q)
      BY <1>3, <1>5 DEF Asking, AskingStates
    <2> QED BY <1>2, <1>5, <2>1 DEF Phase
  <1>6. Phase(job[c]) = "asked"
    BY <1>1 DEF Phase, Asking, AskingStates
  <1>7. Phase(job[c])' = "accepted"
    <2>1. ~(Asking(job[c])')
      BY <1>1, <1>3, JobsApart DEF Asking, AskingStates
    <2> QED BY <1>1, <2>1 DEF Phase
  <1>8. [q \in Jobs |-> Phase(q)]'
          = [[q \in Jobs |-> Phase(q)] EXCEPT ![job[c]] = "accepted"]
    BY <1>1, <1>5, <1>7
  <1>9. {q \in Jobs : Returned(q)}' = {q \in Jobs : Returned(q)}
    BY <1>4 DEF Returned
  <1> QED BY <1>1, <1>5, <1>6, <1>8, <1>9 DEF Service!Accept

\* Clearing the flag is serving the accepted request.
LEMMA FinishingServes ==
  ASSUME IInv, ParserFinishing
  PROVE  \/ \E q \in Jobs : Service!Serve(q)
         \/ UNCHANGED Service!vars
  <1> USE ThreadsApart DEF ParserFinishing, Goto, callVars
  <1>1. lockVar = 1 /\ lockVar' = 0 /\ current' = current
    BY DEF IInv, FlagInv
  <1>2. \A d \in Clients : pc'[d] = pc[d]
    BY DEF IInv, TypeOK, Threads
  <1>3. \A q \in Jobs : /\ Asking(q)' <=> Asking(q)
                        /\ Returned(q)' <=> Returned(q)
    BY <1>2 DEF Asking, AskingStates, Returned, InSend
  <1>4. {q \in Jobs : Returned(q)}' = {q \in Jobs : Returned(q)}
    BY <1>3
  <1>5. {q \in Jobs : kind[q] \notin {"none", "async"}}'
          = {q \in Jobs : kind[q] \notin {"none", "async"}}
    OBVIOUS
  <1>6. ASSUME NEW q \in Jobs, Phase(q) # "accepted"
        PROVE  Phase(q)' = Phase(q)
    BY <1>1, <1>3, <1>6 DEF Phase
  <1>7. CASE \E q \in Jobs : Phase(q) = "accepted"
    <2> PICK q \in Jobs : Phase(q) = "accepted"
      BY <1>7
    <2>1. q = current /\ Phase(q)' = "served"
      BY <1>1, <1>3 DEF Phase
    <2>2. \A p \in Jobs : p # q => Phase(p) # "accepted"
      BY <2>1 DEF Phase
    <2>3. [p \in Jobs |-> Phase(p)]'
            = [[p \in Jobs |-> Phase(p)] EXCEPT ![q] = "served"]
      BY <2>1, <2>2, <1>6
    <2> QED BY <2>3, <1>4, <1>5 DEF Service!Serve
  <1>8. CASE \A q \in Jobs : Phase(q) # "accepted"
    <2>1. [p \in Jobs |-> Phase(p)]' = [p \in Jobs |-> Phase(p)]
      BY <1>8, <1>6
    <2> QED BY <2>1, <1>4, <1>5 DEF Service!vars
  <1> QED BY <1>7, <1>8

\* A client that leaves the send returns from the service: a synchronous one
\* holds the mutex with the flag clear, so its request has been served.
LEMMA LeavingReturns ==
  ASSUME IInv, NEW c \in Clients,
         \/ pc[c] = "unlock1" /\ kind[job[c]] = "async"
         \/ pc[c] = "unlock2",
         pc' = [pc EXCEPT ![c] = IF pc[c] = "unlock1" THEN "idle"
                                 ELSE AfterWait(kind[job[c]])],
         UNCHANGED <<lockVar, current, callVars>>
  PROVE  Service!Return(job[c])
  <1> USE ThreadsApart DEF callVars
  <1>1. job[c] \in Jobs /\ job[c] # NoJob /\ kind[job[c]] # "none"
    BY ClientsAssumption DEF IInv, JobInv
  <1>2. /\ pc'[c] \in {"idle", "resource_wait"}
        /\ \A d \in Clients : d # c => pc'[d] = pc[d]
    BY DEF IInv, TypeOK, Threads, AfterWait
  <1>3. \A q \in Jobs : Asking(q)' <=> Asking(q)
    BY <1>2 DEF Asking, AskingStates
  <1>4. [q \in Jobs |-> Phase(q)]' = [q \in Jobs |-> Phase(q)]
    BY <1>3 DEF Phase
  <1>5. Phase(job[c]) \in {"accepted", "served"}
    <2>1. ~Asking(job[c])
      BY <1>1, JobsApart DEF Asking, AskingStates
    <2> QED BY <1>1, <2>1 DEF Phase
  <1>6. pc[c] = "unlock2" => Phase(job[c]) = "served"
    BY <1>5 DEF Phase, IInv, FlagInv
  <1>7. ~Returned(job[c]) /\ Returned(job[c])'
    BY <1>1, <1>2, JobsApart DEF Returned, InSend
  <1>8. ASSUME NEW q \in Jobs, q # job[c]
        PROVE  Returned(q)' <=> Returned(q)
    BY <1>2, <1>8 DEF Returned, InSend
  <1>9. {q \in Jobs : Returned(q)}' = {q \in Jobs : Returned(q)} \cup {job[c]}
    BY <1>1, <1>7, <1>8
  <1>10. {q \in Jobs : kind[q] \notin {"none", "async"}}'
           = {q \in Jobs : kind[q] \notin {"none", "async"}}
    OBVIOUS
  <1>11. job[c] \in {q \in Jobs : kind[q] \notin {"none", "async"}}
           => Phase(job[c]) = "served"
    BY <1>6
  <1> QED BY <1>1, <1>4, <1>5, <1>7, <1>9, <1>10, <1>11 DEF Service!Return

\* Every step of a client is a step of the service or invisible to it.
LEMMA ClientRefines ==
  ASSUME IInv, NEW c \in Clients, Client(c)
  PROVE  [Service!Next]_(Service!vars)
  <1> USE ThreadsApart
  <1>1. ASSUME NEW j \in JobsOf[c], NEW k \in KindsOf[c], Call(c, j, k)
        PROVE  Service!Next
    BY <1>1, CallAsks, ClientsAssumption DEF Service!Next
  <1>2. ASSUME Send(c)
        PROVE  Service!Next
    <2>1. job[c] \in Jobs
      BY <1>2, ClientsAssumption DEF Send, IInv, JobInv
    <2> QED BY <1>2, <2>1, SendAccepts DEF Service!Next
  <1>3. ASSUME UnlockAfterSend(c)
        PROVE  [Service!Next]_(Service!vars)
    <2>1. CASE kind[job[c]] = "async"
      BY <1>3, <2>1, LeavingReturns, ClientsAssumption
         DEF UnlockAfterSend, SignalAndUnlock, Goto, AfterSend, queueVars,
             Service!Next, IInv, JobInv
    <2>2. CASE kind[job[c]] # "async"
      <3>1. pc' = [pc EXCEPT ![c] = "lock2"] /\ pc[c] = "unlock1"
        BY <1>3, <2>2 DEF UnlockAfterSend, SignalAndUnlock, Goto, AfterSend
      <3>2. \A d \in Clients :
              /\ pc[d] \in AskingStates <=> pc'[d] \in AskingStates
              /\ InSend(d) <=> InSend(d)'
        BY <3>1 DEF IInv, TypeOK, Threads, InSend, AskingStates
      <3> QED BY <1>3, <3>2, InvisibleStep DEF UnlockAfterSend, queueVars
    <2> QED BY <2>1, <2>2
  <1>4. ASSUME UnlockAfterWait(c)
        PROVE  Service!Next
    BY <1>4, LeavingReturns, ClientsAssumption
       DEF UnlockAfterWait, SignalAndUnlock, Goto, queueVars, Service!Next,
           IInv, JobInv
  <1>5. ASSUME \/ PollThreads(c)
               \/ Lock(c, "lock1", "test1")
               \/ TestFlag(c, "test1", 1, "wait1", "send")
               \/ Reacquire(c, "wait1", "test1")
               \/ Lock(c, "lock2", "test2")
               \/ TestFlag(c, "test2", 1, "wait2", "unlock2")
               \/ Reacquire(c, "wait2", "test2")
               \/ ResourceWait(c)
        PROVE  UNCHANGED Service!vars
    <2>1. \A d \in Clients :
            /\ pc[d] \in AskingStates <=> pc'[d] \in AskingStates
            /\ InSend(d) <=> InSend(d)'
      BY <1>5 DEF PollThreads, Lock, TestFlag, Reacquire, ResourceWait, Goto,
                  IInv, TypeOK, Threads, InSend, AskingStates
    <2>2. UNCHANGED <<lockVar, current, callVars>>
      BY <1>5 DEF PollThreads, Lock, TestFlag, Reacquire, ResourceWait,
                  queueVars
    <2> QED BY <2>1, <2>2, InvisibleStep
  <1> QED BY <1>1, <1>2, <1>3, <1>4, <1>5 DEF Client

\* Every step of the parser thread, too.
LEMMA ParserRefines ==
  ASSUME IInv, \/ ParserThread \/ DisplayInitialize \/ SpuriousWakeup
               \/ UNCHANGED vars
  PROVE  [Service!Next]_(Service!vars)
  <1> USE ThreadsApart
  <1>1. CASE ParserFinishing
    BY <1>1, FinishingServes DEF Service!Next
  <1>2. ASSUME \/ ParserStart
               \/ Lock(Parser, "lock", "test")
               \/ TestFlag(Parser, "test", 0, "wait", "drain")
               \/ Reacquire(Parser, "wait", "test")
               \/ ParserProcess
               \/ ParserNextPass
               \/ ParserUnlock
               \/ DisplayInitialize
               \/ SpuriousWakeup
               \/ UNCHANGED vars
        PROVE  UNCHANGED Service!vars
    <2>1. \A d \in Clients : pc'[d] = pc[d]
      BY <1>2 DEF ParserStart, Lock, TestFlag, Reacquire, ParserProcess,
                  ParserNextPass, ParserUnlock, SignalAndUnlock,
                  DisplayInitialize, SpuriousWakeup, vars, Goto, IInv, TypeOK,
                  Threads
    <2>2. UNCHANGED <<lockVar, current, callVars>>
      BY <1>2 DEF ParserStart, Lock, TestFlag, Reacquire, ParserProcess,
                  ParserNextPass, ParserUnlock, DisplayInitialize,
                  SpuriousWakeup, vars, queueVars
    <2> QED BY <2>1, <2>2, InvisibleStep DEF InSend
  <1> QED BY <1>1, <1>2 DEF ParserThread

\* The initial states map to the initial state of the service.
LEMMA InitRefines == Init => Service!Init
  <1> SUFFICES ASSUME Init PROVE Service!Init
    OBVIOUS
  <1>1. \A j \in Jobs : kind[j] = "none"
    BY DEF Init
  <1>2. \A j \in Jobs : Phase(j) = "new" /\ ~Returned(j)
    BY <1>1 DEF Phase, Returned
  <1> QED BY <1>1, <1>2 DEF Service!Init

\* The hand-off implements the service, whatever the number of clients.
THEOREM Refinement == Spec => ImplementsService
  <1>1. IInv /\ [Next]_vars => [Service!Next]_(Service!vars)
    BY ClientRefines, ParserRefines DEF Next
  <1> QED BY <1>1, InitRefines, Invariance, PTL
          DEF Spec, Service!Spec, ImplementsService
=============================================================================
