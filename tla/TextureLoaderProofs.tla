------------------------ MODULE TextureLoaderProofs -------------------------
(***************************************************************************)
(* Proofs about TextureLoader, for any textures, files and changes of urls,*)
(* with and without spurious wake-ups.                                     *)
(***************************************************************************)
EXTENDS TextureLoader, TLAPS

Working == {"node", "fill", "fetch", "ready"}

In(s, t) == \E i \in DOMAIN s : s[i] = t

\* The loader sleeps and waits for requests with nothing left to do, and it has
\* said so before it sleeps.
LoaderInv ==
  /\ loader \in {"lock", "asleep"} => textureList = <<>>
  /\ loader \in Working => textureList # <<>>
  /\ loader = "asleep" => loaderWaiting
  /\ loader = "fill" => nodeType[Entry] = "PixelTexture"
  /\ loader \in {"fetch", "ready"} => nodeType[Entry] = "ImageTexture"

\* While the loader works on an entry nobody says that it is ready, and what is
\* given to OpenGL stays ready until then; but for pixel textures.
OwnerInv ==
  /\ \A t \in Textures :
       nodeType[t] # "PixelTexture" /\ WorkingOn(t)
         => status[t] \in {"loading", "not_loaded"}
  /\ display = "move" /\ nodeType[bound] # "PixelTexture"
       => status[bound] = "needs_binding"

\* A pixel texture that was asked for again, while the loader fills in its old
\* image, is in the queue a second time.
AgainInv ==
  loader = "fill" /\ status[Entry] = "loading" /\ ~changed[Entry] =>
    \/ In(Tail(textureList), Entry) \/ In(requests, Entry)
    \/ display = "send" /\ bound = Entry

\* WaitingIsForSomething, list by list.
WaitingInv ==
  \A t \in Textures :
    status[t] = "loading" /\ ~changed[t] =>
      \/ In(textureList, t) \/ In(requests, t)
      \/ t \in givenUp
      \/ display = "send" /\ bound = t

IInv == /\ TypeOK /\ LoaderInv /\ LoaderNeverOversleeps
        /\ OwnerInv /\ AgainInv /\ WaitingInv

-----------------------------------------------------------------------------
(* The queue. *)

LEMMA QueuedIn ==
  ASSUME TypeOK, NEW t
  PROVE  Queued(t) <=> In(textureList, t) \/ In(requests, t)
  <1>1. textureList \in Seq(Textures) /\ requests \in Seq(Textures)
    BY DEF TypeOK
  <1>2. ASSUME In(textureList, t) PROVE Queued(t)
    BY <1>1, <1>2 DEF Queued, Queue, In
  <1>3. ASSUME In(requests, t) PROVE Queued(t)
    <2>1. PICK i \in DOMAIN requests : requests[i] = t
      BY <1>3 DEF In
    <2>2. /\ Len(textureList) + i \in DOMAIN Queue
          /\ Queue[Len(textureList) + i] = t
      BY <1>1, <2>1 DEF Queue
    <2> QED BY <2>2 DEF Queued
  <1>4. ASSUME Queued(t) PROVE In(textureList, t) \/ In(requests, t)
    <2>1. PICK i \in DOMAIN Queue : Queue[i] = t
      BY <1>4 DEF Queued
    <2>2. CASE i <= Len(textureList)
      BY <1>1, <2>1, <2>2 DEF Queue, In
    <2>3. CASE i > Len(textureList)
      <3>1. /\ i - Len(textureList) \in DOMAIN requests
            /\ requests[i - Len(textureList)] = t
        BY <1>1, <2>1, <2>3 DEF Queue
      <3> QED BY <3>1 DEF In
    <2>4. i \in Nat /\ Len(textureList) \in Nat
      BY <1>1, <2>1 DEF Queue
    <2> QED BY <2>2, <2>3, <2>4
  <1> QED BY <1>2, <1>3, <1>4

LEMMA ListFacts ==
  ASSUME NEW s \in Seq(Textures)
  PROVE  /\ \A u : ~In(<<>>, u)
         /\ \A t \in Textures :
              /\ Append(s, t) \in Seq(Textures)
              /\ \A u : In(Append(s, t), u) <=> u = t \/ In(s, u)
         /\ s # <<>> =>
              /\ Tail(s) \in Seq(Textures) /\ Head(s) \in Textures
              /\ \A u : In(s, u) <=> u = Head(s) \/ In(Tail(s), u)
  <1>1. ASSUME NEW t \in Textures, NEW u
        PROVE  In(Append(s, t), u) <=> u = t \/ In(s, u)
    <2>1. /\ Len(Append(s, t)) = Len(s) + 1
          /\ Append(s, t)[Len(s) + 1] = t
          /\ \A i \in DOMAIN s : i \in DOMAIN Append(s, t)
                                  /\ Append(s, t)[i] = s[i]
          /\ \A i \in DOMAIN Append(s, t) : i = Len(s) + 1 \/ i \in DOMAIN s
          /\ Len(s) + 1 \in DOMAIN Append(s, t)
      OBVIOUS
    <2> QED BY <2>1 DEF In
  <1>2. ASSUME s # <<>>, NEW u
        PROVE  In(s, u) <=> u = Head(s) \/ In(Tail(s), u)
    <2>1. ASSUME NEW i \in DOMAIN s, s[i] = u
          PROVE  u = Head(s) \/ In(Tail(s), u)
      <3>1. CASE i = 1
        BY <2>1, <3>1
      <3>2. CASE i # 1
        <4>1. i - 1 \in DOMAIN Tail(s) /\ Tail(s)[i - 1] = u
          BY <1>2, <2>1, <3>2
        <4> QED BY <4>1 DEF In
      <3> QED BY <3>1, <3>2
    <2>2. ASSUME NEW i \in DOMAIN Tail(s), Tail(s)[i] = u PROVE In(s, u)
      <3>1. i + 1 \in DOMAIN s /\ s[i + 1] = u
        BY <1>2, <2>2
      <3> QED BY <3>1 DEF In
    <2>3. 1 \in DOMAIN s /\ s[1] = Head(s)
      BY <1>2
    <2> QED BY <2>1, <2>2, <2>3 DEF In
  <1>3. \A u : ~In(<<>>, u)
    BY DEF In
  <1>4. \A t \in Textures : Append(s, t) \in Seq(Textures)
    OBVIOUS
  <1>5. s # <<>> => Tail(s) \in Seq(Textures) /\ Head(s) \in Textures
    OBVIOUS
  <1> QED BY <1>1, <1>2, <1>3, <1>4, <1>5
-----------------------------------------------------------------------------
(* Type correctness. *)

LEMMA InitTypes == Init => TypeOK
  <1> SUFFICES ASSUME Init PROVE TypeOK
    OBVIOUS
  <1>1. /\ <<>> \in Seq(Textures) /\ <<>> \in Seq(Files)
        /\ changes \in 0..MaxChanges
    BY TextureAssumption DEF Init
  <1>2. nodeType \in [Textures -> NodeTypes]
    BY TextureAssumption DEF Init
  <1> QED BY <1>1, <1>2 DEF Init, TypeOK

LEMMA DisplayTypes ==
  ASSUME TypeOK, Display
  PROVE  TypeOK'
  <1> USE DEF entryVars, nodeVars, listVars, displayVars
  <1>1. ASSUME NEW t \in Textures, ChangeUrl(t) PROVE TypeOK'
    <2>1. MaxChanges \in Nat /\ changes' \in 0..MaxChanges
      BY <1>1, TextureAssumption DEF TypeOK, ChangeUrl
    <2> QED BY <1>1, <2>1 DEF TypeOK, ChangeUrl
  <1>2. ASSUME NEW t \in Textures, KillNode(t) PROVE TypeOK'
    BY <1>2 DEF TypeOK, KillNode
  <1>3. ASSUME NEW t \in Textures, LoadTextureNode(t) PROVE TypeOK'
    BY <1>3 DEF TypeOK, LoadTextureNode, Released, Statuses
  <1>4. CASE BindImage
    BY <1>4 DEF TypeOK, BindImage, Statuses
  <1>5. CASE SendTextureToLoader
    <2>1. requests' \in Seq(Textures)
      BY <1>5 DEF TypeOK, SendTextureToLoader
    <2>2. signalled' \in BOOLEAN
      BY <1>5 DEF TypeOK, SendTextureToLoader, WakesLoader
    <2> QED BY <1>5, <2>1, <2>2 DEF TypeOK, SendTextureToLoader
  <1>6. CASE MoveTextureToOpenGL
    BY <1>6 DEF TypeOK, MoveTextureToOpenGL, Statuses
  <1> QED BY <1>1, <1>2, <1>3, <1>4, <1>5, <1>6 DEF Display

\* What the loader is done with leaves its list.
LEMMA NextEntryTypes ==
  ASSUME TypeOK, textureList # <<>>, NextEntry
  PROVE  /\ textureList' \in Seq(Textures) /\ todo' \in Seq(Files)
         /\ loader' = "list" /\ Entry \in Textures
  <1>1. <<>> \in Seq(Files)
    OBVIOUS
  <1> QED BY <1>1, ListFacts DEF TypeOK, NextEntry, Entry

LEMMA LoaderTypes ==
  ASSUME TypeOK, LoaderInv, TextureThread \/ SpuriousWakeup
  PROVE  TypeOK'
  <1> USE DEF entryVars, nodeVars, listVars, displayVars
  <1>1. CASE LoaderWait
    BY <1>1 DEF TypeOK, LoaderWait
  <1>2. CASE TakeList
    <2>1. <<>> \in Seq(Textures)
      OBVIOUS
    <2> QED BY <1>2, <2>1 DEF TypeOK, TakeList, TakenFrom
  <1>3. CASE ListDone
    BY <1>3 DEF TypeOK, ListDone
  <1>4. CASE ProcessList
    <2>1. textureList # <<>> /\ Entry \in Textures
      BY <1>4, ListFacts DEF TypeOK, ProcessList, Entry
    <2>2. /\ textureList' \in Seq(Textures) /\ todo' \in Seq(Files)
          /\ loader' \in {"list", "node"} /\ givenUp' \subseteq Textures
      <3>1. CASE NextEntry
        BY <1>4, <2>1, <3>1, NextEntryTypes DEF TypeOK, ProcessList, GiveUp
      <3>2. CASE loader' = "node" /\ UNCHANGED <<textureList, todo, givenUp>>
        BY <3>2 DEF TypeOK
      <3> QED BY <1>4, <3>1, <3>2 DEF ProcessList, GiveUp
    <2>3. status' \in [Textures -> Statuses]
      BY <1>4, <2>1 DEF TypeOK, ProcessList, Statuses
    <2> QED BY <1>4, <2>2, <2>3 DEF TypeOK, ProcessList
  <1>5. CASE LoadFromMovieTexture
    <2>1. textureList # <<>>
      BY <1>5 DEF LoaderInv, Working, LoadFromMovieTexture
    <2> QED BY <1>5, <2>1, NextEntryTypes
            DEF TypeOK, LoadFromMovieTexture, GiveUp
  <1>6. CASE LoadFromPixelTexture
    <2>1. textureList # <<>> /\ Entry \in Textures
      BY <1>6, ListFacts
         DEF LoaderInv, Working, LoadFromPixelTexture, TypeOK, Entry
    <2>2. CASE url[Entry] # <<>> /\ Head(url[Entry]) \in Images
      BY <1>6, <2>1, <2>2 DEF TypeOK, LoadFromPixelTexture, Images, Statuses
    <2>3. CASE GiveUp /\ UNCHANGED <<status, texdata>>
      BY <1>6, <2>1, <2>3, NextEntryTypes
         DEF TypeOK, LoadFromPixelTexture, GiveUp
    <2> QED BY <1>6, <2>2, <2>3 DEF LoadFromPixelTexture
  <1>7. CASE FillPixelTexture
    <2>1. textureList # <<>>
      BY <1>7 DEF LoaderInv, Working, FillPixelTexture
    <2> QED BY <1>7, <2>1, NextEntryTypes DEF TypeOK, FillPixelTexture
  <1>8. CASE CreateMulti
    <2>1. textureList # <<>> /\ Entry \in Textures
      BY <1>8, ListFacts DEF LoaderInv, Working, CreateMulti, TypeOK, Entry
    <2>2. url[Entry] \in Seq(Files)
      BY <2>1, TextureAssumption DEF TypeOK
    <2> QED BY <1>8, <2>2 DEF TypeOK, CreateMulti
  <1>9. CASE FetchUrl
    <2>1. textureList # <<>> /\ Entry \in Textures
      BY <1>9, ListFacts DEF LoaderInv, Working, FetchUrl, TypeOK, Entry
    <2>2. CASE GiveUp /\ UNCHANGED texdata
      BY <1>9, <2>1, <2>2, NextEntryTypes DEF TypeOK, FetchUrl, GiveUp
    <2>3. CASE ~(GiveUp /\ UNCHANGED texdata)
      <3>1. todo # <<>> /\ UNCHANGED <<textureList, givenUp>>
        BY <1>9, <2>3 DEF FetchUrl
      <3>2. Head(todo) \in Files /\ Tail(todo) \in Seq(Files)
        BY <3>1 DEF TypeOK
      <3>3. /\ todo' \in Seq(Files)
            /\ texdata' \in [Textures -> Files \cup {NoFile}]
            /\ loader' \in {"fetch", "ready"}
        BY <1>9, <2>1, <2>3, <3>2 DEF FetchUrl, TypeOK
      <3> QED BY <1>9, <3>1, <3>3 DEF TypeOK, FetchUrl
    <2> QED BY <2>2, <2>3
  <1>10. CASE ImageReady
    <2>1. textureList # <<>>
      BY <1>10 DEF LoaderInv, Working, ImageReady
    <2> QED BY <1>10, <2>1, NextEntryTypes DEF TypeOK, ImageReady, Statuses
  <1> QED BY <1>1, <1>2, <1>3, <1>4, <1>5, <1>6, <1>7, <1>8, <1>9, <1>10
          DEF TextureThread, TakeRequests, SpuriousWakeup

-----------------------------------------------------------------------------
(* The invariant: the display thread. *)

LEMMA InitIInv == Init => IInv
  <1> SUFFICES ASSUME Init PROVE IInv
    OBVIOUS
  <1> QED BY InitTypes
          DEF Init, IInv, LoaderInv, LoaderNeverOversleeps, OwnerInv, AgainInv,
              WaitingInv, Working, WorkingOn

\* Steps that leave the lists and the loader alone.
LEMMA OutsideKeepsLoader ==
  ASSUME IInv, UNCHANGED <<nodeType, listVars, loader>>
  PROVE  /\ LoaderInv' /\ LoaderNeverOversleeps'
         /\ Entry' = Entry
         /\ \A t : WorkingOn(t)' = WorkingOn(t)
         /\ \A t : In(textureList', t) = In(textureList, t)
         /\ \A t : In(requests', t) = In(requests, t)
  BY DEF IInv, LoaderInv, LoaderNeverOversleeps, Entry, WorkingOn, listVars, In

\* A node whose url changes, or that is killed, gets no request.
LEMMA NodeEventsKeepIInv ==
  ASSUME IInv, NEW t \in Textures, ChangeUrl(t) \/ KillNode(t)
  PROVE  IInv'
  <1> USE DEF entryVars, displayVars
  <1>1. TypeOK'
    BY DisplayTypes DEF IInv, Display
  <1>2. /\ UNCHANGED <<nodeType, listVars, loader, status, givenUp>>
        /\ UNCHANGED <<display, bound>>
    BY DEF ChangeUrl, KillNode
  <1>3. \A u \in Textures : changed[u] => changed'[u]
    BY DEF ChangeUrl, KillNode, IInv, TypeOK
  <1>4. /\ LoaderInv' /\ LoaderNeverOversleeps'
        /\ Entry' = Entry
        /\ \A u : WorkingOn(u)' = WorkingOn(u)
    BY <1>2, OutsideKeepsLoader
  <1>5. OwnerInv' /\ WaitingInv'
    BY <1>2, <1>3, <1>4 DEF IInv, OwnerInv, WaitingInv, listVars
  <1>6. AgainInv'
    <2>1. loader = "fill" => Entry \in Textures
      BY ListFacts DEF IInv, LoaderInv, Working, Entry, TypeOK
    <2> QED BY <1>2, <1>3, <1>4, <2>1 DEF IInv, AgainInv, listVars
  <1> QED BY <1>1, <1>4, <1>5, <1>6 DEF IInv

LEMMA LoadTextureNodeKeepsIInv ==
  ASSUME IInv, NEW t \in Textures, LoadTextureNode(t)
  PROVE  IInv'
  <1>1. TypeOK'
    BY DisplayTypes DEF IInv, Display
  <1>2. /\ UNCHANGED <<nodeType, listVars, loader, givenUp>>
        /\ display = "frame" /\ display' = "bind" /\ bound' = t
    BY DEF LoadTextureNode
  <1>3. \A u \in Textures :
          \/ status'[u] = "not_loaded"
          \/ status'[u] = status[u] /\ changed'[u] = changed[u]
    BY DEF LoadTextureNode, IInv, TypeOK, Released
  <1>4. /\ LoaderInv' /\ LoaderNeverOversleeps'
        /\ Entry' = Entry
        /\ \A u : WorkingOn(u)' = WorkingOn(u)
    BY <1>2, OutsideKeepsLoader
  <1>5. OwnerInv' /\ WaitingInv'
    BY <1>2, <1>3, <1>4 DEF IInv, OwnerInv, WaitingInv, listVars
  <1>6. AgainInv'
    <2>1. loader = "fill" => Entry \in Textures
      BY ListFacts DEF IInv, LoaderInv, Working, Entry, TypeOK
    <2> QED BY <1>2, <1>3, <1>4, <2>1 DEF IInv, AgainInv, listVars
  <1> QED BY <1>1, <1>4, <1>5, <1>6 DEF IInv

LEMMA BindImageKeepsIInv ==
  ASSUME IInv, BindImage
  PROVE  IInv'
  <1>1. TypeOK'
    BY DisplayTypes DEF IInv, Display
  <1>2. /\ UNCHANGED <<nodeType, listVars, loader, givenUp, changed, bound>>
        /\ display = "bind"
        /\ display' = "move" => status[bound] = "needs_binding"
    BY DEF BindImage, nodeVars
  <1>3. /\ bound \in Textures
        /\ \A u \in Textures :
             \/ status'[u] = status[u]
             \/ u = bound /\ display' = "send" /\ status'[u] = "loading"
        /\ display' = "move" => status'[bound] = status[bound]
    BY DEF BindImage, IInv, TypeOK
  <1>4. /\ LoaderInv' /\ LoaderNeverOversleeps'
        /\ Entry' = Entry
        /\ \A u : WorkingOn(u)' = WorkingOn(u)
    BY <1>2, OutsideKeepsLoader
  <1>5. OwnerInv'
    BY <1>2, <1>3, <1>4 DEF IInv, OwnerInv
  <1>6. WaitingInv'
    BY <1>2, <1>3 DEF IInv, WaitingInv, listVars
  <1>7. AgainInv'
    <2>1. loader = "fill" => Entry \in Textures
      BY ListFacts DEF IInv, LoaderInv, Working, Entry, TypeOK
    <2> QED BY <1>2, <1>3, <1>4, <2>1 DEF IInv, AgainInv, listVars
  <1> QED BY <1>1, <1>4, <1>5, <1>6, <1>7 DEF IInv

LEMMA SendKeepsIInv ==
  ASSUME IInv, SendTextureToLoader
  PROVE  IInv'
  <1>1. TypeOK'
    BY DisplayTypes DEF IInv, Display
  <1>2. /\ UNCHANGED <<entryVars, nodeVars, textureList, loaderWaiting, loader,
                      todo, bound, givenUp>>
        /\ requests' = Append(requests, bound) /\ bound \in Textures
        /\ display = "send" /\ display' = "frame"
        /\ signalled' = (signalled \/ (loaderWaiting /\ loader = "asleep"))
    BY DEF SendTextureToLoader, WakesLoader, IInv, TypeOK
  <1>3. \A u : In(requests', u) <=> u = bound \/ In(requests, u)
    BY <1>2, ListFacts DEF IInv, TypeOK
  <1>4. /\ Entry' = Entry
        /\ \A u : WorkingOn(u)' = WorkingOn(u)
    BY <1>2 DEF Entry, WorkingOn
  <1>5. LoaderInv' /\ LoaderNeverOversleeps'
    BY <1>2, <1>4 DEF IInv, LoaderInv, LoaderNeverOversleeps, nodeVars
  <1>6. OwnerInv'
    BY <1>2, <1>4 DEF IInv, OwnerInv, entryVars, nodeVars
  <1>7. WaitingInv' /\ AgainInv'
    BY <1>2, <1>3, <1>4 DEF IInv, WaitingInv, AgainInv, entryVars, nodeVars
  <1> QED BY <1>1, <1>5, <1>6, <1>7 DEF IInv

LEMMA MoveKeepsIInv ==
  ASSUME IInv, MoveTextureToOpenGL
  PROVE  IInv'
  <1>1. TypeOK'
    BY DisplayTypes DEF IInv, Display
  <1>2. /\ UNCHANGED <<nodeType, listVars, loader, givenUp, changed, bound>>
        /\ display = "move" /\ display' = "frame" /\ bound \in Textures
        /\ \A u \in Textures : u # bound => status'[u] = status[u]
        /\ status'[bound] \in {"loaded", "not_loaded"}
    BY DEF MoveTextureToOpenGL, nodeVars, IInv, TypeOK
  <1>3. /\ LoaderInv' /\ LoaderNeverOversleeps'
        /\ Entry' = Entry
        /\ \A u : WorkingOn(u)' = WorkingOn(u)
    BY <1>2, OutsideKeepsLoader
  <1>4. nodeType[bound] # "PixelTexture" => ~WorkingOn(bound)
    BY <1>2 DEF IInv, OwnerInv
  <1>5. OwnerInv'
    BY <1>2, <1>3, <1>4 DEF IInv, OwnerInv
  <1>6. WaitingInv'
    BY <1>2 DEF IInv, WaitingInv, listVars
  <1>7. AgainInv'
    <2>1. loader = "fill" => Entry \in Textures
      BY ListFacts DEF IInv, LoaderInv, Working, Entry, TypeOK
    <2> QED BY <1>2, <1>3, <2>1 DEF IInv, AgainInv, listVars
  <1> QED BY <1>1, <1>3, <1>5, <1>6, <1>7 DEF IInv

-----------------------------------------------------------------------------
(* The invariant: the texture thread. *)

LEMMA WaitKeepsIInv ==
  ASSUME IInv, LoaderWait
  PROVE  IInv'
  <1>1. TypeOK'
    BY LoaderTypes DEF IInv, TextureThread
  <1>2. /\ UNCHANGED <<entryVars, nodeVars, requests, textureList, displayVars,
                      givenUp>>
        /\ loader = "lock" /\ loader' = "asleep" /\ requests = <<>>
        /\ loaderWaiting' = TRUE
    BY DEF LoaderWait
  <1>3. LoaderInv' /\ LoaderNeverOversleeps'
    BY <1>2 DEF IInv, LoaderInv, LoaderNeverOversleeps, Working
  <1>4. OwnerInv' /\ AgainInv'
    BY <1>2 DEF IInv, OwnerInv, AgainInv, WorkingOn, entryVars, nodeVars,
                displayVars
  <1>5. WaitingInv'
    BY <1>2 DEF IInv, WaitingInv, entryVars, nodeVars, displayVars
  <1> QED BY <1>1, <1>3, <1>4, <1>5 DEF IInv

\* The loader takes the list over as it is.
LEMMA TakeKeepsIInv ==
  ASSUME IInv, loader \in {"lock", "asleep"}, TakeList
  PROVE  IInv'
  <1>1. TypeOK'
    <2>1. <<>> \in Seq(Textures)
      OBVIOUS
    <2> QED BY <2>1 DEF IInv, TypeOK, TakeList, TakenFrom, entryVars, nodeVars,
                        displayVars
  <1>2. /\ UNCHANGED <<entryVars, nodeVars, displayVars, givenUp>>
        /\ loader' = "list" /\ textureList' = requests /\ requests' = <<>>
        /\ textureList = <<>>
    BY DEF TakeList, TakenFrom, IInv, LoaderInv
  <1>3. LoaderInv' /\ LoaderNeverOversleeps'
    BY <1>2 DEF IInv, LoaderInv, LoaderNeverOversleeps, Working
  <1>4. OwnerInv' /\ AgainInv'
    BY <1>2 DEF IInv, OwnerInv, AgainInv, WorkingOn, entryVars, nodeVars,
                displayVars
  <1>5. WaitingInv'
    BY <1>2 DEF IInv, WaitingInv, In, entryVars, nodeVars, displayVars
  <1> QED BY <1>1, <1>3, <1>4, <1>5 DEF IInv

LEMMA ListDoneKeepsIInv ==
  ASSUME IInv, ListDone
  PROVE  IInv'
  <1>1. TypeOK'
    BY LoaderTypes DEF IInv, TextureThread
  <1>2. /\ UNCHANGED <<entryVars, nodeVars, listVars, displayVars, givenUp>>
        /\ loader = "list" /\ loader' = "lock" /\ textureList = <<>>
    BY DEF ListDone
  <1>3. LoaderInv' /\ LoaderNeverOversleeps'
    BY <1>2 DEF IInv, LoaderInv, LoaderNeverOversleeps, Working, listVars
  <1>4. OwnerInv' /\ AgainInv'
    BY <1>2 DEF IInv, OwnerInv, AgainInv, WorkingOn, entryVars, nodeVars,
                displayVars
  <1>5. WaitingInv'
    BY <1>2 DEF IInv, WaitingInv, listVars, entryVars, nodeVars, displayVars
  <1> QED BY <1>1, <1>3, <1>4, <1>5 DEF IInv

\* The loader is done with an entry that nobody waits for: it gave up, or the
\* entry is not in the state of waiting, or it is in the queue again.
LEMMA NextEntryKeepsIInv ==
  ASSUME IInv, TypeOK', textureList # <<>>, NextEntry, loader # "asleep",
         UNCHANGED <<nodeType, changed, requests, displayVars>>,
         \A u \in Textures : u # Entry =>
            status'[u] = status[u] /\ (u \in givenUp => u \in givenUp'),
         display = "move" /\ nodeType[bound] # "PixelTexture"
           => status'[bound] = "needs_binding",
         status'[Entry] = "loading" /\ ~changed[Entry] =>
           \/ Entry \in givenUp'
           \/ In(Tail(textureList), Entry) \/ In(requests, Entry)
           \/ display = "send" /\ bound = Entry
  PROVE  IInv'
  <1>1. loader' = "list" /\ textureList' = Tail(textureList)
    BY DEF NextEntry
  <1>2. \A u : In(textureList, u) <=> u = Entry \/ In(textureList', u)
    BY <1>1, ListFacts DEF IInv, TypeOK, Entry
  <1>3. LoaderInv' /\ LoaderNeverOversleeps' /\ AgainInv'
    BY <1>1 DEF LoaderInv, LoaderNeverOversleeps, AgainInv, Working
  <1>4. OwnerInv'
    BY <1>1 DEF OwnerInv, WorkingOn, displayVars
  <1>5. WaitingInv'
    BY <1>1, <1>2 DEF IInv, WaitingInv, displayVars
  <1> QED BY <1>3, <1>4, <1>5 DEF IInv

LEMMA ProcessListKeepsIInv ==
  ASSUME IInv, ProcessList
  PROVE  IInv'
  <1>1. TypeOK'
    BY LoaderTypes DEF IInv, TextureThread
  <1>2. /\ UNCHANGED <<texdata, OpenGLTexture, nodeVars, requests,
                      loaderWaiting, signalled, displayVars>>
        /\ loader = "list" /\ textureList # <<>>
        /\ Entry \in Textures
    BY ListFacts DEF ProcessList, IInv, TypeOK, Entry
  <1>3. CASE status[Entry] \notin Processable
    BY <1>1, <1>2, <1>3, NextEntryKeepsIInv
       DEF ProcessList, Processable, IInv, OwnerInv, nodeVars
  <1>4. CASE status[Entry] \in Processable
    <2>1. /\ status' = [status EXCEPT ![Entry] = "loading"]
          /\ status \in [Textures -> Statuses]
          /\ display = "move" /\ nodeType[bound] # "PixelTexture"
               => bound # Entry
      BY <1>4 DEF ProcessList, Processable, IInv, TypeOK, OwnerInv
    <2>2. /\ \A u \in Textures : u # Entry => status'[u] = status[u]
          /\ status'[Entry] = "loading"
          /\ bound \in Textures
          /\ display = "move" /\ nodeType[bound] # "PixelTexture"
               => status'[bound] = "needs_binding"
      BY <1>2, <2>1 DEF IInv, TypeOK, OwnerInv
    <2>3. CASE GiveUp
      BY <1>1, <1>2, <2>2, <2>3, NextEntryKeepsIInv DEF GiveUp, nodeVars
    <2>4. CASE loader' = "node" /\ UNCHANGED <<textureList, todo, givenUp>>
      <3>1. Entry' = Entry
        BY <2>4 DEF Entry
      <3>2. LoaderInv' /\ LoaderNeverOversleeps' /\ AgainInv'
        BY <1>2, <2>4 DEF LoaderInv, LoaderNeverOversleeps, AgainInv, Working
      <3>3. OwnerInv'
        BY <1>2, <2>2, <2>4, <3>1
           DEF OwnerInv, WorkingOn, nodeVars, displayVars
      <3>4. In(textureList, Entry)
        BY <1>2, ListFacts DEF IInv, TypeOK, Entry
      <3>5. WaitingInv'
        BY <1>2, <2>2, <2>4, <3>4 DEF IInv, WaitingInv, nodeVars, displayVars
      <3> QED BY <1>1, <3>2, <3>3, <3>5 DEF IInv
    <2> QED BY <1>4, <2>3, <2>4 DEF ProcessList
  <1> QED BY <1>3, <1>4

LEMMA GivingUpKeepsIInv ==
  ASSUME IInv, TypeOK', loader \in Working, GiveUp,
         UNCHANGED <<status, nodeVars, requests, displayVars>>
  PROVE  IInv'
  <1>1. textureList # <<>> /\ loader # "asleep" /\ NextEntry
    BY DEF IInv, LoaderInv, Working, GiveUp
  <1> QED BY <1>1, NextEntryKeepsIInv DEF IInv, OwnerInv, GiveUp, nodeVars

LEMMA LoadersKeepIInv ==
  ASSUME IInv, LoadFromMovieTexture \/ LoadFromPixelTexture \/ FillPixelTexture
  PROVE  IInv'
  <1> USE DEF entryVars
  <1>1. TypeOK'
    BY LoaderTypes DEF IInv, TextureThread
  <1>2. /\ UNCHANGED <<nodeVars, requests, displayVars>>
        /\ loader \in Working
    BY DEF LoadFromMovieTexture, LoadFromPixelTexture, FillPixelTexture,
           Working
  <1>3. textureList # <<>> /\ Entry \in Textures
    BY <1>2, ListFacts DEF IInv, LoaderInv, TypeOK, Entry
  <1>4. CASE LoadFromMovieTexture
    BY <1>1, <1>2, <1>4, GivingUpKeepsIInv DEF LoadFromMovieTexture
  <1>5. CASE LoadFromPixelTexture
    <2>1. CASE GiveUp /\ UNCHANGED <<status, texdata>>
      BY <1>1, <1>2, <2>1, GivingUpKeepsIInv
    <2>2. CASE ~(GiveUp /\ UNCHANGED <<status, texdata>>)
      <3>1. /\ status' = [status EXCEPT ![Entry] = "needs_binding"]
            /\ loader' = "fill" /\ loader = "node"
            /\ nodeType[Entry] = "PixelTexture"
            /\ UNCHANGED <<textureList, givenUp>>
            /\ Entry' = Entry
        BY <1>5, <2>2 DEF LoadFromPixelTexture, Entry
      <3>2. /\ \A u \in Textures : u # Entry => status'[u] = status[u]
            /\ status'[Entry] = "needs_binding"
        BY <1>3, <3>1 DEF IInv, TypeOK
      <3>3. LoaderInv' /\ LoaderNeverOversleeps'
        BY <1>2, <1>3, <3>1 DEF LoaderInv, LoaderNeverOversleeps, Working,
                                nodeVars
      <3>4. OwnerInv'
        BY <1>2, <3>1, <3>2
           DEF IInv, TypeOK, OwnerInv, WorkingOn, nodeVars, displayVars
      <3>5. AgainInv' /\ WaitingInv'
        BY <1>2, <3>1, <3>2
           DEF IInv, AgainInv, WaitingInv, nodeVars, displayVars
      <3> QED BY <1>1, <3>3, <3>4, <3>5 DEF IInv
    <2> QED BY <2>1, <2>2
  <1>6. CASE FillPixelTexture
    <2>1. NextEntry /\ givenUp' = givenUp \ {Entry} /\ status' = status
      BY <1>6 DEF FillPixelTexture
    <2> QED BY <1>1, <1>2, <1>3, <1>6, <2>1, NextEntryKeepsIInv
            DEF IInv, OwnerInv, AgainInv, FillPixelTexture, nodeVars
  <1> QED BY <1>4, <1>5, <1>6

LEMMA FetchersKeepIInv ==
  ASSUME IInv, CreateMulti \/ FetchUrl \/ ImageReady
  PROVE  IInv'
  <1> USE DEF entryVars
  <1>1. TypeOK'
    BY LoaderTypes DEF IInv, TextureThread
  <1>2. /\ UNCHANGED <<nodeVars, requests, loaderWaiting, signalled,
                      displayVars>>
        /\ loader \in Working
    BY DEF CreateMulti, FetchUrl, ImageReady, Working, listVars
  <1>3. textureList # <<>> /\ Entry \in Textures
    BY <1>2, ListFacts DEF IInv, LoaderInv, TypeOK, Entry
  <1>4. nodeType[Entry] = "ImageTexture"
    BY DEF IInv, LoaderInv, CreateMulti, FetchUrl, ImageReady
  \* The loader goes on with the same entry.
  <1>5. ASSUME loader' \in {"fetch", "ready"},
               UNCHANGED <<status, textureList, givenUp>>
        PROVE  IInv'
    <2>1. Entry' = Entry /\ \A u : WorkingOn(u)' = WorkingOn(u)
      BY <1>2, <1>5 DEF Entry, WorkingOn, Working
    <2>2. LoaderInv' /\ LoaderNeverOversleeps' /\ AgainInv'
      BY <1>2, <1>3, <1>4, <1>5, <2>1
         DEF LoaderInv, LoaderNeverOversleeps, AgainInv, Working, nodeVars
    <2>3. OwnerInv' /\ WaitingInv'
      BY <1>2, <1>5, <2>1 DEF IInv, OwnerInv, WaitingInv, nodeVars, displayVars
    <2> QED BY <1>1, <2>2, <2>3 DEF IInv
  <1>6. CASE CreateMulti
    BY <1>5, <1>6 DEF CreateMulti, listVars
  <1>7. CASE FetchUrl
    <2>1. CASE GiveUp /\ UNCHANGED texdata
      BY <1>1, <1>2, <1>7, <2>1, GivingUpKeepsIInv DEF FetchUrl
    <2>2. CASE ~(GiveUp /\ UNCHANGED texdata)
      BY <1>5, <1>7, <2>2 DEF FetchUrl
    <2> QED BY <2>1, <2>2
  <1>8. CASE ImageReady
    <2>1. /\ status' = [status EXCEPT ![Entry] = "needs_binding"]
          /\ NextEntry /\ givenUp' = givenUp \ {Entry}
          /\ loader # "asleep"
      BY <1>8 DEF ImageReady
    <2>2. /\ \A u \in Textures : u # Entry => status'[u] = status[u]
          /\ status'[Entry] = "needs_binding"
          /\ bound \in Textures
      BY <1>3, <2>1 DEF IInv, TypeOK
    <2> QED BY <1>1, <1>2, <1>3, <2>1, <2>2, NextEntryKeepsIInv
            DEF IInv, OwnerInv, nodeVars
  <1> QED BY <1>6, <1>7, <1>8

LEMMA NextKeepsIInv == IInv /\ [Next]_vars => IInv'
  <1> SUFFICES ASSUME IInv, [Next]_vars PROVE IInv'
    OBVIOUS
  <1>1. CASE Display
    BY <1>1, NodeEventsKeepIInv, LoadTextureNodeKeepsIInv, BindImageKeepsIInv,
       SendKeepsIInv, MoveKeepsIInv DEF Display
  <1>2. CASE LoaderWait \/ ListDone \/ ProcessList
    BY <1>2, WaitKeepsIInv, ListDoneKeepsIInv, ProcessListKeepsIInv
  <1>3. CASE TakeRequests \/ SpuriousWakeup
    BY <1>3, TakeKeepsIInv DEF TakeRequests, SpuriousWakeup
  <1>4. CASE LoadFromMovieTexture \/ LoadFromPixelTexture \/ FillPixelTexture
    BY <1>4, LoadersKeepIInv
  <1>5. CASE CreateMulti \/ FetchUrl \/ ImageReady
    BY <1>5, FetchersKeepIInv
  <1>6. CASE UNCHANGED vars
    <2>1. TypeOK'
      BY <1>6 DEF IInv, TypeOK, vars, entryVars, nodeVars, listVars,
                  displayVars
    <2>2. /\ LoaderInv' /\ LoaderNeverOversleeps'
          /\ Entry' = Entry
          /\ \A u : WorkingOn(u)' = WorkingOn(u)
      BY <1>6, OutsideKeepsLoader DEF vars, nodeVars
    <2>3. OwnerInv' /\ AgainInv' /\ WaitingInv'
      BY <1>6, <2>2 DEF IInv, OwnerInv, AgainInv, WaitingInv, vars, entryVars,
                        nodeVars, listVars, displayVars
    <2> QED BY <2>1, <2>2, <2>3 DEF IInv
  <1> QED BY <1>1, <1>2, <1>3, <1>4, <1>5, <1>6 DEF Next, TextureThread

LEMMA SpecIInv == Spec => []IInv
  <1> QED BY InitIInv, NextKeepsIInv, PTL DEF Spec

-----------------------------------------------------------------------------
(* The queue of TextureQueue. *)

\* The loader is done with the texture in front of the queue.
LEMMA NextEntryFinishes ==
  ASSUME IInv, textureList # <<>>, NextEntry, requests' = requests
  PROVE  Loading!Finish
  <1>1. textureList \in Seq(Textures) /\ requests \in Seq(Textures)
    BY DEF IInv, TypeOK
  <1>2. Tail(textureList) \o requests = Tail(textureList \o requests)
    <2> DEFINE l == Tail(textureList) \o requests
               r == Tail(textureList \o requests)
    <2>1. l \in Seq(Textures) /\ r \in Seq(Textures)
      BY <1>1
    <2>2. /\ Len(l) = Len(textureList) - 1 + Len(requests)
          /\ Len(r) = Len(textureList) + Len(requests) - 1
      BY <1>1
    <2>3. ASSUME NEW i \in 1..Len(l) PROVE l[i] = r[i]
      BY <1>1, <2>2
    <2> HIDE DEF l, r
    <2> QED BY <2>1, <2>2, <2>3
  <1>3. textureList \o requests # <<>>
    BY <1>1
  <1> QED BY <1>2, <1>3 DEF Loading!Finish, Queue, NextEntry

\* A step of the two threads is one of the queue, or the queue does not see it.
LEMMA QueueStep == IInv /\ [Next]_vars => [Loading!Next]_Queue
  <1> SUFFICES ASSUME IInv, [Next]_vars
               PROVE  Loading!Finish \/ UNCHANGED Queue
                        \/ \E t \in Textures : Loading!Ask(t)
    BY DEF Loading!Next
  <1>1. textureList \in Seq(Textures) /\ requests \in Seq(Textures)
    BY DEF IInv, TypeOK
  <1>2. ASSUME UNCHANGED <<textureList, requests>> PROVE UNCHANGED Queue
    BY <1>2 DEF Queue
  <1>3. CASE SendTextureToLoader
    <2>1. /\ bound \in Textures
          /\ textureList \o Append(requests, bound)
               = Append(textureList \o requests, bound)
      BY <1>1 DEF IInv, TypeOK
    <2>2. Loading!Ask(bound)
      BY <1>3, <2>1 DEF Loading!Ask, Queue, SendTextureToLoader
    <2> QED BY <2>1, <2>2
  <1>4. CASE \/ \E t \in Textures : ChangeUrl(t) \/ KillNode(t)
                                     \/ LoadTextureNode(t)
             \/ BindImage \/ MoveTextureToOpenGL
    BY <1>2, <1>4 DEF ChangeUrl, KillNode, LoadTextureNode, BindImage,
                      MoveTextureToOpenGL, listVars
  <1>5. CASE LoaderWait \/ ListDone \/ CreateMulti
    BY <1>2, <1>5 DEF LoaderWait, ListDone, CreateMulti, listVars
  <1>6. CASE TakeRequests \/ SpuriousWakeup
    <2>1. textureList = <<>> /\ textureList' = requests /\ requests' = <<>>
      BY <1>6 DEF TakeRequests, SpuriousWakeup, TakeList, TakenFrom, IInv,
                  LoaderInv
    <2>2. <<>> \o requests = requests /\ requests \o <<>> = requests
      BY <1>1
    <2> QED BY <2>1, <2>2 DEF Queue
  <1>7. CASE ProcessList
    <2>1. textureList # <<>> /\ requests' = requests
      BY <1>7 DEF ProcessList
    <2>2. NextEntry \/ UNCHANGED <<textureList, requests>>
      BY <1>7, <2>1 DEF ProcessList, GiveUp
    <2> QED BY <1>2, <2>1, <2>2, NextEntryFinishes
  <1>8. CASE \/ LoadFromMovieTexture \/ LoadFromPixelTexture
             \/ FillPixelTexture \/ FetchUrl \/ ImageReady
    <2>1. textureList # <<>> /\ requests' = requests
      BY <1>8 DEF LoadFromMovieTexture, LoadFromPixelTexture, FillPixelTexture,
                  FetchUrl, ImageReady, IInv, LoaderInv, Working
    <2>2. NextEntry \/ UNCHANGED <<textureList, requests>>
      BY <1>8, <2>1 DEF LoadFromMovieTexture, LoadFromPixelTexture,
                        FillPixelTexture, FetchUrl, ImageReady, GiveUp
    <2> QED BY <1>2, <2>1, <2>2, NextEntryFinishes
  <1>9. CASE UNCHANGED vars
    BY <1>2, <1>9 DEF vars, listVars
  <1> QED BY <1>3, <1>4, <1>5, <1>6, <1>7, <1>8, <1>9
          DEF Next, Display, TextureThread

-----------------------------------------------------------------------------
(* The theorems. *)

\* A status stays one of the TEX_ constants and the lists hold textures.
THEOREM TypeCorrect == Spec => []TypeOK
  <1>1. IInv => TypeOK
    BY DEF IInv
  <1> QED BY <1>1, SpecIInv, PTL

\* The texture thread never sleeps on a request without a signal on its way,
\* spurious wake-ups or not: no wake-up is lost.
THEOREM NeverOversleeps == Spec => []LoaderNeverOversleeps
  <1>1. IInv => LoaderNeverOversleeps
    BY DEF IInv
  <1> QED BY <1>1, SpecIInv, PTL

\* Without a lock on status and texdata, the two threads still never hold the
\* image of one texture at a time, but for pixel textures.
THEOREM OneOwner == Spec => []ImageOwnedByOne
  <1>1. IInv => ImageOwnedByOne
    BY DEF IInv, OwnerInv, ImageOwnedByOne
  <1> QED BY <1>1, SpecIInv, PTL

\* A texture that new_bind_image only waits for is in the queue, or the loader
\* has given it up: no request gets lost.
THEOREM NoRequestLost == Spec => []WaitingIsForSomething
  <1>1. IInv => WaitingIsForSomething
    BY QueuedIn DEF IInv, WaitingInv, WaitingIsForSomething
  <1> QED BY <1>1, SpecIInv, PTL

\* The request list, the loader's copy and the wake-up behave as one queue;
\* that it is worked on (FairSpec) is left to the runs.
THEOREM ImplementsQueue == Spec => Loading!Spec
  <1>1. Init => Loading!Init
    <2>1. <<>> \o <<>> = <<>>
      OBVIOUS
    <2> QED BY <2>1 DEF Init, Loading!Init, Queue
  <1> QED BY <1>1, QueueStep, SpecIInv, PTL DEF Spec, Loading!Spec
=============================================================================
