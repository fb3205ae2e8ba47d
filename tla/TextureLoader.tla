---------------------------- MODULE TextureLoader ---------------------------
(***************************************************************************)
(* The hand-off of textures between the display thread (new_bind_image,    *)
(* loadTextureNode and releaseTexture in src/lib/opengl/Textures.c) and the*)
(* texture thread (_textureThread in src/lib/opengl/LoadTextures.c).       *)
(*                                                                         *)
(* texture_request_list and loader_waiting are touched only under          *)
(* mutex_texture_list, so each critical section is one step here.  The     *)
(* status, texdata and node of a table entry are shared with no lock: every*)
(* access to them that the other thread can come between is a step of its  *)
(* own.                                                                    *)
(***************************************************************************)
EXTENDS Naturals, Sequences

CONSTANTS Textures,         \* texture nodes, one activeTextureTable entry each
          NodeTypings,      \* what types the texture nodes of a scene have
          Files,            \* what a url can name
          Missing,          \* the files resource_fetch cannot get
          NotImage,         \* the files texture_load_from_file cannot read
          UrlFields,        \* values of the url field, sequences of files
          NoFile,
          MaxChanges,       \* bound: changes of url fields
          SpuriousWakeups   \* may pthread_cond_wait return unsignalled?

NodeTypes == {"ImageTexture", "PixelTexture", "MovieTexture"}

ASSUME TextureAssumption ==
  /\ NodeTypings \subseteq [Textures -> NodeTypes]
  /\ Missing \subseteq Files /\ NotImage \subseteq Files
  /\ UrlFields \subseteq Seq(Files)
  /\ NoFile \notin Files
  /\ MaxChanges \in Nat
  /\ SpuriousWakeups \in BOOLEAN

VARIABLES
  nodeType,      \* nodeType of each texture node; it never changes
  status,        \* status of the table entry
  texdata,       \* the image in memory, named by its file
  OpenGLTexture, \* the image given to OpenGL
  url,           \* the url field of the node (of a pixel texture: its image)
  changed,       \* NODE_NEEDS_COMPILING
  alive,         \* checkNode finds the node
  requests,      \* texture_request_list
  textureList,   \* texture_list, the loader's own copy
  loaderWaiting, \* loader_waiting
  signalled,     \* a signal has reached the loader inside pthread_cond_wait
  loader,        \* where the texture thread is
  todo,          \* m_request of the resource the loader is working on
  display,       \* where the display thread is
  bound,         \* the texture the display thread is binding
  givenUp,       \* history: textures whose last service found no image
  changes        \* bound counter

entryVars   == <<status, texdata, OpenGLTexture>>
nodeVars    == <<nodeType, url, changed, alive, changes>>
listVars    == <<requests, textureList, loaderWaiting, signalled>>
loaderVars  == <<textureList, loader, todo>>
displayVars == <<display, bound>>
vars == <<entryVars, nodeVars, listVars, loader, todo, displayVars, givenUp>>

Statuses == {"not_loaded", "loading", "needs_binding", "loaded"}

Images == Files \ (Missing \cup NotImage)

(* registerTexture allocates the entry with malloc and sets neither status *)
(* nor OpenGLTexture; the first loadTextureNode finds a node that needs    *)
(* compiling and releases the entry before it reads the status.            *)
Init ==
  /\ nodeType \in NodeTypings
  /\ status \in [Textures -> Statuses]
  /\ texdata = [t \in Textures |-> NoFile]
  /\ OpenGLTexture = [t \in Textures |-> NoFile]
  /\ url \in [Textures -> UrlFields]
  /\ changed = [t \in Textures |-> TRUE]
  /\ alive = [t \in Textures |-> TRUE]
  /\ requests = <<>>
  /\ textureList = <<>>
  /\ loaderWaiting = FALSE
  /\ signalled = FALSE
  /\ loader = "lock"
  /\ todo = <<>>
  /\ display = "frame"
  /\ bound \in Textures
  /\ givenUp = {}
  /\ changes = 0

-----------------------------------------------------------------------------
(* The display thread.  Events, killNode and rendering take turns in it.   *)

ChangeUrl(t) ==
  /\ display = "frame"
  /\ alive[t]
  /\ changes < MaxChanges
  /\ \E u \in UrlFields \ {url[t]} : url' = [url EXCEPT ![t] = u]
  /\ changed' = [changed EXCEPT ![t] = TRUE]
  /\ changes' = changes + 1
  /\ UNCHANGED <<nodeType, entryVars, alive, listVars, loader, todo,
                 displayVars, givenUp>>

KillNode(t) ==
  /\ display = "frame"
  /\ alive[t]
  /\ alive' = [alive EXCEPT ![t] = FALSE]
  /\ UNCHANGED <<nodeType, entryVars, url, changed, changes, listVars, loader,
                 todo, displayVars, givenUp>>

\* Mutant: a changed node does not release its entry.
MutReleased(t) == status[t]

\* Mutant: the wrong one of the TEX_ constants.
MutReleasedTo(t) == "unsquashed"

\* releaseTexture, whatever the loader is doing with the entry.
Released(t) == "not_loaded"

\* loadTextureNode.
LoadTextureNode(t) ==
  /\ display = "frame"
  /\ alive[t]
  /\ IF changed[t]
     THEN /\ status' = [status EXCEPT ![t] = Released(t)]
          /\ OpenGLTexture' = [OpenGLTexture EXCEPT ![t] = NoFile]
          /\ changed' = [changed EXCEPT ![t] = FALSE]
     ELSE UNCHANGED <<status, OpenGLTexture, changed>>
  /\ display' = "bind"
  /\ bound' = t
  /\ UNCHANGED <<nodeType, texdata, url, alive, changes, listVars, loader, todo,
                 givenUp>>

\* new_bind_image: the switch on the status.
BindImage ==
  /\ display = "bind"
  /\ display' = CASE status[bound] = "not_loaded"    -> "send"
                  [] status[bound] = "needs_binding" -> "move"
                  [] OTHER                           -> "frame"
  /\ status' = IF status[bound] = "not_loaded"
               THEN [status EXCEPT ![bound] = "loading"] ELSE status
  /\ UNCHANGED <<texdata, OpenGLTexture, nodeVars, listVars, loader, todo,
                 bound, givenUp>>

\* Mutant: the loader is signalled only for a list that was not empty.
MutWakesLoader == loaderWaiting /\ requests # <<>>

WakesLoader == loaderWaiting

\* A signal sent while the loader is not inside pthread_cond_wait is lost.
SendTextureToLoader ==
  /\ display = "send"
  /\ requests' = Append(requests, bound)
  /\ signalled' = (signalled \/ (WakesLoader /\ loader = "asleep"))
  /\ display' = "frame"
  /\ UNCHANGED <<entryVars, nodeVars, textureList, loaderWaiting, loader,
                 todo, bound, givenUp>>

(* move_texture_to_opengl: texdata is given to OpenGL and freed, then the  *)
(* status is set.  TEXTURE_INVALID is 0, the value of TEX_NOTLOADED.       *)
MoveTextureToOpenGL ==
  /\ display = "move"
  /\ IF alive[bound]
     THEN /\ OpenGLTexture' = [OpenGLTexture EXCEPT ![bound] = texdata[bound]]
          /\ texdata' = [texdata EXCEPT ![bound] = NoFile]
          /\ status' = [status EXCEPT ![bound] = "loaded"]
     ELSE /\ status' = [status EXCEPT ![bound] = "not_loaded"]
          /\ UNCHANGED <<texdata, OpenGLTexture>>
  /\ display' = "frame"
  /\ UNCHANGED <<nodeVars, listVars, loader, todo, bound, givenUp>>

Display ==
  \/ \E t \in Textures : ChangeUrl(t) \/ KillNode(t) \/ LoadTextureNode(t)
  \/ BindImage
  \/ SendTextureToLoader
  \/ MoveTextureToOpenGL

-----------------------------------------------------------------------------
(* The texture thread. *)

LoaderWait ==
  /\ loader = "lock"
  /\ requests = <<>>
  /\ loaderWaiting' = TRUE
  /\ signalled' = FALSE
  /\ loader' = "asleep"
  /\ UNCHANGED <<entryVars, nodeVars, requests, textureList, todo, displayVars,
                 givenUp>>

\* Mutant: the request list is copied and not emptied.
MutTakenFrom == requests

\* What is left of texture_request_list once the loader has copied it.
TakenFrom == <<>>

(* With the mutex: take the whole request list.  The list is tested with   *)
(* "if", so after a spurious wake-up the copy may be empty.                *)
TakeList ==
  /\ textureList' = requests
  /\ requests' = TakenFrom
  /\ loaderWaiting' = FALSE
  /\ signalled' = FALSE
  /\ loader' = "list"
  /\ UNCHANGED <<entryVars, nodeVars, todo, displayVars, givenUp>>

TakeRequests ==
  /\ \/ loader = "lock" /\ requests # <<>>
     \/ loader = "asleep" /\ signalled
  /\ TakeList

SpuriousWakeup ==
  /\ SpuriousWakeups
  /\ loader = "asleep" /\ ~signalled
  /\ TakeList

ListDone ==
  /\ loader = "list"
  /\ textureList = <<>>
  /\ loader' = "lock"
  /\ UNCHANGED <<entryVars, nodeVars, listVars, todo, displayVars, givenUp>>

Entry == Head(textureList)

\* ml_delete_self: the loader is done with the head of its list.
NextEntry ==
  /\ loader' = "list"
  /\ textureList' = Tail(textureList)
  /\ todo' = <<>>

GiveUp == NextEntry /\ givenUp' = givenUp \cup {Entry}

\* Mutant: an entry is worked on whatever its status.
MutProcessable == Statuses

\* The statuses for which texture_process_list calls texture_process_entry.
Processable == {"loading", "not_loaded"}

(* texture_process_list and the start of texture_process_entry.  An entry  *)
(* that is bound or ready already is dropped.                              *)
ProcessList ==
  /\ loader = "list"
  /\ textureList # <<>>
  /\ IF status[Entry] \in Processable
     THEN /\ status' = [status EXCEPT ![Entry] = "loading"]
          /\ IF alive[Entry]
             THEN /\ loader' = "node"
                  /\ UNCHANGED <<textureList, todo, givenUp>>
             ELSE GiveUp
     ELSE NextEntry /\ UNCHANGED <<status, givenUp>>
  /\ UNCHANGED <<texdata, OpenGLTexture, nodeVars, requests, loaderWaiting,
                 signalled, displayVars>>

LoadFromMovieTexture ==
  /\ loader = "node"
  /\ nodeType[Entry] = "MovieTexture"
  /\ GiveUp
  /\ UNCHANGED <<entryVars, nodeVars, requests, loaderWaiting, signalled,
                 displayVars>>

(* texture_load_from_pixelTexture sets TEX_NEEDSBINDING when it has        *)
(* allocated texdata and then fills it in.                                 *)
LoadFromPixelTexture ==
  /\ loader = "node"
  /\ nodeType[Entry] = "PixelTexture"
  /\ IF url[Entry] # <<>> /\ Head(url[Entry]) \in Images
     THEN /\ texdata' = [texdata EXCEPT ![Entry] = Head(url[Entry])]
          /\ status' = [status EXCEPT ![Entry] = "needs_binding"]
          /\ loader' = "fill"
          /\ UNCHANGED <<textureList, todo, givenUp>>
     ELSE GiveUp /\ UNCHANGED <<status, texdata>>
  /\ UNCHANGED <<OpenGLTexture, nodeVars, requests, loaderWaiting, signalled,
                 displayVars>>

FillPixelTexture ==
  /\ loader = "fill"
  /\ NextEntry
  /\ givenUp' = givenUp \ {Entry}
  /\ UNCHANGED <<entryVars, nodeVars, requests, loaderWaiting, signalled,
                 displayVars>>

\* resource_create_multi copies the url field.
CreateMulti ==
  /\ loader = "node"
  /\ nodeType[Entry] = "ImageTexture"
  /\ todo' = url[Entry]
  /\ loader' = "fetch"
  /\ UNCHANGED <<entryVars, nodeVars, listVars, displayVars, givenUp>>

(* One round of the loop of texture_process_entry: it ends when the urls   *)
(* are used up or a file was downloaded, even one that is no image.        *)
FetchUrl ==
  /\ loader = "fetch"
  /\ IF \/ todo = <<>>
        \/ Len(todo) = 1 /\ Head(todo) \in Missing
        \/ Head(todo) \in NotImage
     THEN GiveUp /\ UNCHANGED texdata
     ELSE /\ IF Head(todo) \in Missing
             THEN todo' = Tail(todo) /\ UNCHANGED <<loader, texdata>>
             ELSE /\ texdata' = [texdata EXCEPT ![Entry] = Head(todo)]
                  /\ loader' = "ready"
                  /\ UNCHANGED todo
          /\ UNCHANGED <<textureList, givenUp>>
  /\ UNCHANGED <<status, OpenGLTexture, nodeVars, requests, loaderWaiting,
                 signalled, displayVars>>

ImageReady ==
  /\ loader = "ready"
  /\ status' = [status EXCEPT ![Entry] = "needs_binding"]
  /\ NextEntry
  /\ givenUp' = givenUp \ {Entry}
  /\ UNCHANGED <<texdata, OpenGLTexture, nodeVars, requests, loaderWaiting,
                 signalled, displayVars>>

TextureThread ==
  \/ LoaderWait \/ TakeRequests \/ ListDone \/ ProcessList
  \/ LoadFromMovieTexture \/ LoadFromPixelTexture \/ FillPixelTexture
  \/ CreateMulti \/ FetchUrl \/ ImageReady

Next == Display \/ TextureThread \/ SpuriousWakeup

Spec == Init /\ [][Next]_vars

(* Both threads run; no spurious wake-up is promised.  Every frame renders *)
(* every texture that is in sight, whatever events it also delivers: strong*)
(* fairness of each LoadTextureNode, which the other work of the display   *)
(* thread disables again and again.                                        *)
FairSpec ==
  /\ Spec
  /\ WF_vars(TextureThread)
  /\ WF_vars(BindImage \/ SendTextureToLoader \/ MoveTextureToOpenGL)
  /\ \A t \in Textures : SF_vars(LoadTextureNode(t))

-----------------------------------------------------------------------------
(* Properties. *)

TypeOK ==
  /\ nodeType \in [Textures -> NodeTypes]
  /\ status \in [Textures -> Statuses]
  /\ texdata \in [Textures -> Files \cup {NoFile}]
  /\ OpenGLTexture \in [Textures -> Files \cup {NoFile}]
  /\ url \in [Textures -> UrlFields]
  /\ changed \in [Textures -> BOOLEAN]
  /\ alive \in [Textures -> BOOLEAN]
  /\ requests \in Seq(Textures)
  /\ textureList \in Seq(Textures)
  /\ loaderWaiting \in BOOLEAN
  /\ signalled \in BOOLEAN
  /\ loader \in {"lock", "asleep", "list", "node", "fill", "fetch", "ready"}
  /\ todo \in Seq(Files)
  /\ display \in {"frame", "bind", "send", "move"}
  /\ bound \in Textures
  /\ givenUp \subseteq Textures
  /\ changes \in 0..MaxChanges

Queue == textureList \o requests

Queued(t) == \E i \in DOMAIN Queue : Queue[i] = t

\* "a condition signal before a condition wait is an error": the loader never
\* sleeps on a request that is in the list without a signal on its way.
LoaderNeverOversleeps ==
  loader = "asleep" /\ ~signalled => requests = <<>>

WorkingOn(t) ==
  loader \in {"node", "fill", "fetch", "ready"} /\ t = Entry

\* An image ready for OpenGL belongs to the display thread, which frees it:
\* the texture thread is not at work on that entry, however often the entry
\* was released and sent again meanwhile.  A PixelTexture is the exception:
\* texture_load_from_pixelTexture gives the image away before it has filled
\* it in.
ImageOwnedByOne ==
  \A t \in Textures :
    /\ nodeType[t] # "PixelTexture"
    /\ \/ status[t] = "needs_binding" /\ ~changed[t]
       \/ display = "move" /\ t = bound
    => ~WorkingOn(t)

\* A compiled texture that new_bind_image only waits for is known to the
\* loader, or the loader has already found no image for it.
WaitingIsForSomething ==
  \A t \in Textures :
    status[t] = "loading" /\ ~changed[t]
      => Queued(t) \/ t \in givenUp \/ (display = "send" /\ bound = t)

\* A texture in sight gets to the screen, or no image of it can be loaded.
TextureSettles ==
  \A t \in Textures :
    status[t] \in {"not_loaded", "loading", "needs_binding"}
      ~> status[t] = "loaded" \/ t \in givenUp \/ ~alive[t]

Quiet(t) ==
  /\ alive[t] /\ ~changed[t]
  /\ Queue = <<>>
  /\ display = "frame"

\* "force a node reload - make it a new texture": when nothing is left to do,
\* a texture shows the image its url field names.
ShownIsCurrent ==
  \A t \in Textures :
    Quiet(t) /\ status[t] = "loaded" /\ OpenGLTexture[t] # NoFile
      => \E i \in DOMAIN url[t] : url[t][i] = OpenGLTexture[t]

Loading == INSTANCE TextureQueue WITH queue <- Queue

\* The request list, the loader's copy of it and the wake-up implement one
\* queue, first come first served, and every texture asked for is worked on.
ImplementsFairQueue == Loading!FairSpec
=============================================================================
