----------------------------- MODULE SceneGraph -----------------------------
(***************************************************************************)
(* Nodes, their parents and children, and their memory: AddRemoveChildren  *)
(* (src/lib/vrml_parser/CRoutes.c), add_parent and remove_parent           *)
(* (scenegraph/RenderFuncs.c), markForDispose, killNode and                *)
(* startOfLoopNodeUpdates (opengl/OpenGL_Utils.c), the Groups and their    *)
(* sorted copy of the children, Inlines, and what replaces a world.        *)
(*                                                                         *)
(* All of it runs in the display thread, which waits for the parser when   *)
(* it sends it something; only the first world is parsed while frames go   *)
(* on.  Order among children is not modelled: a list is a bag, the number  *)
(* of times each node is on it.  Nodes in SFNode fields (an appearance, a  *)
(* geometry) belong to the Leaves.                                         *)
(***************************************************************************)
EXTENDS ResourceLadder, Integers, FiniteSets, FiniteSetsExt

CONSTANTS Groups, Inlines, Leaves,
          Root,             \* rootNode(), which is not in the memory table
          Worlds, Strings,  \* files an anchor leads to, texts of createVrml
          FirstWorld,
          FileOf,           \* the file of each Inline
          Tops,             \* the nodes at the top of a file or text
          Parts,            \* all its nodes
          Content,          \* the children a Group is parsed with
          AnswerGroup,      \* the retGroup made for a text
          Sends,            \* field and way of the calls of getMFNodetype
          Settle,           \* 10: a disposed node is counted down to -Settle
          MaxCalls, MaxReplacements, MaxGiven  \* bounds; nodes for EAI_RW

Nodes == Groups \cup Inlines \cup Leaves
Sorters == Groups \cup {Root}
Holders == Nodes \cup {Root}
Fields == {"children", "addChildren", "removeChildren"}
Files == Worlds \cup Strings \cup {FirstWorld} \cup {FileOf[i] : i \in Inlines}
Ways == {"set", "add", "remove"}        \* ar: 0, 1, 2

ASSUME SceneAssumption ==
  /\ Root \notin Nodes
  /\ IsFiniteSet(Nodes)
  /\ Settle \in Nat \ {0}
  /\ MaxCalls \in Nat /\ MaxReplacements \in Nat /\ MaxGiven \in Nat
  /\ \A f \in Files : Tops[f] \subseteq Parts[f] /\ Parts[f] \subseteq Nodes
  /\ \A f, g \in Files : f = g \/ Parts[f] \cap Parts[g] = {}
  /\ Content \in [Groups -> SUBSET Nodes]
  /\ \A f \in Files : \A g \in Groups \cap Parts[f] : Content[g] \subseteq Parts[f]
  /\ AnswerGroup \in [Strings -> Groups]
  /\ \A f \in Files, s \in Strings : AnswerGroup[s] \notin Parts[f]
  /\ \A s \in Strings : Content[AnswerGroup[s]] = {}
  /\ Sends \subseteq Fields \X Ways

VARIABLES there,     \* there[n]: not made yet, in memory, freed
          ref,       \* referenceCount
          field,     \* field[f][h][n]: how often n stands in field f of h
          sorted,    \* _sortedChildren
          junk,      \* ... was allocated anew and is not filled
          changed,   \* _change differs from _ichange
          parents,   \* parents[n][h]: how often h stands in _parentVector of n
          status, resource,   \* __loadstatus and __loadResource of an Inline
          toLoad,    \* loadInlines, the vector of one frame
          startup,   \* the first world: not sent, parsed by the parser, done
          phase,     \* of the display thread: between frames, ready to draw...
          old,       \* history: nodes of the worlds that were replaced
          reused,    \* history: those of them that a client kept or gave again
          calls, replacements      \* bound counters

memory == <<there, ref>>
lists == <<field, sorted, junk, changed, parents>>
inlines == <<status, resource, toLoad>>
history == <<old, reused>>
vars == <<memory, lists, inlines, startup, phase, history, calls, replacements>>

-----------------------------------------------------------------------------
(* Bags of nodes. *)

NoNodes == [n \in Nodes |-> 0]
Only(S) == [n \in Nodes |-> IF n \in S THEN 1 ELSE 0]
Less(a, b) == IF a > b THEN a - b ELSE 0
Listed(bag) == {n \in Nodes : bag[n] > 0}
Length(bag) == MapThenSumSet(LAMBDA n : bag[n], Nodes)

(* All that is reached from S where next[h] are the holders one step on.   *)
Closure(S, next) ==
  LET from[T \in SUBSET Holders] ==
        LET more == T \cup UNION {next[h] : h \in T}
        IN  IF more = T THEN T ELSE from[more]
  IN  from[S]

Living(n) == n = Root \/ there[n] = "there"
(* In the memory table and not disposed of. *)
Wanted(n) == there[n] = "there" /\ ref[n] > 0

HoldersOf(h, par) == IF h = Root THEN {} ELSE {p \in Holders : par[h][p] > 0}

\* Mutant: what is above the nodes is marked, the nodes are not.
MutAbove(S, par) ==
  Closure(UNION {HoldersOf(h, par) : h \in S},
          [h \in Holders |-> HoldersOf(h, par)])

(* update_node marks a node and, by their parent vectors, all above it. *)
Above(S, par) == S \cup Closure(S, [h \in Holders |-> HoldersOf(h, par)])

-----------------------------------------------------------------------------
(* AddRemoveChildren(h, f, the nodes of the bag, way): the field, the      *)
(* parent vectors and what update_node marks.                              *)

\* How often a node is listed, of before times, when it is given.
CountAfter(before, given, way) ==
  CASE way = "set" -> given
    [] way = "add" -> before + given
    [] way = "remove" -> Less(before, given)

\* Mutant: a holder that has an entry does not get another one.
MutEntriesAfter(entries, before, given, way) ==
  CASE way = "set" -> Less(entries, before) + given
    [] way = "add" -> IF entries > 0 THEN entries ELSE given
    [] way = "remove" -> Less(entries, before - Less(before, given))

\* Its entries for the holder; remove_parent takes one out, if there is one.
EntriesAfter(entries, before, given, way) ==
  CASE way = "set" -> Less(entries, before) + given
    [] way = "add" -> entries + given
    [] way = "remove" -> Less(entries, before - Less(before, given))

AddRemoveChildren(h, f, bag, way) ==
  IF Listed(bag) = {} THEN UNCHANGED <<field, parents, changed>>
  ELSE /\ field' = [field EXCEPT ![f][h] =
                      [n \in Nodes |-> CountAfter(@[n], bag[n], way)]]
       /\ parents' = [n \in Nodes |-> [parents[n] EXCEPT ![h] =
                        EntriesAfter(@, field[f][h][n], bag[n], way)]]
       /\ LET marked == Above({h}, parents')
          IN  changed' = [s \in Sorters |-> changed[s] \/ s \in marked]

(* The parser makes the nodes of file f and puts the top ones into field   *)
(* children of h, by way of a group nRn which is left over empty.  A node  *)
(* begins with a count of one, however often it is USEd.                   *)
Parse(f, h, answer) ==
  LET made == Parts[f] \cup answer
  IN  /\ \A n \in made : there[n] = "unborn"
      /\ there' = [n \in Nodes |-> IF n \in made THEN "there" ELSE there[n]]
      /\ field' = [field EXCEPT !["children"] = [k \in Holders |->
                     [n \in Nodes |->
                        @[k][n]
                        + (IF k \in Parts[f] \cap Groups THEN Only(Content[k])[n] ELSE 0)
                        + (IF k = h THEN Only(Tops[f])[n] ELSE 0)]]]
      /\ parents' = [n \in Nodes |-> [k \in Holders |->
                     parents[n][k]
                     + (IF k \in Parts[f] \cap Groups THEN Only(Content[k])[n] ELSE 0)
                     + (IF k = h THEN Only(Tops[f])[n] ELSE 0)]]
      /\ LET marked == made \cup IF Tops[f] = {} THEN {} ELSE Above({h}, parents')
         IN  changed' = [s \in Sorters |-> changed[s] \/ s \in marked]

-----------------------------------------------------------------------------
(* The first world: the main thread sends it, with new_root set; the       *)
(* parser works on it while the display thread runs frames.                *)

SendFirstWorld ==
  /\ startup = "none"
  /\ startup' = "parsing"
  /\ field' = [field EXCEPT !["children"][Root] = NoNodes]
  /\ changed' = [changed EXCEPT ![Root] = TRUE]
  /\ UNCHANGED <<memory, sorted, junk, parents, inlines, phase, history, calls,
                 replacements>>

ParserDone ==
  /\ startup = "parsing"
  /\ startup' = "done"
  /\ \/ /\ Parse(FirstWorld, Root, {})
        /\ ref' = [n \in Nodes |-> IF n \in Parts[FirstWorld] THEN 1 ELSE ref[n]]
     \/ UNCHANGED <<memory, field, parents, changed>>
  /\ UNCHANGED <<sorted, junk, inlines, phase, history, calls, replacements>>

-----------------------------------------------------------------------------
(* A frame.  startOfLoopNodeUpdates counts disposed nodes down and frees   *)
(* them (killNode), sorts the root and every Group (sortChildren, here     *)
(* only its new allocation), and serves addChildren and removeChildren.    *)

\* Mutant: a node waits one frame longer.
MutSettled(count) == count < -Settle

Settled(count) == count <= -Settle

Unsorted(s) == Length(field["children"][s]) # Length(sorted[s])

HasWork(g) == Listed(field["addChildren"][g]) # {}
              \/ Listed(field["removeChildren"][g]) # {}

(* The children of g, and the entries of n for g, when its addChildren and *)
(* then its removeChildren have been served.                               *)
Added(g, n) == CountAfter(field["children"][g][n], field["addChildren"][g][n], "add")
Served(g) == [n \in Nodes |->
                CountAfter(Added(g, n), field["removeChildren"][g][n], "remove")]
EntriesServed(n, g) ==
  EntriesAfter(EntriesAfter(parents[n][g], field["children"][g][n],
                            field["addChildren"][g][n], "add"),
               Added(g, n), field["removeChildren"][g][n], "remove")

Unloaded == {i \in Inlines : Wanted(i) /\ status[i] # "stable"}

NodeUpdates ==
  LET dying == {n \in Nodes : there[n] = "there" /\ ref[n] <= 0}
      gone == {n \in dying : Settled(ref[n] - 1)}
      busy == {g \in Groups : Wanted(g)}
      work == {g \in busy : HasWork(g)}
  IN  /\ phase \in {"events", "update"} /\ startup # "parsing"
      /\ phase' = "draw"
      /\ there' = [n \in Nodes |-> IF n \in gone THEN "freed" ELSE there[n]]
      /\ ref' = [n \in Nodes |-> IF n \in dying THEN ref[n] - 1 ELSE ref[n]]
      /\ field' = [f \in Fields |-> [h \in Holders |->
                     CASE h \in gone -> NoNodes
                       [] h \in busy /\ f = "children" -> Served(h)
                       [] h \in busy /\ f # "children" -> NoNodes
                       [] OTHER -> field[f][h]]]
      /\ parents' = [n \in Nodes |-> [h \in Holders |->
                       CASE n \in gone -> 0
                         [] n \notin gone /\ h \in busy -> EntriesServed(n, h)
                         [] OTHER -> parents[n][h]]]
      /\ sorted' = [s \in Sorters |-> IF s \in gone THEN NoNodes ELSE sorted[s]]
      /\ junk' = [s \in Sorters |->
                    \/ junk[s]
                    \/ (s \in busy \cup {Root} /\ Unsorted(s)
                        /\ Listed(sorted[s]) # {})]
      /\ LET marked == Above(work, parents')
         IN  changed' = [s \in Sorters |-> changed[s] \/ s \in marked]
      /\ toLoad' = Unloaded
      /\ UNCHANGED <<status, resource, startup, history, calls, replacements>>

(* ... and returns at once while the parser is at work. *)
NoUpdates ==
  /\ phase = "events" /\ startup = "parsing"
  /\ phase' = "draw"
  /\ UNCHANGED <<memory, lists, inlines, startup, history, calls, replacements>>

-----------------------------------------------------------------------------
(* load_Inline, for every Inline that was found; a file is sent to the     *)
(* parser and the display thread waits for it.                             *)

\* Mutant: whatever was not downloaded is tried again.
MutAfterFetch(r) == IF r.status = "downloaded" THEN "parsing" ELSE "fetching"

AfterFetch(r) == CASE r.status = "downloaded" -> "parsing"
                   [] r.status = "failed" /\ r.urls > 0 -> "fetching"
                   [] OTHER -> "stable"

\* What the parser thread leaves of a downloaded resource.
Processed(r) == {IF p.remove THEN p.res ELSE Finish(p.res) : p \in ProcessRes(r)}

Begin(i) ==
  /\ status[i] = "initial"
  /\ \E r \in CreateMulti :
       IF r.urls = 0
       THEN status' = [status EXCEPT ![i] = "stable"] /\ UNCHANGED resource
       ELSE /\ status' = [status EXCEPT ![i] = "fetching"]
            /\ resource' = [resource EXCEPT ![i] = r]
  /\ UNCHANGED <<memory, field, parents, changed>>

FetchInline(i) ==
  /\ status[i] = "fetching"
  /\ \E r \in UNION {Fetch(x) : x \in Identify(resource[i])} :
       /\ status' = [status EXCEPT ![i] = AfterFetch(r)]
       /\ CASE AfterFetch(r) = "parsing" ->
                 \E p \in Processed([r EXCEPT !.media = "unknown"]) :
                   /\ resource' = [resource EXCEPT ![i] = p]
                   /\ \/ /\ p.status = "parsed"
                         /\ Parse(FileOf[i], i, {})
                         /\ ref' = [n \in Nodes |->
                                      IF n \in Parts[FileOf[i]] THEN 1 ELSE ref[n]]
                      \/ UNCHANGED <<memory, field, parents, changed>>
            [] AfterFetch(r) = "fetching" ->
                 /\ resource' = [resource EXCEPT ![i] =
                                   [r EXCEPT !.status = "invalid", !.type = "multi"]]
                 /\ UNCHANGED <<memory, field, parents, changed>>
            [] OTHER ->
                 /\ resource' = [resource EXCEPT ![i] = r]
                 /\ UNCHANGED <<memory, field, parents, changed>>

WaitParsed(i) ==
  /\ status[i] = "parsing"
  /\ status' = [status EXCEPT ![i] = IF resource[i].status = "parsed"
                                     THEN "stable" ELSE @]
  /\ UNCHANGED <<resource, memory, field, parents, changed>>

LoadInline ==
  /\ phase = "draw"
  /\ \E i \in toLoad :
       /\ Begin(i) \/ FetchInline(i) \/ WaitParsed(i)
       /\ toLoad' = toLoad \ {i}
  /\ UNCHANGED <<sorted, junk, startup, phase, history, calls, replacements>>

(* The passes of render_hier.  A Group that changed is compiled when it is *)
(* reached: it copies its children; then it shows the copy.                *)
Shown(h) ==
  {n \in Nodes : /\ Living(h) /\ h \notin Leaves
                 /\ IF h \in Sorters /\ ~changed[h]
                    THEN ~junk[h] /\ sorted[h][n] > 0
                    ELSE field["children"][h][n] > 0}

View == Closure({Root}, [h \in Holders |-> Shown(h)])

Draw ==
  LET compiled == {s \in Sorters \cap View : Living(s) /\ changed[s]}
  IN  /\ phase = "draw" /\ toLoad = {}
      /\ sorted' = [s \in Sorters |-> IF s \in compiled THEN field["children"][s]
                                      ELSE sorted[s]]
      /\ junk' = [s \in Sorters |-> junk[s] /\ s \notin compiled]
      /\ changed' = [s \in Sorters |-> changed[s] /\ s \notin compiled]
      /\ phase' = "events"
      /\ UNCHANGED <<memory, field, parents, inlines, startup, history, calls,
                     replacements>>

-----------------------------------------------------------------------------
(* What clients do between two frames: scripts and the EAI.                *)

\* Mutant: markForDispose(retGroup, TRUE).
MutDisposedAnswer(s) == {AnswerGroup[s]} \cup Tops[s]

\* markForDispose(retGroup, FALSE)
DisposedAnswer(s) == {AnswerGroup[s]}

(* CREATEVS and createVrmlFromString: the nodes of the text are children   *)
(* of retGroup, which is given up once their handles are written.  Of a    *)
(* text that does not parse there is only retGroup: left out.  Each file   *)
(* and text is read at most once, which bounds the nodes that are made.    *)
CreateVrml(s) ==
  /\ phase = "events" /\ startup = "done" /\ calls < MaxCalls
  /\ Parse(s, AnswerGroup[s], {AnswerGroup[s]})
  /\ ref' = [n \in Nodes |-> CASE n \in DisposedAnswer(s) -> 0
                               [] n \in Parts[s] \ DisposedAnswer(s) -> 1
                               [] OTHER -> ref[n]]
  /\ calls' = calls + 1
  /\ UNCHANGED <<sorted, junk, inlines, startup, phase, history, replacements>>

\* A client has handles to nodes of files, and uses none that was freed.
Known == {n \in Nodes : there[n] = "there"} \ {AnswerGroup[s] : s \in Strings}

(* getMFNodetype: a client gives node x to a field of Group g, without     *)
(* making a cycle.                                                         *)
SendNode(g, x) ==
  /\ phase = "events" /\ startup = "done" /\ calls < MaxCalls
  /\ x \notin Above({g}, parents)
  /\ \E call \in Sends : AddRemoveChildren(g, call[1], Only({x}), call[2])
  /\ reused' = reused \cup ({x} \cap old)
  /\ calls' = calls + 1
  /\ UNCHANGED <<memory, sorted, junk, inlines, startup, phase, old, replacements>>

\* The nodes that markForDispose(h, TRUE) goes on to.
InFields(h) == (UNION {Listed(field[f][h]) : f \in Fields})
               \cup (IF h \in Groups /\ ~junk[h] THEN Listed(sorted[h]) ELSE {})

(* kill_oldWorld marks all below the root for disposal and empties their   *)
(* fields.  The root loses its children, but is not marked as changed.     *)
KillOldWorld ==
  LET gone == Nodes \cap Closure(Listed(field["children"][Root]),
                               [h \in Holders |-> InFields(h)])
  IN  /\ phase = "events" /\ startup = "done" /\ replacements < MaxReplacements
      /\ ref' = [n \in Nodes |-> IF n \in gone THEN Less(ref[n], 1) ELSE ref[n]]
      /\ field' = [f \in Fields |-> [h \in Holders |->
                     IF h \in gone \/ (h = Root /\ f = "children") THEN NoNodes
                     ELSE field[f][h]]]
      /\ sorted' = [s \in Sorters |-> IF s \in gone THEN NoNodes ELSE sorted[s]]
      /\ junk' = [s \in Sorters |-> junk[s] /\ s \notin gone]
      /\ old' = old \cup gone
      /\ reused' = reused \cup
           {n \in gone : \E h \in Nodes \ gone : Living(h) /\ n \in InFields(h)}
      /\ phase' = "replacing"
      /\ replacements' = replacements + 1
      /\ UNCHANGED <<there, changed, parents, inlines, startup, calls>>

(* doBrowserAction for an Anchor: the file becomes the children of the     *)
(* root, unless it is not found or is no world.                            *)
AnchorLoads ==
  /\ phase = "replacing"
  /\ phase' = "update"
  /\ \/ \E f \in Worlds : /\ Parse(f, Root, {})
                          /\ ref' = [n \in Nodes |-> IF n \in Parts[f] THEN 1 ELSE ref[n]]
     \/ UNCHANGED <<memory, field, parents, changed>>
  /\ UNCHANGED <<sorted, junk, inlines, startup, history, calls, replacements>>

(* EAI_RW: nodes the client has are added to the empty root.               *)
ReplaceWorld(S) ==
  /\ phase' = "events"
  /\ AddRemoveChildren(Root, "children", Only(S), "add")
  /\ reused' = reused \cup (S \cap old)
  /\ UNCHANGED <<memory, sorted, junk, inlines, startup, old, calls, replacements>>

-----------------------------------------------------------------------------
Init ==
  /\ there = [n \in Nodes |-> "unborn"]
  /\ ref = [n \in Nodes |-> 0]
  /\ field = [f \in Fields |-> [h \in Holders |-> NoNodes]]
  /\ sorted = [s \in Sorters |-> NoNodes]
  /\ junk = [s \in Sorters |-> FALSE]
  /\ changed = [s \in Sorters |-> TRUE]
  /\ parents = [n \in Nodes |-> [h \in Holders |-> 0]]
  /\ status = [i \in Inlines |-> "initial"]
  /\ resource = [i \in Inlines |-> NewResourceItem]
  /\ toLoad = {}
  /\ startup = "none"
  /\ phase = "events"
  /\ old = {} /\ reused = {}
  /\ calls = 0 /\ replacements = 0

DisplayFrame == NodeUpdates \/ NoUpdates \/ LoadInline \/ Draw

Clients ==
  \/ \E s \in Strings : CreateVrml(s)
  \/ \E g \in Groups \cap Known, x \in Known : SendNode(g, x)
  \/ KillOldWorld

Replacing ==
  \/ AnchorLoads
  \/ /\ phase = "replacing"
     /\ \E k \in 0..MaxGiven : \E S \in kSubset(k, Known) : ReplaceWorld(S)

Next == SendFirstWorld \/ ParserDone \/ DisplayFrame \/ Clients \/ Replacing

Spec == Init /\ [][Next]_vars

(* The display thread runs frame after frame and finishes what it began;   *)
(* the parser finishes the first world, if there is one.  Clients owe      *)
(* nothing.                                                                *)
FairSpec == /\ Spec
            /\ WF_vars(DisplayFrame \/ Replacing) /\ WF_vars(ParserDone)

-----------------------------------------------------------------------------
(* TypeOK: every variable holds what the code's field can hold; a disposed *)
(* node is never counted below -Settle, for it is freed there (killNode).  *)
TypeOK ==
  /\ there \in [Nodes -> {"unborn", "there", "freed"}]
  /\ ref \in [Nodes -> Int]
  /\ \A n \in Nodes : ref[n] \in (-Settle)..1
  /\ field \in [Fields -> [Holders -> [Nodes -> Nat]]]
  /\ sorted \in [Sorters -> [Nodes -> Nat]]
  /\ junk \in [Sorters -> BOOLEAN]
  /\ changed \in [Sorters -> BOOLEAN]
  /\ parents \in [Nodes -> [Holders -> Nat]]
  /\ status \in [Inlines -> {"initial", "fetching", "parsing", "stable"}]
  /\ resource \in [Inlines -> Resource]
  /\ toLoad \subseteq Inlines
  /\ startup \in {"none", "parsing", "done"}
  /\ phase \in {"events", "draw", "replacing", "update"}
  /\ old \subseteq Nodes /\ reused \subseteq Nodes
  /\ calls \in 0..MaxCalls /\ replacements \in 0..MaxReplacements

(* ParentsKnown: for every place of a field that lists a node, the node    *)
(* has an entry for the holder in _parentVector, until it is freed: so     *)
(* update_node reaches every group that shows it.                          *)
ParentsKnown ==
  \A n \in Nodes, h \in Holders :
    there[n] # "freed" =>
      field["children"][h][n] + field["addChildren"][h][n]
        + field["removeChildren"][h][n] <= parents[n][h]

\* kill_oldWorld took the root's children and nothing came in their place.
Hollow == ~changed[Root] /\ Listed(field["children"][Root]) = {}

(* ShowsItsChildren: a group whose _change was seen shows its children and *)
(* nothing else: the copy is filled, and is that of the present children.  *)
ShowsItsChildren ==
  \A s \in Sorters :
    (s = Root \/ Wanted(s)) /\ ~changed[s] /\ ~(s = Root /\ Hollow) =>
      sorted[s] = field["children"][s] /\ ~junk[s]

(* NeverDrawsFreed: while a frame is drawn nothing that was freed is on    *)
(* the screen, unless a client kept or gave a node of a world that was     *)
(* replaced, or that world's root is hollow.                               *)
NeverDrawsFreed ==
  phase = "draw" /\ toLoad = {} /\ ~Hollow =>
    {n \in View : ~Living(n)} \subseteq reused

(* InlineSettles: an Inline does not go on fetching for ever; it is stable,*)
(* was disposed of, or its file was no world, which leaves it parsing.     *)
InlineSettles ==
  \A i \in Inlines :
    Wanted(i) ~> \/ status[i] = "stable" \/ ~Wanted(i)
                 \/ status[i] = "parsing" /\ resource[i].status # "parsed"
=============================================================================
