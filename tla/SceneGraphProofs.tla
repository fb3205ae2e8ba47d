-------------------------- MODULE SceneGraphProofs --------------------------
(***************************************************************************)
(* Proofs about SceneGraph, for any files, texts and calls of clients.     *)
(***************************************************************************)
EXTENDS SceneGraph, FiniteSetTheorems, WellFoundedInduction, TLAPS

Bags == [Nodes -> Nat]

-----------------------------------------------------------------------------
(* Every step of the ladder leaves a record that is a Resource, for any    *)
(* number of urls.                                                         *)

\* A new record is a resource.
LEMMA NewResourceItemType == NewResourceItem \in Resource
  BY UrlsAssumption DEF NewResourceItem, Resource, Types, Statuses, Media

\* resource_create_multi makes a resource.
LEMMA CreateMultiType ==
  ASSUME NEW m \in CreateMulti
  PROVE  m \in Resource
  <1>1. PICK n \in MinUrls..MaxUrls :
          m = [NewResourceItem EXCEPT !.type = "multi", !.urls = n]
    BY DEF CreateMulti
  <1>2. n \in 0..MaxUrls
    BY UrlsAssumption
  <1> HIDE UrlsAssumption
  <1> QED BY <1>1, <1>2, NewResourceItemType DEF Resource, Types

\* resource_identify leaves a resource, whatever the base and the url.
LEMMA IdentifyType ==
  ASSUME NEW r \in Resource, NEW x \in Identify(r)
  PROVE  x \in Resource
  <1>1. CASE r.type = "multi" /\ r.urls = 0
    BY <1>1 DEF Identify
  <1>2. CASE ~(r.type = "multi" /\ r.urls = 0)
    <2> DEFINE n == IF r.type = "multi" THEN r.urls - 1 ELSE r.urls
    <2>1. n \in 0..MaxUrls
      BY <1>2, UrlsAssumption DEF Resource
    <2> HIDE DEF n
    <2>2. \A t \in {"url", "file"} :
            [r EXCEPT !.type = t, !.status = "starts_good", !.urls = n]
              \in Resource
      BY <2>1 DEF Resource, Types, Statuses
    <2>3. [r EXCEPT !.type = "invalid", !.urls = n] \in Resource
      BY <2>1 DEF Resource, Types
    <2>4. \/ \E t \in {"url", "file"} :
                x = [r EXCEPT !.type = t, !.status = "starts_good", !.urls = n]
          \/ x = [r EXCEPT !.type = "invalid", !.urls = n]
      BY <1>2 DEF Identify, n
    <2> QED BY <2>2, <2>3, <2>4
  <1> QED BY <1>1, <1>2

\* resource_fetch keeps the record a resource.
LEMMA FetchType ==
  ASSUME NEW r \in Resource, NEW x \in Fetch(r)
  PROVE  x \in Resource
  BY DEF Fetch, Resource, Statuses

\* resource_load keeps the record a resource.
LEMMA LoadType ==
  ASSUME NEW r \in Resource, NEW x \in Load(r)
  PROVE  x \in Resource
  <1>1. CASE r.status # "downloaded"
    BY <1>1 DEF Load
  <1>2. CASE r.status = "downloaded" /\ x = [r EXCEPT !.status = "not_loaded"]
    BY <1>2 DEF Resource, Statuses
  <1>3. CASE \E md \in {"unknown", "vrml", r.media} :
               x = [r EXCEPT !.status = "loaded", !.opened = TRUE,
                             !.media = md]
    BY <1>3 DEF Resource, Statuses, Media
  <1> QED BY <1>1, <1>2, <1>3 DEF Load

\* The last step of the ladder keeps the record a resource.
LEMMA FinishType ==
  ASSUME NEW r \in Resource
  PROVE  Finish(r) \in Resource
  <1>1. CASE r.media = "unknown"
    BY <1>1 DEF Finish, Resource, Statuses
  <1>2. CASE r.media = "vrml"
    BY <1>2 DEF Finish, ParsesTo, Resource, Statuses
  <1>3. CASE r.media = "image"
    BY <1>3 DEF Finish, Resource
  <1> QED BY <1>1, <1>2, <1>3 DEF Resource, Media

\* parser_process_res keeps the record a resource.
LEMMA ProcessResType ==
  ASSUME NEW r \in Resource, NEW out \in ProcessRes(r)
  PROVE  out.res \in Resource /\ out.remove \in BOOLEAN
  <1>1. CASE r.status = "invalid"
    <2>1. PICK x \in Identify(r) :
            out = [res |-> x, remove |-> x.type = "invalid"]
      BY <1>1 DEF ProcessRes
    <2> QED BY <2>1, IdentifyType
  <1>2. CASE r.status = "starts_good"
    <2>1. PICK x \in Fetch(r) : out = [res |-> x, remove |-> FALSE]
      BY <1>2 DEF ProcessRes
    <2> QED BY <2>1, FetchType
  <1>3. CASE r.status = "downloaded"
    <2>1. PICK x \in Load(r) :
            out = [res |-> x, remove |-> x.status # "loaded"]
      BY <1>3 DEF ProcessRes
    <2> QED BY <2>1, LoadType
  <1>4. CASE r.status = "loaded"
    <2>1. out = [res |-> Finish(r), remove |-> TRUE]
      BY <1>4 DEF ProcessRes
    <2> QED BY <2>1, FinishType
  <1>5. CASE r.status \notin {"invalid", "starts_good", "downloaded", "loaded"}
    <2>1. out = [res |-> r, remove |-> TRUE]
      BY <1>5 DEF ProcessRes
    <2> QED BY <2>1
  <1> QED BY <1>1, <1>2, <1>3, <1>4, <1>5

-----------------------------------------------------------------------------
(* The operators on bags. *)

\* A difference that stops at zero is a number.
LEMMA LessType ==
  ASSUME NEW x \in Nat, NEW y \in Nat
  PROVE  Less(x, y) \in Nat /\ Less(x, y) <= x /\ x <= Less(x, y) + y
  BY DEF Less

\* The count of a node in a field stays a number.
LEMMA CountType ==
  ASSUME NEW x \in Nat, NEW given \in Nat, NEW way \in Ways
  PROVE  CountAfter(x, given, way) \in Nat
  BY LessType DEF CountAfter, Ways

\* So do its entries for a holder.
LEMMA EntriesType ==
  ASSUME NEW entries \in Nat, NEW x \in Nat, NEW given \in Nat, NEW way \in Ways
  PROVE  EntriesAfter(entries, x, given, way) \in Nat
  <1>1. Less(x, given) \in Nat /\ x - Less(x, given) \in Nat
    BY DEF Less
  <1> QED BY <1>1, LessType DEF EntriesAfter, Ways

\* If the entries covered this field and the others, they still do.
LEMMA EntriesCover ==
  ASSUME NEW entries \in Nat, NEW x \in Nat, NEW given \in Nat, NEW way \in Ways,
         NEW other \in Nat, x + other <= entries
  PROVE  CountAfter(x, given, way) + other <= EntriesAfter(entries, x, given, way)
  <1>1. CASE way = "set"
    BY <1>1 DEF CountAfter, EntriesAfter, Less
  <1>2. CASE way = "add"
    BY <1>2 DEF CountAfter, EntriesAfter
  <1>3. CASE way = "remove"
    BY <1>3 DEF CountAfter, EntriesAfter, Less
  <1> QED BY <1>1, <1>2, <1>3 DEF Ways

\* The bag of a set, and the empty one.
LEMMA OnlyType ==
  /\ NoNodes \in Bags
  /\ \A S : Only(S) \in Bags
  BY DEF NoNodes, Only, Bags

-----------------------------------------------------------------------------
(* What the types say of the lists. *)

ListTypes ==
  /\ field \in [Fields -> [Holders -> Bags]]
  /\ parents \in [Nodes -> [Holders -> Nat]]
  /\ changed \in [Sorters -> BOOLEAN]

\* A sum over the three fields.
Places(h, n) == field["children"][h][n] + field["addChildren"][h][n]
                + field["removeChildren"][h][n]

\* ListTypes and Places are parts of TypeOK and ParentsKnown.
LEMMA TypesOfLists ==
  /\ TypeOK => ListTypes
  /\ ParentsKnown <=> \A n \in Nodes, h \in Holders :
                        there[n] # "freed" => Places(h, n) <= parents[n][h]
  BY DEF TypeOK, ListTypes, Bags, ParentsKnown, Places

\* AddRemoveChildren keeps the types of the lists.
LEMMA AddRemoveType ==
  ASSUME ListTypes, NEW h \in Holders, NEW f \in Fields, NEW bag \in Bags,
         NEW way \in Ways, AddRemoveChildren(h, f, bag, way)
  PROVE  ListTypes'
  <1>1. CASE Listed(bag) = {}
    BY <1>1 DEF AddRemoveChildren, ListTypes
  <1>2. CASE Listed(bag) # {}
    <2>1. \A n \in Nodes : /\ CountAfter(field[f][h][n], bag[n], way) \in Nat
                           /\ EntriesAfter(parents[n][h], field[f][h][n], bag[n], way) \in Nat
      <3> TAKE n \in Nodes
      <3>1. field[f][h][n] \in Nat /\ bag[n] \in Nat /\ parents[n][h] \in Nat
        BY DEF ListTypes, Bags
      <3> QED BY <3>1, CountType, EntriesType
    <2> DEFINE row == [n \in Nodes |-> CountAfter(field[f][h][n], bag[n], way)]
    <2>2. row \in Bags
      BY <2>1 DEF Bags
    <2>3. field' \in [Fields -> [Holders -> Bags]]
      <3>1. field' = [field EXCEPT ![f][h] = row]
        BY <1>2 DEF AddRemoveChildren
      <3> HIDE DEF row
      <3> QED BY <2>2, <3>1 DEF ListTypes
    <2>4. parents' \in [Nodes -> [Holders -> Nat]]
      BY <1>2, <2>1 DEF AddRemoveChildren, ListTypes
    <2>5. changed' \in [Sorters -> BOOLEAN]
      BY <1>2 DEF AddRemoveChildren, ListTypes
    <2> QED BY <2>3, <2>4, <2>5 DEF ListTypes
  <1> QED BY <1>1, <1>2

\* It leaves an entry for every place that lists a node.
LEMMA AddRemoveKnown ==
  ASSUME ListTypes, NEW h \in Holders, NEW f \in Fields, NEW bag \in Bags,
         NEW way \in Ways, AddRemoveChildren(h, f, bag, way),
         NEW n \in Nodes, NEW k \in Holders, Places(k, n) <= parents[n][k]
  PROVE  Places(k, n)' <= parents'[n][k]
  <1>1. CASE Listed(bag) = {}
    BY <1>1 DEF AddRemoveChildren, Places
  <1>2. CASE Listed(bag) # {} /\ k # h
    <2> DEFINE row == [m \in Nodes |-> CountAfter(field[f][h][m], bag[m], way)]
    <2>1. \A e \in Fields : field'[e][k] = field[e][k]
      <3>1. field' = [field EXCEPT ![f][h] = row]
        BY <1>2 DEF AddRemoveChildren
      <3> HIDE DEF row
      <3> QED BY <1>2, <3>1 DEF ListTypes
    <2>2. parents'[n][k] = parents[n][k]
      BY <1>2 DEF AddRemoveChildren, ListTypes
    <2> QED BY <2>1, <2>2 DEF Places, Fields
  <1>3. CASE Listed(bag) # {} /\ k = h
    <2>1. field'[f][k][n] = CountAfter(field[f][k][n], bag[n], way)
      BY <1>3 DEF AddRemoveChildren, ListTypes
    <2>2. \A e \in Fields \ {f} : field'[e][k] = field[e][k]
      BY <1>3 DEF AddRemoveChildren, ListTypes
    <2>3. parents'[n][k] = EntriesAfter(parents[n][k], field[f][k][n], bag[n], way)
      BY <1>3 DEF AddRemoveChildren, ListTypes
    <2>4. /\ \A e \in Fields : field[e][k][n] \in Nat
          /\ parents[n][k] \in Nat /\ bag[n] \in Nat
      BY DEF ListTypes, Bags
    <2> DEFINE other == IF f = "children"
                        THEN field["addChildren"][k][n] + field["removeChildren"][k][n]
                        ELSE IF f = "addChildren"
                        THEN field["children"][k][n] + field["removeChildren"][k][n]
                        ELSE field["children"][k][n] + field["addChildren"][k][n]
    <2>5. other \in Nat
      BY <2>4 DEF Fields
    <2>6. field[f][k][n] + other <= parents[n][k]
      BY <2>4 DEF Fields, Places
    <2>7. field'[f][k][n] + other <= parents'[n][k]
      BY <2>1, <2>3, <2>4, <2>5, <2>6, EntriesCover
    <2>8. Places(k, n)' = field'[f][k][n] + other
      <3>1. field'[f][k][n] \in Nat
        BY <2>1, <2>4, CountType
      <3> QED BY <2>2, <2>4, <3>1 DEF Fields, Places
    <2> QED BY <2>7, <2>8
  <1> QED BY <1>1, <1>2, <1>3

\* A group it does not mark keeps its children.
LEMMA AddRemoveMarks ==
  ASSUME ListTypes, NEW h \in Holders, NEW f \in Fields, NEW bag \in Bags,
         NEW way \in Ways, AddRemoveChildren(h, f, bag, way),
         NEW s \in Sorters, ~changed'[s]
  PROVE  ~changed[s] /\ field'["children"][s] = field["children"][s]
  <1>1. CASE Listed(bag) = {}
    BY <1>1 DEF AddRemoveChildren
  <1>2. CASE Listed(bag) # {}
    <2>1. ~changed[s] /\ s \notin Above({h}, parents')
      BY <1>2 DEF AddRemoveChildren
    <2>2. s # h
      BY <2>1 DEF Above
    <2>3. s \in Holders
      BY DEF Sorters, Holders, Nodes
    <2> QED BY <1>2, <2>1, <2>2, <2>3 DEF AddRemoveChildren, ListTypes, Fields
  <1> QED BY <1>1, <1>2
-----------------------------------------------------------------------------
(* Parse. *)

\* How often the parser puts node n into children of k.
Put(f, h, k, n) ==
  (IF k \in Parts[f] \cap Groups THEN Only(Content[k])[n] ELSE 0)
    + (IF k = h THEN Only(Tops[f])[n] ELSE 0)

\* It is a number.
LEMMA PutType ==
  ASSUME NEW f, NEW h, NEW k, NEW n \in Nodes
  PROVE  Put(f, h, k, n) \in Nat
  BY DEF Put, Only

\* The parser's entries are as many as its places.
LEMMA ParseEntries ==
  ASSUME ListTypes, NEW f \in Files, NEW h \in Holders, NEW answer,
         Parse(f, h, answer)
  PROVE  /\ \A k \in Holders, n \in Nodes :
              /\ field'["children"][k][n] = field["children"][k][n] + Put(f, h, k, n)
              /\ parents'[n][k] = parents[n][k] + Put(f, h, k, n)
         /\ \A e \in Fields \ {"children"} : field'[e] = field[e]
  <1>1. \A k \in Holders, n \in Nodes :
          /\ field["children"][k][n] \in Nat /\ parents[n][k] \in Nat
          /\ (IF k \in Parts[f] \cap Groups THEN Only(Content[k])[n] ELSE 0) \in Nat
          /\ (IF k = h THEN Only(Tops[f])[n] ELSE 0) \in Nat
    BY DEF ListTypes, Bags, Fields, Only
  <1>2. \A k \in Holders, n \in Nodes :
          /\ field'["children"][k][n] = field["children"][k][n]
               + (IF k \in Parts[f] \cap Groups THEN Only(Content[k])[n] ELSE 0)
               + (IF k = h THEN Only(Tops[f])[n] ELSE 0)
          /\ parents'[n][k] = parents[n][k]
               + (IF k \in Parts[f] \cap Groups THEN Only(Content[k])[n] ELSE 0)
               + (IF k = h THEN Only(Tops[f])[n] ELSE 0)
    BY DEF Parse, ListTypes, Fields
  <1>3. \A e \in Fields \ {"children"} : field'[e] = field[e]
    BY DEF Parse, ListTypes, Fields
  <1>4. ASSUME NEW k \in Holders, NEW n \in Nodes
        PROVE  /\ field'["children"][k][n] = field["children"][k][n] + Put(f, h, k, n)
               /\ parents'[n][k] = parents[n][k] + Put(f, h, k, n)
    <2> DEFINE u == IF k \in Parts[f] \cap Groups THEN Only(Content[k])[n] ELSE 0
               v == IF k = h THEN Only(Tops[f])[n] ELSE 0
    <2>1. /\ field["children"][k][n] \in Nat /\ parents[n][k] \in Nat
          /\ u \in Nat /\ v \in Nat
      BY <1>1
    <2>2. /\ field'["children"][k][n] = field["children"][k][n] + u + v
          /\ parents'[n][k] = parents[n][k] + u + v
      BY <1>2
    <2>3. Put(f, h, k, n) = u + v
      BY DEF Put
    <2> HIDE DEF u, v
    <2> QED BY <2>1, <2>2, <2>3
  <1> QED BY <1>3, <1>4

\* Parse keeps the types of the lists, and of the memory table.
LEMMA ParseType ==
  ASSUME TypeOK, NEW f \in Files, NEW h \in Holders, NEW answer,
         Parse(f, h, answer)
  PROVE  ListTypes' /\ there' \in [Nodes -> {"unborn", "there", "freed"}]
  <1>1. ListTypes
    BY TypesOfLists
  <1>2. \A k \in Holders, n \in Nodes :
          /\ field["children"][k][n] + Put(f, h, k, n) \in Nat
          /\ parents[n][k] + Put(f, h, k, n) \in Nat
    BY <1>1, PutType DEF ListTypes, Bags, Fields
  <1>3. field' \in [Fields -> [Holders -> Bags]]
    <2>1. field'["children"] \in [Holders -> Bags]
      <3>1. \A k \in Holders : field'["children"][k] \in Bags
        <4> TAKE k \in Holders
        <4>1. \A n \in Nodes : field'["children"][k][n] \in Nat
          BY <1>1, <1>2, ParseEntries
        <4>2. field'["children"][k] = [n \in Nodes |-> field'["children"][k][n]]
          BY <1>1 DEF Parse, ListTypes, Fields
        <4> QED BY <4>1, <4>2 DEF Bags
      <3>2. field'["children"] = [k \in Holders |-> field'["children"][k]]
        BY <1>1 DEF Parse, ListTypes, Fields
      <3> QED BY <3>1, <3>2
    <2>2. \A e \in Fields \ {"children"} : field'[e] \in [Holders -> Bags]
      BY <1>1, ParseEntries DEF ListTypes
    <2>3. field' = [e \in Fields |-> field'[e]]
      BY <1>1 DEF Parse, ListTypes
    <2> QED BY <2>1, <2>2, <2>3 DEF Fields
  <1>4. parents' \in [Nodes -> [Holders -> Nat]]
    <2>1. \A n \in Nodes, k \in Holders : parents'[n][k] \in Nat
      BY <1>1, <1>2, ParseEntries
    <2>2. parents' = [n \in Nodes |-> [k \in Holders |-> parents'[n][k]]]
      BY DEF Parse
    <2> QED BY <2>1, <2>2
  <1>5. changed' \in [Sorters -> BOOLEAN]
    BY <1>1 DEF Parse, ListTypes
  <1>6. there' \in [Nodes -> {"unborn", "there", "freed"}]
    BY DEF Parse, TypeOK
  <1> QED BY <1>3, <1>4, <1>5, <1>6 DEF ListTypes

\* Parse leaves an entry for every place that lists a node, and frees none.
LEMMA ParseKnown ==
  ASSUME TypeOK, ParentsKnown, NEW f \in Files, NEW h \in Holders, NEW answer,
         Parse(f, h, answer)
  PROVE  ParentsKnown'
  <1>1. ListTypes
    BY TypesOfLists
  <1> SUFFICES ASSUME NEW n \in Nodes, NEW k \in Holders, there'[n] # "freed"
               PROVE  Places(k, n)' <= parents'[n][k]
    BY DEF ParentsKnown, Places
  <1>2. there[n] # "freed"
    BY DEF Parse, TypeOK
  <1>3. Places(k, n) <= parents[n][k]
    BY <1>2, TypesOfLists
  <1>4. /\ field'["children"][k][n] = field["children"][k][n] + Put(f, h, k, n)
        /\ parents'[n][k] = parents[n][k] + Put(f, h, k, n)
        /\ field'["addChildren"] = field["addChildren"]
        /\ field'["removeChildren"] = field["removeChildren"]
    BY <1>1, ParseEntries DEF Fields
  <1>5. /\ Put(f, h, k, n) \in Nat /\ parents[n][k] \in Nat
        /\ \A e \in Fields : field[e][k][n] \in Nat
    BY <1>1, PutType DEF ListTypes, Bags
  <1> QED BY <1>3, <1>4, <1>5 DEF Places, Fields

\* A group that Parse does not mark is not new and keeps its children.
LEMMA ParseMarks ==
  ASSUME TypeOK, NEW f \in Files, NEW h \in Holders, NEW answer,
         Parse(f, h, answer), NEW s \in Sorters, ~changed'[s]
  PROVE  /\ ~changed[s] /\ field'["children"][s] = field["children"][s]
         /\ s \notin Parts[f] \cup answer
  <1>1. ListTypes
    BY TypesOfLists
  <1>2. /\ ~changed[s] /\ s \notin Parts[f] \cup answer
        /\ Tops[f] # {} => s \notin Above({h}, parents')
    BY DEF Parse
  <1>3. Tops[f] # {} => s # h
    BY <1>2 DEF Above
  <1>4. s \in Holders
    BY DEF Sorters, Holders, Nodes
  <1>5. \A n \in Nodes : Put(f, h, s, n) = 0
    BY <1>2, <1>3 DEF Put, Only
  <1>6. \A n \in Nodes : field'["children"][s][n] = field["children"][s][n]
    BY <1>1, <1>4, <1>5, ParseEntries DEF ListTypes, Bags, Fields
  <1>7. /\ field'["children"][s] \in Bags
        /\ field["children"][s] \in Bags
    BY <1>1, <1>4, ParseType DEF ListTypes, Fields
  <1>8. field'["children"][s] = field["children"][s]
    BY <1>6, <1>7 DEF Bags
  <1> QED BY <1>2, <1>8

-----------------------------------------------------------------------------
(* What a group that is not marked shows. *)

\* A step that marks what it changes lets every other group show its children.
LEMMA MarkedStep ==
  ASSUME ShowsItsChildren,
         \A s \in Sorters :
           (s = Root \/ Wanted(s))' /\ ~changed'[s] =>
             /\ (s = Root \/ Wanted(s)) /\ ~changed[s]
             /\ field'["children"][s] = field["children"][s]
             /\ sorted'[s] = sorted[s] /\ junk'[s] = junk[s]
  PROVE  ShowsItsChildren'
  <1> SUFFICES ASSUME NEW s \in Sorters, (s = Root \/ Wanted(s))', ~changed'[s],
                      ~(s = Root /\ Hollow')
               PROVE  (sorted[s] = field["children"][s] /\ ~junk[s])'
    BY DEF ShowsItsChildren
  <1>1. /\ (s = Root \/ Wanted(s)) /\ ~changed[s]
        /\ field'["children"][s] = field["children"][s]
        /\ sorted'[s] = sorted[s] /\ junk'[s] = junk[s]
    OBVIOUS
  <1>2. ~(s = Root /\ Hollow)
    BY <1>1 DEF Hollow
  <1> QED BY <1>1, <1>2 DEF ShowsItsChildren

\* The parser is such a step, if it only counts what it made.
LEMMA ParseShows ==
  ASSUME TypeOK, ShowsItsChildren, NEW f \in Files, NEW h \in Holders, NEW answer,
         Parse(f, h, answer), sorted' = sorted, junk' = junk,
         \A n \in Nodes \ (Parts[f] \cup answer) : ref'[n] = ref[n]
  PROVE  ShowsItsChildren'
  <1> SUFFICES ASSUME NEW s \in Sorters, (s = Root \/ Wanted(s))', ~changed'[s]
               PROVE  /\ (s = Root \/ Wanted(s)) /\ ~changed[s]
                      /\ field'["children"][s] = field["children"][s]
    BY MarkedStep
  <1>1. /\ ~changed[s] /\ field'["children"][s] = field["children"][s]
        /\ s \notin Parts[f] \cup answer
    BY ParseMarks
  <1>2. s \in Nodes => there'[s] = there[s] /\ ref'[s] = ref[s]
    BY <1>1 DEF Parse
  <1>3. s = Root \/ s \in Nodes
    BY DEF Sorters, Nodes
  <1> QED BY <1>1, <1>2, <1>3 DEF Wanted

\* So is AddRemoveChildren.
LEMMA AddRemoveShows ==
  ASSUME TypeOK, ShowsItsChildren, NEW h \in Holders, NEW f \in Fields,
         NEW bag \in Bags, NEW way \in Ways, AddRemoveChildren(h, f, bag, way),
         UNCHANGED <<there, ref, sorted, junk>>
  PROVE  ShowsItsChildren'
  <1> SUFFICES ASSUME NEW s \in Sorters, (s = Root \/ Wanted(s))', ~changed'[s]
               PROVE  /\ (s = Root \/ Wanted(s)) /\ ~changed[s]
                      /\ field'["children"][s] = field["children"][s]
    BY MarkedStep
  <1> QED BY AddRemoveMarks, TypesOfLists DEF Wanted

-----------------------------------------------------------------------------
(* The inductive invariant. *)

\* A node in memory has not been counted down to the end.
Counting == \A n \in Nodes : there[n] = "there" => ref[n] > -Settle

IInv == TypeOK /\ ParentsKnown /\ ShowsItsChildren /\ Counting

\* Nothing is made and everything is marked.
LEMMA InitIInv == Init => IInv
  <1> SUFFICES ASSUME Init PROVE IInv
    OBVIOUS
  <1>1. TypeOK
    BY NewResourceItemType, SceneAssumption DEF Init, TypeOK, NoNodes
  <1>2. ParentsKnown
    BY DEF Init, ParentsKnown, NoNodes, Fields
  <1>3. ShowsItsChildren
    BY DEF Init, ShowsItsChildren
  <1>4. Counting
    BY DEF Init, Counting
  <1> QED BY <1>1, <1>2, <1>3, <1>4 DEF IInv

\* A step that leaves a count, or sets it to nought or one, keeps Counting.
LEMMA CountingStep ==
  ASSUME Counting,
         \A n \in Nodes : \/ ref'[n] \in {0, 1}
                          \/ ref'[n] = ref[n] /\ there'[n] = there[n]
  PROVE  Counting'
  <1> SUFFICES ASSUME NEW n \in Nodes, there'[n] = "there"
               PROVE  ref'[n] > -Settle
    BY DEF Counting
  <1>1. Settle \in Nat \ {0}
    BY SceneAssumption
  <1>2. CASE ref'[n] \in {0, 1}
    <2> DEFINE new == ref'[n]
    <2>1. new \in {0, 1}
      BY <1>2
    <2> HIDE DEF new
    <2>2. new > -Settle
      BY <1>1, <2>1
    <2> QED BY <2>2 DEF new
  <1>3. CASE ref'[n] = ref[n] /\ there'[n] = there[n]
    BY <1>3 DEF Counting
  <1> QED BY <1>2, <1>3

\* A count that is set to nought or one, or left, stays in its range.
LEMMA CountedOnce ==
  ASSUME TypeOK, ref' = [n \in Nodes |-> ref'[n]],
         \A n \in Nodes : ref'[n] = ref[n] \/ ref'[n] \in {0, 1}
  PROVE  ref' \in [Nodes -> Int] /\ \A n \in Nodes : ref'[n] \in (-Settle)..1
  <1>1. Settle \in Nat
    BY SceneAssumption
  <1>2. \A n \in Nodes : ref[n] \in (-Settle)..1
    BY DEF TypeOK
  <1>3. ASSUME NEW n \in Nodes PROVE ref'[n] \in (-Settle)..1 /\ ref'[n] \in Int
    <2>1. ref'[n] = ref[n] \/ ref'[n] \in {0, 1}
      OBVIOUS
    <2> DEFINE new == ref'[n]
    <2>2. new \in (-Settle)..1 /\ new \in Int
      <3>1. new = ref[n] \/ new \in {0, 1}
        BY <2>1
      <3> HIDE DEF new
      <3> QED BY <1>1, <1>2, <3>1
    <2> QED BY <2>2
  <1>4. ref' \in [Nodes -> Int]
    BY <1>3
  <1> QED BY <1>3, <1>4

\* A step that parses a file, or does nothing to nodes and lists.
Parses(f, h) ==
  \/ /\ Parse(f, h, {})
     /\ ref' = [n \in Nodes |-> IF n \in Parts[f] THEN 1 ELSE ref[n]]
  \/ UNCHANGED <<memory, field, parents, changed>>

\* What such a step leaves of the invariant.
LEMMA ParsesIInv ==
  ASSUME IInv, NEW f \in Files, NEW h \in Holders, Parses(f, h),
         UNCHANGED <<sorted, junk>>
  PROVE  /\ ListTypes' /\ there' \in [Nodes -> {"unborn", "there", "freed"}]
         /\ ref' \in [Nodes -> Int] /\ \A n \in Nodes : ref'[n] \in (-Settle)..1
         /\ ParentsKnown' /\ ShowsItsChildren' /\ Counting'
  <1>1. CASE UNCHANGED <<memory, field, parents, changed>>
    <2>1. ListTypes' /\ there' = there /\ ref' = ref
      BY <1>1, TypesOfLists DEF IInv, ListTypes, memory
    <2>2. ParentsKnown'
      BY <1>1 DEF IInv, ParentsKnown, memory
    <2>3. ShowsItsChildren'
      BY <1>1, MarkedStep DEF IInv, Wanted, memory
    <2>4. Counting'
      BY <1>1 DEF IInv, Counting, memory
    <2> QED BY <2>1, <2>2, <2>3, <2>4 DEF IInv, TypeOK
  <1>2. CASE /\ Parse(f, h, {})
             /\ ref' = [n \in Nodes |-> IF n \in Parts[f] THEN 1 ELSE ref[n]]
    <2>1. /\ ref' = [n \in Nodes |-> ref'[n]]
          /\ \A n \in Nodes : ref'[n] = ref[n] \/ ref'[n] \in {0, 1}
      BY <1>2
    <2>2. ref' \in [Nodes -> Int] /\ \A n \in Nodes : ref'[n] \in (-Settle)..1
      BY <2>1, CountedOnce DEF IInv
    <2>3. \A n \in Nodes \ (Parts[f] \cup {}) : ref'[n] = ref[n]
      BY <1>2
    <2>4. ShowsItsChildren'
      BY <1>2, <2>3, ParseShows DEF IInv
    <2>5. \A n \in Nodes : \/ ref'[n] \in {0, 1}
                           \/ ref'[n] = ref[n] /\ there'[n] = there[n]
      BY <1>2 DEF Parse
    <2>6. Counting'
      BY <2>5, CountingStep DEF IInv
    <2> QED BY <1>2, <2>2, <2>4, <2>6, ParseType, ParseKnown DEF IInv
  <1> QED BY <1>1, <1>2 DEF Parses

-----------------------------------------------------------------------------
(* Every action keeps the invariant. *)

\* The main thread marks the root it empties.
LEMMA SendFirstWorldStep ==
  ASSUME IInv, SendFirstWorld
  PROVE  IInv'
  <1> DEFINE emptied == [field["children"] EXCEPT ![Root] = NoNodes]
  <1>1. field' = [field EXCEPT !["children"] = emptied]
    BY DEF SendFirstWorld, IInv, TypeOK, Fields
  <1>2. field["children"] \in [Holders -> Bags] /\ emptied \in [Holders -> Bags]
    BY OnlyType, TypesOfLists DEF IInv, ListTypes, Fields
  <1>3. /\ field'["children"] = emptied
        /\ \A e \in Fields \ {"children"} : field'[e] = field[e]
        /\ field' \in [Fields -> [Holders -> Bags]]
    <2> HIDE DEF emptied
    <2> QED BY <1>1, <1>2, TypesOfLists DEF IInv, ListTypes, Fields
  <1>4. TypeOK'
    BY <1>3 DEF SendFirstWorld, IInv, TypeOK, Bags, memory, inlines, history
  <1>5. ParentsKnown'
    <2> SUFFICES ASSUME NEW n \in Nodes, NEW k \in Holders, there'[n] # "freed"
                 PROVE  Places(k, n)' <= parents'[n][k]
      BY DEF ParentsKnown, Places
    <2>1. Places(k, n) <= parents[n][k] /\ parents' = parents
      BY TypesOfLists DEF SendFirstWorld, memory, IInv
    <2>2. field'["children"][k][n] \in {0, field["children"][k][n]}
      BY <1>2, <1>3 DEF NoNodes
    <2>3. /\ field'["addChildren"] = field["addChildren"]
          /\ field'["removeChildren"] = field["removeChildren"]
      BY <1>3 DEF Fields
    <2>4. \A e \in Fields : field[e][k][n] \in Nat
      BY TypesOfLists DEF IInv, ListTypes, Bags
    <2>5. parents[n][k] \in Nat
      BY TypesOfLists DEF IInv, ListTypes
    <2> HIDE DEF emptied
    <2> QED BY <2>1, <2>2, <2>3, <2>4, <2>5 DEF Places, Fields
  <1>6. ShowsItsChildren'
    <2> SUFFICES ASSUME NEW s \in Sorters, (s = Root \/ Wanted(s))', ~changed'[s]
                 PROVE  /\ (s = Root \/ Wanted(s)) /\ ~changed[s]
                        /\ field'["children"][s] = field["children"][s]
      BY MarkedStep DEF SendFirstWorld, IInv
    <2>1. s # Root /\ ~changed[s]
      BY DEF SendFirstWorld, IInv, TypeOK
    <2>2. s \in Holders
      BY DEF Sorters, Holders, Nodes
    <2> QED BY <1>2, <1>3, <2>1, <2>2 DEF SendFirstWorld, memory, Wanted
  <1>7. Counting'
    BY DEF SendFirstWorld, IInv, Counting, memory
  <1> QED BY <1>4, <1>5, <1>6, <1>7 DEF IInv

\* The parser leaves its nodes counted once, and the rest alone.
LEMMA ParserDoneStep ==
  ASSUME IInv, ParserDone
  PROVE  IInv'
  <1>1. Parses(FirstWorld, Root)
    BY DEF ParserDone, Parses
  <1>2. FirstWorld \in Files /\ Root \in Holders
    BY DEF Files, Holders
  <1>3. /\ ListTypes' /\ there' \in [Nodes -> {"unborn", "there", "freed"}]
        /\ ref' \in [Nodes -> Int] /\ \A n \in Nodes : ref'[n] \in (-Settle)..1
        /\ ParentsKnown' /\ ShowsItsChildren' /\ Counting'
    BY <1>1, <1>2, ParsesIInv DEF ParserDone
  <1>4. TypeOK'
    BY <1>3 DEF ParserDone, IInv, TypeOK, ListTypes, Bags, inlines, history
  <1> QED BY <1>3, <1>4 DEF IInv

\* So does an Anchor's new world.
LEMMA AnchorLoadsStep ==
  ASSUME IInv, AnchorLoads
  PROVE  IInv'
  <1>1. PICK f \in Files : Parses(f, Root)
    BY DEF AnchorLoads, Parses, Files
  <1>2. Root \in Holders
    BY DEF Holders
  <1>3. /\ ListTypes' /\ there' \in [Nodes -> {"unborn", "there", "freed"}]
        /\ ref' \in [Nodes -> Int] /\ \A n \in Nodes : ref'[n] \in (-Settle)..1
        /\ ParentsKnown' /\ ShowsItsChildren' /\ Counting'
    BY <1>1, <1>2, ParsesIInv DEF AnchorLoads
  <1>4. TypeOK'
    BY <1>3 DEF AnchorLoads, IInv, TypeOK, ListTypes, Bags, inlines, history
  <1> QED BY <1>3, <1>4 DEF IInv

\* What AddRemoveChildren, called alone, leaves of the invariant.
LEMMA AddRemoveIInv ==
  ASSUME IInv, NEW h \in Holders, NEW f \in Fields, NEW bag \in Bags,
         NEW way \in Ways, AddRemoveChildren(h, f, bag, way),
         UNCHANGED <<memory, sorted, junk>>
  PROVE  ListTypes' /\ ParentsKnown' /\ ShowsItsChildren' /\ Counting'
  <1>1. ListTypes
    BY TypesOfLists DEF IInv
  <1>2. ASSUME NEW n \in Nodes, NEW k \in Holders, there'[n] # "freed"
        PROVE  Places(k, n)' <= parents'[n][k]
    BY <1>1, <1>2, AddRemoveKnown, TypesOfLists DEF IInv, memory
  <1>3. ParentsKnown'
    BY <1>2 DEF ParentsKnown, Places
  <1>4. Counting'
    BY DEF IInv, Counting, memory
  <1> QED BY <1>1, <1>3, <1>4, AddRemoveType, AddRemoveShows DEF IInv, memory

\* A client gives a node to a group.
LEMMA SendNodeStep ==
  ASSUME IInv, NEW g \in Groups \cap Known, NEW x \in Known, SendNode(g, x)
  PROVE  IInv'
  <1>1. PICK call \in Sends : AddRemoveChildren(g, call[1], Only({x}), call[2])
    BY DEF SendNode
  <1>2. call[1] \in Fields /\ call[2] \in Ways /\ g \in Holders
    BY SceneAssumption DEF Holders, Nodes
  <1>3. ListTypes' /\ ParentsKnown' /\ ShowsItsChildren' /\ Counting'
    BY <1>1, <1>2, OnlyType, AddRemoveIInv DEF SendNode, memory
  <1>4. calls' \in 0..MaxCalls
    BY SceneAssumption DEF SendNode, IInv, TypeOK
  <1>5. TypeOK'
    BY <1>3, <1>4 DEF SendNode, IInv, TypeOK, ListTypes, Bags, inlines, memory
  <1> QED BY <1>3, <1>5 DEF IInv

\* It gives nodes to the root.
LEMMA ReplaceWorldStep ==
  ASSUME IInv, NEW S \in SUBSET Nodes, ReplaceWorld(S)
  PROVE  IInv'
  <1>1. "children" \in Fields /\ "add" \in Ways /\ Root \in Holders
    BY DEF Holders, Fields, Ways
  <1>2. ListTypes' /\ ParentsKnown' /\ ShowsItsChildren' /\ Counting'
    BY <1>1, OnlyType, AddRemoveIInv DEF ReplaceWorld, memory
  <1>3. TypeOK'
    BY <1>2 DEF ReplaceWorld, IInv, TypeOK, ListTypes, Bags, inlines, memory
  <1> QED BY <1>2, <1>3 DEF IInv

\* createVrml's group is disposed of, its nodes are counted once.
LEMMA CreateVrmlStep ==
  ASSUME IInv, NEW s \in Strings, CreateVrml(s)
  PROVE  IInv'
  <1> DEFINE top == AnswerGroup[s]
  <1>1. s \in Files /\ top \in Holders /\ Parse(s, top, {top})
    BY SceneAssumption DEF CreateVrml, Files, Holders, Nodes
  <1>2. ListTypes' /\ there' \in [Nodes -> {"unborn", "there", "freed"}]
    BY <1>1, ParseType DEF IInv
  <1>3. ParentsKnown'
    BY <1>1, ParseKnown DEF IInv
  <1>4. ref' = [n \in Nodes |-> CASE n \in {top} -> 0
                                  [] n \in Parts[s] \ {top} -> 1
                                  [] OTHER -> ref[n]]
    BY DEF CreateVrml, DisposedAnswer
  <1>5. /\ ref' = [n \in Nodes |-> ref'[n]]
        /\ \A n \in Nodes : ref'[n] = ref[n] \/ ref'[n] \in {0, 1}
        /\ \A n \in Nodes \ (Parts[s] \cup {top}) : ref'[n] = ref[n]
    BY <1>4
  <1>6. ref' \in [Nodes -> Int] /\ \A n \in Nodes : ref'[n] \in (-Settle)..1
    BY <1>5, CountedOnce DEF IInv
  <1>7. ShowsItsChildren'
    BY <1>1, <1>5, ParseShows DEF CreateVrml, IInv
  <1>8. calls' \in 0..MaxCalls
    BY SceneAssumption DEF CreateVrml, IInv, TypeOK
  <1>9. TypeOK'
    BY <1>2, <1>6, <1>8 DEF CreateVrml, IInv, TypeOK, ListTypes, Bags, inlines, history
  <1>10. \A n \in Nodes : \/ ref'[n] \in {0, 1}
                          \/ ref'[n] = ref[n] /\ there'[n] = there[n]
    BY <1>1, <1>4 DEF Parse
  <1>11. Counting'
    BY <1>10, CountingStep DEF IInv
  <1> QED BY <1>3, <1>7, <1>9, <1>11 DEF IInv

\* Nothing that kill_oldWorld empties is wanted, save the root, now hollow.
LEMMA KillOldWorldStep ==
  ASSUME IInv, KillOldWorld
  PROVE  IInv'
  <1>1. PICK gone \in SUBSET Nodes :
          /\ ref' = [n \in Nodes |-> IF n \in gone THEN Less(ref[n], 1) ELSE ref[n]]
          /\ field' = [f \in Fields |-> [h \in Holders |->
                         IF h \in gone \/ (h = Root /\ f = "children") THEN NoNodes
                         ELSE field[f][h]]]
          /\ sorted' = [s \in Sorters |-> IF s \in gone THEN NoNodes ELSE sorted[s]]
          /\ junk' = [s \in Sorters |-> junk[s] /\ s \notin gone]
          /\ old' = old \cup gone /\ reused' \in SUBSET Nodes
          /\ phase' = "replacing"
          /\ replacements < MaxReplacements /\ replacements' = replacements + 1
          /\ UNCHANGED <<there, changed, parents, inlines, startup, calls>>
    <2> DEFINE lost == Nodes \cap Closure(Listed(field["children"][Root]),
                                         [h \in Holders |-> InFields(h)])
               kept == {n \in lost : \E h \in Nodes \ lost : Living(h) /\ n \in InFields(h)}
    <2>1. lost \in SUBSET Nodes /\ kept \subseteq lost
      OBVIOUS
    <2>2. reused' = reused \cup kept
      BY DEF KillOldWorld
    <2>3. reused' \in SUBSET Nodes
      BY <2>1, <2>2 DEF IInv, TypeOK
    <2>4. /\ ref' = [n \in Nodes |-> IF n \in lost THEN Less(ref[n], 1) ELSE ref[n]]
          /\ field' = [f \in Fields |-> [h \in Holders |->
                         IF h \in lost \/ (h = Root /\ f = "children") THEN NoNodes
                         ELSE field[f][h]]]
          /\ sorted' = [s \in Sorters |-> IF s \in lost THEN NoNodes ELSE sorted[s]]
          /\ junk' = [s \in Sorters |-> junk[s] /\ s \notin lost]
          /\ old' = old \cup lost /\ phase' = "replacing"
          /\ replacements < MaxReplacements /\ replacements' = replacements + 1
          /\ UNCHANGED <<there, changed, parents, inlines, startup, calls>>
      BY DEF KillOldWorld
    <2> HIDE DEF lost, kept
    <2> QED BY <2>1, <2>3, <2>4
  <1>2. NoNodes \in Bags /\ ListTypes
    BY OnlyType, TypesOfLists DEF IInv
  <1>3. \A n \in Nodes : n \in gone => Less(ref[n], 1) = 0
    BY SceneAssumption DEF Less, IInv, TypeOK
  <1>4. ref' \in [Nodes -> Int] /\ \A n \in Nodes : ref'[n] \in (-Settle)..1
    <2>1. /\ ref' = [n \in Nodes |-> ref'[n]]
          /\ \A n \in Nodes : ref'[n] = ref[n] \/ ref'[n] \in {0, 1}
      BY <1>1, <1>3
    <2> QED BY <2>1, CountedOnce DEF IInv
  <1>5. field' \in [Fields -> [Holders -> Bags]]
    BY <1>1, <1>2 DEF ListTypes
  <1>6. sorted' \in [Sorters -> Bags] /\ junk' \in [Sorters -> BOOLEAN]
    BY <1>1, <1>2 DEF IInv, TypeOK, Bags
  <1>7. replacements' \in 0..MaxReplacements
    BY <1>1, SceneAssumption DEF IInv, TypeOK
  <1>8. TypeOK'
    BY <1>1, <1>4, <1>5, <1>6, <1>7 DEF IInv, TypeOK, Bags, inlines
  <1>9. ParentsKnown'
    <2> SUFFICES ASSUME NEW n \in Nodes, NEW k \in Holders, there'[n] # "freed"
                 PROVE  Places(k, n)' <= parents'[n][k]
      BY DEF ParentsKnown, Places
    <2>1. Places(k, n) <= parents[n][k] /\ parents' = parents
      BY <1>1, TypesOfLists DEF IInv
    <2>2. \A e \in Fields : field'[e][k][n] = 0 \/ field'[e][k][n] = field[e][k][n]
      BY <1>1 DEF NoNodes
    <2>3. \A e \in Fields : field[e][k][n] \in Nat
      BY <1>2 DEF ListTypes, Bags
    <2>4. parents[n][k] \in Nat
      BY <1>2 DEF ListTypes
    <2> QED BY <2>1, <2>2, <2>3, <2>4 DEF Places, Fields
  <1>10. ShowsItsChildren'
    <2> SUFFICES ASSUME NEW s \in Sorters, (s = Root \/ Wanted(s))', ~changed'[s],
                        ~(s = Root /\ Hollow')
                 PROVE  (sorted[s] = field["children"][s] /\ ~junk[s])'
      BY DEF ShowsItsChildren
    <2>1. s \in Holders /\ (s = Root \/ s \in Nodes)
      BY DEF Sorters, Holders, Nodes
    <2>2. s # Root
      <3>1. SUFFICES ASSUME s = Root PROVE Hollow'
        OBVIOUS
      <3>2. \A n \in Nodes : field'["children"][Root][n] = 0
        BY <1>1, <2>1, <3>1 DEF NoNodes, Fields
      <3> QED BY <3>1, <3>2 DEF Hollow, Listed
    <2>3. s \notin gone
      <3>1. SUFFICES ASSUME s \in gone PROVE FALSE
        OBVIOUS
      <3>2. ref'[s] = 0
        BY <1>1, <1>3, <2>1, <2>2, <3>1
      <3> QED BY <2>2, <3>2 DEF Wanted
    <2>4. Wanted(s) /\ ~changed[s]
      BY <1>1, <2>1, <2>2, <2>3 DEF Wanted
    <2>5. sorted[s] = field["children"][s] /\ ~junk[s]
      BY <2>2, <2>4 DEF IInv, ShowsItsChildren
    <2> QED BY <1>1, <2>1, <2>2, <2>3, <2>5 DEF Fields
  <1>11. \A n \in Nodes : \/ ref'[n] \in {0, 1}
                          \/ ref'[n] = ref[n] /\ there'[n] = there[n]
    BY <1>1, <1>3
  <1>12. Counting'
    BY <1>11, CountingStep DEF IInv
  <1> QED BY <1>8, <1>9, <1>10, <1>12 DEF IInv

\* A frame without node updates only goes on to its drawing.
LEMMA NoUpdatesStep ==
  ASSUME IInv, NoUpdates
  PROVE  IInv'
  <1>1. TypeOK'
    BY DEF NoUpdates, IInv, TypeOK, memory, lists, inlines, history
  <1>2. ParentsKnown'
    BY DEF NoUpdates, IInv, ParentsKnown, memory, lists
  <1>3. ShowsItsChildren'
    BY MarkedStep DEF NoUpdates, IInv, Wanted, memory, lists
  <1>4. Counting'
    BY DEF NoUpdates, IInv, Counting, memory
  <1> QED BY <1>1, <1>2, <1>3, <1>4 DEF IInv

\* A group that is compiled copies its children.
LEMMA DrawStep ==
  ASSUME IInv, Draw
  PROVE  IInv'
  <1>1. PICK compiled \in SUBSET Sorters :
          /\ sorted' = [s \in Sorters |-> IF s \in compiled THEN field["children"][s]
                                          ELSE sorted[s]]
          /\ junk' = [s \in Sorters |-> junk[s] /\ s \notin compiled]
          /\ changed' = [s \in Sorters |-> changed[s] /\ s \notin compiled]
    <2> DEFINE seen == {s \in Sorters \cap View : Living(s) /\ changed[s]}
    <2>1. seen \in SUBSET Sorters
      OBVIOUS
    <2>2. /\ sorted' = [s \in Sorters |-> IF s \in seen THEN field["children"][s]
                                          ELSE sorted[s]]
          /\ junk' = [s \in Sorters |-> junk[s] /\ s \notin seen]
          /\ changed' = [s \in Sorters |-> changed[s] /\ s \notin seen]
      BY DEF Draw
    <2> HIDE DEF seen
    <2> QED BY <2>1, <2>2
  <1>2. Sorters \subseteq Holders
    BY DEF Sorters, Holders, Nodes
  <1>3. /\ sorted' \in [Sorters -> [Nodes -> Nat]]
        /\ junk' \in [Sorters -> BOOLEAN] /\ changed' \in [Sorters -> BOOLEAN]
    BY <1>1, <1>2 DEF IInv, TypeOK, Fields
  <1>4. TypeOK'
    BY <1>3 DEF Draw, IInv, TypeOK, memory, inlines, history
  <1>5. ParentsKnown'
    BY DEF Draw, IInv, ParentsKnown, memory
  <1>6. ShowsItsChildren'
    <2> SUFFICES ASSUME NEW s \in Sorters, (s = Root \/ Wanted(s))', ~changed'[s],
                        ~(s = Root /\ Hollow')
                 PROVE  (sorted[s] = field["children"][s] /\ ~junk[s])'
      BY DEF ShowsItsChildren
    <2>1. UNCHANGED <<there, ref, field>>
      BY DEF Draw, memory
    <2>2. CASE s \in compiled
      BY <1>1, <2>1, <2>2
    <2>3. CASE s \notin compiled
      <3>1. ~changed[s] /\ sorted'[s] = sorted[s] /\ junk'[s] = junk[s]
        BY <1>1, <2>3 DEF IInv, TypeOK
      <3>2. ~(s = Root /\ Hollow)
        BY <2>1, <3>1 DEF Hollow
      <3> QED BY <2>1, <3>1, <3>2 DEF IInv, ShowsItsChildren, Wanted
    <2> QED BY <2>2, <2>3
  <1>7. Counting'
    BY DEF Draw, IInv, Counting, memory
  <1> QED BY <1>4, <1>5, <1>6, <1>7 DEF IInv

\* An Inline's record stays a resource; its file is parsed like any other.
LEMMA LoadInlineStep ==
  ASSUME IInv, LoadInline
  PROVE  IInv'
  <1>1. PICK i \in toLoad : /\ Begin(i) \/ FetchInline(i) \/ WaitParsed(i)
                            /\ toLoad' = toLoad \ {i}
    BY DEF LoadInline
  <1>2. i \in Inlines /\ i \in Holders /\ FileOf[i] \in Files
    BY DEF IInv, TypeOK, Holders, Nodes, Files
  <1>3. resource[i] \in Resource
    BY <1>2 DEF IInv, TypeOK
  <1>4. /\ Parses(FileOf[i], i)
        /\ status' \in [Inlines -> {"initial", "fetching", "parsing", "stable"}]
        /\ resource' \in [Inlines -> Resource]
    <2>1. CASE Begin(i)
      <3>1. PICK r \in CreateMulti :
              IF r.urls = 0
              THEN status' = [status EXCEPT ![i] = "stable"] /\ UNCHANGED resource
              ELSE /\ status' = [status EXCEPT ![i] = "fetching"]
                   /\ resource' = [resource EXCEPT ![i] = r]
        BY <2>1 DEF Begin
      <3>2. r \in Resource
        BY CreateMultiType
      <3> QED BY <1>2, <2>1, <3>1, <3>2 DEF Begin, Parses, IInv, TypeOK
    <2>2. CASE FetchInline(i)
      <3> DEFINE Then(r) ==
              /\ status' = [status EXCEPT ![i] = AfterFetch(r)]
              /\ CASE AfterFetch(r) = "parsing" ->
                        \E p \in Processed([r EXCEPT !.media = "unknown"]) :
                          /\ resource' = [resource EXCEPT ![i] = p]
                          /\ Parses(FileOf[i], i)
                   [] AfterFetch(r) = "fetching" ->
                        /\ resource' = [resource EXCEPT ![i] =
                                          [r EXCEPT !.status = "invalid",
                                                    !.type = "multi"]]
                        /\ UNCHANGED <<memory, field, parents, changed>>
                   [] OTHER ->
                        /\ resource' = [resource EXCEPT ![i] = r]
                        /\ UNCHANGED <<memory, field, parents, changed>>
      <3>0. PICK x \in Identify(resource[i]) : \E r \in Fetch(x) : Then(r)
        <4>1. PICK r \in UNION {Fetch(x) : x \in Identify(resource[i])} :
                /\ status' = [status EXCEPT ![i] = AfterFetch(r)]
                /\ CASE AfterFetch(r) = "parsing" ->
                          \E p \in Processed([r EXCEPT !.media = "unknown"]) :
                            /\ resource' = [resource EXCEPT ![i] = p]
                            /\ \/ /\ p.status = "parsed"
                                  /\ Parse(FileOf[i], i, {})
                                  /\ ref' = [n \in Nodes |->
                                      IF n \in Parts[FileOf[i]] THEN 1 ELSE ref[n]]
                               \/ UNCHANGED <<memory, field, parents, changed>>
                     [] AfterFetch(r) = "fetching" ->
                          /\ resource' = [resource EXCEPT ![i] =
                                [r EXCEPT !.status = "invalid", !.type = "multi"]]
                          /\ UNCHANGED <<memory, field, parents, changed>>
                     [] OTHER ->
                          /\ resource' = [resource EXCEPT ![i] = r]
                          /\ UNCHANGED <<memory, field, parents, changed>>
          BY <2>2 DEF FetchInline
        <4>2. Then(r)
          BY <4>1 DEF Parses
        <4> HIDE DEF Then
        <4> QED BY <4>2
      <3>1. PICK r \in Fetch(x) : Then(r)
        BY <3>0
      <3>2. x \in Resource /\ r \in Resource
        BY <1>3, IdentifyType, FetchType
      <3>3. AfterFetch(r) \in {"fetching", "parsing", "stable"}
        BY DEF AfterFetch
      <3>4. status' \in [Inlines -> {"initial", "fetching", "parsing", "stable"}]
        BY <3>1, <3>3 DEF IInv, TypeOK
      <3>5. CASE AfterFetch(r) = "parsing"
        <4>1. PICK p \in Processed([r EXCEPT !.media = "unknown"]) :
                resource' = [resource EXCEPT ![i] = p] /\ Parses(FileOf[i], i)
          BY <3>1, <3>5
        <4>2. [r EXCEPT !.media = "unknown"] \in Resource
          BY <3>2 DEF Resource, Media
        <4>3. p \in Resource
          <5>1. PICK out \in ProcessRes([r EXCEPT !.media = "unknown"]) :
                  p = IF out.remove THEN out.res ELSE Finish(out.res)
            BY DEF Processed
          <5> QED BY <4>2, <5>1, ProcessResType, FinishType
        <4> QED BY <3>4, <4>1, <4>3 DEF IInv, TypeOK
      <3>6. CASE AfterFetch(r) = "fetching"
        <4>1. [r EXCEPT !.status = "invalid", !.type = "multi"] \in Resource
          BY <3>2 DEF Resource, Statuses, Types
        <4> QED BY <3>1, <3>4, <3>6, <4>1 DEF Parses, IInv, TypeOK
      <3>7. CASE AfterFetch(r) = "stable"
        BY <3>1, <3>2, <3>4, <3>7 DEF Parses, IInv, TypeOK
      <3> QED BY <3>3, <3>5, <3>6, <3>7
    <2>3. CASE WaitParsed(i)
      <3>1. status' \in [Inlines -> {"initial", "fetching", "parsing", "stable"}]
        BY <2>3 DEF WaitParsed, IInv, TypeOK
      <3> QED BY <2>3, <3>1 DEF WaitParsed, Parses, IInv, TypeOK
    <2> QED BY <1>1, <2>1, <2>2, <2>3
  <1>5. /\ ListTypes' /\ there' \in [Nodes -> {"unborn", "there", "freed"}]
        /\ ref' \in [Nodes -> Int] /\ \A n \in Nodes : ref'[n] \in (-Settle)..1
        /\ ParentsKnown' /\ ShowsItsChildren' /\ Counting'
    BY <1>2, <1>4, ParsesIInv DEF LoadInline
  <1>6. TypeOK'
    BY <1>1, <1>4, <1>5 DEF LoadInline, IInv, TypeOK, ListTypes, Bags, history
  <1> QED BY <1>5, <1>6 DEF IInv

\* A frame's updates: what is freed goes, what is busy is marked and served.
LEMMA NodeUpdatesStep ==
  ASSUME IInv, NodeUpdates
  PROVE  IInv'
  <1> DEFINE dying == {n \in Nodes : there[n] = "there" /\ ref[n] <= 0}
             gone == {n \in dying : Settled(ref[n] - 1)}
             busy == {g \in Groups : Wanted(g)}
             work == {g \in busy : HasWork(g)}
  <1>1. /\ there' = [n \in Nodes |-> IF n \in gone THEN "freed" ELSE there[n]]
        /\ ref' = [n \in Nodes |-> IF n \in dying THEN ref[n] - 1 ELSE ref[n]]
        /\ field' = [f \in Fields |-> [h \in Holders |->
                       CASE h \in gone -> NoNodes
                         [] h \in busy /\ f = "children" -> Served(h)
                         [] h \in busy /\ f # "children" -> NoNodes
                         [] OTHER -> field[f][h]]]
    BY DEF NodeUpdates
  <1>2. /\ parents' = [n \in Nodes |-> [h \in Holders |->
                         CASE n \in gone -> 0
                           [] n \notin gone /\ h \in busy -> EntriesServed(n, h)
                           [] OTHER -> parents[n][h]]]
        /\ sorted' = [s \in Sorters |-> IF s \in gone THEN NoNodes ELSE sorted[s]]
        /\ junk' = [s \in Sorters |->
                      \/ junk[s]
                      \/ (s \in busy \cup {Root} /\ Unsorted(s)
                          /\ Listed(sorted[s]) # {})]
        /\ changed' = [s \in Sorters |-> changed[s] \/ s \in Above(work, parents')]
    BY DEF NodeUpdates
  <1>3. /\ toLoad' \subseteq Inlines /\ phase' = "draw"
        /\ UNCHANGED <<status, resource, startup, history, calls, replacements>>
    BY DEF NodeUpdates, Unloaded
  <1>4. /\ gone \subseteq dying /\ dying \subseteq Nodes
        /\ busy \subseteq Groups \ gone /\ busy \subseteq Nodes \ dying
        /\ \A n \in gone : ref[n] - 1 <= -Settle
        /\ \A n \in dying \ gone : ref[n] - 1 > -Settle
        /\ \A n \in dying : ref[n] <= 0 /\ ref[n] > -Settle
    BY SceneAssumption DEF Settled, Wanted, Nodes, IInv, TypeOK, Counting
  <1>5. ListTypes /\ NoNodes \in Bags
    BY TypesOfLists, OnlyType DEF IInv
  <1>6. \A h \in Holders, n \in Nodes :
          /\ field["children"][h][n] \in Nat
          /\ field["addChildren"][h][n] \in Nat
          /\ field["removeChildren"][h][n] \in Nat
          /\ parents[n][h] \in Nat
    BY <1>5 DEF ListTypes, Bags, Fields
  <1>7. \A h \in Holders, n \in Nodes :
          /\ Added(h, n) \in Nat /\ Served(h)[n] \in Nat /\ EntriesServed(n, h) \in Nat
    BY <1>6, CountType, EntriesType
       DEF Ways, Added, Served, EntriesServed
  <1> HIDE DEF dying, gone, busy, work
  <1>8. ref' \in [Nodes -> Int] /\ \A n \in Nodes : ref'[n] \in (-Settle)..1
    <2>1. Settle \in Nat \ {0} /\ ref \in [Nodes -> Int]
      BY SceneAssumption DEF IInv, TypeOK
    <2>2. \A n \in Nodes : ref[n] \in (-Settle)..1
      BY DEF IInv, TypeOK
    <2>3. \A n \in dying : ref[n] - 1 \in (-Settle)..1
      BY <1>4, <2>1, <2>2
    <2> QED BY <1>1, <2>1, <2>2, <2>3
  <1>9. Counting'
    <2> SUFFICES ASSUME NEW n \in Nodes, there'[n] = "there"
                 PROVE  ref'[n] > -Settle
      BY DEF Counting
    <2>1. n \notin gone /\ there[n] = "there"
      BY <1>1
    <2>2. ref[n] > -Settle
      BY <2>1 DEF IInv, Counting
    <2> QED BY <1>1, <1>4, <2>1, <2>2
  <1>10. \A h \in busy : Served(h) \in Bags
    <2> SUFFICES ASSUME NEW h \in busy PROVE Served(h) \in Bags
      OBVIOUS
    <2>1. h \in Holders
      BY <1>4 DEF Holders
    <2>2. \A n \in Nodes :
            CountAfter(Added(h, n), field["removeChildren"][h][n], "remove") \in Nat
      BY <1>6, <1>7, <2>1, CountType DEF Ways
    <2> QED BY <2>2 DEF Served, Bags
  <1>11. field' \in [Fields -> [Holders -> Bags]]
    <2>1. \A f \in Fields, h \in Holders :
            (CASE h \in gone -> NoNodes
               [] h \in busy /\ f = "children" -> Served(h)
               [] h \in busy /\ f # "children" -> NoNodes
               [] OTHER -> field[f][h]) \in Bags
      BY <1>5, <1>10 DEF ListTypes
    <2> QED BY <1>1, <2>1
  <1>12. parents' \in [Nodes -> [Holders -> Nat]]
    <2>1. \A n \in Nodes, h \in Holders :
            (CASE n \in gone -> 0
               [] n \notin gone /\ h \in busy -> EntriesServed(n, h)
               [] OTHER -> parents[n][h]) \in Nat
      BY <1>6, <1>7
    <2> QED BY <1>2, <2>1
  <1>13. /\ sorted' \in [Sorters -> [Nodes -> Nat]]
         /\ junk' \in [Sorters -> BOOLEAN] /\ changed' \in [Sorters -> BOOLEAN]
         /\ there' \in [Nodes -> {"unborn", "there", "freed"}]
    BY <1>1, <1>2, <1>5 DEF IInv, TypeOK, Bags
  <1>14. TypeOK'
    BY <1>3, <1>8, <1>11, <1>12, <1>13 DEF IInv, TypeOK, Bags, history
  <1>15. ParentsKnown'
    <2> SUFFICES ASSUME NEW n \in Nodes, NEW k \in Holders, there'[n] # "freed"
                 PROVE  Places(k, n)' <= parents'[n][k]
      BY DEF ParentsKnown, Places
    <2>1. n \notin gone /\ there[n] # "freed"
      BY <1>1
    <2>2. Places(k, n) <= parents[n][k]
      BY <2>1, TypesOfLists DEF IInv
    <2>3. CASE k \in gone
      <3>0. \A f \in Fields : field'[f][k] = NoNodes
        BY <1>1, <1>4, <2>3
      <3>1. \A f \in Fields : field'[f][k][n] = 0
        BY <3>0 DEF NoNodes
      <3>2. parents'[n][k] \in Nat
        BY <1>12
      <3> QED BY <3>1, <3>2 DEF Places, Fields
    <2>4. CASE k \in busy
      <3> DEFINE c == field["children"][k][n]
                 a == field["addChildren"][k][n]
                 r == field["removeChildren"][k][n]
                 p == parents[n][k]
                 p1 == EntriesAfter(p, c, a, "add")
                 c1 == CountAfter(c, a, "add")
                 p2 == EntriesAfter(p1, c1, r, "remove")
                 c2 == CountAfter(c1, r, "remove")
      <3>1. c \in Nat /\ a \in Nat /\ r \in Nat /\ p \in Nat
        BY <1>6
      <3>2. c1 \in Nat /\ p1 \in Nat /\ c2 \in Nat
        BY <3>1, CountType, EntriesType DEF Ways
      <3>3. c + 0 <= p
        BY <2>2, <3>1 DEF Places
      <3>4. c1 + 0 <= p1
        BY <3>1, <3>3, EntriesCover DEF Ways
      <3>5. c2 + 0 <= p2
        BY <3>1, <3>2, <3>4, EntriesCover DEF Ways
      <3>6. parents'[n][k] = p2
        BY <1>2, <2>1, <2>4 DEF EntriesServed, Added
      <3>7. field'["children"][k][n] = c2
        BY <1>1, <1>4, <2>4 DEF Served, Added, Fields
      <3>8. field'["addChildren"][k][n] = 0 /\ field'["removeChildren"][k][n] = 0
        BY <1>1, <1>4, <2>4 DEF Fields, NoNodes
      <3> HIDE DEF c2, p2
      <3> QED BY <3>2, <3>5, <3>6, <3>7, <3>8 DEF Places
    <2>5. CASE k \notin gone /\ k \notin busy
      <3>1. \A f \in Fields : field'[f][k] = field[f][k]
        BY <1>1, <2>5
      <3>2. parents'[n][k] = parents[n][k]
        BY <1>2, <2>1, <2>5
      <3> QED BY <2>2, <3>1, <3>2 DEF Places, Fields
    <2> QED BY <2>3, <2>4, <2>5
  <1>16. ShowsItsChildren'
    <2> SUFFICES ASSUME NEW s \in Sorters, (s = Root \/ Wanted(s))', ~changed'[s],
                        ~(s = Root /\ Hollow')
                 PROVE  (sorted[s] = field["children"][s] /\ ~junk[s])'
      BY DEF ShowsItsChildren
    <2>1. /\ s \in Holders /\ (s = Root \/ s \in Groups) /\ Groups \subseteq Nodes
          /\ Root \notin Nodes
      BY SceneAssumption DEF Sorters, Holders, Nodes
    <2>2. ~changed[s] /\ s \notin work
      <3>1. s \notin Above(work, parents') /\ ~changed[s]
        BY <1>2
      <3> QED BY <3>1 DEF Above
    <2>3. s \notin gone
      BY <1>1, <1>4, <2>1 DEF Wanted
    <2>4. s = Root \/ s \in busy
      <3>1. CASE s \in Groups
        <4>1. there'[s] = "there" /\ ref'[s] > 0
          BY <2>1, <3>1 DEF Wanted
        <4>2. there[s] = "there"
          BY <1>1, <2>1, <2>3, <3>1, <4>1
        <4>3. s \notin dying
          <5> SUFFICES ASSUME s \in dying PROVE FALSE
            OBVIOUS
          <5>1. ref'[s] = ref[s] - 1 /\ ref[s] <= 0 /\ ref[s] \in Int
            BY <1>1, <1>4, <2>1, <3>1 DEF IInv, TypeOK
          <5> QED BY <4>1, <5>1
        <4>4. ref'[s] = ref[s]
          BY <1>1, <2>1, <3>1, <4>3
        <4> QED BY <3>1, <4>1, <4>2, <4>4 DEF busy, Wanted
      <3> QED BY <2>1, <3>1
    <2>5. field'["children"][s] = field["children"][s]
      <3>1. CASE s = Root
        BY <1>1, <1>4, <2>1, <2>3, <3>1 DEF Fields
      <3>2. CASE s \in busy
        <4>1. \A n \in Nodes : /\ field["addChildren"][s][n] = 0
                               /\ field["removeChildren"][s][n] = 0
          <5>1. /\ Listed(field["addChildren"][s]) = {}
                /\ Listed(field["removeChildren"][s]) = {}
            BY <2>2, <3>2 DEF work, HasWork
          <5>2. \A n \in Nodes : /\ ~(field["addChildren"][s][n] > 0)
                                 /\ ~(field["removeChildren"][s][n] > 0)
            BY <5>1 DEF Listed
          <5> QED BY <1>6, <2>1, <5>2
        <4>2. \A n \in Nodes : Served(s)[n] = field["children"][s][n]
          BY <1>6, <2>1, <4>1 DEF Served, Added, CountAfter, Less
        <4>3. /\ field'["children"][s] = Served(s)
              /\ Served(s) \in Bags /\ field["children"][s] \in Bags
          BY <1>1, <1>5, <1>10, <2>1, <2>3, <3>2 DEF Fields, ListTypes
        <4> QED BY <4>2, <4>3 DEF Bags
      <3> QED BY <2>4, <3>1, <3>2
    <2>6. ~(s = Root /\ Hollow)
      BY <2>2, <2>5 DEF Hollow
    <2>7. s = Root \/ Wanted(s)
      BY <2>4 DEF busy
    <2>8. sorted[s] = field["children"][s] /\ ~junk[s]
      BY <2>2, <2>6, <2>7 DEF IInv, ShowsItsChildren
    <2>9. ~Unsorted(s)
      BY <2>8 DEF Unsorted
    <2> QED BY <1>2, <2>3, <2>5, <2>8, <2>9
  <1> QED BY <1>9, <1>14, <1>15, <1>16 DEF IInv

\* Every step keeps the invariant.
LEMMA NextIInv ==
  ASSUME IInv, [Next]_vars
  PROVE  IInv'
  <1>1. CASE SendFirstWorld
    BY <1>1, SendFirstWorldStep
  <1>2. CASE ParserDone
    BY <1>2, ParserDoneStep
  <1>3. CASE DisplayFrame
    BY <1>3, NodeUpdatesStep, NoUpdatesStep, LoadInlineStep, DrawStep
       DEF DisplayFrame
  <1>4. CASE Clients
    BY <1>4, CreateVrmlStep, SendNodeStep, KillOldWorldStep DEF Clients
  <1>5. CASE Replacing
    <2>1. CASE AnchorLoads
      BY <2>1, AnchorLoadsStep
    <2>2. CASE \E k \in 0..MaxGiven : \E S \in kSubset(k, Known) : ReplaceWorld(S)
      <3>1. PICK k \in 0..MaxGiven : \E S \in kSubset(k, Known) : ReplaceWorld(S)
        BY <2>2
      <3>2. PICK S \in kSubset(k, Known) : ReplaceWorld(S)
        BY <3>1
      <3>3. S \in SUBSET Nodes
        BY DEF kSubset, Known
      <3> QED BY <3>2, <3>3, ReplaceWorldStep
    <2> QED BY <1>5, <2>1, <2>2 DEF Replacing
  <1>6. CASE UNCHANGED vars
    <2>1. TypeOK'
      BY <1>6 DEF vars, memory, lists, inlines, history, IInv, TypeOK
    <2>2. ParentsKnown'
      BY <1>6 DEF vars, memory, lists, IInv, ParentsKnown
    <2>3. ShowsItsChildren'
      BY <1>6, MarkedStep DEF vars, memory, lists, IInv, Wanted
    <2>4. Counting'
      BY <1>6 DEF vars, memory, IInv, Counting
    <2> QED BY <2>1, <2>2, <2>3, <2>4 DEF IInv
  <1> QED BY <1>1, <1>2, <1>3, <1>4, <1>5, <1>6 DEF Next

-----------------------------------------------------------------------------
(* TypeOK, for any files and any calls: in particular a disposed node is   *)
(* never counted below -Settle, the count at which killNode frees it.      *)
THEOREM Typed == Spec => []TypeOK
  <1>1. Init => IInv
    BY InitIInv
  <1>2. IInv /\ [Next]_vars => IInv'
    BY NextIInv
  <1>3. IInv => TypeOK
    BY DEF IInv
  <1> QED BY <1>1, <1>2, <1>3, PTL DEF Spec

(* ParentsKnown: whatever clients add, remove and set, a node has in       *)
(* _parentVector an entry for every place of a field that lists it.        *)
THEOREM EntriesForPlaces == Spec => []ParentsKnown
  <1>1. Init => IInv
    BY InitIInv
  <1>2. IInv /\ [Next]_vars => IInv'
    BY NextIInv
  <1>3. IInv => ParentsKnown
    BY DEF IInv
  <1> QED BY <1>1, <1>2, <1>3, PTL DEF Spec

(* ShowsItsChildren: a group that is not marked draws its present children,*)
(* but for the root that kill_oldWorld left hollow.                        *)
THEOREM GroupsShowChildren == Spec => []ShowsItsChildren
  <1>1. Init => IInv
    BY InitIInv
  <1>2. IInv /\ [Next]_vars => IInv'
    BY NextIInv
  <1>3. IInv => ShowsItsChildren
    BY DEF IInv
  <1> QED BY <1>1, <1>2, <1>3, PTL DEF Spec

-----------------------------------------------------------------------------
(* What is reached from a set. *)

\* One step further.
Further(T, next) == T \cup UNION {next[h] : h \in T}

\* A set that one step does not leave.
Closed(Z, next) == \A h \in Z : next[h] \subseteq Z

\* Closure reaches nothing outside a closed set that it begins in.
LEMMA ClosureLeast ==
  ASSUME NEW next \in [Holders -> SUBSET Holders],
         NEW Z \in SUBSET Holders, Closed(Z, next), NEW S \in SUBSET Z
  PROVE  Closure(S, next) \subseteq Z
  <1> DEFINE Body(f, T) == IF Further(T, next) = T THEN T ELSE f[Further(T, next)]
             Is(f) == f = [T \in SUBSET Holders |-> Body(f, T)]
             from == CHOOSE f : Is(f)
             least == [T \in SUBSET Holders |->
                         {h \in Holders : \A Y \in SUBSET Holders :
                            T \subseteq Y /\ Closed(Y, next) => h \in Y}]
  <1>1. ASSUME NEW T \in SUBSET Holders
        PROVE  Further(T, next) \in SUBSET Holders /\ T \subseteq Further(T, next)
    BY <1>1 DEF Further
  <1>2. ASSUME NEW Y \in SUBSET Holders, Closed(Y, next), NEW T \in SUBSET Y
        PROVE  Further(T, next) \subseteq Y
    BY <1>2 DEF Further, Closed
  <1>3. Is(least)
    <2>1. ASSUME NEW T \in SUBSET Holders PROVE least[T] = Body(least, T)
      <3>1. CASE Further(T, next) = T
        <4>1. Closed(T, next)
          BY <3>1 DEF Further, Closed
        <4>2. least[T] = T
          BY <4>1
        <4> QED BY <3>1, <4>2
      <3>2. CASE Further(T, next) # T
        <4>1. \A Y \in SUBSET Holders :
                Closed(Y, next) => (T \subseteq Y <=> Further(T, next) \subseteq Y)
          BY <1>1, <1>2
        <4>2. Further(T, next) \in SUBSET Holders
          BY <1>1
        <4>3. least[T] = least[Further(T, next)]
          BY <4>1, <4>2
        <4> QED BY <3>2, <4>3
      <3> QED BY <3>1, <3>2
    <2> HIDE DEF Body
    <2>2. least = [T \in SUBSET Holders |-> least[T]]
      OBVIOUS
    <2> HIDE DEF least
    <2> QED BY <2>1, <2>2
  <1>4. Is(from)
    <2> HIDE DEF Is
    <2> QED BY <1>3
  <1>5. Closure(S, next) = from[S]
    BY DEF Closure, Further
  <1>6. \A T \in SUBSET Holders : from[T] = Body(from, T)
    <2> HIDE DEF from
    <2> QED BY <1>4
  <1> HIDE DEF from, Is, least
  <1>7. ASSUME NEW T \in SUBSET Z PROVE from[T] \subseteq Z
    <2> DEFINE Bad == {U \in SUBSET Z : ~(from[U] \subseteq Z)}
               Left(U) == Cardinality(Holders \ U)
               Sizes == {Left(U) : U \in Bad}
    <2> SUFFICES ASSUME Bad # {} PROVE FALSE
      BY <1>7
    <2>1. IsFiniteSet(Holders)
      BY SceneAssumption, FS_AddElement DEF Holders
    <2>2. \A U \in SUBSET Holders : IsFiniteSet(Holders \ U) /\ Left(U) \in Nat
      <3> TAKE U \in SUBSET Holders
      <3>1. IsFiniteSet(Holders \ U)
        BY <2>1, FS_Subset
      <3> QED BY <3>1, FS_CardinalityType
    <2>3. Bad \subseteq SUBSET Holders
      OBVIOUS
    <2>4. Sizes \subseteq Nat /\ Sizes # {}
      BY <2>2, <2>3
    <2>5. PICK m \in Sizes : \A k \in Sizes : <<k, m>> \notin OpToRel(<, Nat)
      <3> HIDE DEF Sizes
      <3> QED BY <2>4, NatLessThanWellFounded, WFMin
    <2>6. \A k \in Sizes : ~(k < m)
      <3> HIDE DEF Sizes
      <3> QED BY <2>4, <2>5 DEF OpToRel
    <2>7. PICK U \in Bad : m = Left(U)
      BY <2>5
    <2>8. /\ U \in SUBSET Z /\ U \in SUBSET Holders /\ ~(from[U] \subseteq Z)
          /\ from[U] = Body(from, U)
      BY <1>6, <2>7
    <2>9. Further(U, next) # U /\ from[U] = from[Further(U, next)]
      BY <2>8
    <2> DEFINE V == Further(U, next)
    <2>10. V \in SUBSET Z /\ U \subseteq V /\ V # U
      BY <1>1, <1>2, <2>8, <2>9
    <2> HIDE DEF V
    <2>11. V \in Bad
      BY <2>8, <2>9, <2>10 DEF V
    <2>12. Left(V) < Left(U)
      <3>1. Holders \ V \in SUBSET (Holders \ U) /\ Holders \ V # Holders \ U
        BY <2>8, <2>10
      <3>2. Left(V) <= Left(U) /\ Left(U) # Left(V)
        BY <2>2, <2>8, <3>1, FS_Subset
      <3>3. Left(V) \in Nat /\ Left(U) \in Nat
        BY <2>2, <2>8, <2>10
      <3> HIDE DEF Left
      <3> QED BY <3>2, <3>3
    <2> QED BY <2>6, <2>7, <2>11, <2>12
  <1> QED BY <1>5, <1>7

-----------------------------------------------------------------------------
(* Nothing that was freed is drawn.  A node is freed only when its world   *)
(* was replaced or it was the group of an answer; the one is in no list    *)
(* that is drawn unless a client kept it, the other never is.              *)

Answers == {AnswerGroup[s] : s \in Strings}

Born == {n \in Nodes : there[n] # "unborn"}

\* Node n is in a field of h or in its sorted copy.
Lists(h, n) ==
  (\E f \in Fields : field[f][h][n] > 0) \/ (h \in Sorters /\ sorted[h][n] > 0)

\* Only nodes that were made are listed, or were replaced with their world.
BornInv == /\ \A h \in Holders, n \in Nodes : Lists(h, n) => n \in Born \ Answers
           /\ old \subseteq Born

\* Only what is in memory has lists, and of the fields only children is the
\* root's.
HolderInv ==
  /\ \A h, n \in Nodes : Lists(h, n) => there[h] = "there"
  /\ \A f \in Fields \ {"children"}, n \in Nodes : ~(field[f][Root][n] > 0)
  /\ \A i \in toLoad : there[i] = "there"

\* Who is given up, and is freed for it.
GivenUp(n) == there[n] = "freed" \/ (there[n] = "there" /\ ref[n] <= 0)
GivenUpInv == \A n \in Nodes : GivenUp(n) => n \in old \cup Answers

\* No list that is drawn has a node of a replaced world that nobody kept.
ReusedInv == \A n \in old \ reused, h \in Holders : n \notin InFields(h)

DeadInv == BornInv /\ HolderInv /\ GivenUpInv /\ ReusedInv

\* A list in a group that can be drawn is one of its lists.
LEMMA InFieldsLists ==
  /\ \A h, n : n \in InFields(h) <=>
       /\ n \in Nodes
       /\ \/ \E f \in Fields : field[f][h][n] > 0
          \/ h \in Groups /\ ~junk[h] /\ sorted[h][n] > 0
  /\ \A h, n : n \in InFields(h) => Lists(h, n)
  <1>1. ASSUME NEW h, NEW n
        PROVE  n \in InFields(h) <=>
                 /\ n \in Nodes
                 /\ \/ \E f \in Fields : field[f][h][n] > 0
                    \/ h \in Groups /\ ~junk[h] /\ sorted[h][n] > 0
    <2>1. \A f : n \in Listed(field[f][h]) <=> n \in Nodes /\ field[f][h][n] > 0
      BY DEF Listed
    <2>2. n \in Listed(sorted[h]) <=> n \in Nodes /\ sorted[h][n] > 0
      BY DEF Listed
    <2>3. n \in InFields(h) <=>
            \/ \E f \in Fields : n \in Listed(field[f][h])
            \/ h \in Groups /\ ~junk[h] /\ n \in Listed(sorted[h])
      BY DEF InFields
    <2> QED BY <2>1, <2>2, <2>3
  <1> QED BY <1>1 DEF Lists, Sorters

\* A step that gives the nodes of S to lists, and takes what it likes.
Gives(S) ==
  /\ S \subseteq Nodes \ Answers
  /\ \A n \in S : there'[n] # "unborn"
  /\ \A n \in Nodes : there[n] # "unborn" => there'[n] # "unborn"
  /\ \A h \in Holders, n \in Nodes : Lists(h, n)' =>
       \/ Lists(h, n) /\ (h # Root => there'[h] = there[h])
       \/ n \in S /\ (h # Root => there'[h] = "there")
  /\ \A h \in Holders, n \in Nodes : (n \in InFields(h))' =>
       n \in InFields(h) \/ n \in S
  /\ \A f \in Fields \ {"children"}, n \in Nodes :
       field'[f][Root][n] > 0 => field[f][Root][n] > 0
  /\ \A i \in toLoad' : there'[i] = "there"
  /\ \A n \in Nodes : GivenUp(n)' => GivenUp(n) \/ n \in Answers
  /\ old' = old /\ reused \subseteq reused' /\ S \cap old \subseteq reused'

\* Such a step keeps DeadInv.
LEMMA GivesKeeps ==
  ASSUME TypeOK, DeadInv, NEW S, Gives(S)
  PROVE  DeadInv'
  <1>1. BornInv'
    <2>1. ASSUME NEW h \in Holders, NEW n \in Nodes, Lists(h, n)'
          PROVE  (n \in Born \ Answers)'
      BY <2>1 DEF Gives, DeadInv, BornInv, Born, Answers
    <2>2. old' \subseteq Born'
      BY DEF Gives, DeadInv, BornInv, Born
    <2> QED BY <2>1, <2>2 DEF BornInv
  <1>2. HolderInv'
    <2>1. ASSUME NEW h \in Nodes, NEW n \in Nodes, Lists(h, n)'
          PROVE  there'[h] = "there"
      <3>1. h \in Holders /\ h # Root
        BY SceneAssumption DEF Holders
      <3> QED BY <2>1, <3>1 DEF Gives, DeadInv, HolderInv
    <2>2. ASSUME NEW f \in Fields \ {"children"}, NEW n \in Nodes
          PROVE  ~(field'[f][Root][n] > 0)
      BY DEF Gives, DeadInv, HolderInv
    <2>3. \A i \in toLoad' : there'[i] = "there"
      BY DEF Gives
    <2> QED BY <2>1, <2>2, <2>3 DEF HolderInv
  <1>3. GivenUpInv'
    BY DEF Gives, DeadInv, GivenUpInv, Answers
  <1>4. ReusedInv'
    <2> SUFFICES ASSUME NEW n \in old' \ reused', NEW h \in Holders,
                        (n \in InFields(h))'
                 PROVE  FALSE
      BY DEF ReusedInv
    <2>1. n \in Nodes /\ n \in old \ reused /\ n \notin S
      BY DEF Gives, TypeOK
    <2> QED BY <2>1 DEF Gives, DeadInv, ReusedInv
  <1> QED BY <1>1, <1>2, <1>3, <1>4 DEF DeadInv

\* AddRemoveChildren lists nothing but what is given and what was listed.
LEMMA AddRemoveGives ==
  ASSUME ListTypes, NEW h \in Holders, NEW f \in Fields, NEW bag \in Bags,
         NEW way \in Ways, AddRemoveChildren(h, f, bag, way)
  PROVE  /\ \A e \in Fields, k \in Holders, n \in Nodes :
              field'[e][k][n] > 0 =>
                field[e][k][n] > 0 \/ (e = f /\ k = h /\ n \in Listed(bag))
         /\ \A e \in Fields, k \in Holders, n \in Nodes :
              e # f \/ k # h => field'[e][k][n] = field[e][k][n]
  <1>1. CASE Listed(bag) = {}
    BY <1>1 DEF AddRemoveChildren
  <1>2. CASE Listed(bag) # {}
    <2> DEFINE row == [m \in Nodes |-> CountAfter(field[f][h][m], bag[m], way)]
    <2>1. field' = [field EXCEPT ![f][h] = row]
      BY <1>2 DEF AddRemoveChildren
    <2>2. \A e \in Fields, k \in Holders :
            field'[e][k] = IF e = f /\ k = h THEN row ELSE field[e][k]
      <3> HIDE DEF row
      <3> QED BY <2>1 DEF ListTypes
    <2>3. ASSUME NEW n \in Nodes, row[n] > 0
          PROVE  field[f][h][n] > 0 \/ n \in Listed(bag)
      <3>1. field[f][h][n] \in Nat /\ bag[n] \in Nat
        BY DEF ListTypes, Bags
      <3>2. CountAfter(field[f][h][n], bag[n], way) > 0
        BY <2>3
      <3>3. field[f][h][n] > 0 \/ bag[n] > 0
        BY <3>1, <3>2 DEF CountAfter, Ways, Less
      <3> QED BY <3>3 DEF Listed
    <2> HIDE DEF row
    <2> QED BY <2>2, <2>3
  <1> QED BY <1>1, <1>2

\* Parse lists nothing but what it makes and what was listed.
LEMMA ParseGives ==
  ASSUME ListTypes, NEW f \in Files, NEW h \in Holders, NEW answer,
         Parse(f, h, answer)
  PROVE  /\ \A k \in Holders, n \in Nodes :
              field'["children"][k][n] > 0 =>
                \/ field["children"][k][n] > 0
                \/ n \in Parts[f] /\ (k \in Parts[f] \/ k = h)
         /\ \A e \in Fields \ {"children"} : field'[e] = field[e]
  <1>1. ASSUME NEW k \in Holders, NEW n \in Nodes, field'["children"][k][n] > 0,
               ~(field["children"][k][n] > 0)
        PROVE  n \in Parts[f] /\ (k \in Parts[f] \/ k = h)
    <2>1. /\ field["children"][k][n] \in Nat /\ Put(f, h, k, n) \in Nat
          /\ field'["children"][k][n] = field["children"][k][n] + Put(f, h, k, n)
      BY ParseEntries, PutType DEF ListTypes, Bags, Fields
    <2>2. Put(f, h, k, n) # 0
      BY <1>1, <2>1
    <2>3. \/ k \in Parts[f] \cap Groups /\ n \in Content[k]
          \/ k = h /\ n \in Tops[f]
      BY <2>2 DEF Put, Only
    <2> QED BY <2>3, SceneAssumption
  <1>2. \A e \in Fields \ {"children"} : field'[e] = field[e]
    BY ParseEntries
  <1> QED BY <1>1, <1>2

\* A step that leaves nodes and lists alone keeps DeadInv.
LEMMA StillDead ==
  ASSUME TypeOK, DeadInv, UNCHANGED <<memory, field, sorted, junk, history>>,
         toLoad' \subseteq toLoad
  PROVE  DeadInv'
  <1>1. /\ there' = there /\ ref' = ref /\ field' = field /\ sorted' = sorted
        /\ junk' = junk /\ old' = old /\ reused' = reused
    BY DEF memory, history
  <1>2. \A h \in Holders, n \in Nodes : Lists(h, n)' <=> Lists(h, n)
    BY <1>1 DEF Lists
  <1>3. \A h \in Holders, n \in Nodes : (n \in InFields(h))' <=> n \in InFields(h)
    BY <1>1, InFieldsLists DEF InFields, Listed
  <1>4. \A i \in toLoad' : there'[i] = "there"
    BY <1>1 DEF DeadInv, HolderInv
  <1>5. Gives({})
    BY <1>1, <1>2, <1>3, <1>4 DEF Gives, GivenUp
  <1> QED BY <1>5, GivesKeeps

\* What the parser makes is new, so it is not of a replaced world.
LEMMA ParseDead ==
  ASSUME IInv, DeadInv, NEW f \in Files, NEW h \in Holders, NEW answer \in SUBSET Answers,
         Parse(f, h, answer), h = Root \/ there'[h] = "there",
         \A n \in Parts[f] : ref'[n] = 1,
         \A n \in Nodes \ (Parts[f] \cup answer) : ref'[n] = ref[n],
         UNCHANGED <<sorted, junk, history>>, toLoad' \subseteq toLoad
  PROVE  DeadInv'
  <1> DEFINE made == Parts[f] \cup answer
  <1>1. /\ \A n \in made : there[n] = "unborn"
        /\ \A n \in Nodes : there'[n] = IF n \in made THEN "there" ELSE there[n]
        /\ sorted' = sorted /\ junk' = junk /\ old' = old /\ reused' = reused
    BY DEF Parse, history
  <1>2. Parts[f] \subseteq Nodes \ Answers
    BY SceneAssumption DEF Answers
  <1>3. ListTypes /\ TypeOK
    BY TypesOfLists DEF IInv
  <1>4. ASSUME NEW k \in Holders, NEW n \in Nodes, NEW e \in Fields,
               field'[e][k][n] > 0
        PROVE  \/ field[e][k][n] > 0
               \/ n \in Parts[f] /\ (k \in Parts[f] \/ k = h)
    BY <1>3, <1>4, ParseGives
  <1> HIDE DEF made
  <1>5. ASSUME NEW k \in Holders, NEW n \in Nodes, Lists(k, n)'
        PROVE  \/ Lists(k, n) /\ (k # Root => there'[k] = there[k])
               \/ n \in Parts[f] /\ (k # Root => there'[k] = "there")
    <2>1. CASE Lists(k, n)
      <3>1. k # Root => k \in Nodes /\ there[k] = "there"
        BY <2>1 DEF Holders, DeadInv, HolderInv
      <3>2. k # Root => k \notin made
        BY <1>1, <3>1
      <3> QED BY <1>1, <2>1, <3>1, <3>2
    <2>2. CASE ~Lists(k, n)
      <3>1. PICK e \in Fields : field'[e][k][n] > 0 /\ ~(field[e][k][n] > 0)
        BY <1>1, <1>5, <2>2 DEF Lists
      <3>2. n \in Parts[f] /\ (k \in Parts[f] \/ k = h)
        BY <1>4, <3>1
      <3>3. k \in Parts[f] => there'[k] = "there"
        BY <1>1, <1>2 DEF made
      <3> QED BY <3>2, <3>3
    <2> QED BY <2>1, <2>2
  <1>6. ASSUME NEW k \in Holders, NEW n \in Nodes, (n \in InFields(k))'
        PROVE  n \in InFields(k) \/ n \in Parts[f]
    <2>1. \/ \E e \in Fields : field'[e][k][n] > 0
          \/ k \in Groups /\ ~junk[k] /\ sorted[k][n] > 0
      BY <1>1, <1>6 DEF InFields, Listed
    <2> QED BY <1>4, <2>1, InFieldsLists
  <1>7. ASSUME NEW n \in Nodes, GivenUp(n)'
        PROVE  GivenUp(n) \/ n \in Answers
    <2>1. CASE n \in Parts[f]
      BY <1>1, <1>7, <2>1 DEF GivenUp, made
    <2>2. CASE n \notin made
      BY <1>1, <1>7, <2>2 DEF GivenUp, made
    <2> QED BY <2>1, <2>2 DEF made
  <1>8. Parts[f] \cap old = {}
    BY <1>1 DEF made, DeadInv, BornInv, Born
  <1>9. ASSUME NEW e \in Fields \ {"children"}, NEW n \in Nodes
        PROVE  field'[e][Root][n] = field[e][Root][n]
    BY <1>3, ParseGives
  <1>10. \A i \in toLoad' : there'[i] = "there"
    <2>1. \A i \in toLoad' : i \in Nodes /\ there[i] = "there"
      BY <1>3 DEF DeadInv, HolderInv, TypeOK, Nodes
    <2> QED BY <1>1, <2>1
  <1>11. \A n \in Nodes : there[n] # "unborn" => there'[n] # "unborn"
    BY <1>1
  <1>12. \A n \in Parts[f] : there'[n] # "unborn"
    BY <1>1, <1>2 DEF made
  <1>13. Gives(Parts[f])
    BY <1>1, <1>2, <1>5, <1>6, <1>7, <1>8, <1>9, <1>10, <1>11, <1>12 DEF Gives
  <1> QED BY <1>3, <1>13, GivesKeeps

\* A step that parses a file, or does nothing, keeps DeadInv.
LEMMA ParsesDead ==
  ASSUME IInv, DeadInv, NEW f \in Files, NEW h \in Holders, Parses(f, h),
         h = Root \/ there[h] = "there",
         UNCHANGED <<sorted, junk, history>>, toLoad' \subseteq toLoad
  PROVE  DeadInv'
  <1>1. CASE UNCHANGED <<memory, field, parents, changed>>
    BY <1>1, StillDead DEF IInv
  <1>2. CASE /\ Parse(f, h, {})
             /\ ref' = [n \in Nodes |-> IF n \in Parts[f] THEN 1 ELSE ref[n]]
    <2>1. Parts[f] \subseteq Nodes
      BY SceneAssumption
    <2>2. /\ \A n \in Parts[f] : ref'[n] = 1
          /\ \A n \in Nodes \ (Parts[f] \cup {}) : ref'[n] = ref[n]
      BY <1>2, <2>1
    <2>3. h = Root \/ there'[h] = "there"
      BY <1>2 DEF Parse, Holders
    <2> QED BY <1>2, <2>2, <2>3, ParseDead
  <1> QED BY <1>1, <1>2 DEF Parses

\* So does a call of AddRemoveChildren, if what is given was made, and noted.
LEMMA AddRemoveDead ==
  ASSUME IInv, DeadInv, NEW h \in Holders, NEW f \in Fields, NEW bag \in Bags,
         NEW way \in Ways, AddRemoveChildren(h, f, bag, way),
         Listed(bag) \subseteq Known, h = Root \/ there[h] = "there",
         h = Root => f = "children",
         UNCHANGED <<memory, sorted, junk, toLoad, old>>,
         reused' = reused \cup (Listed(bag) \cap old)
  PROVE  DeadInv'
  <1>1. ListTypes /\ TypeOK
    BY TypesOfLists DEF IInv
  <1>2. /\ there' = there /\ ref' = ref /\ sorted' = sorted /\ junk' = junk
        /\ toLoad' = toLoad /\ old' = old
    BY DEF memory
  <1>3. /\ \A e \in Fields, k \in Holders, n \in Nodes :
              field'[e][k][n] > 0 =>
                field[e][k][n] > 0 \/ (k = h /\ n \in Listed(bag))
        /\ \A e \in Fields \ {"children"}, n \in Nodes :
              field'[e][Root][n] > 0 => field[e][Root][n] > 0
    <2>1. Root \in Holders
      BY DEF Holders
    <2> QED BY <1>1, <2>1, AddRemoveGives
  <1>4. \A k \in Holders, n \in Nodes : Lists(k, n)' =>
          \/ Lists(k, n)
          \/ n \in Listed(bag) /\ (k # Root => there'[k] = "there")
    BY <1>2, <1>3 DEF Lists
  <1>5. ASSUME NEW k \in Holders, NEW n \in Nodes, (n \in InFields(k))'
        PROVE  n \in InFields(k) \/ n \in Listed(bag)
    <2>1. \/ \E e \in Fields : field'[e][k][n] > 0
          \/ k \in Groups /\ ~junk[k] /\ sorted[k][n] > 0
      BY <1>2, <1>5 DEF InFields, Listed
    <2> QED BY <1>3, <2>1, InFieldsLists
  <1>6. /\ Listed(bag) \subseteq Nodes \ Answers
        /\ \A n \in Listed(bag) : there[n] # "unborn"
    BY DEF Known, Answers
  <1>7. \A i \in toLoad' : there'[i] = "there"
    BY <1>2 DEF DeadInv, HolderInv
  <1>8. Gives(Listed(bag))
    BY <1>2, <1>3, <1>4, <1>5, <1>6, <1>7 DEF Gives, GivenUp
  <1> QED BY <1>1, <1>8, GivesKeeps

\* The root is emptied before there is a world.
LEMMA SendFirstWorldDead ==
  ASSUME IInv, DeadInv, SendFirstWorld
  PROVE  DeadInv'
  <1>1. /\ there' = there /\ ref' = ref /\ sorted' = sorted /\ junk' = junk
        /\ toLoad' = toLoad /\ old' = old /\ reused' = reused
    BY DEF SendFirstWorld, memory, inlines, history
  <1>2. \A e \in Fields, k \in Holders, n \in Nodes :
          field'[e][k][n] > 0 => field[e][k][n] > 0
    <2> SUFFICES ASSUME NEW e \in Fields, NEW k \in Holders, NEW n \in Nodes,
                        field'[e][k][n] > 0
                 PROVE  field[e][k][n] > 0
      OBVIOUS
    <2>1. field \in [Fields -> [Holders -> Bags]]
      BY TypesOfLists DEF IInv, ListTypes
    <2>2. field'[e][k] = IF e = "children" /\ k = Root THEN NoNodes ELSE field[e][k]
      BY <2>1 DEF SendFirstWorld
    <2> QED BY <2>2 DEF NoNodes
  <1>3. \A k \in Holders, n \in Nodes : Lists(k, n)' => Lists(k, n)
    BY <1>1, <1>2 DEF Lists
  <1>4. ASSUME NEW k \in Holders, NEW n \in Nodes, (n \in InFields(k))'
        PROVE  n \in InFields(k)
    <2>1. \/ \E e \in Fields : field'[e][k][n] > 0
          \/ k \in Groups /\ ~junk[k] /\ sorted[k][n] > 0
      BY <1>1, <1>4 DEF InFields, Listed
    <2> QED BY <1>2, <2>1, InFieldsLists
  <1>5. \A e \in Fields \ {"children"}, n \in Nodes :
          field'[e][Root][n] > 0 => field[e][Root][n] > 0
    BY <1>2 DEF Holders
  <1>6. Gives({})
    BY <1>1, <1>3, <1>4, <1>5 DEF Gives, GivenUp, DeadInv, HolderInv
  <1> QED BY <1>6, GivesKeeps DEF IInv

\* A compiled group takes its copy from its children.
LEMMA DrawDead ==
  ASSUME IInv, DeadInv, Draw
  PROVE  DeadInv'
  <1>1. PICK compiled \in SUBSET Sorters :
          /\ sorted' = [s \in Sorters |-> IF s \in compiled THEN field["children"][s]
                                          ELSE sorted[s]]
          /\ junk' = [s \in Sorters |-> junk[s] /\ s \notin compiled]
    <2> DEFINE seen == {s \in Sorters \cap View : Living(s) /\ changed[s]}
    <2>1. seen \in SUBSET Sorters
      OBVIOUS
    <2>2. /\ sorted' = [s \in Sorters |-> IF s \in seen THEN field["children"][s]
                                          ELSE sorted[s]]
          /\ junk' = [s \in Sorters |-> junk[s] /\ s \notin seen]
      BY DEF Draw
    <2> HIDE DEF seen
    <2> QED BY <2>1, <2>2
  <1>2. /\ there' = there /\ ref' = ref /\ field' = field
        /\ toLoad' = toLoad /\ old' = old /\ reused' = reused
    BY DEF Draw, memory, inlines, history
  <1>3. \A k \in Sorters, n \in Nodes : sorted'[k][n] > 0 =>
          \/ k \notin compiled /\ sorted[k][n] > 0
          \/ k \in compiled /\ \E e \in Fields : field[e][k][n] > 0
    BY <1>1 DEF Fields
  <1>4. \A k \in Holders, n \in Nodes : Lists(k, n)' => Lists(k, n)
    BY <1>2, <1>3 DEF Lists
  <1>5. ASSUME NEW k \in Holders, NEW n \in Nodes, (n \in InFields(k))'
        PROVE  n \in InFields(k)
    <2>1. \/ \E e \in Fields : field[e][k][n] > 0
          \/ k \in Groups /\ ~junk'[k] /\ sorted'[k][n] > 0
      BY <1>2, <1>5 DEF InFields, Listed
    <2>2. CASE k \in Groups /\ ~junk'[k] /\ sorted'[k][n] > 0
      <3>1. k \in Sorters
        BY <2>2 DEF Sorters
      <3>2. k \in compiled \/ ~junk[k]
        BY <1>1, <2>2, <3>1
      <3> QED BY <1>3, <2>2, <3>1, <3>2, InFieldsLists
    <2> QED BY <2>1, <2>2, InFieldsLists
  <1>6. Gives({})
    BY <1>2, <1>4, <1>5 DEF Gives, GivenUp, DeadInv, HolderInv
  <1> QED BY <1>6, GivesKeeps DEF IInv

\* Only what was given up is freed, and its lists are emptied.
LEMMA NodeUpdatesDead ==
  ASSUME IInv, DeadInv, NodeUpdates
  PROVE  DeadInv'
  <1> DEFINE dying == {n \in Nodes : there[n] = "there" /\ ref[n] <= 0}
             gone == {n \in dying : Settled(ref[n] - 1)}
             busy == {g \in Groups : Wanted(g)}
  <1>1. /\ there' = [n \in Nodes |-> IF n \in gone THEN "freed" ELSE there[n]]
        /\ ref' = [n \in Nodes |-> IF n \in dying THEN ref[n] - 1 ELSE ref[n]]
        /\ field' = [f \in Fields |-> [h \in Holders |->
                       CASE h \in gone -> NoNodes
                         [] h \in busy /\ f = "children" -> Served(h)
                         [] h \in busy /\ f # "children" -> NoNodes
                         [] OTHER -> field[f][h]]]
    BY DEF NodeUpdates
  <1>2. /\ sorted' = [s \in Sorters |-> IF s \in gone THEN NoNodes ELSE sorted[s]]
        /\ junk' = [s \in Sorters |->
                      \/ junk[s]
                      \/ (s \in busy \cup {Root} /\ Unsorted(s)
                          /\ Listed(sorted[s]) # {})]
        /\ toLoad' = Unloaded /\ old' = old /\ reused' = reused
    BY DEF NodeUpdates, history
  <1>3. /\ gone \subseteq dying /\ dying \subseteq Nodes /\ busy \subseteq Groups
        /\ busy \cap dying = {} /\ Root \notin Nodes
        /\ \A n \in dying : there[n] = "there" /\ ref[n] <= 0
        /\ \A n \in Nodes : there[n] = "there" /\ ref[n] <= 0 => n \in dying
    BY SceneAssumption DEF Wanted, Nodes, IInv, TypeOK
  <1>4. ListTypes
    BY TypesOfLists DEF IInv
  <1> HIDE DEF dying, gone, busy
  <1>5. ASSUME NEW h \in Holders, NEW n \in Nodes, Served(h)[n] > 0
        PROVE  \E e \in Fields : field[e][h][n] > 0
    <2>1. /\ field["children"][h][n] \in Nat /\ field["addChildren"][h][n] \in Nat
          /\ field["removeChildren"][h][n] \in Nat
      BY <1>4 DEF ListTypes, Bags, Fields
    <2>2. field["children"][h][n] > 0 \/ field["addChildren"][h][n] > 0
      BY <1>5, <2>1 DEF Served, Added, CountAfter, Less
    <2> QED BY <2>2 DEF Fields
  <1>6. ASSUME NEW e \in Fields, NEW h \in Holders, NEW n \in Nodes,
               field'[e][h][n] > 0
        PROVE  h \notin gone /\ \E a \in Fields : field[a][h][n] > 0
    <2>0. field'[e][h] = CASE h \in gone -> NoNodes
                         [] h \in busy /\ e = "children" -> Served(h)
                         [] h \in busy /\ e # "children" -> NoNodes
                         [] OTHER -> field[e][h]
      BY <1>1
    <2>1. ~(NoNodes[n] > 0)
      BY DEF NoNodes
    <2>2. h \notin gone
      BY <1>3, <1>6, <2>0, <2>1
    <2>3. CASE h \in busy
      BY <1>5, <1>6, <2>0, <2>1, <2>2, <2>3
    <2>4. CASE h \notin busy
      BY <1>6, <2>0, <2>2, <2>4
    <2> QED BY <2>2, <2>3, <2>4
  <1>7. ASSUME NEW s \in Sorters, NEW n \in Nodes, sorted'[s][n] > 0
        PROVE  s \notin gone /\ sorted[s][n] > 0
    BY <1>2, <1>7 DEF NoNodes
  <1>8. ASSUME NEW h \in Holders, NEW n \in Nodes, Lists(h, n)'
        PROVE  Lists(h, n) /\ (h # Root => there'[h] = there[h])
    <2>1. h \notin gone /\ Lists(h, n)
      BY <1>6, <1>7, <1>8 DEF Lists
    <2> QED BY <1>1, <2>1 DEF Holders
  <1>9. ASSUME NEW h \in Holders, NEW n \in Nodes, (n \in InFields(h))'
        PROVE  n \in InFields(h)
    <2>1. \/ \E e \in Fields : field'[e][h][n] > 0
          \/ h \in Groups /\ ~junk'[h] /\ sorted'[h][n] > 0
      BY <1>9 DEF InFields, Listed
    <2>2. CASE h \in Groups /\ ~junk'[h] /\ sorted'[h][n] > 0
      <3>1. h \in Sorters
        BY <2>2 DEF Sorters
      <3>2. ~junk[h]
        BY <1>2, <2>2, <3>1
      <3> QED BY <1>7, <2>2, <3>1, <3>2, InFieldsLists
    <2> QED BY <1>6, <2>1, <2>2, InFieldsLists
  <1>10. \A e \in Fields \ {"children"}, n \in Nodes :
           field'[e][Root][n] > 0 => field[e][Root][n] > 0
    <2>1. Root \in Holders /\ Root \notin gone /\ Root \notin busy
      BY <1>3 DEF Holders, Nodes
    <2>2. \A e \in Fields : field'[e][Root] = field[e][Root]
      BY <1>1, <2>1
    <2> QED BY <2>2
  <1>11. ASSUME NEW i \in toLoad' PROVE there'[i] = "there"
    <2>1. i \in Nodes /\ Wanted(i)
      BY <1>2, <1>11 DEF Unloaded, Nodes
    <2>2. i \notin dying
      BY <1>3, <2>1 DEF Wanted, IInv, TypeOK
    <2> QED BY <1>1, <1>3, <2>1, <2>2 DEF Wanted
  <1>12. ASSUME NEW n \in Nodes, GivenUp(n)' PROVE GivenUp(n)
    <2>1. CASE n \in dying
      BY <1>3, <2>1 DEF GivenUp
    <2>2. CASE n \notin dying
      <3>1. there'[n] = there[n] /\ ref'[n] = ref[n]
        BY <1>1, <1>3, <2>2
      <3> QED BY <1>12, <3>1 DEF GivenUp
    <2> QED BY <2>1, <2>2
  <1>13. \A n \in Nodes : there[n] # "unborn" => there'[n] # "unborn"
    BY <1>1
  <1>14. Gives({})
    BY <1>2, <1>8, <1>9, <1>10, <1>11, <1>12, <1>13 DEF Gives
  <1> QED BY <1>14, GivesKeeps DEF IInv

\* What kill_oldWorld marks was made, and whoever still lists some of it and
\* can be drawn is a client's.
LEMMA KillOldWorldDead ==
  ASSUME IInv, DeadInv, KillOldWorld
  PROVE  DeadInv'
  <1> DEFINE next == [h \in Holders |-> InFields(h)]
             lost == Nodes \cap Closure(Listed(field["children"][Root]), next)
             kept == {n \in lost : \E h \in Nodes \ lost : Living(h) /\ n \in InFields(h)}
  <1>1. /\ \A n \in Nodes : ref'[n] = IF n \in lost THEN Less(ref[n], 1) ELSE ref[n]
        /\ \A f \in Fields, h \in Holders :
             field'[f][h] = IF h \in lost \/ (h = Root /\ f = "children") THEN NoNodes
                            ELSE field[f][h]
        /\ \A s \in Sorters : sorted'[s] = IF s \in lost THEN NoNodes ELSE sorted[s]
        /\ junk' = [s \in Sorters |-> junk[s] /\ s \notin lost]
        /\ old' = old \cup lost /\ reused' = reused \cup kept
        /\ there' = there /\ toLoad' = toLoad
    BY DEF KillOldWorld, inlines
  <1>2. lost \subseteq Born \ Answers
    <2> DEFINE Z == Born \ Answers
    <2>1. Root \in Holders /\ Nodes \subseteq Holders /\ Z \in SUBSET Holders
      BY DEF Holders, Born
    <2>2. \A h \in Holders : InFields(h) \subseteq Z
      BY InFieldsLists DEF DeadInv, BornInv
    <2>3. next \in [Holders -> SUBSET Holders]
      BY <2>1, <2>2
    <2>4. Closed(Z, next)
      BY <2>1, <2>2 DEF Closed
    <2>5. Listed(field["children"][Root]) \in SUBSET Z
      BY <2>1 DEF Listed, DeadInv, BornInv, Lists, Fields
    <2> HIDE DEF next, Z
    <2>6. Closure(Listed(field["children"][Root]), next) \subseteq Z
      BY <2>1, <2>3, <2>4, <2>5, ClosureLeast
    <2> QED BY <2>6 DEF Z
  <1>3. kept \subseteq lost /\ lost \subseteq Nodes
    OBVIOUS
  <1>4. \A n \in lost, h \in Nodes \ lost : Living(h) /\ n \in InFields(h) => n \in kept
    OBVIOUS
  <1> HIDE DEF next, lost, kept
  <1>5. ASSUME NEW f \in Fields, NEW h \in Holders, NEW n \in Nodes, field'[f][h][n] > 0
        PROVE  /\ field[f][h][n] > 0 /\ h \notin lost
               /\ ~(h = Root /\ f = "children")
    BY <1>1, <1>5 DEF NoNodes
  <1>6. ASSUME NEW s \in Sorters, NEW n \in Nodes, sorted'[s][n] > 0
        PROVE  sorted[s][n] > 0 /\ s \notin lost
    BY <1>1, <1>6 DEF NoNodes
  <1>7. \A h \in Holders, n \in Nodes : Lists(h, n)' => Lists(h, n)
    BY <1>5, <1>6 DEF Lists
  <1>8. ASSUME NEW h \in Holders, NEW n \in Nodes, (n \in InFields(h))'
        PROVE  n \in InFields(h) /\ h \notin lost /\ h # Root
    <2>1. \/ \E f \in Fields : field'[f][h][n] > 0
          \/ h \in Groups /\ ~junk'[h] /\ sorted'[h][n] > 0
      BY <1>8 DEF InFields, Listed
    <2>2. CASE \E f \in Fields : field'[f][h][n] > 0
      <3>1. PICK f \in Fields : field'[f][h][n] > 0
        BY <2>2
      <3>2. field[f][h][n] > 0 /\ h \notin lost /\ ~(h = Root /\ f = "children")
        BY <1>5, <3>1
      <3>3. h # Root
        BY <3>2 DEF DeadInv, HolderInv
      <3> QED BY <3>2, <3>3, InFieldsLists
    <2>3. CASE h \in Groups /\ ~junk'[h] /\ sorted'[h][n] > 0
      <3>1. h \in Sorters /\ h # Root
        BY <2>3, SceneAssumption DEF Sorters, Nodes
      <3>2. sorted[h][n] > 0 /\ h \notin lost
        BY <1>6, <2>3, <3>1
      <3>3. ~junk[h]
        BY <1>1, <2>3, <3>1, <3>2
      <3> QED BY <2>3, <3>1, <3>2, <3>3, InFieldsLists
    <2> QED BY <2>1, <2>2, <2>3
  <1>9. BornInv'
    <2>1. Born' = Born /\ Answers' = Answers
      BY <1>1 DEF Born, Answers
    <2> QED BY <1>1, <1>2, <1>7, <2>1 DEF DeadInv, BornInv
  <1>10. HolderInv'
    <2>1. ASSUME NEW f \in Fields \ {"children"}, NEW n \in Nodes
          PROVE  ~(field'[f][Root][n] > 0)
      BY <1>5 DEF DeadInv, HolderInv, Holders
    <2>2. \A h, n \in Nodes : Lists(h, n)' => there'[h] = "there"
      BY <1>1, <1>7 DEF DeadInv, HolderInv, Holders
    <2> QED BY <1>1, <2>1, <2>2 DEF DeadInv, HolderInv
  <1>11. GivenUpInv'
    <2> SUFFICES ASSUME NEW n \in Nodes, GivenUp(n)' PROVE n \in old' \cup Answers
      BY DEF GivenUpInv, Answers
    <2>1. CASE n \in lost
      BY <1>1, <2>1
    <2>2. CASE n \notin lost
      <3>1. GivenUp(n)
        BY <1>1, <2>2 DEF GivenUp
      <3> QED BY <1>1, <3>1 DEF DeadInv, GivenUpInv
    <2> QED BY <2>1, <2>2
  <1>12. ReusedInv'
    <2> SUFFICES ASSUME NEW n \in old' \ reused', NEW h \in Holders,
                        (n \in InFields(h))'
                 PROVE  FALSE
      BY DEF ReusedInv
    <2>1. n \in Nodes
      BY <1>1, <1>3 DEF IInv, TypeOK
    <2>2. n \in InFields(h) /\ h \in Nodes \ lost
      BY <1>8, <2>1 DEF Holders
    <2>3. CASE n \in old
      BY <1>1, <2>2, <2>3 DEF DeadInv, ReusedInv
    <2>4. CASE n \in lost
      <3>1. Living(h)
        BY <2>1, <2>2, InFieldsLists DEF DeadInv, HolderInv, Living
      <3> QED BY <1>1, <1>4, <2>2, <2>4, <3>1
    <2> QED BY <1>1, <2>3, <2>4
  <1> QED BY <1>9, <1>10, <1>11, <1>12 DEF DeadInv

\* What is reached in drawing a frame lives, or a client kept it.
LEMMA DeadDraws ==
  ASSUME IInv, DeadInv
  PROVE  NeverDrawsFreed
  <1> SUFFICES ASSUME ~Hollow PROVE {n \in View : ~Living(n)} \subseteq reused
    BY DEF NeverDrawsFreed
  <1> DEFINE Z == {h \in Holders : Living(h)} \cup reused
             next == [h \in Holders |-> Shown(h)]
  <1>1. ASSUME NEW h \in Holders, NEW n \in Shown(h)
        PROVE  /\ n \in Nodes /\ Living(h)
               /\ \/ field["children"][h][n] > 0
                  \/ h \in Sorters /\ ~changed[h] /\ ~junk[h] /\ sorted[h][n] > 0
    <2>1. n \in Nodes /\ Living(h)
      BY <1>1 DEF Shown
    <2>2. CASE h \in Sorters /\ ~changed[h]
      BY <1>1, <2>1, <2>2 DEF Shown
    <2>3. CASE ~(h \in Sorters /\ ~changed[h])
      BY <1>1, <2>1, <2>3 DEF Shown
    <2> QED BY <2>2, <2>3
  <1>2. Root \in Holders /\ Nodes \subseteq Holders /\ reused \subseteq Nodes
    BY DEF Holders, IInv, TypeOK
  <1>3. next \in [Holders -> SUBSET Holders]
    BY <1>1, <1>2
  <1>4. ASSUME NEW h \in Holders, NEW n \in Shown(h)
        PROVE  n \in Z
    <2>1. n \in Nodes /\ Living(h) /\ Lists(h, n)
      BY <1>1 DEF Lists, Fields
    <2>2. n \in Born \ Answers
      BY <2>1 DEF DeadInv, BornInv
    <2>3. CASE there[n] = "there"
      BY <1>2, <2>1, <2>3 DEF Living
    <2>4. CASE there[n] = "freed"
      <3>1. n \in old
        BY <2>1, <2>2, <2>4 DEF DeadInv, GivenUpInv, GivenUp
      <3>2. n \in InFields(h)
        <4>1. CASE field["children"][h][n] > 0
          BY <2>1, <4>1, InFieldsLists DEF Fields
        <4>2. CASE h = Root /\ ~changed[h] /\ sorted[h][n] > 0
          <5>1. Root \in Sorters
            BY DEF Sorters
          <5>2. sorted[Root] = field["children"][Root]
            BY <4>2, <5>1 DEF IInv, ShowsItsChildren
          <5> QED BY <2>1, <4>2, <5>2, InFieldsLists DEF Fields
        <4>3. CASE h # Root /\ h \in Sorters /\ ~junk[h] /\ sorted[h][n] > 0
          BY <2>1, <4>3, InFieldsLists DEF Sorters
        <4> QED BY <1>1, <4>1, <4>2, <4>3
      <3> QED BY <3>1, <3>2 DEF DeadInv, ReusedInv
    <2> QED BY <2>1, <2>2, <2>3, <2>4 DEF Born, IInv, TypeOK
  <1>5. Closed(Z, next) /\ Z \in SUBSET Holders
    BY <1>2, <1>4 DEF Closed
  <1>6. {Root} \in SUBSET Z
    BY <1>2 DEF Living
  <1> HIDE DEF Z, next
  <1>7. Closure({Root}, next) \subseteq Z
    BY <1>3, <1>5, <1>6, ClosureLeast
  <1>8. View = Closure({Root}, next)
    BY DEF View, next
  <1> QED BY <1>7, <1>8 DEF Z

\* The bag of a set lists it.
LEMMA OnlyListed ==
  ASSUME NEW S \in SUBSET Nodes
  PROVE  Listed(Only(S)) = S
  BY DEF Listed, Only

\* Every step keeps DeadInv.
LEMMA NextDead ==
  ASSUME IInv, DeadInv, [Next]_vars
  PROVE  DeadInv'
  <1>1. CASE SendFirstWorld
    BY <1>1, SendFirstWorldDead
  <1>2. CASE ParserDone
    <2>1. Parses(FirstWorld, Root) /\ FirstWorld \in Files /\ Root \in Holders
      BY <1>2 DEF ParserDone, Parses, Files, Holders
    <2> QED BY <1>2, <2>1, ParsesDead DEF ParserDone, inlines
  <1>3. CASE NodeUpdates
    BY <1>3, NodeUpdatesDead
  <1>4. CASE NoUpdates
    BY <1>4, StillDead DEF NoUpdates, lists, inlines, IInv
  <1>5. CASE LoadInline
    <2>1. PICK i \in toLoad : /\ Begin(i) \/ FetchInline(i) \/ WaitParsed(i)
                              /\ toLoad' = toLoad \ {i}
      BY <1>5 DEF LoadInline
    <2>2. /\ i \in Holders /\ FileOf[i] \in Files /\ there[i] = "there"
          /\ toLoad' \subseteq toLoad
      BY <2>1 DEF IInv, TypeOK, Holders, Nodes, Files, DeadInv, HolderInv
    <2>3. Parses(FileOf[i], i)
      BY <2>1 DEF Begin, FetchInline, WaitParsed, Parses
    <2> QED BY <1>5, <2>2, <2>3, ParsesDead DEF LoadInline
  <1>6. CASE Draw
    BY <1>6, DrawDead
  <1>7. ASSUME NEW s \in Strings, CreateVrml(s) PROVE DeadInv'
    <2> DEFINE top == AnswerGroup[s]
    <2>1. /\ s \in Files /\ top \in Holders /\ top \in Nodes /\ {top} \in SUBSET Answers
          /\ Parse(s, top, {top}) /\ top \notin Parts[s] /\ Parts[s] \subseteq Nodes
      BY <1>7, SceneAssumption DEF CreateVrml, Files, Holders, Nodes, Answers
    <2>2. /\ \A n \in Parts[s] : ref'[n] = 1
          /\ \A n \in Nodes \ (Parts[s] \cup {top}) : ref'[n] = ref[n]
      BY <1>7, <2>1 DEF CreateVrml, DisposedAnswer
    <2>3. there'[top] = "there"
      BY <2>1 DEF Parse
    <2> QED BY <1>7, <2>1, <2>2, <2>3, ParseDead DEF CreateVrml, inlines
  <1>8. ASSUME NEW g \in Groups \cap Known, NEW x \in Known, SendNode(g, x)
        PROVE  DeadInv'
    <2>1. PICK call \in Sends : AddRemoveChildren(g, call[1], Only({x}), call[2])
      BY <1>8 DEF SendNode
    <2>2. /\ call[1] \in Fields /\ call[2] \in Ways /\ g \in Holders /\ g # Root
          /\ there[g] = "there" /\ x \in Nodes
      BY SceneAssumption DEF Holders, Nodes, Known
    <2>3. Listed(Only({x})) = {x} /\ Only({x}) \in Bags
      BY <2>2, OnlyType, OnlyListed
    <2> QED BY <1>8, <2>1, <2>2, <2>3, AddRemoveDead DEF SendNode, memory, inlines
  <1>9. CASE KillOldWorld
    BY <1>9, KillOldWorldDead
  <1>10. CASE AnchorLoads
    <2>1. PICK f \in Files : Parses(f, Root)
      BY <1>10 DEF AnchorLoads, Parses, Files
    <2>2. Root \in Holders
      BY DEF Holders
    <2> QED BY <1>10, <2>1, <2>2, ParsesDead DEF AnchorLoads, inlines
  <1>11. ASSUME NEW k \in 0..MaxGiven, NEW S \in kSubset(k, Known), ReplaceWorld(S)
         PROVE  DeadInv'
    <2>1. S \subseteq Known /\ S \subseteq Nodes
      BY DEF kSubset, Known
    <2>2. Listed(Only(S)) = S /\ Only(S) \in Bags
      BY <2>1, OnlyType, OnlyListed
    <2>3. "children" \in Fields /\ "add" \in Ways /\ Root \in Holders
      BY DEF Holders, Fields, Ways
    <2> QED BY <1>11, <2>1, <2>2, <2>3, AddRemoveDead DEF ReplaceWorld, memory, inlines
  <1>12. CASE UNCHANGED vars
    BY <1>12, StillDead DEF vars, lists, inlines, IInv
  <1> QED BY <1>1, <1>2, <1>3, <1>4, <1>5, <1>6, <1>7, <1>8, <1>9, <1>10, <1>11, <1>12
          DEF Next, DisplayFrame, Clients, Replacing

(* NeverDrawsFreed: what a frame draws has not been freed, unless a client *)
(* kept or gave a node of a replaced world, or the root is hollow.         *)
THEOREM FreedNeverDrawn == Spec => []NeverDrawsFreed
  <1>1. Init => IInv
    BY InitIInv
  <1>2. IInv /\ [Next]_vars => IInv'
    BY NextIInv
  <1>3. Init => DeadInv
    <2> SUFFICES ASSUME Init PROVE DeadInv
      OBVIOUS
    <2>1. /\ \A f \in Fields, h \in Holders, n \in Nodes : ~(field[f][h][n] > 0)
          /\ \A h \in Sorters, n \in Nodes : ~(sorted[h][n] > 0)
      BY DEF Init, NoNodes
    <2>2. \A h \in Holders, n \in Nodes : ~Lists(h, n)
      BY <2>1 DEF Lists
    <2>3. Root \in Holders /\ Nodes \subseteq Holders
      BY DEF Holders
    <2>4. BornInv /\ HolderInv
      BY <2>1, <2>2, <2>3 DEF Init, BornInv, HolderInv
    <2>5. GivenUpInv /\ ReusedInv
      BY DEF Init, GivenUpInv, GivenUp, ReusedInv
    <2> QED BY <2>4, <2>5 DEF DeadInv
  <1>4. IInv /\ DeadInv /\ [Next]_vars => DeadInv'
    BY NextDead
  <1>5. IInv /\ DeadInv => NeverDrawsFreed
    BY DeadDraws
  <1> QED BY <1>1, <1>2, <1>3, <1>4, <1>5, PTL DEF Spec
=============================================================================
