------------------------- MODULE RouteTableProofs --------------------------
(***************************************************************************)
(* Proofs about RouteTable, for any routes, nodes, sizes and numbers of    *)
(* calls: the array stays sorted between its sentinels and never full, and *)
(* so the search of mark_event finds every route of a field.               *)
(***************************************************************************)
EXTENDS RouteTable, SequenceTheorems, TLAPS

Entries == [route : Route, active : BOOLEAN]

\* TableSorted, of a table in hand.
Ordered(t) ==
  /\ Len(t) >= 2
  /\ t[1].route.from = 0 /\ t[Len(t)].route.from = Top
  /\ \A i \in 2..(Len(t) - 1) : t[i].route.from \in 1..(Top - 1)
  /\ \A i, j \in DOMAIN t : i < j => ~Before(t[j].route, t[i].route)

-----------------------------------------------------------------------------
(* The order of the routes. *)

\* Before orders the routes by node and offset, and leaves none out.
LEMMA BeforeIsOrder ==
  /\ \A a, b \in Route : Before(a, b) => ~Before(b, a)
  /\ \A a, b, c \in Route : ~Before(b, a) /\ ~Before(c, b) => ~Before(c, a)
  BY TableAssumption DEF Before, Route

\* A request is for a route that has its place between the sentinels.
LEMMA LinkIsRoute ==
  ASSUME NEW r \in Links4
  PROVE  /\ r \in Route /\ r.from \in 1..(Top - 1)
         /\ Entry(r) \in Entries /\ Entry(r).route = r
  BY TableAssumption DEF Links4, Route, Entry, Entries

\* What is in a table has a route.
LEMMA EntryHasRoute ==
  ASSUME NEW t \in Seq(Entries), NEW i \in 1..Len(t)
  PROVE  t[i] \in Entries /\ t[i].route \in Route
  <1>1. t[i] \in Entries
    BY ElementOfSeq
  <1> QED BY <1>1 DEF Entries

\* The table starts out ordered.
LEMMA SentinelsOrdered ==
  Sentinels \in Seq(Entries) /\ Ordered(Sentinels) /\ Len(Sentinels) = 2
  BY TableAssumption DEF Sentinels, Ordered, Entry, Entries, Route, Before

-----------------------------------------------------------------------------
(* Insertion and removal. *)

\* InsertAt makes room at i and keeps the other entries in their order.
LEMMA InsertAtEntries ==
  ASSUME NEW t \in Seq(Entries), NEW i \in 1..Len(t), NEW e \in Entries
  PROVE  /\ InsertAt(t, i, e) \in Seq(Entries)
         /\ Len(InsertAt(t, i, e)) = Len(t) + 1
         /\ \A k \in 1..(i - 1) : InsertAt(t, i, e)[k] = t[k]
         /\ InsertAt(t, i, e)[i] = e
         /\ \A k \in (i + 1)..(Len(t) + 1) : InsertAt(t, i, e)[k] = t[k - 1]
  <1> DEFINE a == SubSeq(t, 1, i - 1)
             b == <<e>>
             c == SubSeq(t, i, Len(t))
  <1>1. /\ a \in Seq(Entries) /\ Len(a) = i - 1
        /\ \A k \in 1..(i - 1) : a[k] = t[k]
    BY SubSeqProperties
  <1>2. /\ c \in Seq(Entries) /\ Len(c) = Len(t) - i + 1
        /\ \A k \in 1..(Len(t) - i + 1) : c[k] = t[i + k - 1]
    BY SubSeqProperties
  <1>3. b \in Seq(Entries) /\ Len(b) = 1 /\ b[1] = e
    OBVIOUS
  <1>4. InsertAt(t, i, e) = (a \o b) \o c
    BY DEF InsertAt
  <1> HIDE DEF a, b, c
  <1> DEFINE d == a \o b
  <1>5. /\ d \in Seq(Entries) /\ Len(d) = Len(a) + Len(b)
        /\ \A k \in 1..(Len(a) + Len(b)) :
             d[k] = IF k <= Len(a) THEN a[k] ELSE b[k - Len(a)]
    BY <1>1, <1>3, ConcatProperties
  <1> HIDE DEF d
  <1>6. Len(d) = i /\ d[i] = e /\ \A k \in 1..(i - 1) : d[k] = t[k]
    BY <1>1, <1>3, <1>5
  <1> DEFINE u == d \o c
  <1>7. /\ u \in Seq(Entries) /\ Len(u) = Len(d) + Len(c)
        /\ \A k \in 1..(Len(d) + Len(c)) :
             u[k] = IF k <= Len(d) THEN d[k] ELSE c[k - Len(d)]
    <2>1. d \in Seq(Entries) /\ c \in Seq(Entries)
      BY <1>2, <1>5
    <2> QED BY <2>1, ConcatProperties
  <1>8. InsertAt(t, i, e) = u
    BY <1>4 DEF d
  <1> HIDE DEF u
  <1>9. /\ Len(u) = Len(t) + 1
        /\ \A k \in 1..i : u[k] = d[k]
        /\ \A k \in (i + 1)..(Len(t) + 1) : u[k] = c[k - i]
    BY <1>2, <1>6, <1>7
  <1>10. \A k \in (i + 1)..(Len(t) + 1) : c[k - i] = t[k - 1]
    <2> TAKE k \in (i + 1)..(Len(t) + 1)
    <2>1. k - i \in 1..(Len(t) - i + 1) /\ i + (k - i) - 1 = k - 1
      OBVIOUS
    <2> QED BY <1>2, <2>1
  <1> QED BY <1>6, <1>7, <1>8, <1>9, <1>10

\* RemoveAt closes the gap at i.
LEMMA RemoveAtEntries ==
  ASSUME NEW t \in Seq(Entries), NEW i \in 1..Len(t)
  PROVE  /\ RemoveAt(t, i) \in Seq(Entries)
         /\ Len(RemoveAt(t, i)) = Len(t) - 1
         /\ \A k \in 1..(i - 1) : RemoveAt(t, i)[k] = t[k]
         /\ \A k \in i..(Len(t) - 1) : RemoveAt(t, i)[k] = t[k + 1]
  <1> DEFINE a == SubSeq(t, 1, i - 1)
             c == SubSeq(t, i + 1, Len(t))
  <1>1. /\ a \in Seq(Entries) /\ Len(a) = i - 1
        /\ \A k \in 1..(i - 1) : a[k] = t[k]
    BY SubSeqProperties
  <1>2. /\ c \in Seq(Entries) /\ Len(c) = Len(t) - i
        /\ \A k \in 1..(Len(t) - i) : c[k] = t[i + k]
    BY SubSeqProperties
  <1>3. RemoveAt(t, i) = a \o c
    BY DEF RemoveAt
  <1> HIDE DEF a, c
  <1> DEFINE u == a \o c
  <1>4. /\ u \in Seq(Entries) /\ Len(u) = Len(a) + Len(c)
        /\ \A k \in 1..(Len(a) + Len(c)) :
             u[k] = IF k <= Len(a) THEN a[k] ELSE c[k - Len(a)]
    BY <1>1, <1>2, ConcatProperties
  <1> HIDE DEF u
  <1>5. /\ Len(u) = Len(t) - 1
        /\ \A k \in 1..(i - 1) : u[k] = t[k]
        /\ \A k \in i..(Len(t) - 1) : u[k] = c[k - (i - 1)]
    <2>1. Len(a) = i - 1 /\ Len(c) = Len(t) - i /\ Len(u) = Len(t) - 1
      BY <1>1, <1>2, <1>4
    <2>2. \A k \in 1..(Len(t) - 1) :
            u[k] = IF k <= i - 1 THEN a[k] ELSE c[k - (i - 1)]
      BY <1>4, <2>1
    <2>3. \A k \in 1..(i - 1) : u[k] = a[k]
      BY <2>2
    <2>4. \A k \in i..(Len(t) - 1) : u[k] = c[k - (i - 1)]
      BY <2>2
    <2> QED BY <1>1, <2>1, <2>3, <2>4
  <1>6. \A k \in i..(Len(t) - 1) : c[k - (i - 1)] = t[k + 1]
    <2> TAKE k \in i..(Len(t) - 1)
    <2>1. k - (i - 1) \in 1..(Len(t) - i) /\ i + (k - (i - 1)) = k + 1
      OBVIOUS
    <2>2. c[k - (i - 1)] = t[i + (k - (i - 1))]
      BY <1>2, <2>1
    <2> QED BY <2>1, <2>2
  <1> QED BY <1>3, <1>4, <1>5, <1>6 DEF u

\* A route entered at its position leaves the table ordered.
LEMMA InsertKeepsOrder ==
  ASSUME NEW t \in Seq(Entries), Ordered(t), NEW r \in Links4,
         NEW i \in 2..Len(t), IsPosition(t, r, i)
  PROVE  Ordered(InsertAt(t, i, Entry(r)))
  <1> DEFINE u == InsertAt(t, i, Entry(r))
  <1>1. /\ u \in Seq(Entries) /\ Len(u) = Len(t) + 1
        /\ \A k \in 1..(i - 1) : u[k] = t[k]
        /\ u[i] = Entry(r)
        /\ \A k \in (i + 1)..(Len(t) + 1) : u[k] = t[k - 1]
    <2> DEFINE e == Entry(r)
    <2>1. i \in 1..Len(t) /\ e \in Entries
      BY LinkIsRoute
    <2> HIDE DEF e
    <2> DEFINE w == InsertAt(t, i, e)
    <2>2. /\ w \in Seq(Entries) /\ Len(w) = Len(t) + 1
          /\ \A k \in 1..(i - 1) : w[k] = t[k]
          /\ w[i] = e
          /\ \A k \in (i + 1)..(Len(t) + 1) : w[k] = t[k - 1]
      BY <2>1, InsertAtEntries
    <2>3. u = w
      BY DEF e
    <2> HIDE DEF w, u
    <2> QED BY <2>2, <2>3 DEF e
  <1> HIDE DEF u
  <1>2. /\ Len(u) >= 2 /\ u[1].route.from = 0
        /\ u[Len(u)].route.from = Top
    <2>1. 1 \in 1..(i - 1) /\ Len(u) \in (i + 1)..(Len(t) + 1)
      BY <1>1
    <2>2. u[1] = t[1] /\ u[Len(u)] = t[Len(t)]
      BY <1>1, <2>1
    <2> QED BY <1>1, <2>2 DEF Ordered
  <1>3. ASSUME NEW k \in 2..(Len(u) - 1)
        PROVE  u[k].route.from \in 1..(Top - 1)
    <2>1. CASE k < i
      BY <2>1, <1>1 DEF Ordered
    <2>2. CASE k = i
      BY <2>2, <1>1, LinkIsRoute
    <2>3. CASE k > i
      BY <2>3, <1>1 DEF Ordered
    <2> QED BY <2>1, <2>2, <2>3
  <1>4. \A k \in 1..(i - 1) : ~Before(r, t[k].route)
    <2>1. ~Before(r, t[1].route)
      BY LinkIsRoute, TableAssumption DEF Ordered, Before
    <2>2. ASSUME NEW k \in 2..(i - 1)
          PROVE  ~Before(r, t[k].route)
      <3>1. t[k].route \in Route
        BY EntryHasRoute
      <3> QED BY <3>1, BeforeIsOrder, LinkIsRoute DEF IsPosition
    <2> QED BY <2>1, <2>2
  <1>5. \A k \in i..Len(t) : ~Before(t[k].route, r)
    <2> TAKE k \in i..Len(t)
    <2>1. t[i].route \in Route /\ t[k].route \in Route
      BY EntryHasRoute
    <2>2. ~Before(t[i].route, r)
      BY DEF IsPosition
    <2>3. CASE k = i
      BY <2>2, <2>3
    <2>4. CASE k > i
      <3>1. ~Before(t[k].route, t[i].route)
        BY <2>4 DEF Ordered
      <3> QED BY <2>1, <2>2, <3>1, BeforeIsOrder, LinkIsRoute
    <2> QED BY <2>3, <2>4
  <1>6. ASSUME NEW j \in DOMAIN u, NEW k \in DOMAIN u, j < k
        PROVE  ~Before(u[k].route, u[j].route)
    <2>1. j \in 1..(Len(t) + 1) /\ k \in 1..(Len(t) + 1)
      BY <1>1
    <2>2. CASE k < i
      BY <1>1, <1>6, <2>1, <2>2 DEF Ordered
    <2>3. CASE k = i
      BY <1>1, <1>4, <1>6, <2>1, <2>3, LinkIsRoute
    <2>4. CASE j = i
      <3>1. k \in (i + 1)..(Len(t) + 1) /\ k - 1 \in i..Len(t)
        BY <1>6, <2>1, <2>4
      <3>2. u[k] = t[k - 1]
        BY <1>1, <3>1
      <3> QED BY <1>1, <1>5, <2>4, <3>1, <3>2, LinkIsRoute
    <2>5. CASE j < i /\ k > i
      <3>1. u[j] = t[j] /\ u[k] = t[k - 1] /\ j < k - 1
        BY <1>1, <2>1, <2>5
      <3>2. j \in DOMAIN t /\ k - 1 \in DOMAIN t
        BY <2>1, <2>5
      <3> QED BY <3>1, <3>2 DEF Ordered
    <2>6. CASE j > i
      <3> /\ j \in (i + 1)..(Len(t) + 1)
          /\ k \in (i + 1)..(Len(t) + 1)
        BY <1>6, <2>1, <2>6
      <3>1. u[j] = t[j - 1] /\ u[k] = t[k - 1]
        BY <1>1
      <3>2. j - 1 \in DOMAIN t /\ k - 1 \in DOMAIN t /\ j - 1 < k - 1
        BY <1>6, <2>1, <2>6
      <3> QED BY <3>1, <3>2 DEF Ordered
    <2> QED BY <1>6, <2>1, <2>2, <2>3, <2>4, <2>5, <2>6
  <1> QED BY <1>2, <1>3, <1>6 DEF Ordered, u

\* So does the removal of a route from its position.
LEMMA RemoveKeepsOrder ==
  ASSUME NEW t \in Seq(Entries), Ordered(t), NEW r \in Links4,
         NEW i \in 2..Len(t), IsThere(t, i, r)
  PROVE  Ordered(RemoveAt(t, i))
  <1> DEFINE u == RemoveAt(t, i)
  <1>1. /\ u \in Seq(Entries) /\ Len(u) = Len(t) - 1
        /\ \A k \in 1..(i - 1) : u[k] = t[k]
        /\ \A k \in i..(Len(t) - 1) : u[k] = t[k + 1]
    <2>1. i \in 1..Len(t)
      OBVIOUS
    <2> QED BY <2>1, RemoveAtEntries
  <1> HIDE DEF u
  <1>2. i < Len(t)
    <2>1. t[i].route.from < Top
      BY LinkIsRoute, TableAssumption DEF IsThere
    <2> QED BY <2>1, TableAssumption DEF Ordered
  <1>3. /\ Len(u) >= 2 /\ u[1].route.from = 0
        /\ u[Len(u)].route.from = Top
    <2>1. 1 \in 1..(i - 1) /\ Len(u) \in i..(Len(t) - 1)
      BY <1>1, <1>2
    <2>2. u[1] = t[1] /\ u[Len(u)] = t[Len(t)]
      BY <1>1, <2>1
    <2> QED BY <1>1, <1>2, <2>2 DEF Ordered
  <1>4. ASSUME NEW k \in 2..(Len(u) - 1)
        PROVE  u[k].route.from \in 1..(Top - 1)
    <2>1. CASE k < i
      BY <2>1, <1>1, <1>2 DEF Ordered
    <2>2. CASE k >= i
      <3>1. u[k] = t[k + 1] /\ k + 1 \in 2..(Len(t) - 1)
        BY <2>2, <1>1, <1>2
      <3> QED BY <3>1 DEF Ordered
    <2> QED BY <2>1, <2>2
  <1>5. ASSUME NEW j \in DOMAIN u, NEW k \in DOMAIN u, j < k
        PROVE  ~Before(u[k].route, u[j].route)
    <2>1. j \in 1..(Len(t) - 1) /\ k \in 1..(Len(t) - 1)
      BY <1>1
    <2>2. CASE k < i
      BY <1>1, <1>5, <2>1, <2>2 DEF Ordered
    <2>3. CASE j < i /\ k >= i
      <3>1. u[j] = t[j] /\ u[k] = t[k + 1] /\ j < k + 1
        BY <1>1, <2>1, <2>3
      <3>2. j \in DOMAIN t /\ k + 1 \in DOMAIN t
        BY <2>1
      <3> QED BY <3>1, <3>2 DEF Ordered
    <2>4. CASE j >= i
      <3>1. u[j] = t[j + 1] /\ u[k] = t[k + 1]
        BY <1>1, <1>5, <2>1, <2>4
      <3>2. j + 1 \in DOMAIN t /\ k + 1 \in DOMAIN t /\ j + 1 < k + 1
        BY <1>5, <2>1
      <3> QED BY <3>1, <3>2 DEF Ordered
    <2> QED BY <1>5, <2>1, <2>2, <2>3, <2>4
  <1> QED BY <1>3, <1>4, <1>5 DEF Ordered, u

\* Marking and delivering change no route, and the order is one of routes.
LEMMA SameRoutesSameOrder ==
  ASSUME NEW t \in Seq(Entries), Ordered(t), NEW u,
         DOMAIN u = DOMAIN t, Len(u) = Len(t),
         \A i \in DOMAIN t : u[i].route = t[i].route
  PROVE  Ordered(u)
  <1>1. 1 \in DOMAIN t /\ Len(t) \in DOMAIN t
    BY DEF Ordered
  <1>2. \A i \in 2..(Len(t) - 1) : i \in DOMAIN t
    OBVIOUS
  <1> QED BY <1>1, <1>2 DEF Ordered

-----------------------------------------------------------------------------
(* The invariant: the order needs the types, the room for an entry needs   *)
(* neither, and MarkFindsAll follows from types and order alone.           *)

TableInv == TypeOK /\ TableSorted /\ TableFits

\* mark_event and propagate_events only change the active flags.
LEMMA MarkKeepsRoutes ==
  ASSUME table \in Seq(Entries), NEW n, NEW o, Mark(n, o)
  PROVE  /\ table' \in Seq(Entries)
         /\ Len(table') = Len(table)
         /\ \A i \in DOMAIN table : table'[i].route = table[i].route
  <1>1. PICK g \in 2..Len(table) :
          table' = [i \in DOMAIN table |->
                      IF i \in RunFrom(n, o, g)
                      THEN [table[i] EXCEPT !.active = TRUE] ELSE table[i]]
    BY DEF Mark
  <1>2. \A i \in 1..Len(table) : table[i] \in Entries
    BY EntryHasRoute
  <1>3. \A i \in 1..Len(table) :
          [table[i] EXCEPT !.active = TRUE] \in Entries
    BY <1>2 DEF Entries
  <1>4. /\ DOMAIN table = 1..Len(table)
        /\ table' = [i \in 1..Len(table) |-> table'[i]]
        /\ \A i \in 1..Len(table) : table'[i] \in Entries
    BY <1>1, <1>2, <1>3
  <1>5. table' \in Seq(Entries) /\ Len(table') = Len(table)
    BY <1>4
  <1>6. \A i \in 1..Len(table) : table'[i].route = table[i].route
    BY <1>1, <1>2 DEF Entries
  <1> QED BY <1>4, <1>5, <1>6

LEMMA DeliveryKeepsRoutes ==
  ASSUME table \in Seq(Entries),
         table' = [i \in DOMAIN table |-> [table[i] EXCEPT !.active = FALSE]]
  PROVE  /\ table' \in Seq(Entries)
         /\ Len(table') = Len(table)
         /\ \A i \in DOMAIN table : table'[i].route = table[i].route
  <1>1. \A i \in 1..Len(table) : table[i] \in Entries
    BY EntryHasRoute
  <1>2. \A i \in 1..Len(table) :
          /\ [table[i] EXCEPT !.active = FALSE] \in Entries
          /\ [table[i] EXCEPT !.active = FALSE].route = table[i].route
    BY <1>1 DEF Entries
  <1>3. /\ DOMAIN table = 1..Len(table)
        /\ table' = [i \in 1..Len(table) |-> table'[i]]
        /\ \A i \in 1..Len(table) : table'[i] \in Entries
    BY <1>2
  <1>4. table' \in Seq(Entries) /\ Len(table') = Len(table)
    BY <1>3
  <1> QED BY <1>2, <1>3, <1>4

\* Carrying out a request keeps the table ordered and leaves room for another.
LEMMA EnterKeepsTable ==
  ASSUME NEW t \in Seq(Entries), NEW m \in Nat,
         NEW q \in [add : BOOLEAN, route : Links4],
         Ordered(t), Len(t) < m, Enter(t, m, q)
  PROVE  /\ table' \in Seq(Entries) /\ Ordered(table')
         /\ max' \in Nat /\ Len(table') < max'
  <1> q.route \in Links4
    OBVIOUS
  <1> PICK i \in 2..Len(t) :
        /\ IsPosition(t, q.route, i)
        /\ \/ /\ q.add /\ ~IsThere(t, i, q.route)
              /\ table' = InsertAt(t, i, Entry(q.route))
              /\ max' = IF NeedsRoom(Len(t), m) THEN m + Growth ELSE m
           \/ /\ ~q.add /\ IsThere(t, i, q.route)
              /\ table' = RemoveAt(t, i)
              /\ max' = m
           \/ /\ q.add = IsThere(t, i, q.route)
              /\ table' = t
              /\ max' = m
    BY DEF Enter
  <1> i \in 1..Len(t)
    OBVIOUS
  <1>1. CASE /\ table' = InsertAt(t, i, Entry(q.route))
             /\ max' = IF NeedsRoom(Len(t), m) THEN m + Growth ELSE m
    <2>1. table' \in Seq(Entries) /\ Len(table') = Len(t) + 1
      BY <1>1, InsertAtEntries, LinkIsRoute
    <2>2. Ordered(table')
      BY <1>1, InsertKeepsOrder
    <2>3. max' \in Nat /\ Len(t) + 1 < max'
      BY <1>1, TableAssumption DEF NeedsRoom
    <2> QED BY <2>1, <2>2, <2>3
  <1>2. CASE /\ IsThere(t, i, q.route)
             /\ table' = RemoveAt(t, i)
             /\ max' = m
    <2>1. table' \in Seq(Entries) /\ Len(table') = Len(t) - 1
      BY <1>2, RemoveAtEntries
    <2>2. Ordered(table')
      BY <1>2, RemoveKeepsOrder
    <2> QED BY <1>2, <2>1, <2>2
  <1>3. CASE table' = t /\ max' = m
    BY <1>3
  <1> QED BY <1>1, <1>2, <1>3

LEMMA InitTableInv == Init => TableInv
  <1> SUFFICES ASSUME Init PROVE TableInv
    OBVIOUS
  <1>1. TableSorted /\ TableFits
    BY DEF Init, TableSorted, TableFits
  <1>2. /\ table \in Seq([route : Route, active : BOOLEAN])
        /\ pending \in Seq([add : BOOLEAN, route : Links4])
        /\ preEvents \in Seq((1..(Top - 1)) \X Nat)
    BY DEF Init
  <1>3. /\ initiated \in BOOLEAN /\ max \in Nat
        /\ phase \in {"frame", "first", "register", "replay"}
        /\ wanted \subseteq Links /\ due \subseteq Links
        /\ calls \in Nat /\ marks \in Nat /\ kills \in Nat
    BY DEF Init
  <1> QED BY <1>1, <1>2, <1>3 DEF TableInv, TypeOK

\* A step that leaves the table, its size and whether it is there.
LEMMA SameTable ==
  ASSUME TableSorted, TableFits, UNCHANGED <<initiated, table, max>>
  PROVE  TableSorted' /\ TableFits'
  BY DEF TableSorted, TableFits, Before

\* A step that only changes active flags.
LEMMA SameRoutes ==
  ASSUME TableInv, UNCHANGED <<initiated, max>>,
         table' \in Seq(Entries), Len(table') = Len(table),
         \A i \in DOMAIN table : table'[i].route = table[i].route
  PROVE  TableSorted' /\ TableFits'
  <1>1. table \in Seq(Entries) /\ (initiated => Ordered(table))
    BY DEF TableInv, TypeOK, TableSorted, Ordered, Entries
  <1>2. initiated' => Ordered(table')
    BY <1>1, SameRoutesSameOrder
  <1>3. TableSorted'
    BY <1>2 DEF TableSorted, Ordered, Before
  <1> QED BY <1>3 DEF TableInv, TableFits

\* Every step keeps the invariant.
LEMMA NextTableInv == TableInv /\ [Next]_vars => TableInv'
  <1> SUFFICES ASSUME TableInv, [Next]_vars PROVE TableInv'
    OBVIOUS
  <1> USE DEF TableInv
  <1>0. /\ table \in Seq(Entries) /\ max \in Nat
        /\ (initiated => Ordered(table))
    BY DEF TypeOK, TableSorted, Ordered, Entries
  <1>1. ASSUME NEW r \in Links, RegisterSimple(r) PROVE TableInv'
    <2>1. UNCHANGED <<initiated, table, max>>
      BY <1>1 DEF RegisterSimple, Call
    <2>2. pending' \in Seq([add : BOOLEAN, route : Links4])
      <3>1. r \in Links4 /\ pending \in Seq([add : BOOLEAN, route : Links4])
        BY TableAssumption DEF TypeOK
      <3>2. CASE pending' = Append(pending, Add(r))
        BY <3>1, <3>2 DEF Add
      <3>3. CASE \E h \in Helpers : pending' = pending \o ThroughHelper(r, h)
        <4> PICK h \in Helpers : pending' = pending \o ThroughHelper(r, h)
          BY <3>3
        <4>1. /\ [r EXCEPT !.to = h, !.tofn = In] \in Links4
              /\ [r EXCEPT !.from = h, !.fn = Out] \in Links4
          BY <3>1, TableAssumption DEF Links4, In, Out
        <4>2. ThroughHelper(r, h) \in Seq([add : BOOLEAN, route : Links4])
          BY <4>1 DEF ThroughHelper, Add
        <4> QED BY <3>1, <4>2, ConcatProperties
      <3> QED BY <1>1, <3>2, <3>3 DEF RegisterSimple
    <2>3. TypeOK'
      BY <1>1, <2>1, <2>2 DEF RegisterSimple, Call, TypeOK
    <2> QED BY <2>1, <2>3, SameTable
  <1>2. ASSUME NEW r \in Links, RemoveSimple(r) PROVE TableInv'
    <2>1. UNCHANGED <<initiated, table, max>>
      BY <1>2 DEF RemoveSimple, Call
    <2>2. pending' \in Seq([add : BOOLEAN, route : Links4])
      BY <1>2, TableAssumption DEF RemoveSimple, Drop, TypeOK
    <2>3. TypeOK'
      BY <1>2, <2>1, <2>2 DEF RemoveSimple, Call, TypeOK
    <2> QED BY <2>1, <2>3, SameTable
  <1>3. ASSUME NEW r \in Links, MarkEvent(r.from, r.fn) PROVE TableInv'
    <2>1. CASE initiated
      <3>1. /\ table' \in Seq(Entries) /\ Len(table') = Len(table)
            /\ \A i \in DOMAIN table : table'[i].route = table[i].route
        BY <1>0, <1>3, <2>1, MarkKeepsRoutes DEF MarkEvent
      <3>2. TypeOK'
        BY <1>3, <2>1, <3>1 DEF MarkEvent, TypeOK, Entries
      <3>3. UNCHANGED <<initiated, max>>
        BY <1>3 DEF MarkEvent
      <3> QED BY <3>1, <3>2, <3>3, SameRoutes
    <2>2. CASE ~initiated
      <3>1. <<r.from, r.fn>> \in (1..(Top - 1)) \X Nat
        BY TableAssumption DEF Links4
      <3>2. preEvents' \in Seq((1..(Top - 1)) \X Nat)
        <4>1. preEvents \in Seq((1..(Top - 1)) \X Nat)
          BY DEF TypeOK
        <4>2. preEvents' = Append(preEvents, <<r.from, r.fn>>)
          BY <1>3, <2>2 DEF MarkEvent
        <4> QED BY <3>1, <4>1, <4>2, AppendProperties
      <3>3. UNCHANGED <<initiated, table, max>>
        BY <1>3, <2>2 DEF MarkEvent
      <3>4. TypeOK'
        BY <1>3, <3>2, <3>3 DEF MarkEvent, TypeOK
      <3> QED BY <3>3, <3>4, SameTable
    <2> QED BY <2>1, <2>2
  <1>4. CASE DoFirst
    <2>1. /\ table' \in Seq(Entries) /\ Len(table') = Len(table)
          /\ \A i \in DOMAIN table : table'[i].route = table[i].route
      BY <1>0, <1>4, DeliveryKeepsRoutes DEF DoFirst
    <2>2. TypeOK'
      BY <1>4, <2>1 DEF DoFirst, TypeOK, Entries
    <2>3. UNCHANGED <<initiated, max>>
      BY <1>4 DEF DoFirst
    <2> QED BY <2>1, <2>2, <2>3, SameRoutes
  <1>5. CASE AnyRoutesWaiting
    <2>1. TypeOK'
      BY <1>5 DEF AnyRoutesWaiting, TypeOK
    <2>2. UNCHANGED <<initiated, table, max>>
      BY <1>5 DEF AnyRoutesWaiting
    <2> QED BY <2>1, <2>2, SameTable
  <1>6. CASE RegisterOne
    <2> DEFINE t == IF initiated THEN table ELSE Sentinels
               n == IF initiated THEN max ELSE InitialMax
    <2>1. /\ Head(pending) \in [add : BOOLEAN, route : Links4]
          /\ Tail(pending) \in Seq([add : BOOLEAN, route : Links4])
      BY <1>6, HeadTailProperties DEF RegisterOne, TypeOK
    <2>2. /\ t \in Seq(Entries) /\ n \in Nat /\ Ordered(t) /\ Len(t) < n
          /\ Enter(t, n, Head(pending))
      BY <1>0, <1>6, SentinelsOrdered, TableAssumption
         DEF RegisterOne, TableFits
    <2> HIDE DEF t, n
    <2>3. /\ table' \in Seq(Entries) /\ Ordered(table')
          /\ max' \in Nat /\ Len(table') < max'
      BY <2>1, <2>2, EnterKeepsTable
    <2>4. TypeOK'
      BY <1>6, <2>1, <2>3 DEF RegisterOne, TypeOK, Entries
    <2>5. TableSorted'
      BY <2>3 DEF TableSorted, Ordered, Before
    <2>6. TableFits'
      BY <2>3 DEF TableFits
    <2> QED BY <2>4, <2>5, <2>6
  <1>7. CASE RegisterDone
    <2>1. TypeOK'
      BY <1>7 DEF RegisterDone, TypeOK
    <2>2. UNCHANGED <<initiated, table, max>>
      BY <1>7 DEF RegisterDone
    <2> QED BY <2>1, <2>2, SameTable
  <1>8. CASE Replay
    <2>1. CASE initiated /\ preEvents # <<>>
      <3>1. /\ table' \in Seq(Entries) /\ Len(table') = Len(table)
            /\ \A i \in DOMAIN table : table'[i].route = table[i].route
        BY <1>0, <1>8, <2>1, MarkKeepsRoutes DEF Replay
      <3>2. preEvents' \in Seq((1..(Top - 1)) \X Nat)
        <4>1. preEvents \in Seq((1..(Top - 1)) \X Nat) /\ preEvents # <<>>
          BY <2>1 DEF TypeOK
        <4>2. preEvents' = Tail(preEvents)
          BY <1>8, <2>1 DEF Replay
        <4> QED BY <4>1, <4>2, HeadTailProperties
      <3>3. TypeOK'
        BY <1>8, <2>1, <3>1, <3>2 DEF Replay, TypeOK, Entries
      <3>4. UNCHANGED <<initiated, max>>
        BY <1>8 DEF Replay
      <3> QED BY <3>1, <3>3, <3>4, SameRoutes
    <2>2. CASE ~(initiated /\ preEvents # <<>>)
      <3>1. TypeOK'
        BY <1>8, <2>2 DEF Replay, TypeOK, KeepsSaved
      <3>2. UNCHANGED <<initiated, table, max>>
        BY <1>8, <2>2 DEF Replay
      <3> QED BY <3>1, <3>2, SameTable
    <2> QED BY <2>1, <2>2
  <1>9. CASE KillRouting
    <2>1. TypeOK'
      <3>1. table' \in Seq([route : Route, active : BOOLEAN])
        BY <1>9 DEF KillRouting
      <3>2. /\ initiated' = FALSE /\ max' = 0
            /\ wanted' = {} /\ due' = {}
            /\ UNCHANGED <<pending, preEvents, phase, calls, marks>>
        BY <1>9 DEF KillRouting
      <3>3. kills' \in Nat
        BY <1>9 DEF KillRouting, TypeOK
      <3> QED BY <3>1, <3>2, <3>3 DEF TypeOK
    <2>2. TableSorted' /\ TableFits'
      BY <1>9 DEF KillRouting, TableSorted, TableFits
    <2> QED BY <2>1, <2>2
  <1>10. CASE UNCHANGED vars
    <2>1. TypeOK'
      BY <1>10 DEF vars, TypeOK
    <2>2. UNCHANGED <<initiated, table, max>>
      BY <1>10 DEF vars
    <2> QED BY <2>1, <2>2, SameTable
  <1> QED BY <1>1, <1>2, <1>3, <1>4, <1>5, <1>6, <1>7, <1>8, <1>9, <1>10
          DEF Next, Frame

\* In an ordered table the search of mark_event finds what is there.
LEMMA OrderFindsAll == TypeOK /\ TableSorted => MarkFindsAll
  <1> SUFFICES ASSUME TypeOK, TableSorted, initiated,
                      NEW r \in Links, NEW g \in 2..Len(table),
                      SearchStops(r.from, r.fn, g)
               PROVE  RunFrom(r.from, r.fn, g)
                        = {i \in DOMAIN table : /\ table[i].route.from = r.from
                                                /\ table[i].route.fn = r.fn}
    BY DEF MarkFindsAll
  <1> DEFINE n == r.from
             o == r.fn
             Match(i) == table[i].route.from = n /\ table[i].route.fn = o
  <1>1. n \in 1..(Top - 1) /\ o \in Nat
    BY TableAssumption DEF Links4
  <1>2. /\ table \in Seq(Entries) /\ Ordered(table)
        /\ DOMAIN table = 1..Len(table)
    BY DEF TypeOK, TableSorted, Ordered, Entries
  <1>order. \A i, j \in 1..Len(table) :
              i < j => ~Before(table[j].route, table[i].route)
    BY <1>2 DEF Ordered
  <1>3. \A i \in 1..Len(table) : table[i].route.from \in Nat
                                 /\ table[i].route.fn \in Nat
    <2>1. \A i \in 1..Len(table) : table[i].route \in Route
      BY <1>2, EntryHasRoute
    <2> QED BY <2>1, TableAssumption DEF Route
  <1> PICK f \in 2..g :
        /\ n <= table[f].route.from
        /\ \A j \in 2..(f - 1) : n > table[j].route.from
        /\ \A j \in f..(g - 1) : table[j].route.from = n /\ table[j].route.fn # o
        /\ ~(table[g].route.from = n /\ table[g].route.fn # o)
    BY DEF SearchStops
  <1>4. ASSUME NEW i \in 1..Len(table), Match(i)
        PROVE  i \in RunFrom(n, o, g)
    <2>1. i >= f
      <3>1. i # 1
        BY <1>1, <1>2, <1>4 DEF Ordered
      <3> QED BY <1>1, <1>3, <1>4, <3>1
    <2>2. i >= g
      BY <1>4, <2>1
    <2>3. ASSUME NEW j \in f..i PROVE table[j].route.from = n
      <3>1. table[j].route.from >= n
        <4>1. CASE j = f
          BY <4>1
        <4>2. CASE j > f
          <5>1. ~Before(table[j].route, table[f].route)
            BY <4>2, <1>order
          <5> QED BY <1>1, <1>3, <5>1 DEF Before
        <4> QED BY <4>1, <4>2
      <3>2. CASE j = i
        BY <1>4, <3>2
      <3>3. CASE j < i
        <4>1. ~Before(table[i].route, table[j].route)
          BY <3>3, <1>order
        <4> QED BY <1>1, <1>3, <1>4, <3>1, <4>1 DEF Before
      <3> QED BY <3>2, <3>3
    <2>4. Match(g)
      BY <2>2, <2>3
    <2>5. ASSUME NEW j \in g..i PROVE Match(j)
      <3>1. CASE j = g \/ j = i
        BY <1>4, <2>4, <3>1
      <3>2. CASE g < j /\ j < i
        <4>1. table[j].route.from = n
          BY <2>3, <3>2
        <4>2. ~Before(table[i].route, table[j].route)
          BY <3>2, <1>order
        <4>3. ~Before(table[j].route, table[g].route)
          BY <3>2, <1>order
        <4> QED BY <1>1, <1>3, <1>4, <2>4, <4>1, <4>2, <4>3 DEF Before
      <3> QED BY <3>1, <3>2
    <2> QED BY <2>2, <2>5 DEF RunFrom
  <1>5. ASSUME NEW i \in RunFrom(n, o, g)
        PROVE  i \in 1..Len(table) /\ Match(i)
    BY DEF RunFrom
  <1> QED BY <1>2, <1>4, <1>5 DEF RunFrom

-----------------------------------------------------------------------------
(* No route is missing: a wanted route is in the table or a request for it *)
(* waits, and no request to remove it comes later.                         *)

Asks(q, r) == q.add /\ Leg(q, r)

Drops(q, r) == ~q.add /\ q.route = r

Settled(r) ==
  InTable(r) /\ \A j \in DOMAIN pending : ~Drops(pending[j], r)

Awaited(r) ==
  \E k \in DOMAIN pending :
    /\ Asks(pending[k], r)
    /\ \A j \in DOMAIN pending : j > k => ~Drops(pending[j], r)

KeptInv ==
  /\ \A r \in wanted : Settled(r) \/ Awaited(r)
  /\ \A k \in DOMAIN pending : ~pending[k].add => pending[k].route \in Links
  /\ ~initiated => table = <<>>

\* The request carried out was the first one; the others move up.
LEMMA AwaitedMovesUp ==
  ASSUME pending \in Seq([add : BOOLEAN, route : Links4]), pending # <<>>,
         pending' = Tail(pending), NEW r,
         NEW k \in DOMAIN pending, k > 1, Asks(pending[k], r),
         \A j \in DOMAIN pending : j > k => ~Drops(pending[j], r)
  PROVE  Awaited(r)'
  <1>1. /\ Len(pending') = Len(pending) - 1
        /\ \A i \in 1..Len(pending') : pending'[i] = pending[i + 1]
        /\ DOMAIN pending' = 1..Len(pending')
        /\ DOMAIN pending = 1..Len(pending)
    BY HeadTailProperties, LenProperties
  <1>2. k - 1 \in DOMAIN pending' /\ pending'[k - 1] = pending[k]
    BY <1>1
  <1>3. Asks(pending'[k - 1], r)
    BY <1>2
  <1>4. ASSUME NEW j \in DOMAIN pending', j > k - 1
        PROVE  ~Drops(pending'[j], r)
    <2>1. j + 1 \in DOMAIN pending /\ j + 1 > k /\ pending'[j] = pending[j + 1]
      BY <1>1, <1>4
    <2> QED BY <2>1
  <1> QED BY <1>2, <1>3, <1>4 DEF Awaited, Asks, Drops, Leg

\* Carrying out a request loses no route but the one it removes.
LEMMA EnterKeepsRoutes ==
  ASSUME NEW t \in Seq(Entries), NEW m \in Nat,
         NEW q \in [add : BOOLEAN, route : Links4], Enter(t, m, q),
         ~q.add => q.route \in Links, NEW r \in Links
  PROVE  /\ Asks(q, r) => InTable(r)'
         /\ (\E i \in DOMAIN t : Leg(t[i], r)) /\ ~Drops(q, r) => InTable(r)'
  <1>0. PICK i \in 2..Len(t) :
        \/ q.add /\ ~IsThere(t, i, q.route)
           /\ table' = InsertAt(t, i, Entry(q.route))
        \/ ~q.add /\ IsThere(t, i, q.route) /\ table' = RemoveAt(t, i)
        \/ q.add = IsThere(t, i, q.route) /\ table' = t
    BY DEF Enter
  <1> i \in 1..Len(t)
    BY <1>0
  <1>dom. DOMAIN t = 1..Len(t)
    BY LenProperties
  <1>1. CASE q.add /\ table' = InsertAt(t, i, Entry(q.route))
    <2>1. /\ table' \in Seq(Entries) /\ Len(table') = Len(t) + 1
          /\ table'[i] = Entry(q.route)
          /\ \A k \in 1..(i - 1) : table'[k] = t[k]
          /\ \A k \in (i + 1)..(Len(t) + 1) : table'[k] = t[k - 1]
      <3> DEFINE e == Entry(q.route)
                 u == InsertAt(t, i, e)
      <3>1. e \in Entries
        BY LinkIsRoute
      <3> HIDE DEF e
      <3>2. /\ u \in Seq(Entries) /\ Len(u) = Len(t) + 1
            /\ u[i] = e
            /\ \A k \in 1..(i - 1) : u[k] = t[k]
            /\ \A k \in (i + 1)..(Len(t) + 1) : u[k] = t[k - 1]
        BY <3>1, InsertAtEntries
      <3> HIDE DEF u
      <3>3. table' = u
        BY <1>1 DEF e, u
      <3> QED BY <3>2, <3>3 DEF e
    <2>2. DOMAIN table' = 1..(Len(t) + 1)
      BY <2>1, LenProperties
    <2>3. Asks(q, r) => InTable(r)'
      <3>1. i \in DOMAIN table' /\ table'[i].route = q.route
        BY <2>1, <2>2, LinkIsRoute
      <3> QED BY <3>1 DEF Asks, InTable, Leg
    <2>4. ASSUME NEW k \in DOMAIN t, Leg(t[k], r) PROVE InTable(r)'
      <3>1. CASE k < i
        <4>1. k \in DOMAIN table' /\ table'[k] = t[k]
          BY <1>dom, <2>1, <2>2, <3>1
        <4> QED BY <2>4, <4>1 DEF InTable, Leg
      <3>2. CASE k >= i
        <4>1. k + 1 \in (i + 1)..(Len(t) + 1) /\ (k + 1) - 1 = k
          BY <1>dom, <3>2
        <4>2. k + 1 \in DOMAIN table' /\ table'[k + 1] = t[k]
          BY <2>1, <2>2, <4>1
        <4> QED BY <2>4, <4>2 DEF InTable, Leg
      <3> QED BY <1>dom, <3>1, <3>2
    <2> QED BY <2>3, <2>4
  <1>2. CASE ~q.add /\ IsThere(t, i, q.route) /\ table' = RemoveAt(t, i)
    <2>1. /\ table' \in Seq(Entries) /\ Len(table') = Len(t) - 1
          /\ \A k \in 1..(i - 1) : table'[k] = t[k]
          /\ \A k \in i..(Len(t) - 1) : table'[k] = t[k + 1]
      BY <1>2, RemoveAtEntries
    <2>2. DOMAIN table' = 1..(Len(t) - 1)
      BY <2>1, LenProperties
    <2>3. ASSUME ~Drops(q, r), NEW k \in DOMAIN t, Leg(t[k], r)
          PROVE  InTable(r)'
      <3>1. k # i
        <4>1. t[i].route # r
          BY <1>2, <2>3 DEF Drops, IsThere
        <4>2. t[i].route.to \notin Helpers
          BY <1>2, TableAssumption DEF IsThere
        <4> QED BY <2>3, <4>1, <4>2 DEF Leg
      <3>2. CASE k < i
        <4>1. k \in DOMAIN table' /\ table'[k] = t[k]
          BY <1>dom, <2>1, <2>2, <3>2
        <4> QED BY <2>3, <4>1 DEF InTable, Leg
      <3>3. CASE k > i
        <4>1. k - 1 \in i..(Len(t) - 1) /\ (k - 1) + 1 = k
          BY <1>dom, <3>3
        <4>2. k - 1 \in DOMAIN table' /\ table'[k - 1] = t[k]
          BY <2>1, <2>2, <4>1
        <4> QED BY <2>3, <4>2 DEF InTable, Leg
      <3> QED BY <1>dom, <3>1, <3>2, <3>3
    <2> QED BY <1>2, <2>3 DEF Asks
  <1>3. CASE q.add = IsThere(t, i, q.route) /\ table' = t
    <2>1. Asks(q, r) => InTable(r)'
      BY <1>3, <1>dom DEF Asks, InTable, Leg, IsThere
    <2> QED BY <1>3, <2>1 DEF InTable, Leg
  <1> QED BY <1>0, <1>1, <1>2, <1>3

LEMMA InitKeptInv == Init => KeptInv
  BY DEF Init, KeptInv

\* Steps that keep the requests and the routes of the table keep the wanted.
LEMMA SameRequests ==
  ASSUME KeptInv, UNCHANGED <<pending, initiated>>, wanted' \subseteq wanted,
         DOMAIN table' = DOMAIN table,
         \A i \in DOMAIN table : table'[i].route = table[i].route,
         ~initiated => table' = <<>>
  PROVE  KeptInv'
  <1>1. ASSUME NEW r \in wanted PROVE (Settled(r) \/ Awaited(r))'
    <2>1. CASE Settled(r)
      <3>1. InTable(r)'
        BY <2>1 DEF Settled, InTable, Leg
      <3> QED BY <2>1, <3>1 DEF Settled, Drops
    <2>2. CASE Awaited(r)
      BY <2>2 DEF Awaited, Asks, Drops, Leg
    <2> QED BY <1>1, <2>1, <2>2 DEF KeptInv
  <1> QED BY <1>1 DEF KeptInv

\* A further request that removes no wanted route.
LEMMA MoreRequests ==
  ASSUME KeptInv, UNCHANGED <<initiated, table>>,
         pending \in Seq([add : BOOLEAN, route : Links4]),
         NEW more \in Seq([add : BOOLEAN, route : Links4]),
         pending' = pending \o more,
         \A k \in 1..Len(more) : ~more[k].add => more[k].route \in Links,
         NEW r \in wanted,
         \A k \in 1..Len(more) : ~Drops(more[k], r)
  PROVE  /\ (Settled(r) \/ Awaited(r))'
         /\ \A k \in DOMAIN pending' : ~pending'[k].add => pending'[k].route \in Links
  <1>1. /\ pending' \in Seq([add : BOOLEAN, route : Links4])
        /\ Len(pending') = Len(pending) + Len(more)
        /\ \A i \in 1..(Len(pending) + Len(more)) :
             pending'[i] = IF i <= Len(pending) THEN pending[i]
                           ELSE more[i - Len(pending)]
    BY ConcatProperties
  <1>2. /\ DOMAIN pending = 1..Len(pending)
        /\ DOMAIN pending' = 1..(Len(pending) + Len(more))
    BY <1>1, LenProperties
  <1>3. \A i \in DOMAIN pending : i \in DOMAIN pending' /\ pending'[i] = pending[i]
    BY <1>1, <1>2
  <1>4. \A i \in DOMAIN pending' :
          \/ i \in DOMAIN pending /\ pending'[i] = pending[i]
          \/ \E k \in 1..Len(more) : pending'[i] = more[k]
    <2> TAKE i \in DOMAIN pending'
    <2>1. CASE i <= Len(pending)
      BY <1>1, <1>2, <2>1
    <2>2. CASE i > Len(pending)
      <3>1. i - Len(pending) \in 1..Len(more)
        BY <1>2, <2>2
      <3> QED BY <1>1, <1>2, <2>2, <3>1
    <2> QED BY <1>2, <2>1, <2>2
  <1>5. CASE Settled(r)
    <2>1. InTable(r)'
      BY <1>5 DEF Settled, InTable, Leg
    <2>2. \A j \in DOMAIN pending' : ~Drops(pending'[j], r)
      BY <1>4, <1>5 DEF Settled
    <2> QED BY <1>4, <2>1, <2>2 DEF Settled, Drops, KeptInv
  <1>6. CASE Awaited(r)
    <2> PICK k \in DOMAIN pending :
          /\ Asks(pending[k], r)
          /\ \A j \in DOMAIN pending : j > k => ~Drops(pending[j], r)
      BY <1>6 DEF Awaited
    <2>1. k \in DOMAIN pending' /\ Asks(pending'[k], r)
      BY <1>3
    <2>2. \A j \in DOMAIN pending' : j > k => ~Drops(pending'[j], r)
      BY <1>4
    <2>3. Awaited(r)'
      BY <2>1, <2>2 DEF Awaited, Asks, Drops, Leg
    <2> QED BY <1>4, <2>3 DEF KeptInv
  <1> QED BY <1>5, <1>6 DEF KeptInv

LEMMA NextKeptInv == TableInv /\ KeptInv /\ [Next]_vars => KeptInv'
  <1> SUFFICES ASSUME TableInv, KeptInv, [Next]_vars PROVE KeptInv'
    OBVIOUS
  <1> DEFINE Requests == Seq([add : BOOLEAN, route : Links4])
  <1>0. /\ table \in Seq(Entries) /\ max \in Nat
        /\ pending \in Requests /\ wanted \subseteq Links
    BY DEF TableInv, TypeOK, Entries
  <1>1. ASSUME NEW r \in Links, RegisterSimple(r) PROVE KeptInv'
    <2>1. /\ UNCHANGED <<initiated, table>> /\ wanted' = wanted \cup {r}
      BY <1>1 DEF RegisterSimple, Call
    <2>2. PICK more \in Requests :
            /\ pending' = pending \o more
            /\ Len(more) > 0 /\ Asks(more[1], r)
            /\ \A k \in 1..Len(more) : more[k].add
      <3>1. CASE pending' = Append(pending, Add(r))
        <4> DEFINE new == <<Add(r)>>
        <4>1. Add(r) \in [add : BOOLEAN, route : Links4]
          BY TableAssumption DEF Add
        <4>2. new \in Requests /\ pending' = pending \o new
          BY <1>0, <3>1, <4>1, AppendIsConcat
        <4>3. Asks(Add(r), r) /\ Add(r).add
          BY DEF Add, Asks, Leg
        <4>4. Len(new) = 1 /\ new[1] = Add(r)
          OBVIOUS
        <4> HIDE DEF new
        <4>5. \A k \in 1..Len(new) : new[k].add
          BY <4>3, <4>4
        <4>6. Len(new) > 0 /\ Asks(new[1], r)
          BY <4>3, <4>4
        <4> QED BY <4>2, <4>5, <4>6
      <3>2. CASE /\ {r.from, r.to} \subseteq Scripts
                 /\ \E h \in Helpers : pending' = pending \o ThroughHelper(r, h)
        <4> PICK h \in Helpers : pending' = pending \o ThroughHelper(r, h)
          BY <3>2
        <4> DEFINE x == [r EXCEPT !.to = h, !.tofn = In]
                   y == [r EXCEPT !.from = h, !.fn = Out]
        <4>1. /\ x \in Links4 /\ y \in Links4
              /\ x.from = r.from /\ x.fn = r.fn /\ x.to = h
          BY TableAssumption DEF Links4, In, Out
        <4>2. ThroughHelper(r, h) = <<Add(x), Add(y)>>
          BY DEF ThroughHelper
        <4> HIDE DEF x, y
        <4>3. ThroughHelper(r, h) \in Requests /\ Len(ThroughHelper(r, h)) = 2
          BY <4>1, <4>2 DEF Add
        <4>4. Asks(Add(x), r) /\ Add(x).add /\ Add(y).add
          BY <3>2, <4>1 DEF Add, Asks, Leg
        <4> DEFINE new == ThroughHelper(r, h)
        <4>5. new[1] = Add(x) /\ new[2] = Add(y)
          BY <4>2
        <4> HIDE DEF new
        <4>6. new \in Requests /\ Len(new) = 2 /\ pending' = pending \o new
          BY <4>3 DEF new
        <4>7. \A k \in 1..Len(new) : new[k].add
          BY <4>4, <4>5, <4>6
        <4>8. Len(new) > 0 /\ Asks(new[1], r)
          BY <4>4, <4>5, <4>6
        <4> QED BY <4>6, <4>7, <4>8
      <3> QED BY <1>1, <3>1, <3>2 DEF RegisterSimple
    <2>3. \A k \in 1..Len(more) : ~more[k].add => more[k].route \in Links
      BY <2>2
    <2>4. \A w \in Links : \A k \in 1..Len(more) : ~Drops(more[k], w)
      BY <2>2 DEF Drops
    <2>5. /\ pending' \in Requests
          /\ Len(pending') = Len(pending) + Len(more)
          /\ \A i \in 1..(Len(pending) + Len(more)) :
               pending'[i] = IF i <= Len(pending) THEN pending[i]
                             ELSE more[i - Len(pending)]
      BY <1>0, <2>2, ConcatProperties
    <2>6. DOMAIN pending' = 1..(Len(pending) + Len(more))
      BY <2>5, LenProperties
    <2>7. Awaited(r)'
      <3> DEFINE k == Len(pending) + 1
      <3>1. k \in DOMAIN pending' /\ pending'[k] = more[1]
        BY <1>0, <2>2, <2>5, <2>6
      <3>2. \A j \in DOMAIN pending' : j > k => pending'[j].add
        <4> TAKE j \in DOMAIN pending'
        <4> HAVE j > k
        <4>1. j - Len(pending) \in 1..Len(more)
          BY <2>6
        <4> QED BY <2>2, <2>5, <2>6, <4>1
      <3> HIDE DEF k
      <3> QED BY <2>2, <3>1, <3>2 DEF Awaited, Asks, Drops, Leg
    <2>8. \A w \in wanted : (Settled(w) \/ Awaited(w))'
      BY <1>0, <2>1, <2>2, <2>3, <2>4, MoreRequests
    <2>9. \A k \in DOMAIN pending' : ~pending'[k].add => pending'[k].route \in Links
      <3> TAKE k \in DOMAIN pending'
      <3>1. CASE k <= Len(pending)
        BY <1>0, <2>5, <2>6, <3>1 DEF KeptInv
      <3>2. CASE k > Len(pending)
        <4>1. k - Len(pending) \in 1..Len(more)
          BY <2>6, <3>2
        <4> QED BY <2>2, <2>5, <2>6, <3>2, <4>1
      <3> QED BY <2>6, <3>1, <3>2
    <2> QED BY <2>1, <2>7, <2>8, <2>9 DEF KeptInv
  <1>2. ASSUME NEW r \in Links, RemoveSimple(r) PROVE KeptInv'
    <2> DEFINE more == <<Drop(r)>>
    <2>1. /\ UNCHANGED <<initiated, table>> /\ wanted' = wanted \ {r}
      BY <1>2 DEF RemoveSimple, Call
    <2>2. /\ more \in Requests /\ pending' = pending \o more
          /\ pending' = Append(pending, Drop(r)) /\ Len(more) = 1
          /\ more[1] = Drop(r)
      <3>1. Drop(r) \in [add : BOOLEAN, route : Links4]
        BY TableAssumption DEF Drop
      <3>2. pending' = Append(pending, Drop(r))
        BY <1>2 DEF RemoveSimple
      <3> QED BY <1>0, <3>1, <3>2, AppendIsConcat
    <2> HIDE DEF more
    <2>3. \A k \in 1..Len(more) : more[k].route = r /\ ~more[k].add
      BY <2>2 DEF Drop
    <2>4. \A k \in 1..Len(more) : ~more[k].add => more[k].route \in Links
      BY <2>3
    <2>5. \A w \in wanted' : \A k \in 1..Len(more) : ~Drops(more[k], w)
      BY <2>1, <2>3 DEF Drops
    <2>6. \A w \in wanted' : (Settled(w) \/ Awaited(w))'
      <3> TAKE w \in wanted'
      <3>1. w \in wanted /\ \A k \in 1..Len(more) : ~Drops(more[k], w)
        BY <2>1, <2>5
      <3> QED BY <1>0, <2>1, <2>2, <2>4, <3>1, MoreRequests
    <2>7. \A k \in DOMAIN pending' : ~pending'[k].add => pending'[k].route \in Links
      <3>1. Drop(r) \in [add : BOOLEAN, route : Links4]
        BY TableAssumption DEF Drop
      <3>2. /\ DOMAIN pending' = 1..(Len(pending) + 1)
            /\ \A k \in 1..Len(pending) : pending'[k] = pending[k]
            /\ pending'[Len(pending) + 1] = Drop(r)
        BY <1>0, <2>2, <3>1, AppendProperties, LenProperties
      <3> TAKE k \in DOMAIN pending'
      <3>3. CASE k = Len(pending) + 1
        BY <3>2, <3>3 DEF Drop
      <3>4. CASE k \in 1..Len(pending)
        BY <1>0, <3>2, <3>4 DEF KeptInv
      <3> QED BY <3>2, <3>3, <3>4
    <2> QED BY <2>1, <2>6, <2>7 DEF KeptInv
  <1>3. ASSUME NEW r \in Links, MarkEvent(r.from, r.fn) PROVE KeptInv'
    <2>1. UNCHANGED <<pending, initiated, wanted>>
      BY <1>3 DEF MarkEvent
    <2>2. CASE initiated
      <3>1. /\ table' \in Seq(Entries) /\ Len(table') = Len(table)
            /\ \A i \in DOMAIN table : table'[i].route = table[i].route
        BY <1>0, <1>3, <2>2, MarkKeepsRoutes DEF MarkEvent
      <3>2. DOMAIN table' = DOMAIN table
        BY <1>0, <3>1, LenProperties
      <3> QED BY <2>1, <2>2, <3>1, <3>2, SameRequests
    <2>3. CASE ~initiated
      <3>1. table' = table
        BY <1>3, <2>3 DEF MarkEvent
      <3> QED BY <2>1, <3>1, SameRequests DEF KeptInv
    <2> QED BY <2>2, <2>3
  <1>4. CASE DoFirst
    <2>1. /\ UNCHANGED <<pending, initiated, wanted>>
          /\ table' = [i \in DOMAIN table |-> [table[i] EXCEPT !.active = FALSE]]
      BY <1>4 DEF DoFirst
    <2>2. /\ table' \in Seq(Entries) /\ Len(table') = Len(table)
          /\ \A i \in DOMAIN table : table'[i].route = table[i].route
      BY <1>0, <2>1, DeliveryKeepsRoutes
    <2>3. DOMAIN table' = DOMAIN table /\ (~initiated => table' = <<>>)
      BY <1>0, <2>1, <2>2, LenProperties DEF KeptInv
    <2> QED BY <2>1, <2>2, <2>3, SameRequests
  <1>5. CASE AnyRoutesWaiting \/ RegisterDone \/ UNCHANGED vars
    <2>1. UNCHANGED <<pending, initiated, wanted, table>>
      BY <1>5 DEF AnyRoutesWaiting, RegisterDone, vars
    <2> QED BY <2>1, SameRequests DEF KeptInv
  <1>6. CASE RegisterOne
    <2> DEFINE t == IF initiated THEN table ELSE Sentinels
               n == IF initiated THEN max ELSE InitialMax
               q == Head(pending)
    <2>1. /\ pending # <<>> /\ pending' = Tail(pending)
          /\ initiated' = TRUE /\ wanted' = wanted
          /\ Enter(t, n, q)
      BY <1>6 DEF RegisterOne
    <2>2. /\ t \in Seq(Entries) /\ n \in Nat
          /\ \A r \in Links : InTable(r) => \E i \in DOMAIN t : Leg(t[i], r)
      BY <1>0, SentinelsOrdered, TableAssumption DEF InTable, KeptInv
    <2>3. /\ q \in [add : BOOLEAN, route : Links4]
          /\ 1 \in DOMAIN pending /\ q = pending[1]
          /\ DOMAIN pending = 1..Len(pending)
          /\ DOMAIN pending' = 1..(Len(pending) - 1)
          /\ \A i \in 1..(Len(pending) - 1) : pending'[i] = pending[i + 1]
      <3>1. Tail(pending) \in Requests
        BY <1>0, <2>1, HeadTailProperties
      <3>2. /\ q \in [add : BOOLEAN, route : Links4]
            /\ Len(Tail(pending)) = Len(pending) - 1
            /\ \A i \in 1..Len(Tail(pending)) :
                 Tail(pending)[i] = pending[i + 1]
        BY <1>0, <2>1, HeadTailProperties
      <3>3. Len(pending) > 0 /\ q = pending[1]
        BY <1>0, <2>1, EmptySeq
      <3> QED BY <1>0, <2>1, <3>1, <3>2, <3>3, LenProperties
    <2>4. ~q.add => q.route \in Links
      BY <2>3 DEF KeptInv
    <2> HIDE DEF t, n, q
    <2>5. \A k \in DOMAIN pending' : k + 1 \in DOMAIN pending
                                     /\ pending'[k] = pending[k + 1]
      BY <2>3
    <2>6. ASSUME NEW r \in wanted PROVE (Settled(r) \/ Awaited(r))'
      <3>1. /\ Asks(q, r) => InTable(r)'
            /\ InTable(r) /\ ~Drops(q, r) => InTable(r)'
        BY <1>0, <2>1, <2>2, <2>3, <2>4, EnterKeepsRoutes
      <3>2. CASE Settled(r)
        <4>1. ~Drops(q, r) /\ \A j \in DOMAIN pending' : ~Drops(pending'[j], r)
          BY <2>3, <2>5, <3>2 DEF Settled
        <4> QED BY <3>1, <3>2, <4>1 DEF Settled, Drops
      <3>3. CASE Awaited(r)
        <4> PICK k \in DOMAIN pending :
              /\ Asks(pending[k], r)
              /\ \A j \in DOMAIN pending : j > k => ~Drops(pending[j], r)
          BY <3>3 DEF Awaited
        <4>1. CASE k = 1
          <5>1. InTable(r)'
            BY <2>3, <3>1, <4>1
          <5>2. \A j \in DOMAIN pending' : ~Drops(pending'[j], r)
            <6> TAKE j \in DOMAIN pending'
            <6>1. j + 1 > k
              BY <2>3, <4>1
            <6> QED BY <2>5, <6>1
          <5> QED BY <5>1, <5>2 DEF Settled, Drops
        <4>2. CASE k > 1
          BY <1>0, <2>1, <4>2, AwaitedMovesUp
        <4> QED BY <2>3, <4>1, <4>2
      <3> QED BY <2>6, <3>2, <3>3 DEF KeptInv
    <2>7. \A k \in DOMAIN pending' : ~pending'[k].add => pending'[k].route \in Links
      BY <2>5 DEF KeptInv
    <2> QED BY <2>1, <2>6, <2>7 DEF KeptInv
  <1>7. CASE Replay
    <2>1. UNCHANGED <<pending, initiated, wanted>>
      BY <1>7 DEF Replay
    <2>2. CASE initiated /\ preEvents # <<>>
      <3>1. /\ table' \in Seq(Entries) /\ Len(table') = Len(table)
            /\ \A i \in DOMAIN table : table'[i].route = table[i].route
        BY <1>0, <1>7, <2>2, MarkKeepsRoutes DEF Replay
      <3>2. DOMAIN table' = DOMAIN table
        BY <1>0, <3>1, LenProperties
      <3> QED BY <2>1, <2>2, <3>1, <3>2, SameRequests
    <2>3. CASE ~(initiated /\ preEvents # <<>>)
      <3>1. table' = table
        BY <1>7, <2>3 DEF Replay
      <3> QED BY <2>1, <3>1, SameRequests DEF KeptInv
    <2> QED BY <2>2, <2>3
  <1>8. CASE KillRouting
    BY <1>8 DEF KillRouting, KeptInv
  <1> QED BY <1>1, <1>2, <1>3, <1>4, <1>5, <1>6, <1>7, <1>8 DEF Next, Frame

-----------------------------------------------------------------------------
(* No event is lost: while do_first enters routes nothing is marked, and   *)
(* when it replays the saved events all routes are there.                  *)

Inactive(t) == \A i \in DOMAIN t : ~t[i].active

SavedFor(r) == \E i \in DOMAIN preEvents : preEvents[i] = <<r.from, r.fn>>

EventInv ==
  /\ due \subseteq wanted
  /\ phase \in {"first", "register"} => Inactive(table)
  /\ phase = "replay" /\ initiated => \A r \in due : InTable(r)
  /\ \A r \in due : IsActive(r) \/ SavedFor(r)

\* Marking a field makes its routes active and leaves no other less so.
LEMMA MarkActivates ==
  ASSUME TableInv, initiated, NEW n, NEW o, Mark(n, o), NEW r \in Links
  PROVE  /\ InTable(r) => InTable(r)'
         /\ IsActive(r) => IsActive(r)'
         /\ n = r.from /\ o = r.fn /\ InTable(r) => IsActive(r)'
  <1>1. PICK g \in 2..Len(table) :
          /\ SearchStops(n, o, g)
          /\ table' = [i \in DOMAIN table |->
                        IF i \in RunFrom(n, o, g)
                        THEN [table[i] EXCEPT !.active = TRUE] ELSE table[i]]
    BY DEF Mark
  <1>2. \A i \in DOMAIN table : table[i] \in Entries
    <2>1. table \in Seq(Entries)
      BY DEF TableInv, TypeOK, Entries
    <2> QED BY <2>1, EntryHasRoute, LenProperties
  <1>3. ASSUME NEW i \in DOMAIN table
        PROVE  /\ i \in DOMAIN table' /\ table'[i].route = table[i].route
               /\ table[i].active => table'[i].active
               /\ i \in RunFrom(n, o, g) => table'[i].active
    BY <1>1, <1>2 DEF Entries
  <1>4. ASSUME NEW i \in DOMAIN table, Leg(table[i], r)
        PROVE  Leg(table'[i], r)
    BY <1>3, <1>4 DEF Leg
  <1>5. ASSUME n = r.from, o = r.fn, NEW i \in DOMAIN table, Leg(table[i], r)
        PROVE  i \in RunFrom(n, o, g)
    <2>1. MarkFindsAll
      BY OrderFindsAll DEF TableInv
    <2>2. RunFrom(n, o, g) = {j \in DOMAIN table : /\ table[j].route.from = n
                                                   /\ table[j].route.fn = o}
      BY <1>1, <1>5, <2>1 DEF MarkFindsAll
    <2> QED BY <1>5, <2>2 DEF Leg
  <1> QED BY <1>3, <1>4, <1>5 DEF InTable, IsActive

\* A request makes no entry active.
LEMMA EnterInactive ==
  ASSUME NEW t \in Seq(Entries), NEW m \in Nat,
         NEW q \in [add : BOOLEAN, route : Links4], Enter(t, m, q), Inactive(t)
  PROVE  Inactive(table')
  <1>0. PICK i \in 2..Len(t) :
        \/ table' = InsertAt(t, i, Entry(q.route))
        \/ table' = RemoveAt(t, i)
        \/ table' = t
    BY DEF Enter
  <1> i \in 1..Len(t)
    BY <1>0
  <1>dom. Len(t) \in Nat /\ DOMAIN t = 1..Len(t)
    BY LenProperties
  <1>1. CASE table' = InsertAt(t, i, Entry(q.route))
    <2> DEFINE e == Entry(q.route)
    <2>0. e \in Entries
      BY LinkIsRoute
    <2>1. ~e.active
      BY DEF Entry
    <2> HIDE DEF e
    <2>2. /\ table' \in Seq(Entries) /\ Len(table') = Len(t) + 1
          /\ table'[i] = e
          /\ \A k \in 1..(i - 1) : table'[k] = t[k]
          /\ \A k \in (i + 1)..(Len(t) + 1) : table'[k] = t[k - 1]
      <3> DEFINE u == InsertAt(t, i, e)
      <3>1. /\ u \in Seq(Entries) /\ Len(u) = Len(t) + 1
            /\ u[i] = e
            /\ \A k \in 1..(i - 1) : u[k] = t[k]
            /\ \A k \in (i + 1)..(Len(t) + 1) : u[k] = t[k - 1]
        BY <2>0, InsertAtEntries
      <3> HIDE DEF u
      <3>2. table' = u
        BY <1>1 DEF e, u
      <3> QED BY <3>1, <3>2
    <2>3. ASSUME NEW k \in 1..(Len(t) + 1) PROVE ~table'[k].active
      <3>1. CASE k < i
        <4>1. k \in 1..(i - 1) /\ k \in DOMAIN t
          BY <1>dom, <3>1
        <4> QED BY <2>2, <4>1 DEF Inactive
      <3>2. CASE k = i
        BY <2>1, <2>2, <3>2
      <3>3. CASE k > i
        <4>1. k \in (i + 1)..(Len(t) + 1) /\ k - 1 \in DOMAIN t
          BY <1>dom, <3>3
        <4> QED BY <2>2, <4>1 DEF Inactive
      <3> QED BY <1>dom, <3>1, <3>2, <3>3
    <2>4. DOMAIN table' = 1..(Len(t) + 1)
      BY <2>2, LenProperties
    <2> QED BY <2>3, <2>4 DEF Inactive
  <1>2. CASE table' = RemoveAt(t, i)
    <2>1. /\ table' \in Seq(Entries) /\ Len(table') = Len(t) - 1
          /\ \A k \in 1..(i - 1) : table'[k] = t[k]
          /\ \A k \in i..(Len(t) - 1) : table'[k] = t[k + 1]
      BY <1>2, RemoveAtEntries
    <2>2. ASSUME NEW k \in 1..(Len(t) - 1) PROVE ~table'[k].active
      <3>1. CASE k < i
        <4>1. k \in 1..(i - 1) /\ k \in DOMAIN t
          BY <1>dom, <3>1
        <4> QED BY <2>1, <4>1 DEF Inactive
      <3>2. CASE k >= i
        <4>1. k \in i..(Len(t) - 1) /\ k + 1 \in DOMAIN t
          BY <1>dom, <3>2
        <4> QED BY <2>1, <4>1 DEF Inactive
      <3> QED BY <1>dom, <3>1, <3>2
    <2>3. DOMAIN table' = 1..(Len(t) - 1)
      BY <2>1, LenProperties
    <2> QED BY <2>2, <2>3 DEF Inactive
  <1>3. CASE table' = t
    BY <1>3
  <1> QED BY <1>0, <1>1, <1>2, <1>3

LEMMA InitEventInv == Init => EventInv
  BY DEF Init, EventInv, Inactive

LEMMA NextEventInv ==
  TableInv /\ KeptInv /\ EventInv /\ [Next]_vars => EventInv'
  <1> SUFFICES ASSUME TableInv, KeptInv, EventInv, [Next]_vars PROVE EventInv'
    OBVIOUS
  <1>0. /\ table \in Seq(Entries) /\ max \in Nat
        /\ wanted \subseteq Links /\ due \subseteq Links
        /\ preEvents \in Seq((1..(Top - 1)) \X Nat)
    BY DEF TableInv, TypeOK, Entries
  <1>1. ASSUME NEW r \in Links, RegisterSimple(r) \/ RemoveSimple(r)
        PROVE  EventInv'
    <2>1. /\ UNCHANGED <<initiated, table, preEvents, phase>>
          /\ due' \subseteq due /\ due' \subseteq wanted'
      BY <1>1 DEF RegisterSimple, RemoveSimple, Call, EventInv
    <2> QED BY <2>1 DEF EventInv, Inactive, InTable, IsActive, SavedFor
  <1>2. ASSUME NEW q \in Links, MarkEvent(q.from, q.fn) PROVE EventInv'
    <2>1. /\ UNCHANGED <<initiated, phase, wanted>>
          /\ due' = due \cup {r \in wanted : /\ r.from = q.from /\ r.fn = q.fn
                                             /\ ~initiated \/ InTable(r)}
          /\ due' \subseteq wanted
      BY <1>2 DEF MarkEvent, EventInv
    <2>2. CASE initiated
      <3>1. phase = "frame" /\ Mark(q.from, q.fn) /\ preEvents' = preEvents
        BY <1>2, <2>2 DEF MarkEvent
      <3>2. ASSUME NEW r \in due' PROVE IsActive(r)' \/ SavedFor(r)'
        <4>1. r \in Links
          BY <1>0, <2>1
        <4>2. CASE r \in due
          BY <2>2, <3>1, <4>1, <4>2, MarkActivates DEF EventInv, SavedFor
        <4>3. CASE r \notin due
          <5>1. q.from = r.from /\ q.fn = r.fn /\ InTable(r)
            BY <2>1, <2>2, <4>3
          <5> QED BY <2>2, <3>1, <4>1, <5>1, MarkActivates
        <4> QED BY <4>2, <4>3
      <3> QED BY <2>1, <3>1, <3>2 DEF EventInv
    <2>3. CASE ~initiated
      <3>1. table' = table /\ preEvents' = Append(preEvents, <<q.from, q.fn>>)
        BY <1>2, <2>3 DEF MarkEvent
      <3>2. <<q.from, q.fn>> \in (1..(Top - 1)) \X Nat
        BY TableAssumption DEF Links4
      <3>3. /\ Len(preEvents) + 1 \in DOMAIN preEvents'
            /\ preEvents'[Len(preEvents) + 1] = <<q.from, q.fn>>
            /\ \A i \in DOMAIN preEvents : i \in DOMAIN preEvents'
                                        /\ preEvents'[i] = preEvents[i]
        BY <1>0, <3>1, <3>2
      <3>4. ASSUME NEW r \in due' PROVE IsActive(r)' \/ SavedFor(r)'
        <4>1. CASE r \in due
          BY <3>1, <3>3, <4>1 DEF EventInv, IsActive, SavedFor
        <4>2. CASE r \notin due
          BY <2>1, <3>3, <4>2 DEF SavedFor
        <4> QED BY <4>1, <4>2
      <3> QED BY <2>1, <2>3, <3>1, <3>4 DEF EventInv, Inactive
    <2> QED BY <2>2, <2>3
  <1>3. CASE DoFirst
    <2>1. /\ UNCHANGED <<initiated, preEvents, wanted>>
          /\ phase' = "first" /\ due' = {r \in due : ~IsActive(r)}
          /\ table' = [i \in DOMAIN table |->
                         [table[i] EXCEPT !.active = FALSE]]
      BY <1>3 DEF DoFirst
    <2>2. \A i \in DOMAIN table : table[i] \in Entries
      BY <1>0, EntryHasRoute
    <2>3. Inactive(table')
      BY <2>1, <2>2 DEF Inactive, Entries
    <2>4. \A r \in due' : SavedFor(r)'
      BY <2>1 DEF EventInv, SavedFor
    <2> QED BY <2>1, <2>3, <2>4 DEF EventInv
  <1>4. CASE AnyRoutesWaiting \/ RegisterDone
    <2>1. /\ UNCHANGED <<initiated, table, pending, preEvents, wanted, due>>
          /\ phase' \in {"register", "replay"}
          /\ phase \in {"first", "register"}
          /\ phase' = "replay" => pending = <<>>
      BY <1>4 DEF AnyRoutesWaiting, RegisterDone
    <2>2. pending = <<>> => \A r \in due : InTable(r)
      BY DEF EventInv, KeptInv, Settled, Awaited
    <2> QED BY <2>1, <2>2 DEF EventInv, Inactive, InTable, IsActive, SavedFor
  <1>5. CASE RegisterOne
    <2>1. /\ UNCHANGED <<preEvents, phase, wanted, due>>
          /\ phase = "register" /\ pending # <<>>
      BY <1>5 DEF RegisterOne
    <2>2. Head(pending) \in [add : BOOLEAN, route : Links4]
      <3>1. pending \in Seq([add : BOOLEAN, route : Links4])
        BY DEF TableInv, TypeOK
      <3> QED BY <2>1, <3>1, HeadTailProperties
    <2>3. Inactive(table')
      <3>1. CASE initiated
        <4>1. Enter(table, max, Head(pending)) /\ Inactive(table)
          BY <1>5, <2>1, <3>1 DEF RegisterOne, EventInv
        <4> QED BY <1>0, <2>2, <4>1, EnterInactive
      <3>2. CASE ~initiated
        <4>1. Enter(Sentinels, InitialMax, Head(pending))
          BY <1>5, <3>2 DEF RegisterOne
        <4>2. Inactive(Sentinels)
          BY DEF Inactive, Sentinels, Entry
        <4> QED BY <2>2, <4>1, <4>2, EnterInactive, SentinelsOrdered,
                   TableAssumption
      <3> QED BY <3>1, <3>2
    <2>4. \A r \in due : ~IsActive(r)
      BY <2>1 DEF EventInv, Inactive, IsActive
    <2>5. \A r \in due' : SavedFor(r)'
      BY <2>1, <2>4 DEF EventInv, SavedFor
    <2> QED BY <2>1, <2>3, <2>5 DEF EventInv
  <1>6. CASE Replay
    <2>1. UNCHANGED <<initiated, wanted, due>> /\ phase = "replay"
      BY <1>6 DEF Replay
    <2>2. CASE initiated /\ preEvents # <<>>
      <3>1. /\ Mark(Head(preEvents)[1], Head(preEvents)[2])
            /\ preEvents' = Tail(preEvents) /\ phase' = phase
        BY <1>6, <2>2 DEF Replay
      <3>2. ASSUME NEW r \in due
            PROVE  InTable(r)' /\ (IsActive(r)' \/ SavedFor(r)')
        <4>1. r \in Links /\ InTable(r)
          BY <1>0, <2>1, <2>2 DEF EventInv
        <4>2. InTable(r)' /\ (IsActive(r) => IsActive(r)')
          BY <2>2, <3>1, <4>1, MarkActivates
        <4>3. ASSUME NEW i \in DOMAIN preEvents,
                     preEvents[i] = <<r.from, r.fn>>
              PROVE  IsActive(r)' \/ SavedFor(r)'
          <5>1. CASE i = 1
            <6>1. Head(preEvents)[1] = r.from /\ Head(preEvents)[2] = r.fn
              BY <1>0, <2>2, <4>3, <5>1
            <6> QED BY <2>2, <3>1, <4>1, <6>1, MarkActivates
          <5>2. CASE i # 1
            <6> DEFINE rest == Tail(preEvents)
            <6>1. /\ rest \in Seq((1..(Top - 1)) \X Nat)
                  /\ Len(rest) = Len(preEvents) - 1
                  /\ \A j \in 1..Len(rest) : rest[j] = preEvents[j + 1]
              BY <1>0, <2>2, HeadTailProperties
            <6>2. Len(preEvents) \in Nat /\ DOMAIN preEvents = 1..Len(preEvents)
              BY <1>0, LenProperties
            <6>3. DOMAIN rest = 1..Len(rest)
              BY <6>1, LenProperties
            <6> HIDE DEF rest
            <6>4. i - 1 \in DOMAIN rest
              BY <5>2, <6>1, <6>2, <6>3
            <6>5. rest[i - 1] = preEvents[i]
              <7>1. i - 1 \in 1..Len(rest) /\ (i - 1) + 1 = i
                BY <6>2, <6>3, <6>4
              <7> QED BY <6>1, <7>1
            <6>6. preEvents' = rest
              BY <3>1 DEF rest
            <6> QED BY <4>3, <6>4, <6>5, <6>6 DEF SavedFor
          <5> QED BY <5>1, <5>2
        <4> QED BY <4>2, <4>3 DEF EventInv, SavedFor
      <3> QED BY <2>1, <3>1, <3>2 DEF EventInv
    <2>3. CASE ~(initiated /\ preEvents # <<>>)
      <3>1. UNCHANGED <<table, preEvents>> /\ phase' = "frame"
        BY <1>6, <2>3 DEF Replay, KeepsSaved
      <3> QED BY <2>1, <3>1 DEF EventInv, IsActive, SavedFor
    <2> QED BY <2>2, <2>3
  <1>7. CASE KillRouting
    BY <1>7 DEF KillRouting, EventInv
  <1>8. CASE UNCHANGED vars
    BY <1>8 DEF vars, EventInv, Inactive, InTable, IsActive, SavedFor
  <1> QED BY <1>1, <1>2, <1>3, <1>4, <1>5, <1>6, <1>7, <1>8 DEF Next, Frame

-----------------------------------------------------------------------------
(* The theorems. *)

LEMMA SpecTableInv == Spec => []TableInv
  BY InitTableInv, NextTableInv, PTL DEF Spec

\* The variables keep their types.
THEOREM TypeCorrect == Spec => []TypeOK
  <1>1. TableInv => TypeOK
    BY DEF TableInv
  <1> QED BY <1>1, SpecTableInv, PTL

\* Whatever is registered and removed, and whichever world is replaced, the
\* table is sorted between its sentinels.
THEOREM AlwaysSorted == Spec => []TableSorted
  <1>1. TableInv => TableSorted
    BY DEF TableInv
  <1> QED BY <1>1, SpecTableInv, PTL

\* A registration never writes past the end of the array.
THEOREM AlwaysFits == Spec => []TableFits
  <1>1. TableInv => TableFits
    BY DEF TableInv
  <1> QED BY <1>1, SpecTableInv, PTL

\* mark_event finds every route of the field that changed.
THEOREM AlwaysFindsAll == Spec => []MarkFindsAll
  <1>1. TableInv => MarkFindsAll
    BY OrderFindsAll DEF TableInv
  <1> QED BY <1>1, SpecTableInv, PTL

\* Once the waiting requests are carried out, every route that was asked for
\* and not removed again is in the table.
THEOREM NoneMissing == Spec => []NoRouteMissing
  <1>1. Init => TableInv /\ KeptInv
    BY InitTableInv, InitKeptInv
  <1>2. TableInv /\ KeptInv /\ [Next]_vars => (TableInv /\ KeptInv)'
    BY NextTableInv, NextKeptInv
  <1>3. KeptInv => NoRouteMissing
    BY DEF KeptInv, NoRouteMissing, Settled, Awaited
  <1> QED BY <1>1, <1>2, <1>3, PTL DEF Spec

\* An event for a route that is in the table, or that came before there was
\* one, is marked there or saved, through every registration and removal of
\* routes, until it is delivered or its world is replaced.
THEOREM NoEventLost == Spec => []EventKept
  <1>1. Init => TableInv /\ KeptInv /\ EventInv
    BY InitTableInv, InitKeptInv, InitEventInv
  <1>2. TableInv /\ KeptInv /\ EventInv /\ [Next]_vars
          => (TableInv /\ KeptInv /\ EventInv)'
    BY NextTableInv, NextKeptInv, NextEventInv
  <1>3. EventInv => EventKept
    BY DEF EventInv, EventKept, SavedFor
  <1> QED BY <1>1, <1>2, <1>3, PTL DEF Spec
=============================================================================
