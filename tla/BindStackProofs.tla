-------------------------- MODULE BindStackProofs ---------------------------
(***************************************************************************)
(* Proofs about BindStack, for any viewpoints, worlds, wishes and events.  *)
(***************************************************************************)
EXTENDS BindStack, WellFoundedInduction, TLAPS

\* What is in a list, in a call, or was asked for, has been parsed.
ParsedInv ==
  /\ \A i \in DOMAIN stack : life[stack[i]] # "new"
  /\ \A n \in Registered : life[n] # "new"
  /\ toBind # NoNode => life[toBind] # "new"
  /\ \A t \in Threads :
       /\ InCall(t) => call[t].node \in Nodes /\ life[call[t].node] # "new"
       /\ call[t].at \in {"cover", "uncover"} =>
            call[t].old \in Nodes /\ life[call[t].old] # "new"
       /\ \A i \in DOMAIN call[t].held : life[call[t].held[i]] # "new"

\* The parser goes through a list that is not empty, and calls bind_node only
\* from there.
ParserInv ==
  /\ next >= 1
  /\ parser = "unbind" => viewpoints # <<>>
  /\ InCall("parser") => parser = "unbind"

\* While calls overlap, every bound node is suspect.
ClashInv ==
  /\ InCall("main") /\ InCall("parser") => clash
  /\ clash => ~covered /\ \A n \in Nodes : isBound[n] => n \in torn

\* The nodes that BoundIsTop speaks of.
InForce(n) == life[n] = "live" /\ isBound[n] /\ n \notin torn

\* How far a call that nothing overlaps has come: isBound and the stack agree but
\* for the nodes it still has to write.
Alone(t) ==
  LET n == call[t].node
      at == call[t].at
  IN  /\ at \in {"test", "push", "pop"} => BoundIsTop /\ TopIsBound
      /\ at \in {"over", "cover"} =>
           \A m \in Nodes : InForce(m) => m = n \/ IsTop(m)
      /\ at \in {"put", "store", "grow"} => \A m \in Nodes : InForce(m) => m = n
      /\ at \in {"over", "cover", "put", "store", "grow"} =>
           (covered => isBound[n])
      /\ at = "cover" => IsTop(call[t].old) /\ call[t].old # n
      /\ at \in {"store", "drop"} => call[t].held = stack
      /\ at = "grow" => call[t].held # <<>> /\ Last(call[t].held) = n
      /\ at = "under" =>
           /\ \A m \in Nodes : InForce(m) => IsTop(m) /\ m # n
           /\ covered /\ stack # <<>> => IsTop(n) \/ isBound[Last(stack)]
      /\ at \in {"take", "drop", "below", "uncover"} =>
           \A m \in Nodes : ~InForce(m)
      /\ at = "uncover" => IsTop(call[t].old)

AloneInv == \A t \in Threads : InCall(t) /\ ~clash => Alone(t)

IInv ==
  /\ TypeOK /\ RegisteredAlive /\ ParsedInv /\ ParserInv
  /\ BindMatchesStack /\ ClashInv /\ AloneInv

-----------------------------------------------------------------------------
(* What killNode leaves of a list. *)

Left(s) == {s[j] : j \in {k \in DOMAIN s : life[s[k]] # "dying"}}

LEMMA LastOfAppend ==
  ASSUME NEW S, NEW s \in Seq(S), NEW e
  PROVE  Append(s, e) # <<>> /\ Last(Append(s, e)) = e
  <1>1. s \in Seq(S \cup {e}) /\ e \in S \cup {e}
    OBVIOUS
  <1>2. /\ Len(Append(s, e)) = Len(s) + 1 /\ Len(s) \in Nat
        /\ Append(s, e)[Len(s) + 1] = e
    BY <1>1
  <1> QED BY <1>1, <1>2 DEF Last

\* One step of the copy.
Copied(s, f, i) == IF life[s[i]] = "dying" THEN f[i - 1]
                                           ELSE Append(f[i - 1], s[i])

\* Up to any place the copy can be made.
LEMMA CopyUpTo ==
  ASSUME NEW s \in Seq(Nodes), NEW m \in 0..Len(s)
  PROVE  \E f \in [0..m -> Seq(Left(s))] :
           f[0] = <<>> /\ \A i \in 1..m : f[i] = Copied(s, f, i)
  <1> DEFINE Can(n) == \E f \in [0..n -> Seq(Left(s))] :
                        f[0] = <<>> /\ \A i \in 1..n : f[i] = Copied(s, f, i)
             Bad == {n \in 0..Len(s) : ~Can(n)}
  <1> SUFFICES ASSUME Bad # {} PROVE FALSE
    OBVIOUS
  <1>1. Bad \subseteq Nat
    OBVIOUS
  <1>2. PICK n \in Bad : \A k \in Bad : <<k, n>> \notin OpToRel(<, Nat)
    BY <1>1, NatLessThanWellFounded, WFMin
  <1>3. n \in 0..Len(s) /\ ~Can(n) /\ Len(s) \in Nat
    <2> HIDE DEF Can
    <2> QED OBVIOUS
  <1>4. \A k \in Bad : ~(k < n)
    BY <1>1, <1>2 DEF OpToRel
  <1>5. CASE n = 0
    <2> DEFINE f == [i \in 0..0 |-> <<>>]
    <2>1. f \in [0..0 -> Seq(Left(s))] /\ f[0] = <<>>
      OBVIOUS
    <2>2. \A i \in 1..0 : f[i] = Copied(s, f, i)
      OBVIOUS
    <2> HIDE DEF f
    <2> QED BY <2>1, <2>2, <1>3, <1>5
  <1>6. CASE n # 0
    <2>1. n - 1 \in 0..Len(s) /\ n - 1 < n
      BY <1>3, <1>6
    <2>2. Can(n - 1)
      BY <2>1, <1>4
    <2>3. PICK f \in [0..(n - 1) -> Seq(Left(s))] :
            f[0] = <<>> /\ \A i \in 1..(n - 1) : f[i] = Copied(s, f, i)
      BY <2>2
    <2>4. s[n] \in Nodes /\ n \in DOMAIN s
      BY <1>3, <1>6
    <2>5. Copied(s, f, n) \in Seq(Left(s))
      <3>1. f[n - 1] \in Seq(Left(s))
        BY <2>1, <2>3
      <3>2. life[s[n]] # "dying" => s[n] \in Left(s)
        BY <2>4 DEF Left
      <3> QED BY <3>1, <3>2 DEF Copied
    <2> DEFINE g == [i \in 0..n |-> IF i = n THEN Copied(s, f, n) ELSE f[i]]
    <2>6. g \in [0..n -> Seq(Left(s))]
      BY <2>3, <2>5, <1>3
    <2>7. g[0] = <<>>
      BY <2>3, <1>3, <1>6
    <2>8. ASSUME NEW i \in 1..n PROVE g[i] = Copied(s, g, i)
      <3>1. i \in 0..n /\ i - 1 \in 0..n /\ i - 1 # n
        BY <1>3
      <3>2. g[i - 1] = f[i - 1]
        BY <3>1
      <3>3. CASE i = n
        BY <3>1, <3>2, <3>3 DEF Copied
      <3>4. CASE i # n
        <4>1. i \in 1..(n - 1) /\ g[i] = f[i]
          BY <3>1, <3>4, <1>3
        <4> QED BY <4>1, <3>2, <2>3 DEF Copied
      <3> QED BY <3>3, <3>4
    <2> HIDE DEF g
    <2>9. Can(n)
      BY <2>6, <2>7, <2>8
    <2> QED BY <2>9, <1>3
  <1> QED BY <1>5, <1>6

\* killNode takes all and only the disposed nodes off a list, and the node at
\* the end stays there if it stays at all.
LEMMA WithoutDeadLeft ==
  ASSUME NEW s \in Seq(Nodes)
  PROVE  /\ WithoutDead(s) \in Seq(Left(s))
         /\ Left(s) \subseteq Nodes
         /\ s # <<>> /\ life[s[Len(s)]] # "dying" =>
              /\ WithoutDead(s) # <<>>
              /\ Last(WithoutDead(s)) = s[Len(s)]
  <1> DEFINE n == Len(s)
             Body(f, i) == IF i = 0 THEN <<>>
                           ELSE IF life[s[i]] = "dying" THEN f[i - 1]
                                ELSE Append(f[i - 1], s[i])
             Is(f) == f = [i \in 0..Len(s) |-> Body(f, i)]
             c == CHOOSE f : Is(f)
  <1>1. n \in Nat /\ n \in 0..Len(s)
    OBVIOUS
  <1>2. PICK f \in [0..n -> Seq(Left(s))] :
          f[0] = <<>> /\ \A i \in 1..n : f[i] = Copied(s, f, i)
    BY <1>1, CopyUpTo
  <1>3. Is(f)
    <2>1. ASSUME NEW i \in 0..n PROVE f[i] = Body(f, i)
      <3>1. CASE i = 0
        BY <3>1, <1>2
      <3>2. CASE i # 0
        <4>1. i \in 1..n
          BY <3>2, <1>1
        <4> QED BY <4>1, <3>2, <1>2 DEF Copied
      <3> QED BY <3>1, <3>2
    <2> QED BY <2>1, <1>2
  <1>4. Is(c)
    <2> HIDE DEF Is
    <2> QED BY <1>3
  <1>5. WithoutDead(s) = c[n]
    BY DEF WithoutDead
  <1>6. \A i \in 0..n : c[i] = Body(c, i)
    <2> HIDE DEF c
    <2> QED BY <1>4
  <1> HIDE DEF c
  <1>7. \A i \in 0..n : c[i] \in Seq(Left(s))
    <2> DEFINE Bad == {i \in 0..n : c[i] \notin Seq(Left(s))}
    <2> SUFFICES ASSUME Bad # {} PROVE FALSE
      OBVIOUS
    <2>1. Bad \subseteq Nat
      OBVIOUS
    <2>2. PICK i \in Bad : \A k \in Bad : <<k, i>> \notin OpToRel(<, Nat)
      BY <2>1, NatLessThanWellFounded, WFMin
    <2>3. \A k \in Bad : ~(k < i)
      BY <2>1, <2>2 DEF OpToRel
    <2>4. i \in 0..n /\ c[i] \notin Seq(Left(s)) /\ c[i] = Body(c, i)
      BY <1>6
    <2>5. CASE i = 0
      <3>1. c[i] = <<>>
        BY <2>4, <2>5
      <3> QED BY <3>1, <2>4
    <2>6. CASE i # 0
      <3>1. i - 1 \in 0..n /\ i - 1 < i /\ i \in DOMAIN s
        BY <2>4, <2>6, <1>1
      <3>2. c[i - 1] \in Seq(Left(s))
        BY <3>1, <2>3
      <3>3. life[s[i]] # "dying" => s[i] \in Left(s)
        BY <3>1 DEF Left
      <3>4. c[i] = IF life[s[i]] = "dying" THEN c[i - 1]
                                           ELSE Append(c[i - 1], s[i])
        BY <2>4, <2>6
      <3> QED BY <3>2, <3>3, <3>4, <2>4
    <2> QED BY <2>5, <2>6
  <1>8. Left(s) \subseteq Nodes
    BY DEF Left
  <1>9. ASSUME s # <<>>, life[s[Len(s)]] # "dying"
        PROVE  c[n] # <<>> /\ Last(c[n]) = s[Len(s)]
    <2>1. n # 0 /\ n - 1 \in 0..n
      BY <1>1, <1>9
    <2>2. c[n] = Body(c, n)
      BY <1>1, <1>6
    <2>3. c[n] = Append(c[n - 1], s[n]) /\ c[n - 1] \in Seq(Left(s))
      BY <2>1, <2>2, <1>7, <1>9
    <2>4. s[n] \in Left(s)
      BY <2>1, <1>1, <1>9 DEF Left
    <2> QED BY <2>3, <2>4, LastOfAppend
  <1> QED BY <1>1, <1>5, <1>7, <1>8, <1>9

-----------------------------------------------------------------------------
(* What the steps of bind_node do. *)

LEMMA EndOfList ==
  ASSUME NEW s \in Seq(Nodes), s # <<>>
  PROVE  /\ Last(s) \in Nodes
         /\ Len(s) \in DOMAIN s
         /\ Last(s) = s[Len(s)]
         /\ Front(s) \in Seq(Nodes)
         /\ \A i \in DOMAIN Front(s) : i \in DOMAIN s /\ Front(s)[i] = s[i]
  <1>1. Len(s) \in Nat /\ Len(s) # 0 /\ DOMAIN s = 1..Len(s)
    OBVIOUS
  <1>2. Len(s) \in DOMAIN s /\ s[Len(s)] \in Nodes /\ Last(s) = s[Len(s)]
    BY <1>1 DEF Last
  <1>3. Front(s) = [i \in 1..(Len(s) - 1) |-> s[i]]
    BY <1>1 DEF Front
  <1>4. Front(s) \in Seq(Nodes) /\ Len(Front(s)) = Len(s) - 1
    BY <1>1, <1>3
  <1> QED BY <1>1, <1>2, <1>3, <1>4

LEMMA OtherThread ==
  ASSUME NEW t \in Threads
  PROVE  /\ Other(t) \in Threads /\ Other(t) # t
         /\ \A u \in Threads : u = t \/ u = Other(t)
  BY DEF Threads, Other

LEMMA CallType ==
  ASSUME TypeOK, NEW t \in Threads
  PROVE  /\ call[t] \in Calls
         /\ call[t].at \in Labels
         /\ call[t].node \in Nodes \cup {NoNode}
         /\ call[t].old \in Nodes \cup {NoNode}
         /\ call[t].held \in Seq(Nodes)
  BY DEF TypeOK, Calls

\* How a call goes on, or ends, without a word about what it holds.
Moved(t) ==
  /\ call' \in [Threads -> Calls]
  /\ \A u \in Threads \ {t} : /\ call'[u].at = call[u].at
                              /\ call'[u].node = call[u].node
                              /\ call'[u].old = call[u].old
  /\ \/ /\ call'[t].at # "out" /\ call'[t].node = call[t].node
        /\ clash' = clash
     \/ /\ call'[t] = NoCall
        /\ clash' = (clash /\ InCall(Other(t)))

LEMMA GoToEffect ==
  ASSUME TypeOK, NEW t \in Threads, NEW step \in Labels \ {"out"}, GoTo(t, step)
  PROVE  /\ Moved(t)
         /\ call'[t].at = step
         /\ call'[t].old = call[t].old
         /\ \A u \in Threads : call'[u].held = call[u].held
  <1>1. call' = [call EXCEPT ![t].at = step] /\ clash' = clash
    BY DEF GoTo
  <1>2. call \in [Threads -> Calls]
    BY DEF TypeOK
  <1>3. call' \in [Threads -> Calls]
    BY <1>1, <1>2 DEF Calls
  <1>4. /\ call'[t].at = step /\ call'[t].old = call[t].old
        /\ call'[t].node = call[t].node /\ call'[t].held = call[t].held
        /\ \A u \in Threads \ {t} : call'[u] = call[u]
    BY <1>1, <1>2 DEF Calls
  <1> QED BY <1>1, <1>3, <1>4 DEF Moved

LEMMA ReturnEffect ==
  ASSUME TypeOK, NEW t \in Threads, Return(t)
  PROVE  /\ Moved(t)
         /\ call'[t] = NoCall
         /\ \A u \in Threads \ {t} : call'[u] = call[u]
  <1>1. /\ call' = [call EXCEPT ![t] = NoCall]
        /\ clash' = (clash /\ InCall(Other(t)))
    BY DEF Return
  <1>2. call \in [Threads -> Calls]
    BY DEF TypeOK
  <1>3. NoCall \in Calls
    BY DEF NoCall, Calls, Labels
  <1>4. /\ call' \in [Threads -> Calls]
        /\ call'[t] = NoCall
        /\ \A u \in Threads \ {t} : call'[u] = call[u]
    BY <1>1, <1>2, <1>3
  <1> QED BY <1>1, <1>4 DEF Moved

\* A step that goes on and remembers the top.
LEMMA OldEffect ==
  ASSUME TypeOK, NEW t \in Threads, NEW step \in Labels \ {"out"},
         NEW o \in Nodes,
         call' = [call EXCEPT ![t].at = step, ![t].old = o], clash' = clash
  PROVE  /\ Moved(t)
         /\ call'[t].at = step
         /\ call'[t].old = o
         /\ \A u \in Threads : call'[u].held = call[u].held
  <1>2. call \in [Threads -> Calls]
    BY DEF TypeOK
  <1>3. call' \in [Threads -> Calls]
    BY <1>2 DEF Calls
  <1>4. /\ call'[t].at = step /\ call'[t].old = o
        /\ call'[t].node = call[t].node /\ call'[t].held = call[t].held
        /\ \A u \in Threads \ {t} : call'[u] = call[u]
    BY <1>2 DEF Calls
  <1> QED BY <1>3, <1>4 DEF Moved

LEMMA BindEffect ==
  ASSUME TypeOK, NEW n \in Nodes, Bind(n)
  PROVE  /\ isBound' \in [Nodes -> BOOLEAN]
         /\ \A m \in Nodes : isBound'[m] <=> m = n \/ isBound[m]
         /\ setBind' \in [Nodes -> {0, 1, 100}]
         /\ torn' \subseteq Nodes
         /\ clash => torn' = torn \cup {n}
         /\ ~clash => torn' = torn \ {n}
  <1>1. isBound \in [Nodes -> BOOLEAN] /\ isBound' = [isBound EXCEPT ![n] = TRUE]
    BY DEF TypeOK, Bind
  <1>2. setBind' \in [Nodes -> {0, 1, 100}]
    BY DEF TypeOK, Bind, Taken
  <1>3. /\ torn' \subseteq Nodes
        /\ clash => torn' = torn \cup {n}
        /\ ~clash => torn' = torn \ {n}
    BY DEF TypeOK, Bind
  <1> QED BY <1>1, <1>2, <1>3

LEMMA UnbindEffect ==
  ASSUME TypeOK, NEW n \in Nodes, Unbind(n)
  PROVE  /\ isBound' \in [Nodes -> BOOLEAN]
         /\ \A m \in Nodes : isBound'[m] <=> m # n /\ isBound[m]
         /\ setBind' \in [Nodes -> {0, 1, 100}]
         /\ torn' = torn \ {n} /\ torn' \subseteq Nodes
  <1>1. isBound \in [Nodes -> BOOLEAN] /\ isBound' = [isBound EXCEPT ![n] = FALSE]
    BY DEF TypeOK, Unbind
  <1>2. setBind' \in [Nodes -> {0, 1, 100}]
    BY DEF TypeOK, Unbind, Taken
  <1>3. torn' = torn \ {n} /\ torn' \subseteq Nodes
    BY DEF TypeOK, Unbind
  <1> QED BY <1>1, <1>2, <1>3

\* What is left to show of a step of thread t: the types, what is parsed, ...
Typed(t) ==
  /\ Moved(t)
  /\ setBind' \in [Nodes -> {0, 1, 100}]
  /\ isBound' \in [Nodes -> BOOLEAN]
  /\ stack' \in Seq(Nodes)
  /\ torn' \subseteq Nodes /\ covered' \in BOOLEAN
  /\ \A i \in DOMAIN stack' : life[stack'[i]] # "new"
  /\ \A u \in Threads :
       \A i \in DOMAIN call'[u].held : life[call'[u].held[i]] # "new"
  /\ call'[t].at \in {"cover", "uncover"} =>
       call'[t].old \in Nodes /\ life[call'[t].old] # "new"

\* ... that what an overlap writes is suspect, ...
Suspect == ~covered' /\ \A n \in Nodes : isBound'[n] => n \in torn'

\* ... and that a call alone is where it should be, or has reached its end.
Agreed(t) ==
  /\ call'[t].at # "out" => Alone(t)'
  /\ call'[t].at = "out" => BoundIsTop' /\ TopIsBound'

StepKeeps(t) == Typed(t) /\ (clash => Suspect) /\ (~clash => Agreed(t))

\* A step that writes nothing but the call and a set_bind.
LEMMA ReadingKeeps ==
  ASSUME IInv, NEW t \in Threads, Moved(t),
         setBind' \in [Nodes -> {0, 1, 100}],
         UNCHANGED <<isBound, stack, torn, covered>>,
         \A u \in Threads : call'[u].held \in {call[u].held, stack, <<>>},
         call'[t].at \in {"cover", "uncover"} =>
            stack # <<>> /\ call'[t].old = Last(stack)
  PROVE  Typed(t) /\ (clash => Suspect)
  <1>1. stack \in Seq(Nodes) /\ \A i \in DOMAIN stack : life[stack[i]] # "new"
    BY DEF IInv, TypeOK, ParsedInv
  <1>2. stack # <<>> => Last(stack) \in Nodes /\ life[Last(stack)] # "new"
    BY <1>1, EndOfList
  <1>3. ASSUME NEW u \in Threads, NEW i \in DOMAIN call'[u].held
        PROVE  life[call'[u].held[i]] # "new"
    <2>1. call'[u].held \in {call[u].held, stack, <<>>}
      OBVIOUS
    <2>2. \A k \in DOMAIN call[u].held : life[call[u].held[k]] # "new"
      BY DEF IInv, ParsedInv
    <2>3. call'[u].held # <<>>
      OBVIOUS
    <2> QED BY <1>1, <1>3, <2>1, <2>2, <2>3
  <1>4. Typed(t)
    BY <1>1, <1>2, <1>3 DEF IInv, TypeOK, Typed
  <1>5. clash => Suspect
    BY DEF IInv, ClashInv, Suspect
  <1> QED BY <1>4, <1>5

\* The places where Alone and the agreement at the end look.
LEMMA SameAgreement ==
  ASSUME UNCHANGED <<life, isBound, stack, torn, covered>>
  PROVE  /\ BoundIsTop' <=> BoundIsTop
         /\ TopIsBound' <=> TopIsBound
         /\ \A m \in Nodes : IsTop(m)' <=> IsTop(m)
         /\ \A m \in Nodes : InForce(m)' <=> InForce(m)
  BY DEF BoundIsTop, TopIsBound, IsTop, InForce

LEMMA TestKeeps ==
  ASSUME IInv, life' = life, NEW t \in Threads, Test(t)
  PROVE  StepKeeps(t)
  <1> USE DEF IInv
  <1>1. call[t].at = "test" /\ call[t].node \in Nodes
    BY DEF Test, ParsedInv, InCall
  <1>2. UNCHANGED <<isBound, stack, torn, covered>>
    BY DEF Test
  <1>3. setBind' \in [Nodes -> {0, 1, 100}]
    BY <1>1 DEF Test, TypeOK, Taken
  <1>4. Return(t) \/ GoTo(t, "push") \/ GoTo(t, "pop")
    BY DEF Test
  <1>5. /\ Moved(t)
        /\ \A u \in Threads : call'[u].held \in {call[u].held, stack, <<>>}
        /\ call'[t].at \in {"out", "push", "pop"}
    <2>1. CASE Return(t)
      BY <2>1, ReturnEffect DEF NoCall
    <2>2. CASE GoTo(t, "push")
      BY <2>2, GoToEffect DEF Labels
    <2>3. CASE GoTo(t, "pop")
      BY <2>3, GoToEffect DEF Labels
    <2> QED BY <1>4, <2>1, <2>2, <2>3
  <1>6. Typed(t) /\ (clash => Suspect)
    BY <1>2, <1>3, <1>5, ReadingKeeps
  <1>7. ASSUME ~clash PROVE Agreed(t)
    <2>1. BoundIsTop' /\ TopIsBound'
      BY <1>1, <1>2, <1>7, SameAgreement DEF AloneInv, Alone, InCall
    <2> QED BY <1>5, <2>1 DEF Agreed, Alone
  <1> QED BY <1>6, <1>7 DEF StepKeeps

LEMMA PushKeeps ==
  ASSUME IInv, life' = life, NEW t \in Threads, Push(t)
  PROVE  StepKeeps(t)
  <1> USE DEF IInv
  <1> DEFINE n == call[t].node
  <1>1. /\ call[t].at = "push" /\ n \in Nodes
        /\ Bind(n) /\ GoTo(t, "over") /\ stack' = stack
    BY DEF Push, ParsedInv, InCall
  <1>2. covered' = ~clash
    BY DEF Push
  <1>3. /\ Moved(t) /\ call'[t].at = "over" /\ call'[t].node = n
        /\ \A u \in Threads : call'[u].held = call[u].held
    BY <1>1, GoToEffect DEF Labels, Moved, NoCall
  <1> HIDE DEF n
  <1>4. /\ isBound' \in [Nodes -> BOOLEAN]
        /\ \A m \in Nodes : isBound'[m] <=> m = n \/ isBound[m]
        /\ setBind' \in [Nodes -> {0, 1, 100}]
        /\ torn' \subseteq Nodes
        /\ clash => torn' = torn \cup {n}
        /\ ~clash => torn' = torn \ {n}
    BY <1>1, BindEffect
  <1>5. covered' \in BOOLEAN
    BY <1>2 DEF TypeOK
  <1>6. Typed(t)
    BY <1>1, <1>3, <1>4, <1>5 DEF TypeOK, ParsedInv, Typed
  <1>7. clash => Suspect
    BY <1>2, <1>4 DEF ClashInv, Suspect
  <1>8. ASSUME ~clash PROVE Agreed(t)
    <2>1. BoundIsTop
      BY <1>1, <1>8 DEF AloneInv, Alone, InCall
    <2>2. \A m \in Nodes : InForce(m)' => m = n \/ IsTop(m)'
      BY <1>1, <1>4, <1>8, <2>1 DEF InForce, BoundIsTop, IsTop
    <2>3. isBound'[n]
      BY <1>1, <1>4
    <2> QED BY <1>3, <2>2, <2>3 DEF Agreed, Alone
  <1> QED BY <1>6, <1>7, <1>8 DEF StepKeeps

LEMMA OverKeeps ==
  ASSUME IInv, life' = life, NEW t \in Threads, Over(t)
  PROVE  StepKeeps(t)
  <1> USE DEF IInv
  <1> DEFINE n == call[t].node
  <1>1. call[t].at = "over" /\ n \in Nodes
    BY DEF Over, ParsedInv, InCall
  <1>2. UNCHANGED <<setBind, isBound, stack, torn, covered>>
    BY DEF Over
  <1>3. \/ /\ stack = <<>> /\ call'[t].at = "put"
        \/ IsTop(n) /\ call'[t].at = "out"
        \/ /\ stack # <<>> /\ Last(stack) # n
           /\ call'[t].at = "cover" /\ call'[t].old = Last(stack)
    <2>1. CASE stack = <<>> /\ GoTo(t, "put")
      BY <2>1, GoToEffect DEF Labels
    <2>2. CASE IsTop(n) /\ Return(t)
      BY <2>2, ReturnEffect DEF NoCall
    <2>3. CASE /\ stack # <<>> /\ Last(stack) # n
               /\ call' = [call EXCEPT ![t].at = "cover", ![t].old = Last(stack)]
               /\ UNCHANGED clash
      <3>1. Last(stack) \in Nodes
        BY <2>3, EndOfList DEF TypeOK
      <3> QED BY <2>3, <3>1, OldEffect DEF Labels
    <2> QED BY <2>1, <2>2, <2>3 DEF Over
  <1>4. /\ Moved(t)
        /\ \A u \in Threads : call'[u].held \in {call[u].held, stack, <<>>}
    <2>1. CASE GoTo(t, "put")
      BY <2>1, GoToEffect DEF Labels
    <2>2. CASE Return(t)
      BY <2>2, ReturnEffect DEF NoCall
    <2>3. CASE /\ stack # <<>>
               /\ call' = [call EXCEPT ![t].at = "cover", ![t].old = Last(stack)]
               /\ UNCHANGED clash
      <3>1. Last(stack) \in Nodes
        BY <2>3, EndOfList DEF TypeOK
      <3> QED BY <2>3, <3>1, OldEffect DEF Labels
    <2> QED BY <2>1, <2>2, <2>3 DEF Over
  <1>5. Typed(t) /\ (clash => Suspect)
    BY <1>2, <1>3, <1>4, ReadingKeeps DEF TypeOK
  <1>6. ASSUME ~clash PROVE Agreed(t)
    <2>1. /\ \A m \in Nodes : InForce(m) => m = n \/ IsTop(m)
          /\ covered => isBound[n]
      BY <1>1, <1>6 DEF AloneInv, Alone, InCall
    <2>2. call'[t].at # "out" => call'[t].node = n
      BY <1>4 DEF Moved, NoCall
    <2>3. \A m \in Nodes : (IsTop(m)' <=> IsTop(m)) /\ (InForce(m)' <=> InForce(m))
      BY <1>2, SameAgreement
    <2> HIDE DEF n
    <2>4. CASE stack = <<>> /\ call'[t].at = "put"
      BY <1>2, <2>1, <2>2, <2>3, <2>4 DEF Agreed, Alone, IsTop
    <2>5. CASE IsTop(n) /\ call'[t].at = "out"
      <3>1. BoundIsTop /\ TopIsBound
        BY <2>1, <2>5 DEF BoundIsTop, TopIsBound, InForce, IsTop
      <3> QED BY <1>2, <2>5, <3>1, SameAgreement DEF Agreed
    <2>6. CASE /\ stack # <<>> /\ Last(stack) # n
               /\ call'[t].at = "cover" /\ call'[t].old = Last(stack)
      <3>1. /\ stack' # <<>> /\ Last(stack') = call'[t].old
            /\ call'[t].old # n
        BY <1>2, <2>6
      <3> QED BY <1>2, <2>1, <2>2, <2>6, <3>1 DEF Agreed, Alone, IsTop, InForce
    <2> QED BY <1>3, <2>4, <2>5, <2>6 DEF n
  <1> QED BY <1>5, <1>6 DEF StepKeeps

LEMMA CoverKeeps ==
  ASSUME IInv, life' = life, NEW t \in Threads, Cover(t)
  PROVE  StepKeeps(t)
  <1> USE DEF IInv
  <1> DEFINE n == call[t].node
             o == call[t].old
  <1>1. /\ call[t].at = "cover" /\ o \in Nodes /\ n \in Nodes
        /\ Unbind(o) /\ GoTo(t, "put") /\ UNCHANGED <<stack, covered>>
    BY DEF Cover, ParsedInv, InCall
  <1>2. /\ Moved(t) /\ call'[t].at = "put" /\ call'[t].node = n
        /\ \A u \in Threads : call'[u].held = call[u].held
    BY <1>1, GoToEffect DEF Labels, Moved, NoCall
  <1>3. ASSUME ~clash
        PROVE  /\ \A m \in Nodes : InForce(m) => m = n \/ IsTop(m)
               /\ covered => isBound[n]
               /\ IsTop(o) /\ o # n
    BY <1>1, <1>3 DEF AloneInv, Alone, InCall
  <1> HIDE DEF n, o
  <1>4. /\ isBound' \in [Nodes -> BOOLEAN]
        /\ \A m \in Nodes : isBound'[m] <=> m # o /\ isBound[m]
        /\ setBind' \in [Nodes -> {0, 1, 100}]
        /\ torn' = torn \ {o} /\ torn' \subseteq Nodes
    BY <1>1, UnbindEffect
  <1>5. Typed(t)
    BY <1>1, <1>2, <1>4 DEF TypeOK, ParsedInv, Typed
  <1>6. clash => Suspect
    BY <1>1, <1>4 DEF ClashInv, Suspect
  <1>7. ASSUME ~clash PROVE Agreed(t)
    <2>1. \A m \in Nodes : InForce(m)' => m = n
      BY <1>1, <1>3, <1>4, <1>7 DEF InForce, IsTop
    <2>2. covered' => isBound'[n]
      BY <1>1, <1>3, <1>4, <1>7
    <2> QED BY <1>2, <2>1, <2>2 DEF Agreed, Alone
  <1> QED BY <1>5, <1>6, <1>7 DEF StepKeeps

LEMMA LoadKeeps ==
  ASSUME IInv, life' = life, NEW t \in Threads, Load(t)
  PROVE  StepKeeps(t)
  <1> USE DEF IInv
  <1> DEFINE n == call[t].node
             step == IF call[t].at = "put" THEN "store" ELSE "drop"
  <1>1. /\ call[t].at \in {"put", "take"}
        /\ call' = [call EXCEPT ![t].held = stack, ![t].at = step]
        /\ UNCHANGED <<clash, setBind, isBound, stack, torn, covered>>
    BY DEF Load, TypeOK, Calls
  <1>2. call \in [Threads -> Calls] /\ stack \in Seq(Nodes) /\ step \in Labels
    BY DEF TypeOK, Labels
  <1>3. call' \in [Threads -> Calls]
    BY <1>1, <1>2 DEF Calls
  <1>4. /\ call'[t].at = step /\ call'[t].held = stack
        /\ call'[t].node = n
        /\ \A u \in Threads \ {t} : call'[u] = call[u]
    BY <1>1, <1>2 DEF Calls
  <1>5. step \in {"store", "drop"}
    OBVIOUS
  <1>6. Moved(t)
    BY <1>1, <1>3, <1>4, <1>5 DEF Moved
  <1>7. Typed(t) /\ (clash => Suspect)
    BY <1>1, <1>4, <1>5, <1>6, ReadingKeeps DEF TypeOK
  <1>8. ASSUME ~clash PROVE Agreed(t)
    <2>1. \A m \in Nodes : InForce(m)' <=> InForce(m)
      BY <1>1, SameAgreement
    <2>2. CASE call[t].at = "put"
      <3>1. /\ \A m \in Nodes : InForce(m) => m = n
            /\ covered => isBound[n]
        BY <1>8, <2>2 DEF AloneInv, Alone, InCall
      <3>2. call'[t].at = "store"
        BY <1>4, <2>2
      <3> HIDE DEF n, step
      <3> QED BY <1>1, <1>4, <2>1, <3>1, <3>2 DEF Agreed, Alone
    <2>3. CASE call[t].at = "take"
      <3>1. \A m \in Nodes : ~InForce(m)
        BY <1>8, <2>3 DEF AloneInv, Alone, InCall
      <3>2. call'[t].at = "drop"
        BY <1>4, <2>3
      <3> HIDE DEF n, step
      <3> QED BY <1>1, <1>4, <2>1, <3>1, <3>2 DEF Agreed, Alone
    <2> QED BY <1>1, <2>2, <2>3
  <1> QED BY <1>7, <1>8 DEF StepKeeps

LEMMA PlacedNodes ==
  ASSUME NEW s \in Seq(Nodes), NEW k, NEW n \in Nodes
  PROVE  /\ Placed(s, k, n) \in Seq(Nodes)
         /\ \A i \in DOMAIN Placed(s, k, n) :
              \/ Placed(s, k, n)[i] = n
              \/ i \in DOMAIN s /\ Placed(s, k, n)[i] = s[i]
  BY DEF Placed

LEMMA StoreKeeps ==
  ASSUME IInv, life' = life, NEW t \in Threads, Store(t)
  PROVE  StepKeeps(t)
  <1> USE DEF IInv
  <1> DEFINE n == call[t].node
             h == call[t].held
             k == Len(h) + 1
             r == [call[t] EXCEPT !.held = Append(@, n), !.at = "grow"]
             q(u) == [call[u] EXCEPT !.held = Placed(@, k, n)]
  <1>1. /\ call[t].at = "store" /\ n \in Nodes /\ life[n] # "new"
        /\ stack' = Placed(stack, k, n)
        /\ call' = [u \in Threads |-> IF u = t THEN r ELSE q(u)]
        /\ UNCHANGED <<clash, setBind, isBound, torn, covered>>
    BY DEF Store, ParsedInv, InCall
  <1>2. /\ h \in Seq(Nodes) /\ stack \in Seq(Nodes)
        /\ \A u \in Threads : call[u] \in Calls /\ call[u].held \in Seq(Nodes)
    BY CallType DEF TypeOK
  <1>3. /\ r \in Calls /\ r.at = "grow" /\ r.node = n
        /\ r.held = Append(h, n)
    <2>1. Append(h, n) \in Seq(Nodes) /\ "grow" \in Labels
      BY <1>1, <1>2 DEF Labels
    <2>2. r = [call[t] EXCEPT !.held = Append(h, n), !.at = "grow"]
      OBVIOUS
    <2>3. call[t] \in Calls
      BY <1>2
    <2> HIDE DEF r, h
    <2>4. r \in Calls /\ r.at = "grow" /\ r.node = call[t].node
          /\ r.held = Append(h, n)
      BY <2>1, <2>2, <2>3 DEF Calls
    <2> QED BY <2>4
  <1>4. ASSUME NEW u \in Threads
        PROVE  /\ q(u) \in Calls
               /\ q(u).at = call[u].at /\ q(u).node = call[u].node
               /\ q(u).old = call[u].old
               /\ q(u).held = Placed(call[u].held, k, n)
    <2>1. Placed(call[u].held, k, n) \in Seq(Nodes)
      BY <1>1, <1>2, PlacedNodes
    <2> QED BY <1>2, <2>1 DEF Calls
  <1>5. /\ call' \in [Threads -> Calls]
        /\ call'[t].at = "grow" /\ call'[t].node = n
        /\ call'[t].held = Append(h, n)
        /\ \A u \in Threads \ {t} :
             /\ call'[u].at = call[u].at /\ call'[u].node = call[u].node
             /\ call'[u].old = call[u].old
             /\ call'[u].held = Placed(call[u].held, k, n)
    <2> HIDE DEF r, q, n, h, k
    <2> QED BY <1>1, <1>3, <1>4
  <1>6. Moved(t)
    BY <1>1, <1>5 DEF Moved
  <1> HIDE DEF r, q
  <1>7. /\ stack' \in Seq(Nodes)
        /\ \A i \in DOMAIN stack' : life[stack'[i]] # "new"
    <2> HIDE DEF n, k
    <2> QED BY <1>1, <1>2, PlacedNodes DEF ParsedInv
  <1>8. ASSUME NEW u \in Threads, NEW i \in DOMAIN call'[u].held
        PROVE  life[call'[u].held[i]] # "new"
    <2>1. \A j \in DOMAIN call[u].held : life[call[u].held[j]] # "new"
      BY DEF ParsedInv
    <2>2. CASE u = t
      <3>1. \/ i \in DOMAIN h /\ Append(h, n)[i] = h[i]
            \/ Append(h, n)[i] = n
        <4>1. i \in DOMAIN Append(h, n)
          BY <1>5, <1>8, <2>2
        <4> HIDE DEF h, n
        <4> QED BY ONLY <1>1, <1>2, <4>1
      <3> QED BY <1>1, <1>5, <2>1, <2>2, <3>1
    <2>3. CASE u # t
      <3>1. call'[u].held = Placed(call[u].held, k, n)
        BY <1>5, <2>3
      <3> HIDE DEF n, k
      <3> QED BY <1>1, <1>2, <1>8, <2>1, <3>1, PlacedNodes
    <2> QED BY <2>2, <2>3
  <1>9. Typed(t)
    <2> HIDE DEF n, h, k
    <2> QED BY <1>1, <1>5, <1>6, <1>7, <1>8 DEF TypeOK, Typed
  <1>10. clash => Suspect
    BY <1>1 DEF ClashInv, Suspect
  <1>11. ASSUME ~clash PROVE Agreed(t)
    <2>1. /\ \A m \in Nodes : InForce(m) => m = n
          /\ covered => isBound[n]
      BY <1>1, <1>11 DEF AloneInv, Alone, InCall
    <2>2. \A m \in Nodes : InForce(m)' => InForce(m)
      BY <1>1 DEF InForce
    <2>3. Append(h, n) # <<>> /\ Last(Append(h, n)) = n
      BY <1>1, <1>2, LastOfAppend
    <2> HIDE DEF n, h, k
    <2> QED BY <1>1, <1>5, <2>1, <2>2, <2>3 DEF Agreed, Alone
  <1> QED BY <1>9, <1>10, <1>11 DEF StepKeeps

LEMMA GrowKeeps ==
  ASSUME IInv, life' = life, NEW t \in Threads, Grow(t)
  PROVE  StepKeeps(t)
  <1> USE DEF IInv
  <1> DEFINE n == call[t].node
             h == call[t].held
  <1>1. /\ call[t].at = "grow" /\ stack' = h /\ Return(t)
        /\ UNCHANGED <<setBind, isBound, torn, covered>>
    BY DEF Grow
  <1>2. /\ h \in Seq(Nodes)
        /\ \A i \in DOMAIN h : life[h[i]] # "new"
    BY CallType DEF ParsedInv
  <1>3. /\ Moved(t) /\ call'[t] = NoCall
        /\ \A u \in Threads \ {t} : call'[u] = call[u]
    BY <1>1, ReturnEffect
  <1>4. call'[t].at = "out" /\ call'[t].held = <<>>
    BY <1>3 DEF NoCall
  <1>5. ASSUME ~clash
        PROVE  /\ \A m \in Nodes : InForce(m) => m = n
               /\ covered => isBound[n]
               /\ h # <<>> /\ Last(h) = n
    BY <1>1, <1>5 DEF AloneInv, Alone, InCall
  <1> HIDE DEF n, h
  <1>6. ASSUME NEW u \in Threads, NEW i \in DOMAIN call'[u].held
        PROVE  life[call'[u].held[i]] # "new"
    BY <1>3, <1>4, <1>6 DEF ParsedInv
  <1>7. Typed(t)
    BY <1>1, <1>2, <1>3, <1>4, <1>6 DEF TypeOK, Typed
  <1>8. clash => Suspect
    BY <1>1 DEF ClashInv, Suspect
  <1>9. ASSUME ~clash PROVE Agreed(t)
    <2>1. \A m \in Nodes : InForce(m)' => m = n
      BY <1>1, <1>5, <1>9 DEF InForce
    <2>2. BoundIsTop' /\ TopIsBound'
      BY <1>1, <1>5, <1>9, <2>1 DEF BoundIsTop, TopIsBound, InForce, IsTop
    <2> QED BY <1>4, <2>2 DEF Agreed
  <1> QED BY <1>7, <1>8, <1>9 DEF StepKeeps

LEMMA PopKeeps ==
  ASSUME IInv, life' = life, NEW t \in Threads, Pop(t)
  PROVE  StepKeeps(t)
  <1> USE DEF IInv
  <1> DEFINE n == call[t].node
  <1>1. /\ call[t].at = "pop" /\ n \in Nodes
        /\ Unbind(n) /\ GoTo(t, "under") /\ UNCHANGED <<stack, covered>>
    BY DEF Pop, ParsedInv, InCall
  <1>2. /\ Moved(t) /\ call'[t].at = "under" /\ call'[t].node = n
        /\ \A u \in Threads : call'[u].held = call[u].held
    BY <1>1, GoToEffect DEF Labels, Moved, NoCall
  <1>3. ~clash => BoundIsTop /\ TopIsBound
    BY <1>1 DEF AloneInv, Alone, InCall
  <1> HIDE DEF n
  <1>4. /\ isBound' \in [Nodes -> BOOLEAN]
        /\ \A m \in Nodes : isBound'[m] <=> m # n /\ isBound[m]
        /\ setBind' \in [Nodes -> {0, 1, 100}]
        /\ torn' = torn \ {n} /\ torn' \subseteq Nodes
    BY <1>1, UnbindEffect
  <1>5. Typed(t)
    BY <1>1, <1>2, <1>4 DEF TypeOK, ParsedInv, Typed
  <1>6. clash => Suspect
    BY <1>1, <1>4 DEF ClashInv, Suspect
  <1>7. ASSUME ~clash PROVE Agreed(t)
    <2>1. \A m \in Nodes : InForce(m)' => IsTop(m)' /\ m # n
      BY <1>1, <1>3, <1>4, <1>7 DEF InForce, BoundIsTop, IsTop
    <2>2. covered' /\ stack' # <<>> => Last(stack') = n \/ isBound'[Last(stack')]
      <3>1. stack # <<>> => Last(stack) \in Nodes
        BY EndOfList DEF TypeOK
      <3> QED BY <1>1, <1>3, <1>4, <1>7, <3>1 DEF TopIsBound, IsTop
    <2> QED BY <1>2, <2>1, <2>2 DEF Agreed, Alone, IsTop
  <1> QED BY <1>5, <1>6, <1>7 DEF StepKeeps

LEMMA UnderKeeps ==
  ASSUME IInv, life' = life, NEW t \in Threads, Under(t)
  PROVE  StepKeeps(t)
  <1> USE DEF IInv
  <1> DEFINE n == call[t].node
  <1>1. /\ call[t].at = "under"
        /\ \/ IsTop(n) /\ GoTo(t, "take")
           \/ ~IsTop(n) /\ Return(t)
        /\ UNCHANGED <<setBind, isBound, stack, torn, covered>>
    BY DEF Under
  <1>2. /\ Moved(t)
        /\ \A u \in Threads : call'[u].held \in {call[u].held, stack, <<>>}
        /\ \/ IsTop(n) /\ call'[t].at = "take"
           \/ ~IsTop(n) /\ call'[t].at = "out"
    <2>1. CASE IsTop(n) /\ GoTo(t, "take")
      BY <2>1, GoToEffect DEF Labels
    <2>2. CASE ~IsTop(n) /\ Return(t)
      BY <2>2, ReturnEffect DEF NoCall
    <2> QED BY <1>1, <2>1, <2>2
  <1>3. Typed(t) /\ (clash => Suspect)
    BY <1>1, <1>2, ReadingKeeps DEF TypeOK
  <1>4. ASSUME ~clash PROVE Agreed(t)
    <2>1. /\ \A m \in Nodes : InForce(m) => IsTop(m) /\ m # n
          /\ covered /\ stack # <<>> => IsTop(n) \/ isBound[Last(stack)]
      BY <1>1, <1>4 DEF AloneInv, Alone, InCall
    <2>2. \A m \in Nodes : InForce(m)' <=> InForce(m)
      BY <1>1, SameAgreement
    <2> HIDE DEF n
    <2>3. CASE IsTop(n) /\ call'[t].at = "take"
      <3>1. \A m \in Nodes : ~InForce(m)
        BY <2>1, <2>3 DEF IsTop
      <3> QED BY <2>2, <2>3, <3>1 DEF Agreed, Alone
    <2>4. CASE ~IsTop(n) /\ call'[t].at = "out"
      <3>1. BoundIsTop /\ TopIsBound
        BY <2>1, <2>4 DEF BoundIsTop, TopIsBound, InForce
      <3> QED BY <1>1, <2>4, <3>1, SameAgreement DEF Agreed
    <2> QED BY <1>2, <2>3, <2>4 DEF n
  <1> QED BY <1>3, <1>4 DEF StepKeeps

LEMMA DropKeeps ==
  ASSUME IInv, life' = life, NEW t \in Threads, Drop(t)
  PROVE  StepKeeps(t)
  <1> USE DEF IInv
  <1> DEFINE h == call[t].held
  <1>1. /\ call[t].at = "drop" /\ GoTo(t, "below")
        /\ stack' = IF h = <<>> THEN <<>> ELSE Front(h)
        /\ UNCHANGED <<setBind, isBound, torn, covered>>
    BY DEF Drop
  <1>2. /\ h \in Seq(Nodes)
        /\ \A i \in DOMAIN h : life[h[i]] # "new"
    BY CallType DEF ParsedInv
  <1>3. /\ Moved(t) /\ call'[t].at = "below"
        /\ \A u \in Threads : call'[u].held = call[u].held
    BY <1>1, GoToEffect DEF Labels
  <1>4. ~clash => \A m \in Nodes : ~InForce(m)
    BY <1>1 DEF AloneInv, Alone, InCall
  <1> HIDE DEF h
  <1>5. /\ stack' \in Seq(Nodes)
        /\ \A i \in DOMAIN stack' : life[stack'[i]] # "new"
    <2>1. CASE h = <<>>
      BY <1>1, <2>1
    <2>2. CASE h # <<>>
      BY <1>1, <1>2, <2>2, EndOfList
    <2> QED BY <2>1, <2>2
  <1>6. Typed(t)
    BY <1>1, <1>3, <1>5 DEF TypeOK, ParsedInv, Typed
  <1>7. clash => Suspect
    BY <1>1 DEF ClashInv, Suspect
  <1>8. ASSUME ~clash PROVE Agreed(t)
    <2>1. \A m \in Nodes : ~InForce(m)'
      BY <1>1, <1>4, <1>8 DEF InForce
    <2> QED BY <1>3, <2>1 DEF Agreed, Alone
  <1> QED BY <1>6, <1>7, <1>8 DEF StepKeeps

LEMMA BelowKeeps ==
  ASSUME IInv, life' = life, NEW t \in Threads, Below(t)
  PROVE  StepKeeps(t)
  <1> USE DEF IInv
  <1>1. /\ call[t].at = "below"
        /\ UNCHANGED <<setBind, isBound, stack, torn, covered>>
    BY DEF Below
  <1>2. /\ Moved(t)
        /\ \A u \in Threads : call'[u].held \in {call[u].held, stack, <<>>}
        /\ \/ stack = <<>> /\ call'[t].at = "out"
           \/ /\ stack # <<>>
              /\ call'[t].at = "uncover" /\ call'[t].old = Last(stack)
    <2>1. CASE stack = <<>> /\ Return(t)
      BY <2>1, ReturnEffect DEF NoCall
    <2>2. CASE /\ stack # <<>>
               /\ call' = [call EXCEPT ![t].at = "uncover", ![t].old = Last(stack)]
               /\ UNCHANGED clash
      <3>1. Last(stack) \in Nodes
        BY <2>2, EndOfList DEF TypeOK
      <3> QED BY <2>2, <3>1, OldEffect DEF Labels
    <2> QED BY <2>1, <2>2 DEF Below
  <1>3. Typed(t) /\ (clash => Suspect)
    BY <1>1, <1>2, ReadingKeeps DEF TypeOK
  <1>4. ASSUME ~clash PROVE Agreed(t)
    <2>1. \A m \in Nodes : ~InForce(m)
      BY <1>1, <1>4 DEF AloneInv, Alone, InCall
    <2>2. \A m \in Nodes : InForce(m)' <=> InForce(m)
      BY <1>1, SameAgreement
    <2>3. CASE stack = <<>> /\ call'[t].at = "out"
      BY <1>1, <2>1, <2>3 DEF Agreed, BoundIsTop, TopIsBound, InForce, IsTop
    <2>4. CASE /\ stack # <<>>
               /\ call'[t].at = "uncover" /\ call'[t].old = Last(stack)
      <3>1. stack' # <<>> /\ Last(stack') = call'[t].old
        BY <1>1, <2>4
      <3> QED BY <2>1, <2>2, <2>4, <3>1 DEF Agreed, Alone, IsTop
    <2> QED BY <1>2, <2>3, <2>4
  <1> QED BY <1>3, <1>4 DEF StepKeeps

LEMMA UncoverKeeps ==
  ASSUME IInv, life' = life, NEW t \in Threads, Uncover(t)
  PROVE  StepKeeps(t)
  <1> USE DEF IInv
  <1> DEFINE o == call[t].old
  <1>1. /\ call[t].at = "uncover" /\ o \in Nodes
        /\ Bind(o) /\ Return(t) /\ UNCHANGED <<stack, covered>>
    BY DEF Uncover, ParsedInv
  <1>2. /\ Moved(t) /\ call'[t] = NoCall
        /\ \A u \in Threads \ {t} : call'[u] = call[u]
    BY <1>1, ReturnEffect
  <1>3. call'[t].at = "out" /\ call'[t].held = <<>>
    BY <1>2 DEF NoCall
  <1>4. ~clash => (\A m \in Nodes : ~InForce(m)) /\ IsTop(o)
    BY <1>1 DEF AloneInv, Alone, InCall
  <1> HIDE DEF o
  <1>5. /\ isBound' \in [Nodes -> BOOLEAN]
        /\ \A m \in Nodes : isBound'[m] <=> m = o \/ isBound[m]
        /\ setBind' \in [Nodes -> {0, 1, 100}]
        /\ torn' \subseteq Nodes
        /\ clash => torn' = torn \cup {o}
        /\ ~clash => torn' = torn \ {o}
    BY <1>1, BindEffect
  <1>6. ASSUME NEW u \in Threads, NEW i \in DOMAIN call'[u].held
        PROVE  life[call'[u].held[i]] # "new"
    BY <1>2, <1>3, <1>6 DEF ParsedInv
  <1>7. Typed(t)
    BY <1>1, <1>2, <1>3, <1>5, <1>6 DEF TypeOK, ParsedInv, Typed
  <1>8. clash => Suspect
    BY <1>1, <1>5 DEF ClashInv, Suspect
  <1>9. ASSUME ~clash PROVE Agreed(t)
    <2>1. \A m \in Nodes : InForce(m)' => m = o
      BY <1>4, <1>5, <1>9 DEF InForce
    <2>2. isBound'[o] /\ stack' # <<>> /\ Last(stack') = o
      BY <1>1, <1>4, <1>5, <1>9 DEF IsTop
    <2>3. BoundIsTop' /\ TopIsBound'
      BY <2>1, <2>2 DEF BoundIsTop, TopIsBound, InForce, IsTop
    <2> QED BY <1>3, <2>3 DEF Agreed
  <1> QED BY <1>7, <1>8, <1>9 DEF StepKeeps

LEMMA BindNodeKeepsIInv ==
  ASSUME IInv, NEW t \in Threads, BindNode(t)
  PROVE  IInv'
  <1> USE DEF IInv
  <1>1. UNCHANGED <<life, viewpoints, toBind, parser, hasRoot, root, next, phase,
                    doEvents>>
    BY DEF BindNode, parserVars
  <1>2. StepKeeps(t) /\ InCall(t)
    <2>1. CASE Test(t) \/ Push(t) \/ Over(t) \/ Cover(t)
      BY <1>1, <2>1, TestKeeps, PushKeeps, OverKeeps, CoverKeeps
         DEF Test, Push, Over, Cover, InCall
    <2>2. CASE Load(t) \/ Store(t) \/ Grow(t)
      BY <1>1, <2>2, LoadKeeps, StoreKeeps, GrowKeeps
         DEF Load, Store, Grow, InCall
    <2>3. CASE Pop(t) \/ Under(t) \/ Drop(t) \/ Below(t) \/ Uncover(t)
      BY <1>1, <2>3, PopKeeps, UnderKeeps, DropKeeps, BelowKeeps, UncoverKeeps
         DEF Pop, Under, Drop, Below, Uncover, InCall
    <2> QED BY <2>1, <2>2, <2>3 DEF BindNode
  <1>3. Typed(t) /\ (clash => Suspect) /\ (~clash => Agreed(t)) /\ Moved(t)
    BY <1>2 DEF StepKeeps, Typed
  <1>4. /\ \A u \in Threads \ {t} : InCall(u)' <=> InCall(u)
        /\ \/ InCall(t)' /\ call'[t].node = call[t].node /\ clash' = clash
           \/ ~InCall(t)' /\ clash' = (clash /\ InCall(Other(t)))
        /\ InCall(t)' <=> call'[t].at # "out"
    BY <1>3 DEF Moved, InCall, NoCall
  <1>5. TypeOK'
    BY <1>1, <1>3, <1>4 DEF TypeOK, Typed, Moved
  <1>6. RegisteredAlive'
    BY <1>1 DEF RegisteredAlive, Registered
  <1>7. ParsedInv'
    <2>1. ASSUME NEW u \in Threads
          PROVE  /\ InCall(u)' => /\ call'[u].node \in Nodes
                                 /\ life[call'[u].node] # "new"
                 /\ call'[u].at \in {"cover", "uncover"} =>
                      call'[u].old \in Nodes /\ life[call'[u].old] # "new"
      <3>1. CASE u = t
        BY <1>2, <1>3, <1>4, <3>1 DEF ParsedInv, Typed
      <3>2. CASE u # t
        BY <1>3, <1>4, <3>2 DEF ParsedInv, Moved
      <3> QED BY <3>1, <3>2
    <2>2. Registered' = Registered
      BY <1>1 DEF Registered
    <2> QED BY <1>1, <1>3, <2>1, <2>2 DEF ParsedInv, Typed
  <1>8. ParserInv'
    BY <1>1, <1>2, <1>4 DEF ParserInv, Threads
  <1>9. \A u \in Threads : u # t => (InCall(u)' => InCall(u) /\ clash)
    BY <1>2, <1>4 DEF ClashInv, Threads
  <1>10. ClashInv'
    <2>1. ASSUME InCall("main")', InCall("parser")' PROVE clash'
      BY <1>4, <1>9, <2>1 DEF Threads
    <2>2. ASSUME clash' PROVE Suspect
      BY <1>3, <1>4, <2>2
    <2> QED BY <2>1, <2>2 DEF ClashInv, Suspect
  <1>11. AloneInv'
    <2> SUFFICES ASSUME NEW u \in Threads, InCall(u)', ~clash'
                 PROVE  Alone(u)'
      BY DEF AloneInv
    <2>1. CASE u = t
      BY <1>3, <1>4, <2>1 DEF Agreed
    <2>2. CASE u # t
      <3>1. InCall(Other(t)) /\ clash
        BY <1>9, <2>2, OtherThread
      <3> QED BY <1>4, <3>1
    <2> QED BY <2>1, <2>2
  <1>12. BindMatchesStack'
    <2> SUFFICES ASSUME \A u \in Threads : ~InCall(u)'
                 PROVE  BoundIsTop' /\ TopIsBound'
      BY DEF BindMatchesStack
    <2>1. CASE clash
      BY <1>3, <2>1 DEF Suspect, BoundIsTop, TopIsBound
    <2>2. CASE ~clash
      BY <1>3, <1>4, <2>2 DEF Agreed
    <2> QED BY <2>1, <2>2
  <1> QED BY <1>5, <1>6, <1>7, <1>8, <1>10, <1>11, <1>12

-----------------------------------------------------------------------------
(* The other steps. *)

\* A call begins.
LEMMA BeginKeepsIInv ==
  ASSUME IInv, NEW t \in Threads, ~InCall(t), NEW n \in Nodes, life[n] # "new",
         NEW v \in {0, 1, 100}, Begin(t, n, v),
         toBind' = toBind, UNCHANGED <<parser, hasRoot, root, doEvents>>,
         t = "parser" => parser = "unbind",
         next' = next \/ next' = next + 1,
         phase' \in {"start", "nodes", "clear", "anchor", phase}
  PROVE  IInv'
  <1> USE DEF IInv
  <1> DEFINE r == CallOf(n)
  <1>1. /\ UNCHANGED <<life, viewpoints, isBound, stack>>
        /\ setBind' = [setBind EXCEPT ![n] = v]
        /\ call' = [call EXCEPT ![t] = r]
        /\ clash' = InCall(Other(t))
        /\ torn' = IF clash' THEN {m \in Nodes : isBound[m]} ELSE torn
        /\ covered' = (covered /\ ~clash')
    BY DEF Begin
  <1>2. /\ r \in Calls /\ r.at = "test" /\ r.node = n /\ r.held = <<>>
    <2>1. <<>> \in Seq(Nodes) /\ "test" \in Labels
      BY DEF Labels
    <2> QED BY <2>1 DEF CallOf, Calls
  <1>3. call \in [Threads -> Calls]
    BY DEF TypeOK
  <1> HIDE DEF r
  <1>4. /\ call' \in [Threads -> Calls]
        /\ call'[t].at = "test" /\ call'[t].node = n /\ call'[t].held = <<>>
        /\ \A u \in Threads \ {t} : call'[u] = call[u]
    BY <1>1, <1>2, <1>3
  <1>5. /\ InCall(t)'
        /\ \A u \in Threads \ {t} : InCall(u)' <=> InCall(u)
    BY <1>4 DEF InCall
  <1>6. TypeOK'
    <2>1. setBind' \in [Nodes -> {0, 1, 100}]
      BY <1>1 DEF TypeOK
    <2>2. clash' \in BOOLEAN /\ covered' \in BOOLEAN /\ torn' \subseteq Nodes
      BY <1>1 DEF TypeOK, InCall
    <2> QED BY <1>1, <1>4, <2>1, <2>2 DEF TypeOK
  <1>7. RegisteredAlive'
    BY <1>1 DEF RegisteredAlive, Registered
  <1>8. ParsedInv'
    <2>1. Registered' = Registered
      BY <1>1 DEF Registered
    <2>2. ASSUME NEW u \in Threads
          PROVE  /\ InCall(u)' => /\ call'[u].node \in Nodes
                                 /\ life[call'[u].node] # "new"
                 /\ call'[u].at \in {"cover", "uncover"} =>
                      call'[u].old \in Nodes /\ life[call'[u].old] # "new"
                 /\ \A i \in DOMAIN call'[u].held :
                      life[call'[u].held[i]] # "new"
      <3>1. CASE u = t
        BY <1>4, <3>1
      <3>2. CASE u # t
        BY <1>4, <1>5, <3>2 DEF ParsedInv
      <3> QED BY <3>1, <3>2
    <2> QED BY <1>1, <2>1, <2>2 DEF ParsedInv
  <1>9. ParserInv'
    <2>1. InCall("parser")' => parser = "unbind"
      BY <1>5 DEF ParserInv, Threads
    <2>2. next' >= 1
      BY DEF ParserInv, TypeOK
    <2> QED BY <1>1, <2>1, <2>2 DEF ParserInv
  <1>10. ClashInv'
    <2>1. ASSUME InCall("main")', InCall("parser")' PROVE clash'
      BY <1>1, <1>5, <2>1, OtherThread DEF Threads
    <2> QED BY <1>1, <2>1 DEF ClashInv
  <1>11. AloneInv'
    <2> SUFFICES ASSUME NEW u \in Threads, InCall(u)', ~clash'
                 PROVE  Alone(u)'
      BY DEF AloneInv
    <2>1. \A w \in Threads : ~InCall(w)
      BY <1>1, OtherThread
    <2>2. u = t
      BY <1>5, <2>1
    <2>3. UNCHANGED <<life, isBound, stack, torn, covered>>
      BY <1>1 DEF TypeOK
    <2>4. BoundIsTop' /\ TopIsBound'
      BY <2>1, <2>3, SameAgreement DEF BindMatchesStack
    <2> QED BY <1>4, <2>2, <2>4 DEF Alone
  <1>12. BindMatchesStack'
    BY <1>5 DEF BindMatchesStack
  <1> QED BY <1>6, <1>7, <1>8, <1>9, <1>10, <1>11, <1>12

\* A step that takes nodes out of force, and leaves the stack and the calls alone,
\* leaves isBound and the stack in agreement wherever the calls have come to.
LEMMA FewerInForce ==
  ASSUME IInv, UNCHANGED <<stack, call, clash>>,
         \A n \in Nodes : InForce(n)' => InForce(n),
         covered' => covered,
         covered' => \A n \in Nodes :
                       life[n] # "new" => (isBound'[n] <=> isBound[n]),
         clash => \A n \in Nodes : isBound'[n] => n \in torn'
  PROVE  BindMatchesStack' /\ ClashInv' /\ AloneInv'
  <1> USE DEF IInv
  <1>1. /\ \A t \in Threads : InCall(t)' <=> InCall(t)
        /\ InCall("main")' <=> InCall("main")
        /\ InCall("parser")' <=> InCall("parser")
    BY DEF InCall
  <1>2. BoundIsTop <=> \A n \in Nodes : InForce(n) => IsTop(n)
    BY DEF BoundIsTop, InForce
  <1>3. BoundIsTop' <=> \A n \in Nodes : InForce(n)' => IsTop(n)'
    BY DEF BoundIsTop, InForce
  <1>4. \A n \in Nodes : IsTop(n)' <=> IsTop(n)
    BY DEF IsTop
  <1>5. stack # <<>> => Last(stack) \in Nodes /\ life[Last(stack)] # "new"
    BY EndOfList DEF TypeOK, ParsedInv
  <1>6. (BoundIsTop => BoundIsTop') /\ (TopIsBound => TopIsBound')
    BY <1>2, <1>3, <1>4, <1>5 DEF TopIsBound
  <1>7. BindMatchesStack'
    BY <1>1, <1>6 DEF BindMatchesStack
  <1>8. ClashInv'
    BY <1>1 DEF ClashInv
  <1>9. AloneInv'
    <2> SUFFICES ASSUME NEW t \in Threads, InCall(t)', ~clash'
                 PROVE  Alone(t)'
      BY DEF AloneInv
    <2>1. Alone(t)
      BY <1>1 DEF AloneInv
    <2>2. call[t].node \in Nodes /\ life[call[t].node] # "new"
      BY <1>1 DEF ParsedInv
    <2>3. covered' => (isBound'[call[t].node] <=> isBound[call[t].node])
      BY <2>2
    <2>4. covered' /\ stack # <<>> => (isBound'[Last(stack)] <=> isBound[Last(stack)])
      BY <1>5
    <2> QED BY <1>6, <2>1, <2>3, <2>4 DEF Alone, IsTop
  <1> QED BY <1>7, <1>8, <1>9

\* What has been parsed stays so, if the lists and calls do not change.
LEMMA StaysParsed ==
  ASSUME IInv, UNCHANGED <<stack, call>>, Registered' \subseteq Registered,
         toBind' \in {NoNode, toBind} \cup Registered,
         \A n \in Nodes : life[n] # "new" => life'[n] # "new"
  PROVE  ParsedInv'
  <1> USE DEF IInv
  <1>1. Registered \subseteq Nodes
    BY DEF TypeOK, Registered
  <1>2. \A i \in DOMAIN stack : life'[stack[i]] # "new"
    BY DEF TypeOK, ParsedInv
  <1>3. toBind' # NoNode => life'[toBind'] # "new"
    BY <1>1 DEF TypeOK, ParsedInv
  <1>4. ASSUME NEW t \in Threads
        PROVE  /\ InCall(t) => call[t].node \in Nodes
                               /\ life'[call[t].node] # "new"
               /\ call[t].at \in {"cover", "uncover"} =>
                    call[t].old \in Nodes /\ life'[call[t].old] # "new"
               /\ \A i \in DOMAIN call[t].held : life'[call[t].held[i]] # "new"
    <2>1. call[t].held \in Seq(Nodes)
      BY CallType
    <2> QED BY <2>1 DEF ParsedInv
  <1> QED BY <1>1, <1>2, <1>3, <1>4 DEF ParsedInv, InCall

LEMMA InitIInv == Init => IInv
  <1> SUFFICES ASSUME Init PROVE IInv
    OBVIOUS
  <1>1. /\ Registered = {} /\ stack = <<>> /\ viewpoints = <<>>
        /\ \A t \in Threads : call[t] = NoCall
    BY DEF Init, Registered
  <1>2. \A t \in Threads : /\ call[t].at = "out" /\ call[t].held = <<>>
                           /\ ~InCall(t)
    BY <1>1 DEF NoCall, InCall
  <1>3. TypeOK
    <2>1. <<>> \in Seq(Nodes) /\ toBind \in Nodes \cup {NoNode}
      BY DEF Init
    <2>2. /\ life \in [Nodes -> {"new", "live", "dying", "freed"}]
          /\ setBind \in [Nodes -> {0, 1, 100}]
          /\ isBound \in [Nodes -> BOOLEAN]
      BY DEF Init
    <2>3. NoCall \in Calls
      BY <2>1 DEF NoCall, Calls, Labels
    <2>4. call \in [Threads -> Calls]
      BY <2>3 DEF Init
    <2> QED BY <2>1, <2>2, <2>4 DEF Init, TypeOK
  <1>4. ClashInv
    BY <1>2 DEF Init, ClashInv, Threads
  <1>5. ParserInv
    BY <1>2 DEF Init, ParserInv, Threads
  <1> QED BY <1>1, <1>2, <1>3, <1>4, <1>5
          DEF Init, IInv, BindMatchesStack, BoundIsTop, TopIsBound,
              RegisteredAlive, ParsedInv, AloneInv

\* Steps that leave the viewpoints, the lists and the calls alone.
LEMMA QuietKeepsIInv ==
  ASSUME IInv, TypeOK', ParserInv',
         UNCHANGED <<life, isBound, stack, viewpoints, callVars>>,
         toBind' = NoNode \/ toBind' = toBind \/ toBind' \in Registered
  PROVE  IInv'
  <1> USE DEF IInv, callVars
  <1>1. Registered' = Registered
    BY DEF Registered
  <1>2. ParsedInv'
    BY <1>1, StaysParsed
  <1>3. BindMatchesStack' /\ ClashInv' /\ AloneInv'
    <2>1. \A n \in Nodes : InForce(n)' => InForce(n)
      BY DEF InForce
    <2> QED BY <2>1, FewerInForce DEF ClashInv
  <1> QED BY <1>1, <1>2, <1>3 DEF RegisteredAlive

LEMMA FrameKeepsIInv ==
  ASSUME IInv,
         \/ StartFrame \/ SkipUpdates \/ UpdatesDone \/ ClearBind
         \/ NothingToBind \/ EndFrame
  PROVE  IInv'
  <1> USE DEF nodeVars, parserVars, callVars, bounds
  <1>1. TypeOK'
    <2>1. CASE StartFrame
      BY <2>1 DEF IInv, TypeOK, StartFrame
    <2>2. CASE SkipUpdates \/ UpdatesDone \/ ClearBind
      BY <2>2 DEF IInv, TypeOK, SkipUpdates, UpdatesDone, ClearBind
    <2>3. CASE NothingToBind \/ EndFrame
      BY <2>3 DEF IInv, TypeOK, NothingToBind, EndFrame
    <2> QED BY <2>1, <2>2, <2>3
  <1>2. /\ UNCHANGED <<life, isBound, stack, viewpoints, callVars>>
        /\ UNCHANGED <<parser, next>>
        /\ toBind' = NoNode \/ toBind' = toBind
    BY DEF StartFrame, SkipUpdates, UpdatesDone, ClearBind, NothingToBind,
           EndFrame
  <1>3. ParserInv'
    BY <1>2 DEF IInv, ParserInv, InCall
  <1> QED BY <1>1, <1>2, <1>3, QuietKeepsIInv

LEMMA AskKeepsIInv ==
  ASSUME IInv, AskForViewpoint
  PROVE  IInv'
  <1> USE DEF nodeVars, parserVars, callVars, AskForViewpoint
  <1>1. toBind' \in Registered
    OBVIOUS
  <1>2. TypeOK'
    BY <1>1 DEF IInv, TypeOK, Registered
  <1>3. ParserInv'
    BY DEF IInv, ParserInv, InCall
  <1> QED BY <1>1, <1>2, <1>3, QuietKeepsIInv

LEMMA SetBindEventKeepsIInv ==
  ASSUME IInv, NEW n \in Nodes, NEW v \in {0, 1}, SetBindEvent(n, v)
  PROVE  IInv'
  <1> USE DEF parserVars, callVars, SetBindEvent
  <1>1. TypeOK'
    BY DEF IInv, TypeOK
  <1>2. ParserInv'
    BY DEF IInv, ParserInv, InCall
  <1> QED BY <1>1, <1>2, QuietKeepsIInv

LEMMA RegisteredTypes ==
  ASSUME IInv
  PROVE  Registered \subseteq {n \in Nodes : life[n] \notin {"new", "freed"}}
  BY DEF IInv, TypeOK, Registered, RegisteredAlive, ParsedInv

\* Steps that begin a call, or find a freed node that is no viewpoint any more.
LEMMA BindingKeepsIInv ==
  ASSUME IInv, NEW t \in Threads, ~InCall(t), NEW n \in Nodes, life[n] # "new",
         NEW v \in {0, 1, 100}, SendBindTo(t, n, v),
         toBind' = toBind, UNCHANGED <<parser, hasRoot, root, doEvents>>,
         t = "parser" => parser = "unbind",
         next' = next \/ next' = next + 1,
         phase' \in {"start", "nodes", "clear", "anchor", phase}
  PROVE  IInv'
  <1>1. CASE Begin(t, n, v)
    BY <1>1, BeginKeepsIInv
  <1>2. CASE UNCHANGED <<nodeVars, callVars>>
    <2>1. TypeOK'
      BY <1>2 DEF IInv, TypeOK, nodeVars, callVars
    <2>2. next' >= 1
      BY DEF IInv, TypeOK, ParserInv
    <2>3. ParserInv'
      BY <1>2, <2>2 DEF IInv, ParserInv, InCall, nodeVars, callVars
    <2> QED BY <1>2, <2>1, <2>3, QuietKeepsIInv DEF nodeVars
  <1> QED BY <1>1, <1>2 DEF SendBindTo

LEMMA BindersKeepIInv ==
  ASSUME IInv,
         \/ /\ ~InCall("main")
            /\ \/ UpdateViewpoint \/ SendBindIfRequired
               \/ LeaveViewpoint \/ GoToViewpoint
         \/ ~InCall("parser") /\ UnbindNext
  PROVE  IInv'
  <1> USE DEF nodeVars, parserVars, bounds
  <1>1. "main" \in Threads /\ "parser" \in Threads
    BY DEF Threads
  <1>2. CASE ~InCall("main") /\ UpdateViewpoint
    <2>1. PICK n \in Waiting : Begin("main", n, setBind[n])
      BY <1>2 DEF UpdateViewpoint
    <2>2. n \in Nodes /\ life[n] # "new" /\ setBind[n] \in {0, 1, 100}
      BY DEF Waiting, IInv, TypeOK
    <2> QED BY <1>1, <1>2, <2>1, <2>2, BeginKeepsIInv DEF UpdateViewpoint
  <1>3. CASE ~InCall("main") /\ SendBindIfRequired
    <2>1. toBind \in Nodes /\ life[toBind] # "new"
      BY <1>3 DEF SendBindIfRequired, IInv, TypeOK, ParsedInv
    <2> QED BY <1>1, <1>3, <2>1, BindingKeepsIInv DEF SendBindIfRequired
  <1>4. CASE ~InCall("main") /\ LeaveViewpoint
    <2>1. PICK n \in Registered : SendBindTo("main", n, 0)
      BY <1>4 DEF LeaveViewpoint
    <2> QED BY <1>1, <1>4, <2>1, RegisteredTypes, BindingKeepsIInv
            DEF LeaveViewpoint
  <1>5. CASE ~InCall("main") /\ GoToViewpoint
    <2>1. CASE \E n \in Registered : SendBindTo("main", n, 1)
      <3>1. PICK n \in Registered : SendBindTo("main", n, 1)
        BY <2>1
      <3> QED BY <1>1, <1>5, <3>1, RegisteredTypes, BindingKeepsIInv
              DEF GoToViewpoint
    <2>2. CASE UNCHANGED <<nodeVars, callVars>>
      <3>1. TypeOK' /\ ParserInv'
        BY <1>5, <2>2
           DEF GoToViewpoint, IInv, TypeOK, ParserInv, InCall, callVars
      <3> QED BY <1>5, <2>2, <3>1, QuietKeepsIInv DEF GoToViewpoint
    <2> QED BY <1>5, <2>1, <2>2 DEF GoToViewpoint
  <1>6. CASE ~InCall("parser") /\ UnbindNext
    <2>1. next \in DOMAIN viewpoints
      BY <1>6 DEF UnbindNext, IInv, TypeOK, ParserInv
    <2>2. viewpoints[next] \in Registered
      BY <2>1 DEF Registered
    <2> QED BY <1>1, <1>6, <2>2, RegisteredTypes, BindingKeepsIInv
            DEF UnbindNext
  <1> QED BY <1>2, <1>3, <1>4, <1>5, <1>6

\* killNode: a list of nodes in use or freed keeps those that are not disposed
\* of, and they are not the ones that are freed.  Neither thread is in bind_node.
LEMMA KillNodesKeepsIInv ==
  ASSUME IInv, ~InCall("main"), KillNodes
  PROVE  IInv'
  <1>1. /\ stack \in Seq(Nodes) /\ viewpoints \in Seq(Nodes)
        /\ life \in [Nodes -> {"new", "live", "dying", "freed"}]
    BY DEF IInv, TypeOK
  <1>2. /\ stack' = WithoutDead(stack) /\ viewpoints' = WithoutDead(viewpoints)
        /\ parser = "idle" /\ parser' = parser /\ next' = next
        /\ UNCHANGED <<setBind, isBound, toBind, hasRoot, root, doEvents>>
        /\ UNCHANGED <<call, clash, torn>>
    BY DEF KillNodes, parserVars
  <1>3. /\ life' \in [Nodes -> {"new", "live", "dying", "freed"}]
        /\ \A n \in Nodes : life[n] # "dying" => life'[n] = life[n]
        /\ \A n \in Nodes : life[n] = "dying" => life'[n] # "new"
        /\ \A n \in Nodes : life'[n] = "live" => life[n] = "live"
    BY <1>1 DEF KillNodes
  <1>4. /\ stack' \in Seq(Left(stack)) /\ Left(stack) \subseteq Nodes
        /\ viewpoints' \in Seq(Left(viewpoints))
        /\ Left(viewpoints) \subseteq Nodes
    BY <1>1, <1>2, WithoutDeadLeft
  <1>5. stack' \in Seq(Nodes) /\ viewpoints' \in Seq(Nodes)
    BY <1>4
  <1>6. \A t \in Threads : ~InCall(t) /\ ~InCall(t)'
    BY <1>2 DEF IInv, ParserInv, Threads, InCall
  <1>7. TypeOK'
    <2>1. covered' \in BOOLEAN /\ phase' = "nodes"
      BY DEF IInv, TypeOK, KillNodes
    <2> QED BY <1>2, <1>3, <1>5, <2>1 DEF IInv, TypeOK
  <1>8. \A n \in Left(stack) : life[n] \notin {"new", "dying"}
    BY DEF Left, IInv, ParsedInv
  <1>9. \A n \in Left(viewpoints) : life[n] \notin {"new", "dying", "freed"}
    BY RegisteredTypes DEF Left, Registered
  <1>10. \A n \in Nodes : life[n] # "new" => life'[n] # "new"
    BY <1>3
  <1>11. RegisteredAlive' /\ ParsedInv'
    <2>1. Registered' \subseteq Left(viewpoints)
      BY <1>4 DEF Registered
    <2>2. \A i \in DOMAIN stack' : stack'[i] \in Left(stack)
      BY <1>4
    <2>3. toBind # NoNode => toBind \in Nodes /\ life[toBind] # "new"
      BY DEF IInv, TypeOK, ParsedInv
    <2>4. ASSUME NEW t \in Threads
          PROVE  /\ ~(call[t].at \in {"cover", "uncover"})
                 /\ \A i \in DOMAIN call[t].held :
                      life'[call[t].held[i]] # "new"
      <3>1. call[t].held \in Seq(Nodes)
        BY CallType DEF IInv
      <3>2. call[t].at = "out"
        BY <1>6 DEF InCall
      <3> QED BY <1>10, <3>1, <3>2 DEF IInv, ParsedInv
    <2> QED BY <1>2, <1>3, <1>4, <1>6, <1>8, <1>9, <1>10, <2>1, <2>2, <2>3, <2>4
            DEF RegisteredAlive, ParsedInv
  <1>12. BoundIsTop'
    <2> SUFFICES ASSUME NEW n \in Nodes, life'[n] = "live", isBound[n], n \notin torn
                 PROVE  stack' # <<>> /\ Last(stack') = n
      BY <1>2 DEF BoundIsTop, IsTop
    <2>1. life[n] = "live"
      BY <1>3
    <2>2. stack # <<>> /\ Last(stack) = n
      BY <1>6, <2>1 DEF IInv, BindMatchesStack, BoundIsTop, IsTop
    <2>3. stack[Len(stack)] = n
      BY <1>1, <2>2, EndOfList
    <2> QED BY <1>1, <1>2, <2>1, <2>2, <2>3, WithoutDeadLeft
  <1>13. covered' => covered /\ stack' = stack
    BY DEF KillNodes
  <1>14. TopIsBound'
    BY <1>2, <1>6, <1>13 DEF IInv, BindMatchesStack, TopIsBound
  <1>15. ClashInv' /\ AloneInv'
    BY <1>2, <1>6, <1>13 DEF IInv, ClashInv, AloneInv, Threads
  <1>16. ParserInv'
    BY <1>2, <1>6 DEF IInv, ParserInv, Threads
  <1> QED BY <1>7, <1>11, <1>12, <1>14, <1>15, <1>16 DEF IInv, BindMatchesStack

\* markForDispose takes nodes out of use, and nothing out of the lists.
LEMMA DisposeEffect ==
  ASSUME IInv, DisposeOfWorld
  PROVE  /\ life' \in [Nodes -> {"new", "live", "dying", "freed"}]
         /\ \A n \in Nodes : life[n] # "live" => life'[n] = life[n]
         /\ \A n \in Nodes : life[n] = "live" => life'[n] \in {"live", "dying"}
         /\ UNCHANGED <<setBind, stack, toBind, parser, root, next, phase,
                        doEvents>>
  BY DEF IInv, TypeOK, DisposeOfWorld

\* Steps that take nodes out of use, unbind some or empty the list.
LEMMA ForgettingKeepsIInv ==
  ASSUME IInv, NEW STATE N, UnbindNodes(N) \/ UNCHANGED <<isBound, torn, covered>>,
         life' \in [Nodes -> {"new", "live", "dying", "freed"}],
         \A n \in Nodes : life[n] # "live" => life'[n] = life[n],
         \A n \in Nodes : life[n] = "live" => life'[n] \in {"live", "dying"},
         UNCHANGED <<setBind, stack, call, clash, toBind, phase, doEvents>>,
         viewpoints' \in {viewpoints, <<>>},
         hasRoot' \in BOOLEAN, root' \in BOOLEAN,
         parser' \in {parser, "kill", "parse"}, ParserInv', next' \in Nat
  PROVE  IInv'
  <1> USE DEF IInv
  <1>1. /\ isBound' \in [Nodes -> BOOLEAN] /\ torn' \subseteq Nodes
        /\ covered' \in BOOLEAN
        /\ covered' => covered /\ isBound' = isBound
        /\ \A n \in Nodes : isBound'[n] => isBound[n]
        /\ \A n \in Nodes : isBound'[n] => (n \in torn' <=> n \in torn)
    <2>1. CASE UNCHANGED <<isBound, torn, covered>>
      BY <2>1 DEF TypeOK
    <2>2. CASE UnbindNodes(N)
      <3>1. /\ isBound' = [n \in Nodes |-> isBound[n] /\ n \notin N]
            /\ torn' = torn \ N
            /\ ~covered' /\ covered' \in BOOLEAN
        BY <2>2 DEF UnbindNodes
      <3>2. isBound' \in [Nodes -> BOOLEAN]
        BY <3>1
      <3>3. \A n \in Nodes : isBound'[n] => isBound[n] /\ n \notin N
        BY <3>1
      <3>4. torn' \subseteq Nodes
        BY <3>1 DEF TypeOK
      <3> QED BY <3>1, <3>2, <3>3, <3>4
    <2> QED BY <2>1, <2>2
  <1>2. TypeOK'
    <2>1. <<>> \in Seq(Nodes)
      OBVIOUS
    <2> QED BY <1>1, <2>1 DEF TypeOK
  <1>3. Registered' \subseteq Registered
    BY DEF Registered
  <1>4. RegisteredAlive'
    BY <1>3, RegisteredTypes DEF RegisteredAlive
  <1>5. ParsedInv'
    <2>1. \A n \in Nodes : life[n] # "new" => life'[n] # "new"
      BY DEF TypeOK
    <2> QED BY <1>3, <2>1, StaysParsed
  <1>6. BindMatchesStack' /\ ClashInv' /\ AloneInv'
    <2>1. \A n \in Nodes : InForce(n)' => InForce(n)
      BY <1>1 DEF InForce, TypeOK
    <2>2. clash => \A n \in Nodes : isBound'[n] => n \in torn'
      BY <1>1 DEF ClashInv
    <2>3. covered' => \A n \in Nodes : life[n] # "new" =>
                        (isBound'[n] <=> isBound[n])
      BY <1>1
    <2> QED BY <1>1, <2>1, <2>2, <2>3, FewerInForce
  <1> QED BY <1>2, <1>4, <1>5, <1>6

LEMMA ReplaceKeepsIInv ==
  ASSUME IInv, SendNewRoot \/ KillOldWorld
  PROVE  IInv'
  <1>1. /\ life' \in [Nodes -> {"new", "live", "dying", "freed"}]
        /\ \A n \in Nodes : life[n] # "live" => life'[n] = life[n]
        /\ \A n \in Nodes : life[n] = "live" => life'[n] \in {"live", "dying"}
        /\ UNCHANGED <<setBind, stack, toBind, parser, root, next, phase,
                       doEvents>>
    BY DisposeEffect DEF SendNewRoot, KillOldWorld
  <1>2. /\ hasRoot' \in BOOLEAN /\ root' \in BOOLEAN /\ next' \in Nat
        /\ call' = call /\ clash' = clash
        /\ UnbindNodes(Registered) \/ UNCHANGED <<isBound, torn, covered>>
        /\ viewpoints' \in {viewpoints, <<>>}
        /\ parser = "unbind" => viewpoints' = viewpoints
    <2>1. CASE SendNewRoot
      BY <1>1, <2>1 DEF IInv, TypeOK, SendNewRoot, callVars
    <2>2. CASE KillOldWorld
      BY <1>1, <2>2 DEF IInv, TypeOK, KillOldWorld
    <2> QED BY <2>1, <2>2
  <1>3. ParserInv'
    BY <1>1, <1>2 DEF IInv, ParserInv, InCall
  <1> QED BY <1>1, <1>2, <1>3, ForgettingKeepsIInv

\* The parser thread begins, and kills the bindables: the main thread may be in
\* bind_node.
LEMMA KillKeepsIInv ==
  ASSUME IInv, ~InCall("parser"), StartParse \/ KillNext \/ KillBindables
  PROVE  IInv'
  <1>1. /\ life \in [Nodes -> {"new", "live", "dying", "freed"}]
        /\ next \in Nat /\ Len(viewpoints) + 1 \in Nat
        /\ Len(viewpoints) + 1 >= 1
    BY DEF IInv, TypeOK
  <1>2. /\ UNCHANGED <<life, setBind, stack, call, clash, toBind, phase, doEvents>>
        /\ viewpoints' \in {viewpoints, <<>>}
        /\ hasRoot' \in BOOLEAN /\ root' \in BOOLEAN
        /\ parser' \in {"kill", "parse"}
        /\ next' \in Nat /\ next' >= 1
        /\ \/ UnbindNodes({viewpoints[next]})
           \/ UNCHANGED <<isBound, torn, covered>>
    <2>1. CASE StartParse
      <3>1. /\ UNCHANGED <<life, setBind, isBound, stack, viewpoints, toBind,
                          phase, doEvents, call, clash, torn, covered>>
            /\ parser' \in {"kill", "parse"}
            /\ next' \in Nat /\ next' >= 1
        BY <1>1, <2>1 DEF StartParse, nodeVars, callVars
      <3>2. hasRoot' \in BOOLEAN /\ root' \in BOOLEAN
        BY <2>1 DEF IInv, TypeOK, StartParse
      <3> QED BY <3>1, <3>2
    <2>2. CASE KillNext
      BY <1>1, <2>2 DEF IInv, TypeOK, ParserInv, KillNext
    <2>3. CASE KillBindables
      BY <1>1, <2>3 DEF IInv, TypeOK, ParserInv, KillBindables, callVars
    <2> QED BY <2>1, <2>2, <2>3
  <1>3. ParserInv'
    BY <1>2 DEF ParserInv, InCall
  <1>4. \A n \in Nodes : life[n] = "live" => life'[n] \in {"live", "dying"}
    BY <1>2
  <1> QED BY <1>1, <1>2, <1>3, <1>4, ForgettingKeepsIInv

\* A node that was not there is in no list and in no call.
LEMMA RegisterKeepsIInv ==
  ASSUME IInv, ~InCall("parser"), NEW n \in Nodes, RegisterBindable(n)
  PROVE  IInv'
  <1> USE DEF IInv
  <1>1. /\ life[n] = "new" /\ parser = "parse"
        /\ life' = [life EXCEPT ![n] = "live"]
        /\ isBound' = [isBound EXCEPT ![n] = FALSE]
        /\ setBind' = [setBind EXCEPT ![n] = 100]
        /\ viewpoints' = Append(viewpoints, n)
        /\ UNCHANGED <<stack, toBind, parser, hasRoot, root, next, phase,
                       doEvents, call, clash, torn, covered>>
    BY DEF RegisterBindable, parserVars, callVars
  <1>2. TypeOK'
    BY <1>1 DEF TypeOK
  <1>3. ParserInv'
    BY <1>1 DEF ParserInv, InCall
  <1>4. Registered' = Registered \cup {n}
    <2>1. \A i \in DOMAIN viewpoints' :
            \/ i \in DOMAIN viewpoints /\ viewpoints'[i] = viewpoints[i]
            \/ viewpoints'[i] = n
      BY <1>1 DEF TypeOK
    <2>2. \A i \in DOMAIN viewpoints :
            i \in DOMAIN viewpoints' /\ viewpoints'[i] = viewpoints[i]
      BY <1>1 DEF TypeOK
    <2>3. /\ Len(viewpoints) + 1 \in DOMAIN viewpoints'
          /\ viewpoints'[Len(viewpoints) + 1] = n
      BY <1>1 DEF TypeOK
    <2> QED BY <2>1, <2>2, <2>3 DEF Registered
  <1>5. /\ life' \in [Nodes -> {"new", "live", "dying", "freed"}]
        /\ \A m \in Nodes : life[m] # "new" => life'[m] = life[m]
        /\ life'[n] = "live"
    BY <1>1 DEF TypeOK
  <1>6. RegisteredAlive'
    BY <1>4, <1>5, RegisteredTypes DEF RegisteredAlive
  <1>7. ParsedInv'
    <2>1. Registered \subseteq Nodes /\ stack \in Seq(Nodes)
      BY DEF TypeOK, Registered
    <2>2. \A i \in DOMAIN stack' : life'[stack'[i]] # "new"
      BY <1>1, <1>5, <2>1 DEF ParsedInv
    <2>3. \A m \in Registered' : life'[m] # "new"
      BY <1>4, <1>5, <2>1 DEF ParsedInv
    <2>4. toBind' # NoNode => life'[toBind'] # "new"
      BY <1>1, <1>5 DEF TypeOK, ParsedInv
    <2>5. ASSUME NEW t \in Threads
          PROVE  /\ InCall(t) => call[t].node \in Nodes
                                 /\ life'[call[t].node] # "new"
                 /\ call[t].at \in {"cover", "uncover"} =>
                      call[t].old \in Nodes /\ life'[call[t].old] # "new"
                 /\ \A i \in DOMAIN call[t].held :
                      life'[call[t].held[i]] # "new"
      <3>1. call[t].held \in Seq(Nodes)
        BY CallType
      <3> QED BY <1>5, <3>1 DEF ParsedInv
    <2> QED BY <1>1, <2>2, <2>3, <2>4, <2>5 DEF ParsedInv, InCall
  <1>8. /\ \A m \in Nodes : isBound'[m] => m # n /\ isBound[m]
        /\ \A m \in Nodes : life[m] # "new" => (isBound'[m] <=> isBound[m])
    BY <1>1 DEF TypeOK
  <1>9. BindMatchesStack' /\ ClashInv' /\ AloneInv'
    <2>1. \A m \in Nodes : InForce(m)' => InForce(m)
      BY <1>1, <1>8 DEF InForce, TypeOK
    <2>2. clash => \A m \in Nodes : isBound'[m] => m \in torn'
      BY <1>1, <1>8 DEF ClashInv
    <2> QED BY <1>1, <1>8, <2>1, <2>2, FewerInForce
  <1> QED BY <1>2, <1>3, <1>6, <1>7, <1>9

LEMMA ParsedKeepsIInv ==
  ASSUME IInv, ~InCall("parser"), Parsed \/ BindFirst
  PROVE  IInv'
  <1> USE DEF nodeVars, callVars, bounds
  <1>1. CASE Parsed
    <2>1. TypeOK' /\ ParserInv'
      BY <1>1 DEF Parsed, IInv, TypeOK, ParserInv, InCall
    <2> QED BY <1>1, <2>1, QuietKeepsIInv DEF Parsed
  <1>2. CASE BindFirst
    <2>1. viewpoints[1] \in Registered /\ viewpoints[1] \in Nodes
      BY <1>2 DEF BindFirst, IInv, TypeOK, ParserInv, Registered
    <2>2. TypeOK' /\ ParserInv'
      BY <1>2, <2>1 DEF BindFirst, IInv, TypeOK, ParserInv, InCall
    <2> QED BY <1>2, <2>1, <2>2, QuietKeepsIInv DEF BindFirst
  <1> QED BY <1>1, <1>2

LEMMA NextKeepsIInv == IInv /\ [Next]_vars => IInv'
  <1> SUFFICES ASSUME IInv, [Next]_vars PROVE IInv'
    OBVIOUS
  <1>1. CASE ~InCall("main") /\ Main
    <2>1. CASE \E n \in Nodes, v \in {0, 1} : SetBindEvent(n, v)
      BY <2>1, SetBindEventKeepsIInv
    <2>2. CASE UpdateViewpoint \/ SendBindIfRequired \/ LeaveViewpoint \/ GoToViewpoint
      BY <1>1, <2>2, BindersKeepIInv
    <2>3. CASE SendNewRoot \/ KillOldWorld \/ KillNodes
      BY <1>1, <2>3, ReplaceKeepsIInv, KillNodesKeepsIInv
    <2>4. CASE \/ StartFrame \/ SkipUpdates \/ UpdatesDone \/ ClearBind
               \/ NothingToBind \/ EndFrame
      BY <2>4, FrameKeepsIInv
    <2> QED BY <1>1, <2>1, <2>2, <2>3, <2>4 DEF Main
  <1>2. CASE ~InCall("parser") /\ Parser
    BY <1>2, KillKeepsIInv, RegisterKeepsIInv, ParsedKeepsIInv, BindersKeepIInv
       DEF Parser
  <1>3. CASE AskForViewpoint
    BY <1>3, AskKeepsIInv
  <1>4. CASE \E t \in Threads : BindNode(t)
    BY <1>4, BindNodeKeepsIInv
  <1>5. CASE UNCHANGED vars
    <2>1. TypeOK' /\ ParserInv'
      BY <1>5 DEF vars, nodeVars, parserVars, callVars, IInv, TypeOK, ParserInv,
                  InCall
    <2> QED BY <1>5, <2>1, QuietKeepsIInv DEF vars, nodeVars, parserVars
  <1> QED BY <1>1, <1>2, <1>3, <1>4, <1>5 DEF Next

LEMMA SpecIInv == Spec => []IInv
  <1> QED BY InitIInv, NextKeepsIInv, PTL DEF Spec

-----------------------------------------------------------------------------
(* The theorems. *)

\* A set_bind is 0, 1 or 100 and the lists hold viewpoints.
THEOREM TypeCorrect == Spec => []TypeOK
  <1>1. IInv => TypeOK
    BY DEF IInv
  <1> QED BY <1>1, SpecIInv, PTL

\* What bind_node assumes when it returns early, for any interleaving of the steps
\* of the main thread and the parser thread: when neither is in a call, a bound
\* viewpoint in use is the top of the stack unless it was bound while two calls
\* overlapped and no call alone has written it since; and the top is bound if no
\* node was taken away by force, and no two calls overlapped, since the last push.
THEOREM BindMatches == Spec => []BindMatchesStack
  <1>1. IInv => BindMatchesStack
    BY DEF IInv
  <1> QED BY <1>1, SpecIInv, PTL

\* Who follows viewpointNodes never meets a node that killNode has freed.
THEOREM ListsAlive == Spec => []RegisteredAlive
  <1>1. IInv => RegisteredAlive
    BY DEF IInv
  <1> QED BY <1>1, SpecIInv, PTL
=============================================================================
