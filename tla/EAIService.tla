----------------------------- MODULE EAIService -----------------------------
(***************************************************************************)
(* What the External Authoring Interface promises one client, whatever the *)
(* sockets and threads do: its commands are numbered in the order they are *)
(* written, taken in that order, and each of those that want a reply gets  *)
(* exactly one, with its own number.  No command is passed over before the *)
(* client has been told to quit.                                           *)
(***************************************************************************)
EXTENDS Naturals, Sequences

VARIABLES asked,        \* asked[n]: does command n of this client want a reply
          served,       \* the number of the last command taken
          answered,     \* the numbers of the replies sent, in order
          dismissed     \* the client has been told to quit

vars == <<asked, served, answered, dismissed>>

Init == asked = <<>> /\ served = 0 /\ answered = <<>> /\ dismissed = FALSE

Ask ==
  /\ \E wants \in BOOLEAN : asked' = Append(asked, wants)
  /\ UNCHANGED <<served, answered, dismissed>>

Serve ==
  /\ \E n \in served + 1 .. Len(asked) :
       /\ n # served + 1 => dismissed
       /\ served' = n
       /\ answered' = IF asked[n] THEN Append(answered, n) ELSE answered
  /\ UNCHANGED <<asked, dismissed>>

\* The last command a server takes may be the one that makes it quit; it comes
\* after commands that were passed over if the client had been told before.
Dismiss ==
  /\ dismissed' = TRUE
  /\ \E n \in served..Len(asked) :
       /\ n > served + 1 => dismissed
       /\ served' = n
  /\ UNCHANGED <<asked, answered>>

NewClient ==
  asked' = <<>> /\ served' = 0 /\ answered' = <<>> /\ dismissed' = FALSE

Next == Ask \/ Serve \/ Dismiss \/ NewClient

Spec == Init /\ [][Next]_vars
=============================================================================
