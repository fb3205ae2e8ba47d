---------------------------- MODULE TextureQueue ----------------------------
(***************************************************************************)
(* What send_texture_to_loader promises: textures are worked on in the     *)
(* order they were asked for, none is lost and none is worked on twice for *)
(* one request.                                                            *)
(***************************************************************************)
EXTENDS Sequences

CONSTANT Textures

VARIABLE queue          \* the textures asked for, the one at work in front

Init == queue = <<>>

Ask(t) == queue' = Append(queue, t)

Finish == queue # <<>> /\ queue' = Tail(queue)

Next == Finish \/ \E t \in Textures : Ask(t)

Spec == Init /\ [][Next]_queue

FairSpec == Spec /\ WF_queue(Finish)
=============================================================================
