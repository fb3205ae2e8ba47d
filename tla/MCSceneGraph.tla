---------------------------- MODULE MCSceneGraph ----------------------------
(***************************************************************************)
(* A first world of a Group with an Inline, a world that an Anchor leads   *)
(* to, and a text for createVrml whose top node is a Group.                *)
(***************************************************************************)
EXTENDS SceneGraph, TLC

CONSTANTS g, h, r, i, b, d, w0, w1, s, fi

MCFileOf == i :> fi
MCTops == w0 :> {g} @@ w1 :> {b} @@ s :> {h} @@ fi :> {d}
MCParts == w0 :> {g, i} @@ w1 :> {b} @@ s :> {h} @@ fi :> {d}
MCContent == g :> {i} @@ h :> {} @@ r :> {}
MCAnswerGroup == s :> r
MCSends == {<<"addChildren", "add">>, <<"removeChildren", "add">>,
            <<"children", "set">>}
=============================================================================
