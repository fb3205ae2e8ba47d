-------------------------- MODULE MCParserHandoff ---------------------------
(* Small instances of ParserHandoff for TLC. *)
EXTENDS ParserHandoff, TLC

CONSTANTS main, display, j1, j2, j3

(* The main thread loads the first world (fwl_startFreeWRL) while the      *)
(* display thread already runs the nodes of that world.                    *)
MainAndDisplay  == {main, display}
BothJobs        == (main :> {j1}) @@ (display :> {j2, j3})
BothKinds       == (main :> {"push"}) @@ (display :> Kinds)
BothInline      == (main :> {"push"}) @@ (display :> {"inline"})

(* Bound: while the main thread sends too, the display thread makes only   *)
(* calls of three kinds, or replaces worlds; alone, as after start-up, it  *)
(* makes all of them.                                                      *)
FewKindsWhenShared ==
  kind'[j1] # "none" => \E few \in {{"multi", "async", "kill"}, {"world"}} :
                          {kind'[j2], kind'[j3]} \subseteq few \cup {"none"}

-----------------------------------------------------------------------------
(* What a replaced world shows. *)

VARIABLE met   \* history: the clients that replace the world and have met, since
               \* they began, a resource of another client bound for the root

Remember ==
  met' = {c \in Clients : /\ Replacing(c)'
                          /\ c \in met \/ \E d \in Clients \ {c} : Rooting(d)'}

MCInit == Init /\ met = {}

\* The two calls of the display thread are alike.
InOrder == kind'[j3] # "none" => kind'[j2] # "none"

MCNext == Next /\ FewKindsWhenShared /\ InOrder /\ Remember

MCSpec == MCInit /\ [][MCNext]_<<vars, met>> /\ Fairness

\* The same with any kinds of call at any time.
AnyKindsSpec == MCInit /\ [][Next /\ Remember]_<<vars, met>> /\ Fairness

\* When the send of Anchor_ReplaceWorld has returned, the new world is below the
\* root if it could be parsed, whatever else was sent in the meantime; and it is
\* alone there, unless another client had a resource for the root on its way to
\* the parser: ProdCon.c drops the old children without a look at that.
NewWorldShown ==
  \A c \in Clients :
    pc[c] = "resource_wait" /\ kind[job[c]] = "world" =>
      /\ res[job[c]].status = "parsed" => job[c] \in rootChildren
      /\ c \notin met => rootChildren \subseteq {job[c]}
=============================================================================
