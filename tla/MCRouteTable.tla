---------------------------- MODULE MCRouteTable ----------------------------
(* Small scenes for RouteTable: nodes 1 to 3, scripts 4 and 5, a StaticGroup *)
(* 6, and helper nodes that are allocated below, between or above them.      *)
EXTENDS RouteTable

L(a, o, b, p) == [from |-> a, fn |-> o, to |-> b, tofn |-> p]

\* One field with two receivers, a neighbour, and a StaticGroup.
FanLinks == {L(2, 1, 3, 1), L(2, 1, 2, 2), L(2, 2, 4, 1), L(6, 1, 2, 1)}

\* Two scripts in a row, a node with two fields, one of them with two
\* receivers, and a StaticGroup.
MixedLinks == {L(4, 1, 5, 1), L(2, 1, 3, 1), L(2, 1, 2, 2), L(2, 2, 3, 2),
               L(6, 1, 2, 1)}

AnyScripts == {4, 5}
AnyStatic == {6}
=============================================================================
