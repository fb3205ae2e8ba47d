--------------------------- MODULE MCEventCascade ---------------------------
(* Small scenes for EventCascade. *)
EXTENDS EventCascade, TLC

CONSTANTS clock,       \* fraction_changed of a TimeSensor
          set, out,    \* set_fraction and value_changed of an interpolator
          pos, shadow, \* exposedFields of two nodes
          far, rest,   \* fields of other nodes
          in, eo,      \* eventIn and eventOut of a script
          eo2          \* an eventOut of a second script

R(a, b, d) == [from |-> a, to |-> b, dir |-> d]

AllFields == {clock, set, out, pos, shadow, far, rest, in, eo, eo2}

NoOutputs == [f \in AllFields |-> {}]

\* A clock drives an interpolator, which drives a node and a script.  The node
\* is routed on, and back to the interpolator, a loop; the script drives another
\* node.  A second script in the table is not ready.
Animation ==
  {R(clock, set, "none"), R(out, pos, "none"),
   R(pos, set, "none"), R(pos, far, "none"),
   R(out, in, "to_script"), R(eo, shadow, "from_script"),
   R(eo2, rest, "from_script")}
AnimationOutputs == (set :> {out}) @@ (in :> {eo}) @@ NoOutputs

\* Plain copies: a chain of exposedFields.
Chain == {R(clock, pos, "none"), R(pos, shadow, "none")}
=============================================================================
