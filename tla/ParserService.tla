---------------------------- MODULE ParserService ---------------------------
(***************************************************************************)
(* What send_resource_to_parser promises its callers, whatever the locks   *)
(* do: the parser serves one request at a time, and a synchronous call     *)
(* returns only when its own request has been served.                      *)
(***************************************************************************)
CONSTANT Requests

VARIABLES phase,      \* phase[q]: how far request q has got
          sync,       \* the requests whose caller waits for the parser
          returned    \* the requests whose call has returned

vars == <<phase, sync, returned>>

Init ==
  /\ phase = [q \in Requests |-> "new"]
  /\ sync = {}
  /\ returned = {}

Ask(q) ==
  /\ phase[q] = "new"
  /\ phase' = [phase EXCEPT ![q] = "asked"]
  /\ sync' \in {sync, sync \cup {q}}
  /\ UNCHANGED returned

Accept(q) ==
  /\ phase[q] = "asked"
  /\ \A p \in Requests : phase[p] # "accepted"
  /\ phase' = [phase EXCEPT ![q] = "accepted"]
  /\ UNCHANGED <<sync, returned>>

Serve(q) ==
  /\ phase[q] = "accepted"
  /\ phase' = [phase EXCEPT ![q] = "served"]
  /\ UNCHANGED <<sync, returned>>

Return(q) ==
  /\ q \notin returned
  /\ phase[q] \in IF q \in sync THEN {"served"} ELSE {"accepted", "served"}
  /\ returned' = returned \cup {q}
  /\ UNCHANGED <<phase, sync>>

Next == \E q \in Requests : Ask(q) \/ Accept(q) \/ Serve(q) \/ Return(q)

Spec == Init /\ [][Next]_vars
=============================================================================
