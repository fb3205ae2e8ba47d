---------------------------- MODULE MCEAIChannel ----------------------------
(* Two threads of the application and the read thread of the library.      *)
EXTENDS EAIChannel, TLC

CONSTANTS app, helper, reader

MCCallers == {app, helper}

\* The handler of the listener sends events; only one thread listens.
MCCommandsOf ==
  (app :> Commands) @@ (helper :> {"query"}) @@ (reader :> {"event"})

=============================================================================
