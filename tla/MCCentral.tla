----------------------------- MODULE MCCentral -----------------------------
(***************************************************************************)
(* Two programs for Central.                                               *)
(***************************************************************************)
EXTENDS Central

\* Listens again when, and only when, it has neither a connection nor a listen;
\* hangs up on a connection that cannot be read any more, or at will.
Careful ==
  [reactions |->
     {<<"start", "listen">>, <<"connect", "nothing">>, <<"connectError", "listen">>,
      <<"readError", "close">>, <<"writeError", "nothing">>, <<"close", "listen">>,
      <<"idle", "hangUp">>},
   listener |-> "replies"]

\* The listeners of src/startAdv.js, over a Peripheral that can be built: they
\* listen again on 'close' and on every 'error'.
Example ==
  [reactions |->
     {<<"start", "listen">>, <<"connect", "nothing">>, <<"connectError", "listen">>,
      <<"readError", "listen">>, <<"writeError", "listen">>, <<"close", "listen">>},
   listener |-> "throws"]

BothPrograms == {Careful, Example}
ExampleOnly  == {Example}

=============================================================================
