-------------------------- MODULE MCWidevineAdapter --------------------------
(* Four promises: enough for a session whose creation times out, a second  *)
(* one, an update and the close, with every answer late, and for the       *)
(* adapter to be shut down and initialised again in between.               *)
EXTENDS WidevineAdapter

MCMaxPromises == 4
==============================================================================
