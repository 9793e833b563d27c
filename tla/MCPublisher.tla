---------------------------- MODULE MCPublisher ----------------------------
(***************************************************************************)
(* Two producers, three calls each; the finalized stream is disabled by an  *)
(* empty exchange name, the other two publish to their own exchanges.     *)
(***************************************************************************)
EXTENDS Publisher

CONSTANTS p1, p2

MCProducers == {p1, p2}
=============================================================================
