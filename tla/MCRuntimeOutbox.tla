--------------------------- MODULE MCRuntimeOutbox ---------------------------
(* Instances of RuntimeOutbox for TLC. *)
EXTENDS RuntimeOutbox, TLC

CONSTANTS alpha, beta

Everything  == EventKinds
===============================================================================
