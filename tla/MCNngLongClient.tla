--------------------------- MODULE MCNngLongClient ---------------------------
(***************************************************************************)
(* Instances of NngLongClient for TLC.                                     *)
(***************************************************************************)
EXTENDS NngLongClient
=============================================================================
