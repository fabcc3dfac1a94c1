----------------------------- MODULE MCDaemonCall -----------------------------
(***************************************************************************)
(* Instances of DaemonCall for TLC.                                        *)
(***************************************************************************)
EXTENDS DaemonCall
=============================================================================
