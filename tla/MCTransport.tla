---------------------------- MODULE MCTransport ----------------------------
(***************************************************************************)
(* Transport for TLC.                                                      *)
(***************************************************************************)
EXTENDS Transport
=============================================================================
