---------------------------- MODULE MCPiExtension ----------------------------
(***************************************************************************)
(* Small instances of PiExtension for TLC.                                 *)
(***************************************************************************)
EXTENDS PiExtension, TLC
=============================================================================
