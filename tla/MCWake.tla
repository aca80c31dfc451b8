------------------------------- MODULE MCWake -------------------------------
(***************************************************************************)
(* Small instances of Wake for TLC.                                        *)
(***************************************************************************)
EXTENDS Wake, TLC

CONSTANTS n1, n2, r1, a1

\* Senders are interchangeable (not used where liveness is checked).
Alike == Permutations({n1, n2})
=============================================================================
