----------------------------- MODULE MCDirectory -----------------------------
(***************************************************************************)
(* Small instances of Directory for TLC.                                   *)
(***************************************************************************)
EXTENDS Directory, TLC

CONSTANTS s1, s2, c1, c2, p1, p2, l1

Alike == Permutations({s1, s2}) \cup Permutations({p1, p2})
=============================================================================
