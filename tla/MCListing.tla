------------------------------ MODULE MCListing ------------------------------
(***************************************************************************)
(* A small instance of Listing for TLC: two sessions and the message of   *)
(* one of them.  The mailboxes of custom agents are left to the theorems.  *)
(***************************************************************************)
EXTENDS Listing

CONSTANTS m1, c1, c2

MCTo == [m \in {m1} |-> 1]

\* Directories are interchangeable; sessions are not, their names are sorted.
Alike == Permutations({c1, c2})
=============================================================================
