----------------------------- MODULE MCMailbox -----------------------------
(***************************************************************************)
(* Small instances of Mailbox for TLC.  Two ids a millisecond, so that     *)
(* pushes race for the order within one millisecond and across two.        *)
(***************************************************************************)
EXTENDS Mailbox, TLC

CONSTANTS p1, p2, t1, t2, a1, w1, null

MCIds == 0 .. 2
MCFewIds == 0 .. 1

\* Processes of one kind run the same code.
Alike == Permutations({t1, t2})
-----------------------------------------------------------------------------
\* Arrivals that never end.  What is done and nobody works on is forgotten, and
\* its name serves for a new message: within a millisecond a newer one may have
\* the lower id.
Recycle(i) ==
  /\ i \in done
  /\ \A p \in Procs : cur[p] # i /\ i \notin todo[p] \cup got[p] \cup seen[p]
  /\ done' = done \ {i} /\ whole' = whole \ {i} /\ used' = used \ {i}
  /\ lost' = lost \ {i} /\ told' = [told EXCEPT ![i] = 0]
  /\ UNCHANGED <<tmp, pending, claimed, now, local, crashes>>

EndlessNext == Next \/ \E i \in Ids : Recycle(i)

EndlessSpec == Init /\ [][EndlessNext]_vars /\ Fairness
=============================================================================
