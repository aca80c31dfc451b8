--------------------------- MODULE DirectoryProofs ---------------------------
(***************************************************************************)
(* Proofs about Directory, for every set of sessions, directories and      *)
(* processes, with kills or without.  IInv of Directory is inductive; the  *)
(* three safety properties follow from it.                                 *)
(***************************************************************************)
EXTENDS Directory, TLAPS

USE NamesAssumption DEF files, local, history, Procs, Places, Steps,
                        Goto, Return, Moves, NoLookup, Unsettles

-----------------------------------------------------------------------------
\* The steps of a registration.

\* RegisterAddress publishes an address, makes the directory, marks it and
\* stores the credentials: a marker is missing only while the call that will
\* write it is under way, or was cut short.
LEMMA RegistersPreserves ==
  ASSUME IInv, NEW p \in Procs, Registers(p)
  PROVE  IInv'
<1> USE DEF IInv
<1>1. ASSUME NEW s \in Sessions, NEW c \in Cwds \cup {NoCwd}, RegisterCall(p, s, c)
      PROVE  IInv'
  <2> USE <1>1 DEF RegisterCall
  <2>1. TypeOK'
    BY DEF TypeOK
  <2>2. Roles'
    BY DEF TypeOK, Roles
  <2>3. MarkToCome' /\ RemovalToCome'
    BY DEF TypeOK, MarkToCome, RemovalToCome
  <2>4. LookupInStep' /\ LookupExact'
    BY DEF TypeOK, LookupInStep, LookupExact
  <2> QED
    BY <2>1, <2>2, <2>3, <2>4
<1>2. CASE Publish(p)
  <2> USE <1>2 DEF Publish
  <2>1. TypeOK'
    BY DEF TypeOK, Roles
  <2>2. Roles'
    BY DEF TypeOK, Roles
  <2>3. MarkToCome'
    BY DEF TypeOK, Roles, MarkToCome
  <2>4. RemovalToCome'
    BY DEF TypeOK, Roles, RemovalToCome
  <2>5. LookupInStep' /\ LookupExact'
    BY DEF TypeOK, Roles, LookupInStep, LookupExact
  <2> QED
    BY <2>1, <2>2, <2>3, <2>4, <2>5
<1>3. CASE MakeDir(p)
  <2> USE <1>3 DEF MakeDir
  <2>1. TypeOK'
    BY DEF TypeOK, Roles
  <2>2. Roles'
    BY DEF TypeOK, Roles
  <2>3. MarkToCome' /\ RemovalToCome'
    BY DEF TypeOK, MarkToCome, RemovalToCome
  <2>4. LookupInStep' /\ LookupExact'
    BY DEF TypeOK, Roles, LookupInStep, LookupExact
  <2> QED
    BY <2>1, <2>2, <2>3, <2>4
<1>4. CASE Mark(p)
  <2> USE <1>4 DEF Mark
  <2>1. TypeOK'
    BY DEF TypeOK, Roles
  <2>2. Roles'
    BY DEF TypeOK, Roles
  <2>3. MarkToCome'
    BY DEF TypeOK, Roles, MarkToCome
  <2>4. RemovalToCome'
    BY DEF TypeOK, Roles, RemovalToCome
  <2>5. LookupInStep' /\ LookupExact'
    BY DEF TypeOK, Roles, LookupInStep, LookupExact
  <2> QED
    BY <2>1, <2>2, <2>3, <2>4, <2>5
<1>5. CASE MarkFails(p)
  <2> USE <1>5 DEF MarkFails
  <2>1. TypeOK'
    BY DEF TypeOK, Roles
  <2>2. Roles'
    BY DEF TypeOK, Roles
  <2>3. MarkToCome' /\ RemovalToCome'
    BY DEF TypeOK, Roles, MarkToCome, RemovalToCome
  <2>4. LookupInStep' /\ LookupExact'
    BY DEF TypeOK, Roles, LookupInStep, LookupExact
  <2> QED
    BY <2>1, <2>2, <2>3, <2>4
<1>6. CASE PutReceiver(p)
  <2> USE <1>6 DEF PutReceiver
  <2>1. TypeOK'
    BY DEF TypeOK, Roles
  <2>2. Roles'
    BY DEF TypeOK, Roles
  <2>3. MarkToCome' /\ RemovalToCome'
    BY DEF TypeOK, Roles, MarkToCome, RemovalToCome
  <2>4. LookupInStep' /\ LookupExact'
    BY DEF TypeOK, Roles, LookupInStep, LookupExact
  <2> QED
    BY <2>1, <2>2, <2>3, <2>4
<1> QED
  BY <1>1, <1>2, <1>3, <1>4, <1>5, <1>6 DEF Registers

-----------------------------------------------------------------------------
\* The steps of an unregistration.

\* RemoveAddress removes what it finds, and prunes the marker of the address it
\* has read: a marker it takes from a session that has registered again
\* meanwhile cuts that registration, and no other session loses one.
LEMMA UnregistersPreserves ==
  ASSUME IInv, NEW p \in Procs, Unregisters(p)
  PROVE  IInv'
<1> USE DEF IInv
<1>1. ASSUME NEW s \in Sessions, UnregisterCall(p, s)
      PROVE  IInv'
  <2> USE <1>1 DEF UnregisterCall
  <2>1. TypeOK'
    BY DEF TypeOK, Roles
  <2>2. Roles'
    BY DEF TypeOK, Roles
  <2>3. MarkToCome' /\ RemovalToCome'
    BY DEF TypeOK, Roles, MarkToCome, RemovalToCome
  <2>4. LookupInStep' /\ LookupExact'
    BY DEF TypeOK, Roles, LookupInStep, LookupExact
  <2> QED
    BY <2>1, <2>2, <2>3, <2>4
<1>2. CASE ReadAddress(p)
  <2> USE <1>2 DEF ReadAddress
  <2>1. TypeOK'
    BY DEF TypeOK, Roles
  <2>2. Roles'
    BY DEF TypeOK, Roles
  <2>3. MarkToCome' /\ RemovalToCome'
    BY DEF TypeOK, Roles, MarkToCome, RemovalToCome
  <2>4. LookupInStep' /\ LookupExact'
    BY DEF TypeOK, Roles, LookupInStep, LookupExact
  <2> QED
    BY <2>1, <2>2, <2>3, <2>4
<1>3. CASE RemoveAddress(p)
  <2> USE <1>3 DEF RemoveAddress
  <2>1. TypeOK'
    BY DEF TypeOK, Roles
  <2>2. Roles'
    BY DEF TypeOK, Roles
  <2>3. MarkToCome' /\ RemovalToCome'
    BY DEF TypeOK, Roles, MarkToCome, RemovalToCome
  <2>4. LookupInStep' /\ LookupExact'
    BY DEF TypeOK, Roles, LookupInStep, LookupExact
  <2> QED
    BY <2>1, <2>2, <2>3, <2>4
<1>4. CASE RemoveReceiver(p)
  <2> USE <1>4 DEF RemoveReceiver
  <2>1. TypeOK'
    BY DEF TypeOK, Roles
  <2>2. Roles'
    BY DEF TypeOK, Roles
  <2>3. MarkToCome' /\ RemovalToCome'
    BY DEF TypeOK, Roles, MarkToCome, RemovalToCome
  <2>4. LookupInStep' /\ LookupExact'
    BY DEF TypeOK, Roles, LookupInStep, LookupExact
  <2> QED
    BY <2>1, <2>2, <2>3, <2>4
<1>5. CASE Prune(p)
  <2> USE <1>5 DEF Prune
  <2>1. TypeOK'
    BY DEF TypeOK, Roles
  <2>2. Roles'
    BY DEF TypeOK, Roles
  <2>3. MarkToCome' /\ RemovalToCome'
    BY DEF TypeOK, Roles, MarkToCome, RemovalToCome
  <2>4. LookupInStep' /\ LookupExact'
    BY DEF TypeOK, Roles, LookupInStep, LookupExact
  <2> QED
    BY <2>1, <2>2, <2>3, <2>4
<1>6. CASE Drop(p)
  <2> USE <1>6 DEF Drop
  <2>1. TypeOK'
    BY DEF TypeOK, Roles
  <2>2. Roles'
    BY DEF TypeOK, Roles
  <2>3. MarkToCome' /\ RemovalToCome'
    BY DEF TypeOK, Roles, MarkToCome, RemovalToCome
  <2>4. LookupInStep' /\ LookupExact'
    BY DEF TypeOK, Roles, LookupInStep, LookupExact
  <2> QED
    BY <2>1, <2>2, <2>3, <2>4
<1> QED
  BY <1>1, <1>2, <1>3, <1>4, <1>5, <1>6 DEF Unregisters

-----------------------------------------------------------------------------
\* The steps of a lookup, and kills.

\* TargetsByCwd writes nothing.  Whoever was registered and marked all along is
\* in the scan, and whoever fails the check at his turn was not registered there.
LEMMA LooksPreserves ==
  ASSUME IInv, NEW p \in Procs, Looks(p)
  PROVE  IInv'
<1> USE DEF IInv
<1>1. ASSUME NEW c \in Cwds, LookupCall(p, c)
      PROVE  IInv'
  <2> USE <1>1 DEF LookupCall
  <2>1. TypeOK'
    BY DEF TypeOK, Roles
  <2>2. Roles'
    BY DEF TypeOK, Roles
  <2>3. MarkToCome' /\ RemovalToCome'
    BY DEF TypeOK, Roles, MarkToCome, RemovalToCome
  <2>4. LookupInStep' /\ LookupExact'
    BY DEF TypeOK, Roles, LookupInStep, LookupExact
  <2> QED
    BY <2>1, <2>2, <2>3, <2>4
<1>2. CASE LookupScan(p)
  <2> USE <1>2 DEF LookupScan
  <2>1. TypeOK'
    BY DEF TypeOK, Roles
  <2>2. Roles'
    BY DEF TypeOK, Roles
  <2>3. MarkToCome' /\ RemovalToCome'
    BY DEF TypeOK, Roles, MarkToCome, RemovalToCome
  <2>4. LookupInStep' /\ LookupExact'
    BY DEF TypeOK, Roles, LookupInStep, LookupExact
  <2> QED
    BY <2>1, <2>2, <2>3, <2>4
<1>3. ASSUME NEW s \in Sessions, LookupCheck(p, s)
      PROVE  IInv'
  <2> USE <1>3 DEF LookupCheck
  <2>1. TypeOK'
    BY DEF TypeOK, Roles
  <2>2. Roles'
    BY DEF TypeOK, Roles
  <2>3. MarkToCome' /\ RemovalToCome'
    BY DEF TypeOK, Roles, MarkToCome, RemovalToCome
  <2>4. LookupInStep' /\ LookupExact'
    BY DEF TypeOK, Roles, LookupInStep, LookupExact
  <2> QED
    BY <2>1, <2>2, <2>3, <2>4
<1>4. CASE LookupReturn(p)
  <2> USE <1>4 DEF LookupReturn
  <2>1. TypeOK'
    BY DEF TypeOK, Roles
  <2>2. Roles'
    BY DEF TypeOK, Roles
  <2>3. MarkToCome' /\ RemovalToCome'
    BY DEF TypeOK, Roles, MarkToCome, RemovalToCome
  <2>4. LookupInStep' /\ LookupExact'
    BY DEF TypeOK, Roles, LookupInStep, LookupExact
  <2> QED
    BY <2>1, <2>2, <2>3, <2>4
<1> QED
  BY <1>1, <1>2, <1>3, <1>4 DEF Looks

\* A kill cuts the call that was under way, and changes no file.
LEMMA CrashPreserves ==
  ASSUME IInv, NEW p \in Procs, Crash(p)
  PROVE  IInv'
<1> USE DEF IInv, Crash
<1>1. TypeOK'
  BY DEF TypeOK, Roles
<1>2. Roles'
  BY DEF TypeOK, Roles
<1>3. MarkToCome' /\ RemovalToCome'
  BY DEF TypeOK, Roles, MarkToCome, RemovalToCome
<1>4. LookupInStep' /\ LookupExact'
  BY DEF TypeOK, Roles, LookupInStep, LookupExact
<1> QED
  BY <1>1, <1>2, <1>3, <1>4

-----------------------------------------------------------------------------
\* The theorems.

\* IInv holds in every state: every address without its marker, and all
\* credentials without their address, belong to a call that will put it right
\* or was cut short, and every lookup under way is in step with the files.
THEOREM Invariance == Spec => []IInv
<1>1. Init => IInv
  <2> SUFFICES ASSUME Init PROVE IInv
    OBVIOUS
  <2> USE DEF Init
  <2>1. TypeOK
    BY DEF TypeOK
  <2>2. Roles
    BY DEF Roles
  <2>3. MarkToCome /\ RemovalToCome
    BY DEF MarkToCome, RemovalToCome
  <2>4. LookupInStep /\ LookupExact
    BY DEF LookupInStep, LookupExact
  <2> QED
    BY <2>1, <2>2, <2>3, <2>4 DEF IInv
<1>2. IInv /\ [Next]_vars => IInv'
  <2> SUFFICES ASSUME IInv, [Next]_vars PROVE IInv'
    OBVIOUS
  <2>1. CASE Next
    BY <2>1, RegistersPreserves, UnregistersPreserves, LooksPreserves, CrashPreserves
       DEF Next
  <2>2. CASE UNCHANGED vars
    BY <2>2 DEF vars, history, IInv, TypeOK, Roles, MarkToCome, RemovalToCome,
                LookupInStep, LookupExact
  <2> QED
    BY <2>1, <2>2
<1> QED
  BY <1>1, <1>2, PTL DEF Spec

\* A session whose calls have ended is in the index under the directory of its
\* address, whatever others do to that directory and however often it moves,
\* unless a kill, a failed Mark or its own unregistration came in between.
THEOREM Indexed == Spec => []RegisteredIsIndexed
<1>1. IInv => RegisteredIsIndexed
  BY DEF IInv, MarkToCome, RegisteredIsIndexed, Busy
<1> QED
  BY <1>1, Invariance, PTL

\* Credentials do not outlive the address: RemoveAddress removes them also when
\* an earlier one had been killed between the two.
THEOREM CredentialsHaveAddress == Spec => []ReceiverHasAddress
<1>1. IInv => ReceiverHasAddress
  BY DEF IInv, RemovalToCome, ReceiverHasAddress, Busy
<1> QED
  BY <1>1, Invariance, PTL

\* TargetsByCwd returns every session that was registered there and marked all
\* the while, and none that never was, however stale the markers it scans.
THEOREM LookupIsExact == Spec => []LookupExact
<1>1. IInv => LookupExact
  BY DEF IInv
<1> QED
  BY <1>1, Invariance, PTL

=============================================================================
