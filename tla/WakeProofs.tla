----------------------------- MODULE WakeProofs -----------------------------
(***************************************************************************)
(* Proofs about Wake, for any number of senders, receivers, agents,        *)
(* messages, notices, moments and failures.  IInv of Wake is inductive;    *)
(* the safety properties of the ledger follow from it, some of them for    *)
(* the hosts and sessions that their theorem names.                        *)
(***************************************************************************)
EXTENDS Wake, TLAPS

USE DEF payload, env, host, local, history, Procs, Published, Goto, Ends, Again,
        Unlock, Fault, ByNotice, Matches, HintComing, NotifySteps, ReceiveSteps

\* Ids and notices are numbers, and below the bound there is one more to mint.
LEMMA Ranges ==
  /\ Ids \subseteq Nat /\ Notices \subseteq Nat /\ NoId \notin Ids
  /\ NoNotice \notin Notices /\ NoNotice # Legacy /\ Legacy \notin Notices
  /\ \A n \in 0 .. MaxNotices :
       n < MaxNotices => n + 1 \in Notices /\ n + 1 \in 0 .. MaxNotices
BY BoundsAssumption, NamesAssumption DEF Ids, Notices

\* Only an agent works for a hint, and nobody is called Nobody.
LEMMA Kinds ==
  /\ Nobody \notin Procs
  /\ \A p \in Procs : p \in Agents => p \notin Notifiers /\ p \notin Autos
BY NamesAssumption

-----------------------------------------------------------------------------
\* Steps that only decide where p goes on.

\* p's step leaves the locals of every other process alone.
OthersKept(p) ==
  \A q \in Procs \ {p} :
     /\ pc'[q] = pc[q] /\ item'[q] = item[q] /\ batch'[q] = batch[q]
     /\ count'[q] = count[q] /\ serving'[q] = serving[q] /\ out'[q] = out[q]

\* p holds the lock afterwards if its next step needs it, and else lets go of it.
LockFollows(p) ==
  IF pc'[p] \in NotifySteps \cup ReceiveSteps
  THEN lock' = p /\ lock \in {p, Nobody}
  ELSE lock' = IF lock = p THEN Nobody ELSE lock

\* p may be where it is afterwards, with what it then has in hand.
WellPlaced(p) ==
  /\ pc'[p] \in NotifySteps \cup {"lock"} => p \in Notifiers
  /\ serving'[p] # NoNotice <=> p \in Agents /\ pc'[p] # "idle"
  /\ item'[p] \in Published' \cup {NoId}
  /\ pc'[p] = "decide" => item'[p] \in Published'
  /\ pc'[p] = "gone" => item'[p] \notin pending' \ skipped'
  /\ pc'[p] = "goneToo" => item'[p] \notin (pending' \cup claimed') \ skipped'
  /\ pc'[p] \in {"look", "decide", "gone", "goneToo"} => minted' < MaxNotices
  /\ pc'[p] \notin {"host", "record"}

\* p drains, if it is at it, what it has to drain.
DrainsWell(p) ==
  pc'[p] \in {"mark", "claim"} =>
     /\ announced' \cap pending' \subseteq batch'[p] \cup skipped'
     /\ pc'[p] = "mark" => ByNotice(p)'
     /\ ByNotice(p)' => ledger'.id = serving'[p] /\ ledger'.v2
     /\ ByNotice(p)' /\ pc'[p] = "claim" =>
          ledger'.state \in {"receiving", "received"} /\ serving'[p] \in observed'

\* The hint p served is still served, is no longer the ledger's, or was lost
\* with a session.
HintKept(p) ==
  \/ serving'[p] = serving[p]
  \/ serving[p] # ledger.id \/ ~ledger.v2 \/ ledger.state \in {"received", "deferred"}
  \/ "dies" \in Faults /\ faults' # 0

\* What the last listing left out is another set only if p has listed.
SkipsKept(p) ==
  skipped' = skipped \/ (lock = p /\ (faults' = 0 => skipped' = {}))

LocalStep(p) ==
  /\ OthersKept(p) /\ LockFollows(p) /\ WellPlaced(p) /\ DrainsWell(p) /\ HintKept(p)
  /\ SkipsKept(p)
  /\ serving'[p] \in {serving[p], NoNotice}
  /\ faults' = 0 => faults = 0 /\ pc[p] \notin {"host", "record"}
  /\ UNCHANGED <<payload, ledger, env, minted, host, announced, observed>>

\* A step that changes nothing but what p does next keeps the invariant.
LEMMA LocalStepPreserves ==
  ASSUME IInv, TypeOK', NEW p \in Procs, LocalStep(p)
  PROVE  IInv'
<1> USE DEF IInv, LocalStep, OthersKept, SkipsKept
<1>1. LockHeld'
  BY Kinds DEF TypeOK, LockHeld, LockFollows
<1>2. Roles'
  BY DEF Roles, WellPlaced
<1>0. skipped' = skipped \/ \A q \in Procs \ {p} : pc'[q] \notin NotifySteps \cup ReceiveSteps
  BY DEF LockHeld
<1>3. Items'
  BY <1>0 DEF Items, WellPlaced
<1>4. Minting' /\ Reserved'
  BY Ranges, ZenonT(60) DEF TypeOK, Minting, Reserved, WellPlaced
<1>5. Draining'
  BY <1>0 DEF Draining, DrainsWell
<1>6. HintStays'
  BY DEF Reserved, HintStays, QueuedHasHint, WellPlaced, HintKept
<1>7. NoticesObserved'
  BY DEF NoticesObserved, NoOrphanedHint
<1>8. FlightAlive'
  BY DEF Reserved, FlightAlive, WellPlaced, HintKept
<1>9. OneHint'
  <2>1. \A a \in Agents : serving'[a] \in {serving[a], NoNotice}
    OBVIOUS
  <2>2. ledger.state # "none" /\ Protocols = {TRUE} => ledger.id # NoNotice
    BY Ranges DEF Reserved
  <2> QED
    BY <2>1, <2>2 DEF Reserved, OneHint, WellPlaced
<1> QED
  BY <1>1, <1>2, <1>3, <1>4, <1>5, <1>6, <1>7, <1>8, <1>9

-----------------------------------------------------------------------------
\* The local steps of notifyPending and receive.

\* List returns what it does not skip, and skips nothing unless a read fails.
LEMMA ListsWhatItReads ==
  ASSUME TypeOK, NEW p \in Procs, Lists(p)
  PROVE  /\ skipped' \subseteq pending
         /\ batch' = [batch EXCEPT ![p] = pending \ skipped']
         /\ faults' \in Nat
         /\ faults' = 0 => faults = 0 /\ skipped' = {}
BY DEF TypeOK, Lists

\* notifyPending before it has decided anything: it waits for the lock, reads
\* the ledger and looks the message up.
LEMMA NotifyWaitsPreserves ==
  ASSUME IInv, NEW p \in Procs,
         \/ \E i \in Ids \cup {NoId} : NotifyCall(p, i)
         \/ NotifyLock(p) \/ NotifyGivesUp(p) \/ NotifyList(p) \/ NotifyNotClaimed(p)
  PROVE  IInv'
<1> USE DEF IInv
<1>1. ASSUME NEW i \in Ids \cup {NoId}, NotifyCall(p, i) PROVE IInv'
  <2>1. TypeOK'
    BY <1>1, BoundsAssumption DEF NotifyCall, TypeOK, Steps
  <2>2. OthersKept(p) /\ LockFollows(p)
    BY <1>1, Kinds DEF NotifyCall, TypeOK, LockHeld, OthersKept, LockFollows
  <2>3. WellPlaced(p)
    BY <1>1, Ranges, Kinds DEF NotifyCall, TypeOK, Roles, Items, Minting, WellPlaced
  <2>4. DrainsWell(p) /\ HintKept(p)
    BY <1>1, Ranges, Kinds
    DEF NotifyCall, TypeOK, Roles, Reserved, Draining, DrainsWell, HintKept
  <2>5. LocalStep(p)
    BY <1>1, <2>2, <2>3, <2>4, Kinds
    DEF NotifyCall, TypeOK, Roles, LocalStep, SkipsKept
  <2> QED
    BY <2>1, <2>5, LocalStepPreserves
<1>2. CASE NotifyLock(p)
  <2>1. TypeOK'
    BY <1>2, BoundsAssumption DEF NotifyLock, Locks, TypeOK, Steps
  <2>2. OthersKept(p) /\ LockFollows(p)
    BY <1>2, Kinds DEF NotifyLock, Locks, TypeOK, LockHeld, OthersKept, LockFollows
  <2>3. WellPlaced(p)
    BY <1>2, Ranges, Kinds DEF NotifyLock, Locks, TypeOK, Roles, Items, Minting, WellPlaced
  <2>4. DrainsWell(p) /\ HintKept(p)
    BY <1>2, Ranges, Kinds
    DEF NotifyLock, Locks, TypeOK, Roles, Reserved, Draining, DrainsWell, HintKept
  <2>5. LocalStep(p)
    BY <1>2, <2>2, <2>3, <2>4, Kinds
    DEF NotifyLock, Locks, TypeOK, Roles, LocalStep, SkipsKept
  <2> QED
    BY <2>1, <2>5, LocalStepPreserves
<1>3. CASE NotifyGivesUp(p)
  <2>1. TypeOK'
    BY <1>3, BoundsAssumption DEF NotifyGivesUp, TypeOK, Steps
  <2>2. OthersKept(p) /\ LockFollows(p)
    BY <1>3, Kinds DEF NotifyGivesUp, TypeOK, LockHeld, OthersKept, LockFollows
  <2>3. WellPlaced(p)
    BY <1>3, Ranges, Kinds DEF NotifyGivesUp, TypeOK, Roles, Items, Minting, WellPlaced
  <2>4. DrainsWell(p) /\ HintKept(p)
    BY <1>3, Ranges, Kinds
    DEF NotifyGivesUp, TypeOK, Roles, Reserved, Draining, DrainsWell, HintKept
  <2>5. LocalStep(p)
    BY <1>3, <2>2, <2>3, <2>4, Kinds
    DEF NotifyGivesUp, TypeOK, Roles, LocalStep, SkipsKept
  <2> QED
    BY <2>1, <2>5, LocalStepPreserves
<1>4. CASE NotifyList(p)
  <2> USE <1>4 DEF NotifyList
  <2>0. /\ TypeOK /\ pc[p] = "look" /\ lock = p
        /\ skipped' \subseteq pending
        /\ batch' = [batch EXCEPT ![p] = pending \ skipped']
        /\ faults' \in Nat /\ (faults' = 0 => faults = 0 /\ skipped' = {})
    BY ListsWhatItReads DEF LockHeld
  <2>1. TypeOK'
    BY <2>0, BoundsAssumption DEF TypeOK, Steps
  <2>2. OthersKept(p) /\ LockFollows(p)
    BY <2>0, Kinds DEF TypeOK, LockHeld, OthersKept, LockFollows
  <2>3. WellPlaced(p)
    BY <2>0, Ranges, Kinds DEF TypeOK, Roles, Items, Minting, WellPlaced
  <2>4. DrainsWell(p) /\ HintKept(p)
    BY <2>0, Ranges, Kinds
    DEF TypeOK, Roles, Reserved, Draining, DrainsWell, HintKept
  <2>5. LocalStep(p)
    BY <2>0, <2>2, <2>3, <2>4, Kinds DEF TypeOK, Roles, LocalStep, SkipsKept
  <2> QED
    BY <2>1, <2>5, LocalStepPreserves
<1>5. CASE NotifyNotClaimed(p)
  <2>1. TypeOK'
    BY <1>5, BoundsAssumption DEF NotifyNotClaimed, LooksIn, TypeOK, Steps
  <2>2. OthersKept(p) /\ LockFollows(p)
    BY <1>5, Kinds DEF NotifyNotClaimed, LooksIn, TypeOK, LockHeld, OthersKept, LockFollows
  <2>3. WellPlaced(p)
    BY <1>5, Ranges, Kinds
    DEF NotifyNotClaimed, LooksIn, TypeOK, Roles, Items, Minting, WellPlaced
  <2>4. DrainsWell(p) /\ HintKept(p)
    BY <1>5, Ranges, Kinds
    DEF NotifyNotClaimed, LooksIn, TypeOK, Roles, Reserved, Draining, DrainsWell,
        HintKept
  <2>5. LocalStep(p)
    BY <1>5, <2>2, <2>3, <2>4, Kinds
    DEF NotifyNotClaimed, LooksIn, TypeOK, Roles, LocalStep, SkipsKept
  <2> QED
    BY <2>1, <2>5, LocalStepPreserves
<1> QED
  BY <1>1, <1>2, <1>3, <1>4, <1>5

\* Every early return of notifyPending releases the lock and leaves the ledger.
LEMMA NotifyLeavesPreserves ==
  ASSUME IInv, NEW p \in Procs,
         \/ NotifyGone(p) \/ NotifyNotFound(p) \/ NotifyRefused(p) \/ NotifyDelegates(p)
         \/ NotifyFails(p) \/ RecordFails(p)
  PROVE  IInv'
<1> USE DEF IInv
<1>1. CASE NotifyGone(p) \/ NotifyNotFound(p)
  <2>1. TypeOK'
    BY <1>1, BoundsAssumption DEF NotifyGone, NotifyNotFound, TypeOK, Steps
  <2>2. OthersKept(p) /\ LockFollows(p)
    BY <1>1, Kinds DEF NotifyGone, NotifyNotFound, TypeOK, LockHeld, OthersKept, LockFollows
  <2>3. WellPlaced(p)
    BY <1>1, Ranges, Kinds
    DEF NotifyGone, NotifyNotFound, TypeOK, Roles, Items, Minting, WellPlaced
  <2>4. DrainsWell(p) /\ HintKept(p)
    BY <1>1, Ranges, Kinds
    DEF NotifyGone, NotifyNotFound, TypeOK, Roles, Reserved, Draining, DrainsWell,
        HintKept
  <2>5. LocalStep(p)
    BY <1>1, <2>2, <2>3, <2>4, Kinds
    DEF NotifyGone, NotifyNotFound, TypeOK, Roles, LocalStep, SkipsKept
  <2> QED
    BY <2>1, <2>5, LocalStepPreserves
<1>2. CASE NotifyRefused(p) \/ NotifyDelegates(p)
  <2>1. TypeOK'
    BY <1>2, BoundsAssumption DEF NotifyRefused, NotifyDelegates, MustSignal, TypeOK, Steps
  <2>2. OthersKept(p) /\ LockFollows(p)
    BY <1>2, Kinds
    DEF NotifyRefused, NotifyDelegates, MustSignal, TypeOK, LockHeld, OthersKept,
        LockFollows
  <2>3. WellPlaced(p)
    BY <1>2, Ranges, Kinds
    DEF NotifyRefused, NotifyDelegates, MustSignal, TypeOK, Roles, Items, Minting,
        WellPlaced
  <2>4. DrainsWell(p) /\ HintKept(p)
    BY <1>2, Ranges, Kinds
    DEF NotifyRefused, NotifyDelegates, MustSignal, TypeOK, Roles, Reserved, Draining,
        DrainsWell, HintKept
  <2>5. LocalStep(p)
    BY <1>2, <2>2, <2>3, <2>4, Kinds
    DEF NotifyRefused, NotifyDelegates, MustSignal, TypeOK, Roles, LocalStep, SkipsKept
  <2> QED
    BY <2>1, <2>5, LocalStepPreserves
<1>3. CASE NotifyFails(p) \/ RecordFails(p)
  <2>1. TypeOK'
    BY <1>3, BoundsAssumption DEF NotifyFails, RecordFails, TypeOK, Steps
  <2>2. OthersKept(p) /\ LockFollows(p)
    BY <1>3, Kinds DEF NotifyFails, RecordFails, TypeOK, LockHeld, OthersKept, LockFollows
  <2>3. WellPlaced(p)
    BY <1>3, Ranges, Kinds
    DEF NotifyFails, RecordFails, TypeOK, Roles, Items, Minting, WellPlaced
  <2>4. DrainsWell(p) /\ HintKept(p)
    BY <1>3, Ranges, Kinds
    DEF NotifyFails, RecordFails, TypeOK, Roles, Reserved, Draining, DrainsWell,
        HintKept
  <2>5. LocalStep(p)
    BY <1>3, <2>2, <2>3, <2>4, Kinds
    DEF NotifyFails, RecordFails, TypeOK, Roles, LocalStep, SkipsKept
  <2> QED
    BY <2>1, <2>5, LocalStepPreserves
<1> QED
  BY <1>1, <1>2, <1>3

\* A receive that waits for the lock, finds its notice stale, lists the mailbox,
\* or ends without a word to the ledger.
LEMMA ReceiveWaitsPreserves ==
  ASSUME IInv, NEW p \in Procs,
         \/ AutoCall(p) \/ ReceiveLock(p) \/ ReceiveGivesUp(p) \/ ReceiveStale(p)
         \/ ReceiveList(p) \/ ReceiveFails(p) \/ (ReceiveEnds(p) /\ ~Closes(p))
  PROVE  IInv'
<1> USE DEF IInv
<1>1. CASE AutoCall(p)
  <2>1. TypeOK'
    BY <1>1, BoundsAssumption DEF AutoCall, TypeOK, Steps
  <2>2. OthersKept(p) /\ LockFollows(p)
    BY <1>1, Kinds DEF AutoCall, TypeOK, LockHeld, OthersKept, LockFollows
  <2>3. WellPlaced(p)
    BY <1>1, Ranges, Kinds DEF AutoCall, TypeOK, Roles, Items, Minting, WellPlaced
  <2>4. DrainsWell(p) /\ HintKept(p)
    BY <1>1, Ranges, Kinds
    DEF AutoCall, TypeOK, Roles, Reserved, Draining, DrainsWell, HintKept
  <2>5. LocalStep(p)
    BY <1>1, <2>2, <2>3, <2>4, Kinds
    DEF AutoCall, TypeOK, Roles, LocalStep, SkipsKept
  <2> QED
    BY <2>1, <2>5, LocalStepPreserves
<1>2. CASE ReceiveLock(p)
  <2>1. TypeOK'
    BY <1>2, BoundsAssumption DEF ReceiveLock, Locks, TypeOK, Steps
  <2>2. OthersKept(p) /\ LockFollows(p)
    BY <1>2, Kinds DEF ReceiveLock, Locks, TypeOK, LockHeld, OthersKept, LockFollows
  <2>3. WellPlaced(p)
    BY <1>2, Ranges, Kinds DEF ReceiveLock, Locks, TypeOK, Roles, Items, Minting, WellPlaced
  <2>4. DrainsWell(p) /\ HintKept(p)
    BY <1>2, Ranges, Kinds
    DEF ReceiveLock, Locks, TypeOK, Roles, Reserved, Draining, DrainsWell, HintKept
  <2>5. LocalStep(p)
    BY <1>2, <2>2, <2>3, <2>4, Kinds
    DEF ReceiveLock, Locks, TypeOK, Roles, LocalStep, SkipsKept
  <2> QED
    BY <2>1, <2>5, LocalStepPreserves
<1>3. CASE ReceiveGivesUp(p)
  <2>1. TypeOK'
    BY <1>3, BoundsAssumption DEF ReceiveGivesUp, TypeOK, Steps
  <2>2. OthersKept(p) /\ LockFollows(p)
    BY <1>3, Kinds DEF ReceiveGivesUp, TypeOK, LockHeld, OthersKept, LockFollows
  <2>3. WellPlaced(p)
    BY <1>3, Ranges, Kinds DEF ReceiveGivesUp, TypeOK, Roles, Items, Minting, WellPlaced
  <2>4. DrainsWell(p) /\ HintKept(p)
    BY <1>3, Ranges, Kinds
    DEF ReceiveGivesUp, TypeOK, Roles, Reserved, Draining, DrainsWell, HintKept
  <2>5. LocalStep(p)
    BY <1>3, <2>2, <2>3, <2>4, Kinds
    DEF ReceiveGivesUp, TypeOK, Roles, LocalStep, SkipsKept
  <2> QED
    BY <2>1, <2>5, LocalStepPreserves
<1>4. CASE ReceiveStale(p)
  <2>1. TypeOK'
    BY <1>4, BoundsAssumption DEF ReceiveStale, TypeOK, Steps
  <2>2. OthersKept(p) /\ LockFollows(p)
    BY <1>4, Kinds DEF ReceiveStale, TypeOK, LockHeld, OthersKept, LockFollows
  <2>3. WellPlaced(p)
    BY <1>4, Ranges, Kinds DEF ReceiveStale, TypeOK, Roles, Items, Minting, WellPlaced
  <2>4. DrainsWell(p) /\ HintKept(p)
    BY <1>4, Ranges, Kinds
    DEF ReceiveStale, TypeOK, Roles, Reserved, Draining, DrainsWell, HintKept
  <2>5. LocalStep(p)
    BY <1>4, <2>2, <2>3, <2>4, Kinds
    DEF ReceiveStale, TypeOK, Roles, LocalStep, SkipsKept
  <2> QED
    BY <2>1, <2>5, LocalStepPreserves
<1>5. CASE ReceiveList(p)
  <2> USE <1>5 DEF ReceiveList
  <2>0. /\ TypeOK /\ pc[p] = "check" /\ lock = p
        /\ skipped' \subseteq pending
        /\ batch' = [batch EXCEPT ![p] = pending \ skipped']
        /\ faults' \in Nat /\ (faults' = 0 => faults = 0 /\ skipped' = {})
    BY ListsWhatItReads DEF LockHeld
  <2>1. TypeOK'
    BY <2>0, BoundsAssumption DEF TypeOK, Steps
  <2>2. OthersKept(p) /\ LockFollows(p)
    BY <2>0, Kinds DEF TypeOK, LockHeld, OthersKept, LockFollows
  <2>3. WellPlaced(p)
    BY <2>0, Ranges, Kinds DEF TypeOK, Roles, Items, Minting, WellPlaced
  <2>4. DrainsWell(p) /\ HintKept(p)
    BY <2>0, Ranges, Kinds
    DEF TypeOK, Roles, Reserved, Draining, DrainsWell, HintKept
  <2>5. LocalStep(p)
    BY <2>0, <2>2, <2>3, <2>4, Kinds DEF TypeOK, Roles, LocalStep, SkipsKept
  <2> QED
    BY <2>1, <2>5, LocalStepPreserves
<1>6. CASE ReceiveFails(p)
  <2>1. TypeOK'
    BY <1>6, BoundsAssumption DEF ReceiveFails, TypeOK, Steps
  <2>2. OthersKept(p) /\ LockFollows(p)
    BY <1>6, Kinds DEF ReceiveFails, TypeOK, LockHeld, OthersKept, LockFollows
  <2>3. WellPlaced(p)
    BY <1>6, Ranges, Kinds DEF ReceiveFails, TypeOK, Roles, Items, Minting, WellPlaced
  <2>4. DrainsWell(p) /\ HintKept(p)
    BY <1>6, Ranges, Kinds
    DEF ReceiveFails, TypeOK, Roles, Reserved, Draining, DrainsWell, HintKept
  <2>5. LocalStep(p)
    BY <1>6, <2>2, <2>3, <2>4, Kinds
    DEF ReceiveFails, TypeOK, Roles, LocalStep, SkipsKept
  <2> QED
    BY <2>1, <2>5, LocalStepPreserves
<1>7. CASE ReceiveEnds(p) /\ ~Closes(p)
  <2>1. TypeOK'
    BY <1>7, BoundsAssumption DEF ReceiveEnds, Closes, Returns, TypeOK, Steps
  <2>2. OthersKept(p) /\ LockFollows(p)
    BY <1>7, Kinds
    DEF ReceiveEnds, Closes, Returns, TypeOK, LockHeld, OthersKept, LockFollows
  <2>3. WellPlaced(p)
    BY <1>7, Ranges, Kinds
    DEF ReceiveEnds, Closes, Returns, TypeOK, Roles, Items, Minting, WellPlaced
  <2>4. DrainsWell(p) /\ HintKept(p)
    BY <1>7, Ranges, Kinds
    DEF ReceiveEnds, Closes, Returns, TypeOK, Roles, Reserved, Draining, DrainsWell,
        HintKept
  <2>5. LocalStep(p)
    BY <1>7, <2>2, <2>3, <2>4, Kinds
    DEF ReceiveEnds, Closes, Returns, TypeOK, Roles, LocalStep, SkipsKept
  <2> QED
    BY <2>1, <2>5, LocalStepPreserves
<1> QED
  BY <1>1, <1>2, <1>3, <1>4, <1>5, <1>6, <1>7

\* The operating system releases the lock of a killed process; a reservation it
\* had made stays in the ledger.
LEMMA CrashPreserves ==
  ASSUME IInv, NEW p \in Procs,
         Crash(p) \/ AgentDies(p)
  PROVE  IInv'
<1> USE DEF IInv
<1>1. CASE Crash(p)
  <2>1. TypeOK'
    BY <1>1, BoundsAssumption DEF Crash, TypeOK, Steps
  <2>2. OthersKept(p) /\ LockFollows(p)
    BY <1>1, Kinds DEF Crash, TypeOK, LockHeld, OthersKept, LockFollows
  <2>3. WellPlaced(p)
    BY <1>1, Ranges, Kinds DEF Crash, TypeOK, Roles, Items, Minting, WellPlaced
  <2>4. DrainsWell(p) /\ HintKept(p)
    BY <1>1, Ranges, Kinds
    DEF Crash, TypeOK, Roles, Reserved, Draining, DrainsWell, HintKept
  <2>5. LocalStep(p)
    BY <1>1, <2>2, <2>3, <2>4, Kinds
    DEF Crash, TypeOK, Roles, LocalStep, SkipsKept
  <2> QED
    BY <2>1, <2>5, LocalStepPreserves
<1>2. CASE AgentDies(p)
  <2>1. TypeOK'
    BY <1>2, BoundsAssumption DEF AgentDies, TypeOK, Steps
  <2>2. OthersKept(p) /\ LockFollows(p)
    BY <1>2, Kinds DEF AgentDies, TypeOK, LockHeld, OthersKept, LockFollows
  <2>3. WellPlaced(p)
    BY <1>2, Ranges, Kinds DEF AgentDies, TypeOK, Roles, Items, Minting, WellPlaced
  <2>4. DrainsWell(p) /\ HintKept(p)
    BY <1>2, Ranges, Kinds
    DEF AgentDies, TypeOK, Roles, Reserved, Draining, DrainsWell, HintKept
  <2>5. LocalStep(p)
    BY <1>2, <2>2, <2>3, <2>4, Kinds
    DEF AgentDies, TypeOK, Roles, LocalStep, SkipsKept
  <2> QED
    BY <2>1, <2>5, LocalStepPreserves
<1> QED
  BY <1>1, <1>2

-----------------------------------------------------------------------------
\* Messages arrive, and are announced.

\* Push stores a message that nobody was told of yet.
LEMMA PushPreserves ==
  ASSUME IInv, NEW p \in Procs, NEW i \in Ids \cup {NoId}, Push(p, i)
  PROVE  IInv'
<1> USE DEF IInv, Push
<1>1. i \in Ids \ Published /\ pc[p] = "idle"
  OBVIOUS
<1>2. TypeOK'
  BY <1>1, BoundsAssumption DEF TypeOK, Steps, LedgerStates
<1>3. LockHeld' /\ Roles'
  BY <1>1, Kinds, Ranges DEF TypeOK, LockHeld, Roles
<1>4. Items'
  BY <1>1, Ranges DEF TypeOK, LockHeld, Roles, Items
<1>5. Minting' /\ Reserved'
  BY <1>1, Ranges DEF TypeOK, LockHeld, Roles, Reserved, Minting
<1>6. Draining'
  BY <1>1 DEF TypeOK, LockHeld, Roles, Items, Reserved, Draining
<1>7. HintStays'
  BY <1>1 DEF TypeOK, LockHeld, Roles, Reserved, Draining, HintStays, QueuedHasHint
<1>8. NoticesObserved'
  BY <1>1
  DEF TypeOK, LockHeld, Roles, Reserved, Draining, NoticesObserved, NoOrphanedHint,
      CurrentHost
<1>9. FlightAlive'
  BY <1>1 DEF TypeOK, LockHeld, Roles, Items, Reserved, Draining, FlightAlive
<1>10. OneHint'
  BY <1>1 DEF TypeOK, LockHeld, Roles, Reserved, Minting, Draining, FlightAlive, OneHint
<1> QED
  BY <1>2, <1>3, <1>4, <1>5, <1>6, <1>7, <1>8, <1>9, <1>10


\* A message is reported as announced when its flight is under way: never once
\* it is over.
LEMMA NotifyJoinsPreserves ==
  ASSUME IInv, NEW p \in Procs, NotifyJoins(p)
  PROVE  IInv'
<1> USE DEF IInv
<1>1. TypeOK /\ LockHeld /\ Roles /\ Items /\ pc[p] = "decide" /\ p \in Notifiers
  BY DEF NotifyJoins, Roles
<1>2. serving[p] = NoNotice /\ lock = p /\ item[p] \in Published
  BY <1>1, Kinds DEF Roles, LockHeld, Items
<1>3. /\ ledger.coal /\ ledger.v2 /\ ledger.state \in {"queued", "receiving"}
      /\ UNCHANGED <<payload, env, minted, host, observed, skipped, faults>>
      /\ announced' = announced \cup {item[p]} /\ lock' = Nobody
  BY <1>1 DEF NotifyJoins, Joins, FlightActive, Announces
<1>4. ledger' = [ledger EXCEPT !.notified = batch[p]]
  BY DEF NotifyJoins
<1>5. /\ ledger' \in [id : Notices \cup {Legacy, NoNotice}, state : LedgerStates, v2 : BOOLEAN,
                      coal : BOOLEAN, gen : Nat, notified : SUBSET Ids, until : Nat]
      /\ ledger'.id = ledger.id /\ ledger'.state = ledger.state /\ ledger'.v2 = ledger.v2
      /\ ledger'.coal = ledger.coal
  BY <1>1, <1>4 DEF TypeOK
<1>6. /\ OthersKept(p) /\ pc'[p] = "idle" /\ item'[p] = NoId /\ batch'[p] = {}
      /\ count'[p] = 0 /\ serving' = serving /\ out'[p] = "none"
  BY <1>1, <1>2 DEF NotifyJoins, TypeOK, OthersKept
<1>7. TypeOK'
  BY <1>1, <1>2, <1>3, <1>5, BoundsAssumption, Ranges DEF NotifyJoins, TypeOK, Steps
<1> USE DEF OthersKept
<1>8. LockHeld' /\ Roles' /\ Items'
  BY <1>1, <1>2, <1>3, <1>6, Kinds DEF LockHeld, Roles, Items
<1>9. Minting' /\ Reserved' /\ Draining'
  BY <1>1, <1>2, <1>3, <1>5, <1>6, ZenonT(60)
  DEF LockHeld, Minting, Reserved, Draining
<1>10. HintStays' /\ NoticesObserved'
  BY <1>1, <1>2, <1>3, <1>5, <1>6
  DEF LockHeld, HintStays, QueuedHasHint, NoticesObserved, NoOrphanedHint
<1>11. FlightAlive'
  BY <1>1, <1>2, <1>3, <1>5, <1>6 DEF LockHeld, FlightAlive
<1>12. OneHint'
  BY <1>1, <1>2, <1>3, <1>5, <1>6 DEF LockHeld, OneHint
<1> QED
  BY <1>7, <1>8, <1>9, <1>10, <1>11, <1>12

\* ... or when an earlier signal named it.
LEMMA NotifyKnownPreserves ==
  ASSUME IInv, NEW p \in Procs, NotifyKnown(p)
  PROVE  IInv'
<1> USE DEF IInv
<1>1. /\ TypeOK /\ LockHeld /\ Roles /\ Items
      /\ pc[p] = "decide" /\ p \in Notifiers /\ item[p] \in Published
      /\ ledger.state \in {"written", "queued"}
  BY DEF NotifyKnown, Known, Roles, Items
<1>2. serving[p] = NoNotice /\ lock = p
  BY <1>1, Kinds DEF Roles, LockHeld
<1>3. /\ UNCHANGED <<payload, ledger, env, minted, host, observed, skipped, faults>>
      /\ announced' = announced \cup {item[p]} /\ lock' = Nobody
  BY DEF NotifyKnown, Announces
<1>4. /\ OthersKept(p) /\ pc'[p] = "idle" /\ item'[p] = NoId /\ batch'[p] = {}
      /\ count'[p] = 0 /\ serving' = serving /\ out'[p] = "none"
  BY <1>1, <1>2 DEF NotifyKnown, TypeOK, OthersKept
<1>5. TypeOK'
  <2>1. announced' \subseteq Ids
    BY <1>1, <1>3 DEF TypeOK
  <2> QED
    BY <1>1, <1>3, <2>1, BoundsAssumption DEF NotifyKnown, TypeOK, Steps
<1> USE DEF OthersKept
<1>6. LockHeld' /\ Roles' /\ Items'
  BY <1>1, <1>2, <1>3, <1>4, Kinds DEF LockHeld, Roles, Items
<1>7. Minting' /\ Reserved' /\ Draining'
  BY <1>1, <1>2, <1>3, <1>4, ZenonT(60)
  DEF LockHeld, Minting, Reserved, Draining
<1>8. HintStays' /\ NoticesObserved'
  BY <1>1, <1>2, <1>3, <1>4
  DEF LockHeld, HintStays, QueuedHasHint, NoticesObserved, NoOrphanedHint
<1>9. FlightAlive' /\ OneHint'
  BY <1>1, <1>2, <1>3, <1>4 DEF LockHeld, FlightAlive, OneHint
<1> QED
  BY <1>5, <1>6, <1>7, <1>8, <1>9

-----------------------------------------------------------------------------
\* A notice is reserved, submitted and recorded.

\* A new notice replaces one that was observed or was never accepted; a notice
\* that the host may have keeps its id.
LEMMA SubmitsPreserves ==
  ASSUME IInv, NEW p \in Procs, NEW id \in Notices \cup {Legacy},
         MustSignal(p), Submits(p, id),
         \/ compat /\ ~KeepsNotice /\ minted' = minted + 1 /\ id = minted' /\ id \in Notices
         \/ compat /\ KeepsNotice /\ minted' = minted /\ id = ledger.id
         \/ ~compat /\ minted' = minted /\ id = Legacy
  PROVE  IInv'
<1> USE DEF IInv
<1>1. /\ TypeOK /\ LockHeld /\ Roles /\ Items /\ Minting /\ Reserved
      /\ pc[p] = "decide" /\ p \in Notifiers /\ item[p] \in Published
  BY DEF MustSignal, Roles, Items
<1>2. serving[p] = NoNotice /\ lock = p
  BY <1>1, Kinds DEF Roles, LockHeld
<1>3. /\ UNCHANGED <<payload, lock, env, host, announced, observed, skipped, faults>>
      /\ UNCHANGED <<item, batch, count, serving, out>>
  BY DEF Submits
<1>4. pc'[p] = "host" /\ OthersKept(p)
  BY <1>1 DEF Submits, TypeOK, OthersKept
<1>5. /\ ledger'.id = id /\ ledger'.state = "submitting" /\ ledger'.v2 = compat
      /\ ledger'.coal = FALSE
      /\ ledger' \in [id : Notices \cup {Legacy, NoNotice}, state : LedgerStates, v2 : BOOLEAN,
                      coal : BOOLEAN, gen : Nat, notified : SUBSET Ids, until : Nat]
  BY <1>1 DEF Submits, TypeOK, LedgerStates
<1>6. minted' \in 0 .. MaxNotices /\ minted <= minted' /\ (id \in Notices => id <= minted')
  BY <1>1, Ranges DEF Minting, TypeOK
<1>7. TypeOK'
  BY <1>1, <1>3, <1>5, <1>6 DEF Submits, TypeOK, Steps
<1> USE DEF OthersKept
<1>8. LockHeld' /\ Roles' /\ Items'
  BY <1>1, <1>2, <1>3, <1>4, Kinds DEF LockHeld, Roles, Items
<1>9. Minting'
  BY <1>1, <1>2, <1>3, <1>4, <1>5, <1>6, Ranges DEF LockHeld, Minting, TypeOK
<1>10. Reserved'
  BY <1>1, <1>2, <1>3, <1>4, <1>5, Ranges DEF KeepsNotice, LockHeld, Reserved
<1>11. Draining' /\ HintStays'
  BY <1>1, <1>2, <1>3, <1>4, <1>5
  DEF LockHeld, Draining, HintStays, QueuedHasHint
<1>12. NoticesObserved'
  <2>1. ASSUME CurrentHost PROVE compat /\ ledger.state \notin {"written", "deferred"}
    BY <1>1, <2>1 DEF CurrentHost, Reserved
  <2>2. ASSUME CurrentHost, ledger.state # "none"
        PROVE  id = ledger.id \/ (hints \cup inflight) \ observed = {}
    BY <1>1, <2>1, <2>2, Ranges
    DEF CurrentHost, MustSignal, KeepsNotice, Joins, FlightActive, Reserved, NoticesObserved,
        NoOrphanedHint, TypeOK, LedgerStates
  <2> QED
    BY <1>3, <1>5, <2>2 DEF NoticesObserved, NoOrphanedHint
<1>13. FlightAlive'
  BY <1>1, <1>2, <1>3, <1>4, <1>5 DEF LockHeld, FlightAlive
<1>14. OneHint'
  BY <1>1, <1>2, <1>3, <1>4, <1>5, Ranges
  DEF LockHeld, MustSignal, KeepsNotice, Joins, FlightActive, Reserved, Minting,
      FlightAlive, OneHint, TypeOK
<1> QED
  BY <1>7, <1>8, <1>9, <1>10, <1>11, <1>12, <1>13, <1>14

\* notifyPending mints a notice, submits that of the flight again, or wakes an
\* older receiver without one.
LEMMA NotifySubmitsPreserves ==
  ASSUME IInv, NEW p \in Procs, NotifyAnew(p) \/ NotifyRetries(p) \/ NotifyLegacy(p)
  PROVE  IInv'
<1>1. CASE NotifyAnew(p)
  <2>1. minted' \in Notices
    BY <1>1, Ranges DEF NotifyAnew, MustSignal, IInv, TypeOK, Minting
  <2> QED
    BY <1>1, <2>1, SubmitsPreserves DEF NotifyAnew
<1>2. CASE NotifyRetries(p)
  <2>1. ledger.id \in Notices
    BY <1>2 DEF NotifyRetries, KeepsNotice, IInv, Reserved
  <2> QED
    BY <1>2, <2>1, SubmitsPreserves DEF NotifyRetries
<1>3. CASE NotifyLegacy(p)
  BY <1>3, SubmitsPreserves DEF NotifyLegacy
<1> QED
  BY <1>1, <1>2, <1>3

\* The host call: what the host has, or may get, is the hint of the reservation.
LEMMA HostPreserves ==
  ASSUME IInv, NEW p \in Procs,
         \/ \E receipt \in Receipts : HostTakes(p, receipt)
         \/ HostDefers(p) \/ HostFails(p) \/ HostUncertain(p)
  PROVE  IInv'
<1> USE DEF IInv
<1>1. /\ TypeOK /\ LockHeld /\ Roles /\ Items /\ Minting /\ Reserved
      /\ pc[p] = "host" /\ p \in Notifiers /\ item[p] \in Published /\ ledger.id # NoNotice
  BY
  DEF HostTakes, HostDefers, HostFails, HostUncertain, HostAnswers, Roles, Items,
      Reserved
<1>2. serving[p] = NoNotice /\ lock = p /\ ledger.state = "submitting"
  BY <1>1, Kinds DEF Roles, LockHeld, Reserved
<1>3. /\ UNCHANGED <<payload, ledger, lock, env, minted, announced, observed, skipped>>
      /\ UNCHANGED <<item, batch, count, serving>>
  BY DEF HostTakes, HostDefers, HostFails, HostUncertain, HostAnswers
<1>4. pc'[p] = "record" /\ OthersKept(p)
  BY <1>1
  DEF HostTakes, HostDefers, HostFails, HostUncertain, HostAnswers, TypeOK,
      OthersKept
<1>5. \/ /\ out'[p] \in Receipts /\ faults' = faults /\ inflight' = inflight
         /\ hints' = IF out'[p] = "deferred" THEN hints ELSE hints \cup {ledger.id}
      \/ /\ out'[p] \in {"failed", "uncertain"} /\ faults' # 0 /\ faults' \in Nat
         /\ hints \subseteq hints' /\ inflight \subseteq inflight'
         /\ hints' \cup inflight' \subseteq hints \cup inflight \cup {ledger.id}
  BY <1>1 DEF HostTakes, HostDefers, HostFails, HostUncertain, HostAnswers, TypeOK
<1>6. TypeOK'
  BY <1>1, <1>3, <1>5
  DEF HostTakes, HostDefers, HostFails, HostUncertain, HostAnswers, TypeOK, Steps
<1> USE DEF OthersKept
<1>7. LockHeld' /\ Roles' /\ Items'
  BY <1>1, <1>2, <1>3, <1>4, Kinds DEF LockHeld, Roles, Items
<1>8. Minting' /\ Reserved'
  BY <1>1, <1>2, <1>3, <1>4, <1>5 DEF LockHeld, Minting, Reserved
<1>9. Draining'
  BY <1>1, <1>2, <1>3, <1>4 DEF LockHeld, Draining
<1>10. HintStays'
  BY <1>1, <1>2, <1>3, <1>4, <1>5, KindsAssumption DEF LockHeld, HintStays, QueuedHasHint
<1>11. NoticesObserved'
  BY <1>2, <1>3, <1>5 DEF NoticesObserved, NoOrphanedHint
<1>12. FlightAlive'
  BY <1>1, <1>2, <1>3, <1>4, <1>5, KindsAssumption DEF LockHeld, FlightAlive
<1>13. OneHint'
  BY <1>1, <1>2, <1>3, <1>4, <1>5 DEF LockHeld, OneHint
<1> QED
  BY <1>6, <1>7, <1>8, <1>9, <1>10, <1>11, <1>12, <1>13

\* The host's answer is recorded: a flight that was queued has its hint.
LEMMA RecordPreserves ==
  ASSUME IInv, NEW p \in Procs, RecordError(p) \/ RecordReceipt(p)
  PROVE  IInv'
<1> USE DEF IInv
<1>1. /\ TypeOK /\ LockHeld /\ Roles /\ Items /\ Minting /\ Reserved
      /\ pc[p] = "record" /\ p \in Notifiers /\ item[p] \in Published /\ ledger.id # NoNotice
  BY DEF RecordError, RecordReceipt, Roles, Items, Reserved
<1>2. serving[p] = NoNotice /\ lock = p
  BY <1>1, Kinds DEF Roles, LockHeld
<1>3. /\ UNCHANGED <<payload, env, minted, host, observed, skipped, faults>>
      /\ lock' = Nobody
  BY DEF RecordError, RecordReceipt, Announces
<1>4. /\ OthersKept(p) /\ pc'[p] = "idle" /\ item'[p] = NoId /\ batch'[p] = {}
      /\ count'[p] = 0 /\ serving' = serving /\ out'[p] = "none"
  BY <1>1, <1>2 DEF RecordError, RecordReceipt, TypeOK, OthersKept
<1>5. /\ ledger'.id = ledger.id /\ ledger'.state = out[p] /\ ledger'.v2 = ledger.v2
      /\ \/ /\ out[p] \in {"failed", "uncertain"}
            /\ ledger'.coal = ledger.coal /\ announced' = announced
         \/ /\ out[p] \in Receipts /\ ledger'.coal = (ledger.v2 /\ out[p] = "queued")
            /\ announced' = IF out[p] = "deferred" THEN announced ELSE announced \cup {item[p]}
  BY <1>1 DEF RecordError, RecordReceipt, Announces, TypeOK
<1>6. ledger' \in [id : Notices \cup {Legacy, NoNotice}, state : LedgerStates, v2 : BOOLEAN,
                   coal : BOOLEAN, gen : Nat, notified : SUBSET Ids, until : Nat]
  <2>1. CASE RecordError(p)
    BY <1>1, <2>1 DEF RecordError, TypeOK, LedgerStates
  <2>2. CASE RecordReceipt(p)
    <3>1. out[p] \in LedgerStates
      BY <2>2, KindsAssumption DEF RecordReceipt, LedgerStates
    <3>2. (ledger.v2 /\ out[p] = "queued") \in BOOLEAN
      OBVIOUS
    <3> QED
      BY <1>1, <2>2, <3>1, <3>2 DEF RecordReceipt, TypeOK
  <2> QED
    BY <2>1, <2>2
<1>7. TypeOK'
  <2>1. announced' \subseteq Ids
    BY <1>1, <1>5 DEF TypeOK
  <2>2. /\ pc' \in [Procs -> Steps] /\ item' \in [Procs -> Ids \cup {NoId}]
        /\ batch' \in [Procs -> SUBSET Ids] /\ count' \in [Procs -> 0 .. Limit]
        /\ out' \in [Procs -> {"none", "failed", "uncertain"} \cup Receipts]
    BY <1>1, BoundsAssumption DEF RecordError, RecordReceipt, TypeOK, Steps
  <2> QED
    BY <1>1, <1>3, <1>4, <1>6, <2>1, <2>2 DEF TypeOK
<1> USE DEF OthersKept
<1>8. LockHeld' /\ Roles' /\ Items'
  BY <1>1, <1>2, <1>3, <1>4, <1>5, Kinds DEF LockHeld, Roles, Items
<1>9. Minting' /\ Reserved'
  BY <1>1, <1>2, <1>3, <1>4, <1>5, ZenonT(60) DEF LockHeld, Minting, Reserved
<1>10. Draining'
  BY <1>1, <1>2, <1>3, <1>4, <1>5, KindsAssumption
  DEF LockHeld, Draining
<1>11. HintStays'
  BY <1>1, <1>2, <1>3, <1>4, <1>5, KindsAssumption, ZenonT(60)
  DEF LockHeld, Reserved, HintStays, QueuedHasHint
<1>12. NoticesObserved'
  BY <1>1, <1>2, <1>3, <1>5
  DEF Reserved, NoticesObserved, NoOrphanedHint, CurrentHost, TypeOK
<1>13. FlightAlive'
  BY <1>1, <1>2, <1>3, <1>4, <1>5, KindsAssumption DEF LockHeld, FlightAlive
<1>14. OneHint'
  BY <1>1, <1>2, <1>3, <1>4, <1>5, KindsAssumption, ZenonT(60)
  DEF LockHeld, Reserved, FlightAlive, OneHint
<1> QED
  BY <1>7, <1>8, <1>9, <1>10, <1>11, <1>12, <1>13, <1>14

-----------------------------------------------------------------------------
\* A hint is served, and the mailbox drained.

\* A hint leaves the host's queue for the agent that serves it.
LEMMA HintArrivesPreserves ==
  ASSUME IInv, NEW a \in Procs, NEW n, HintArrives(a, n)
  PROVE  IInv'
<1> USE DEF IInv
<1>1. /\ TypeOK /\ LockHeld /\ Roles /\ Items /\ Minting
      /\ a \in Agents /\ pc[a] = "idle" /\ n \in hints /\ n # NoNotice
  BY Ranges DEF HintArrives, TypeOK
<1>2. serving[a] = NoNotice
  BY <1>1 DEF Roles
<1>3. /\ UNCHANGED <<payload, ledger, lock, env, minted, inflight, history>>
      /\ UNCHANGED <<item, batch, count, out>> /\ hints' = hints \ {n}
  BY DEF HintArrives
<1>4. OthersKept(a) /\ pc'[a] = "receive" /\ serving'[a] = n
  BY <1>1 DEF HintArrives, TypeOK, OthersKept
<1>5. TypeOK'
  BY <1>1, <1>3 DEF HintArrives, TypeOK, Steps
<1> USE DEF OthersKept
<1>6. LockHeld' /\ Roles' /\ Items'
  BY <1>1, <1>3, <1>4, Kinds DEF LockHeld, Roles, Items
<1>7. Minting' /\ Reserved'
  BY <1>1, <1>3, <1>4 DEF Minting, Reserved
<1>8. Draining'
  BY <1>1, <1>3, <1>4 DEF Draining
<1>9. Reserved /\ (ledger.v2 /\ HintComing(ledger.id) => HintComing(ledger.id)')
  BY <1>1, <1>2, <1>3, <1>4, Ranges DEF Reserved
<1>10. HintStays'
  BY <1>3, <1>4, <1>9 DEF HintStays, QueuedHasHint, Reserved
<1>11. NoticesObserved'
  BY <1>3 DEF NoticesObserved, NoOrphanedHint
<1>12. FlightAlive'
  BY <1>1, <1>3, <1>4, <1>9 DEF FlightAlive
<1>13. OneHint'
  BY <1>1, <1>3, <1>4 DEF OneHint
<1> QED
  BY <1>5, <1>6, <1>7, <1>8, <1>10, <1>11, <1>12, <1>13

\* The flight of a notice becomes receiving, and received if the listing was
\* empty: all that was announced and could be read had been in the listing.
LEMMA ReceiveMarkPreserves ==
  ASSUME IInv, NEW r \in Procs, ReceiveMark(r)
  PROVE  IInv'
<1> USE DEF IInv
<1>1. TypeOK /\ LockHeld /\ Roles /\ Items /\ Minting /\ Reserved /\ Draining /\ pc[r] = "mark"
  BY DEF ReceiveMark
<1>2. /\ lock = r /\ serving[r] \in Notices /\ ledger.id = serving[r] /\ ledger.v2
      /\ announced \cap pending \subseteq batch[r] \cup skipped /\ r \in Agents
  BY <1>1, Ranges DEF LockHeld, Draining, Roles
<1>3. /\ UNCHANGED <<payload, lock, env, minted, host, item, batch, count, serving, out>>
      /\ UNCHANGED <<announced, skipped, faults>> /\ observed' = observed \cup {ledger.id}
  BY <1>2 DEF ReceiveMark
<1>4. pc'[r] = "claim" /\ OthersKept(r)
  BY <1>1 DEF ReceiveMark, TypeOK, OthersKept
<1>5. /\ ledger'.id = ledger.id /\ ledger'.v2 = ledger.v2 /\ ledger'.coal = TRUE
      /\ ledger'.state = IF batch[r] = {} THEN "received" ELSE "receiving"
      /\ ledger' \in [id : Notices \cup {Legacy, NoNotice}, state : LedgerStates, v2 : BOOLEAN,
                      coal : BOOLEAN, gen : Nat, notified : SUBSET Ids, until : Nat]
  <2>1. now \in Nat /\ now + Drain \in Nat
    BY <1>1, BoundsAssumption DEF TypeOK
  <2>2. CASE batch[r] = {}
    BY <1>1, <2>1, <2>2 DEF ReceiveMark, TypeOK, LedgerStates
  <2>3. CASE batch[r] # {}
    BY <1>1, <2>1, <2>3 DEF ReceiveMark, TypeOK, LedgerStates
  <2> QED
    BY <2>2, <2>3
<1>6. TypeOK'
  BY <1>1, <1>2, <1>3, <1>5 DEF ReceiveMark, TypeOK, Steps
<1> USE DEF OthersKept
<1>7. LockHeld' /\ Roles' /\ Items'
  BY <1>1, <1>2, <1>3, <1>4, Kinds DEF LockHeld, Roles, Items
<1>8. Minting' /\ Reserved'
  BY <1>1, <1>2, <1>3, <1>4, <1>5 DEF LockHeld, Minting, Reserved
<1>9. Draining'
  BY <1>1, <1>2, <1>3, <1>4, <1>5 DEF LockHeld, Draining
<1>10. HintStays'
  BY <1>1, <1>2, <1>3, <1>4, <1>5 DEF LockHeld, HintStays, QueuedHasHint
<1>11. NoticesObserved'
  BY <1>1, <1>2, <1>3, <1>5 DEF NoticesObserved, NoOrphanedHint, Reserved
<1>12. FlightAlive'
  BY <1>1, <1>2, <1>3, <1>4, <1>5 DEF LockHeld, FlightAlive
<1>13. OneHint'
  BY <1>1, <1>2, <1>3, <1>4, <1>5 DEF LockHeld, OneHint
<1> QED
  BY <1>6, <1>7, <1>8, <1>9, <1>10, <1>11, <1>12, <1>13

\* A body is claimed, or was by somebody else.
LEMMA ReceiveClaimPreserves ==
  ASSUME IInv, NEW r \in Procs, NEW i \in Ids, ReceiveClaim(r, i)
  PROVE  IInv'
<1> USE DEF IInv
<1>1. /\ TypeOK /\ LockHeld /\ Roles /\ Items /\ Minting /\ Reserved /\ Draining
      /\ pc[r] = "claim" /\ lock = r
  BY DEF ReceiveClaim, Tries, LockHeld
<1>2. /\ UNCHANGED <<ledger, lock, env, minted, host, pc, item, serving, out, history>>
      /\ batch'[r] = batch[r] \ {i} /\ \A q \in Procs \ {r} : batch'[q] = batch[q]
  BY <1>1 DEF ReceiveClaim, Tries, TypeOK
<1>3. /\ pending' = pending \ {i} /\ done' = done /\ claimed \subseteq claimed'
      /\ pending' \cup claimed' = pending \cup claimed
  BY DEF ReceiveClaim, Tries
<1>4. TypeOK'
  <2>1. count' \in [Procs -> 0 .. Limit]
    BY <1>1, BoundsAssumption DEF ReceiveClaim, Tries, TypeOK
  <2> QED
    BY <1>1, <1>2, <1>3, <2>1 DEF ReceiveClaim, Tries, TypeOK
<1>5. LockHeld' /\ Roles' /\ Items'
  BY <1>1, <1>2, <1>3 DEF LockHeld, Roles, Items
<1>6. Minting' /\ Reserved'
  BY <1>1, <1>2 DEF Minting, Reserved
<1>7. Draining'
  BY <1>1, <1>2, <1>3 DEF Draining
<1>8. HintStays'
  BY <1>2 DEF HintStays, QueuedHasHint
<1>9. NoticesObserved'
  BY <1>2 DEF NoticesObserved, NoOrphanedHint
<1>10. FlightAlive' /\ OneHint'
  BY <1>2, <1>3 DEF FlightAlive, OneHint
<1> QED
  BY <1>4, <1>5, <1>6, <1>7, <1>8, <1>9, <1>10

\* A receive that claimed nothing had nothing left to try: it closes its flight.
LEMMA ReceiveClosesPreserves ==
  ASSUME IInv, NEW r \in Procs, ReceiveEnds(r), Closes(r)
  PROVE  IInv'
<1> USE DEF IInv
<1>1. /\ TypeOK /\ LockHeld /\ Roles /\ Items /\ Minting /\ Reserved /\ Draining
      /\ pc[r] = "claim" /\ batch[r] = {} /\ count[r] = 0
  BY BoundsAssumption DEF ReceiveEnds, Closes
<1>2. /\ lock = r /\ serving[r] \in Notices /\ ledger.id = serving[r] /\ ledger.v2
      /\ announced \cap pending \subseteq skipped /\ r \in Agents /\ ledger.id \in observed
  BY <1>1, Ranges DEF LockHeld, Draining, Roles, Closes
<1>3. UNCHANGED <<payload, env, minted, host, history>> /\ lock' = Nobody
  BY DEF ReceiveEnds, Returns
<1>4. /\ OthersKept(r) /\ pc'[r] = "idle" /\ item'[r] = NoId /\ batch'[r] = {}
      /\ count'[r] = 0 /\ serving'[r] = NoNotice /\ out'[r] = "none"
  BY <1>1 DEF ReceiveEnds, Returns, TypeOK, OthersKept
<1>5. /\ ledger'.id = ledger.id /\ ledger'.v2 = ledger.v2 /\ ledger'.coal = ledger.coal
      /\ ledger'.state = "received"
      /\ ledger' \in [id : Notices \cup {Legacy, NoNotice}, state : LedgerStates, v2 : BOOLEAN,
                      coal : BOOLEAN, gen : Nat, notified : SUBSET Ids, until : Nat]
  BY <1>1 DEF ReceiveEnds, TypeOK, LedgerStates
<1>6. TypeOK'
  <2>1. /\ pc' \in [Procs -> Steps] /\ item' \in [Procs -> Ids \cup {NoId}]
        /\ batch' \in [Procs -> SUBSET Ids] /\ count' \in [Procs -> 0 .. Limit]
        /\ serving' \in [Procs -> Notices \cup {Legacy, NoNotice}]
        /\ out' \in [Procs -> {"none", "failed", "uncertain"} \cup Receipts]
    BY <1>1, BoundsAssumption DEF ReceiveEnds, Returns, TypeOK, Steps
  <2> QED
    BY <1>1, <1>3, <1>5, <2>1 DEF TypeOK
<1> USE DEF OthersKept
<1>7. LockHeld' /\ Roles' /\ Items'
  BY <1>1, <1>2, <1>3, <1>4, Kinds DEF LockHeld, Roles, Items
<1>8. Minting'
  BY <1>1, <1>2, <1>3, <1>4, <1>5, Ranges DEF LockHeld, Minting
<1>9. Reserved'
  BY <1>1, <1>2, <1>3, <1>4, <1>5 DEF LockHeld, Reserved
<1>10. Draining'
  BY <1>1, <1>2, <1>3, <1>4, <1>5 DEF LockHeld, Draining
<1>11. HintStays'
  BY <1>1, <1>2, <1>3, <1>4, <1>5 DEF LockHeld, HintStays, QueuedHasHint
<1>12. NoticesObserved'
  BY <1>1, <1>2, <1>3, <1>5 DEF NoticesObserved, NoOrphanedHint
<1>13. FlightAlive'
  BY <1>1, <1>2, <1>3, <1>4, <1>5 DEF LockHeld, FlightAlive
<1>14. OneHint'
  BY <1>1, <1>2, <1>3, <1>4, <1>5 DEF LockHeld, OneHint
<1> QED
  BY <1>6, <1>7, <1>8, <1>10, <1>11, <1>12, <1>13, <1>14, <1>9

-----------------------------------------------------------------------------
\* The host, other takers, registrations and the clock.

\* A submission that timed out reaches the host late, or never.
LEMMA LatePreserves ==
  ASSUME IInv, NEW n, LateAccept(n) \/ LateDrop(n)
  PROVE  IInv'
<1> USE DEF IInv
<1>1. /\ UNCHANGED <<payload, ledger, lock, env, minted, local, history>>
      /\ hints \subseteq hints' /\ hints' \cup inflight' \subseteq hints \cup inflight
      /\ inflight # {}
  BY DEF LateAccept, LateDrop
<1>2. TypeOK'
  BY <1>1 DEF LateAccept, LateDrop, TypeOK
<1>3. LockHeld' /\ Roles' /\ Items' /\ Minting' /\ Reserved'
  BY <1>1 DEF LockHeld, Roles, Items, Minting, Reserved
<1>4. Draining' /\ HintStays'
  BY <1>1 DEF Draining, HintStays, QueuedHasHint
<1>5. NoticesObserved'
  BY <1>1 DEF NoticesObserved, NoOrphanedHint
<1>6. FlightAlive' /\ OneHint'
  BY <1>1 DEF FlightAlive, OneHint
<1> QED
  BY <1>2, <1>3, <1>4, <1>5, <1>6

\* take and ack move bodies on, never back.
LEMMA TakenElsewherePreserves ==
  ASSUME IInv, NEW i \in Ids, TakeElsewhere(i) \/ AckElsewhere(i)
  PROVE  IInv'
<1> USE DEF IInv
<1>1. /\ UNCHANGED <<ledger, lock, env, minted, host, local, history>>
      /\ pending' = pending \ {i}
      /\ pending' \cup claimed' \subseteq pending \cup claimed
      /\ Published' = Published
  BY DEF TakeElsewhere, AckElsewhere
<1>2. TypeOK'
  BY <1>1 DEF TakeElsewhere, AckElsewhere, TypeOK
<1>3. LockHeld' /\ Roles' /\ Items' /\ Minting' /\ Reserved'
  BY <1>1 DEF LockHeld, Roles, Items, Minting, Reserved
<1>4. Draining' /\ HintStays'
  BY <1>1 DEF Draining, HintStays, QueuedHasHint
<1>5. NoticesObserved' /\ FlightAlive' /\ OneHint'
  BY <1>1 DEF NoticesObserved, NoOrphanedHint, FlightAlive, OneHint
<1> QED
  BY <1>2, <1>3, <1>4, <1>5

\* Registrations and the clock change only what the next decisions read.
LEMMA EnvironmentPreserves ==
  ASSUME IInv, (\E b \in BOOLEAN : Register(b)) \/ Tick
  PROVE  IInv'
<1> USE DEF IInv
<1>1. /\ UNCHANGED <<payload, ledger, lock, native, minted, host, local, history>>
      /\ Protocols = {TRUE} => compat' = compat
  <2>1. ASSUME NEW b \in BOOLEAN, Register(b), Protocols = {TRUE} PROVE FALSE
    <3>1. compat /\ compat \in BOOLEAN
      BY <2>1 DEF Reserved, TypeOK
    <3>2. b # compat /\ b \in {TRUE}
      BY <2>1 DEF Register
    <3> QED
      BY <3>1, <3>2
  <2> QED
    BY <2>1 DEF Register, Tick
<1>2. TypeOK'
  BY <1>1 DEF Register, Tick, TypeOK
<1>3. LockHeld' /\ Roles' /\ Items' /\ Minting' /\ Reserved'
  BY <1>1 DEF LockHeld, Roles, Items, Minting, Reserved
<1>4. Draining' /\ HintStays'
  BY <1>1 DEF Draining, HintStays, QueuedHasHint
<1>5. NoticesObserved' /\ FlightAlive' /\ OneHint'
  BY <1>1 DEF NoticesObserved, NoOrphanedHint, CurrentHost, FlightAlive, OneHint
<1> QED
  BY <1>2, <1>3, <1>4, <1>5

-----------------------------------------------------------------------------
\* The theorems.

\* The invariant holds at first.
LEMMA InitInvariant == ASSUME Init PROVE IInv
<1> USE DEF Init, IInv
<1>1. TypeOK
  BY BoundsAssumption, KindsAssumption DEF TypeOK, Steps, LedgerStates
<1>2. LockHeld /\ Roles /\ Items /\ Minting
  BY Kinds, Ranges DEF LockHeld, Roles, Items, Minting
<1>3. Reserved
  <2>1. Protocols = {TRUE} => compat
    OBVIOUS
  <2> QED
    BY <2>1 DEF Reserved
<1>4. Draining /\ HintStays
  BY DEF Draining, HintStays, QueuedHasHint
<1>5. NoticesObserved /\ FlightAlive /\ OneHint
  BY DEF NoticesObserved, NoOrphanedHint, CurrentHost, FlightAlive, OneHint
<1> QED
  BY <1>1, <1>2, <1>4, <1>5, <1>3

\* Every step of a notification, a receive, the host or the agent keeps the
\* invariant.
LEMMA StepInvariant == ASSUME IInv, [Next]_vars PROVE IInv'
<1>1. ASSUME NEW p \in Procs, Holding(p) PROVE IInv'
  <2>1. CASE \/ NotifyList(p) \/ NotifyGone(p) \/ NotifyNotClaimed(p)
             \/ NotifyNotFound(p) \/ NotifyRefused(p) \/ NotifyDelegates(p)
    BY <2>1, NotifyWaitsPreserves, NotifyLeavesPreserves
  <2>2. CASE NotifyJoins(p) \/ NotifyKnown(p)
    BY <2>2, NotifyJoinsPreserves, NotifyKnownPreserves
  <2>3. CASE NotifyAnew(p) \/ NotifyRetries(p) \/ NotifyLegacy(p)
    BY <2>3, NotifySubmitsPreserves
  <2>4. CASE (\E receipt \in Receipts : HostTakes(p, receipt)) \/ HostDefers(p)
    BY <2>4, HostPreserves
  <2>5. CASE RecordError(p) \/ RecordReceipt(p)
    BY <2>5, RecordPreserves
  <2>6. CASE ReceiveStale(p) \/ ReceiveList(p)
    BY <2>6, ReceiveWaitsPreserves
  <2>7. CASE ReceiveMark(p)
    BY <2>7, ReceiveMarkPreserves
  <2>8. CASE ReceiveEnds(p)
    BY <2>8, ReceiveWaitsPreserves, ReceiveClosesPreserves
  <2>9. CASE \E i \in Ids : ReceiveClaim(p, i)
    BY <2>9, ReceiveClaimPreserves
  <2> QED
    BY <1>1, <2>1, <2>2, <2>3, <2>4, <2>5, <2>6, <2>7, <2>8, <2>9 DEF Holding
<1>2. ASSUME NEW p \in Procs, Locking(p) PROVE IInv'
  BY <1>2, NotifyWaitsPreserves, ReceiveWaitsPreserves DEF Locking
<1>3. ASSUME NEW p \in Procs, Calls(p) PROVE IInv'
  BY <1>3, NotifyWaitsPreserves, ReceiveWaitsPreserves, PushPreserves DEF Calls
<1>4. ASSUME NEW p \in Procs, Failures(p) PROVE IInv'
  BY <1>4, NotifyWaitsPreserves, NotifyLeavesPreserves, HostPreserves, ReceiveWaitsPreserves,
     CrashPreserves DEF Failures
<1>5. ASSUME NEW p \in Procs, Wakes(p) PROVE IInv'
  BY <1>5, HintArrivesPreserves DEF Wakes
<1>6. ASSUME Environment PROVE IInv'
  BY <1>6, LatePreserves, TakenElsewherePreserves, EnvironmentPreserves DEF Environment
<1>7. CASE UNCHANGED vars
  <2>1. TypeOK' /\ LockHeld' /\ Roles' /\ Items' /\ Minting' /\ Reserved'
    BY <1>7, ZenonT(60) DEF vars, IInv, TypeOK, LockHeld, Roles, Items, Minting, Reserved
  <2>2. Draining' /\ HintStays'
    BY <1>7 DEF vars, IInv, Draining, HintStays, QueuedHasHint
  <2>3. NoticesObserved' /\ FlightAlive' /\ OneHint'
    BY <1>7 DEF vars, IInv, NoticesObserved, NoOrphanedHint, FlightAlive, OneHint
  <2> QED
    BY <2>1, <2>2, <2>3 DEF IInv
<1> QED
  BY <1>1, <1>2, <1>3, <1>4, <1>5, <1>6, <1>7 DEF Next

\* The inductive invariant of Wake: the ledger, the lock and the process that holds
\* it, the hints, and the messages announced and received fit together.
THEOREM Invariance == Spec => []IInv
<1> QED
  BY InitInvariant, StepInvariant, PTL DEF Spec

\* Nothing but a receive by notice closes a flight.
LEMMA OnlyReceiveCloses ==
  ASSUME TypeOK, Next, ledger.state # "received", ledger'.state = "received"
  PROVE  \E r \in Procs : \/ ReceiveMark(r) /\ batch[r] = {}
                          \/ ReceiveEnds(r) /\ Closes(r)
<1> USE DEF TypeOK
<1>1. ASSUME NEW q \in Procs, Holding(q)
      PROVE  (ReceiveMark(q) /\ batch[q] = {}) \/ (ReceiveEnds(q) /\ Closes(q))
  <2>1. CASE \/ NotifyList(q) \/ NotifyGone(q) \/ NotifyNotClaimed(q) \/ NotifyNotFound(q)
             \/ NotifyJoins(q) \/ NotifyKnown(q) \/ NotifyRefused(q) \/ NotifyDelegates(q)
    BY <2>1
    DEF NotifyList, NotifyGone, NotifyNotClaimed, NotifyNotFound, NotifyJoins,
        NotifyKnown, NotifyRefused, NotifyDelegates
  <2>2. CASE NotifyAnew(q) \/ NotifyRetries(q) \/ NotifyLegacy(q)
    BY <2>2 DEF NotifyAnew, NotifyRetries, NotifyLegacy, Submits
  <2>3. CASE \/ (\E receipt \in Receipts : HostTakes(q, receipt)) \/ HostDefers(q)
             \/ RecordError(q) \/ RecordReceipt(q)
    BY <2>3, KindsAssumption DEF HostTakes, HostDefers, HostAnswers, RecordError, RecordReceipt
  <2>4. CASE \/ ReceiveStale(q) \/ ReceiveList(q) \/ ReceiveMark(q) \/ ReceiveEnds(q)
             \/ \E i \in Ids : ReceiveClaim(q, i)
    BY <2>4 DEF ReceiveStale, ReceiveList, ReceiveMark, ReceiveEnds, ReceiveClaim, Tries
  <2> QED
    BY <1>1, <2>1, <2>2, <2>3, <2>4 DEF Holding
<1>2. ASSUME NEW q \in Procs, Locking(q) \/ Calls(q) \/ Failures(q) \/ Wakes(q)
      PROVE  FALSE
  BY <1>2
  DEF Locking, NotifyLock, ReceiveLock, Locks, Calls, AutoCall, Push, NotifyCall, Failures,
      NotifyGivesUp, NotifyFails, HostFails, HostUncertain, HostAnswers, RecordFails,
      ReceiveGivesUp, ReceiveFails, Crash, AgentDies, Wakes, HintArrives
<1>3. CASE Environment
  BY <1>3
  DEF Environment, LateAccept, LateDrop, TakeElsewhere, AckElsewhere, Register, Tick
<1> QED
  BY <1>1, <1>2, <1>3 DEF Next

\* receive writes "received" only when nothing is left that a sender was told of,
\* except what its own listing, made under the same lock, could not read.
THEOREM ReceivedIsDrained == Spec => ReceivedMeansDrained
<1>1. ASSUME IInv, Next, ledger.state # "received", ledger'.state = "received"
      PROVE  announced \cap pending \subseteq skipped
  <2>1. TypeOK /\ Draining
    BY <1>1 DEF IInv
  <2>2. PICK r \in Procs : \/ ReceiveMark(r) /\ batch[r] = {}
                           \/ ReceiveEnds(r) /\ Closes(r)
    BY <1>1, <2>1, OnlyReceiveCloses
  <2>3. pc[r] \in {"mark", "claim"} /\ batch[r] = {}
    BY <2>2, BoundsAssumption DEF ReceiveMark, ReceiveEnds, Closes
  <2> QED
    BY <2>1, <2>3 DEF Draining
<1>2. IInv /\ [Next]_vars
        => [ledger.state # "received" /\ ledger'.state = "received"
              => announced \cap pending \subseteq skipped]_vars
  BY <1>1 DEF vars
<1> QED
  BY <1>2, Invariance, PTL DEF Spec, ReceivedMeansDrained

\* notifyPending looks for a message where it goes next: a message that moves on
\* in the meantime is not reported as ErrNotFound, unless its pending file could
\* not be read.
THEOREM NotFoundIsTrue == Spec => NotFoundMeansUnknown
<1>1. ASSUME IInv, NEW p \in Procs, NotifyNotFound(p)
      PROVE  item[p] \notin Published \ skipped
  BY <1>1 DEF NotifyNotFound, LooksIn, IInv, Items
<1>2. IInv => [\A p \in Procs : NotifyNotFound(p) => item[p] \notin Published \ skipped]_vars
  BY <1>1
<1> QED
  BY <1>2, Invariance, PTL DEF NotFoundMeansUnknown

\* As long as no session ends while it serves a hint, a flight that the ledger
\* calls queued has its hint, whatever else fails or crashes.
THEOREM QueuedIsAPromise ==
  ASSUME "dies" \notin Faults
  PROVE  Spec => []QueuedHasHint
<1>1. IInv => QueuedHasHint
  BY DEF IInv, HintStays
<1> QED
  BY <1>1, Invariance, PTL

\* With sessions of the current protocol and a host that queues, no failure and
\* no crash makes notifyPending forget a notice whose hint may still arrive.
THEOREM HintsAreTheLedgers ==
  ASSUME CurrentHost
  PROVE  Spec => []NoOrphanedHint
<1>1. IInv => NoOrphanedHint
  BY DEF IInv, NoticesObserved
<1> QED
  BY <1>1, Invariance, PTL

\* With sessions of the current protocol and a host that takes every hint: while
\* nothing has failed, an announced message is being fetched or will be.
THEOREM WakesAreNotLost ==
  ASSUME Protocols = {TRUE}, "deferred" \notin Receipts
  PROVE  Spec => []NoLostWake
<1>1. ASSUME IInv, faults = 0, announced \cap pending # {} PROVE WakeComing
  <2>1. TypeOK /\ Roles /\ Reserved /\ FlightAlive
    BY <1>1 DEF IInv
  <2>2. ledger.state \in {"submitting", "queued", "written", "receiving"}
    BY <1>1, <2>1 DEF TypeOK, LedgerStates, FlightAlive, Reserved
  <2>3. CASE ledger.state = "submitting"
    BY <1>1, <2>1, <2>3 DEF FlightAlive, WakeComing
  <2>4. CASE ledger.state # "submitting"
    <3>1. ledger.v2 /\ ledger.id \in Notices /\ HintComing(ledger.id)
      BY <1>1, <2>1, <2>2, <2>4 DEF FlightAlive, Reserved
    <3>2. Matches(ledger.id)
      BY <2>2, <3>1
    <3>3. \A a \in Agents : serving[a] = ledger.id => pc[a] # "idle"
      BY <2>1, <3>1, Ranges DEF Roles
    <3> QED
      BY <3>1, <3>2, <3>3 DEF WakeComing
  <2> QED
    BY <2>3, <2>4
<1>2. IInv => NoLostWake
  BY <1>1 DEF NoLostWake
<1> QED
  BY <1>2, Invariance, PTL

\* Nothing but a reservation leads from the decision to the host.
LEMMA OnlySubmitsReserves ==
  ASSUME TypeOK, Next, NEW p \in Procs, pc[p] = "decide", pc'[p] = "host"
  PROVE  UNCHANGED <<hints, faults>>
<1> USE DEF TypeOK
<1>1. ASSUME NEW q \in Procs, Holding(q) PROVE UNCHANGED <<hints, faults>>
  <2>1. CASE \/ NotifyList(q) \/ NotifyGone(q) \/ NotifyNotClaimed(q) \/ NotifyNotFound(q)
             \/ NotifyJoins(q) \/ NotifyKnown(q) \/ NotifyRefused(q) \/ NotifyDelegates(q)
             \/ NotifyAnew(q) \/ NotifyRetries(q) \/ NotifyLegacy(q)
    BY <2>1
    DEF NotifyList, NotifyGone, NotifyNotClaimed, NotifyNotFound, NotifyJoins,
        NotifyKnown,
         NotifyRefused, NotifyDelegates, NotifyAnew, NotifyRetries, NotifyLegacy, Submits, Announces
  <2>2. CASE (\E receipt \in Receipts : HostTakes(q, receipt)) \/ HostDefers(q)
    BY <2>2 DEF HostTakes, HostDefers, HostAnswers
  <2>3. CASE RecordError(q) \/ RecordReceipt(q)
    BY <2>3 DEF RecordError, RecordReceipt, Announces
  <2>4. CASE \/ ReceiveStale(q) \/ ReceiveList(q) \/ ReceiveMark(q) \/ ReceiveEnds(q)
             \/ \E i \in Ids : ReceiveClaim(q, i)
    BY <2>4
    DEF ReceiveStale, ReceiveList, ReceiveMark, ReceiveEnds, Returns, ReceiveClaim,
        Tries
  <2> QED
    BY <1>1, <2>1, <2>2, <2>3, <2>4 DEF Holding
<1>2. ASSUME NEW q \in Procs, Locking(q) \/ Calls(q) PROVE UNCHANGED <<hints, faults>>
  BY <1>2 DEF Locking, NotifyLock, ReceiveLock, Locks, Calls, AutoCall, Push, NotifyCall
<1>3. ASSUME NEW q \in Procs, Failures(q) PROVE FALSE
  <2>1. CASE \/ NotifyGivesUp(q) \/ NotifyFails(q) \/ RecordFails(q) \/ ReceiveGivesUp(q)
             \/ AgentDies(q)
    BY <2>1 DEF NotifyGivesUp, NotifyFails, RecordFails, ReceiveGivesUp, AgentDies
  <2>2. CASE HostFails(q) \/ HostUncertain(q)
    BY <2>2 DEF HostFails, HostUncertain, HostAnswers
  <2>3. CASE ReceiveFails(q) \/ Crash(q)
    BY <2>3 DEF ReceiveFails, Crash
  <2> QED
    BY <1>3, <2>1, <2>2, <2>3 DEF Failures
<1>4. ASSUME NEW q \in Procs, Wakes(q) PROVE FALSE
  BY <1>4 DEF Wakes, HintArrives
<1>5. CASE Environment
  BY <1>5 DEF Environment, LateAccept, LateDrop, TakeElsewhere, AckElsewhere, Register, Tick
<1> QED
  BY <1>1, <1>2, <1>3, <1>4, <1>5 DEF Next

\* With sessions of the current protocol and hosts that queue or defer: while
\* nothing has failed, a hint in the host's queue keeps every other away.
THEOREM HintsComeOneByOne ==
  ASSUME Protocols = {TRUE}, "written" \notin Receipts
  PROVE  Spec => OneHintAtATime
<1>1. ASSUME IInv, IInv', Next, faults = 0, NEW p \in Procs, pc[p] = "decide", pc'[p] = "host"
      PROVE  hints = {}
  <2>1. UNCHANGED <<hints, faults>>
    BY <1>1, OnlySubmitsReserves DEF IInv
  <2>2. OneHint'
    BY <1>1 DEF IInv
  <2> QED
    BY <1>1, <2>1, <2>2 DEF OneHint
<1>2. IInv /\ IInv' /\ [Next]_vars =>
        [faults = 0 => \A p \in Procs : pc[p] = "decide" /\ pc'[p] = "host" => hints = {}]_vars
  BY <1>1
<1> QED
  BY <1>2, Invariance, PTL DEF OneHintAtATime, Spec
=============================================================================
