--------------------------- MODULE MailboxProofs ---------------------------
(***************************************************************************)
(* Proofs about Mailbox, for every set of ids and processes.  IInv of      *)
(* Mailbox is inductive (Invariance); the safety properties, the order in  *)
(* which TakeNext claims and the refinement of MessageStore follow from    *)
(* it.                                                                     *)
(***************************************************************************)
EXTENDS Mailbox, TLAPS

USE IdsAssumption DEF dirs, local, history, Steps, Ops, Goto, Call, Return

-----------------------------------------------------------------------------
\* The steps of one process.

\* p's step leaves the locals of every other process alone.
OthersKept(p) ==
  \A q \in Procs \ {p} :
     pc'[q] = pc[q] /\ op'[q] = op[q] /\ cur'[q] = cur[q]
     /\ todo'[q] = todo[q] /\ seen'[q] = seen[q]

\* Most steps of queue.go only decide where to go on: no file moves, and p
\* neither writes nor reads afterwards.  They keep the invariant if what p
\* goes on to claim comes from a scan it has worked off in order.
LEMMA QuietStep ==
  ASSUME IInv, TypeOK', NEW p \in Procs, OthersKept(p),
         UNCHANGED <<dirs, used, told, lost>>,
         pc'[p] \notin {"write", "publish", "read"},
         pc[p] = "read" => cur[p] \notin claimed,
         op'[p] = "next" /\ pc'[p] = "claim" =>
            seen'[p] \subseteq Published /\ (seen'[p] \ todo'[p]) \cap pending = {}
  PROVE  IInv'
<1>1. WritersApart' /\ ReadersClaimed' /\ ExclusiveClaim'
  BY DEF IInv, OthersKept, WritersApart, ReadersClaimed, ExclusiveClaim, Writing, TypeOK
<1>2. PassedOverGone'
  BY DEF IInv, OthersKept, PassedOverGone, Published, TypeOK
<1>3. StrandedOnlyByCrash'
  BY DEF IInv, OthersKept, StrandedOnlyByCrash, TypeOK
<1> QED
  BY <1>1, <1>2, <1>3 DEF IInv, OneDirectory, NoPartialBody, ToldOnce, Published

\* Push: the file p fills under tmp/ is p's alone until it is renamed.
LEMMA PushPreserves ==
  ASSUME IInv, NEW p \in Procs,
         \/ \E i \in Ids : PushBegin(p, i)
         \/ PushWrite(p) \/ PushWriteFails(p)
         \/ PushPublish(p) \/ PushPublishFails(p)
  PROVE  IInv'
<1> USE DEF IInv
<1>1. ASSUME NEW i \in Ids, PushBegin(p, i) PROVE IInv'
  <2> USE <1>1 DEF PushBegin
  <2>1. TypeOK'
    BY DEF TypeOK
  <2>2. OneDirectory' /\ NoPartialBody'
    BY DEF OneDirectory, NoPartialBody, Published, TypeOK
  <2>3. WritersApart'
    BY DEF WritersApart, Writing, TypeOK
  <2>4. ReadersClaimed' /\ ExclusiveClaim' /\ ToldOnce' /\ PassedOverGone'
    BY DEF ReadersClaimed, ExclusiveClaim, ToldOnce, PassedOverGone, Published, TypeOK
  <2>5. StrandedOnlyByCrash'
    BY DEF StrandedOnlyByCrash, TypeOK
  <2> QED
    BY <2>1, <2>2, <2>3, <2>4, <2>5
<1>2. CASE PushWrite(p)
  <2> USE <1>2 DEF PushWrite
  <2>1. TypeOK'
    BY DEF TypeOK, WritersApart, Writing
  <2>2. OneDirectory' /\ NoPartialBody'
    BY DEF OneDirectory, NoPartialBody, Published
  <2>3. WritersApart'
    BY DEF WritersApart, Writing, TypeOK
  <2>4. ReadersClaimed' /\ ExclusiveClaim' /\ ToldOnce' /\ PassedOverGone'
    BY DEF ReadersClaimed, ExclusiveClaim, ToldOnce, PassedOverGone, Published, TypeOK
  <2>5. StrandedOnlyByCrash'
    BY DEF StrandedOnlyByCrash, TypeOK
  <2> QED
    BY <2>1, <2>2, <2>3, <2>4, <2>5
<1>3. CASE PushWriteFails(p)
  <2>1. TypeOK' /\ OthersKept(p)
    BY <1>3 DEF PushWriteFails, TypeOK, OthersKept
  <2> QED
    BY <1>3, <2>1, QuietStep DEF PushWriteFails, TypeOK
<1>4. CASE PushPublish(p)
  <2> USE <1>4 DEF PushPublish
  <2>1. cur[p] \in tmp /\ cur[p] \in whole /\ cur[p] \notin Published
    BY DEF WritersApart, Writing, OneDirectory
  <2>2. TypeOK'
    BY <2>1 DEF TypeOK
  <2>3. OneDirectory' /\ NoPartialBody'
    <3>1. cur[p] \notin tmp'
      OBVIOUS
    <3> QED
      BY <2>1, <3>1 DEF OneDirectory, NoPartialBody, Published
  <2>4. WritersApart'
    BY DEF WritersApart, Writing, TypeOK
  <2>5. ReadersClaimed' /\ ExclusiveClaim' /\ ToldOnce'
    BY DEF ReadersClaimed, ExclusiveClaim, ToldOnce, TypeOK
  <2>6. PassedOverGone'
    BY <2>1 DEF PassedOverGone, Published, TypeOK
  <2>7. StrandedOnlyByCrash'
    BY DEF StrandedOnlyByCrash, TypeOK
  <2> QED
    BY <2>2, <2>3, <2>4, <2>5, <2>6, <2>7
<1>5. CASE PushPublishFails(p)
  <2> USE <1>5 DEF PushPublishFails
  <2>1. TypeOK' /\ OneDirectory' /\ NoPartialBody'
    BY DEF TypeOK, OneDirectory, NoPartialBody, Published
  <2>2. WritersApart'
    BY DEF WritersApart, Writing, TypeOK
  <2>3. ReadersClaimed' /\ ExclusiveClaim' /\ ToldOnce' /\ PassedOverGone'
    BY DEF ReadersClaimed, ExclusiveClaim, ToldOnce, PassedOverGone, Published, TypeOK
  <2>4. StrandedOnlyByCrash'
    BY DEF StrandedOnlyByCrash, TypeOK
  <2> QED
    BY <2>1, <2>2, <2>3, <2>4
<1> QED
  BY <1>1, <1>2, <1>3, <1>4, <1>5

\* TakeNext and Take: whoever renames the file owns its body.
LEMMA TakePreserves ==
  ASSUME IInv, NEW p \in Procs,
         \/ TakeNextCall(p) \/ ScanEmpty(p) \/ ScanFinds(p)
         \/ \E i \in Ids : TakeCall(p, i) \/ ClaimWins(p, i) \/ ClaimLoses(p, i)
         \/ ReadBody(p) \/ ReadGone(p)
  PROVE  IInv'
<1> USE DEF IInv
<1>1. CASE TakeNextCall(p)
  <2>1. TypeOK' /\ OthersKept(p)
    BY <1>1 DEF TakeNextCall, TypeOK, OthersKept
  <2> QED
    BY <1>1, <2>1, QuietStep DEF TakeNextCall, TypeOK
<1>0. ASSUME NEW i \in Ids, TakeCall(p, i) PROVE IInv'
  <2>1. TypeOK' /\ OthersKept(p)
    BY <1>0 DEF TakeCall, TypeOK, OthersKept
  <2> QED
    BY <1>0, <2>1, QuietStep DEF TakeCall, TypeOK
<1>2. CASE ScanEmpty(p) \/ ScanFinds(p)
  <2>1. TypeOK' /\ OthersKept(p)
    BY <1>2, ZenonT(60) DEF ScanEmpty, ScanFinds, TypeOK, OthersKept
  <2> QED
    <3>1. /\ pc[p] = "scan" /\ pc'[p] \in {"idle", "claim"}
          /\ pc'[p] = "claim" => seen'[p] = pending /\ todo'[p] = pending
          /\ UNCHANGED <<dirs, used, told, lost>>
      BY <1>2 DEF ScanEmpty, ScanFinds, TypeOK
    <3> QED
      BY <2>1, <3>1, QuietStep DEF Published
<1>3. ASSUME NEW i \in Ids, ClaimWins(p, i) PROVE IInv'
  <2> USE <1>3 DEF ClaimWins, Wins
  <2>1. TypeOK' /\ OneDirectory' /\ NoPartialBody'
    BY DEF TypeOK, OneDirectory, NoPartialBody, Published
  <2>2. WritersApart'
    BY DEF WritersApart, Writing, TypeOK
  <2>3. ReadersClaimed' /\ ToldOnce'
    BY DEF ReadersClaimed, ToldOnce, TypeOK
  <2>4. ExclusiveClaim'
    <3>1. told[i] = 0
      BY DEF ToldOnce, OneDirectory
    <3>2. \A q \in Procs : pc[q] = "read" => cur[q] # i
      BY DEF ReadersClaimed, OneDirectory
    <3> QED
      BY <3>1, <3>2 DEF ExclusiveClaim, TypeOK
  <2>5. PassedOverGone'
    BY DEF PassedOverGone, Published, TypeOK
  <2>6. StrandedOnlyByCrash'
    BY DEF StrandedOnlyByCrash, TypeOK
  <2> QED
    BY <2>1, <2>2, <2>3, <2>4, <2>5, <2>6
<1>4. ASSUME NEW i \in Ids, ClaimLoses(p, i) PROVE IInv'
  <2>1. TypeOK' /\ OthersKept(p)
    BY <1>4 DEF ClaimLoses, Misses, TypeOK, OthersKept
  <2>2. op'[p] = "next" /\ pc'[p] = "claim" =>
          seen'[p] \subseteq Published /\ (seen'[p] \ todo'[p]) \cap pending = {}
    BY <1>4 DEF ClaimLoses, Misses, PassedOverGone, TypeOK
  <2> QED
    BY <1>4, <2>1, <2>2, QuietStep DEF ClaimLoses, Misses, TypeOK
<1>5. CASE ReadBody(p)
  <2> USE <1>5 DEF ReadBody
  <2>1. cur[p] \in Ids /\ told[cur[p]] = 0
    BY DEF ExclusiveClaim, TypeOK
  <2>2. TypeOK'
    BY <2>1 DEF TypeOK
  <2>3. OneDirectory' /\ NoPartialBody' /\ WritersApart' /\ ReadersClaimed'
    BY DEF OneDirectory, NoPartialBody, Published, WritersApart, ReadersClaimed,
           Writing, TypeOK
  <2>4. ExclusiveClaim' /\ ToldOnce'
    BY <2>1 DEF ExclusiveClaim, ToldOnce, TypeOK
  <2>5. PassedOverGone' /\ StrandedOnlyByCrash'
    BY <2>1 DEF PassedOverGone, StrandedOnlyByCrash, Published, TypeOK
  <2> QED
    BY <2>2, <2>3, <2>4, <2>5
<1>6. CASE ReadGone(p)
  <2>1. TypeOK' /\ OthersKept(p)
    BY <1>6 DEF ReadGone, Misses, TypeOK, OthersKept
  <2>2. cur[p] \notin pending
    BY <1>6 DEF ReadGone, ReadersClaimed, OneDirectory
  <2>3. op'[p] = "next" /\ pc'[p] = "claim" =>
          seen'[p] \subseteq Published /\ (seen'[p] \ todo'[p]) \cap pending = {}
    BY <1>6, <2>2 DEF ReadGone, Misses, PassedOverGone, TypeOK
  <2> QED
    BY <1>6, <2>1, <2>3, QuietStep DEF ReadGone, Misses, TypeOK
<1> QED
  BY <1>0, <1>1, <1>2, <1>3, <1>4, <1>5, <1>6

\* Ack: a file leaves claimed/ or pending/ for done/, where nothing looks for
\* it.
LEMMA AckPreserves ==
  ASSUME IInv, NEW p \in Procs,
         \/ \E i \in Ids : AckCall(p, i)
         \/ AckClaimed(p) \/ AckNotClaimed(p)
         \/ AckPending(p) \/ AckMisses(p)
  PROVE  IInv'
<1> USE DEF IInv
<1>0. ASSUME NEW i \in Ids, AckCall(p, i) PROVE IInv'
  <2>1. TypeOK' /\ OthersKept(p)
    BY <1>0 DEF AckCall, TypeOK, OthersKept
  <2> QED
    BY <1>0, <2>1, QuietStep DEF AckCall, TypeOK
<1>1. ASSUME AckNotClaimed(p) \/ AckMisses(p) PROVE IInv'
  <2>1. TypeOK' /\ OthersKept(p)
    BY <1>1, ZenonT(60) DEF AckNotClaimed, AckMisses, TypeOK, OthersKept
  <2>2. /\ pc[p] # "read" /\ pc'[p] \in {"idle", "ackPending"}
        /\ UNCHANGED <<dirs, used, told, lost>>
    BY <1>1 DEF AckNotClaimed, AckMisses, TypeOK
  <2> QED
    BY <2>1, <2>2, QuietStep
<1>2. ASSUME AckClaimed(p) \/ AckPending(p) PROVE IInv'
  <2>1. /\ cur[p] \in pending \cup claimed
        /\ pending' = pending \ {cur[p]}
        /\ claimed' = claimed \ {cur[p]}
        /\ done' = done \cup {cur[p]}
        /\ Return(p)
        /\ UNCHANGED <<tmp, whole, used, now, history>>
    BY <1>2 DEF AckClaimed, AckPending, OneDirectory
  <2>2. TypeOK'
    BY <2>1 DEF TypeOK
  <2>3. OneDirectory' /\ NoPartialBody'
    BY <2>1 DEF OneDirectory, NoPartialBody, Published
  <2>4. WritersApart'
    BY <2>1 DEF WritersApart, Writing, TypeOK
  <2>5. ReadersClaimed' /\ ExclusiveClaim' /\ ToldOnce'
    BY <2>1 DEF ReadersClaimed, ExclusiveClaim, ToldOnce, TypeOK
  <2>6. PassedOverGone'
    BY <2>1 DEF PassedOverGone, Published, TypeOK
  <2>7. StrandedOnlyByCrash'
    <3>1. pc[p] # "read"
      BY <1>2 DEF AckClaimed, AckPending
    <3> QED
      BY <2>1, <3>1 DEF StrandedOnlyByCrash, TypeOK
  <2> QED
    BY <2>2, <2>3, <2>4, <2>5, <2>6, <2>7
<1> QED
  BY <1>0, <1>1, <1>2

\* Wait moves no file.
LEMMA WaitPreserves ==
  ASSUME IInv, NEW p \in Procs,
         \/ WaitCall(p) \/ WaitList(p) \/ \E i \in Ids : WaitRead(p, i) \/ WaitSkips(p, i)
         \/ WaitReturn(p) \/ WaitSleep(p) \/ WaitPoll(p) \/ WaitTimeout(p)
  PROVE  IInv'
<1> USE DEF IInv
<1>1. ASSUME WaitCall(p) \/ WaitSleep(p) \/ WaitPoll(p) PROVE IInv'
  <2>1. TypeOK' /\ OthersKept(p)
    BY <1>1 DEF WaitCall, WaitSleep, WaitPoll, TypeOK, OthersKept
  <2>2. /\ pc[p] # "read" /\ pc'[p] \in {"list", "sleep"}
        /\ UNCHANGED <<dirs, used, told, lost>>
    BY <1>1 DEF WaitCall, WaitSleep, WaitPoll, TypeOK
  <2> QED
    BY <2>1, <2>2, QuietStep
<1>2. ASSUME WaitReturn(p) \/ WaitTimeout(p) PROVE IInv'
  <2>1. TypeOK' /\ OthersKept(p)
    BY <1>2, ZenonT(60) DEF WaitReturn, WaitTimeout, TypeOK, OthersKept
  <2> QED
    BY <1>2, <2>1, QuietStep DEF WaitReturn, WaitTimeout, TypeOK
<1>3. ASSUME WaitList(p) PROVE IInv'
  <2>1. TypeOK' /\ OthersKept(p)
    BY <1>3 DEF WaitList, TypeOK, OthersKept
  <2> QED
    BY <1>3, <2>1, QuietStep DEF WaitList, TypeOK
<1>4. ASSUME NEW i \in Ids, WaitRead(p, i) PROVE IInv'
  <2>1. TypeOK' /\ OthersKept(p)
    BY <1>4 DEF WaitRead, TypeOK, OthersKept
  <2> QED
    BY <1>4, <2>1, QuietStep DEF WaitRead, TypeOK
<1>5. ASSUME NEW i \in Ids, WaitSkips(p, i) PROVE IInv'
  <2>1. TypeOK' /\ OthersKept(p)
    BY <1>5 DEF WaitSkips, TypeOK, OthersKept
  <2> QED
    BY <1>5, <2>1, QuietStep DEF WaitSkips, TypeOK
<1> QED
  BY <1>1, <1>2, <1>3, <1>4, <1>5

\* A crash leaves the files where they are; it strands what p had claimed and
\* not read.
LEMMA CrashPreserves ==
  ASSUME IInv, NEW p \in Procs, Crash(p)
  PROVE  IInv'
<1> USE DEF IInv, Crash
<1>1. TypeOK'
  <2>1. lost' \subseteq Ids
    BY DEF TypeOK
  <2>2. crashes' \in Nat
    BY DEF TypeOK
  <2> QED
    BY <2>1, <2>2 DEF TypeOK
<1>2. OneDirectory' /\ NoPartialBody' /\ WritersApart'
  BY DEF OneDirectory, NoPartialBody, Published, WritersApart, Writing, TypeOK
<1>3. ReadersClaimed' /\ ExclusiveClaim' /\ ToldOnce' /\ PassedOverGone'
  BY DEF ReadersClaimed, ExclusiveClaim, ToldOnce, PassedOverGone, Published, TypeOK
<1>4. StrandedOnlyByCrash'
  BY DEF StrandedOnlyByCrash, TypeOK
<1> QED
  BY <1>1, <1>2, <1>3, <1>4

-----------------------------------------------------------------------------
\* The invariant.

\* IInv holds in every state: whatever calls, races, failures and crashes
\* there are, a file is in one directory, every process has the file it works
\* on to itself, and what was passed over never becomes pending again.
THEOREM Invariance == Spec => []IInv
<1>1. Init => IInv
  <2> SUFFICES ASSUME Init PROVE IInv
    OBVIOUS
  <2> USE DEF Init
  <2>1. TypeOK
    BY DEF TypeOK
  <2>2. OneDirectory /\ NoPartialBody /\ StrandedOnlyByCrash
    BY DEF OneDirectory, NoPartialBody, Published, StrandedOnlyByCrash
  <2>3. WritersApart /\ ReadersClaimed /\ ExclusiveClaim /\ PassedOverGone
    BY DEF WritersApart, Writing, ReadersClaimed, ExclusiveClaim, PassedOverGone
  <2>4. ToldOnce
    BY DEF ToldOnce
  <2> QED
    BY <2>1, <2>2, <2>3, <2>4 DEF IInv
<1>2. IInv /\ [Next]_vars => IInv'
  <2> SUFFICES ASSUME IInv, [Next]_vars PROVE IInv'
    OBVIOUS
  <2>1. ASSUME NEW p \in Procs, Calls(p) PROVE IInv'
    BY <2>1, PushPreserves, TakePreserves, AckPreserves, WaitPreserves DEF Calls
  <2>2. ASSUME NEW p \in Procs, Progress(p) PROVE IInv'
    BY <2>2, PushPreserves, TakePreserves, AckPreserves, WaitPreserves DEF Progress
  <2>3. ASSUME NEW p \in Procs, Failures(p) PROVE IInv'
    BY <2>3, PushPreserves, WaitPreserves, CrashPreserves DEF Failures
  <2>4. CASE Tick
    BY <2>4 DEF Tick, IInv, TypeOK, OneDirectory, NoPartialBody, Published,
                WritersApart, Writing, ReadersClaimed, ExclusiveClaim, ToldOnce,
                PassedOverGone, StrandedOnlyByCrash
  <2>5. CASE UNCHANGED vars
    BY <2>5 DEF vars, IInv, TypeOK, OneDirectory, NoPartialBody, Published,
                WritersApart, Writing, ReadersClaimed, ExclusiveClaim, ToldOnce,
                PassedOverGone, StrandedOnlyByCrash
  <2> QED
    BY <2>1, <2>2, <2>3, <2>4, <2>5 DEF Next
<1> QED
  BY <1>1, <1>2, PTL DEF Spec

\* What a user of the queue relies on: types, and one owner per claimed
\* message, however many takers race for it (claim renames before it reads).
THEOREM MailboxSafe == Spec => [](TypeOK /\ ExclusiveClaim)
<1>1. IInv => TypeOK /\ ExclusiveClaim
  BY DEF IInv
<1> QED
  BY <1>1, Invariance, PTL

\* Push never lets a body be seen before it is complete: not during its
\* writes, nor after a failed write, a failed rename or a crash.
THEOREM BodiesAreWhole == Spec => []NoPartialBody
<1>1. IInv => NoPartialBody
  BY DEF IInv
<1> QED
  BY <1>1, Invariance, PTL

\* A claimed message that was told to nobody is being read at this moment, or
\* whoever claimed it was killed, or failed, between claim's rename and its read.
THEOREM StrandingNeedsCrash == Spec => []StrandedOnlyByCrash
<1>1. IInv => StrandedOnlyByCrash
  BY DEF IInv
<1> QED
  BY <1>1, Invariance, PTL

-----------------------------------------------------------------------------
\* The order of TakeNext.

\* The only way from claiming to reading is to have renamed the file.
LEMMA ClaimingToReading ==
  ASSUME TypeOK, [Next]_vars, NEW p \in Procs, pc[p] = "claim", pc'[p] = "read"
  PROVE  \E k \in Ids : ClaimWins(p, k)
<1> USE DEF TypeOK
<1>1. ASSUME NEW q \in Procs, Calls(q) PROVE pc'[p] # "read"
  BY <1>1 DEF Calls, TakeNextCall, WaitCall, PushBegin, TakeCall, AckCall
<1>2. ASSUME NEW q \in Procs, Failures(q) PROVE pc'[p] # "read"
  BY <1>2 DEF Failures, PushWriteFails, PushPublishFails, WaitTimeout, Crash, WaitSkips
<1>3. ASSUME NEW q \in Procs, Progress(q) PROVE \E k \in Ids : ClaimWins(p, k)
  <2>1. ASSUME NEW k \in Ids, ClaimWins(q, k) PROVE q = p
    BY <2>1 DEF ClaimWins, Wins
  <2>2. ASSUME NEW k \in Ids, ClaimLoses(q, k) \/ WaitRead(q, k) PROVE pc'[p] # "read"
    BY <2>2 DEF ClaimLoses, Misses, WaitRead
  <2>3. ReadBody(q) \/ ReadGone(q) \/ ScanEmpty(q) \/ ScanFinds(q) => pc'[p] # "read"
    BY DEF ReadBody, ReadGone, Misses, ScanEmpty, ScanFinds
  <2>4. PushWrite(q) \/ PushPublish(q) => pc'[p] # "read"
    BY DEF PushWrite, PushPublish
  <2>5. AckClaimed(q) \/ AckNotClaimed(q) \/ AckPending(q) \/ AckMisses(q)
        => pc'[p] # "read"
    BY DEF AckClaimed, AckNotClaimed, AckPending, AckMisses
  <2>6. WaitList(q) \/ WaitReturn(q) \/ WaitSleep(q) \/ WaitPoll(q) => pc'[p] # "read"
    BY DEF WaitList, WaitReturn, WaitSleep, WaitPoll
  <2> QED
    BY <1>3, <2>1, <2>2, <2>3, <2>4, <2>5, <2>6 DEF Progress
<1>4. ~Tick /\ ~UNCHANGED vars
  BY DEF Tick, vars
<1> QED
  BY <1>1, <1>2, <1>3, <1>4 DEF Next

\* TakeNext claims the oldest of what is still pending of its scan, although
\* it claims long after it scanned and after losing any number of races.
THEOREM TakeNextOrder == Spec => OldestFirst
<1> DEFINE Ordered ==
      \A p \in Procs, i \in Ids :
        (op[p] = "next" /\ pc[p] = "claim" /\ pc'[p] = "read" /\ cur'[p] = i)
        => \A j \in seen[p] \cap pending : i <= j
<1>1. IInv /\ [Next]_vars => [Ordered]_vars
  <2> SUFFICES ASSUME IInv, [Next]_vars,
                      NEW p \in Procs, NEW i \in Ids,
                      op[p] = "next", pc[p] = "claim", pc'[p] = "read", cur'[p] = i,
                      NEW j \in seen[p] \cap pending
               PROVE  i <= j
    OBVIOUS
  <2>1. PICK k \in Ids : ClaimWins(p, k)
    BY ClaimingToReading DEF IInv
  <2>2. k = i
    BY <2>1 DEF ClaimWins, Wins, IInv, TypeOK
  <2>3. j \in todo[p]
    BY DEF IInv, PassedOverGone
  <2> QED
    BY <2>1, <2>2, <2>3 DEF ClaimWins, Oldest
<1> QED
  BY <1>1, Invariance, PTL DEF Spec, OldestFirst

-----------------------------------------------------------------------------
\* The directory protocol implements MessageStore.

\* A step that moves no file and hands out no body changes nothing a user of
\* the store sees.
LEMMA InvisibleStep ==
  ASSUME UNCHANGED <<pending, claimed, done, told>>
  PROVE  UNCHANGED Store!storeVars
  BY DEF Store!storeVars, Status

\* Every step publishes, acquires, tells or finishes one message, or nothing:
\* states only move forward and no body is handed out twice.
LEMMA StepKeepsPromise ==
  ASSUME IInv, [Next]_vars PROVE [Store!Next]_(Store!storeVars)
<1> USE DEF IInv, TypeOK
<1>1. ASSUME NEW p \in Procs, PushPublish(p) PROVE Store!Next
  <2>1. cur[p] \in Ids /\ cur[p] \in tmp /\ cur[p] \notin Published
    BY <1>1 DEF PushPublish, WritersApart, Writing, OneDirectory
  <2>2. /\ pending' = pending \cup {cur[p]}
        /\ UNCHANGED <<claimed, done, told>>
    BY <1>1 DEF PushPublish
  <2>3. Status[cur[p]] = "absent"
    BY <2>1 DEF Status, Published
  <2>4. Status' = [Status EXCEPT ![cur[p]] = "pending"]
    <3>1. Status'[cur[p]] = "pending"
      BY <2>1, <2>2 DEF Status, Published
    <3>2. ASSUME NEW j \in Ids \ {cur[p]} PROVE Status'[j] = Status[j]
      <4>1. j \in pending' <=> j \in pending
        BY <2>2
      <4> QED
        BY <2>2, <4>1 DEF Status
    <3>3. Status = [j \in Ids |-> Status[j]] /\ Status' = [j \in Ids |-> Status'[j]]
      BY DEF Status
    <3> QED
      BY <2>1, <3>1, <3>2, <3>3
  <2>5. Store!Publish(cur[p])
    BY <2>2, <2>3, <2>4 DEF Store!Publish
  <2> QED
    BY <2>1, <2>5 DEF Store!Next
<1>2. ASSUME NEW p \in Procs, NEW i \in Ids, ClaimWins(p, i) PROVE Store!Next
  <2>1. Store!Acquire(i)
    BY <1>2, ZenonT(60) DEF ClaimWins, Wins, Store!Acquire, Status, OneDirectory
  <2> QED
    BY <2>1 DEF Store!Next
<1>3. ASSUME NEW p \in Procs, ReadBody(p) PROVE Store!Next
  <2>1. /\ cur[p] \in claimed /\ cur[p] \notin pending /\ cur[p] \notin done
        /\ told[cur[p]] = 0
    BY <1>3 DEF ReadBody, ExclusiveClaim, OneDirectory
  <2>2. Store!Tell(cur[p])
    BY <1>3, <2>1 DEF ReadBody, Store!Tell, Status
  <2> QED
    BY <2>1, <2>2 DEF Store!Next
<1>4. ASSUME NEW p \in Procs, AckClaimed(p) \/ AckPending(p) PROVE Store!Next
  <2>1. cur[p] \in pending \cup claimed
    BY <1>4 DEF AckClaimed, AckPending
  <2>2. Store!Finish(cur[p])
    BY <1>4, <2>1 DEF AckClaimed, AckPending, Store!Finish, Status, OneDirectory
  <2> QED
    BY <2>1, <2>2 DEF Store!Next
<1>5. ASSUME NEW p \in Procs, Calls(p) PROVE UNCHANGED <<pending, claimed, done, told>>
  BY <1>5 DEF Calls, TakeNextCall, WaitCall, PushBegin, TakeCall, AckCall
<1>6. ASSUME NEW p \in Procs, Failures(p)
      PROVE  UNCHANGED <<pending, claimed, done, told>>
  BY <1>6 DEF Failures, PushWriteFails, PushPublishFails, WaitTimeout, Crash, WaitSkips
<1>7. ASSUME NEW p \in Procs, Progress(p)
      PROVE  Store!Next \/ UNCHANGED <<pending, claimed, done, told>>
  <2>1. ASSUME NEW i \in Ids, ClaimLoses(p, i) \/ WaitRead(p, i)
        PROVE  UNCHANGED <<pending, claimed, done, told>>
    BY <2>1 DEF ClaimLoses, WaitRead
  <2>2. PushWrite(p) \/ ReadGone(p) \/ ScanEmpty(p) \/ ScanFinds(p)
        \/ AckNotClaimed(p) \/ AckMisses(p) \/ WaitList(p) \/ WaitReturn(p)
        \/ WaitSleep(p) \/ WaitPoll(p)
        => UNCHANGED <<pending, claimed, done, told>>
    BY DEF PushWrite, ReadGone, ScanEmpty, ScanFinds, AckNotClaimed, AckMisses,
           WaitList, WaitReturn, WaitSleep, WaitPoll
  <2> QED
    BY <1>1, <1>2, <1>3, <1>4, <1>7, <2>1, <2>2 DEF Progress
<1>8. Tick \/ UNCHANGED vars => UNCHANGED <<pending, claimed, done, told>>
  BY DEF Tick, vars
<1> QED
  BY <1>5, <1>6, <1>7, <1>8, InvisibleStep DEF Next

\* Mailbox implements MessageStore, with the directory of a file as the state
\* of its message.
THEOREM Refinement == Spec => KeepsPromise
<1>1. Init => Store!Init
  BY DEF Init, Store!Init, Status
<1>2. IInv /\ [Next]_vars => [Store!Next]_(Store!storeVars)
  BY StepKeepsPromise
<1> QED
  BY <1>1, <1>2, Invariance, PTL DEF Spec, KeepsPromise, Store!Spec

=============================================================================
