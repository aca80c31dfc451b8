------------------------------ MODULE Mailbox ------------------------------
(***************************************************************************)
(* queue.go: the directories of one target and the operations on them, one *)
(* action per system call, so that the calls of several processes          *)
(* interleave as they do on a shared file system.  A file is the id it     *)
(* holds; a directory is the set of its files; a rename is atomic; a scan  *)
(* (os.ReadDir) is one step, and what it saw may be stale when it is used. *)
(*                                                                         *)
(* Every process runs one operation at a time and may crash between any    *)
(* two steps.  An id is a number: Stamp(i) is its millisecond, and ids of  *)
(* one millisecond are ordered by their random suffix, so a generator may  *)
(* pick them in any order.                                                 *)
(***************************************************************************)
EXTENDS Naturals, FiniteSets

CONSTANTS Ids,          \* the ids that can be generated, a set of numbers
          Burst,        \* ids per millisecond
          MaxMs,        \* bound: the last millisecond of the clock
          MaxCrashes,   \* bound: how many operations are cut short, or reads fail
          Producers,    \* processes that push
          Takers,       \* processes that take
          Ackers,       \* processes that acknowledge
          Waiters,      \* processes that wait without claiming
          NoId          \* no id

ASSUME IdsAssumption == Ids \subseteq Nat /\ NoId \notin Ids
ASSUME BoundsAssumption == /\ Burst \in Nat \ {0}
                           /\ MaxMs \in Nat
                           /\ MaxCrashes \in Nat

Procs == Producers \cup Takers \cup Ackers \cup Waiters

Stamp(i) == i \div Burst

VARIABLES
  tmp, pending, claimed, done,  \* the files of each directory
  whole,     \* the ids whose file holds the complete body
  used,      \* the ids generated so far
  now,       \* the clock, in milliseconds
  pc, op,    \* per process: its next step, and the operation it runs
  cur,       \* per process: the id it works on
  todo,      \* per process: the ids of its scan it has not tried yet
  got,       \* per process: the bodies a Wait has read so far
  seen,      \* history, per process: all that TakeNext's last scan returned
  told,      \* history, per id: how often a claim returned its body
  lost,      \* history: the ids whose owner crashed before reading the body
  crashes    \* history: the number of crashes and failed reads

dirs == <<tmp, pending, claimed, done, whole>>
local == <<pc, op, cur, todo, got, seen>>
history == <<told, lost, crashes>>
vars == <<dirs, used, now, local, history>>

Published == pending \cup claimed \cup done

Ops == {"none", "push", "next", "take", "ack", "wait"}
Steps == {"idle", "write", "publish", "scan", "claim", "read",
          "ackClaimed", "ackPending", "list", "peek", "sleep"}

Init ==
  /\ tmp = {} /\ pending = {} /\ claimed = {} /\ done = {} /\ whole = {}
  /\ used = {} /\ now = 0
  /\ pc = [p \in Procs |-> "idle"]
  /\ op = [p \in Procs |-> "none"]
  /\ cur = [p \in Procs |-> NoId]
  /\ todo = [p \in Procs |-> {}]
  /\ got = [p \in Procs |-> {}]
  /\ seen = [p \in Procs |-> {}]
  /\ told = [i \in Ids |-> 0]
  /\ lost = {} /\ crashes = 0

-----------------------------------------------------------------------------
\* Control.

\* p goes on to step s of the operation it runs.
Goto(p, s) == pc' = [pc EXCEPT ![p] = s]

\* p starts operation o at step s.
Call(p, o, s) == /\ pc[p] = "idle"
                 /\ Goto(p, s)
                 /\ op' = [op EXCEPT ![p] = o]

\* p's operation ends and its locals are gone.
Return(p) == /\ Goto(p, "idle")
             /\ op' = [op EXCEPT ![p] = "none"]
             /\ cur' = [cur EXCEPT ![p] = NoId]
             /\ todo' = [todo EXCEPT ![p] = {}]
             /\ got' = [got EXCEPT ![p] = {}]
             /\ seen' = [seen EXCEPT ![p] = {}]

\* The oldest id of S.
Oldest(i, S) == i \in S /\ \A j \in S : i <= j

-----------------------------------------------------------------------------
\* Push.

\* Variant: the file is created under its final name.
PushBeginInPlace(p, i) ==
  /\ p \in Producers /\ i \in Ids \ used /\ Stamp(i) = now
  /\ Call(p, "push", "write")
  /\ cur' = [cur EXCEPT ![p] = i]
  /\ used' = used \cup {i}
  /\ pending' = pending \cup {i}
  /\ UNCHANGED <<tmp, claimed, done, whole, now, todo, got, seen, history>>

\* newID, and os.WriteFile has created the file under tmp/ but not filled it.
PushBegin(p, i) ==
  /\ p \in Producers /\ i \in Ids \ used /\ Stamp(i) = now
  /\ Call(p, "push", "write")
  /\ cur' = [cur EXCEPT ![p] = i]
  /\ used' = used \cup {i}
  /\ tmp' = tmp \cup {i}
  /\ UNCHANGED <<pending, claimed, done, whole, now, todo, got, seen, history>>

PushWrite(p) ==
  /\ pc[p] = "write"
  /\ whole' = whole \cup {cur[p]}
  /\ Goto(p, "publish")
  /\ UNCHANGED <<tmp, pending, claimed, done, used, now, op, cur, todo, got,
                 seen, history>>

\* A failed write leaves the partial file under tmp/.
PushWriteFails(p) ==
  /\ pc[p] = "write"
  /\ Return(p)
  /\ UNCHANGED <<dirs, used, now, history>>

PushPublish(p) ==
  /\ pc[p] = "publish"
  /\ tmp' = tmp \ {cur[p]}
  /\ pending' = pending \cup {cur[p]}
  /\ Return(p)
  /\ UNCHANGED <<claimed, done, whole, used, now, history>>

\* A failed rename removes the temporary file.
PushPublishFails(p) ==
  /\ pc[p] = "publish"
  /\ tmp' = tmp \ {cur[p]}
  /\ Return(p)
  /\ UNCHANGED <<pending, claimed, done, whole, used, now, history>>

-----------------------------------------------------------------------------
\* TakeNext and Take: claim is a rename, then a read of the renamed file.

TakeNextCall(p) ==
  /\ p \in Takers
  /\ Call(p, "next", "scan")
  /\ UNCHANGED <<dirs, used, now, cur, todo, got, seen, history>>

\* The caller of Take learned the id from an earlier listing or notice.
TakeCall(p, i) ==
  /\ p \in Takers /\ i \in Published
  /\ Call(p, "take", "claim")
  /\ todo' = [todo EXCEPT ![p] = {i}]
  /\ UNCHANGED <<dirs, used, now, cur, got, seen, history>>

\* ErrEmpty.
ScanEmpty(p) ==
  /\ pc[p] = "scan" /\ pending = {}
  /\ Return(p)
  /\ UNCHANGED <<dirs, used, now, history>>

ScanFinds(p) ==
  /\ pc[p] = "scan" /\ pending # {}
  /\ todo' = [todo EXCEPT ![p] = pending]
  /\ seen' = [seen EXCEPT ![p] = pending]
  /\ Goto(p, "claim")
  /\ UNCHANGED <<dirs, used, now, op, cur, got, history>>

\* Wins(p, i, S): p has moved the files S to claimed/ to read i.
Wins(p, i, S) ==
  /\ pending' = pending \ S
  /\ claimed' = claimed \cup S
  /\ cur' = [cur EXCEPT ![p] = i]
  /\ Goto(p, "read")
  /\ UNCHANGED <<tmp, done, whole, used, now, op, todo, got, seen, history>>

\* Variants: any id of the scan will do; the scan is trusted, as a check before
\* the rename would be; all of the scan is claimed at once.
ClaimWinsAny(p, i) == pc[p] = "claim" /\ i \in todo[p] \cap pending /\ Wins(p, i, {i})
ClaimWinsStale(p, i) == pc[p] = "claim" /\ Oldest(i, todo[p]) /\ Wins(p, i, {i})
ClaimWinsAll(p, i) ==
  pc[p] = "claim" /\ Oldest(i, todo[p] \cap pending) /\ Wins(p, i, todo[p] \cap pending)

\* The oldest id not tried yet is still pending: p owns it from here on.
ClaimWins(p, i) ==
  /\ pc[p] = "claim" /\ Oldest(i, todo[p]) /\ i \in pending
  /\ Wins(p, i, {i})

\* Variant: the id is tried again.
MissesForever(p, i) ==
  \/ op[p] = "next" /\ Goto(p, "claim") /\ UNCHANGED <<op, cur, todo, got, seen>>
  \/ op[p] = "take" /\ Return(p)

\* p's claim of i found nothing: TakeNext tries the next id of its scan, and
\* scans again after the last; Take reports ErrNotFound.
Misses(p, i) ==
  \/ /\ op[p] = "next"
     /\ todo' = [todo EXCEPT ![p] = @ \ {i}]
     /\ cur' = [cur EXCEPT ![p] = NoId]
     /\ Goto(p, IF todo[p] = {i} THEN "scan" ELSE "claim")
     /\ UNCHANGED <<op, got, seen>>
  \/ /\ op[p] = "take"
     /\ Return(p)

\* The rename fails with ENOENT: another process was first.
ClaimLoses(p, i) ==
  /\ pc[p] = "claim" /\ Oldest(i, todo[p]) /\ i \notin pending
  /\ Misses(p, i)
  /\ UNCHANGED <<dirs, used, now, history>>

ReadBody(p) ==
  /\ pc[p] = "read" /\ cur[p] \in claimed
  /\ told' = [told EXCEPT ![cur[p]] = @ + 1]
  /\ Return(p)
  /\ UNCHANGED <<dirs, used, now, lost, crashes>>

\* Acknowledged by somebody between the rename and the read.
ReadGone(p) ==
  /\ pc[p] = "read" /\ cur[p] \notin claimed
  /\ Misses(p, cur[p])
  /\ UNCHANGED <<dirs, used, now, history>>

-----------------------------------------------------------------------------
\* Ack: one rename from claimed/, then one from pending/.

AckCall(p, i) ==
  /\ p \in Ackers /\ i \in Published
  /\ Call(p, "ack", "ackClaimed")
  /\ cur' = [cur EXCEPT ![p] = i]
  /\ UNCHANGED <<dirs, used, now, todo, got, seen, history>>

AckClaimed(p) ==
  /\ pc[p] = "ackClaimed" /\ cur[p] \in claimed
  /\ claimed' = claimed \ {cur[p]}
  /\ done' = done \cup {cur[p]}
  /\ Return(p)
  /\ UNCHANGED <<tmp, pending, whole, used, now, history>>

AckNotClaimed(p) ==
  /\ pc[p] = "ackClaimed" /\ cur[p] \notin claimed
  /\ Goto(p, "ackPending")
  /\ UNCHANGED <<dirs, used, now, op, cur, todo, got, seen, history>>

AckPending(p) ==
  /\ pc[p] = "ackPending" /\ cur[p] \in pending
  /\ pending' = pending \ {cur[p]}
  /\ done' = done \cup {cur[p]}
  /\ Return(p)
  /\ UNCHANGED <<tmp, claimed, whole, used, now, history>>

\* ErrNotFound.
AckMisses(p) ==
  /\ pc[p] = "ackPending" /\ cur[p] \notin pending
  /\ Return(p)
  /\ UNCHANGED <<dirs, used, now, history>>

-----------------------------------------------------------------------------
\* Wait: poll List until it returns a body.  List scans, then reads the files
\* one by one, skipping those that are gone.

WaitCall(p) ==
  /\ p \in Waiters
  /\ Call(p, "wait", "list")
  /\ UNCHANGED <<dirs, used, now, cur, todo, got, seen, history>>

WaitList(p) ==
  /\ pc[p] = "list"
  /\ todo' = [todo EXCEPT ![p] = pending]
  /\ Goto(p, "peek")
  /\ UNCHANGED <<dirs, used, now, op, cur, got, seen, history>>

WaitRead(p, i) ==
  /\ pc[p] = "peek" /\ Oldest(i, todo[p])
  /\ todo' = [todo EXCEPT ![p] = @ \ {i}]
  /\ got' = [got EXCEPT ![p] = @ \cup ({i} \cap pending)]
  /\ UNCHANGED <<dirs, used, now, pc, op, cur, seen, history>>

\* The file is there but cannot be read or decoded: List leaves it out.
WaitSkips(p, i) ==
  /\ pc[p] = "peek" /\ Oldest(i, todo[p]) /\ i \in pending
  /\ crashes < MaxCrashes /\ crashes' = crashes + 1
  /\ todo' = [todo EXCEPT ![p] = @ \ {i}]
  /\ UNCHANGED <<dirs, used, now, pc, op, cur, got, seen, told, lost>>

\* The listing is over: return what it read, or sleep until the next tick.
WaitReturn(p) ==
  /\ pc[p] = "peek" /\ todo[p] = {} /\ got[p] # {}
  /\ Return(p)
  /\ UNCHANGED <<dirs, used, now, history>>

WaitSleep(p) ==
  /\ pc[p] = "peek" /\ todo[p] = {} /\ got[p] = {}
  /\ Goto(p, "sleep")
  /\ UNCHANGED <<dirs, used, now, op, cur, todo, got, seen, history>>

\* Variant: the directory is scanned once, before the loop.
WaitPollOnce(p) ==
  /\ pc[p] = "sleep"
  /\ Goto(p, "peek")
  /\ UNCHANGED <<dirs, used, now, op, cur, todo, got, seen, history>>

WaitPoll(p) ==
  /\ pc[p] = "sleep"
  /\ Goto(p, "list")
  /\ UNCHANGED <<dirs, used, now, op, cur, todo, got, seen, history>>

\* ErrTimeout, or the caller's context ended.
WaitTimeout(p) ==
  /\ pc[p] = "sleep"
  /\ Return(p)
  /\ UNCHANGED <<dirs, used, now, history>>

-----------------------------------------------------------------------------
\* The environment.

\* The process is killed; a file it has just claimed stays claimed.  (The same
\* happens when claim cannot read or decode the file it has renamed.)
Crash(p) ==
  /\ pc[p] # "idle" /\ crashes < MaxCrashes
  /\ crashes' = crashes + 1
  /\ lost' = IF pc[p] = "read" /\ cur[p] \in claimed
             THEN lost \cup {cur[p]} ELSE lost
  /\ Return(p)
  /\ UNCHANGED <<dirs, used, now, told>>

Tick == /\ now < MaxMs
        /\ now' = now + 1
        /\ UNCHANGED <<dirs, used, local, history>>

-----------------------------------------------------------------------------
\* What p does by itself once an operation has been called; time-outs,
\* failures and crashes are not among it.
Progress(p) ==
  \/ PushWrite(p) \/ PushPublish(p)
  \/ ScanEmpty(p) \/ ScanFinds(p)
  \/ \E i \in Ids : ClaimWins(p, i) \/ ClaimLoses(p, i) \/ WaitRead(p, i)
  \/ ReadBody(p) \/ ReadGone(p)
  \/ AckClaimed(p) \/ AckNotClaimed(p) \/ AckPending(p) \/ AckMisses(p)
  \/ WaitList(p) \/ WaitReturn(p) \/ WaitSleep(p) \/ WaitPoll(p)

Calls(p) ==
  \/ TakeNextCall(p) \/ WaitCall(p)
  \/ \E i \in Ids : PushBegin(p, i) \/ TakeCall(p, i) \/ AckCall(p, i)

Failures(p) ==
  \/ PushWriteFails(p) \/ PushPublishFails(p) \/ WaitTimeout(p) \/ Crash(p)
  \/ \E i \in Ids : WaitSkips(p, i)

Next == \/ \E p \in Procs : Progress(p) \/ Calls(p) \/ Failures(p)
        \/ Tick

Spec == Init /\ [][Next]_vars

\* A process that was scheduled runs on; nothing obliges anybody to call.
Fairness == \A p \in Procs : WF_vars(Progress(p))

-----------------------------------------------------------------------------
\* Properties.

\* Every variable has its type; the directories hold ids that were generated.
TypeOK ==
  /\ tmp \subseteq used /\ pending \subseteq used
  /\ claimed \subseteq used /\ done \subseteq used
  /\ whole \subseteq used /\ used \subseteq Ids /\ lost \subseteq Ids
  /\ now \in Nat /\ crashes \in Nat
  /\ pc \in [Procs -> Steps]
  /\ op \in [Procs -> Ops]
  /\ cur \in [Procs -> Ids \cup {NoId}]
  /\ todo \in [Procs -> SUBSET Ids]
  /\ got \in [Procs -> SUBSET Ids]
  /\ seen \in [Procs -> SUBSET Ids]
  /\ told \in [Ids -> Nat]

\* Push writes under tmp/ and renames, so no scan, claim or listing ever
\* meets a file that is not complete, whatever write or process fails.
NoPartialBody == Published \subseteq whole

\* claim: of all processes that race for one id at most one gets to read it,
\* and nobody gets to read a body that was already handed out.
ExclusiveClaim ==
  \A p \in Procs : pc[p] = "read" =>
     /\ told[cur[p]] = 0
     /\ \A q \in Procs \ {p} : pc[q] = "read" => cur[q] # cur[p]

\* A claimed message without a reader whose body nobody was given is the work
\* of a crash between claim's rename and its read, and of nothing else.
StrandedOnlyByCrash ==
  \A i \in claimed : \/ told[i] > 0
                     \/ i \in lost
                     \/ \E p \in Procs : pc[p] = "read" /\ cur[p] = i

\* TakeNext claims no id while an older one of its own scan is still pending,
\* however many races it lost in between.
OldestFirst ==
  [][\A p \in Procs, i \in Ids :
       (op[p] = "next" /\ pc[p] = "claim" /\ pc'[p] = "read" /\ cur'[p] = i)
       => \A j \in seen[p] \cap pending : i <= j]_vars

\* The state of item.go each id is in: the directory that holds its file.
Status == [i \in Ids |-> CASE i \in pending -> "pending"
                          [] i \in claimed -> "claimed"
                          [] i \in done -> "done"
                          [] OTHER -> "absent"]

Store == INSTANCE MessageStore WITH status <- Status

\* The directory protocol keeps the promise of MessageStore: states only move
\* forward, and no body is handed out twice.
KeepsPromise == Store!Spec

\* q takes a message away from whoever has scanned it.
Beats(q) == \/ pc[q] = "claim" /\ pc'[q] = "read"
            \/ AckClaimed(q) \/ AckPending(q)

\* TakeNext scans again whenever it lost every id of its scan, and nothing
\* bounds that while messages keep coming.  But one that never returns is
\* beaten for ever by others who do get their messages: the takers of a mailbox
\* never keep each other from taking, and once nobody beats it a take ends.
LosersLoseToWinners ==
  \A p \in Takers :
    <>[](pc[p] # "idle") => []<><<\E q \in Procs \ {p} : Beats(q)>>_vars

\* A Wait without a time-out returns once some message stays unclaimed, unless
\* its file cannot be read in any of the listings.
WaitFinds ==
  \A i \in Ids : <>[](i \in pending) => \A p \in Waiters : []<>(pc[p] = "idle")

-----------------------------------------------------------------------------
\* Why the invariants hold: what every step relies on.

Writing(p) == pc[p] \in {"write", "publish"}

\* A file is in one directory.
OneDirectory ==
  /\ tmp \cap Published = {}
  /\ pending \cap claimed = {}
  /\ pending \cap done = {}
  /\ claimed \cap done = {}

\* A writer has its file under tmp/ for itself, complete once it is to be
\* published.
WritersApart ==
  \A p \in Procs : Writing(p) =>
     /\ cur[p] \in tmp
     /\ pc[p] = "publish" => cur[p] \in whole
     /\ \A q \in Procs \ {p} : Writing(q) => cur[q] # cur[p]

\* What is read was claimed, and may have been acknowledged since.
ReadersClaimed == \A p \in Procs : pc[p] = "read" => cur[p] \in claimed \cup done

ToldOnce ==
  \A i \in Ids : told[i] = 0 \/ (told[i] = 1 /\ i \in claimed \cup done)

\* Every id TakeNext has passed over in its scan is pending no more.
PassedOverGone ==
  \A p \in Procs : op[p] = "next" /\ pc[p] \in {"claim", "read"} =>
     /\ seen[p] \subseteq Published
     /\ (seen[p] \ todo[p]) \cap pending = {}

\* The inductive invariant of Mailbox: a file is in one directory, every
\* process has the file it works on to itself, and what a claim returned once
\* is pending never again.
IInv == /\ TypeOK /\ OneDirectory /\ NoPartialBody /\ WritersApart
        /\ ReadersClaimed /\ ExclusiveClaim /\ ToldOnce /\ PassedOverGone
        /\ StrandedOnlyByCrash

-----------------------------------------------------------------------------
\* What the documentation says and the code does not do.

\* What item.go says of ErrNotFound, for Ack: "the requested item id does not
\* exist in the queue".
AckNotFoundMeansAbsent ==
  [][\A p \in Procs :
       AckMisses(p) => cur[p] \notin pending \cup claimed]_vars
======================================================================
