-------------------------------- MODULE Wake --------------------------------
(***************************************************************************)
(* notifications.go, receive.go and PushAndNotify/Notify of transport.go:  *)
(* how a target's agent is woken for the messages in its mailbox, and how  *)
(* it drains them.  One ledger (notification.json) records the current     *)
(* flight; one OS lock serializes the processes that use it; everything    *)
(* else - pushes, takes, acknowledgements, registrations, the host - goes  *)
(* on between any two of their steps.                                      *)
(*                                                                         *)
(* A hint the host has accepted is an element of hints until the agent     *)
(* picks it up; a submission cut off by its time-out is in inflight, and   *)
(* the host may still accept it.  The agent follows the text of the hint:  *)
(* it repeats the same receive command until the result is empty.  Bodies  *)
(* move between the directories of Mailbox; a claim is one step here.      *)
(***************************************************************************)
EXTENDS Naturals, FiniteSets

CONSTANTS
  MaxIds,        \* bound: messages pushed; they are 1 .. MaxIds, oldest first
  MaxNotices,    \* bound: notice ids minted
  MaxTime,       \* bound: the last moment of the clock
  MaxFaults,     \* bound: failures and crashes
  Notifiers,     \* processes that push and notify
  Autos,         \* hooks and waiters: processes that receive without a notice
  Agents,        \* sessions that answer hints
  Limit,         \* the batch limit of receive
  Uncertain,     \* uncertainLifetime
  Drain,         \* drainLifetime
  Receipts,      \* the receipts the host integration can return
  Faults,        \* the failures considered, a subset of FaultKinds
  Protocols,     \* what the registered address may say: WakeProtocol current?
  Native,        \* may the transport be a ReceiptTransport?
  Nobody, NoId, NoNotice, Legacy

FaultKinds == {"fails", "uncertain", "write", "unread", "crash", "dies"}

Ids == 1 .. MaxIds
Notices == 1 .. MaxNotices
Procs == Notifiers \cup Autos \cup Agents

ASSUME BoundsAssumption ==
  /\ MaxIds \in Nat /\ MaxNotices \in Nat /\ MaxTime \in Nat /\ MaxFaults \in Nat
  /\ Limit \in Nat \ {0} /\ Uncertain \in Nat /\ Drain \in Nat
ASSUME KindsAssumption ==
  /\ Receipts \subseteq {"queued", "written", "deferred"}
  /\ Faults \subseteq FaultKinds
  /\ Protocols \subseteq BOOLEAN /\ Native \subseteq BOOLEAN
ASSUME NamesAssumption ==
  /\ Nobody \notin Procs /\ NoId \notin Ids
  /\ Notifiers \cap Agents = {} /\ Autos \cap Agents = {}
  /\ NoNotice \notin Notices \cup {Legacy} /\ Legacy \notin Notices

VARIABLES
  pending, claimed, done,  \* the payload directories
  ledger,     \* notification.json
  lock,       \* who holds notification.lock
  compat,     \* the registered address has the current WakeProtocol
  native,     \* the agent's transport is a ReceiptTransport
  now,        \* the clock
  minted,     \* notice ids minted so far
  hints,      \* hints accepted by the host and not yet picked up
  inflight,   \* hints the host may still accept
  pc,         \* per process: its next step
  item,       \* per notifier: the id it notifies about
  batch,      \* per process: what its List returned, less what it tried
  count,      \* per receiver: bodies claimed by this receive
  serving,    \* per agent: the hint whose command it repeats
  out,        \* per notifier: the host's answer
  announced,  \* history: ids whose Notify reported a signal to the host
  observed,   \* history: notices a receive has matched
  skipped,    \* history: the pending messages the last listing left out
  faults      \* history: the number of failures

payload == <<pending, claimed, done>>
env == <<compat, native, now>>
host == <<hints, inflight>>
local == <<pc, item, batch, count, serving, out>>
history == <<announced, observed, skipped, faults>>
vars == <<payload, ledger, lock, env, minted, host, local, history>>

Published == pending \cup claimed \cup done

Init ==
  /\ pending = {} /\ claimed = {} /\ done = {}
  /\ ledger = [id |-> NoNotice, state |-> "none", v2 |-> FALSE, coal |-> FALSE,
               gen |-> 0, notified |-> {}, until |-> 0]
  /\ lock = Nobody
  /\ compat \in Protocols /\ native \in Native /\ now = 0
  /\ minted = 0 /\ hints = {} /\ inflight = {}
  /\ pc = [p \in Procs |-> "idle"]
  /\ item = [p \in Procs |-> NoId]
  /\ batch = [p \in Procs |-> {}]
  /\ count = [p \in Procs |-> 0]
  /\ serving = [p \in Procs |-> NoNotice]
  /\ out = [p \in Procs |-> "none"]
  /\ announced = {} /\ observed = {} /\ skipped = {} /\ faults = 0

-----------------------------------------------------------------------------
\* Control.

Goto(p, s) == pc' = [pc EXCEPT ![p] = s]

\* p's call ends: its locals are gone.
Ends(p) == /\ Goto(p, "idle")
           /\ item' = [item EXCEPT ![p] = NoId]
           /\ batch' = [batch EXCEPT ![p] = {}]
           /\ count' = [count EXCEPT ![p] = 0]
           /\ serving' = [serving EXCEPT ![p] = NoNotice]
           /\ out' = [out EXCEPT ![p] = "none"]

\* An agent that has not been told "empty" runs its command again.
Again(p) == /\ Goto(p, "receive")
            /\ batch' = [batch EXCEPT ![p] = {}]
            /\ count' = [count EXCEPT ![p] = 0]
            /\ UNCHANGED <<item, serving, out>>

Unlock == lock' = Nobody

\* p takes the lock, which TryLockContext polls for, and goes on to step s.
Locks(p, s) == /\ lock = Nobody
               /\ lock' = p
               /\ Goto(p, s)
               /\ UNCHANGED <<payload, ledger, env, minted, host, item, batch,
                              count, serving, out, history>>

\* A failure of kind k happens, if it is considered and the bound allows it.
Fault(k) == k \in Faults /\ faults < MaxFaults /\ faults' = faults + 1

\* List: the pending messages, less those whose file cannot be read or decoded,
\* which it leaves out without a word.
Lists(p) ==
  \E S \in SUBSET pending :
     /\ batch' = [batch EXCEPT ![p] = pending \ S]
     /\ skipped' = S
     /\ IF S = {} THEN UNCHANGED faults ELSE Fault("unread")

-----------------------------------------------------------------------------
\* notifyPending.

\* PushAndNotify: the body is stored before anybody is told.
Push(p, i) ==
  /\ p \in Notifiers /\ pc[p] = "idle"
  /\ i \in Ids \ Published /\ \A j \in Ids \ Published : i <= j
  /\ pending' = pending \cup {i}
  /\ item' = [item EXCEPT ![p] = i]
  /\ Goto(p, "lock")
  /\ UNCHANGED <<claimed, done, ledger, lock, env, minted, host, batch, count,
                 serving, out, history>>

\* Notify about an existing message, or about an id that names none.
NotifyCall(p, i) ==
  /\ p \in Notifiers /\ pc[p] = "idle"
  /\ i \in Published \cup {NoId}
  /\ item' = [item EXCEPT ![p] = i]
  /\ Goto(p, "lock")
  /\ UNCHANGED <<payload, ledger, lock, env, minted, host, batch, count, serving,
                 out, history>>

\* The lock is taken only if a notice id is left to mint (bound).
NotifyLock(p) == pc[p] = "lock" /\ minted < MaxNotices /\ Locks(p, "look")

\* The caller's context ends while the lock is polled for.
NotifyGivesUp(p) ==
  /\ pc[p] = "lock"
  /\ Ends(p)
  /\ UNCHANGED <<payload, ledger, lock, env, minted, host, history>>

\* The ledger and the pending messages are read.  The ledger cannot change
\* while p holds the lock; the messages can.  A message that is left out of
\* the listing is looked for elsewhere, like one that was taken.
NotifyList(p) ==
  /\ pc[p] = "look"
  /\ Lists(p)
  /\ Goto(p, IF item[p] \in pending \ skipped' THEN "decide" ELSE "gone")
  /\ UNCHANGED <<payload, ledger, lock, env, minted, host, item, count, serving,
                 out, announced, observed>>

\* Variant: done/ first.
LooksInDoneFirst(step) == IF step = "gone" THEN done ELSE claimed

\* The message is not pending: it is looked for in claimed/, then in done/.
LooksIn(step) == IF step = "gone" THEN claimed ELSE done

NotifyGone(p) ==
  /\ pc[p] \in {"gone", "goneToo"} /\ item[p] \in LooksIn(pc[p])
  /\ Ends(p) /\ Unlock
  /\ UNCHANGED <<payload, ledger, env, minted, host, history>>

NotifyNotClaimed(p) ==
  /\ pc[p] = "gone" /\ item[p] \notin LooksIn("gone")
  /\ Goto(p, "goneToo")
  /\ UNCHANGED <<payload, ledger, lock, env, minted, host, item, batch, count,
                 serving, out, history>>

\* ErrNotFound.
NotifyNotFound(p) ==
  /\ pc[p] = "goneToo" /\ item[p] \notin LooksIn("goneToo")
  /\ Ends(p) /\ Unlock
  /\ UNCHANGED <<payload, ledger, env, minted, host, history>>

\* Variant: a flight that is over is joined as well.
FlightActiveAlways == ledger.coal /\ ledger.v2

FlightActive == /\ ledger.coal /\ ledger.v2
                /\ \/ ledger.state = "queued"
                   \/ ledger.state = "receiving" /\ now < ledger.until

Joins == compat /\ FlightActive

Known(i) == /\ \/ ledger.state = "written"
               \/ ledger.state = "queued" /\ ~ledger.coal
            /\ i \in ledger.notified

InProgress == /\ ledger.state \in {"submitting", "uncertain"}
              /\ now < ledger.gen + Uncertain

\* p tells its caller that the host was signalled for its message.
Announces(p) == /\ announced' = announced \cup {item[p]}
                /\ UNCHANGED <<observed, skipped, faults>>

\* Variant: the early return keeps the lock.
NotifyJoinsLocked(p) ==
  /\ pc[p] = "decide" /\ Joins
  /\ ledger' = [ledger EXCEPT !.notified = batch[p]]
  /\ Announces(p) /\ Ends(p)
  /\ UNCHANGED <<payload, lock, env, minted, host>>

\* The current flight will fetch the message too.
NotifyJoins(p) ==
  /\ pc[p] = "decide" /\ Joins
  /\ ledger' = [ledger EXCEPT !.notified = batch[p]]
  /\ Announces(p) /\ Ends(p) /\ Unlock
  /\ UNCHANGED <<payload, env, minted, host>>

\* An earlier signal named the message.
NotifyKnown(p) ==
  /\ pc[p] = "decide" /\ ~Joins /\ Known(item[p])
  /\ Announces(p) /\ Ends(p) /\ Unlock
  /\ UNCHANGED <<payload, ledger, env, minted, host>>

\* ErrDeliveryInProgress.
NotifyRefused(p) ==
  /\ pc[p] = "decide" /\ ~Joins /\ ~Known(item[p]) /\ InProgress
  /\ Ends(p) /\ Unlock
  /\ UNCHANGED <<payload, ledger, env, minted, host, history>>

MustSignal(p) == pc[p] = "decide" /\ ~Joins /\ ~Known(item[p]) /\ ~InProgress

\* A transport without receipts has its own way to be told, and no ledger.
NotifyDelegates(p) ==
  /\ MustSignal(p) /\ ~native
  /\ Ends(p) /\ Unlock
  /\ UNCHANGED <<payload, ledger, env, minted, host, history>>

\* Variant: a reservation found after a crash is given up.
KeepsNoticeButSubmitting == /\ ledger.v2 /\ ledger.id # NoNotice
                            /\ ledger.state \in {"failed", "uncertain"}

\* A notice whose submission may have reached the host keeps its id.
KeepsNotice == /\ ledger.v2 /\ ledger.id # NoNotice
               /\ ledger.state \in {"failed", "uncertain", "submitting"}

\* The reservation is written before the host is called.
Submits(p, id) ==
  /\ ledger' = [ledger EXCEPT !.id = id, !.state = "submitting", !.v2 = compat,
                              !.coal = FALSE, !.gen = now]
  /\ Goto(p, "host")
  /\ UNCHANGED <<payload, lock, env, host, item, batch, count, serving, out, history>>

NotifyAnew(p) ==
  /\ MustSignal(p) /\ native /\ compat /\ ~KeepsNotice
  /\ minted' = minted + 1
  /\ Submits(p, minted')

NotifyRetries(p) ==
  /\ MustSignal(p) /\ native /\ compat /\ KeepsNotice
  /\ Submits(p, ledger.id)
  /\ UNCHANGED minted

\* An older receiver: the id is a hash of the list, and no command names it.
NotifyLegacy(p) ==
  /\ MustSignal(p) /\ native /\ ~compat
  /\ Submits(p, Legacy)
  /\ UNCHANGED minted

\* The ledger or a directory cannot be read, or the ledger not written, before
\* the host is called.
NotifyFails(p) ==
  /\ pc[p] \in {"look", "gone", "goneToo", "decide"}
  /\ Fault("write")
  /\ Ends(p) /\ Unlock
  /\ UNCHANGED <<payload, ledger, env, minted, host, announced, observed, skipped>>

-----------------------------------------------------------------------------
\* The host call and the record of its answer.

HostAnswers(p, answer) ==
  /\ pc[p] = "host"
  /\ out' = [out EXCEPT ![p] = answer]
  /\ Goto(p, "record")
  /\ UNCHANGED <<payload, ledger, lock, env, minted, item, batch, count, serving,
                 announced, observed, skipped>>

\* The host has the hint and returns a receipt.
HostTakes(p, receipt) ==
  /\ receipt \in Receipts \ {"deferred"}
  /\ HostAnswers(p, receipt)
  /\ hints' = hints \cup {ledger.id}
  /\ UNCHANGED <<inflight, faults>>

\* No native route: the hooks are to deliver the body.
HostDefers(p) ==
  /\ "deferred" \in Receipts
  /\ HostAnswers(p, "deferred")
  /\ UNCHANGED <<host, faults>>

\* The host is not there, or refuses.
HostFails(p) ==
  /\ Fault("fails")
  /\ HostAnswers(p, "failed")
  /\ UNCHANGED host

\* Timed out, or no usable receipt: the host may have the hint, may still get
\* it, or never will.
HostUncertain(p) ==
  /\ Fault("uncertain")
  /\ HostAnswers(p, "uncertain")
  /\ \/ hints' = hints \cup {ledger.id} /\ UNCHANGED inflight
     \/ inflight' = inflight \cup {ledger.id} /\ UNCHANGED hints

LateAccept(n) ==
  /\ n \in inflight
  /\ inflight' = inflight \ {n}
  /\ hints' = hints \cup {n}
  /\ UNCHANGED <<payload, ledger, lock, env, minted, local, history>>

LateDrop(n) ==
  /\ n \in inflight
  /\ inflight' = inflight \ {n}
  /\ UNCHANGED <<payload, ledger, lock, env, minted, hints, local, history>>

\* Variant: a submission that timed out is taken for accepted.
RecordErrorAccepted(p) ==
  /\ pc[p] = "record" /\ out[p] \in {"failed", "uncertain"}
  /\ ledger' = IF out[p] = "uncertain" THEN [ledger EXCEPT !.state = "queued", !.coal = TRUE]
                                       ELSE [ledger EXCEPT !.state = "failed"]
  /\ Ends(p) /\ Unlock
  /\ UNCHANGED <<payload, env, minted, host, history>>

RecordError(p) ==
  /\ pc[p] = "record" /\ out[p] \in {"failed", "uncertain"}
  /\ ledger' = [ledger EXCEPT !.state = out[p]]
  /\ Ends(p) /\ Unlock
  /\ UNCHANGED <<payload, env, minted, host, history>>

RecordReceipt(p) ==
  /\ pc[p] = "record" /\ out[p] \in Receipts
  /\ ledger' = [ledger EXCEPT !.state = out[p],
                              !.coal = ledger.v2 /\ out[p] = "queued",
                              !.notified = IF out[p] = "deferred" THEN @ ELSE batch[p]]
  /\ IF out[p] = "deferred" THEN UNCHANGED history ELSE Announces(p)
  /\ Ends(p) /\ Unlock
  /\ UNCHANGED <<payload, env, minted, host>>

\* The answer is unknown or cannot be written: the reservation stays as it is.
RecordFails(p) ==
  /\ pc[p] = "record"
  /\ Fault("write")
  /\ Ends(p) /\ Unlock
  /\ UNCHANGED <<payload, ledger, env, minted, host, announced, observed, skipped>>
-----------------------------------------------------------------------------
\* receive.

\* Receive and ReceiveAutomatic, by hooks and waiters: no notice.
AutoCall(r) ==
  /\ r \in Autos /\ pc[r] = "idle"
  /\ Goto(r, "receive")
  /\ UNCHANGED <<payload, ledger, lock, env, minted, host, item, batch, count,
                 serving, out, history>>

\* The hint reaches the model, which starts the command the hint names: with
\* --notice n, or without it for a legacy hint.
HintArrives(a, n) ==
  /\ a \in Agents /\ pc[a] = "idle" /\ n \in hints
  /\ hints' = hints \ {n}
  /\ serving' = [serving EXCEPT ![a] = n]
  /\ Goto(a, "receive")
  /\ UNCHANGED <<payload, ledger, lock, env, minted, inflight, item, batch,
                 count, out, history>>

ReceiveLock(r) == pc[r] = "receive" /\ Locks(r, "check")

\* A hook waits two seconds for the lock, a receive ten: the bodies stay.
ReceiveGivesUp(r) ==
  /\ r \in Autos /\ pc[r] = "receive"
  /\ Ends(r)
  /\ UNCHANGED <<payload, ledger, lock, env, minted, host, history>>

ByNotice(r) == serving[r] \in Notices

Matches(n) == /\ ledger.id = n /\ ledger.v2
              /\ ledger.state \notin {"received", "deferred"}

\* A stale or completed notice: the answer is empty, and the agent is done.
ReceiveStale(r) ==
  /\ pc[r] = "check" /\ ByNotice(r) /\ ~Matches(serving[r])
  /\ Ends(r) /\ Unlock
  /\ UNCHANGED <<payload, ledger, env, minted, host, history>>

ReceiveList(r) ==
  /\ pc[r] = "check" /\ (ByNotice(r) => Matches(serving[r]))
  /\ Lists(r)
  /\ Goto(r, IF ByNotice(r) THEN "mark" ELSE "claim")
  /\ UNCHANGED <<payload, ledger, lock, env, minted, host, item, count, serving,
                 out, announced, observed>>

\* The notice has been observed: its flight drains, or is over.
ReceiveMark(r) ==
  /\ pc[r] = "mark"
  /\ ledger' = IF batch[r] = {}
               THEN [ledger EXCEPT !.coal = TRUE, !.state = "received", !.until = now]
               ELSE [ledger EXCEPT !.coal = TRUE, !.state = "receiving",
                                   !.until = now + Drain]
  /\ observed' = observed \cup {serving[r]}
  /\ Goto(r, "claim")
  /\ UNCHANGED <<payload, lock, env, minted, host, item, batch, count, serving,
                 out, announced, skipped, faults>>

Oldest(i, S) == i \in S /\ \A j \in S : i <= j

\* Tries(r, i): r tries the oldest message it has not tried yet, and claims it
\* unless somebody was faster; the lock does not keep other takers away.
Tries(r, i) ==
  /\ pc[r] = "claim" /\ Oldest(i, batch[r])
  /\ batch' = [batch EXCEPT ![r] = @ \ {i}]
  /\ \/ /\ i \in pending
        /\ pending' = pending \ {i} /\ claimed' = claimed \cup {i}
        /\ count' = [count EXCEPT ![r] = @ + 1]
        /\ UNCHANGED done
     \/ /\ i \notin pending
        /\ UNCHANGED <<payload, count>>
  /\ UNCHANGED <<ledger, lock, env, minted, host, pc, item, serving, out, history>>

\* Variant: one more than the limit.
ReceiveClaimOver(r, i) == count[r] <= Limit /\ Tries(r, i)

ReceiveClaim(r, i) == count[r] < Limit /\ Tries(r, i)

\* What r does once its receive has returned: an agent that got bodies asks
\* again.
Returns(r) == /\ IF r \in Agents /\ count[r] > 0 THEN Again(r) ELSE Ends(r)
              /\ Unlock

\* Variants: a full batch closes the flight; a receive without a notice does.
ClosesFull(r) == ByNotice(r) /\ ledger.state # "received"
ClosesUnseen(r) == count[r] = 0 /\ ledger.state # "received"

\* A notice that fetched nothing closes its flight.
Closes(r) == ByNotice(r) /\ count[r] = 0 /\ ledger.state # "received"

\* Nothing more to claim, or the batch is full.
ReceiveEnds(r) ==
  /\ pc[r] = "claim" /\ (batch[r] = {} \/ count[r] = Limit)
  /\ ledger' = IF Closes(r) THEN [ledger EXCEPT !.state = "received", !.until = now]
                            ELSE ledger
  /\ Returns(r)
  /\ UNCHANGED <<payload, env, minted, host, history>>

\* The ledger, a directory or a claimed file cannot be read, or the ledger not
\* written, or the deadline passes: what was claimed
\* is returned with an error, after which an agent repeats its command.
ReceiveFails(r) ==
  /\ pc[r] \in {"check", "mark", "claim"}
  /\ Fault("write")
  /\ IF r \in Agents THEN Again(r) ELSE Ends(r)
  /\ Unlock
  /\ UNCHANGED <<payload, ledger, env, minted, host, announced, observed, skipped>>

-----------------------------------------------------------------------------
\* The environment.

\* take and ack need no lock.
TakeElsewhere(i) ==
  /\ i \in pending
  /\ pending' = pending \ {i} /\ claimed' = claimed \cup {i}
  /\ UNCHANGED <<done, ledger, lock, env, minted, host, local, history>>

AckElsewhere(i) ==
  /\ i \in pending \cup claimed
  /\ pending' = pending \ {i} /\ claimed' = claimed \ {i}
  /\ done' = done \cup {i}
  /\ UNCHANGED <<ledger, lock, env, minted, host, local, history>>

\* The session registers again, by newer or older hooks.
Register(b) ==
  /\ b \in Protocols /\ b # compat
  /\ compat' = b
  /\ UNCHANGED <<payload, ledger, lock, native, now, minted, host, local, history>>

\* A process is killed; the operating system releases its lock.  The agent
\* whose command died repeats it.
Crash(p) ==
  /\ pc[p] # "idle"
  /\ Fault("crash")
  /\ IF p \in Agents THEN Again(p) ELSE Ends(p)
  /\ lock' = IF lock = p THEN Nobody ELSE lock
  /\ UNCHANGED <<payload, ledger, env, minted, host, announced, observed, skipped>>

\* The session ends while it serves a hint.
AgentDies(a) ==
  /\ a \in Agents /\ pc[a] = "receive"
  /\ Fault("dies")
  /\ Ends(a)
  /\ UNCHANGED <<payload, ledger, lock, env, minted, host, announced, observed, skipped>>

Tick == /\ now < MaxTime
        /\ now' = now + 1
        /\ UNCHANGED <<payload, ledger, lock, compat, native, minted, host, local,
                       history>>

-----------------------------------------------------------------------------
\* What p does by itself once it has the lock.
Holding(p) ==
  \/ NotifyList(p) \/ NotifyGone(p) \/ NotifyNotClaimed(p) \/ NotifyNotFound(p)
  \/ NotifyJoins(p) \/ NotifyKnown(p) \/ NotifyRefused(p) \/ NotifyDelegates(p)
  \/ NotifyAnew(p) \/ NotifyRetries(p) \/ NotifyLegacy(p)
  \/ (\E receipt \in Receipts : HostTakes(p, receipt)) \/ HostDefers(p)
  \/ RecordError(p) \/ RecordReceipt(p)
  \/ ReceiveStale(p) \/ ReceiveList(p) \/ ReceiveMark(p) \/ ReceiveEnds(p)
  \/ \E i \in Ids : ReceiveClaim(p, i)

Locking(p) == NotifyLock(p) \/ ReceiveLock(p)

Calls(p) ==
  \/ AutoCall(p)
  \/ \E i \in Ids \cup {NoId} : Push(p, i) \/ NotifyCall(p, i)

Failures(p) ==
  \/ NotifyGivesUp(p) \/ NotifyFails(p) \/ HostFails(p) \/ HostUncertain(p) \/ RecordFails(p)
  \/ ReceiveGivesUp(p) \/ ReceiveFails(p) \/ Crash(p) \/ AgentDies(p)

Environment ==
  \/ \E n \in Notices \cup {Legacy} : LateAccept(n) \/ LateDrop(n)
  \/ \E i \in Ids : TakeElsewhere(i) \/ AckElsewhere(i)
  \/ \E b \in BOOLEAN : Register(b)
  \/ Tick

Wakes(a) == \E n \in Notices \cup {Legacy} : HintArrives(a, n)

Next == \/ \E p \in Procs : Holding(p) \/ Locking(p) \/ Calls(p) \/ Failures(p)
                            \/ Wakes(p)
        \/ Environment

Spec == Init /\ [][Next]_vars

\* A process that holds the lock runs on, one that polls for it gets it in the
\* end, and the host hands its hints to the agent.
FairSpec ==
  /\ Spec
  /\ \A p \in Procs : WF_vars(Holding(p)) /\ SF_vars(Locking(p))
  /\ \A a \in Agents : WF_vars(Wakes(a))

-----------------------------------------------------------------------------
\* Properties.

Steps == {"idle", "lock", "look", "decide", "gone", "goneToo", "host", "record",
          "receive", "check", "mark", "claim"}

LedgerStates == {"none", "submitting", "failed", "uncertain", "queued", "written",
                 "deferred", "receiving", "received"}

\* Every variable has its type.
TypeOK ==
  /\ pending \subseteq Ids /\ claimed \subseteq Ids /\ done \subseteq Ids
  /\ ledger \in [id : Notices \cup {Legacy, NoNotice}, state : LedgerStates,
                 v2 : BOOLEAN, coal : BOOLEAN, gen : Nat, notified : SUBSET Ids,
                 until : Nat]
  /\ lock \in Procs \cup {Nobody}
  /\ compat \in BOOLEAN /\ native \in BOOLEAN /\ now \in Nat
  /\ minted \in 0 .. MaxNotices
  /\ hints \subseteq Notices \cup {Legacy} /\ inflight \subseteq Notices \cup {Legacy}
  /\ pc \in [Procs -> Steps]
  /\ item \in [Procs -> Ids \cup {NoId}]
  /\ batch \in [Procs -> SUBSET Ids]
  /\ count \in [Procs -> 0 .. Limit]
  /\ serving \in [Procs -> Notices \cup {Legacy, NoNotice}]
  /\ out \in [Procs -> {"none", "failed", "uncertain"} \cup Receipts]
  /\ announced \subseteq Ids /\ observed \subseteq Notices
  /\ skipped \subseteq Ids /\ faults \in Nat

\* A flight is closed as received only when no message is left whose sender was
\* told that the host had been signalled, but those the closing receive itself
\* could not read: what arrives while its listing is turned into "received"
\* waits for the lock.
ReceivedMeansDrained ==
  [][ledger.state # "received" /\ ledger'.state = "received"
       => announced \cap pending \subseteq skipped]_vars

\* notifyPending looks in claimed/ before done/, so a message that moves on
\* while it looks is not reported as ErrNotFound; only one whose pending file
\* its listing could not read is.
NotFoundMeansUnknown ==
  [][\A p \in Procs : NotifyNotFound(p) => item[p] \notin Published \ skipped]_vars

\* "queued" has no lease: it is a promise that the hint of the ledger's own
\* notice is still to come, or is being served.
QueuedHasHint ==
  ledger.state = "queued" /\ ledger.coal =>
     ledger.id \in hints \/ \E a \in Agents : serving[a] = ledger.id

\* Every hint the host has, or may still accept, and that no receive has
\* matched yet, is the ledger's: whatever failed or crashed in between, it can
\* fetch the bodies when it arrives.
NoOrphanedHint ==
  \A n \in (hints \cup inflight) \ observed : n = ledger.id

\* As long as nothing has failed: while a hint of the host's queue waits to be
\* observed, no other is submitted.
OneHintAtATime ==
  [][faults = 0 =>
       \A p \in Procs : pc[p] = "decide" /\ pc'[p] = "host" => hints = {}]_vars

\* Somebody is on the way to fetch what is pending.
WakeComing ==
  \/ \E n \in hints : Matches(n)
  \/ \E a \in Agents : pc[a] # "idle" /\ (serving[a] = Legacy \/ Matches(serving[a]))
  \/ \E p \in Notifiers : pc[p] \in {"host", "record"}

\* As long as nothing has failed, no wake is lost: while a message whose sender
\* was told of a signal is pending, its agent is, or will be, draining the
\* mailbox.
NoLostWake == faults = 0 /\ announced \cap pending # {} => WakeComing

\* The same, as a fact about what happens in the end and whatever the clock and
\* the host do: a message whose sender was told of a signal is fetched, unless
\* something has failed; and then it is not left behind a flight that later
\* senders rely on: the next notification about it signals the host again.
AnnouncedIsFetched ==
  \A i \in Ids :
     <>[](i \in announced \cap pending)
       => <>[](faults > 0 /\ ~Joins /\ ~Known(i))

\* Every call of push, notify and receive comes to an end.
CallsEnd ==
  \A p \in Notifiers \cup Autos : []<>(pc[p] = "idle")

\* What the hint tells its agent: "An empty result needs no retry."
EmptyNeedsNoRetry ==
  [][\A a \in Agents : serving[a] # NoNotice /\ serving'[a] = NoNotice
        => announced \cap pending = {} \/ WakeComing']_vars

-----------------------------------------------------------------------------
\* Why the safety properties hold.

NotifySteps == {"look", "decide", "gone", "goneToo", "host", "record"}
ReceiveSteps == {"check", "mark", "claim"}

\* Mutual exclusion: who is at a step between lock and unlock has the lock.
LockHeld ==
  \A p \in Procs : pc[p] \in NotifySteps \cup ReceiveSteps <=> lock = p

\* Who runs which call; an agent works for the hint it was given, nobody else
\* for one.
Roles ==
  \A p \in Procs :
     /\ pc[p] \in NotifySteps \cup {"lock"} => p \in Notifiers
     /\ serving[p] # NoNotice <=> p \in Agents /\ pc[p] # "idle"

\* Only a stored message is announced, or looked for; one that was not found in
\* a directory is not in an earlier one either, unless it was skipped there.
Items ==
  /\ announced \subseteq Published
  /\ \A p \in Procs :
       /\ item[p] \in Published \cup {NoId}
       /\ pc[p] \in {"decide", "host", "record"} => item[p] \in Published
       /\ pc[p] = "gone" => item[p] \notin pending \ skipped
       /\ pc[p] = "goneToo" => item[p] \notin (pending \cup claimed) \ skipped

\* A notice id is minted once.
Minting ==
  /\ \A p \in Procs : pc[p] \in {"look", "decide", "gone", "goneToo"} => minted < MaxNotices
  /\ \A n \in Notices :
       n \in hints \cup inflight \/ n = ledger.id \/ (\E a \in Agents : serving[a] = n)
       => n <= minted

\* What the ledger says: a notice of the current protocol is a minted one, one
\* that is with the host has the host's receipt, and one that is on its way
\* there is reserved.
Reserved ==
  /\ Protocols = {TRUE} => compat /\ (ledger.state # "none" => ledger.v2)
  /\ ledger.coal => ledger.v2
  /\ ledger.v2 => ledger.id \in Notices
  /\ ledger.state = "queued" /\ ledger.v2 => ledger.coal
  /\ ledger.state \in {"queued", "written", "deferred"} => ledger.state \in Receipts
  /\ \A p \in Procs : pc[p] \in {"host", "record"} =>
       ledger.state = "submitting" /\ ledger.id # NoNotice

\* A receive with the lock has listed all that was announced and could be read,
\* and not tried it yet; one that serves a notice serves the flight of the ledger.
Draining ==
  \A r \in Procs : pc[r] \in {"mark", "claim"} =>
     /\ announced \cap pending \subseteq batch[r] \cup skipped
     /\ pc[r] = "mark" => ByNotice(r)
     /\ ByNotice(r) => ledger.id = serving[r] /\ ledger.v2
     /\ ByNotice(r) /\ pc[r] = "claim" =>
          ledger.state \in {"receiving", "received"} /\ serving[r] \in observed

\* The hint n is with the host, or an agent serves it.
HintComing(n) == n \in hints \/ \E a \in Agents : serving[a] = n

\* If no session ends: once the host has a hint, it comes to its agent, and the
\* agent stays with it until it has observed it.
HintStays ==
  "dies" \notin Faults =>
    /\ QueuedHasHint
    /\ ledger.v2 => \A p \in Procs : pc[p] = "record" /\ out[p] \in {"queued", "written"} =>
                       HintComing(ledger.id)

\* If every session speaks the current protocol and every receipt says "queued":
\* a new notice replaces only one that was observed.
CurrentHost == Protocols = {TRUE} /\ Receipts = {"queued"}

NoticesObserved ==
  CurrentHost =>
    /\ NoOrphanedHint
    /\ ledger.state = "none" => hints \cup inflight = {}
    /\ ledger.state \in {"receiving", "received"} => ledger.id \in observed

\* As long as nothing has failed, the state of the ledger is the truth: a
\* reservation has a notifier at work on it, a flight a hint or an agent, and
\* nothing that was announced outlives a flight that is over.
FlightAlive ==
  faults = 0 =>
    /\ skipped = {}
    /\ ledger.state = "received" => announced \cap pending = {}
    /\ ledger.state \notin {"failed", "uncertain"} /\ inflight = {}
    /\ ledger.state = "submitting" => \E p \in Notifiers : pc[p] \in {"host", "record"}
    /\ ledger.state = "none" => announced = {}
    /\ ledger.v2 /\ ledger.state \in {"queued", "written", "receiving"} =>
         HintComing(ledger.id)
    /\ \A p \in Procs : pc[p] = "record" => out[p] \in Receipts
    /\ ledger.v2 => \A p \in Procs : pc[p] = "record" /\ out[p] # "deferred" =>
                       HintComing(ledger.id)

\* The same for hosts that queue: the hint is there once, and goes when it is
\* picked up.
OneHint ==
  faults = 0 /\ Protocols = {TRUE} /\ "written" \notin Receipts =>
    /\ ledger.state \notin {"submitting", "queued"} => hints = {}
    /\ hints \subseteq {ledger.id}
    /\ hints # {} => \A a \in Agents : serving[a] # ledger.id
    /\ \A p \in Procs : pc[p] = "host" \/ (pc[p] = "record" /\ out[p] = "deferred") =>
         hints = {} /\ \A a \in Agents : serving[a] # ledger.id

\* The inductive invariant.
IInv == /\ TypeOK /\ LockHeld /\ Roles /\ Items /\ Minting /\ Reserved /\ Draining
        /\ HintStays /\ NoticesObserved /\ FlightAlive /\ OneHint
=============================================================================
