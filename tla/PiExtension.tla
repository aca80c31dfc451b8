---------------------------- MODULE PiExtension ----------------------------
(***************************************************************************)
(* extensions/pi/agentqueue.ts: how a Pi session watches its mailbox and   *)
(* has each message claimed and injected.  JavaScript runs one step at a   *)
(* time, so an action is what happens between two awaits, or a callback.   *)
(*                                                                         *)
(* Every session_start makes a new runtime and stops the one before; what  *)
(* that one awaits still comes back to it.  The lifecycle handlers of the  *)
(* host follow each other; timers, watcher events, the takes of every      *)
(* runtime, senders and other consumers come at any time.  Ids are ordered *)
(* by arrival, and take is the atomic claim of Mailbox.                    *)
(***************************************************************************)
EXTENDS Naturals, FiniteSets

CONSTANTS
  MaxIds,        \* bound: messages; they are 1 .. MaxIds, oldest first
  MaxRuntimes,   \* bound: sessions started
  MaxFaults,     \* bound: failed takes, failed and broken watchers
  PerDrain,      \* MAX_ITEMS_PER_DRAIN
  NoId, NoRuntime

Ids == 1 .. MaxIds
Runtimes == 1 .. MaxRuntimes

ASSUME BoundsAssumption ==
  /\ MaxIds \in Nat /\ MaxRuntimes \in Nat /\ MaxFaults \in Nat /\ PerDrain \in Nat \ {0}
ASSUME NamesAssumption == NoId \notin Ids /\ NoRuntime \notin Runtimes

VARIABLES
  pending, claimed,  \* the mailbox of the session
  rt,        \* the runtimes
  take,      \* per runtime: "none", "exec" (running) or "back" (to be handled)
  held,      \* per runtime: the message its take has claimed
  current,   \* the runtime of the session
  started,   \* runtimes made so far
  life,      \* the lifecycle handler at work, "on" or "off" if there is none
  mine,      \* history: the messages claimed by a take of the extension
  shown,     \* history: the messages injected
  lost,      \* history: the messages of failed takes and failed injections
  missed,    \* history: whether a take or an injection has failed
  faults     \* history: the number of failures

mailbox == <<pending, claimed>>
history == <<mine, shown, lost, missed, faults>>
vars == <<mailbox, rt, take, held, current, started, life, history>>

Fresh == [active |-> TRUE, watcher |-> FALSE, event |-> FALSE, arming |-> FALSE,
          timer |-> FALSE, retry |-> FALSE, draining |-> FALSE, again |-> FALSE,
          delivered |-> 0]

Init ==
  /\ pending = {} /\ claimed = {}
  /\ rt = [r \in Runtimes |-> [Fresh EXCEPT !.active = FALSE]]
  /\ take = [r \in Runtimes |-> "none"]
  /\ held = [r \in Runtimes |-> NoId]
  /\ current = NoRuntime /\ started = 0 /\ life = "off"
  /\ mine = {} /\ shown = {} /\ lost = {} /\ missed = FALSE /\ faults = 0

-----------------------------------------------------------------------------
\* What the functions of the extension do to a runtime x.

\* requestDrain
Asks(x) == IF ~x.active THEN x
           ELSE IF x.draining THEN [x EXCEPT !.again = TRUE]
           ELSE [x EXCEPT !.timer = TRUE]

\* Variant: it only starts the timer it has.
RetriesNever(x) == x

\* scheduleWatchRetry
RetriesWatch(x) == IF x.active THEN [x EXCEPT !.retry = TRUE] ELSE x

\* ensureWatcher, up to its await
Ensures(x) == IF x.active /\ ~x.watcher THEN [x EXCEPT !.arming = TRUE] ELSE x

\* closeWatcher
Closed(x) == [x EXCEPT !.watcher = FALSE, !.event = FALSE]

\* Variant: the flag is forgotten.
StoppedButActive(x) == [Closed(x) EXCEPT !.timer = FALSE, !.retry = FALSE]

\* stopRuntime, up to its await
Stopped(x) == [Closed(x) EXCEPT !.active = FALSE, !.timer = FALSE, !.retry = FALSE]

Becomes(r, x) == rt' = [rt EXCEPT ![r] = x]

\* A directory change is an event for whoever watches.
Changes(runtimes) ==
  [r \in Runtimes |-> [runtimes[r] EXCEPT !.event = runtimes[r].watcher]]

Fault == faults < MaxFaults /\ faults' = faults + 1

-----------------------------------------------------------------------------
\* The lifecycle.

Lives(handler, next) == life = handler /\ life' = next

\* session_start: the old runtime is stopped first.
SessionStart ==
  /\ life \in {"on", "off"} /\ started < MaxRuntimes
  /\ life' = "stopping"
  /\ IF current = NoRuntime THEN UNCHANGED rt ELSE Becomes(current, Stopped(rt[current]))
  /\ UNCHANGED <<mailbox, take, held, current, started, history>>

\* The unregistration has ended: the new runtime is made, and registers.
MakeRuntime ==
  /\ Lives("stopping", "registering")
  /\ started' = started + 1 /\ current' = started'
  /\ Becomes(started', Fresh)
  /\ UNCHANGED <<mailbox, take, held, history>>

\* The host cannot tell the session's id.
MakeNone ==
  /\ Lives("stopping", "off")
  /\ current' = NoRuntime
  /\ UNCHANGED <<mailbox, rt, take, held, started, history>>

Registered ==
  /\ Lives("registering", "watching")
  /\ Becomes(current, Ensures(rt[current]))
  /\ UNCHANGED <<mailbox, take, held, current, started, history>>

\* The initial drain.
Watching ==
  /\ Lives("watching", "on") /\ ~rt[current].arming
  /\ Becomes(current, Asks(rt[current]))
  /\ UNCHANGED <<mailbox, take, held, current, started, history>>

SessionShutdown ==
  /\ Lives("on", "closing")
  /\ Becomes(current, Stopped(rt[current]))
  /\ UNCHANGED <<mailbox, take, held, current, started, history>>

ShutDown ==
  /\ Lives("closing", "off")
  /\ current' = NoRuntime
  /\ UNCHANGED <<mailbox, rt, take, held, started, history>>

-----------------------------------------------------------------------------
\* The watcher.

\* Variants: a runtime that was stopped meanwhile gets its watcher; the
\* messages that came before the watcher are left to its events.
ArmAnyway(r) ==
  /\ rt[r].arming
  /\ Becomes(r, Asks([rt[r] EXCEPT !.arming = FALSE, !.watcher = TRUE]))
  /\ UNCHANGED <<mailbox, take, held, current, started, life, history>>
ArmSilently(r) ==
  /\ rt[r].arming
  /\ Becomes(r, [rt[r] EXCEPT !.arming = FALSE, !.watcher = rt[r].active])
  /\ UNCHANGED <<mailbox, take, held, current, started, life, history>>

\* ensureWatcher, after its await: the directory is watched, and drained, as
\* messages may have come before.
Arm(r) ==
  /\ rt[r].arming
  /\ Becomes(r, IF rt[r].active
                THEN Asks([rt[r] EXCEPT !.arming = FALSE, !.watcher = TRUE])
                ELSE [rt[r] EXCEPT !.arming = FALSE])
  /\ UNCHANGED <<mailbox, take, held, current, started, life, history>>

ArmFails(r) ==
  /\ rt[r].arming /\ Fault
  /\ Becomes(r, RetriesWatch([rt[r] EXCEPT !.arming = FALSE]))
  /\ UNCHANGED <<mailbox, take, held, current, started, life, mine, shown, lost, missed>>

\* The watcher breaks or is closed from outside; its events are gone.
WatchBreaks(r) ==
  /\ rt[r].watcher /\ Fault
  /\ Becomes(r, RetriesWatch(Closed(rt[r])))
  /\ UNCHANGED <<mailbox, take, held, current, started, life, mine, shown, lost, missed>>

WatchRetry(r) ==
  /\ rt[r].retry
  /\ Becomes(r, Ensures([rt[r] EXCEPT !.retry = FALSE]))
  /\ UNCHANGED <<mailbox, take, held, current, started, life, history>>

WatchFires(r) ==
  /\ rt[r].event
  /\ Becomes(r, Asks([rt[r] EXCEPT !.event = FALSE]))
  /\ UNCHANGED <<mailbox, take, held, current, started, life, history>>

-----------------------------------------------------------------------------
\* drain.

\* The debounce timer: a drain starts with a take.
DrainStarts(r) ==
  /\ rt[r].timer
  /\ LET x == [rt[r] EXCEPT !.timer = FALSE] IN
     IF x.active /\ ~x.draining
     THEN /\ Becomes(r, [x EXCEPT !.draining = TRUE, !.delivered = 0])
          /\ take' = [take EXCEPT ![r] = "exec"]
     ELSE /\ Becomes(r, [x EXCEPT !.again = TRUE])
          /\ UNCHANGED take
  /\ UNCHANGED <<mailbox, held, current, started, life, history>>

\* r's take ends, with i or with nothing.
Ends(r, i) == /\ take[r] = "exec"
              /\ take' = [take EXCEPT ![r] = "back"]
              /\ held' = [held EXCEPT ![r] = i]
              /\ UNCHANGED <<current, started, life, shown>>

Oldest(i) == i \in pending /\ \A j \in pending : i <= j

Claims(i) == /\ pending' = pending \ {i} /\ claimed' = claimed \cup {i}
             /\ rt' = Changes(rt)

TakeFinds(r, i) ==
  /\ Oldest(i) /\ Claims(i) /\ Ends(r, i)
  /\ mine' = mine \cup {i}
  /\ UNCHANGED <<lost, missed, faults>>

TakeFindsNone(r) ==
  /\ pending = {} /\ Ends(r, NoId)
  /\ UNCHANGED <<mailbox, rt, mine, lost, missed, faults>>

\* The command is not there, fails, or is killed before it claims anything.
TakeFails(r) ==
  /\ Fault /\ Ends(r, NoId) /\ missed' = TRUE
  /\ UNCHANGED <<mailbox, rt, mine, lost>>

\* It is killed, or prints nothing usable, after the claim.
TakeIsCutOff(r, i) ==
  /\ Fault /\ Oldest(i) /\ Claims(i) /\ Ends(r, NoId)
  /\ mine' = mine \cup {i} /\ lost' = lost \cup {i} /\ missed' = TRUE

Idle(r) == /\ take' = [take EXCEPT ![r] = "none"]
           /\ held' = [held EXCEPT ![r] = NoId]

\* Variant: what happened during the drain is forgotten.
FinishedDeaf(x) == LET y == [x EXCEPT !.draining = FALSE, !.again = FALSE] IN
                   IF x.delivered = PerDrain THEN Asks(y) ELSE y

\* The drain is over; it asks for another if the mailbox changed meanwhile, or
\* if it stopped at the limit.
Finished(x) == LET y == [x EXCEPT !.draining = FALSE, !.again = FALSE] IN
               IF x.again \/ x.delivered = PerDrain THEN Asks(y) ELSE y

\* Nothing was taken, or the runtime was stopped: the drain ends.
DrainEnds(r) ==
  /\ take[r] = "back" /\ (held[r] = NoId \/ ~rt[r].active)
  /\ Becomes(r, Finished(rt[r])) /\ Idle(r)
  /\ UNCHANGED <<mailbox, current, started, life, history>>

\* Variant: one more than the limit.
InjectOver(r) ==
  /\ take[r] = "back" /\ held[r] # NoId /\ rt[r].active
  /\ shown' = shown \cup {held[r]}
  /\ held' = [held EXCEPT ![r] = NoId]
  /\ LET x == [rt[r] EXCEPT !.delivered = @ + 1] IN
     IF x.delivered <= PerDrain
     THEN Becomes(r, x) /\ take' = [take EXCEPT ![r] = "exec"]
     ELSE Becomes(r, Finished(x)) /\ take' = [take EXCEPT ![r] = "none"]
  /\ UNCHANGED <<mailbox, current, started, life, mine, lost, missed, faults>>

\* The message is injected; another is taken unless the limit is reached.
Inject(r) ==
  /\ take[r] = "back" /\ held[r] # NoId /\ rt[r].active
  /\ shown' = shown \cup {held[r]}
  /\ held' = [held EXCEPT ![r] = NoId]
  /\ LET x == [rt[r] EXCEPT !.delivered = @ + 1] IN
     IF x.delivered < PerDrain
     THEN Becomes(r, x) /\ take' = [take EXCEPT ![r] = "exec"]
     ELSE Becomes(r, Finished(x)) /\ take' = [take EXCEPT ![r] = "none"]
  /\ UNCHANGED <<mailbox, current, started, life, mine, lost, missed, faults>>

\* sendMessage throws; the drain ends.
InjectFails(r) ==
  /\ take[r] = "back" /\ held[r] # NoId /\ rt[r].active /\ Fault
  /\ Becomes(r, Finished(rt[r])) /\ Idle(r)
  /\ lost' = lost \cup {held[r]} /\ missed' = TRUE
  /\ UNCHANGED <<mailbox, current, started, life, mine, shown>>

-----------------------------------------------------------------------------
\* The environment.

Push(i) ==
  /\ i \in Ids \ (pending \cup claimed)
  /\ \A j \in Ids \ (pending \cup claimed) : i <= j
  /\ pending' = pending \cup {i}
  /\ rt' = Changes(rt)
  /\ UNCHANGED <<claimed, take, held, current, started, life, history>>

TakeElsewhere(i) ==
  /\ i \in pending /\ Claims(i)
  /\ UNCHANGED <<take, held, current, started, life, history>>

-----------------------------------------------------------------------------
Handlers == MakeRuntime \/ MakeNone \/ Registered \/ Watching \/ ShutDown

Steps(r) == \/ Arm(r) \/ WatchRetry(r) \/ WatchFires(r) \/ DrainStarts(r)
            \/ (\E i \in Ids : TakeFinds(r, i)) \/ TakeFindsNone(r)
            \/ DrainEnds(r) \/ Inject(r)

Failures(r) == \/ ArmFails(r) \/ WatchBreaks(r) \/ TakeFails(r) \/ InjectFails(r)
               \/ \E i \in Ids : TakeIsCutOff(r, i)

Next == \/ Handlers \/ SessionStart \/ SessionShutdown
        \/ \E r \in Runtimes : Steps(r) \/ Failures(r)
        \/ \E i \in Ids : Push(i) \/ TakeElsewhere(i)

Spec == Init /\ [][Next]_vars

\* Handlers, callbacks and commands run to their end; timers and events come.
FairSpec == /\ Spec /\ WF_vars(Handlers)
            /\ \A r \in Runtimes : WF_vars(Steps(r))

-----------------------------------------------------------------------------
\* Properties.

Runtime == [active : BOOLEAN, watcher : BOOLEAN, event : BOOLEAN, arming : BOOLEAN,
            timer : BOOLEAN, retry : BOOLEAN, draining : BOOLEAN, again : BOOLEAN,
            delivered : 0 .. PerDrain]

\* Every variable has its type, and a drain counts no further than its limit.
TypeOK ==
  /\ pending \subseteq Ids /\ claimed \subseteq Ids
  /\ rt \in [Runtimes -> Runtime]
  /\ take \in [Runtimes -> {"none", "exec", "back"}]
  /\ held \in [Runtimes -> Ids \cup {NoId}]
  /\ current \in Runtimes \cup {NoRuntime} /\ started \in 0 .. MaxRuntimes
  /\ life \in {"off", "stopping", "registering", "watching", "on", "closing"}
  /\ mine \subseteq Ids /\ shown \subseteq mine /\ lost \subseteq mine
  /\ missed \in BOOLEAN /\ faults \in Nat

\* A runtime that was stopped stays silent, whatever it was waiting for when it
\* was stopped: it has no watcher, and no timer that would start something.
StoppedIsQuiet ==
  \A r \in Runtimes : ~rt[r].active =>
     ~rt[r].watcher /\ ~rt[r].timer /\ ~rt[r].retry

\* Messages are injected in the order they arrived in, also across a restart
\* during which a take of the old runtime is still on its way.
ShownInOrder ==
  [][\A i \in shown' \ shown, j \in shown : j < i]_vars

\* A message is not left in the mailbox of a session that stays: it is claimed,
\* by whomever, unless a take or an injection has failed, even if its watcher
\* was missing when it came.  ("Delivery is best effort here; a later
\* filesystem event can retry.")
PendingIsTaken ==
  \A i \in Ids : i \in pending /\ life = "on" ~>
                    i \notin pending \/ life # "on" \/ missed

\* A watcher that breaks or cannot be made does not stop the deliveries.
WatcherComesBack ==
  life = "on" ~> life # "on" \/ \E r \in Runtimes : rt[r].active /\ rt[r].watcher

\* What the README says: "claims each item through agentqueue take, and then
\* injects it", "exactly-once".
ClaimedIsInjected ==
  \A i \in mine \ lost : i \in shown \/ \E r \in Runtimes : held[r] = i

-----------------------------------------------------------------------------
\* Why the first two hold.

\* The only runtime that may be active is the session's, between the start of
\* its registration and its end; the ones to come have taken nothing.
OneActive ==
  /\ \A r \in Runtimes : rt[r].active =>
       r = current /\ life \in {"registering", "watching", "on"}
  /\ life \in {"registering", "watching", "on", "closing"} =>
       current \in Runtimes /\ current <= started
  /\ life = "stopping" => started < MaxRuntimes
  /\ \A r \in Runtimes : r > started => take[r] = "none"

\* A take belongs to a drain that has not reached its limit, and what it holds
\* it has claimed.
DrainsTake ==
  \A r \in Runtimes :
     /\ take[r] # "none" => rt[r].draining /\ rt[r].delivered < PerDrain
     /\ held[r] # NoId => take[r] = "back" /\ held[r] \in mine

\* Ids arrive in order and are claimed by the extension in order: the active
\* runtime holds nothing older than what has been shown.
ClaimsInOrder ==
  /\ pending \cap claimed = {} /\ mine \subseteq claimed
  /\ \A i \in pending \cup claimed, j \in Ids : j < i => j \in pending \cup claimed
  /\ \A i \in pending, j \in mine : j < i
  /\ \A r \in Runtimes : rt[r].active /\ held[r] # NoId => \A j \in shown : j < held[r]

\* The inductive invariant.
IInv == TypeOK /\ StoppedIsQuiet /\ OneActive /\ DrainsTake /\ ClaimsInOrder
=============================================================================
