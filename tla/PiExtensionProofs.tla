-------------------------- MODULE PiExtensionProofs --------------------------
(***************************************************************************)
(* Proofs about PiExtension, for any number of messages, session starts    *)
(* and failures and any limit of a drain.  IInv of PiExtension is          *)
(* inductive; that a stopped runtime stays quiet and that messages are     *)
(* injected in order follow from it.                                       *)
(***************************************************************************)
EXTENDS PiExtension, TLAPS

USE BoundsAssumption, NamesAssumption
    DEF mailbox, history, Becomes, Lives, Fault

\* Ids and runtimes are numbers, and there is a next runtime while another
\* session_start is possible.
LEMMA Ranges ==
  /\ Ids \subseteq Nat /\ Runtimes \subseteq Nat
  /\ \A n \in 0 .. MaxRuntimes : n < MaxRuntimes => n + 1 \in Runtimes
BY DEF Ids, Runtimes

-----------------------------------------------------------------------------
\* What the functions of the extension do to a runtime.

Quiet(x) == ~x.active => ~x.watcher /\ ~x.timer /\ ~x.retry

\* x becomes y by flags and timers alone: it is no more active than before, is
\* quiet if it is not, and its drain is where it was.
Adjusts(x, y) == /\ y \in Runtime /\ Quiet(y)
                 /\ y.active => x.active
                 /\ y.draining = x.draining /\ y.delivered = x.delivered

\* A step that only adjusts the flags of one runtime.
FlagStep(r, x) ==
  /\ Becomes(r, x) /\ Adjusts(rt[r], x)
  /\ UNCHANGED <<mailbox, take, held, current, started, life, mine, shown, lost, missed>>
  /\ faults' \in Nat

\* requestDrain, ensureWatcher and scheduleWatchRetry start no timer and no
\* watcher of a runtime that was stopped.
LEMMA RequestsAdjust ==
  ASSUME NEW x \in Runtime, Quiet(x)
  PROVE  Adjusts(x, Asks(x)) /\ Adjusts(x, Ensures(x)) /\ Adjusts(x, RetriesWatch(x))
<1>1. Adjusts(x, Asks(x))
  BY DEF Runtime, Quiet, Adjusts, Asks
<1>2. Adjusts(x, Ensures(x))
  BY DEF Runtime, Quiet, Adjusts, Ensures
<1>3. Adjusts(x, RetriesWatch(x))
  BY DEF Runtime, Quiet, Adjusts, RetriesWatch
<1> QED
  BY <1>1, <1>2, <1>3

\* stopRuntime and closeWatcher leave a runtime quiet, and the drain that is
\* under way to its end.
LEMMA StopsQuietly ==
  ASSUME NEW x \in Runtime, Quiet(x)
  PROVE  /\ Adjusts(x, Closed(x)) /\ Adjusts(x, Stopped(x))
         /\ ~Stopped(x).active
<1>1. Adjusts(x, Closed(x))
  BY DEF Runtime, Quiet, Adjusts, Closed
<1>2. Adjusts(x, Stopped(x)) /\ ~Stopped(x).active
  BY DEF Runtime, Quiet, Adjusts, Stopped, Closed
<1> QED
  BY <1>1, <1>2

\* The end of drain() leaves a stopped runtime quiet.
LEMMA FinishesQuietly ==
  ASSUME NEW x \in Runtime, Quiet(x)
  PROVE  Finished(x) \in Runtime /\ Quiet(Finished(x)) /\ Finished(x).active = x.active
<1> DEFINE y == [x EXCEPT !.draining = FALSE, !.again = FALSE]
<1>1. y \in Runtime /\ Quiet(y) /\ y.active = x.active
  BY DEF Runtime, Quiet
<1>2. Asks(y) \in Runtime /\ Quiet(Asks(y)) /\ Asks(y).active = x.active
  BY <1>1 DEF Runtime, Quiet, Asks
<1> QED
  BY <1>1, <1>2 DEF Finished

\* A change of the directory is an event for whoever watches, and no more.
LEMMA ChangesAdjust ==
  ASSUME TypeOK, StoppedIsQuiet, rt' = Changes(rt)
  PROVE  /\ rt' \in [Runtimes -> Runtime]
         /\ \A r \in Runtimes : Adjusts(rt[r], rt'[r]) /\ rt'[r].active = rt[r].active
<1>1. ASSUME NEW r \in Runtimes
      PROVE  rt'[r] \in Runtime /\ Adjusts(rt[r], rt'[r]) /\ rt'[r].active = rt[r].active
  <2>1. rt[r] \in Runtime /\ Quiet(rt[r])
    BY DEF TypeOK, StoppedIsQuiet, Quiet
  <2>2. rt'[r] = [rt[r] EXCEPT !.event = rt[r].watcher]
    BY DEF Changes
  <2> QED
    BY <2>1, <2>2 DEF Runtime, Quiet, Adjusts
<1> QED
  BY <1>1 DEF Changes

-----------------------------------------------------------------------------
\* The invariant is preserved.

\* Flags and timers touch neither the mailbox nor a take.
LEMMA FlagStepPreserves ==
  ASSUME IInv, NEW r \in Runtimes, NEW x, FlagStep(r, x)
  PROVE  IInv'
<1> USE DEF IInv, FlagStep, Adjusts, Quiet
<1>1. TypeOK'
  BY DEF TypeOK
<1>2. StoppedIsQuiet'
  BY DEF TypeOK, StoppedIsQuiet
<1>3. OneActive'
  BY DEF TypeOK, OneActive
<1>4. DrainsTake'
  BY DEF TypeOK, DrainsTake
<1>5. ClaimsInOrder'
  BY DEF TypeOK, ClaimsInOrder
<1> QED
  BY <1>1, <1>2, <1>3, <1>4, <1>5

\* The watcher: what ensureWatcher, its retry and its events do to a runtime.
LEMMA WatchPreserves ==
  ASSUME IInv, NEW r \in Runtimes,
         \/ Arm(r) \/ ArmFails(r) \/ WatchBreaks(r) \/ WatchRetry(r) \/ WatchFires(r)
  PROVE  IInv'
<1> DEFINE x == rt[r]
<1>0. x \in Runtime /\ Quiet(x)
  BY DEF IInv, TypeOK, StoppedIsQuiet, Quiet
<1>1. CASE Arm(r)
  <2>1. CASE x.active
    <3> DEFINE y == [x EXCEPT !.arming = FALSE, !.watcher = TRUE]
    <3>1. Adjusts(x, y)
      BY <1>0, <2>1 DEF Runtime, Adjusts, Quiet
    <3>2. Adjusts(x, Asks(y))
      BY <3>1, RequestsAdjust DEF Adjusts
    <3>3. FlagStep(r, Asks(y))
      BY <1>1, <2>1, <3>2 DEF Arm, FlagStep, IInv, TypeOK
    <3> QED
      BY <3>3, FlagStepPreserves
  <2>2. CASE ~x.active
    <3>1. Adjusts(x, [x EXCEPT !.arming = FALSE])
      BY <1>0 DEF Runtime, Adjusts, Quiet
    <3>2. FlagStep(r, [x EXCEPT !.arming = FALSE])
      BY <1>1, <2>2, <3>1 DEF Arm, FlagStep, IInv, TypeOK
    <3> QED
      BY <3>2, FlagStepPreserves
  <2> QED
    BY <2>1, <2>2
<1>2. CASE ArmFails(r)
  <2> DEFINE y == [x EXCEPT !.arming = FALSE]
  <2>1. Adjusts(x, y)
    BY <1>0 DEF Runtime, Adjusts, Quiet
  <2>2. Adjusts(x, RetriesWatch(y))
    BY <2>1, RequestsAdjust DEF Adjusts
  <2>3. FlagStep(r, RetriesWatch(y))
    BY <1>2, <2>2 DEF ArmFails, FlagStep, IInv, TypeOK
  <2> QED
    BY <2>3, FlagStepPreserves
<1>3. CASE WatchBreaks(r)
  <2>1. Adjusts(x, Closed(x))
    BY <1>0, StopsQuietly
  <2>2. Adjusts(x, RetriesWatch(Closed(x)))
    BY <2>1, RequestsAdjust DEF Adjusts
  <2>3. FlagStep(r, RetriesWatch(Closed(x)))
    BY <1>3, <2>2 DEF WatchBreaks, FlagStep, IInv, TypeOK
  <2> QED
    BY <2>3, FlagStepPreserves
<1>4. CASE WatchRetry(r)
  <2> DEFINE y == [x EXCEPT !.retry = FALSE]
  <2>1. Adjusts(x, y)
    BY <1>0 DEF Runtime, Adjusts, Quiet
  <2>2. Adjusts(x, Ensures(y))
    BY <2>1, RequestsAdjust DEF Adjusts
  <2>3. FlagStep(r, Ensures(y))
    BY <1>4, <2>2 DEF WatchRetry, FlagStep, IInv, TypeOK
  <2> QED
    BY <2>3, FlagStepPreserves
<1>5. CASE WatchFires(r)
  <2> DEFINE y == [x EXCEPT !.event = FALSE]
  <2>1. Adjusts(x, y)
    BY <1>0 DEF Runtime, Adjusts, Quiet
  <2>2. Adjusts(x, Asks(y))
    BY <2>1, RequestsAdjust DEF Adjusts
  <2>3. FlagStep(r, Asks(y))
    BY <1>5, <2>2 DEF WatchFires, FlagStep, IInv, TypeOK
  <2> QED
    BY <2>3, FlagStepPreserves
<1> QED
  BY <1>1, <1>2, <1>3, <1>4, <1>5

\* session_start and session_shutdown: the old runtime is stopped before the
\* new one is made, and the new one has taken nothing.
LEMMA LifecyclePreserves ==
  ASSUME IInv, Handlers \/ SessionStart \/ SessionShutdown
  PROVE  IInv'
<1> USE DEF IInv
<1>1. CASE SessionStart
  <2> USE <1>1 DEF SessionStart
  <2>1. CASE current = NoRuntime
    <3>1. TypeOK'
      BY <2>1 DEF TypeOK
    <3>2. StoppedIsQuiet'
      BY <2>1 DEF TypeOK, StoppedIsQuiet
    <3>3. OneActive'
      BY <2>1 DEF TypeOK, OneActive
    <3>4. DrainsTake'
      BY <2>1 DEF TypeOK, DrainsTake
    <3>5. ClaimsInOrder'
      BY <2>1 DEF TypeOK, ClaimsInOrder
    <3> QED
      BY <3>1, <3>2, <3>3, <3>4, <3>5
  <2>2. CASE current # NoRuntime
    <3> DEFINE x == Stopped(rt[current])
    <3>0. current \in Runtimes /\ x \in Runtime /\ ~x.active /\ Quiet(x)
          /\ x.draining = rt[current].draining /\ x.delivered = rt[current].delivered
      BY <2>2, StopsQuietly DEF TypeOK, StoppedIsQuiet, Quiet, Adjusts
    <3>9. rt' = [rt EXCEPT ![current] = x]
      BY <2>2
    <3> HIDE DEF x
    <3>1. TypeOK'
      BY <3>0, <3>9 DEF TypeOK, Quiet
    <3>2. StoppedIsQuiet'
      BY <3>0, <3>9 DEF TypeOK, StoppedIsQuiet, Quiet
    <3>3. OneActive'
      BY <3>0, <3>9 DEF TypeOK, OneActive, Quiet
    <3>4. DrainsTake'
      BY <3>0, <3>9 DEF TypeOK, DrainsTake, Quiet
    <3>5. ClaimsInOrder'
      BY <3>0, <3>9 DEF TypeOK, ClaimsInOrder, Quiet
    <3> QED
      BY <3>1, <3>2, <3>3, <3>4, <3>5
  <2> QED
    BY <2>1, <2>2
<1>2. CASE MakeRuntime
  <2> USE <1>2 DEF MakeRuntime
  <2>8. started' \in Runtimes /\ started' = started + 1 /\ take[started'] = "none"
    BY Ranges DEF TypeOK, OneActive
  <2>7. started' \in 0 .. MaxRuntimes
    BY <2>8 DEF Runtimes
  <2>9. Fresh \in Runtime /\ Fresh.active
    BY DEF Runtime, Fresh
  <2>0. /\ rt'[started'] = Fresh /\ rt' \in [Runtimes -> Runtime]
        /\ \A r \in Runtimes : r = started' \/ (rt'[r] = rt[r] /\ ~rt[r].active)
    BY <2>8, <2>9 DEF TypeOK, OneActive
  <2> USE <2>7, <2>8, <2>9
  <2>1. TypeOK'
    BY <2>0 DEF TypeOK
  <2>2. StoppedIsQuiet'
    BY <2>0 DEF TypeOK, StoppedIsQuiet
  <2>3. OneActive'
    BY <2>0 DEF TypeOK, OneActive
  <2>4. DrainsTake'
    BY <2>0 DEF TypeOK, DrainsTake
  <2>5. ClaimsInOrder'
    BY <2>0 DEF TypeOK, ClaimsInOrder, DrainsTake
  <2> QED
    BY <2>1, <2>2, <2>3, <2>4, <2>5
<1>3. CASE MakeNone \/ ShutDown
  <2> USE <1>3 DEF MakeNone, ShutDown
  <2>1. TypeOK'
    BY DEF TypeOK
  <2>2. StoppedIsQuiet'
    BY DEF TypeOK, StoppedIsQuiet
  <2>3. OneActive'
    BY DEF TypeOK, OneActive
  <2>4. DrainsTake'
    BY DEF TypeOK, DrainsTake
  <2>5. ClaimsInOrder'
    BY DEF TypeOK, ClaimsInOrder
  <2> QED
    BY <2>1, <2>2, <2>3, <2>4, <2>5
<1>4. CASE Registered \/ Watching
  <2>0. /\ current \in Runtimes
        /\ Adjusts(rt[current], Ensures(rt[current])) /\ Adjusts(rt[current], Asks(rt[current]))
    <3>1. current \in Runtimes
      BY <1>4 DEF OneActive, Registered, Watching
    <3>2. rt[current] \in Runtime /\ Quiet(rt[current])
      BY <3>1 DEF TypeOK, StoppedIsQuiet, Quiet
    <3> QED
      BY <3>1, <3>2, RequestsAdjust
  <2>8. PICK x : Adjusts(rt[current], x) /\ rt' = [rt EXCEPT ![current] = x]
    BY <1>4, <2>0 DEF Registered, Watching
  <2>9. /\ life = "registering" \/ life = "watching"
        /\ life' \in {"watching", "on"}
        /\ UNCHANGED <<mailbox, take, held, current, started, history>>
    BY <1>4 DEF Registered, Watching
  <2> USE <2>0, <2>8, <2>9 DEF Adjusts, Quiet
  <2>1. TypeOK'
    BY DEF TypeOK
  <2>2. StoppedIsQuiet'
    BY DEF TypeOK, StoppedIsQuiet
  <2>3. OneActive'
    BY DEF TypeOK, OneActive
  <2>4. DrainsTake'
    BY DEF TypeOK, DrainsTake
  <2>5. ClaimsInOrder'
    BY DEF TypeOK, ClaimsInOrder
  <2> QED
    BY <2>1, <2>2, <2>3, <2>4, <2>5
<1>5. CASE SessionShutdown
  <2> DEFINE x == Stopped(rt[current])
  <2>0. /\ current \in Runtimes /\ Adjusts(rt[current], x) /\ ~x.active
        /\ rt' = [rt EXCEPT ![current] = x]
    BY <1>5, StopsQuietly
       DEF TypeOK, StoppedIsQuiet, Quiet, OneActive, SessionShutdown
  <2> HIDE DEF x
  <2> USE <1>5, <2>0 DEF Adjusts, Quiet, SessionShutdown
  <2>1. TypeOK'
    BY DEF TypeOK
  <2>2. StoppedIsQuiet'
    BY DEF TypeOK, StoppedIsQuiet
  <2>3. OneActive'
    BY DEF TypeOK, OneActive
  <2>4. DrainsTake'
    BY DEF TypeOK, DrainsTake
  <2>5. ClaimsInOrder'
    BY DEF TypeOK, ClaimsInOrder
  <2> QED
    BY <2>1, <2>2, <2>3, <2>4, <2>5
<1> QED
  BY <1>1, <1>2, <1>3, <1>4, <1>5 DEF Handlers

\* The mailbox changes: ids arrive in order, and an event for a watcher starts
\* nothing by itself.
LEMMA MailboxPreserves ==
  ASSUME IInv, NEW i \in Ids, Push(i) \/ TakeElsewhere(i)
  PROVE  IInv'
<1> USE DEF IInv
<1>1. CASE Push(i)
  <2> USE <1>1 DEF Push
  <2>0. /\ rt' \in [Runtimes -> Runtime]
        /\ \A r \in Runtimes : Adjusts(rt[r], rt'[r])
    BY ChangesAdjust
  <2>1. TypeOK'
    BY <2>0 DEF TypeOK, Adjusts, Quiet
  <2>2. StoppedIsQuiet'
    BY <2>0 DEF TypeOK, StoppedIsQuiet, Adjusts, Quiet
  <2>3. OneActive'
    BY <2>0 DEF TypeOK, OneActive, Adjusts, Quiet
  <2>4. DrainsTake'
    BY <2>0 DEF TypeOK, DrainsTake, Adjusts, Quiet
  <2>5. ClaimsInOrder'
    BY <2>0, Ranges DEF TypeOK, DrainsTake, ClaimsInOrder, Adjusts, Quiet
  <2> QED
    BY <2>1, <2>2, <2>3, <2>4, <2>5
<1>2. CASE TakeElsewhere(i)
  <2> USE <1>2 DEF TakeElsewhere, Claims
  <2>0. /\ rt' \in [Runtimes -> Runtime]
        /\ \A r \in Runtimes : Adjusts(rt[r], rt'[r])
    BY ChangesAdjust
  <2>1. TypeOK'
    BY <2>0 DEF TypeOK, Adjusts, Quiet
  <2>2. StoppedIsQuiet'
    BY <2>0 DEF TypeOK, StoppedIsQuiet, Adjusts, Quiet
  <2>3. OneActive'
    BY <2>0 DEF TypeOK, OneActive, Adjusts, Quiet
  <2>4. DrainsTake'
    BY <2>0 DEF TypeOK, DrainsTake, Adjusts, Quiet
  <2>5. ClaimsInOrder'
    BY <2>0, Ranges DEF TypeOK, DrainsTake, ClaimsInOrder, Adjusts, Quiet
  <2> QED
    BY <2>1, <2>2, <2>3, <2>4, <2>5
<1> QED
  BY <1>1, <1>2

\* takeNext: the oldest message is claimed, and comes back to the drain of the
\* runtime that asked for it, or is lost on the way.
LEMMA TakePreserves ==
  ASSUME IInv, NEW r \in Runtimes,
         \/ \E i \in Ids : TakeFinds(r, i) \/ TakeIsCutOff(r, i)
         \/ TakeFindsNone(r) \/ TakeFails(r)
  PROVE  IInv'
<1> USE DEF IInv, Ends
<1>1. ASSUME NEW i \in Ids, TakeFinds(r, i) \/ TakeIsCutOff(r, i) PROVE IInv'
  <2>0. /\ rt' \in [Runtimes -> Runtime]
        /\ \A q \in Runtimes : Adjusts(rt[q], rt'[q])
    BY <1>1, ChangesAdjust DEF TakeFinds, TakeIsCutOff, Claims
  <2>7. missed' \in BOOLEAN
    BY <1>1, Zenon DEF TakeFinds, TakeIsCutOff, TypeOK
  <2>8. faults' \in Nat
    BY <1>1 DEF TakeFinds, TakeIsCutOff, TypeOK
  <2>9. /\ Oldest(i) /\ take[r] = "exec"
        /\ pending' = pending \ {i} /\ claimed' = claimed \cup {i}
        /\ mine' = mine \cup {i} /\ lost' \subseteq lost \cup {i}
        /\ take' = [take EXCEPT ![r] = "back"]
        /\ held' \in {[held EXCEPT ![r] = i], [held EXCEPT ![r] = NoId]}
        /\ UNCHANGED <<current, started, life, shown>>
    BY <1>1 DEF TakeFinds, TakeIsCutOff, Claims
  <2>1. TypeOK'
    BY <2>0, <2>7, <2>8, <2>9 DEF TypeOK, Adjusts, Quiet
  <2>2. StoppedIsQuiet'
    BY <2>0, <2>7, <2>8, <2>9 DEF TypeOK, StoppedIsQuiet, Adjusts, Quiet
  <2>3. OneActive'
    BY <2>0, <2>8, <2>9, Ranges DEF TypeOK, OneActive, Adjusts, Quiet
  <2>4. DrainsTake'
    BY <2>0, <2>7, <2>8, <2>9 DEF TypeOK, DrainsTake, Adjusts, Quiet
  <2>5. ClaimsInOrder'
    <3>1. \A j \in pending' : i < j
      BY <2>9, Ranges DEF TypeOK, Oldest
    <3>2. \A j \in mine : j < i
      BY <2>9 DEF Oldest, ClaimsInOrder
    <3>3. \A q \in Runtimes : rt'[q].active /\ held'[q] # NoId => \A j \in shown' : j < held'[q]
      BY <2>0, <2>9, <3>2 DEF TypeOK, Adjusts, ClaimsInOrder
    <3> QED
      BY <2>9, <3>1, <3>2, <3>3 DEF TypeOK, Oldest, ClaimsInOrder
  <2> QED
    BY <2>1, <2>2, <2>3, <2>4, <2>5
<1>2. CASE TakeFindsNone(r) \/ TakeFails(r)
  <2>7. missed' \in BOOLEAN
    BY <1>2, Zenon DEF TakeFindsNone, TakeFails, TypeOK
  <2>8. faults' \in Nat
    BY <1>2 DEF TakeFindsNone, TakeFails, TypeOK
  <2>9. /\ take[r] = "exec" /\ take' = [take EXCEPT ![r] = "back"]
        /\ held' = [held EXCEPT ![r] = NoId]
        /\ UNCHANGED <<mailbox, rt, current, started, life, mine, shown, lost>>
    BY <1>2 DEF TakeFindsNone, TakeFails
  <2>1. TypeOK'
    BY <2>7, <2>8, <2>9 DEF TypeOK
  <2>2. StoppedIsQuiet'
    BY <2>8, <2>9 DEF TypeOK, StoppedIsQuiet
  <2>3. OneActive'
    BY <2>8, <2>9, Ranges DEF TypeOK, OneActive
  <2>4. DrainsTake'
    BY <2>8, <2>9 DEF TypeOK, DrainsTake
  <2>5. ClaimsInOrder'
    BY <2>8, <2>9, Ranges DEF TypeOK, OneActive, DrainsTake, ClaimsInOrder
  <2> QED
    BY <2>1, <2>2, <2>3, <2>4, <2>5
<1> QED
  BY <1>1, <1>2

\* drain: one take at a time, as long as the limit is not reached; what it
\* brings is injected if the runtime still is the session's.
LEMMA DrainPreserves ==
  ASSUME IInv, NEW r \in Runtimes,
         DrainStarts(r) \/ DrainEnds(r) \/ Inject(r) \/ InjectFails(r)
  PROVE  IInv'
<1> USE DEF IInv
<1> DEFINE x == rt[r]
<1>0. x \in Runtime /\ Quiet(x)
  BY DEF TypeOK, StoppedIsQuiet, Quiet
<1>1. CASE DrainStarts(r)
  <2>1. CASE x.active /\ ~x.draining
    <3> DEFINE y == [x EXCEPT !.timer = FALSE, !.draining = TRUE, !.delivered = 0]
    <3>1. y \in Runtime /\ Quiet(y) /\ y.active /\ y.draining /\ y.delivered = 0
      <4>1. 0 \in 0 .. PerDrain
        OBVIOUS
      <4> QED
        BY <1>0, <2>1, <4>1, Zenon DEF Runtime, Quiet
    <3>2. /\ rt' = [rt EXCEPT ![r] = y] /\ take' = [take EXCEPT ![r] = "exec"]
          /\ UNCHANGED <<mailbox, held, current, started, life, history>>
      BY <1>0, <1>1, <2>1 DEF DrainStarts, Runtime
    <3>3. r <= started /\ held[r] = NoId
      BY <2>1 DEF TypeOK, OneActive, DrainsTake
    <3> HIDE DEF y
    <3>4. TypeOK' /\ StoppedIsQuiet'
      BY <3>1, <3>2 DEF TypeOK, StoppedIsQuiet, Quiet
    <3>5. OneActive'
      BY <2>1, <3>1, <3>2, <3>3, Ranges DEF TypeOK, OneActive
    <3>6. DrainsTake'
      BY <3>1, <3>2, <3>3 DEF TypeOK, DrainsTake
    <3>7. ClaimsInOrder'
      BY <3>1, <3>2, <3>3 DEF TypeOK, ClaimsInOrder
    <3> QED
      BY <3>4, <3>5, <3>6, <3>7
  <2>2. CASE ~(x.active /\ ~x.draining)
    <3> DEFINE y == [x EXCEPT !.timer = FALSE, !.again = TRUE]
    <3>1. Adjusts(x, y)
      BY <1>0 DEF Runtime, Quiet, Adjusts
    <3>2. FlagStep(r, y)
      BY <1>0, <1>1, <2>2, <3>1 DEF DrainStarts, FlagStep, TypeOK, Runtime
    <3> QED
      BY <3>2, FlagStepPreserves
  <2> QED
    BY <2>1, <2>2
<1>2. CASE DrainEnds(r) \/ InjectFails(r)
  <2>0. /\ Finished(x) \in Runtime /\ Quiet(Finished(x))
        /\ Finished(x).active = x.active
    BY <1>0, FinishesQuietly
  <2>7. missed' \in BOOLEAN
    BY <1>2, Zenon DEF DrainEnds, InjectFails, TypeOK
  <2>8. faults' \in Nat
    BY <1>2 DEF DrainEnds, InjectFails, TypeOK
  <2>9. /\ rt' = [rt EXCEPT ![r] = Finished(x)]
        /\ take' = [take EXCEPT ![r] = "none"] /\ held' = [held EXCEPT ![r] = NoId]
        /\ lost' \subseteq lost \cup (mine \cap {held[r]})
        /\ UNCHANGED <<mailbox, current, started, life, mine, shown>>
    BY <1>2 DEF DrainEnds, InjectFails, Idle, DrainsTake
  <2>1. TypeOK'
    BY <2>0, <2>7, <2>8, <2>9 DEF TypeOK, Quiet
  <2>2. StoppedIsQuiet'
    BY <2>0, <2>7, <2>8, <2>9 DEF TypeOK, StoppedIsQuiet, Quiet
  <2>3. OneActive'
    BY <2>0, <2>8, <2>9, Ranges DEF TypeOK, OneActive, Quiet
  <2>4. DrainsTake'
    BY <2>0, <2>7, <2>8, <2>9 DEF TypeOK, DrainsTake, Quiet
  <2>5. ClaimsInOrder'
    BY <2>0, <2>8, <2>9, Ranges DEF TypeOK, OneActive, DrainsTake, ClaimsInOrder, Quiet
  <2> QED
    BY <2>1, <2>2, <2>3, <2>4, <2>5
<1>3. CASE Inject(r)
  <2> DEFINE y == [x EXCEPT !.delivered = @ + 1]
             z == IF y.delivered < PerDrain THEN y ELSE Finished(y)
  <2>1. x.delivered + 1 \in 0 .. PerDrain
    BY <1>0, <1>3 DEF Inject, Runtime, DrainsTake
  <2>2. y \in Runtime /\ y.active = x.active /\ y.draining = x.draining
        /\ y.delivered = x.delivered + 1 /\ Quiet(y)
    BY <1>0, <2>1 DEF Runtime, Quiet
  <2>3. z \in Runtime /\ Quiet(z) /\ z.active = x.active
    BY <2>2, FinishesQuietly
  <2>4. /\ take[r] = "back" /\ held[r] \in mine /\ x.active /\ x.draining
        /\ shown' = shown \cup {held[r]} /\ held' = [held EXCEPT ![r] = NoId]
        /\ rt' = [rt EXCEPT ![r] = z] /\ take'[r] \in {"exec", "none"}
        /\ take' = [take EXCEPT ![r] = take'[r]]
        /\ take'[r] = "exec" => z.draining /\ z.delivered < PerDrain
        /\ UNCHANGED <<mailbox, current, started, life, mine, lost, missed, faults>>
    BY <1>3, <2>2 DEF Inject, TypeOK, DrainsTake
  <2> HIDE DEF y, z
  <2>5. TypeOK' /\ StoppedIsQuiet'
    BY <2>3, <2>4 DEF TypeOK, StoppedIsQuiet, Quiet
  <2>6. OneActive' /\ DrainsTake'
    BY <2>3, <2>4 DEF TypeOK, OneActive, DrainsTake
  <2>7. ClaimsInOrder'
    <3>1. \A q \in Runtimes : rt'[q].active => held'[q] = NoId
      BY <2>3, <2>4 DEF TypeOK, OneActive
    <3> QED
      BY <2>4, <3>1 DEF TypeOK, ClaimsInOrder
  <2> QED
    BY <2>5, <2>6, <2>7
<1> QED
  BY <1>1, <1>2, <1>3

-----------------------------------------------------------------------------
\* The theorems.

\* IInv holds in every state, whatever restarts, failures and other consumers
\* there are: one runtime at most is active, what was stopped is quiet, and
\* what is held on behalf of the session is younger than all it was shown.
THEOREM Invariance == Spec => []IInv
<1>1. Init => IInv
  <2> SUFFICES ASSUME Init PROVE IInv
    OBVIOUS
  <2> USE DEF Init
  <2>1. TypeOK
    <3>0. Fresh \in Runtime
      BY DEF Runtime, Fresh
    <3>1. [Fresh EXCEPT !.active = FALSE] \in Runtime
      BY <3>0, Zenon DEF Runtime
    <3>2. missed \in BOOLEAN
      BY Zenon
    <3>3. started \in 0 .. MaxRuntimes
      OBVIOUS
    <3> QED
      BY <3>1, <3>2, <3>3 DEF TypeOK
  <2>2. StoppedIsQuiet
    BY DEF StoppedIsQuiet, Fresh
  <2>3. OneActive /\ DrainsTake
    BY DEF OneActive, DrainsTake, Fresh
  <2>4. ClaimsInOrder
    BY DEF ClaimsInOrder
  <2> QED
    BY <2>1, <2>2, <2>3, <2>4 DEF IInv
<1>2. IInv /\ [Next]_vars => IInv'
  <2> SUFFICES ASSUME IInv, [Next]_vars PROVE IInv'
    OBVIOUS
  <2>1. CASE Handlers \/ SessionStart \/ SessionShutdown
    BY <2>1, LifecyclePreserves
  <2>2. ASSUME NEW r \in Runtimes, Steps(r) \/ Failures(r) PROVE IInv'
    BY <2>2, WatchPreserves, TakePreserves, DrainPreserves DEF Steps, Failures
  <2>3. ASSUME NEW i \in Ids, Push(i) \/ TakeElsewhere(i) PROVE IInv'
    BY <2>3, MailboxPreserves
  <2>4. CASE UNCHANGED vars
    BY <2>4 DEF vars, IInv, TypeOK, StoppedIsQuiet, OneActive, DrainsTake, ClaimsInOrder
  <2> QED
    BY <2>1, <2>2, <2>3, <2>4 DEF Next
<1> QED
  BY <1>1, <1>2, PTL DEF Spec

\* A runtime that was stopped has no watcher and no timer, although takes,
\* timers and ensureWatcher's await come back to it afterwards.
THEOREM StoppedStaysQuiet == Spec => []StoppedIsQuiet
<1>1. IInv => StoppedIsQuiet
  BY DEF IInv
<1> QED
  BY <1>1, Invariance, PTL

\* A message is injected after all that arrived before it and was injected,
\* also across a restart while a take of the old runtime is on its way.
THEOREM InjectionOrder == Spec => ShownInOrder
<1> DEFINE Ordered == \A i \in shown' \ shown, j \in shown : j < i
<1>1. IInv /\ [Next]_vars => [Ordered]_vars
  <2> SUFFICES ASSUME IInv, [Next]_vars PROVE Ordered \/ UNCHANGED vars
    OBVIOUS
  <2>1. ASSUME NEW r \in Runtimes, Inject(r) PROVE Ordered
    BY <2>1 DEF Inject, IInv, ClaimsInOrder
  <2>2. shown' = shown => Ordered
    OBVIOUS
  <2>3. ASSUME NEW r \in Runtimes, Steps(r), ~Inject(r) PROVE shown' = shown
    BY <2>3 DEF Steps, Arm, WatchRetry, WatchFires, DrainStarts, TakeFinds,
                TakeFindsNone, DrainEnds, Ends
  <2>4. ASSUME NEW r \in Runtimes, Failures(r) PROVE shown' = shown
    BY <2>4 DEF Failures, ArmFails, WatchBreaks, TakeFails, InjectFails,
                TakeIsCutOff, Ends
  <2>5. Handlers \/ SessionStart \/ SessionShutdown => shown' = shown
    BY DEF Handlers, MakeRuntime, MakeNone, Registered, Watching, ShutDown,
           SessionStart, SessionShutdown
  <2>6. ASSUME NEW i \in Ids, Push(i) \/ TakeElsewhere(i) PROVE shown' = shown
    BY <2>6 DEF Push, TakeElsewhere
  <2> QED
    BY <2>1, <2>2, <2>3, <2>4, <2>5, <2>6 DEF Next
<1> QED
  BY <1>1, Invariance, PTL DEF Spec, ShownInOrder

=============================================================================
