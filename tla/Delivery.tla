------------------------------ MODULE Delivery ------------------------------
(***************************************************************************)
(* hookserve/ and the commands of cmd/agentqueue: the processes that hand  *)
(* the bodies of one target to its session.  At every event of a session   *)
(* the host runs the installed hooks, all at once, waits for them, and     *)
(* injects what they print.  At the same time commands push, receive, wait, *)
(* take and acknowledge from other shells.                                 *)
(*                                                                         *)
(* Claims under notification.lock have the steps of Wake's automatic       *)
(* receive: lock, list, take one by one.  A claim is one step here, as in   *)
(* Wake; Mailbox has its system calls.  The mailbox is the sequence of its  *)
(* pending messages in the order of their ids.  The name of a message that  *)
(* is finished with is used again, so arrivals never come to an end.        *)
(***************************************************************************)
EXTENDS Naturals, Sequences, FiniteSets

CONSTANTS
  Msgs,       \* the messages that can be unfinished at a time
  Hooks,      \* the hook commands installed for the session
  Clis,       \* shells that run one agentqueue command after another
  Commands,   \* the commands they run, a subset of CommandNames
  Agents,     \* the agents the session may be of: "claude", "codex"
  NoBlocks,   \* may hook claude run with --no-block?
  Max,        \* --max of a hook
  Limit,      \* --limit of receive
  MaxFaults,  \* bound: kills and failures
  Nobody

CommandNames == {"push", "receive", "take", "wait", "waitTake", "ack"}
Events == {"SessionStart", "compact", "UserPromptSubmit", "PostToolUse",
           "Stop", "SubagentStop", "SessionEnd"}
Procs == Hooks \cup Clis

\* What an address can say: where the session works, a directory it has left,
\* another one, nothing.
Places == {"here", "left", "elsewhere", "none"}

ASSUME BoundsAssumption == /\ Max \in Nat \ {0} /\ Limit \in Nat \ {0}
                           /\ MaxFaults \in Nat
ASSUME KindsAssumption == /\ Commands \subseteq CommandNames
                          /\ Agents \subseteq {"claude", "codex"}
                          /\ NoBlocks \subseteq BOOLEAN
ASSUME NamesAssumption == /\ Nobody \notin Procs /\ Hooks \cap Clis = {}

VARIABLES
  queue,     \* the pending messages, oldest first
  claimed,   \* the claimed messages
  lock,      \* who holds notification.lock
  agent,     \* the agent of the session
  noBlock,   \* --no-block
  phase,     \* the session: "away", "idle", or "working" on a turn
  event,     \* the event whose hooks run, or "none"
  active,    \* stop_hook_active: a Stop hook has continued this turn
  address,   \* its addr.json, an element of Places
  pc, op,    \* per process: its next step, and the command it runs
  batch,     \* per process: what its List returned, less what it tried
  hold,      \* per process: what it has claimed and not handed over
  shown,     \* history: how often a message was handed over
  vanished,  \* history: claimed by a process that was killed or could not read
  since,     \* history, per process: pending ever since it was started, and
             \* not left out of its listing as unreadable
  owed,      \* history: the address the last event should have left
  faults     \* history: the number of kills and failures

mail == <<queue, claimed>>
host == <<agent, noBlock, phase, event, active>>
book == <<address, owed>>
local == <<pc, op, batch, hold>>
vars == <<mail, lock, host, book, local, shown, vanished, since, faults>>

Pending == {queue[k] : k \in DOMAIN queue}

Init ==
  /\ queue = <<>> /\ claimed = {} /\ lock = Nobody
  /\ agent \in Agents /\ noBlock \in NoBlocks
  /\ noBlock => agent = "claude"
  /\ phase = "away" /\ event = "none" /\ active = FALSE
  /\ address = "none"
  /\ pc = [p \in Procs |-> "idle"]
  /\ op = [p \in Procs |-> IF p \in Hooks THEN "hook" ELSE "none"]
  /\ batch = [p \in Procs |-> <<>>]
  /\ hold = [p \in Procs |-> {}]
  /\ shown = [m \in Msgs |-> 0] /\ vanished = {}
  /\ since = [p \in Procs |-> {}] /\ owed = "none" /\ faults = 0

-----------------------------------------------------------------------------
\* Control.

Goto(p, s) == pc' = [pc EXCEPT ![p] = s]

\* s, which names m at most once, without m.
Without(s, m) ==
  IF \E k \in DOMAIN s : s[k] = m
  THEN LET at == CHOOSE k \in DOMAIN s : s[k] = m
       IN [k \in 1 .. Len(s) - 1 |-> IF k < at THEN s[k] ELSE s[k + 1]]
  ELSE s

\* m has left pending/.
Leaves(m) == /\ queue' = Without(queue, m)
             /\ since' = [p \in Procs |-> since[p] \ {m}]

\* Variant: the body is read and left in pending/.
ClaimsCopy(p, m) == /\ claimed' = claimed \cup {m}
                    /\ hold' = [hold EXCEPT ![p] = @ \cup {m}]
                    /\ UNCHANGED <<queue, since>>

\* p's claim of m succeeds.
Claims(p, m) == /\ Leaves(m)
                /\ claimed' = claimed \cup {m}
                /\ hold' = [hold EXCEPT ![p] = @ \cup {m}]

\* The session gets to read M.
Shows(M) == shown' = [m \in Msgs |-> IF m \in M THEN shown[m] + 1 ELSE shown[m]]

\* p is over: its locals are gone, a hook waits for the host.
Over(p) == /\ Goto(p, IF p \in Hooks THEN "exited" ELSE "idle")
           /\ op' = [op EXCEPT ![p] = IF p \in Hooks THEN @ ELSE "none"]
           /\ batch' = [batch EXCEPT ![p] = <<>>]
           /\ since' = [since EXCEPT ![p] = {}]

Unlocks(p) == lock' = IF lock = p THEN Nobody ELSE lock

Fault == faults < MaxFaults /\ faults' = faults + 1

-----------------------------------------------------------------------------
\* The host: it runs the hooks at its events and reads what they print.

\* The hooks agentqueue installs, by agent; SubagentStop is installed by hand,
\* and PostToolUseFailure is treated as PostToolUse.  A hook delivers, registers
\* the session, does both, or unregisters it.
ClaudeDelivers == {"SessionStart", "UserPromptSubmit", "PostToolUse", "Stop",
                   "SubagentStop"}
ClaudeRegisters == {"SessionStart", "compact", "UserPromptSubmit",
                    "PostToolUse", "Stop"}
CodexDelivers == {"UserPromptSubmit", "PostToolUse"}
CodexRegisters == {"SessionStart", "compact", "UserPromptSubmit",
                   "PostToolUse", "Stop"}

\* Variant: compaction delivers like any other start of a session.
DeliversAtCompaction(e) ==
  e \in (IF agent = "claude" THEN ClaudeDelivers \cup {"compact"} ELSE CodexDelivers)

Delivers(e) ==
  e \in (IF agent = "claude" THEN ClaudeDelivers ELSE CodexDelivers)

\* Variant: every event registers.
RegistersAlways(e) == e # "SessionEnd"

Registers(e) ==
  e \in (IF agent = "claude" THEN ClaudeRegisters ELSE CodexRegisters)

\* Where the host puts what a hook prints before the model: not while it
\* rebuilds a context, and Codex reads no context from its other events.
Visible(e) ==
  e \in (IF agent = "claude" THEN Events \ {"compact", "SessionEnd"}
         ELSE CodexDelivers)

\* The directory in the payload; that of a subagent's stop is not its own.
PayloadCwd == IF event = "SubagentStop" THEN "elsewhere" ELSE "here"

Possible(e) ==
  CASE e = "SessionStart" -> phase = "away"
    [] e = "UserPromptSubmit" -> phase = "idle"
    [] e = "SessionEnd" -> phase = "idle"
    [] e \in {"compact", "PostToolUse", "Stop"} -> phase = "working"
    [] e = "SubagentStop" -> phase = "working" /\ agent = "claude"

\* The address that the hooks of e should leave.
Owed(e) == CASE e = "SessionEnd" -> "none"
             [] e = "SubagentStop" -> owed
             [] OTHER -> "here"

Fire(e) ==
  /\ event = "none" /\ Possible(e)
  /\ event' = e
  /\ pc' = [p \in Procs |-> IF p \in Hooks THEN "start" ELSE pc[p]]
  /\ since' = [p \in Procs |-> IF p \in Hooks THEN Pending ELSE since[p]]
  /\ owed' = Owed(e)
  /\ UNCHANGED <<mail, lock, agent, noBlock, phase, active, address, op,
                 batch, hold, shown, vanished, faults>>

\* A stop that delivers goes on with the turn, once: the host then reports
\* stop_hook_active.  The turns of subagents are not followed here.
\* Variant: it is not looked at.
BlocksAgain(h) == agent = "claude" /\ ~noBlock /\ hold[h] # {} /\ event = "Stop"
Blocks(h) ==
  agent = "claude" /\ ~noBlock /\ ~active /\ hold[h] # {} /\ event = "Stop"

\* The session once every hook of the event has exited.
PhaseAfter(blocked) ==
  CASE event = "SessionStart" -> "idle"
    [] event = "SessionEnd" -> "away"
    [] event = "Stop" /\ ~blocked -> "idle"
    [] OTHER -> "working"

Collect ==
  /\ event # "none" /\ \A h \in Hooks : pc[h] = "exited"
  /\ LET blocked == \E h \in Hooks : Blocks(h)
     IN /\ phase' = PhaseAfter(blocked)
        /\ active' = IF event = "Stop" THEN blocked ELSE active
  /\ event' = "none"
  /\ Shows(IF Visible(event) THEN UNION {hold[h] : h \in Hooks} ELSE {})
  /\ pc' = [p \in Procs |-> IF p \in Hooks THEN "idle" ELSE pc[p]]
  /\ hold' = [p \in Procs |-> IF p \in Hooks THEN {} ELSE hold[p]]
  /\ UNCHANGED <<mail, lock, agent, noBlock, book, op, batch,
                 vanished, since, faults>>

\* A tool changes the directory the session works in.
ChangeDir ==
  /\ event = "none" /\ phase = "working"
  /\ address' = IF address = "here" THEN "left" ELSE address
  /\ owed' = IF owed = "here" THEN "left" ELSE owed
  /\ UNCHANGED <<mail, lock, host, local, shown, vanished, since, faults>>

-----------------------------------------------------------------------------
\* Hooks: registration, before anything is claimed.

\* PutAddress; a failure is logged and does not keep the hook from delivering.
Registration == \/ address' = PayloadCwd /\ UNCHANGED <<owed, faults>>
                \/ Fault /\ owed' = "unknown" /\ UNCHANGED address

\* hook claude and hook codex go on to deliver at the events that do.
Serves(h) ==
  /\ IF Registers(event) THEN Registration ELSE UNCHANGED <<book, faults>>
  /\ IF Delivers(event) THEN Goto(h, "lock") /\ UNCHANGED <<op, batch, since>>
     ELSE Over(h)
  /\ UNCHANGED <<mail, lock, host, hold, shown, vanished>>

ClaudeHook(h) ==
  agent = "claude" /\ pc[h] = "start" /\ event # "SessionEnd" /\ Serves(h)
CodexHook(h) ==
  agent = "codex" /\ pc[h] = "start" /\ event \in CodexDelivers /\ Serves(h)

\* register is what is installed at the other events of Codex.
RegisterHook(h) ==
  /\ agent = "codex" /\ pc[h] = "start"
  /\ event \notin CodexDelivers \cup {"SessionEnd"}
  /\ Serves(h)

UnregisterHook(h) ==
  /\ pc[h] = "start" /\ event = "SessionEnd"
  /\ address' = "none"
  /\ Over(h)
  /\ UNCHANGED <<mail, lock, host, owed, hold, shown, vanished, faults>>

\* A payload that does not parse, no session id, no queue root: the hook says
\* so in its log and exits 0 with nothing on its stdout.
Skips(h) ==
  /\ h \in Hooks /\ pc[h] = "start"
  /\ Fault /\ owed' = "unknown"
  /\ Over(h)
  /\ UNCHANGED <<mail, lock, host, address, hold, shown, vanished>>

-----------------------------------------------------------------------------
\* Claiming, as hooks, receive and wait --take do it.

Quota(p) == CASE op[p] = "hook" -> Max
              [] op[p] = "receive" -> Limit
              [] OTHER -> 1

Lock(p) ==
  /\ pc[p] = "lock" /\ lock = Nobody
  /\ lock' = p
  /\ Goto(p, IF op[p] = "push" THEN "tell" ELSE "list")
  /\ UNCHANGED <<mail, host, book, op, batch, hold, shown, vanished, since, faults>>

\* The 2 s of a hook and the 10 s of receive end while another has the lock.
GivesUp(p) ==
  /\ pc[p] = "lock" /\ op[p] \in {"hook", "receive"} /\ lock # Nobody
  /\ Over(p)
  /\ UNCHANGED <<mail, lock, host, book, hold, shown, vanished, faults>>

\* Variant: the newest first.
NewestFirst == [k \in DOMAIN queue |-> queue[Len(queue) + 1 - k]]
InOrder == queue

\* List leaves out, without a word, the files S that cannot be read or decoded ...
LeavesOut(S) == IF S = {} THEN UNCHANGED faults ELSE Fault

\* ... and returns the others in order.
AllBut(S) ==
  {s \in UNION {[1 .. n -> Pending] : n \in 0 .. Len(queue)} :
     /\ {s[k] : k \in DOMAIN s} = Pending \ S
     /\ \A j, k \in DOMAIN s : j < k =>
          \E a, b \in DOMAIN queue : a < b /\ InOrder[a] = s[j] /\ InOrder[b] = s[k]}

List(p) ==
  /\ pc[p] = "list"
  /\ \E S \in SUBSET Pending :
       /\ LeavesOut(S)
       /\ \E s \in AllBut(S) : batch' = [batch EXCEPT ![p] = s]
       /\ since' = [since EXCEPT ![p] = @ \ S]
  /\ Goto(p, "take")
  /\ UNCHANGED <<mail, lock, host, book, op, hold, shown, vanished>>

Wants(p) == pc[p] = "take" /\ batch[p] # <<>> /\ Cardinality(hold[p]) < Quota(p)

Take(p) ==
  /\ Wants(p) /\ Head(batch[p]) \in Pending
  /\ Claims(p, Head(batch[p]))
  /\ batch' = [batch EXCEPT ![p] = Tail(@)]
  /\ UNCHANGED <<lock, host, book, pc, op, shown, vanished, faults>>

\* ErrNotFound: somebody else was faster.  Variant: it ends the loop.
MissEnds(p) ==
  /\ Wants(p) /\ Head(batch[p]) \notin Pending
  /\ batch' = [batch EXCEPT ![p] = <<>>]
  /\ UNCHANGED <<mail, lock, host, book, pc, op, hold, shown, vanished, since, faults>>
Miss(p) ==
  /\ Wants(p) /\ Head(batch[p]) \notin Pending
  /\ batch' = [batch EXCEPT ![p] = Tail(@)]
  /\ UNCHANGED <<mail, lock, host, book, pc, op, hold, shown, vanished, since, faults>>

\* The receive returns M.  A hook has it printed when it exits; receive prints
\* it; wait --take prints its message, or sleeps when there is none.
Returns(p, M) ==
  /\ Unlocks(p)
  /\ IF op[p] = "hook" THEN hold' = [hold EXCEPT ![p] = M] /\ UNCHANGED shown
     ELSE hold' = [hold EXCEPT ![p] = {}] /\ Shows(M)

Done(p) ==
  /\ pc[p] = "take" /\ ~Wants(p)
  /\ Returns(p, hold[p])
  /\ IF op[p] = "waitTake" /\ hold[p] = {}
     THEN Goto(p, "sleep") /\ UNCHANGED <<op, batch, since>>
     ELSE Over(p)
  /\ UNCHANGED <<mail, host, book, vanished, faults>>

\* What has been claimed is handed over although the receive failed; wait
\* --take, which claims one at a time, then has nothing.  Variant: nothing is.
SalvagesNothing(p) == {}
Salvaged(p) == IF op[p] = "waitTake" THEN {} ELSE hold[p]

\* The time runs out between two claims.
Expires(p) ==
  /\ Wants(p) /\ Fault
  /\ Returns(p, Salvaged(p))
  /\ Over(p)
  /\ UNCHANGED <<mail, host, book, vanished>>

\* The message was moved to claimed/ and cannot be read.
Unreadable(p) ==
  /\ Wants(p) /\ Head(batch[p]) \in Pending /\ Fault
  /\ queue' = Without(queue, Head(batch[p]))
  /\ claimed' = claimed \cup {Head(batch[p])}
  /\ vanished' = vanished \cup {Head(batch[p])}
  /\ Returns(p, Salvaged(p))
  /\ Goto(p, IF p \in Hooks THEN "exited" ELSE "idle")
  /\ op' = [op EXCEPT ![p] = IF p \in Hooks THEN @ ELSE "none"]
  /\ batch' = [batch EXCEPT ![p] = <<>>]
  /\ since' = [q \in Procs |-> IF q = p THEN {} ELSE since[q] \ {Head(batch[p])}]
  /\ UNCHANGED <<host, book>>

-----------------------------------------------------------------------------
\* The commands.

Starts(c, o, s) ==
  /\ c \in Clis /\ pc[c] = "idle" /\ o \in Commands
  /\ Goto(c, s)
  /\ op' = [op EXCEPT ![c] = o]

\* push stores the message and only then waits, without a limit, for the lock.
PushStores(c, m) ==
  /\ Starts(c, "push", "lock")
  /\ m \notin Pending \cup claimed
  /\ queue' = Append(queue, m)
  /\ UNCHANGED <<claimed, lock, host, book, batch, hold, shown, vanished, since, faults>>

\* The host has answered, or has not within 10 s: the message stays, and its
\* id has been printed either way.
PushEnds(c) ==
  /\ pc[c] = "tell"
  /\ Unlocks(c)
  /\ Over(c)
  /\ UNCHANGED <<mail, host, book, hold, shown, vanished, faults>>

ReceiveCall(c) ==
  /\ \E o \in {"receive", "waitTake"} : Starts(c, o, "lock")
  /\ since' = [since EXCEPT ![c] = Pending]
  /\ UNCHANGED <<mail, lock, host, book, batch, hold, shown, vanished, faults>>

WaitCall(c) ==
  /\ Starts(c, "wait", "look")
  /\ since' = [since EXCEPT ![c] = Pending]
  /\ UNCHANGED <<mail, lock, host, book, batch, hold, shown, vanished, faults>>

\* wait without --take prints what List returns and claims nothing.
WaitLooks(c) ==
  /\ pc[c] = "look"
  /\ \E S \in SUBSET Pending :
       /\ LeavesOut(S)
       /\ IF S = Pending
          THEN /\ Goto(c, "sleep")
               /\ since' = [since EXCEPT ![c] = @ \ S]
               /\ UNCHANGED <<op, batch>>
          ELSE Over(c)
  /\ UNCHANGED <<mail, lock, host, book, hold, shown, vanished>>

WaitPolls(c) ==
  /\ pc[c] = "sleep"
  /\ Goto(c, IF op[c] = "wait" THEN "look" ELSE "lock")
  /\ UNCHANGED <<mail, lock, host, book, op, batch, hold, shown, vanished, since, faults>>

\* --timeout: exit 3.
TimesOut(c) ==
  /\ op[c] \in {"wait", "waitTake"}
  /\ pc[c] = "sleep" \/ (pc[c] = "lock" /\ lock # Nobody)
  /\ Over(c)
  /\ UNCHANGED <<mail, lock, host, book, hold, shown, vanished, faults>>

\* take --next and take ID, which do not lock.
TakeCall(c, m) ==
  /\ Starts(c, "take", "print")
  /\ m \in Pending
  /\ Claims(c, m)
  /\ UNCHANGED <<lock, host, book, batch, shown, vanished, faults>>

TakePrints(c) ==
  /\ pc[c] = "print"
  /\ Shows(hold[c]) /\ hold' = [hold EXCEPT ![c] = {}]
  /\ Over(c)
  /\ UNCHANGED <<mail, lock, host, book, vanished, faults>>

\* ack of a pending message or of a claimed one that nobody is handing over.
\* Its name is free for another message.
Ack(c, m) ==
  /\ c \in Clis /\ pc[c] = "idle" /\ "ack" \in Commands
  /\ m \in Pending \cup claimed /\ \A p \in Procs : m \notin hold[p]
  /\ Leaves(m)
  /\ claimed' = claimed \ {m}
  /\ batch' = [p \in Procs |-> Without(batch[p], m)]
  /\ shown' = [shown EXCEPT ![m] = 0]
  /\ vanished' = vanished \ {m}
  /\ UNCHANGED <<lock, host, book, pc, op, hold, faults>>

-----------------------------------------------------------------------------
\* A process is killed: the lock is free, what it held is in claimed/.
Kill(p) ==
  /\ pc[p] \notin {"idle", "exited"} /\ Fault
  /\ vanished' = vanished \cup hold[p]
  /\ hold' = [hold EXCEPT ![p] = {}]
  /\ owed' = IF p \in Hooks THEN "unknown" ELSE owed
  /\ Unlocks(p)
  /\ Over(p)
  /\ UNCHANGED <<mail, host, address, shown>>

HookStep(h) == \/ ClaudeHook(h) \/ CodexHook(h) \/ RegisterHook(h)
               \/ UnregisterHook(h)
Claiming(p) == Lock(p) \/ GivesUp(p) \/ List(p) \/ Take(p) \/ Miss(p) \/ Done(p)
CliStep(c) == PushEnds(c) \/ WaitLooks(c) \/ WaitPolls(c) \/ TakePrints(c)

Next ==
  \/ \E e \in Events : Fire(e)
  \/ Collect
  \/ ChangeDir
  \/ \E h \in Hooks : HookStep(h) \/ Skips(h)
  \/ \E p \in Procs : Claiming(p) \/ Expires(p) \/ Unreadable(p) \/ Kill(p)
  \/ \E c \in Clis : \/ CliStep(c) \/ ReceiveCall(c) \/ WaitCall(c) \/ TimesOut(c)
                     \/ \E m \in Msgs : \/ PushStores(c, m) \/ TakeCall(c, m)
                                         \/ Ack(c, m)

Spec == Init /\ [][Next]_vars

\* Processes run, the host collects its hooks, and a model that may stop again
\* and again does.  No command is ever obliged to start.
FairSpec == /\ Spec
            /\ \A h \in Hooks : WF_vars(HookStep(h))
            /\ \A p \in Procs : WF_vars(Claiming(p))
            /\ \A c \in Clis : WF_vars(CliStep(c))
            /\ WF_vars(Collect) /\ SF_vars(Fire("Stop"))

-----------------------------------------------------------------------------
\* Properties.

TypeOK ==
  /\ queue \in Seq(Msgs)
  /\ claimed \subseteq Msgs \ Pending
  /\ lock \in Procs \cup {Nobody}
  /\ agent \in Agents /\ noBlock \in NoBlocks
  /\ phase \in {"away", "idle", "working"} /\ event \in Events \cup {"none"}
  /\ active \in BOOLEAN
  /\ address \in Places
  /\ pc \in [Procs -> {"idle", "start", "lock", "list", "take", "exited", "tell",
                      "look", "sleep", "print"}]
  /\ op \in [Procs -> CommandNames \cup {"hook", "none"}]
  /\ batch \in [Procs -> Seq(Msgs)]
  /\ hold \in [Procs -> SUBSET claimed]
  /\ shown \in [Msgs -> Nat]
  /\ vanished \subseteq claimed
  /\ since \in [Procs -> SUBSET Pending]
  /\ owed \in Places \cup {"unknown"} /\ faults \in 0 .. MaxFaults

\* Nothing is swallowed: a claimed message has been handed over, is in the
\* hands of a process that will, or was lost with a process that was killed or
\* could not read it.  No event claims what the host will not show, and no
\* error path of ClaimUpTo or receive drops what it has claimed.
NothingSwallowed ==
  \A m \in claimed : \/ shown[m] > 0 \/ m \in vanished
                     \/ \E p \in Procs : m \in hold[p]

\* However many hooks and commands run at once, a message is handed over once.
ShownOnce == \A m \in Msgs : shown[m] <= 1

\* A receive that comes back with less than it asked for, and a wait that goes
\* to sleep (from where it may time out), has left nothing that was pending all
\* along and that its listing could read: neither a lost race for one message nor
\* a file that List skips ends the batch.
DrainsWhatItSaw ==
  \A p \in Procs :
    (\/ pc[p] = "sleep"
     \/ pc[p] = "take" /\ batch[p] = <<>> /\ Cardinality(hold[p]) < Quota(p))
    => since[p] = {}

\* Between events the address is the one the last event that describes the
\* session left: that of its working directory, none when it has ended, never
\* the one in the payload of a subagent's stop.
AddressTrue == event = "none" /\ owed # "unknown" => address = owed

\* A turn ends although messages never stop arriving: Stop blocks once.
TurnEnds == phase = "working" ~> phase # "working"

\* Oldest first: while hooks and commands keep claiming, no message is passed
\* over for ever.
NobodyStarved ==
  ([]<>\E p \in Procs : pc[p] = "take") => \A m \in Msgs : []<>(m \notin Pending)

-----------------------------------------------------------------------------
\* Why the safety properties hold.

\* A message is in a listing once.
Distinct(s) == \A j, k \in DOMAIN s : s[j] = s[k] => j = k

Listed(p) == {batch[p][k] : k \in DOMAIN batch[p]}

\* Who runs what; hooks run while their event does, and hold bodies only at an
\* event that delivers.
Roles ==
  /\ \A h \in Hooks :
       /\ op[h] = "hook"
       /\ pc[h] \in {"idle", "start", "lock", "list", "take", "exited"}
       /\ pc[h] = "idle" <=> event = "none"
       /\ pc[h] \in {"lock", "list", "take"} => Delivers(event)
       /\ hold[h] # {} => Delivers(event) /\ pc[h] \in {"take", "exited"}
  /\ \A c \in Clis : op[c] # "hook" /\ pc[c] \notin {"start", "exited"}

\* A body is in one hand, and has not been handed over yet.
HeldOnce ==
  /\ \A p \in Procs : IsFiniteSet(hold[p])
  /\ \A p, q \in Procs : p # q => hold[p] \cap hold[q] = {}
  /\ \A p \in Procs : \A m \in hold[p] : shown[m] = 0
  /\ \A m \in Msgs : shown[m] # 0 => m \in claimed

\* A receive has listed all that was pending when it began and still is, and that
\* it could read, and not tried it yet; a sleeping wait has left nothing of it.
Listings ==
  /\ Distinct(queue)
  /\ \A p \in Procs :
       /\ Distinct(batch[p])
       /\ pc[p] = "take" => since[p] \subseteq Listed(p)
       /\ pc[p] = "sleep" => since[p] = {}

\* While the hooks of an event run, the address is already the one that the
\* event is to leave, or none of them has come to it.
Addressed ==
  Hooks # {} =>
    /\ AddressTrue
    /\ event = "SessionEnd" => owed \in {"none", "unknown"}
    /\ event \notin {"none", "SubagentStop", "SessionEnd"} => owed \in {"here", "unknown"}
    /\ event # "none" /\ owed # "unknown" =>
         \/ address = owed
         \/ event # "SubagentStop" /\ \A h \in Hooks : pc[h] = "start"

\* The inductive invariant.
IInv == /\ TypeOK /\ Roles /\ HeldOnce /\ Listings /\ Addressed
        /\ NothingSwallowed /\ ShownOnce
=============================================================================
