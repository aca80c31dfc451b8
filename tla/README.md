# agentqueue in TLA+

agentqueue stores messages for coding-agent sessions in directories and wakes
the agents through their host applications.  There is no server: every command,
hook and extension is a process of its own, and what they share is a file tree.
The specifications in this directory model that shared state, one action per
system call or locked step, so that the processes interleave as they do on a
machine.

## 1. Inventory

### Parts of the system

| part | code | state it keeps | operations |
|---|---|---|---|
| mailbox store | `queue.go`, `item.go` | `pending/`, `claimed/`, `done/`, `tmp/` of a target | Push, Take, TakeNext, Ack, List, Wait |
| notification ledger | `notifications.go`, `transport.go` | `notification.json`, `notification.lock` | PushAndNotify, Notify, Notification |
| receive | `receive.go` | the ledger, the mailbox | Receive, ReceiveAutomatic, ReceiveNotice, WaitReceive |
| transports | `transport_*.go` | none | NotifyWithReceipt, Notify |
| address book | `address.go`, `receiver.go` | `addr.json`, `receiver.private.json`, `_by_cwd/` | Put/Remove/Address, Put/Remove/Receiver, TargetsByCwd, Mailboxes |
| hooks | `hookserve/` | none of their own | HandleClaude, HandleCodex, RegisterAddress, ClaimUpTo |
| Pi extension | `extensions/pi/agentqueue.ts` | the runtime of a session: watcher, timers, flags | session_start, drain, session_shutdown |
| session listing | `sessions.go`, Mailboxes of `address.go`, `sessions` and `targets` | none | Sessions, Mailboxes |
| command line | `cmd/agentqueue/` | none | push, receive, take, wait, ack, list, hook, register, unregister, targets, sessions |
| caller and root resolution | `caller.go`, `hookserve/caller.go` | the env file of one session | ResolveCaller, ResolveRoot, exportCaller |
| hook installation | `cmd/agentqueue/hook_config.go` | the host's settings files | install, uninstall |

### How they interact

* A sender calls PushAndNotify: Push stores the body, then notifyPending takes
  the ledger's lock and decides whether the host has to be signalled.  The
  signal names a notice id and a command, `receive --notice ID`.
* The host queues the signal and shows it to its agent; the agent runs the
  command again and again until it prints nothing.  Each run claims a batch
  under the same lock and moves the ledger through queued, receiving, received.
* Hooks and `wait --take` claim batches under the lock too, but without a
  notice, so they never end a flight.
* The host runs the installed hooks at each event of a session, all at once,
  waits for them and puts what they print before the model.
* `take` and `ack` use no lock at all: the rename of a file is the only thing
  that decides who owns a message.
* Hooks and the Pi extension write the address of their session, from which
  notifyPending learns which wake protocol the session understands.
* A listing joins the records of the hosts with the mailboxes and addresses it
  reads file by file, while all of the above go on.

### What is hard about it

* *Interleavings without a lock*: a claim is a rename and then a read; an Ack is
  two renames; a listing is a scan and then one read per file; notifyPending
  looks for a message that moves on.
* *Crashes* between the rename and the read of a claim, and between the
  reservation of a notice, the host call and the record of its receipt.
* *Unreliable delivery*: a submission that timed out may be accepted later.
* *Time*: the lease of a drain and the age of an uncertain submission expire
  while the processes they protect still run.
* *Files that cannot be read*: List leaves them out and Mailboxes takes such an
  address for none; neither says so to its caller.
* *Liveness*: TakeNext rescans without a bound; a "queued" flight is trusted
  without a lease; the Pi extension must notice what arrives while it drains or
  has no watcher.
* *Hand-over*: a message is claimed by one step and shown by another, with error
  paths, time-outs and the host's own rules about what it shows in between.
* *Stale results*: a listing that reads two records of one session; the address
  that an unregistration has read, the marker that a lookup has listed, the take
  that comes back to a runtime already stopped.

`PROJECT.json` lists each of these at its line, with the property that covers
it or the reason why none does.

### What makes each part correct

| part | correctness |
|---|---|
| mailbox store | no partial body is ever visible; a body is handed to one consumer; a message only moves forward; TakeNext is oldest first, and only the success of others keeps it from returning; only a crash or a failed read strands a message |
| notification ledger, receive | no announced message is left without a wake on its way; one hint at a time; a retry keeps the identity of a hint that may be out there; a flight closes only over a mailbox that was drained of all that could be read; ErrNotFound denies no message that could be read; every call releases the lock |
| address book | a registered session is found by its directory; an unregistered one is not |
| hooks, command line | a message is handed over once and never swallowed, whichever event, error or time-out ends its hook; the oldest goes first; a stop hook does not loop; the address is that of the session, not of a subagent |
| session listing | no message is missed by the counts; a settled session is listed, filtered and ranked by its last report, and one whose address cannot be read takes nobody's place |
| Pi extension | a message that was claimed is shown; a message that arrives is claimed in the end; no timer outlives its session |

## 2. Modules

| module | what it is |
|---|---|
| `MessageStore` | abstract: what the store promises about each message, without files or processes |
| `Mailbox` | `queue.go`, one action per system call; implements `MessageStore` |
| `MCMailbox` | instances of `Mailbox` for TLC |
| `MailboxProofs` | the theorems about `Mailbox` |
| `Wake` | `notifications.go`, `receive.go`, and `transport.go` with the outcomes of the transports; environment: takes, acks, registrations, the host and the agent |
| `MCWake` | instances of `Wake` for TLC |
| `WakeProofs` | the theorems about `Wake` |
| `Directory` | `address.go`, `receiver.go` and RegisterAddress: addresses, credentials and the index by directory, one action per system call |
| `MCDirectory` | instances of `Directory` for TLC |
| `DirectoryProofs` | the theorems about `Directory` |
| `PiExtension` | `agentqueue.ts`: lifecycle, watcher, drain, takes and injections, one action per stretch between two awaits |
| `MCPiExtension` | instances of `PiExtension` for TLC |
| `PiExtensionProofs` | the theorems about `PiExtension` |
| `Delivery` | `hookserve/` and the commands: the hooks of an event, the host that runs them, and a shell, on one mailbox |
| `MCDelivery` | an instance of `Delivery` for TLC |
| `DeliveryProofs` | the theorems about `Delivery` |
| `Listing` | `sessions.go`, Mailboxes and the commands `sessions` and `targets`, one action per directory or file read |
| `MCListing` | an instance of `Listing` for TLC |
| `ListingProofs` | the theorems about `Listing` |

`Mailbox` is the ground the others stand on: `Wake`, `PiExtension` and
`Delivery` take its claim as one step (`ReceiveClaim`, `TakeFinds`, `Take`),
which `ExclusiveClaim` and the
refinement of `MessageStore` justify.  `Wake` sees of `Directory` the one field
of an address that selects the wake protocol (`Register`); `Delivery` sees
whether it says where the session is (`address`), and has of `Wake` the lock and
the batch loop of an automatic receive, without the ledger, which such a receive
leaves alone.  `Listing` reads what `Directory` and `Mailbox` write, with the
times that those two do not need.

### MessageStore

`status[i]` is the directory of message `i`, `told[i]` how often a claim has
returned its body.  A body becomes visible whole (`Publish`), gets an owner
(`Acquire`), is told to that owner, once (`Tell`), and is finished with
(`Finish`), claimed or not.

### Mailbox

A file is the id it holds; a directory is a set of ids; `whole` is the set of
ids whose file is complete.  A process runs one operation at a time: `op` and
`pc` are the operation and its next system call, `cur` the id it works on,
`todo` the part of its scan it has not tried, `got` what a Wait has read.
An id is a number, `Stamp` its millisecond; ids of one millisecond are
generated in any order, as their random suffixes are.

| operation | actions |
|---|---|
| Push | `PushBegin` (create under `tmp/`), `PushWrite`, `PushPublish` (rename); `PushWriteFails` leaves the partial file, `PushPublishFails` removes it |
| TakeNext | `TakeNextCall`, `ScanEmpty` or `ScanFinds`, then per id `ClaimWins` or `ClaimLoses`, then `ReadBody` or `ReadGone` |
| Take | `TakeCall`, then the same claim |
| Ack | `AckCall`, `AckClaimed` or `AckNotClaimed`, then `AckPending` or `AckMisses` |
| Wait, List | `WaitCall`, `WaitList` (scan), `WaitRead` or `WaitSkips` per file, `WaitReturn` or `WaitSleep`, `WaitPoll`; `WaitTimeout` |
| anything | `Crash`: the process is gone, its locals with it |

A crash at the step "read" stands also for a claim whose read fails: in both
cases the file stays in `claimed/` and nobody got the body (`lost`).
`WaitSkips` is the file that List cannot read or decode and leaves out
(`queue.go:300-304`); it is counted with the crashes.

`Spec` uses every id once, like newID, so a finite `Ids` lets arrivals end.
`EndlessSpec` of `MCMailbox` does not: `Recycle` forgets a message that is done
and that no process works on, and its name serves for a new one.  A take may then
run for ever.  `TakeNext` (`queue.go:335-355`) has no bound, a faster consumer can
win every message of each of its scans, and TLC finds that behaviour; so no
property here says that a take ends.  `LosersLoseToWinners` is what the code does
promise: a take that never returns is beaten again and again by processes that
do get, or acknowledge, a message.  In particular it returns once arrivals or
rivals stop.
Left out: the cleaning of names into path segments, the directory creation that
precedes every operation, the text of a body.

### Wake

`ledger` is `notification.json` (id, state, wake protocol `v2`, `coal`escing,
generation time, notified ids, lease).  `lock` is `notification.lock`.  `hints`
are the hints the host has and the agent has not picked up, `inflight` those of
timed-out submissions that the host may still accept.  A notifier's steps are
lock, look (read the ledger, list), gone/goneToo (look in `claimed/`, then
`done/`), decide, host, record; a receiver's are receive (lock), check, mark,
claim.  Two modelling choices are worth naming:

* A claim under `receive` is one step here: its two system calls are the
  subject of `Mailbox`, and a claim whose read fails is a failed receive.
  Listings are snapshots, less what could not be read; messages are published
  in the order of their ids.
* The agent follows the hint it was given: it repeats `receive --notice ID`
  until the result is empty, as the text of the hint tells it to, and repeats a
  command that failed.  An agent session that ends instead is `AgentDies`.

Failures are bounded by `MaxFaults` and chosen from `Faults`: the host refuses
(`fails`), answers unusably or not in time (`uncertain`), the ledger or a
directory cannot be read or the ledger not written (`write`), a message file
cannot be read (`unread`), a process is killed (`crash`), a session ends
(`dies`).  Only `unread` is silent: `Lists` is the List of `queue.go:288-308`, which
leaves out any set of pending messages and reports no error
(`queue_test.go:280` asserts it).  A receive then takes the rest for the whole
mailbox: it may claim nothing, write "received" and return empty, and
`NotifyList` sends a notification about such a message on to look for it in
`claimed/` and `done/`, in vain.  `skipped` remembers what the last listing left
out.
`NotifyGivesUp` and `ReceiveGivesUp` (the lock was not free in time) need no
budget.  `AttemptIDs` and the stored receipt are read by nobody and left out;
`WaitReceive` is `Mailbox`'s polling loop around an automatic receive.

### Directory

`addr[s]` is the directory in the `addr.json` of session `s`, `dirs` the index
directories that exist, `markers[c]` the files in one of them, `receiver` the
sessions with stored credentials.  A registrar is a process that runs `register`
or `unregister`, for any session and at any time: hooks register at every event.

| operation | actions |
|---|---|
| RegisterAddress | `RegisterCall`, `Publish` (rename of `addr.json`), `MakeDir`, `Mark` or `MarkFails` (the directory is gone again), `PutReceiver` |
| RemoveAddress | `UnregisterCall`, `ReadAddress`, `RemoveAddress`, `RemoveReceiver`, `Prune`, `Drop` |
| TargetsByCwd | `LookupCall`, `LookupScan`, `LookupCheck` per marker, `LookupReturn` |
| anything | `Crash` of a registrar, if `Kills` |

`cut` remembers the sessions whose registration was cut short (killed, or a
failed `Mark`) or overtaken by an unregistration of the same session: for those
the code makes no promise until they register or unregister again.  The
properties are about all the others.  `steady` and `present` remember, for a
lookup under way, who was registered and marked all along and who was registered
at some moment.  Left out: the other fields of an address, the hash that names an
index directory, and failures of the file system other than the missing
directory of `MarkFails`.

### PiExtension

`rt[r]` is the `Runtime` object of the `r`-th session_start with its flags and
timers; `take[r]` and `held[r]` are the `agentqueue take` it awaits and what that
has claimed; `life` is the lifecycle handler at work and the await it is at.

| code | actions |
|---|---|
| session_start | `SessionStart`, then after its awaits `MakeRuntime` or `MakeNone`, `Registered`, `Watching` |
| session_shutdown | `SessionShutdown`, `ShutDown` |
| ensureWatcher, scheduleWatchRetry | `Arm`, `ArmFails`, `WatchBreaks`, `WatchRetry`, `WatchFires` |
| requestDrain, drain | `Asks`, `DrainStarts`, `Inject`, `InjectFails`, `DrainEnds` |
| takeNext | `TakeFinds`, `TakeFindsNone`, `TakeFails`, `TakeIsCutOff` |
| environment | `Push`, `TakeElsewhere`; each changes the watched directory |

Assumed of the host: it runs the lifecycle handlers one after another, and a
session that starts again keeps its id (the case in which an old runtime and a
new one share a mailbox).  The debounce delay is a timer that fires at any time.
The `register` and `unregister` children are the registrars of `Directory`,
their one-second SIGKILL is its `Crash`.  Left out: the environment variables,
the refreshed session context, and the text of a delivery.

### Delivery

`queue` is `pending/` in the order of its ids, `claimed` is `claimed/`, `lock` is
`notification.lock`.  A process is a hook or a shell; `pc` and `op` are its next
step and its command, `batch` what is left of its listing, `hold` what it has
claimed and not yet handed over.  The session is `phase`, `event` (the event
whose hooks run), `active` (`stop_hook_active`) and `address` (where its
`addr.json` says it is).  An ack frees the name of its message for a new one, so
that messages never stop arriving.

| code | actions |
|---|---|
| the host | `Fire` (starts every hook of an event), `Collect` (all have exited; it reads their output), `ChangeDir` |
| hook claude, hook codex | `ClaudeHook`, `CodexHook` (register, then deliver or end), `Skips` (exit 0 on an error) |
| register, unregister | `RegisterHook`, `UnregisterHook` |
| ReceiveAutomatic, Receive | `Lock`, `GivesUp`, `List`, `Take` or `Miss` per message, `Done`; `Expires` and `Unreadable` are its error returns |
| push | `PushStores`, `Lock`, `PushEnds` |
| receive, wait --take | `ReceiveCall`, the receive above, for wait also `WaitPolls`, `TimesOut` |
| wait | `WaitCall`, `WaitLooks`, `WaitPolls`, `TimesOut` |
| take, ack | `TakeCall`, `TakePrints`; `Ack` |
| anything | `Kill` |

Which events deliver and which register is read off the installed hooks
(`hook_config.go`) and the handlers; `SubagentStop` is handled but not installed,
and a subagent's own turn is not followed.  Assumed of the host (`Visible`,
`Possible`, `PhaseAfter`): it shows what a hook prints except while it compacts
or ends, and Codex only at the two events that take context, as the comments of
HandleClaude and HandleCodex say; it runs the hooks of one event at a time.
`shown`, `vanished`, `since` and `owed` are history: how often a message was
handed over, what was lost with a killed process or an unreadable file, what has
been pending since a process began, and the address the last event should have
left.  `List` and `WaitLooks` leave out any set of messages whose files cannot be
read or decoded, in silence (`LeavesOut`, `AllBut`); `since` drops those.  A
registration is one step; its files are the subject of `Directory`.
`list`, which claims nothing, is left out, and so are the texts.

### Listing

`file[s]` is what the host has recorded of session `s` (directory, last
activity), `addr[t]` an `addr.json` with the times of its snapshot and of its
update, `boxes` the mailboxes, `place[m]` the directory of a message.  One
listing runs among the changes: `Call`, `Discover` (the hosts' stores, each
listed at one moment), `Walk` (the directory of mailboxes), and for each of them
`NextBox`, three `Count`s and `ReadAddress` or `ReadAddressFails`; `Prints` joins,
filters, sorts and cuts.  `Return` is also the failure to read a directory or a
store in any step before, with nothing printed.  An address that is there and
cannot be read or decoded is no such failure: Mailboxes swallows the error
(`address.go:302`), the listing goes on as if there were none, and `unread`
remembers the mailbox.  Its session loses what a hook reported: it is listed where
the host has it (`Where`), or not at all.
`--cwd` and `--limit` are chosen at `Prints`: nothing reads them earlier.
The result is sorted by rank: the row at place `k` is the one that `k - 1` others
come before, which is what `sort.Slice` makes of a strict order.
`report[s]` is history: the time of the last report about `s`, by its host or by
the snapshot of a hook, and where it said `s` was; two reports of one second are
both the last.  A registration without a snapshot carries no time that is
compared with the host's, so it counts as no report.  Left out: `--agent`, which
restricts both sides of the join alike, and `--max-age`, which is the discovery
library's.

## 3. Runs

| run | instance | checks |
|---|---|---|
| `mailbox_safety` | 3 ids in 2 ms, 2 producers, 2 takers, 1 acker, 1 crash | `IInv` (which contains `TypeOK`), `NoPartialBody`, `ExclusiveClaim`, `StrandedOnlyByCrash`, `OldestFirst`, refinement of `MessageStore` |
| `mailbox_liveness` | 2 ids, used again and again, 1 producer, 2 takers, 1 acker, 1 waiter, 1 crash or failed read, fairness | `LosersLoseToWinners`, `WaitFinds` |
| `mailbox_ack` | 2 ids, 2 takers, 1 acker | `AckNotFoundMeansAbsent`, violated |
| `wake_flight` | 2 messages, 2 notices, time 0..1, 2 notifiers, 1 automatic receiver, 1 agent, 2 failures of 5 kinds (all but `dies`) | `IInv`, `NoLostWake`, `OneHintAtATime` (while nothing has failed), `QueuedHasHint`, `NoOrphanedHint` |
| `wake_faults` | 1 notifier, 1 agent, every receipt, protocol, transport and kind of failure | `IInv`, `ReceivedMeansDrained`, `NotFoundMeansUnknown` |
| `wake_liveness` | 2 messages, 4 notices, time 0..1, 1 notifier, 1 automatic receiver, 1 agent, receipt `queued`, 1 failure of 5 kinds (all but `dies`), fairness | `AnnouncedIsFetched`, `CallsEnd` |
| `wake_empty` | 1 notifier, 1 agent, 1 refused submission | `EmptyNeedsNoRetry`, violated |
| `directory_safety` | 2 sessions, 2 registrars that may be killed, 1 lookup, 1 directory and "no directory"; symmetric in sessions and in registrars | `IInv`, `RegisteredIsIndexed`, `ReceiverHasAddress`, `LookupExact` |
| `pi_extension` | 3 messages, 2 session starts, 1 failure, 2 per drain, fairness | `IInv`, `StoppedIsQuiet`, `ShownInOrder`, `PendingIsTaken`, `WatcherComesBack` |
| `pi_dropped` | 2 messages, 2 session starts, no failure | `ClaimedIsInjected`, violated |
| `delivery` | 2 messages, 2 hooks of one Claude or Codex session, with and without `--no-block`, 1 shell, batches of 2, 1 failure, fairness | `IInv`, `NothingSwallowed`, `ShownOnce`, `DrainsWhatItSaw`, `AddressTrue`, `TurnEnds`, `NobodyStarved` |
| `listing` | 2 sessions, 2 directories, 1 message, 2 seconds, 4 changes, with and without a limit of 1; symmetric in directories | `IInv`, `CountsMissNothing`, `ListedWhereItIs`, `NewestAreKept` |

`IInv` is the inductive invariant of the run's module (section 4), with the type
invariant as its first part.

### Bounds

Three ids let a taker lose one race of its scan, win the next and leave one
behind; two of them share a millisecond.  Two takers and an acker are every pair
of processes that can meet on one file, and a third of a kind adds no new
meeting (the proofs of section 4 have no such bound).  In `Wake`, two messages
and a batch limit of one give a full batch, a second batch and a message that
arrives during each; two notices are a flight and its successor; the clock
passes a lease of one and an age of one, once each.  `MaxNotices` stops further
notifications when no id is left to mint, so the tail of a run is quiet rather
than wrong; what is only said while nothing has failed does not depend on it.
In the liveness run the clock passes a lease once, and the one failure is of
every kind but the end of an agent session, which leaves a queued flight with
nobody to fetch for it (`QueuedIsAPromise`, section 4).  Its four notices are what that
run can use up: with three, calls wait at the bound and `CallsEnd` fails for
that reason alone.  One receipt, `queued`, is enough there, because no other
makes a flight that later senders rely on.

In `Directory`, two sessions are the one that leaves and the one that arrives,
two registrars run any two calls into each other, of one session or of two, and
"no directory" is the place a session moves to and from; index directories do not
interact, so one is enough.  No call is bounded in number: the model is finite as
it is, and every history of registrations and kills is in it.  In `PiExtension`,
the races are
between the current runtime and one that was stopped, which two session starts
give; three messages with two per drain give a full
drain, a second one, and a message that arrives during either.

In `Delivery`, two hooks are two installations at one event; with the shell they
are three claimants of one mailbox, enough for a batch to lose its first message
to a take and its second to nobody, and for the lock to be held while another
waits.  Messages are used again after their ack and the session runs on for
ever, so only names and failures are bounded: one failure meets every step of
every process.  In `Listing`, two sessions are the one that is kept and the one
that is cut; one message moves through all three directories past the counts of
its mailbox.  A custom target, a mailbox that is never a row, is in the theorems
and not in the run.  Four changes give
each of two sessions two reports, or one session a report, a registration, an
unregistration and another report, before or during the listing.

### Fairness

`Mailbox`: a process that is in the middle of an operation runs on
(`WF(Progress)`); calls, time-outs, failures and crashes are never obliged to
happen.  `Wake`: a process that holds the lock runs on; one that polls for it
gets it in the end (`SF(Locking)`: TryLockContext polls every 10 ms, and nobody
holds the lock for longer than one bounded call, but other processes may have it
at each poll, hence strong fairness); the host hands its hints to the agent
(`WF(Wakes)`), which is what its "queued" receipt means.  No fairness is assumed
of the senders or of anybody outside.  `PiExtension`: the lifecycle handlers and,
for each runtime, its callbacks, timers and commands run on (`WF(Handlers)`,
`WF(Steps(r))`): the event loop runs what is ready, every command and child has a
time-out, and a watcher that works reports a change.  Failures, session starts
and shutdowns, senders and other consumers are free.  `Delivery`: a hook or a
command that has started runs on and a lock that is free is taken (weak: every
command ends by itself), the host collects its hooks, and a turn that could stop
again and again does (`SF(Fire("Stop"))`; weak fairness would let tool calls
come between for ever).  Nobody is obliged to start a command, push or end a
session; `NobodyStarved` is stated for runs in which somebody keeps claiming.
Failures are finite in number, so a file that stays unreadable is in none of
these runs: `NobodyStarved` and `WaitFinds` say nothing of it, and List would
leave it out for ever.
`Directory` and `Listing` have no liveness property and no fairness.

### What the violated properties show

* `mailbox_ack`: the doc comment of `ErrNotFound` (`item.go:31`) says that the id
  does not exist in the queue.  Ack looks in `claimed/`, then in `pending/`
  (`queue.go:377`).  A take between the two moves the file the other way, and Ack
  reports a message that is in the queue as not found.
* `wake_empty`: the hint tells its agent to repeat the command until it is empty
  and that an empty result needs no retry (`transport_codex.go:75`).  The lease
  of a drain ends while the agent still works through its batch; a sender then
  finds no active flight, mints a new notice and writes it over the old one
  (`notifications.go:179-196`) before the host has taken it; the host refuses.
  The agent's next receive names a notice the ledger no longer knows and is
  empty (`receive.go:50`), although an announced message is pending and nothing
  is on its way for it.  The next successful notification repairs it, so it takes
  a further sender; without the refusal `NoLostWake` holds (`wake_flight`).
* `pi_dropped`: the README of the repository says that each item is claimed and
  then injected, and calls that exactly-once delivery (`README.md:41`).  When the
  session stops or starts again while a take is on its way, `drain` breaks out
  with the claimed item in hand (`agentqueue.ts:154`): the message is in
  `claimed/` and nobody is told.  At most once is what holds.

`wake_empty` is also why `AnnouncedIsFetched` does not say that every announced
message is fetched.  It does say so while nothing has failed; after a failure, a
message that stays pending is one whose flight is not active and does not know
it, so the next notification signals the host again.

Three more places where the code does less than its text says are in the models as
they are and have no run of their own:

* RemoveAddress drops the index directory "once its last session is gone"
  (`address.go:214`).  `os.Remove` removes it whenever it is empty, also while
  another session has published its address and made the directory and is about
  to write its marker.  That write then fails (`MarkFails` of `Directory`),
  PutAddress returns an error with `addr.json` published, and RegisterAddress
  stores no credentials.  The next hook of the session registers it again;
  `RegisteredIsIndexed` exempts the session until then.
* The doc comment of `ErrNotFound` (`item.go:31`, quoted above) is not true of
  Notify either: for a stored message whose file List could not read it returns
  ErrNotFound (`notifications.go:141`).  `NotFoundMeansUnknown` exempts exactly
  those.
* `wait --take` exits with 3 when its time ends while it waits for
  `notification.lock` (`TimesOut` of `Delivery`), also with messages pending: a
  push holds that lock for as long as the host takes to answer.  `README.md:278`
  of the repository describes 3 as nothing waiting.  It has claimed nothing
  (`NothingSwallowed`), and starting another wait, as that text advises, finds
  the messages.

## 4. What is proved

Every safety invariant and safety action property that a passing run checks is
also a theorem, for every finite or infinite set of processes, messages, sessions
and directories (`Listing`: finitely many sessions, so that they can be sorted)
and every bound, from the named assumptions of the modules alone.  None of the
properties that are about several processes is inductive by itself.  Each module
ends with `IInv`, the conjunction of named parts that is; TLC checks it in the
run of the module, and the proof module shows `Spec => []IInv` (`Invariance`)
with one step or lemma per action.  An action property is proved of one step from
`IInv`.

| module | theorems, and the property of each |
|---|---|
| `MailboxProofs` | `MailboxSafe` (`TypeOK`, `ExclusiveClaim`), `BodiesAreWhole` (`NoPartialBody`), `StrandingNeedsCrash` (`StrandedOnlyByCrash`), `TakeNextOrder` (`OldestFirst`), `Refinement` (`KeepsPromise`: `Mailbox` implements `MessageStore`) |
| `WakeProofs` | `ReceivedIsDrained` (`ReceivedMeansDrained`), `NotFoundIsTrue` (`NotFoundMeansUnknown`), and under the hypotheses below `QueuedIsAPromise` (`QueuedHasHint`), `HintsAreTheLedgers` (`NoOrphanedHint`), `WakesAreNotLost` (`NoLostWake`), `HintsComeOneByOne` (`OneHintAtATime`) |
| `DirectoryProofs` | `Indexed` (`RegisteredIsIndexed`), `CredentialsHaveAddress` (`ReceiverHasAddress`), `LookupIsExact` (`LookupExact`) |
| `PiExtensionProofs` | `StoppedStaysQuiet` (`StoppedIsQuiet`), `InjectionOrder` (`ShownInOrder`) |
| `DeliveryProofs` | `BodiesAreShownOnce` (`ShownOnce`), `NoBodyIsSwallowed` (`NothingSwallowed`), `ReceivesAreComplete` (`DrainsWhatItSaw`), `AddressIsTrue` (`AddressTrue`) |
| `ListingProofs` | `CountsAreComplete` (`CountsMissNothing`), `ListingIsTrue` (`ListedWhereItIs`), `LatestComeFirst` (`NewestAreKept`) |

### The arguments

*Mailbox.*  `ExclusiveClaim` needs that what is being read was claimed
(`ReadersClaimed`), that what was told once is never pending again (`ToldOnce`)
and that a file is in one directory (`OneDirectory`); `NoPartialBody` needs that a
writer has its temporary file to itself and complete when it renames it
(`WritersApart`); `OldestFirst` needs that whatever TakeNext has passed over is
pending no more (`PassedOverGone`).  The refinement maps `PushPublish` to
`Publish`, `ClaimWins` to `Acquire`, `ReadBody` to `Tell`, `AckClaimed` and
`AckPending` to `Finish`, and every other action to a stutter (`InvisibleStep`,
`StepKeepsPromise`).

*Wake.*  Who is between lock and unlock has the lock (`LockHeld`), so what it read
of the ledger still holds when it writes (`Reserved`, `Draining`).  What was not
found in one directory is in no earlier one (`Items`), which makes
`NotFoundMeansUnknown` true at the third.  A receive that holds the lock has
listed everything that was announced and that it could read, so what is left of
it when the flight is closed was left out by that listing
(`ReceivedMeansDrained`, a fact about the closing step: a later listing may
read what this one could not).  The
history of a hint is in `HintStays`, `NoticesObserved`, `FlightAlive` and
`OneHint`: an id is minted once (`Minting`) and is with the host, in flight or
observed.  Four of the theorems have hypotheses on the constants, because the
code promises no more:

* `HintsAreTheLedgers`: receivers of the current protocol, and the receipt
  `queued`.  `flightActive` (`notifications.go:104`) joins a flight only under the
  current `WakeProtocol` and only if it was `queued`, for which the host gave an id
  that can be verified; `written` is "a socket write only" (`notifications.go:23`),
  and each further message writes a new notice over it.
* `WakesAreNotLost`: receivers of the current protocol, and no `deferred`
  receipt: `deferred` leaves the message to the hooks of the session
  (`notifications.go:24`), which are the subject of `Delivery`.
* `HintsComeOneByOne`: receivers of the current protocol, and no `written`
  receipt, after which the code does submit again.
* `QueuedIsAPromise`: no agent session ends while it works for a hint (`dies`).
  The ledger cannot learn of that; it trusts a queued flight without a lease.

`wake_flight` runs with constants that satisfy all four.  `WakesAreNotLost` and
`HintsComeOneByOne` speak of the time while nothing has failed, as the properties
do; the other theorems hold through every failure and crash of the model.

*Directory.*  "Some call of the session is under way" in the properties is too
weak to be kept by a step: `MarkToCome` and `RemovalToCome` say which call, at
which of its steps, will write the marker or drop the credentials; `LookupInStep`
says that what a lookup is measured by is true of the files as it goes along.

*PiExtension.*  A stopped runtime arms nothing although its awaits come back,
because only the current one is active (`OneActive`).  The order of injections
crosses a restart: a take that is under way belongs to a drain (`DrainsTake`),
claims go in the order of the ids and the active runtime holds nothing older than
what has been shown (`ClaimsInOrder`).

*Delivery.*  A body is in one hand and not shown yet while it is
(`HeldOnce`), and hooks hold bodies only at events that deliver (`Roles`), so that
whatever path ends a batch hands it over once.  `Listings` says that what was
pending when a receive began, and could be read, is in the rest of its listing.  `Addressed` gives
`AddressTrue` while the hooks of an event run in any order.  `AddressIsTrue`
supposes that a hook is installed: without one nothing registers.

*Listing.*  `Visited`: a message of an earlier mailbox has been counted, and one
of the mailbox that is being visited has been or has not come yet to where it is
looked for next.  `Reported` ties the last report of a session to what the files
hold, `Gathered` what was read to what is there, for the sessions that do not
change and whose address could be read; of the others it says that nothing was
read.  Those are heard of no later than their last report (`SteadyIsKnown`), so
they displace nobody.  The order of the result is proved from three lemmas that suppose nothing
of the module but its types: `RankOfRow` (how many rows come before one is less
than their number, and grows along the order), `RowOfRank` (every place has its
row, by counting) and `SortedByRank`; `JoinByRank` adds the limit.

### Only model-checked

* Liveness, which the prover does not treat: `LosersLoseToWinners`, `WaitFinds`,
  `AnnouncedIsFetched`, `CallsEnd`, `PendingIsTaken`, `WatcherComesBack`,
  `TurnEnds`, `NobodyStarved`.
* The three properties that are violated.

## 5. Not modelled, and the plan

Not modelled:

* the subprocess and socket work of the transports beyond their outcomes;
* caller and root resolution: a precedence of flags and environment variables,
  and one append to a file with a single writer;
* flag parsing, usage texts, tables, JSON forms and the wording of a delivery;
* the installation of hooks.  What is installed is in `Delivery`; how a settings
  file is planned, probed, backed up and written is crossagent's ConfigManager,
  which is not in this repository, so a model of it would have no source;
* of the Pi extension, the variables it exports, the session context it
  refreshes and the `/agentqueue` command.

Next, in this order:

1. `Flight`: an abstract flight (idle, queued, draining) that `Wake` implements
   when nothing fails, as the model in `flight_fuzz_test.go` has it, and the
   refinement proved from `IInv` of `Wake`.
2. A claim under `receive` as the two steps of `Mailbox`: that the one step of
   `Wake` and `Delivery` is what `MessageStore` allows is argued in section 2 and
   by `Refinement`, but no theorem composes the modules.
