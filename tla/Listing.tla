------------------------------- MODULE Listing -------------------------------
(***************************************************************************)
(* sessions.go, Mailboxes of address.go and the commands sessions and      *)
(* targets: a listing joins what the hosts have recorded of their sessions  *)
(* with the mailboxes and addresses under the queue root.  It reads file by *)
(* file, without a lock, while sessions work, register and end, and while   *)
(* messages arrive and move on.                                            *)
(*                                                                         *)
(* A session is its number, which is also its place in the order of agents  *)
(* and ids.  Time 0 is the zero time: no activity, no snapshot.             *)
(***************************************************************************)
EXTENDS Naturals, Sequences, FiniteSets, SequencesExt

CONSTANTS
  Sessions,    \* the sessions of the agents crossagent knows, numbers
  Custom,      \* other mailbox targets, numbers
  Cwds,        \* working directories
  Msgs,        \* messages
  To,          \* per message: its target
  Limits,      \* the values of --limit considered; 0 is none
  MaxTime,     \* bound: the last second of the clock; records are to the second
  MaxChanges,  \* bound: changes of the world
  AllDirs      \* no --cwd

Targets == Sessions \cup Custom
Times == 0 .. MaxTime

ASSUME TargetsAssumption == /\ Targets \subseteq Nat /\ Sessions \cap Custom = {}
                            /\ IsFiniteSet(Sessions)
                            /\ To \in [Msgs -> Targets]
ASSUME BoundsAssumption == /\ MaxTime \in Nat \ {0} /\ MaxChanges \in Nat
                           /\ Limits \subseteq Nat
ASSUME NamesAssumption == AllDirs \notin Cwds

VARIABLES
  file,     \* per session: the host's record of it, cwd and last activity
  addr,     \* per target: addr.json: cwd, time of the snapshot, of the update
  boxes,    \* the targets with a directory under the root
  place,    \* per message: the directory it is in
  now,      \* the clock
  step,     \* the next step of the listing
  query,    \* its command, filter and limit
  rows,     \* per session: the row discovery has made
  todo,     \* the mailboxes not visited yet
  at,       \* the mailbox being visited, a set of at most one
  read,     \* the addresses read, per visited mailbox
  counted,  \* the messages counted, in whichever directory
  out,      \* the rows of the result, in order
  present,  \* history: the messages published before the listing began
  unread,   \* history: the visited targets whose address could not be read
  steady,   \* history: the sessions unchanged since
  report,   \* history: the last report of a session: its time, its directories
  changes   \* the number of changes so far

world == <<file, addr, boxes, place, now, report>>
listing == <<step, query, rows, todo, at, read, counted, out, present, unread>>
vars == <<world, listing, steady, changes>>

Unknown == [known |-> FALSE, cwd |-> AllDirs, last |-> 0]
NoAddress == [known |-> FALSE, cwd |-> AllDirs, seen |-> 0, updated |-> 0]
NoQuery == [command |-> "none", cwd |-> AllDirs, limit |-> 0]

Init ==
  /\ file = [s \in Sessions |-> Unknown] /\ addr = [t \in Targets |-> NoAddress]
  /\ boxes = {} /\ place = [m \in Msgs |-> "none"] /\ now = 1
  /\ step = "idle" /\ query = NoQuery
  /\ rows = [s \in Sessions |-> Unknown] /\ todo = {} /\ at = {}
  /\ read = [t \in Targets |-> NoAddress] /\ counted = {} /\ out = <<>>
  /\ present = {} /\ unread = {} /\ steady = {} /\ changes = 0
  /\ report = [t \in Targets |-> [time |-> 0, cwds |-> {}]]

-----------------------------------------------------------------------------
\* The world, which does not wait for a listing.

Change == changes < MaxChanges /\ changes' = changes + 1

Unsettles(t) == steady' = steady \ {t}

\* t is reported in c now.
Reports(t, c) ==
  report' = [report EXCEPT ![t] =
               [time |-> now,
                cwds |-> IF @.time = now THEN @.cwds \cup {c} ELSE {c}]]

\* The host writes the session's transcript.
Works(s, c) ==
  /\ s \in Sessions /\ Change
  /\ file' = [file EXCEPT ![s] = [known |-> TRUE, cwd |-> c, last |-> now]]
  /\ Reports(s, c) /\ Unsettles(s)
  /\ UNCHANGED <<addr, boxes, place, now, listing>>

\* All that is recorded of t without a snapshot.
Recorded(t) == IF t \in Sessions /\ file[t].known
               THEN [time |-> file[t].last, cwds |-> {file[t].cwd}]
               ELSE [time |-> 0, cwds |-> {}]

\* PutAddress, with or without a snapshot of the session's surroundings.
Registers(t, c, snapshot) ==
  /\ Change
  /\ addr' = [addr EXCEPT ![t] = [known |-> TRUE, cwd |-> c,
                                  seen |-> IF snapshot THEN now ELSE 0,
                                  updated |-> now]]
  /\ boxes' = boxes \cup {t}
  /\ IF snapshot THEN Reports(t, c)
     ELSE report' = [report EXCEPT ![t] = Recorded(t)]
  /\ Unsettles(t)
  /\ UNCHANGED <<file, place, now, listing>>

\* RemoveAddress; the directory of the mailbox stays.
Unregisters(t) ==
  /\ addr[t].known /\ Change
  /\ addr' = [addr EXCEPT ![t] = NoAddress]
  /\ report' = [report EXCEPT ![t] = Recorded(t)]
  /\ Unsettles(t)
  /\ UNCHANGED <<file, boxes, place, now, listing>>

\* A message is pushed, claimed, acknowledged: it only moves on.
Moves(m, from, to) ==
  /\ place[m] = from /\ Change
  /\ place' = [place EXCEPT ![m] = to]
  /\ boxes' = boxes \cup {To[m]}
  /\ UNCHANGED <<file, addr, now, report, listing, steady>>

Push(m) == Moves(m, "none", "pending")
Take(m) == Moves(m, "pending", "claimed")
Ack(m) == Moves(m, "claimed", "done") \/ Moves(m, "pending", "done")

Tick == /\ now < MaxTime
        /\ now' = now + 1
        /\ UNCHANGED <<file, addr, boxes, place, report, listing, steady, changes>>

-----------------------------------------------------------------------------
\* The listing.

\* sessions, and targets, which wants the mailboxes only.
Call(command) ==
  /\ step = "idle"
  /\ query' = [query EXCEPT !.command = command]
  /\ step' = IF command = "targets" THEN "walk" ELSE "discover"
  /\ present' = {m \in Msgs : place[m] # "none"}
  /\ steady' = Sessions
  /\ UNCHANGED <<world, rows, todo, at, read, counted, out, unread, changes>>

Discover ==
  /\ step = "discover"
  /\ rows' = file
  /\ step' = "walk"
  /\ UNCHANGED <<world, query, todo, at, read, counted, out, present, unread, steady, changes>>

\* Mailboxes.
Walk ==
  /\ step = "walk"
  /\ todo' = boxes
  /\ step' = "next"
  /\ UNCHANGED <<world, query, rows, at, read, counted, out, present, unread, steady, changes>>

NextBox(t) ==
  /\ step = "next" /\ t \in todo /\ \A u \in todo : t <= u
  /\ todo' = todo \ {t} /\ at' = {t}
  /\ step' = "pending"
  /\ UNCHANGED <<world, query, rows, read, counted, out, present, unread, steady, changes>>

\* Variant: the claimed ones last.
AfterSkewed(d) == CASE d = "pending" -> "done" [] d = "claimed" -> "address"
                    [] d = "done" -> "claimed"

\* The directories of a mailbox, in the order messages go through them.
After(d) == CASE d = "pending" -> "claimed" [] d = "claimed" -> "done"
              [] d = "done" -> "address"

Count(d) ==
  /\ step = d
  /\ counted' = counted \cup {m \in Msgs : To[m] \in at /\ place[m] = d}
  /\ step' = After(d)
  /\ UNCHANGED <<world, query, rows, todo, at, read, out, present, unread, steady, changes>>

\* addr.json is read, or there is none.
ReadAddress ==
  /\ step = "address"
  /\ read' = [t \in Targets |-> IF t \in at THEN addr[t] ELSE read[t]]
  /\ at' = {}
  /\ step' = "next"
  /\ UNCHANGED <<world, query, rows, todo, counted, out, present, unread, steady, changes>>

\* addr.json is there and cannot be read or decoded: Mailboxes goes on as if
\* there were none.
ReadAddressFails ==
  /\ step = "address" /\ \E t \in at : addr[t].known
  /\ at' = {} /\ unread' = unread \cup at
  /\ step' = "next"
  /\ UNCHANGED <<world, query, rows, todo, read, counted, out, present, steady, changes>>

\* The join.

Newest(S) == CHOOSE n \in S : \A k \in S : k <= n

\* A snapshot counts if it is not older than the last activity.
Snapshot(s) == read[s].seen # 0 /\ read[s].seen >= rows[s].last

\* Variant: the address is always believed.
CwdOfAddress(s) == IF read[s].known THEN read[s].cwd ELSE rows[s].cwd
Cwd(s) == IF Snapshot(s) \/ ~rows[s].known THEN read[s].cwd ELSE rows[s].cwd

\* Variant: only what the host has recorded counts.
HeardByHost(s) == rows[s].last
Heard(s) == Newest({rows[s].last, read[s].seen}
                   \cup (IF rows[s].known THEN {} ELSE {read[s].updated}))

\* Addresses are joined by the key of the session; a mailbox without an
\* address is no session, and those of custom agents are never rows.
Listed == {s \in Sessions : rows[s].known \/ read[s].known}

\* Variant: the filter looks at what the host has recorded.
ChosenEarly(cwd) == {s \in Listed : cwd \in {AllDirs, rows[s].cwd}}
Chosen(cwd) == {s \in Listed : cwd \in {AllDirs, Cwd(s)}}

Before(s, t) == Heard(s) > Heard(t) \/ (Heard(s) = Heard(t) /\ s < t)

\* How many rows of S come before that of s.
Ahead(S, s) == Cardinality({t \in S : Before(t, s)})
Sorted(S) == [k \in 1 .. Cardinality(S) |-> CHOOSE s \in S : Ahead(S, s) = k - 1]

\* Variant: the limit was for discovery.
JoinAll(cwd, limit) == Sorted(Chosen(cwd))
Join(cwd, limit) ==
  LET sorted == Sorted(Chosen(cwd))
  IN IF limit > 0 /\ Len(sorted) > limit THEN SubSeq(sorted, 1, limit) ELSE sorted

\* The filter and the limit of the call are not looked at before this.
Prints(cwd, limit) ==
  /\ step = "next" /\ todo = {}
  /\ query.command = "targets" => cwd = AllDirs /\ limit = 0
  /\ query' = [query EXCEPT !.cwd = cwd, !.limit = limit]
  /\ out' = IF query.command = "sessions" THEN Join(cwd, limit) ELSE <<>>
  /\ step' = "printed"
  /\ UNCHANGED <<world, rows, todo, at, read, counted, present, unread, steady, changes>>

\* The result has been printed; or a directory or a session store could not be
\* read (an address that cannot be is no reason to stop), and nothing is.
Return ==
  /\ step # "idle" /\ step' = "idle"
  /\ query' = NoQuery /\ rows' = [s \in Sessions |-> Unknown]
  /\ todo' = {} /\ at' = {} /\ read' = [t \in Targets |-> NoAddress]
  /\ counted' = {} /\ out' = <<>> /\ present' = {} /\ unread' = {} /\ steady' = {}
  /\ UNCHANGED <<world, changes>>

Lists ==
  \/ \E command \in {"sessions", "targets"} : Call(command)
  \/ Discover \/ Walk \/ (\E t \in Targets : NextBox(t))
  \/ (\E d \in {"pending", "claimed", "done"} : Count(d))
  \/ ReadAddress \/ ReadAddressFails \/ Return
  \/ \E c \in Cwds \cup {AllDirs}, n \in Limits : Prints(c, n)

Changes ==
  \/ \E t \in Targets, c \in Cwds :
       Works(t, c) \/ (\E snapshot \in BOOLEAN : Registers(t, c, snapshot))
  \/ \E t \in Targets : Unregisters(t)
  \/ \E m \in Msgs : Push(m) \/ Take(m) \/ Ack(m)
  \/ Tick

Next == Lists \/ Changes

Spec == Init /\ [][Next]_vars

-----------------------------------------------------------------------------
\* Properties.

Steps == {"idle", "discover", "walk", "next", "pending", "claimed", "done",
          "address", "printed"}
Records == [known : BOOLEAN, cwd : Cwds \cup {AllDirs}, last : Times]
Addresses == [known : BOOLEAN, cwd : Cwds \cup {AllDirs}, seen : Times, updated : Times]

TypeOK ==
  /\ file \in [Sessions -> Records] /\ addr \in [Targets -> Addresses]
  /\ boxes \subseteq Targets
  /\ place \in [Msgs -> {"none", "pending", "claimed", "done"}]
  /\ now \in Times \ {0} /\ changes \in 0 .. MaxChanges
  /\ report \in [Targets -> [time : Times, cwds : SUBSET Cwds]]
  /\ step \in Steps
  /\ query \in [command : {"none", "sessions", "targets"}, cwd : Cwds \cup {AllDirs},
                limit : Nat]
  /\ rows \in [Sessions -> Records] /\ read \in [Targets -> Addresses]
  /\ todo \subseteq boxes /\ at \subseteq boxes /\ \A t, u \in at : t = u
  /\ present \subseteq {m \in Msgs : place[m] # "none"}
  /\ counted \subseteq {m \in Msgs : place[m] # "none"}
  /\ out \in Seq(Sessions) /\ \A j, k \in DOMAIN out : out[j] = out[k] => j = k
  /\ query.limit = 0 \/ Len(out) <= query.limit
  /\ steady \subseteq Sessions /\ unread \subseteq boxes

\* A message that was in a mailbox before the listing began is in one of its
\* counts, wherever it moves meanwhile: the directories are read in the order
\* messages go through them.  (One that moves may be in two.)
CountsMissNothing == step = "printed" => present \subseteq counted

\* The directories in which a session can be looked for: where its host or a
\* hook reported it last; if its address could not be read, where its host did.
Where(s) == IF s \notin unread THEN report[s].cwds
            ELSE IF file[s].known THEN {file[s].cwd} ELSE {}

\* A session that does not change meanwhile is listed where it was last
\* reported to be, by its host or by a hook, and found by a filter for that
\* directory and for no other.  One whose address cannot be read is listed
\* where its host has it, and not at all if its host does not know it.
ListedWhereItIs ==
  step = "printed" /\ query.command = "sessions" /\ query.limit = 0 =>
    \A s \in steady :
      /\ \A c \in Cwds : Where(s) = {c} =>
           /\ Cwd(s) = c
           /\ s \in ToSet(out) <=> query.cwd \in {AllDirs, c}
      /\ s \in unread /\ ~file[s].known => s \notin ToSet(out)

Wanted(s) == \E c \in Cwds : report[s].cwds = {c} /\ query.cwd \in {AllDirs, c}

\* --limit keeps the sessions reported last, the newest first: no session of
\* the result is there in the place of one reported later.  A session whose
\* address cannot be read may be missing, but takes nobody's place.
NewestAreKept ==
  step = "printed" /\ query.command = "sessions" =>
    \A s \in steady \ unread, t \in steady :
      /\ Wanted(s) /\ report[t].cwds # {} /\ t \in ToSet(out)
      /\ report[s].time > report[t].time
      => \E j, k \in DOMAIN out : j < k /\ out[j] = s /\ out[k] = t
-----------------------------------------------------------------------------
\* Why the safety properties hold.

\* A mailbox has a directory.
Housed ==
  /\ \A m \in Msgs : place[m] # "none" => To[m] \in boxes
  /\ \A t \in Targets : addr[t] = NoAddress \/ t \in boxes

\* A message of an earlier mailbox has been counted; one of the mailbox that is
\* being visited has been, or has not come yet to where it is looked for next.
Visited ==
  /\ at # {} <=> step \in {"pending", "claimed", "done", "address"}
  /\ step = "printed" => todo = {}
  /\ step \notin {"idle", "discover", "walk"} =>
       \A m \in present \ counted :
         \/ To[m] \in todo
         \/ /\ To[m] \in at
            /\ \/ step = "pending"
               \/ step = "claimed" /\ place[m] \in {"claimed", "done"}
               \/ step = "done" /\ place[m] = "done"

\* The last report of a session is what its host or a hook recorded last; if
\* both did in the same second, it is both.
Reported ==
  /\ \A t \in Targets : addr[t].seen # 0 => addr[t].known /\ addr[t].updated = addr[t].seen
  /\ \A s \in Sessions :
       /\ file[s].known <=> file[s].last # 0
       /\ file[s].known => file[s].cwd \in Cwds
       /\ file[s].last <= now /\ addr[s].seen <= now
       /\ report[s].time \in {file[s].last, addr[s].seen}
       /\ report[s].time >= file[s].last /\ report[s].time >= addr[s].seen
       /\ file[s].known /\ file[s].last = report[s].time => file[s].cwd \in report[s].cwds
       /\ addr[s].seen # 0 /\ addr[s].seen = report[s].time => addr[s].cwd \in report[s].cwds
       /\ report[s].time = 0 => report[s].cwds = {}

\* What the listing has read of a session that does not change is what is
\* there, or nothing if its address could not be read.
Gathered ==
  /\ step \in {"idle", "discover", "walk"} =>
       read = [t \in Targets |-> NoAddress] /\ unread = {}
  /\ unread \cap (todo \cup at) = {} /\ todo \cap at = {}
  /\ step \notin {"idle", "discover"} /\ query.command = "sessions" =>
       \A s \in steady : rows[s] = file[s]
  /\ \A s \in unread \cup todo \cup at : read[s] = NoAddress
  /\ step \notin {"idle", "discover", "walk"} =>
       \A s \in steady : read[s] = addr[s] \/ s \in unread \cup todo \cup at
  /\ out = IF step = "printed" /\ query.command = "sessions"
           THEN Join(query.cwd, query.limit) ELSE <<>>

\* The inductive invariant.
IInv == TypeOK /\ Housed /\ Visited /\ Reported /\ Gathered
=============================================================================
