------------------------------ MODULE Directory ------------------------------
(***************************************************************************)
(* address.go and receiver.go, with RegisterAddress of hookserve: where a  *)
(* session can be reached (addr.json, receiver.private.json), and the      *)
(* index _by_cwd that finds the sessions of an agent by their working      *)
(* directory.  There is no lock: every hook of every session registers,    *)
(* the end of a session unregisters it, and a lookup may run at any time.  *)
(*                                                                         *)
(* One action per system call that others can see.  An index directory is  *)
(* made by the first session that works in it and dropped by the last.     *)
(***************************************************************************)
EXTENDS Naturals, FiniteSets

CONSTANTS
  Sessions,    \* the sessions of one agent
  Cwds,        \* working directories
  Registrars,  \* processes that register and unregister
  Lookers,     \* processes that look sessions up by directory
  Kills,       \* whether registrars may be killed
  NoCwd,       \* a session without a working directory
  NoAddress,   \* no addr.json
  NoSession

Procs == Registrars \cup Lookers

ASSUME NamesAssumption ==
  /\ NoCwd \notin Cwds /\ NoAddress \notin Cwds \cup {NoCwd} /\ NoSession \notin Sessions
  /\ Registrars \cap Lookers = {} /\ Kills \in BOOLEAN

VARIABLES
  addr,      \* per session: the directory in its addr.json
  dirs,      \* the index directories that exist
  markers,   \* per directory: the sessions with a marker in it
  receiver,  \* the sessions with a receiver.private.json
  pc,        \* per process: its next step
  who,       \* per process: the session it works for
  at,        \* per process: the directory it registers, prunes or looks up
  todo,      \* per looker: the markers of its scan not checked yet
  found,     \* per looker: the sessions it will return
  present,   \* history, per looker: who was registered there meanwhile
  steady,    \* history, per looker: who was registered and marked all along
  cut        \* history: the sessions whose registration was cut short, or
             \* overtaken by an unregistration of the same session

files == <<addr, dirs, markers, receiver>>
local == <<pc, who, at, todo, found>>
history == <<present, steady, cut>>
vars == <<files, local, history>>

Init ==
  /\ addr = [s \in Sessions |-> NoAddress]
  /\ dirs = {} /\ markers = [c \in Cwds |-> {}] /\ receiver = {}
  /\ pc = [p \in Procs |-> "idle"]
  /\ who = [p \in Procs |-> NoSession]
  /\ at = [p \in Procs |-> NoAddress]
  /\ todo = [p \in Procs |-> {}] /\ found = [p \in Procs |-> {}]
  /\ present = [p \in Procs |-> {}] /\ steady = [p \in Procs |-> {}]
  /\ cut = {}

-----------------------------------------------------------------------------
Goto(p, step) == pc' = [pc EXCEPT ![p] = step]

Return(p) == /\ Goto(p, "idle")
             /\ who' = [who EXCEPT ![p] = NoSession]
             /\ at' = [at EXCEPT ![p] = NoAddress]

Moves(p, step) == Goto(p, step) /\ UNCHANGED <<who, at>>

NoLookup == UNCHANGED <<todo, found, present, steady>>

\* The address or the marker of s is no longer what a lookup may have seen.
Unsettles(s) == steady' = [p \in Procs |-> steady[p] \ {s}]

-----------------------------------------------------------------------------
\* RegisterAddress: PutAddress, then PutReceiver.

RegisterCall(p, s, c) ==
  /\ p \in Registrars /\ pc[p] = "idle"
  /\ Goto(p, "publish")
  /\ who' = [who EXCEPT ![p] = s] /\ at' = [at EXCEPT ![p] = c]
  /\ UNCHANGED <<files, cut>> /\ NoLookup

\* Variant: a session without a directory is indexed too.
PublishBlind(p) ==
  /\ pc[p] = "publish"
  /\ addr' = [addr EXCEPT ![who[p]] = at[p]]
  /\ present' = [q \in Procs |-> IF pc[q] \in {"scan", "check"} /\ at[q] = at[p]
                                 THEN present[q] \cup {who[p]} ELSE present[q]]
  /\ IF addr[who[p]] = at[p] THEN UNCHANGED steady ELSE Unsettles(who[p])
  /\ Moves(p, "mkdir")
  /\ UNCHANGED <<dirs, markers, receiver, todo, found, cut>>

\* addr.json is replaced by a rename.
Publish(p) ==
  /\ pc[p] = "publish"
  /\ addr' = [addr EXCEPT ![who[p]] = at[p]]
  /\ present' = [q \in Procs |-> IF pc[q] \in {"scan", "check"} /\ at[q] = at[p]
                                 THEN present[q] \cup {who[p]} ELSE present[q]]
  /\ IF addr[who[p]] = at[p] THEN UNCHANGED steady ELSE Unsettles(who[p])
  /\ Moves(p, IF at[p] = NoCwd THEN "receiver" ELSE "mkdir")
  /\ UNCHANGED <<dirs, markers, receiver, todo, found, cut>>

MakeDir(p) ==
  /\ pc[p] = "mkdir"
  /\ dirs' = dirs \cup {at[p]}
  /\ Moves(p, "mark")
  /\ UNCHANGED <<addr, markers, receiver, cut>> /\ NoLookup

Mark(p) ==
  /\ pc[p] = "mark" /\ at[p] \in dirs
  /\ markers' = [markers EXCEPT ![at[p]] = @ \cup {who[p]}]
  /\ cut' = IF addr[who[p]] = at[p] THEN cut \ {who[p]} ELSE cut
  /\ Moves(p, "receiver")
  /\ UNCHANGED <<addr, dirs, receiver>> /\ NoLookup

\* The directory has been dropped since it was made: PutAddress fails.
MarkFails(p) ==
  /\ pc[p] = "mark" /\ at[p] \notin dirs
  /\ cut' = cut \cup {who[p]}
  /\ Return(p)
  /\ UNCHANGED files /\ NoLookup

\* The credentials are stored, removed when the payload has none, or left
\* alone when they belong to another session or agent.
PutReceiver(p) ==
  /\ pc[p] = "receiver"
  /\ receiver' \in {receiver, receiver \cup {who[p]}, receiver \ {who[p]}}
  /\ cut' = IF addr[who[p]] = NoAddress THEN cut \cup {who[p]} ELSE cut
  /\ Return(p)
  /\ UNCHANGED <<addr, dirs, markers>> /\ NoLookup

-----------------------------------------------------------------------------
\* RemoveAddress.

UnregisterCall(p, s) ==
  /\ p \in Registrars /\ pc[p] = "idle"
  /\ Goto(p, "read")
  /\ who' = [who EXCEPT ![p] = s]
  /\ UNCHANGED <<files, at, cut>> /\ NoLookup

\* The address says which directory to prune.
ReadAddress(p) ==
  /\ pc[p] = "read"
  /\ at' = [at EXCEPT ![p] = addr[who[p]]]
  /\ cut' = cut \ {who[p]}
  /\ Goto(p, "remove")
  /\ UNCHANGED <<files, who>> /\ NoLookup

RemoveAddress(p) ==
  /\ pc[p] = "remove"
  /\ addr' = [addr EXCEPT ![who[p]] = NoAddress]
  /\ Unsettles(who[p])
  /\ Moves(p, "forget")
  /\ UNCHANGED <<dirs, markers, receiver, todo, found, present, cut>>

\* Variant: a session without an address has nothing to forget.
RemoveReceiverKnown(p) ==
  /\ pc[p] = "forget"
  /\ receiver' = IF at[p] = NoAddress THEN receiver ELSE receiver \ {who[p]}
  /\ IF at[p] \in Cwds THEN Moves(p, "prune") ELSE Return(p)
  /\ UNCHANGED <<addr, dirs, markers, cut>> /\ NoLookup

RemoveReceiver(p) ==
  /\ pc[p] = "forget"
  /\ receiver' = receiver \ {who[p]}
  /\ IF at[p] \in Cwds THEN Moves(p, "prune") ELSE Return(p)
  /\ UNCHANGED <<addr, dirs, markers, cut>> /\ NoLookup

\* The marker goes, also if the session has registered again meanwhile.
Prune(p) ==
  /\ pc[p] = "prune"
  /\ markers' = [markers EXCEPT ![at[p]] = @ \ {who[p]}]
  /\ IF addr[who[p]] = at[p]
     THEN cut' = cut \cup {who[p]} /\ Unsettles(who[p])
     ELSE UNCHANGED <<cut, steady>>
  /\ Moves(p, "drop")
  /\ UNCHANGED <<addr, dirs, receiver, todo, found, present>>

\* Variant: the directory goes with whatever is in it.
DropAll(p) ==
  /\ pc[p] = "drop"
  /\ dirs' = dirs \ {at[p]} /\ markers' = [markers EXCEPT ![at[p]] = {}]
  /\ Return(p)
  /\ UNCHANGED <<addr, receiver, cut>> /\ NoLookup

\* The directory goes with its last marker.
Drop(p) ==
  /\ pc[p] = "drop"
  /\ dirs' = IF markers[at[p]] = {} THEN dirs \ {at[p]} ELSE dirs
  /\ Return(p)
  /\ UNCHANGED <<addr, markers, receiver, cut>> /\ NoLookup

\* A registrar is killed; the Pi extension does so after a second.
Crash(p) ==
  /\ Kills /\ p \in Registrars /\ pc[p] # "idle"
  /\ cut' = cut \cup {who[p]}
  /\ Return(p)
  /\ UNCHANGED files /\ NoLookup

-----------------------------------------------------------------------------
\* TargetsByCwd.

LookupCall(p, c) ==
  /\ p \in Lookers /\ pc[p] = "idle"
  /\ Goto(p, "scan")
  /\ at' = [at EXCEPT ![p] = c]
  /\ present' = [present EXCEPT ![p] = {s \in Sessions : addr[s] = c}]
  /\ steady' = [steady EXCEPT ![p] = {s \in markers[c] : addr[s] = c}]
  /\ UNCHANGED <<files, who, todo, found, cut>>

LookupScan(p) ==
  /\ pc[p] = "scan"
  /\ todo' = [todo EXCEPT ![p] = markers[at[p]]]
  /\ Moves(p, "check")
  /\ UNCHANGED <<files, found, history>>

\* Variant: the marker is believed.
LookupTrusts(p, s) ==
  /\ pc[p] = "check" /\ s \in todo[p]
  /\ todo' = [todo EXCEPT ![p] = @ \ {s}]
  /\ found' = [found EXCEPT ![p] = @ \cup {s}]
  /\ UNCHANGED <<files, pc, who, at, history>>

\* A marker counts if the address of its session says the same.
LookupCheck(p, s) ==
  /\ pc[p] = "check" /\ s \in todo[p]
  /\ todo' = [todo EXCEPT ![p] = @ \ {s}]
  /\ found' = [found EXCEPT ![p] = IF addr[s] = at[p] THEN @ \cup {s} ELSE @]
  /\ UNCHANGED <<files, pc, who, at, history>>

LookupReturn(p) ==
  /\ pc[p] = "check" /\ todo[p] = {}
  /\ Return(p)
  /\ found' = [found EXCEPT ![p] = {}]
  /\ present' = [present EXCEPT ![p] = {}] /\ steady' = [steady EXCEPT ![p] = {}]
  /\ UNCHANGED <<files, todo, cut>>

-----------------------------------------------------------------------------
Registers(p) ==
  \/ \E s \in Sessions, c \in Cwds \cup {NoCwd} : RegisterCall(p, s, c)
  \/ Publish(p) \/ MakeDir(p) \/ Mark(p) \/ MarkFails(p) \/ PutReceiver(p)

Unregisters(p) ==
  \/ \E s \in Sessions : UnregisterCall(p, s)
  \/ ReadAddress(p) \/ RemoveAddress(p) \/ RemoveReceiver(p) \/ Prune(p) \/ Drop(p)

Looks(p) ==
  \/ \E c \in Cwds : LookupCall(p, c)
  \/ LookupScan(p) \/ LookupReturn(p)
  \/ \E s \in Sessions : LookupCheck(p, s)

Next == \E p \in Procs : Registers(p) \/ Unregisters(p) \/ Looks(p) \/ Crash(p)

Spec == Init /\ [][Next]_vars

-----------------------------------------------------------------------------
\* Properties.

Steps == {"idle", "publish", "mkdir", "mark", "receiver", "read", "remove",
          "forget", "prune", "drop", "scan", "check"}

Places == Cwds \cup {NoCwd, NoAddress}

\* Every variable has its type, and a marker is in a directory that exists.
TypeOK ==
  /\ addr \in [Sessions -> Places]
  /\ dirs \subseteq Cwds /\ receiver \subseteq Sessions /\ cut \subseteq Sessions
  /\ markers \in [Cwds -> SUBSET Sessions]
  /\ \A c \in Cwds \ dirs : markers[c] = {}
  /\ pc \in [Procs -> Steps]
  /\ who \in [Procs -> Sessions \cup {NoSession}]
  /\ at \in [Procs -> Places]
  /\ todo \in [Procs -> SUBSET Sessions] /\ found \in [Procs -> SUBSET Sessions]
  /\ present \in [Procs -> SUBSET Sessions] /\ steady \in [Procs -> SUBSET Sessions]

Busy(s) == \E p \in Registrars : who[p] = s

\* A session whose calls have ended is in the index under the directory of its
\* address, unless its registration was cut short or overtaken by its own
\* unregistration: whatever other sessions do to the same directory, and
\* however often it moves.
RegisteredIsIndexed ==
  \A s \in Sessions : addr[s] \in Cwds =>
     s \in markers[addr[s]] \/ Busy(s) \/ s \in cut

\* Credentials do not outlive the address: an unregistration removes them even
\* if an earlier one was cut short after it had removed the address.
ReceiverHasAddress ==
  \A s \in receiver : addr[s] # NoAddress \/ Busy(s) \/ s \in cut

\* A lookup returns every session that was registered there, and marked, all
\* the while, and no session that never was, however stale the markers are.
LookupExact ==
  \A p \in Lookers : pc[p] = "check" =>
     /\ steady[p] \subseteq found[p] \cup todo[p]
     /\ found[p] \subseteq present[p]

-----------------------------------------------------------------------------
\* Why they hold.  None of the three is inductive: "some call of the session is
\* under way" has to become which call, at which step.

\* A registrar works for a session, and at a directory wherever it touches one;
\* a lookup works for nobody.
Roles ==
  /\ \A p \in Registrars :
       /\ pc[p] \notin {"scan", "check"}
       /\ who[p] \in Sessions <=> pc[p] # "idle"
       /\ pc[p] \in {"mkdir", "mark", "prune", "drop"} => at[p] \in Cwds
       /\ pc[p] = "publish" => at[p] # NoAddress
  /\ \A p \in Lookers :
       /\ pc[p] \in {"idle", "scan", "check"} /\ who[p] = NoSession
       /\ pc[p] # "idle" => at[p] \in Cwds

\* An address without its marker is cut, or has a call that will settle it: one
\* about to mark that very directory, or one about to remove the address.
MarkToCome ==
  \A s \in Sessions : addr[s] \in Cwds =>
     \/ s \in markers[addr[s]] \/ s \in cut
     \/ \E p \in Registrars :
          /\ who[p] = s
          /\ pc[p] = "remove" \/ (pc[p] \in {"mkdir", "mark"} /\ at[p] = addr[s])

\* Credentials without an address are cut, or a call is about to remove them.
RemovalToCome ==
  \A s \in receiver :
     \/ addr[s] # NoAddress \/ s \in cut
     \/ \E p \in Registrars : who[p] = s /\ pc[p] \in {"remove", "forget"}

\* What a lookup will be measured by is true of the files as it goes along.
LookupInStep ==
  \A p \in Lookers :
     /\ pc[p] # "check" => found[p] = {}
     /\ pc[p] # "idle" =>
          /\ \A s \in steady[p] : addr[s] = at[p]
          /\ \A s \in Sessions : addr[s] = at[p] => s \in present[p]
     /\ pc[p] = "scan" => steady[p] \subseteq markers[at[p]]

\* The inductive invariant.
IInv == TypeOK /\ Roles /\ MarkToCome /\ RemovalToCome /\ LookupInStep /\ LookupExact
=============================================================================
