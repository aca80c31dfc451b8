--------------------------- MODULE DeliveryProofs ---------------------------
(***************************************************************************)
(* Proofs about Delivery, for any number of hooks, commands, messages and  *)
(* failures.  IInv of Delivery is inductive; what the hooks and commands   *)
(* promise about bodies and addresses follows from it.                     *)
(***************************************************************************)
EXTENDS Delivery, FiniteSetTheorems, SequenceTheorems, TLAPS

USE DEF mail, host, book, local, Procs, Goto, Unlocks, Fault

-----------------------------------------------------------------------------
\* Listings.

\* What the sequence s names.
In(s) == {s[k] : k \in DOMAIN s}

\* A process that has listed nothing has nothing to claim.
LEMMA EmptyListing ==
  ASSUME NEW S
  PROVE  <<>> \in Seq(S) /\ Distinct(<<>>) /\ In(<<>>) = {}
BY DEF Distinct, In

\* A listing that names nothing is empty.
LEMMA NoMembers ==
  ASSUME NEW S, NEW s \in Seq(S), In(s) = {}
  PROVE  s = <<>>
<1>1. SUFFICES ASSUME s # <<>> PROVE FALSE
  OBVIOUS
<1>2. Len(s) \in Nat \ {0} /\ DOMAIN s = 1 .. Len(s)
  BY <1>1, EmptySeq, LenProperties
<1>3. 1 \in DOMAIN s
  BY <1>2
<1> QED
  BY <1>3 DEF In

\* A listing goes on without its head.
LEMMA TailOf ==
  ASSUME NEW S, NEW s \in Seq(S), Distinct(s), s # <<>>
  PROVE  /\ Head(s) \in S /\ Head(s) \in In(s)
         /\ Tail(s) \in Seq(S) /\ Distinct(Tail(s)) /\ In(Tail(s)) = In(s) \ {Head(s)}
<1>1. /\ Len(s) \in Nat \ {0} /\ DOMAIN s = 1 .. Len(s) /\ Head(s) = s[1]
      /\ Tail(s) \in Seq(S) /\ DOMAIN Tail(s) = 1 .. Len(s) - 1
      /\ \A k \in 1 .. Len(s) - 1 : Tail(s)[k] = s[k + 1]
  BY HeadTailProperties, EmptySeq, LenProperties
<1>2. Distinct(Tail(s))
  BY <1>1 DEF Distinct
<1>3. Head(s) \in S /\ Head(s) \in In(s)
  BY <1>1, ElementOfSeq DEF In
<1>4. ASSUME NEW x PROVE x \in In(Tail(s)) <=> x \in In(s) \ {Head(s)}
  <2>1. CASE x \in In(Tail(s))
    <3>1. PICK k \in 1 .. Len(s) - 1 : x = s[k + 1]
      BY <1>1, <2>1 DEF In
    <3>2. k + 1 \in 1 .. Len(s) /\ k + 1 # 1
      BY <1>1
    <3> QED
      BY <1>1, <2>1, <3>1, <3>2 DEF In, Distinct
  <2>2. CASE x \in In(s) \ {Head(s)}
    <3>1. PICK k \in 1 .. Len(s) : x = s[k]
      BY <1>1, <2>2 DEF In
    <3>2. k - 1 \in 1 .. Len(s) - 1 /\ x = Tail(s)[k - 1]
      BY <1>1, <2>2, <3>1
    <3> QED
      BY <1>1, <2>2, <3>2 DEF In
  <2> QED
    BY <2>1, <2>2
<1> QED
  BY <1>1, <1>2, <1>3, <1>4

\* A new message goes to the end.
LEMMA AppendTo ==
  ASSUME NEW S, NEW s \in Seq(S), Distinct(s), NEW m \in S, m \notin In(s)
  PROVE  /\ Append(s, m) \in Seq(S) /\ Distinct(Append(s, m))
         /\ In(Append(s, m)) = In(s) \cup {m}
<1>1. /\ Len(s) \in Nat /\ DOMAIN s = 1 .. Len(s)
      /\ Append(s, m) \in Seq(S) /\ DOMAIN Append(s, m) = 1 .. Len(s) + 1
      /\ \A k \in 1 .. Len(s) : Append(s, m)[k] = s[k]
      /\ Append(s, m)[Len(s) + 1] = m
  BY AppendProperties, LenProperties
<1>2. Distinct(Append(s, m))
  BY <1>1 DEF Distinct, In
<1>3. In(Append(s, m)) = In(s) \cup {m}
  BY <1>1 DEF In
<1> QED
  BY <1>1, <1>2, <1>3

\* Without takes one message out, and nothing else.
LEMMA WithoutOne ==
  ASSUME NEW S, NEW s \in Seq(S), Distinct(s), NEW m
  PROVE  /\ Without(s, m) \in Seq(S) /\ Distinct(Without(s, m))
         /\ In(Without(s, m)) = In(s) \ {m}
<1>1. Len(s) \in Nat /\ DOMAIN s = 1 .. Len(s) /\ \A k \in 1 .. Len(s) : s[k] \in S
  BY LenProperties, ElementOfSeq
<1>2. CASE \E k \in DOMAIN s : s[k] = m
  <2> DEFINE at == CHOOSE k \in DOMAIN s : s[k] = m
             t == [k \in 1 .. Len(s) - 1 |-> IF k < at THEN s[k] ELSE s[k + 1]]
  <2>1. at \in 1 .. Len(s) /\ s[at] = m
    BY <1>1, <1>2
  <2>2. Without(s, m) = t
    BY <1>2 DEF Without
  <2> HIDE DEF at
  <2>3. /\ Len(s) - 1 \in Nat /\ DOMAIN t = 1 .. Len(s) - 1
        /\ \A k \in 1 .. Len(s) - 1 : t[k] \in S
    BY <1>1, <2>1
  <2>4. t \in Seq(S)
    BY <2>3, IsASeq
  <2>5. Distinct(t)
    <3> SUFFICES ASSUME NEW j \in 1 .. Len(s) - 1, NEW k \in 1 .. Len(s) - 1, t[j] = t[k]
                 PROVE  j = k
      BY <2>3 DEF Distinct
    <3>1. /\ j \in DOMAIN s /\ j + 1 \in DOMAIN s
          /\ k \in DOMAIN s /\ k + 1 \in DOMAIN s
      BY <1>1
    <3> QED
      BY <1>1, <2>1, <3>1 DEF Distinct
  <2>6. ASSUME NEW x PROVE x \in In(t) <=> x \in In(s) \ {m}
    <3>1. CASE x \in In(t)
      <4>1. PICK k \in 1 .. Len(s) - 1 : x = t[k]
        BY <2>3, <3>1 DEF In
      <4>2. k \in DOMAIN s /\ k + 1 \in DOMAIN s
        BY <1>1
      <4> QED
        BY <1>1, <2>1, <3>1, <4>1, <4>2 DEF In, Distinct
    <3>2. CASE x \in In(s) \ {m}
      <4>1. PICK k \in 1 .. Len(s) : x = s[k]
        BY <1>1, <3>2 DEF In
      <4>2. k # at
        BY <2>1, <3>2, <4>1
      <4>3. CASE k < at
        <5>1. k \in 1 .. Len(s) - 1 /\ t[k] = x
          BY <1>1, <2>1, <4>1, <4>3
        <5> QED
          BY <2>3, <3>2, <5>1 DEF In
      <4>4. CASE at < k
        <5>1. k - 1 \in 1 .. Len(s) - 1 /\ t[k - 1] = x
          BY <1>1, <2>1, <4>1, <4>4
        <5> QED
          BY <2>3, <3>2, <5>1 DEF In
      <4> QED
        BY <1>1, <2>1, <4>2, <4>3, <4>4
    <3> QED
      BY <3>1, <3>2
  <2> QED
    BY <2>2, <2>4, <2>5, <2>6
<1>3. CASE ~ \E k \in DOMAIN s : s[k] = m
  BY <1>3 DEF Without, In
<1> QED
  BY <1>2, <1>3

-----------------------------------------------------------------------------
\* What the invariant asks of a step, one part at a time.

\* p's step leaves the locals of every other process alone; their listings may
\* have lost a message that is no longer pending.
OthersKept(p) ==
  \A q \in Procs \ {p} :
     /\ pc'[q] = pc[q] /\ op'[q] = op[q] /\ batch'[q] = batch[q] /\ hold'[q] = hold[q]
     /\ since'[q] \subseteq since[q]

\* p may be where it is afterwards, with the listing it then has.
WellPlaced(p) ==
  /\ p \in Hooks =>
       /\ op'[p] = "hook" /\ pc'[p] \in {"start", "lock", "list", "take", "exited"}
       /\ event # "none"
       /\ pc'[p] \in {"lock", "list", "take"} => Delivers(event)
       /\ hold'[p] # {} => Delivers(event) /\ pc'[p] \in {"take", "exited"}
  /\ p \in Clis => op'[p] # "hook" /\ pc'[p] \notin {"start", "exited"}
  /\ Distinct(batch'[p])
  /\ pc'[p] = "take" => since'[p] \subseteq Listed(p)'
  /\ pc'[p] = "sleep" => since'[p] = {}

\* A step that puts its process where the roles allow keeps the roles and the
\* listings of all.
LEMMA PlacesPreserved ==
  ASSUME TypeOK, Roles, Listings, NEW p \in Procs, OthersKept(p), WellPlaced(p),
         Distinct(queue)', UNCHANGED host
  PROVE  Roles' /\ Listings'
<1>1. \A h \in Hooks : Delivers(event)' <=> Delivers(event)
  BY DEF Delivers
<1>2. Roles'
  BY <1>1, NamesAssumption DEF Roles, OthersKept, WellPlaced, Delivers
<1>3. \A q \in Procs \ {p} : Listed(q)' = Listed(q)
  BY DEF Listed, OthersKept
<1>4. ASSUME NEW q \in Procs
      PROVE  /\ Distinct(batch[q])'
             /\ pc'[q] = "take" => since'[q] \subseteq Listed(q)'
             /\ pc'[q] = "sleep" => since'[q] = {}
  <2>1. CASE q = p
    BY <2>1 DEF WellPlaced
  <2>2. CASE q # p
    BY <1>3, <2>2 DEF Listings, OthersKept
  <2> QED
    BY <2>1, <2>2
<1> QED
  BY <1>2, <1>4 DEF Listings

\* No body changes hands.
LEMMA HandsKept ==
  ASSUME HeldOnce, NothingSwallowed, ShownOnce, UNCHANGED <<claimed, hold, shown, vanished>>
  PROVE  HeldOnce' /\ NothingSwallowed' /\ ShownOnce'
BY DEF HeldOnce, NothingSwallowed, ShownOnce

\* The hooks of an event that have begun go on.
LEMMA AddressKept ==
  ASSUME Addressed, UNCHANGED <<event, address, owed>>,
         \A h \in Hooks : pc[h] = "start" => pc'[h] = "start"
  PROVE  Addressed'
BY DEF Addressed, AddressTrue

\* A step of p that claims nothing, hands nothing over and does not register.
CalmStep(p) ==
  /\ OthersKept(p) /\ WellPlaced(p) /\ pc[p] # "start"
  /\ UNCHANGED <<mail, host, book, hold, shown, vanished>>

\* A step in which no message moves and no event ends keeps the invariant.
LEMMA CalmStepPreserves ==
  ASSUME IInv, NEW p \in Procs, TypeOK', CalmStep(p)
  PROVE  IInv'
<1> USE DEF IInv, CalmStep
<1>1. Roles' /\ Listings'
  BY PlacesPreserved DEF Listings
<1>2. HeldOnce' /\ NothingSwallowed' /\ ShownOnce'
  BY HandsKept
<1>3. Addressed'
  BY AddressKept DEF OthersKept
<1> QED
  BY <1>1, <1>2, <1>3

-----------------------------------------------------------------------------
\* Waiting, listing and coming back with nothing.

\* List leaves out what it cannot read, in the end as a failure.
LEMMA LeavingOut ==
  ASSUME TypeOK, NEW S, LeavesOut(S)
  PROVE  faults' \in 0 .. MaxFaults
BY BoundsAssumption DEF TypeOK, LeavesOut, Fault

\* What List returns names every message but those it leaves out, once.
LEMMA AllButOnce ==
  ASSUME TypeOK, Listings, NEW S, NEW s \in AllBut(S)
  PROVE  s \in Seq(Msgs) /\ Distinct(s) /\ In(s) = Pending \ S
<1>1. PICK n \in 0 .. Len(queue) : s \in [1 .. n -> Pending]
  BY DEF AllBut
<1>2. n \in Nat /\ Pending \subseteq Msgs /\ DOMAIN s = 1 .. n
  BY <1>1 DEF TypeOK, Pending
<1>3. s \in Seq(Msgs)
  BY <1>1, <1>2
<1>4. ASSUME NEW j \in DOMAIN s, NEW k \in DOMAIN s, j < k PROVE s[j] # s[k]
  <2>1. PICK a \in DOMAIN queue, b \in DOMAIN queue :
               a < b /\ queue[a] = s[j] /\ queue[b] = s[k]
    BY <1>4 DEF AllBut, InOrder
  <2>2. a # b
    BY <2>1 DEF TypeOK
  <2> QED
    BY <2>1, <2>2 DEF Listings, Distinct
<1>5. Distinct(s)
  <2>1. \A j, k \in DOMAIN s : j # k => j < k \/ k < j
    BY <1>2
  <2> QED
    BY <1>4, <2>1 DEF Distinct
<1> QED
  BY <1>3, <1>5 DEF AllBut, In

\* A shell command starts, ends its push, waits, looks again or times out.
LEMMA CommandStepPreserves ==
  ASSUME IInv, NEW c \in Clis,
         \/ PushEnds(c) \/ WaitLooks(c) \/ WaitPolls(c) \/ ReceiveCall(c) \/ WaitCall(c)
         \/ TimesOut(c)
  PROVE  IInv'
<1> USE DEF IInv
<1>1. /\ TypeOK /\ Roles /\ Listings /\ c \in Procs /\ c \notin Hooks
      /\ UNCHANGED <<mail, host, book, hold, shown, vanished>>
      /\ Pending' = Pending
  BY NamesAssumption
  DEF PushEnds, WaitLooks, WaitPolls, ReceiveCall, WaitCall, TimesOut, Pending
<1>2. TypeOK'
  <2>1. <<>> \in Seq(Msgs)
    BY EmptyListing
  <2>2. CASE PushEnds(c)
    BY <1>1, <2>1, <2>2 DEF PushEnds, Over, TypeOK
  <2>6. CASE TimesOut(c)
    BY <1>1, <2>1, <2>6 DEF TimesOut, Over, TypeOK
  <2>3. CASE WaitLooks(c)
    <3>1. PICK S \in SUBSET Pending :
            /\ LeavesOut(S)
            /\ \/ /\ pc' = [pc EXCEPT ![c] = "sleep"]
                  /\ since' = [since EXCEPT ![c] = @ \ S]
                  /\ UNCHANGED <<op, batch>>
               \/ Over(c)
      BY <2>3 DEF WaitLooks, Goto
    <3>2. lock' = lock /\ faults' \in 0 .. MaxFaults
      BY <1>1, <2>3, <3>1, LeavingOut DEF WaitLooks
    <3>3. /\ pc' \in [Procs -> {"idle", "start", "lock", "list", "take", "exited", "tell",
                                "look", "sleep", "print"}]
          /\ op' \in [Procs -> CommandNames \cup {"hook", "none"}]
          /\ batch' \in [Procs -> Seq(Msgs)]
          /\ since' \in [Procs -> SUBSET Pending]
      <4>1. CASE Over(c)
        BY <1>1, <2>1, <4>1 DEF Over, TypeOK
      <4>2. CASE /\ pc' = [pc EXCEPT ![c] = "sleep"]
                 /\ since' = [since EXCEPT ![c] = @ \ S]
                 /\ UNCHANGED <<op, batch>>
        <5>1. since[c] \ S \in SUBSET Pending
          BY <1>1 DEF TypeOK
        <5> QED
          BY <1>1, <4>2, <5>1 DEF TypeOK
      <4> QED
        BY <3>1, <4>1, <4>2
    <3> QED
      BY <1>1, <3>2, <3>3 DEF TypeOK
  <2>4. CASE WaitPolls(c)
    BY <1>1, <2>4 DEF WaitPolls, TypeOK
  <2>5. CASE ReceiveCall(c) \/ WaitCall(c)
    BY <1>1, <2>5, ZenonT(60) DEF ReceiveCall, WaitCall, Starts, TypeOK, CommandNames
  <2> QED
    BY <2>2, <2>3, <2>4, <2>5, <2>6
<1>3. OthersKept(c)
  BY <1>1
  DEF PushEnds, WaitLooks, WaitPolls, ReceiveCall, WaitCall, TimesOut, Starts, Over,
      TypeOK, OthersKept
<1>4. WellPlaced(c)
  BY <1>1, EmptyListing
  DEF PushEnds, WaitLooks, WaitPolls, ReceiveCall, WaitCall, TimesOut, Starts, Over,
      TypeOK, Roles, Listings, WellPlaced
<1>5. pc[c] # "start"
  BY <1>1 DEF Roles
<1> QED
  BY <1>1, <1>2, <1>3, <1>4, <1>5, CalmStepPreserves DEF CalmStep

\* ClaimUpTo takes or gives up the lock, lists the mailbox, or misses a message
\* that another has claimed.
LEMMA ClaimingStepPreserves ==
  ASSUME IInv, NEW p \in Procs, Lock(p) \/ GivesUp(p) \/ List(p) \/ Miss(p)
  PROVE  IInv'
<1> USE DEF IInv
<1>1. /\ TypeOK /\ Roles /\ Listings
      /\ UNCHANGED <<mail, host, book, hold, shown, vanished>>
      /\ Pending' = Pending
  BY DEF Lock, GivesUp, List, Miss, Pending
<1>2. CASE Lock(p)
  <2>1. TypeOK'
    BY <1>1, <1>2 DEF Lock, TypeOK
  <2>2. OthersKept(p) /\ pc[p] = "lock" /\ pc'[p] \in {"tell", "list"}
        /\ (op[p] # "push" => pc'[p] = "list")
        /\ op'[p] = op[p] /\ batch'[p] = batch[p] /\ hold'[p] = hold[p]
    BY <1>1, <1>2 DEF Lock, TypeOK, OthersKept
  <2>3. WellPlaced(p)
    BY <1>1, <2>2 DEF Roles, Listings, WellPlaced
  <2> QED
    BY <1>1, <2>1, <2>2, <2>3, CalmStepPreserves DEF CalmStep
<1>3. CASE GivesUp(p)
  <2>1. TypeOK'
    BY <1>1, <1>3, EmptyListing DEF GivesUp, Over, TypeOK
  <2>2. OthersKept(p) /\ pc[p] = "lock" /\ pc'[p] = (IF p \in Hooks THEN "exited" ELSE "idle")
        /\ op'[p] = (IF p \in Hooks THEN op[p] ELSE "none")
        /\ batch'[p] = <<>> /\ hold'[p] = hold[p]
    BY <1>1, <1>3 DEF GivesUp, Over, TypeOK, OthersKept
  <2>3. WellPlaced(p)
    BY <1>1, <2>2, EmptyListing, NamesAssumption DEF Roles, WellPlaced
  <2> QED
    BY <1>1, <2>1, <2>2, <2>3, CalmStepPreserves DEF CalmStep
<1>4. CASE List(p)
  <2>0. PICK S \in SUBSET Pending :
          /\ LeavesOut(S)
          /\ \E s \in AllBut(S) : batch' = [batch EXCEPT ![p] = s]
          /\ since' = [since EXCEPT ![p] = @ \ S]
    BY <1>4 DEF List
  <2>1. PICK s \in AllBut(S) : batch' = [batch EXCEPT ![p] = s]
    BY <2>0
  <2>2. s \in Seq(Msgs) /\ Distinct(s) /\ In(s) = Pending \ S /\ faults' \in 0 .. MaxFaults
    BY <1>1, <2>0, <2>1, AllButOnce, LeavingOut
  <2>3. TypeOK'
    BY <1>1, <1>4, <2>0, <2>1, <2>2 DEF List, TypeOK
  <2>4. /\ OthersKept(p) /\ pc[p] = "list" /\ pc'[p] = "take" /\ op'[p] = op[p]
        /\ batch'[p] = s /\ hold'[p] = hold[p] /\ since'[p] \subseteq Pending \ S
    BY <1>1, <1>4, <2>0, <2>1 DEF List, TypeOK, OthersKept
  <2>5. Listed(p)' = Pending \ S
    BY <2>2, <2>4 DEF Listed, In
  <2>6. WellPlaced(p)
    BY <1>1, <2>2, <2>4, <2>5 DEF Roles, Listings, WellPlaced
  <2> QED
    BY <1>1, <2>3, <2>4, <2>6, CalmStepPreserves DEF CalmStep
<1>5. CASE Miss(p)
  <2>1. /\ batch[p] \in Seq(Msgs) /\ Distinct(batch[p]) /\ batch[p] # <<>>
        /\ Head(batch[p]) \notin Pending /\ pc[p] = "take"
        /\ since[p] \subseteq Listed(p) /\ since[p] \subseteq Pending
    BY <1>1, <1>5 DEF Miss, Wants, TypeOK, Listings
  <2>2. /\ Tail(batch[p]) \in Seq(Msgs) /\ Distinct(Tail(batch[p]))
        /\ In(Tail(batch[p])) = In(batch[p]) \ {Head(batch[p])}
    BY <2>1, TailOf
  <2>3. TypeOK'
    BY <1>1, <1>5, <2>2 DEF Miss, TypeOK
  <2>4. /\ OthersKept(p) /\ pc'[p] = "take" /\ op'[p] = op[p]
        /\ batch'[p] = Tail(batch[p]) /\ hold'[p] = hold[p] /\ since'[p] = since[p]
    BY <1>1, <1>5, <2>1 DEF Miss, TypeOK, OthersKept
  <2>5. Listed(p)' = Listed(p) \ {Head(batch[p])}
    BY <2>2, <2>4 DEF Listed, In
  <2>6. WellPlaced(p)
    BY <1>1, <2>1, <2>2, <2>4, <2>5 DEF Roles, WellPlaced
  <2> QED
    BY <1>1, <2>1, <2>3, <2>4, <2>6, CalmStepPreserves DEF CalmStep
<1> QED
  BY <1>2, <1>3, <1>4, <1>5

-----------------------------------------------------------------------------
\* Registration and the events of the host.

\* A hook registers, unregisters or gives up: the first one to do so leaves the
\* address that its event owes, unless it fails.
LEMMA HookStepPreserves ==
  ASSUME IInv, NEW h \in Hooks, HookStep(h) \/ Skips(h)
  PROVE  IInv'
<1> USE DEF IInv
<1>1. /\ TypeOK /\ Roles /\ Listings /\ h \in Procs /\ h \notin Clis
      /\ UNCHANGED <<mail, lock, host, hold, shown, vanished>>
      /\ pc[h] = "start" /\ event # "none" /\ Pending' = Pending
  BY NamesAssumption
  DEF Roles, HookStep, ClaudeHook, CodexHook, RegisterHook, UnregisterHook, Serves, Skips, Pending
<1>2. /\ OthersKept(h) /\ hold'[h] = hold[h] /\ op'[h] = op[h]
      /\ \/ pc'[h] = "lock" /\ Delivers(event) /\ batch'[h] = batch[h]
         \/ pc'[h] = "exited" /\ batch'[h] = <<>>
  BY <1>1
  DEF HookStep, ClaudeHook, CodexHook, RegisterHook, UnregisterHook, Serves, Skips, Over,
      TypeOK, OthersKept
<1>3. event \in {"SubagentStop", "SessionEnd"} <=> ~Registers(event)
  BY <1>1 DEF TypeOK, Events, Registers, ClaudeRegisters, CodexRegisters
<1>4. \/ event = "SubagentStop" /\ UNCHANGED <<address, owed>>
      \/ Registers(event) /\ address' = "here" /\ owed' = owed
      \/ event = "SessionEnd" /\ address' = "none" /\ owed' = owed
      \/ owed' = "unknown" /\ address' = address
  <2>1. CASE Skips(h)
    BY <2>1 DEF Skips
  <2>2. CASE UnregisterHook(h)
    BY <2>2 DEF UnregisterHook
  <2>3. CASE ClaudeHook(h) \/ CodexHook(h) \/ RegisterHook(h)
    <3>1. Serves(h) /\ event # "SessionEnd"
      BY <2>3 DEF ClaudeHook, CodexHook, RegisterHook, CodexDelivers
    <3>2. CASE Registers(event)
      BY <1>3, <3>1, <3>2 DEF Serves, Registration, PayloadCwd
    <3>3. CASE ~Registers(event)
      BY <1>3, <3>1, <3>3 DEF Serves
    <3> QED
      BY <3>2, <3>3
  <2> QED
    BY <2>1, <2>2, <2>3 DEF HookStep
<1>5. TypeOK'
  <2>1. /\ pc' \in [Procs -> {"idle", "start", "lock", "list", "take", "exited", "tell",
                      "look", "sleep", "print"}]
        /\ op' \in [Procs -> CommandNames \cup {"hook", "none"}]
        /\ batch' \in [Procs -> Seq(Msgs)]
        /\ since' \in [Procs -> SUBSET Pending]
    <3>1. <<>> \in Seq(Msgs)
      BY EmptyListing
    <3>2. Over(h) \/ (pc' = [pc EXCEPT ![h] = "lock"] /\ UNCHANGED <<op, batch, since>>)
      BY DEF HookStep, ClaudeHook, CodexHook, RegisterHook, UnregisterHook, Serves, Skips
    <3>3. CASE Over(h)
      BY <1>1, <3>1, <3>3 DEF Over, TypeOK
    <3>4. CASE pc' = [pc EXCEPT ![h] = "lock"] /\ UNCHANGED <<op, batch, since>>
      BY <1>1, <3>4 DEF TypeOK
    <3> QED
      BY <3>2, <3>3, <3>4
  <2>2. address' \in Places /\ owed' \in Places \cup {"unknown"}
    BY <1>1, <1>4 DEF TypeOK, Places
  <2>3. faults' \in 0 .. MaxFaults
    BY <1>1, BoundsAssumption
    DEF HookStep, ClaudeHook, CodexHook, RegisterHook, UnregisterHook, Serves, Skips,
        Registration, TypeOK
  <2> QED
    BY <1>1, <2>1, <2>2, <2>3 DEF TypeOK
<1>6. Roles' /\ Listings'
  <2>1. hold[h] = {}
    BY <1>1 DEF Roles
  <2>2. WellPlaced(h)
    BY <1>1, <1>2, <2>1, EmptyListing DEF Roles, Listings, WellPlaced
  <2> QED
    BY <1>1, <1>2, <2>2, PlacesPreserved DEF Listings
<1>7. HeldOnce' /\ NothingSwallowed' /\ ShownOnce'
  BY <1>1, HandsKept
<1>8. Addressed'
  BY <1>1, <1>3, <1>4 DEF Addressed, AddressTrue
<1> QED
  BY <1>5, <1>6, <1>7, <1>8

\* An event begins: its hooks have everything before them.
LEMMA FirePreserves ==
  ASSUME IInv, NEW e \in Events, Fire(e)
  PROVE  IInv'
<1> USE DEF IInv
<1>1. /\ TypeOK /\ Roles /\ Listings /\ event = "none" /\ event' = e /\ e # "none"
      /\ UNCHANGED <<mail, lock, agent, noBlock, address, op, batch, hold, shown, vanished, faults>>
      /\ owed' = Owed(e) /\ Pending' = Pending
  BY DEF Fire, Pending, Events
<1>2. /\ \A h \in Hooks : pc'[h] = "start" /\ since'[h] = Pending /\ hold[h] = {}
      /\ \A c \in Clis : pc'[c] = pc[c] /\ since'[c] = since[c]
  BY <1>1, NamesAssumption DEF Fire, TypeOK, Roles
<1>3. TypeOK'
  <2>1. owed' \in Places \cup {"unknown"}
    BY <1>1 DEF Owed, TypeOK, Places
  <2> QED
    BY <1>1, <2>1 DEF Fire, TypeOK
<1>4. Roles'
  BY <1>1, <1>2 DEF Roles
<1>5. Listings'
  <2>1. \A p \in Procs : Listed(p)' = Listed(p)
    BY <1>1 DEF Listed
  <2> QED
    BY <1>1, <1>2, <2>1 DEF Listings
<1>6. HeldOnce' /\ NothingSwallowed' /\ ShownOnce'
  BY <1>1, HandsKept
<1>7. Addressed'
  BY <1>1, <1>2 DEF Addressed, AddressTrue, Owed, Events
<1> QED
  BY <1>3, <1>4, <1>5, <1>6, <1>7

\* The session changes its directory while no hook runs.
LEMMA ChangeDirPreserves ==
  ASSUME IInv, ChangeDir
  PROVE  IInv'
<1> USE DEF IInv
<1>1. /\ TypeOK /\ event = "none"
      /\ UNCHANGED <<mail, lock, host, local, shown, vanished, since, faults>>
      /\ Pending' = Pending /\ \A p \in Procs : Listed(p)' = Listed(p)
  BY DEF ChangeDir, Pending, Listed
<1>2. TypeOK'
  BY <1>1 DEF ChangeDir, TypeOK, Places
<1>3. Roles' /\ Listings'
  BY <1>1 DEF Roles, Listings, Delivers
<1>4. HeldOnce' /\ NothingSwallowed' /\ ShownOnce'
  BY <1>1, HandsKept
<1>5. Addressed'
  BY <1>1 DEF ChangeDir, Addressed, AddressTrue
<1> QED
  BY <1>2, <1>3, <1>4, <1>5

-----------------------------------------------------------------------------
\* Bodies are claimed.

\* A claim takes a message that nobody has been shown into one hand.
LEMMA ClaimPreserves ==
  ASSUME TypeOK, HeldOnce, NothingSwallowed, ShownOnce, Listings,
         NEW p \in Procs, NEW m \in Pending, Claims(p, m), UNCHANGED <<shown, vanished>>
  PROVE  /\ HeldOnce' /\ NothingSwallowed' /\ ShownOnce'
         /\ queue' \in Seq(Msgs) /\ Distinct(queue)' /\ Pending' = Pending \ {m}
         /\ claimed' \subseteq Msgs \ Pending' /\ vanished' \subseteq claimed'
         /\ hold' \in [Procs -> SUBSET claimed'] /\ hold'[p] = hold[p] \cup {m}
         /\ since' \in [Procs -> SUBSET Pending']
         /\ \A q \in Procs : since'[q] = since[q] \ {m} /\ (q # p => hold'[q] = hold[q])
<1>1. /\ m \in Msgs /\ m \notin claimed /\ shown[m] = 0
      /\ claimed' = claimed \cup {m} /\ queue' = Without(queue, m)
  BY ElementOfSeq, LenProperties DEF TypeOK, Pending, Claims, Leaves, HeldOnce
<1>2. /\ queue' \in Seq(Msgs) /\ Distinct(queue)' /\ Pending' = Pending \ {m}
  <2>1. queue \in Seq(Msgs) /\ Distinct(queue)
    BY DEF TypeOK, Listings
  <2>2. /\ Without(queue, m) \in Seq(Msgs) /\ Distinct(Without(queue, m))
        /\ In(Without(queue, m)) = In(queue) \ {m}
    BY <2>1, WithoutOne
  <2> QED
    BY <1>1, <2>2 DEF Pending, In
<1>3. /\ hold'[p] = hold[p] \cup {m} /\ hold' \in [Procs -> SUBSET claimed']
      /\ \A q \in Procs : q # p => hold'[q] = hold[q]
  BY <1>1 DEF Claims, TypeOK
<1>4. since' \in [Procs -> SUBSET Pending'] /\ \A q \in Procs : since'[q] = since[q] \ {m}
  BY <1>2 DEF Claims, Leaves, TypeOK
<1>5. HeldOnce'
  <2>1. \A q \in Procs : IsFiniteSet(hold'[q])
    <3>1. IsFiniteSet(hold[p] \cup {m})
      BY FS_AddElement DEF HeldOnce
    <3> QED
      BY <1>3, <3>1 DEF HeldOnce
  <2>2. \A q, r \in Procs : q # r => hold'[q] \cap hold'[r] = {}
    <3>1. \A q \in Procs : m \notin hold[q]
      BY <1>1 DEF TypeOK
    <3>2. \A q, r \in Procs : q # r => hold[q] \cap hold[r] = {}
      BY DEF HeldOnce
    <3> QED
      BY <1>3, <3>1, <3>2
  <2>3. \A q \in Procs : \A n \in hold'[q] : shown[n] = 0
    BY <1>1, <1>3 DEF HeldOnce
  <2> QED
    BY <1>1, <2>1, <2>2, <2>3 DEF HeldOnce
<1>6. NothingSwallowed'
  BY <1>1, <1>3 DEF NothingSwallowed
<1>7. ShownOnce'
  BY DEF ShownOnce
<1> QED
  BY <1>1, <1>2, <1>3, <1>4, <1>5, <1>6, <1>7 DEF TypeOK

\* ClaimUpTo claims the next message of its listing.
LEMMA TakePreserves ==
  ASSUME IInv, NEW p \in Procs, Take(p)
  PROVE  IInv'
<1> USE DEF IInv
<1> DEFINE m == Head(batch[p])
<1>1. /\ TypeOK /\ Roles /\ Listings /\ pc[p] = "take" /\ m \in Pending /\ Claims(p, m)
      /\ UNCHANGED <<lock, host, book, pc, op, shown, vanished, faults>>
      /\ batch[p] \in Seq(Msgs) /\ batch[p] # <<>> /\ Distinct(batch[p])
      /\ since[p] \subseteq Listed(p)
  BY DEF Take, Wants, TypeOK, Listings
<1>2. /\ Tail(batch[p]) \in Seq(Msgs) /\ Distinct(Tail(batch[p]))
      /\ In(Tail(batch[p])) = In(batch[p]) \ {m}
  BY <1>1, TailOf
<1>3. batch' = [batch EXCEPT ![p] = Tail(batch[p])]
  BY DEF Take
<1> HIDE DEF m
<1>4. /\ HeldOnce' /\ NothingSwallowed' /\ ShownOnce'
      /\ queue' \in Seq(Msgs) /\ Distinct(queue)' /\ Pending' = Pending \ {m}
      /\ claimed' \subseteq Msgs \ Pending' /\ vanished' \subseteq claimed'
      /\ hold' \in [Procs -> SUBSET claimed'] /\ hold'[p] = hold[p] \cup {m}
      /\ since' \in [Procs -> SUBSET Pending']
      /\ \A q \in Procs : since'[q] = since[q] \ {m} /\ (q # p => hold'[q] = hold[q])
  BY <1>1, ClaimPreserves
<1>5. TypeOK'
  BY <1>1, <1>2, <1>3, <1>4 DEF TypeOK
<1>6. OthersKept(p) /\ batch'[p] = Tail(batch[p])
  BY <1>1, <1>3, <1>4 DEF TypeOK, OthersKept
<1>7. Listed(p)' = Listed(p) \ {m}
  BY <1>2, <1>6 DEF Listed, In
<1>8. WellPlaced(p)
  BY <1>1, <1>2, <1>4, <1>6, <1>7 DEF Roles, WellPlaced
<1>9. Roles' /\ Listings'
  BY <1>1, <1>4, <1>6, <1>8, PlacesPreserved
<1>10. Addressed'
  BY <1>1, AddressKept
<1> QED
  BY <1>4, <1>5, <1>9, <1>10

\* The command take claims a message by its id.
LEMMA TakeCallPreserves ==
  ASSUME IInv, NEW c \in Clis, NEW m \in Msgs, TakeCall(c, m)
  PROVE  IInv'
<1> USE DEF IInv
<1>1. /\ TypeOK /\ Roles /\ Listings /\ c \in Procs /\ c \notin Hooks
      /\ m \in Pending /\ Claims(c, m)
      /\ UNCHANGED <<lock, host, book, batch, shown, vanished, faults>>
  BY NamesAssumption DEF TakeCall
<1>2. /\ HeldOnce' /\ NothingSwallowed' /\ ShownOnce'
      /\ queue' \in Seq(Msgs) /\ Distinct(queue)' /\ Pending' = Pending \ {m}
      /\ claimed' \subseteq Msgs \ Pending' /\ vanished' \subseteq claimed'
      /\ hold' \in [Procs -> SUBSET claimed'] /\ hold'[c] = hold[c] \cup {m}
      /\ since' \in [Procs -> SUBSET Pending']
      /\ \A q \in Procs : since'[q] = since[q] \ {m} /\ (q # c => hold'[q] = hold[q])
  BY <1>1, ClaimPreserves
<1>3. TypeOK'
  BY <1>1, <1>2 DEF TakeCall, Starts, TypeOK, CommandNames
<1>4. OthersKept(c) /\ pc'[c] = "print" /\ op'[c] = "take" /\ batch'[c] = batch[c]
  BY <1>1, <1>2 DEF TakeCall, Starts, TypeOK, OthersKept
<1>5. WellPlaced(c)
  BY <1>1, <1>4 DEF Listings, WellPlaced
<1>6. Roles' /\ Listings'
  BY <1>1, <1>2, <1>4, <1>5, PlacesPreserved
<1>7. Addressed'
  BY <1>1, <1>4, NamesAssumption, AddressKept DEF OthersKept
<1> QED
  BY <1>2, <1>3, <1>6, <1>7

-----------------------------------------------------------------------------
\* Bodies are handed over.

\* p keeps what it holds, hands over all of it, or loses it; what it moved to
\* claimed/ without getting hold of it has vanished.
HandsOver(p) ==
  \/ hold' = hold /\ shown' = shown
  \/ hold' = [hold EXCEPT ![p] = {}] /\ Shows(hold[p])
  \/ hold' = [hold EXCEPT ![p] = {}] /\ shown' = shown /\ hold[p] \subseteq vanished'

\* What a process hands over at once was in its hand only, so nobody has shown it
\* before.
LEMMA HandOverPreserves ==
  ASSUME TypeOK, HeldOnce, NothingSwallowed, ShownOnce, NEW p \in Procs, HandsOver(p),
         claimed \subseteq claimed', vanished \subseteq vanished',
         claimed' \subseteq claimed \cup vanished'
  PROVE  /\ HeldOnce' /\ NothingSwallowed' /\ ShownOnce'
         /\ hold' \in [Procs -> SUBSET claimed'] /\ shown' \in [Msgs -> Nat]
         /\ hold'[p] \subseteq hold[p] /\ \A q \in Procs \ {p} : hold'[q] = hold[q]
<1>1. /\ hold' \in [Procs -> SUBSET claimed']
      /\ \A q \in Procs \ {p} : hold'[q] = hold[q]
      /\ (hold'[p] = hold[p] /\ shown' = shown) \/ hold'[p] = {}
  BY DEF HandsOver, TypeOK
<1>2. /\ shown' \in [Msgs -> Nat]
      /\ \A m \in Msgs : shown'[m] # shown[m] =>
           m \in hold[p] /\ hold'[p] = {} /\ shown[m] = 0 /\ shown'[m] = 1
  BY DEF HandsOver, Shows, TypeOK, HeldOnce
<1>3. HeldOnce'
  <2>1. \A q \in Procs : IsFiniteSet(hold'[q])
    BY <1>1, FS_EmptySet DEF HeldOnce
  <2>2. \A q, r \in Procs : q # r => hold'[q] \cap hold'[r] = {}
    BY <1>1 DEF HeldOnce
  <2>3. ASSUME NEW q \in Procs, NEW m \in hold'[q] PROVE shown'[m] = 0
    <3>1. m \in Msgs /\ m \in hold[q] /\ shown[m] = 0
      BY <1>1, <2>3 DEF HeldOnce, TypeOK
    <3> QED
      BY <1>1, <1>2, <2>3, <3>1 DEF HeldOnce
  <2>4. \A m \in Msgs : shown'[m] # 0 => m \in claimed'
    BY <1>2 DEF HeldOnce, TypeOK
  <2> QED
    BY <2>1, <2>2, <2>3, <2>4 DEF HeldOnce
<1>4. NothingSwallowed'
  <2> SUFFICES ASSUME NEW m \in claimed', m \notin vanished', \A q \in Procs : m \notin hold'[q]
               PROVE  shown'[m] > 0
    BY DEF NothingSwallowed
  <2>1. m \in claimed /\ m \in Msgs /\ m \notin vanished
    BY DEF TypeOK
  <2>2. CASE shown[m] > 0
    <3>1. shown[m] \in Nat /\ (shown'[m] = shown[m] \/ shown'[m] = 1)
      BY <1>2, <2>1 DEF TypeOK
    <3> QED
      BY <2>2, <3>1
  <2>3. CASE m \in hold[p]
    BY <1>1, <2>1, <2>3 DEF HandsOver, Shows, TypeOK
  <2> QED
    BY <1>1, <2>1, <2>2, <2>3 DEF NothingSwallowed
<1>5. ShownOnce'
  BY <1>2 DEF ShownOnce
<1> QED
  BY <1>1, <1>2, <1>3, <1>4, <1>5

\* A receive that failed has lost nothing of what it had claimed: wait --take
\* claims one at a time, and had none.
LEMMA SalvagesAll ==
  ASSUME HeldOnce, NEW p \in Procs, Wants(p)
  PROVE  Salvaged(p) = hold[p]
<1>1. CASE op[p] = "waitTake"
  <2>1. Cardinality(hold[p]) < 1 /\ IsFiniteSet(hold[p])
    BY <1>1 DEF Wants, Quota, HeldOnce
  <2>2. Cardinality(hold[p]) \in Nat
    BY <2>1, FS_CardinalityType
  <2>3. hold[p] = {}
    BY <2>1, <2>2, FS_EmptySet
  <2> QED
    BY <1>1, <2>3 DEF Salvaged
<1>2. CASE op[p] # "waitTake"
  BY <1>2 DEF Salvaged
<1> QED
  BY <1>1, <1>2

\* A return hands over all that was claimed, or leaves it to the hook to do so.
LEMMA ReturnsAll ==
  ASSUME TypeOK, NEW p \in Procs, Returns(p, hold[p])
  PROVE  HandsOver(p) /\ (op[p] = "hook" => hold' = hold)
BY DEF Returns, HandsOver, TypeOK

\* A batch is complete, or the listing is used up.
LEMMA DonePreserves ==
  ASSUME IInv, NEW p \in Procs, Done(p)
  PROVE  IInv'
<1> USE DEF IInv
<1>1. /\ TypeOK /\ Roles /\ Listings /\ HeldOnce /\ pc[p] = "take" /\ ~Wants(p)
      /\ Returns(p, hold[p]) /\ UNCHANGED <<mail, host, book, vanished, faults>>
      /\ Pending' = Pending
  BY DEF Done, Pending
<1>2. HandsOver(p)
  BY <1>1, ReturnsAll
<1>3. /\ HeldOnce' /\ NothingSwallowed' /\ ShownOnce'
      /\ hold' \in [Procs -> SUBSET claimed'] /\ shown' \in [Msgs -> Nat]
      /\ hold'[p] \subseteq hold[p] /\ \A q \in Procs \ {p} : hold'[q] = hold[q]
  BY <1>1, <1>2, HandOverPreserves
<1>4. CASE op[p] = "waitTake" /\ hold[p] = {}
  <2>1. batch[p] = <<>>
    <3>1. Cardinality(hold[p]) < Quota(p)
      BY <1>4, FS_EmptySet DEF Quota
    <3> QED
      BY <1>1, <3>1 DEF Wants
  <2>2. since[p] = {}
    BY <1>1, <2>1 DEF Listings, Listed
  <2>3. pc' = [pc EXCEPT ![p] = "sleep"] /\ UNCHANGED <<op, batch, since>>
    BY <1>4 DEF Done
  <2>4. TypeOK'
    BY <1>1, <1>3, <2>3 DEF Returns, TypeOK
  <2>5. OthersKept(p) /\ pc'[p] = "sleep" /\ p \notin Hooks
    BY <1>1, <1>3, <1>4, <2>3 DEF OthersKept, TypeOK, Roles
  <2>6. WellPlaced(p)
    BY <1>1, <1>4, <2>2, <2>3, <2>5 DEF Listings, WellPlaced
  <2> QED
    BY <1>1, <1>3, <2>4, <2>5, <2>6, PlacesPreserved, AddressKept DEF OthersKept, Listings
<1>5. CASE ~(op[p] = "waitTake" /\ hold[p] = {})
  <2>1. Over(p) /\ <<>> \in Seq(Msgs)
    BY <1>5, EmptyListing DEF Done
  <2>2. TypeOK'
    BY <1>1, <1>3, <2>1 DEF Returns, Over, TypeOK
  <2>3. /\ OthersKept(p) /\ pc'[p] = (IF p \in Hooks THEN "exited" ELSE "idle")
        /\ op'[p] = (IF p \in Hooks THEN op[p] ELSE "none") /\ batch'[p] = <<>>
    BY <1>1, <1>3, <2>1 DEF OthersKept, Over, TypeOK
  <2>4. WellPlaced(p)
    BY <1>1, <1>3, <2>3, EmptyListing, NamesAssumption DEF Roles, WellPlaced
  <2> QED
    BY <1>1, <1>3, <2>2, <2>3, <2>4, PlacesPreserved, AddressKept DEF OthersKept, Listings
<1> QED
  BY <1>4, <1>5

\* The deadline ends a batch; what is claimed already is handed over.
LEMMA ExpiresPreserves ==
  ASSUME IInv, NEW p \in Procs, Expires(p)
  PROVE  IInv'
<1> USE DEF IInv
<1>1. /\ TypeOK /\ Roles /\ Listings /\ HeldOnce /\ pc[p] = "take"
      /\ Returns(p, hold[p]) /\ Over(p) /\ <<>> \in Seq(Msgs)
      /\ UNCHANGED <<mail, host, book, vanished>> /\ Pending' = Pending
  BY SalvagesAll, EmptyListing DEF Expires, Wants, Pending
<1>2. HandsOver(p)
  BY <1>1, ReturnsAll
<1>3. /\ HeldOnce' /\ NothingSwallowed' /\ ShownOnce'
      /\ hold' \in [Procs -> SUBSET claimed'] /\ shown' \in [Msgs -> Nat]
      /\ hold'[p] \subseteq hold[p] /\ \A q \in Procs \ {p} : hold'[q] = hold[q]
  BY <1>1, <1>2, HandOverPreserves
<1>4. TypeOK'
  <2>1. faults' \in 0 .. MaxFaults
    BY <1>1, BoundsAssumption DEF Expires, TypeOK
  <2> QED
    BY <1>1, <1>3, <2>1 DEF Returns, Over, TypeOK
<1>5. /\ OthersKept(p) /\ pc'[p] = (IF p \in Hooks THEN "exited" ELSE "idle")
      /\ op'[p] = (IF p \in Hooks THEN op[p] ELSE "none") /\ batch'[p] = <<>>
  BY <1>1, <1>3 DEF OthersKept, Over, TypeOK
<1>6. WellPlaced(p)
  BY <1>1, <1>3, <1>5, EmptyListing, NamesAssumption DEF Roles, WellPlaced
<1> QED
  BY <1>1, <1>3, <1>4, <1>5, <1>6, PlacesPreserved, AddressKept DEF OthersKept, Listings

\* A claimed message that cannot be read is lost; what was claimed before it is
\* handed over.
LEMMA UnreadablePreserves ==
  ASSUME IInv, NEW p \in Procs, Unreadable(p)
  PROVE  IInv'
<1> USE DEF IInv
<1> DEFINE m == Head(batch[p])
<1>1. /\ TypeOK /\ Roles /\ Listings /\ HeldOnce /\ pc[p] = "take" /\ m \in Pending
      /\ Returns(p, hold[p]) /\ <<>> \in Seq(Msgs)
      /\ queue' = Without(queue, m) /\ claimed' = claimed \cup {m}
      /\ vanished' = vanished \cup {m} /\ UNCHANGED <<host, book>>
      /\ pc' = [pc EXCEPT ![p] = IF p \in Hooks THEN "exited" ELSE "idle"]
      /\ op' = [op EXCEPT ![p] = IF p \in Hooks THEN @ ELSE "none"]
      /\ batch' = [batch EXCEPT ![p] = <<>>]
      /\ since' = [q \in Procs |-> IF q = p THEN {} ELSE since[q] \ {m}]
      /\ faults' = faults + 1 /\ faults < MaxFaults
  BY SalvagesAll, EmptyListing DEF Unreadable, Wants
<1> HIDE DEF m
<1>2. queue' \in Seq(Msgs) /\ Distinct(queue)' /\ Pending' = Pending \ {m} /\ m \in Msgs
  <2>1. queue \in Seq(Msgs) /\ Distinct(queue)
    BY <1>1 DEF TypeOK, Listings
  <2>2. /\ Without(queue, m) \in Seq(Msgs) /\ Distinct(Without(queue, m))
        /\ In(Without(queue, m)) = In(queue) \ {m}
    BY <2>1, WithoutOne
  <2>3. m \in Msgs
    BY <1>1, <2>1, ElementOfSeq, LenProperties DEF Pending
  <2> QED
    BY <1>1, <2>2, <2>3 DEF Pending, In
<1>3. HandsOver(p)
  BY <1>1, ReturnsAll
<1>4. /\ HeldOnce' /\ NothingSwallowed' /\ ShownOnce'
      /\ hold' \in [Procs -> SUBSET claimed'] /\ shown' \in [Msgs -> Nat]
      /\ hold'[p] \subseteq hold[p] /\ \A q \in Procs \ {p} : hold'[q] = hold[q]
  BY <1>1, <1>3, HandOverPreserves
<1>5. TypeOK'
  <2>1. faults' \in 0 .. MaxFaults
    BY <1>1, BoundsAssumption DEF TypeOK
  <2> QED
    BY <1>1, <1>2, <1>4, <2>1 DEF Returns, TypeOK
<1>6. /\ OthersKept(p) /\ pc'[p] = (IF p \in Hooks THEN "exited" ELSE "idle")
      /\ op'[p] = (IF p \in Hooks THEN op[p] ELSE "none") /\ batch'[p] = <<>>
  BY <1>1, <1>4 DEF OthersKept, TypeOK
<1>7. WellPlaced(p)
  BY <1>1, <1>4, <1>6, EmptyListing, NamesAssumption DEF Roles, WellPlaced
<1> QED
  BY <1>1, <1>2, <1>4, <1>5, <1>6, <1>7, PlacesPreserved, AddressKept DEF OthersKept

\* The command take prints its message.
LEMMA TakePrintsPreserves ==
  ASSUME IInv, NEW c \in Clis, TakePrints(c)
  PROVE  IInv'
<1> USE DEF IInv
<1>1. /\ TypeOK /\ Roles /\ Listings /\ c \in Procs /\ c \notin Hooks /\ HandsOver(c)
      /\ Over(c) /\ <<>> \in Seq(Msgs)
      /\ UNCHANGED <<mail, lock, host, book, vanished, faults>> /\ Pending' = Pending
  BY EmptyListing, NamesAssumption DEF TakePrints, HandsOver, Pending
<1>2. /\ HeldOnce' /\ NothingSwallowed' /\ ShownOnce'
      /\ hold' \in [Procs -> SUBSET claimed'] /\ shown' \in [Msgs -> Nat]
      /\ hold'[c] \subseteq hold[c] /\ \A q \in Procs \ {c} : hold'[q] = hold[q]
  BY <1>1, HandOverPreserves
<1>3. TypeOK'
  BY <1>1, <1>2 DEF Over, TypeOK
<1>4. OthersKept(c) /\ pc'[c] = "idle" /\ op'[c] = "none" /\ batch'[c] = <<>>
  BY <1>1, <1>2 DEF OthersKept, Over, TypeOK
<1>5. WellPlaced(c)
  BY <1>1, <1>4, EmptyListing DEF WellPlaced
<1> QED
  BY <1>1, <1>2, <1>3, <1>4, <1>5, PlacesPreserved, AddressKept
  DEF OthersKept, Listings, Roles

\* A process that is killed takes what it holds with it.
LEMMA KillPreserves ==
  ASSUME IInv, NEW p \in Procs, Kill(p)
  PROVE  IInv'
<1> USE DEF IInv
<1>1. /\ TypeOK /\ Roles /\ Listings /\ HandsOver(p) /\ pc[p] # "idle"
      /\ Over(p) /\ <<>> \in Seq(Msgs) /\ hold' = [hold EXCEPT ![p] = {}]
      /\ vanished' = vanished \cup hold[p] /\ faults' = faults + 1 /\ faults < MaxFaults
      /\ UNCHANGED <<mail, host, address, shown>> /\ Pending' = Pending
  BY EmptyListing DEF Kill, HandsOver, Pending
<1>2. /\ HeldOnce' /\ NothingSwallowed' /\ ShownOnce'
      /\ hold' \in [Procs -> SUBSET claimed'] /\ shown' \in [Msgs -> Nat]
      /\ hold'[p] = {} /\ \A q \in Procs \ {p} : hold'[q] = hold[q]
  BY <1>1, HandOverPreserves DEF TypeOK
<1>3. TypeOK'
  <2>1. faults' \in 0 .. MaxFaults /\ owed' \in Places \cup {"unknown"}
    BY <1>1, BoundsAssumption DEF Kill, TypeOK
  <2>2. lock' \in Procs \cup {Nobody} /\ vanished' \subseteq claimed'
    BY <1>1 DEF Kill, TypeOK
  <2> QED
    BY <1>1, <1>2, <2>1, <2>2 DEF Over, TypeOK
<1>4. /\ OthersKept(p) /\ pc'[p] = (IF p \in Hooks THEN "exited" ELSE "idle")
      /\ op'[p] = (IF p \in Hooks THEN op[p] ELSE "none") /\ batch'[p] = <<>>
  BY <1>1, <1>2 DEF OthersKept, Over, TypeOK
<1>5. WellPlaced(p)
  BY <1>1, <1>2, <1>4, EmptyListing, NamesAssumption DEF Roles, WellPlaced
<1>6. Addressed'
  <2>1. CASE p \in Hooks
    <3>1. owed' = "unknown" /\ UNCHANGED event
      BY <1>1, <2>1 DEF Kill
    <3> QED
      BY <3>1 DEF Addressed, AddressTrue
  <2>2. CASE p \notin Hooks
    <3>1. UNCHANGED <<event, address, owed>>
      BY <1>1, <2>2 DEF Kill
    <3> QED
      BY <1>4, <2>2, <3>1, AddressKept DEF OthersKept
  <2> QED
    BY <2>1, <2>2
<1> QED
  BY <1>1, <1>2, <1>3, <1>4, <1>5, <1>6, PlacesPreserved DEF Listings

\* The host shows what its hooks printed: a hook that holds bodies runs at an
\* event whose output is visible.
LEMMA CollectPreserves ==
  ASSUME IInv, Collect
  PROVE  IInv'
<1> USE DEF IInv
<1> DEFINE M == UNION {hold[h] : h \in Hooks}
<1>1. /\ TypeOK /\ Roles /\ Listings /\ HeldOnce /\ event # "none" /\ event' = "none"
      /\ \A h \in Hooks : pc[h] = "exited"
      /\ UNCHANGED <<mail, lock, agent, noBlock, book, op, batch, vanished, since, faults>>
      /\ Pending' = Pending /\ \A p \in Procs : Listed(p)' = Listed(p)
  BY DEF Collect, Pending, Listed
<1>2. Delivers(event) => Visible(event)
  BY DEF Delivers, Visible, ClaudeDelivers, CodexDelivers, Events
<1>3. shown' = [m \in Msgs |-> IF m \in M THEN shown[m] + 1 ELSE shown[m]]
  <2>1. CASE Visible(event)
    BY <2>1 DEF Collect, Shows
  <2>2. CASE ~Visible(event)
    <3>1. M = {}
      BY <1>1, <1>2, <2>2 DEF Roles
    <3> QED
      BY <2>2, <3>1 DEF Collect, Shows
  <2> QED
    BY <2>1, <2>2
<1>4. /\ \A h \in Hooks : pc'[h] = "idle" /\ hold'[h] = {}
      /\ \A c \in Clis : pc'[c] = pc[c] /\ hold'[c] = hold[c]
  BY NamesAssumption DEF Collect
<1>5. /\ shown' \in [Msgs -> Nat]
      /\ \A m \in Msgs : IF m \in M THEN shown[m] = 0 /\ shown'[m] = 1 ELSE shown'[m] = shown[m]
      /\ M \subseteq claimed /\ claimed \subseteq Msgs
  BY <1>1, <1>3 DEF TypeOK, HeldOnce
<1>6. TypeOK'
  <2>1. /\ pc' \in [Procs -> {"idle", "start", "lock", "list", "take", "exited", "tell",
                              "look", "sleep", "print"}]
        /\ hold' \in [Procs -> SUBSET claimed']
    BY <1>1 DEF Collect, TypeOK
  <2>2. phase' \in {"away", "idle", "working"} /\ active' \in BOOLEAN
    BY <1>1 DEF Collect, PhaseAfter, TypeOK
  <2> QED
    BY <1>1, <1>5, <2>1, <2>2 DEF TypeOK
<1>7. Roles'
  BY <1>1, <1>4 DEF Roles
<1>8. Listings'
  BY <1>1, <1>4, NamesAssumption DEF Listings
<1>9. HeldOnce'
  <2>1. \A c \in Clis : \A m \in hold[c] : m \notin M
    BY <1>1, NamesAssumption DEF HeldOnce
  <2>2. \A p \in Procs : IsFiniteSet(hold'[p])
    BY <1>1, <1>4, FS_EmptySet DEF HeldOnce
  <2>3. \A p, q \in Procs : p # q => hold'[p] \cap hold'[q] = {}
    BY <1>1, <1>4 DEF HeldOnce
  <2>4. \A p \in Procs : \A m \in hold'[p] : shown'[m] = 0
    BY <1>1, <1>4, <1>5, <2>1 DEF HeldOnce, TypeOK
  <2>5. \A m \in Msgs : shown'[m] # 0 => m \in claimed'
    BY <1>1, <1>5 DEF HeldOnce
  <2> QED
    BY <2>2, <2>3, <2>4, <2>5 DEF HeldOnce
<1>10. NothingSwallowed'
  <2> SUFFICES ASSUME NEW m \in claimed, m \notin vanished, \A p \in Procs : m \notin hold'[p]
               PROVE  shown'[m] > 0
    BY <1>1 DEF NothingSwallowed
  <2>1. CASE m \in M
    BY <1>5, <2>1
  <2>2. CASE m \notin M
    BY <1>4, <1>5, <2>2 DEF NothingSwallowed
  <2> QED
    BY <2>1, <2>2
<1>11. ShownOnce'
  BY <1>5 DEF ShownOnce
<1>12. Addressed'
  BY <1>1 DEF Addressed, AddressTrue
<1> QED
  BY <1>6, <1>7, <1>8, <1>9, <1>10, <1>11, <1>12

-----------------------------------------------------------------------------
\* Messages come, and are finished with.

\* A push puts a message in the mailbox.
LEMMA PushStoresPreserves ==
  ASSUME IInv, NEW c \in Clis, NEW m \in Msgs, PushStores(c, m)
  PROVE  IInv'
<1> USE DEF IInv
<1>1. /\ TypeOK /\ Roles /\ Listings /\ c \in Procs /\ c \notin Hooks
      /\ m \notin Pending \cup claimed /\ queue' = Append(queue, m)
      /\ UNCHANGED <<claimed, lock, host, book, batch, hold, shown, vanished, since, faults>>
  BY NamesAssumption DEF PushStores
<1>2. queue' \in Seq(Msgs) /\ Distinct(queue)' /\ Pending' = Pending \cup {m}
  <2>1. queue \in Seq(Msgs) /\ Distinct(queue) /\ m \notin In(queue)
    BY <1>1 DEF TypeOK, Listings, Pending, In
  <2>2. /\ Append(queue, m) \in Seq(Msgs) /\ Distinct(Append(queue, m))
        /\ In(Append(queue, m)) = In(queue) \cup {m}
    BY <2>1, AppendTo
  <2> QED
    BY <1>1, <2>2 DEF Pending, In
<1>3. TypeOK'
  BY <1>1, <1>2 DEF PushStores, Starts, TypeOK, CommandNames
<1>4. OthersKept(c) /\ pc'[c] = "lock" /\ op'[c] = "push" /\ batch'[c] = batch[c]
  BY <1>1 DEF PushStores, Starts, TypeOK, OthersKept
<1>5. WellPlaced(c)
  BY <1>1, <1>4 DEF Listings, WellPlaced
<1> QED
  BY <1>1, <1>2, <1>3, <1>4, <1>5, PlacesPreserved, HandsKept, AddressKept
  DEF OthersKept, Roles

\* ack frees the name of a message that nobody has in hand.
LEMMA AckPreserves ==
  ASSUME IInv, NEW c \in Clis, NEW m \in Msgs, Ack(c, m)
  PROVE  IInv'
<1> USE DEF IInv
<1>1. /\ TypeOK /\ Roles /\ Listings /\ HeldOnce /\ \A p \in Procs : m \notin hold[p]
      /\ queue' = Without(queue, m) /\ claimed' = claimed \ {m} /\ vanished' = vanished \ {m}
      /\ since' = [p \in Procs |-> since[p] \ {m}]
      /\ batch' = [p \in Procs |-> Without(batch[p], m)]
      /\ shown' = [shown EXCEPT ![m] = 0]
      /\ UNCHANGED <<lock, host, book, pc, op, hold, faults>>
  BY DEF Ack, Leaves
<1>2. queue' \in Seq(Msgs) /\ Distinct(queue)' /\ Pending' = Pending \ {m}
  <2>1. queue \in Seq(Msgs) /\ Distinct(queue)
    BY <1>1 DEF TypeOK, Listings
  <2>2. /\ Without(queue, m) \in Seq(Msgs) /\ Distinct(Without(queue, m))
        /\ In(Without(queue, m)) = In(queue) \ {m}
    BY <2>1, WithoutOne
  <2> QED
    BY <1>1, <2>2 DEF Pending, In
<1>3. ASSUME NEW p \in Procs
      PROVE  /\ batch'[p] = Without(batch[p], m) /\ batch'[p] \in Seq(Msgs)
             /\ Distinct(batch[p])' /\ Listed(p)' = Listed(p) \ {m}
  <2>1. batch[p] \in Seq(Msgs) /\ Distinct(batch[p])
    BY <1>1 DEF TypeOK, Listings
  <2>2. /\ Without(batch[p], m) \in Seq(Msgs) /\ Distinct(Without(batch[p], m))
        /\ In(Without(batch[p], m)) = In(batch[p]) \ {m}
    BY <2>1, WithoutOne
  <2>3. batch'[p] = Without(batch[p], m)
    BY <1>1
  <2> QED
    BY <2>2, <2>3 DEF Listed, In
<1>4. TypeOK'
  <2>1. batch' \in [Procs -> Seq(Msgs)]
    BY <1>1, <1>3
  <2>2. hold' \in [Procs -> SUBSET claimed'] /\ since' \in [Procs -> SUBSET Pending']
    BY <1>1, <1>2 DEF TypeOK
  <2>3. /\ shown' \in [Msgs -> Nat] /\ vanished' \subseteq claimed'
        /\ claimed' \subseteq Msgs \ Pending'
    BY <1>1, <1>2 DEF TypeOK
  <2> QED
    BY <1>1, <1>2, <2>1, <2>2, <2>3 DEF TypeOK
<1>5. Roles'
  BY <1>1 DEF Roles, Delivers
<1>6. Listings'
  BY <1>1, <1>2, <1>3 DEF Listings
<1>7. HeldOnce' /\ NothingSwallowed' /\ ShownOnce'
  <2>1. \A n \in Msgs : shown'[n] = IF n = m THEN 0 ELSE shown[n]
    BY <1>1 DEF TypeOK
  <2>2. claimed \subseteq Msgs /\ \A p \in Procs : hold[p] \subseteq Msgs
    BY <1>1 DEF TypeOK
  <2> QED
    BY <1>1, <2>1, <2>2 DEF HeldOnce, NothingSwallowed, ShownOnce
<1>8. Addressed'
  BY <1>1, AddressKept
<1> QED
  BY <1>4, <1>5, <1>6, <1>7, <1>8

-----------------------------------------------------------------------------
\* The theorems.

\* The invariant holds at first.
LEMMA InitInvariant == ASSUME Init PROVE IInv
<1> USE DEF Init
<1>1. <<>> \in Seq(Msgs) /\ Distinct(<<>>) /\ Pending = {}
  BY EmptyListing DEF Pending
<1>2. TypeOK
  <2>1. /\ agent \in Agents /\ noBlock \in NoBlocks /\ active \in BOOLEAN
        /\ phase \in {"away", "idle", "working"} /\ event \in Events \cup {"none"}
        /\ address \in Places /\ owed \in Places \cup {"unknown"}
    BY DEF Places
  <2>2. /\ queue \in Seq(Msgs) /\ batch \in [Procs -> Seq(Msgs)]
        /\ claimed \subseteq Msgs \ Pending /\ vanished \subseteq claimed
        /\ hold \in [Procs -> SUBSET claimed] /\ since \in [Procs -> SUBSET Pending]
        /\ shown \in [Msgs -> Nat] /\ faults \in 0 .. MaxFaults
    BY <1>1, BoundsAssumption
  <2>3. /\ lock \in Procs \cup {Nobody}
        /\ pc \in [Procs -> {"idle", "start", "lock", "list", "take", "exited", "tell",
                             "look", "sleep", "print"}]
        /\ op \in [Procs -> CommandNames \cup {"hook", "none"}]
    OBVIOUS
  <2> QED
    BY <2>1, <2>2, <2>3 DEF TypeOK
<1>3. Roles
  BY NamesAssumption DEF Roles
<1>4. HeldOnce /\ NothingSwallowed /\ ShownOnce
  BY FS_EmptySet DEF HeldOnce, NothingSwallowed, ShownOnce
<1>5. Listings
  BY <1>1 DEF Listings
<1>6. Addressed
  BY DEF Addressed, AddressTrue
<1> QED
  BY <1>2, <1>3, <1>4, <1>5, <1>6 DEF IInv

\* Every step of a hook, a command or the host keeps the invariant.
LEMMA StepInvariant == ASSUME IInv, [Next]_vars PROVE IInv'
<1>1. CASE \/ \E e \in Events : Fire(e)
           \/ Collect
           \/ ChangeDir
  BY <1>1, FirePreserves, CollectPreserves, ChangeDirPreserves
<1>2. ASSUME NEW h \in Hooks, HookStep(h) \/ Skips(h) PROVE IInv'
  BY <1>2, HookStepPreserves
<1>3. ASSUME NEW p \in Procs, Claiming(p) PROVE IInv'
  BY <1>3, ClaimingStepPreserves, TakePreserves, DonePreserves DEF Claiming
<1>4. ASSUME NEW p \in Procs, Expires(p) \/ Unreadable(p) \/ Kill(p) PROVE IInv'
  BY <1>4, ExpiresPreserves, UnreadablePreserves, KillPreserves
<1>5. ASSUME NEW c \in Clis, CliStep(c) \/ ReceiveCall(c) \/ WaitCall(c) \/ TimesOut(c)
      PROVE  IInv'
  BY <1>5, CommandStepPreserves, TakePrintsPreserves DEF CliStep
<1>6. ASSUME NEW c \in Clis, NEW m \in Msgs, PushStores(c, m) \/ TakeCall(c, m) \/ Ack(c, m)
      PROVE  IInv'
  BY <1>6, PushStoresPreserves, TakeCallPreserves, AckPreserves
<1>7. CASE UNCHANGED vars
  <2>1. Pending' = Pending /\ \A p \in Procs : Listed(p)' = Listed(p)
    BY <1>7 DEF vars, Pending, Listed
  <2>2. TypeOK'
    BY <1>7, <2>1 DEF vars, IInv, TypeOK
  <2>3. Roles' /\ Listings'
    BY <1>7, <2>1 DEF vars, IInv, Roles, Listings, Delivers
  <2>4. HeldOnce' /\ NothingSwallowed' /\ ShownOnce' /\ Addressed'
    BY <1>7 DEF vars, IInv, HeldOnce, NothingSwallowed, ShownOnce, Addressed, AddressTrue
  <2> QED
    BY <2>2, <2>3, <2>4 DEF IInv
<1> QED
  BY <1>1, <1>2, <1>3, <1>4, <1>5, <1>6, <1>7 DEF Next

\* The inductive invariant of Delivery: the roles and places of the processes, who
\* holds what, what a listing owes, and where the session is addressed.
THEOREM Invariance == Spec => []IInv
<1> QED
  BY InitInvariant, StepInvariant, PTL DEF Spec

\* Hooks and commands that run at once, fail or are killed between their claims
\* never hand a body over twice.
THEOREM BodiesAreShownOnce == Spec => []ShownOnce
<1>1. IInv => ShownOnce
  BY DEF IInv
<1> QED
  BY <1>1, Invariance, PTL

\* A body that was claimed is handed over, in hand, or lost with the process that
\* was killed or could not read it.
THEOREM NoBodyIsSwallowed == Spec => []NothingSwallowed
<1>1. IInv => NothingSwallowed
  BY DEF IInv
<1> QED
  BY <1>1, Invariance, PTL

\* A receive that comes back with less than it asked for has left nothing that
\* was pending when it began.
THEOREM ReceivesAreComplete == Spec => []DrainsWhatItSaw
<1>1. IInv => DrainsWhatItSaw
  BY DEF IInv, Listings, Listed, DrainsWhatItSaw
<1> QED
  BY <1>1, Invariance, PTL

\* A session with a hook installed has the address that its last event left.
THEOREM AddressIsTrue ==
  ASSUME Hooks # {}
  PROVE  Spec => []AddressTrue
<1>1. IInv => AddressTrue
  BY DEF IInv, Addressed
<1> QED
  BY <1>1, Invariance, PTL
=============================================================================
