---------------------------- MODULE ListingProofs ----------------------------
(***************************************************************************)
(* Proofs about Listing, for any number of sessions, mailboxes, messages,   *)
(* directories and changes: the counts of a listing miss no message, and a  *)
(* session that does not change is listed where it is, the ones reported    *)
(* last first.  IInv of Listing is the inductive invariant.                *)
(***************************************************************************)
EXTENDS Listing, FiniteSetTheorems, SequenceTheorems, TLAPS

USE DEF world, listing

-----------------------------------------------------------------------------
\* The order of the rows.

\* A session has been heard of when the last of its times says.
LEMMA HeardIsLast ==
  ASSUME TypeOK, NEW s \in Sessions
  PROVE  LET T == {rows[s].last, read[s].seen}
                  \cup (IF rows[s].known THEN {} ELSE {read[s].updated})
         IN  Heard(s) \in T /\ Heard(s) \in Nat /\ \A n \in T : n <= Heard(s)
<1> DEFINE T == {rows[s].last, read[s].seen}
                \cup (IF rows[s].known THEN {} ELSE {read[s].updated})
<1>1. rows[s].last \in Nat /\ read[s].seen \in Nat /\ read[s].updated \in Nat
  BY TargetsAssumption, BoundsAssumption
     DEF TypeOK, Records, Addresses, Times, Targets
<1>2. \E n \in T : \A k \in T : k <= n
  <2>1. \E n \in {rows[s].last, read[s].seen} : n >= rows[s].last /\ n >= read[s].seen
    BY <1>1
  <2>2. PICK n \in {rows[s].last, read[s].seen} : n >= rows[s].last /\ n >= read[s].seen
    BY <2>1
  <2>3. CASE rows[s].known \/ n >= read[s].updated
    BY <2>2, <2>3, <1>1
  <2>4. CASE ~rows[s].known /\ ~(n >= read[s].updated)
    BY <2>2, <2>4, <1>1
  <2> QED
    BY <2>3, <2>4
<1>3. Heard(s) = Newest(T)
  BY DEF Heard
<1>4. Newest(T) \in T /\ \A k \in T : k <= Newest(T)
  BY <1>2 DEF Newest
<1> HIDE DEF T
<1>5. T \subseteq Nat
  BY <1>1 DEF T
<1> QED
  BY <1>3, <1>4, <1>5 DEF T

\* The rows have one order.
LEMMA BeforeOrders ==
  ASSUME TypeOK, NEW s \in Sessions, NEW t \in Sessions, NEW u \in Sessions
  PROVE  /\ ~Before(s, s)
         /\ Before(s, t) /\ Before(t, u) => Before(s, u)
         /\ s # t => Before(s, t) \/ Before(t, s)
<1>1. Heard(s) \in Nat /\ Heard(t) \in Nat /\ Heard(u) \in Nat
  BY HeardIsLast
<1>2. s \in Nat /\ t \in Nat /\ u \in Nat
  BY TargetsAssumption DEF Targets
<1> QED
  BY <1>1, <1>2 DEF Before

\* The rank of a row is a place in the list, and a row that comes before another
\* has the lower one.
LEMMA RankOfRow ==
  ASSUME TypeOK, NEW S \in SUBSET Sessions, NEW s \in S
  PROVE  /\ IsFiniteSet(S) /\ Cardinality(S) \in Nat
         /\ Ahead(S, s) \in 0 .. Cardinality(S) - 1
         /\ \A t \in S : Before(s, t) => Ahead(S, s) < Ahead(S, t)
<1> DEFINE First(t) == {u \in S : Before(u, t)}
<1>1. IsFiniteSet(S)
  BY TargetsAssumption, FS_Subset
<1>2. \A A \in SUBSET S : /\ IsFiniteSet(A) /\ Cardinality(A) \in Nat
                          /\ \A B \in SUBSET A : /\ Cardinality(B) \in Nat
                               /\ B # A => Cardinality(B) < Cardinality(A)
  <2> TAKE A \in SUBSET S
  <2>1. IsFiniteSet(A) /\ Cardinality(A) \in Nat
    BY <1>1, FS_Subset, FS_CardinalityType
  <2>2. ASSUME NEW B \in SUBSET A
        PROVE  Cardinality(B) \in Nat /\ (B # A => Cardinality(B) < Cardinality(A))
    <3>1. IsFiniteSet(B) /\ Cardinality(B) \in Nat /\ Cardinality(B) <= Cardinality(A)
          /\ (Cardinality(B) = Cardinality(A) => A = B)
      BY <2>1, FS_Subset, FS_CardinalityType
    <3> QED
      BY <3>1, <2>1
  <2> QED
    BY <2>1, <2>2
<1>3. First(s) \in SUBSET S /\ First(s) # S
  BY BeforeOrders
<1>4. Ahead(S, s) \in 0 .. Cardinality(S) - 1
  <2>1. Cardinality(First(s)) \in Nat /\ Cardinality(S) \in Nat
        /\ Cardinality(First(s)) < Cardinality(S)
    BY <1>2, <1>3
  <2> QED
    BY <2>1 DEF Ahead
<1>5. ASSUME NEW t \in S, Before(s, t) PROVE Ahead(S, s) < Ahead(S, t)
  <2>1. First(s) \subseteq First(t)
    BY <1>5, BeforeOrders
  <2>2. s \in First(t) /\ s \notin First(s)
    BY <1>5, BeforeOrders
  <2>3. Cardinality(First(s)) < Cardinality(First(t))
    BY <2>1, <2>2, <1>2
  <2> QED
    BY <2>3 DEF Ahead
<1> QED
  BY <1>1, <1>2, <1>4, <1>5

\* Every place has its row.
LEMMA RowOfRank ==
  ASSUME TypeOK, NEW S \in SUBSET Sessions, NEW k \in 1 .. Cardinality(S)
  PROVE  \E s \in S : Ahead(S, s) = k - 1
<1> DEFINE n == Cardinality(S)
           f == [s \in S |-> Ahead(S, s) + 1]
<1>1. IsFiniteSet(S) /\ n \in Nat
  BY TargetsAssumption, FS_Subset, FS_CardinalityType
<1>2. IsFiniteSet(1 .. n) /\ Cardinality(1 .. n) = n
  <2>1. Cardinality(1 .. n) = IF 1 > n THEN 0 ELSE n - 1 + 1
    BY <1>1, FS_Interval
  <2> QED
    BY <2>1, <1>1, FS_Interval
<1>3. \A s, t \in S : /\ Ahead(S, s) \in 0 .. n - 1
                      /\ Ahead(S, s) = Ahead(S, t) => s = t
  BY <1>1, RankOfRow, BeforeOrders
<1>4. f \in Injection(S, 1 .. n)
  <2>1. \A s \in S : f[s] \in 1 .. n
    BY <1>1, <1>3
  <2>2. ASSUME NEW s \in S, NEW t \in S, f[s] = f[t] PROVE s = t
    <3>1. Ahead(S, s) + 1 = Ahead(S, t) + 1
      BY <2>2
    <3>2. Ahead(S, s) \in Nat /\ Ahead(S, t) \in Nat
      BY <1>1, <1>3
    <3> QED
      BY <3>1, <3>2, <1>3
  <2> QED
    BY <2>1, <2>2 DEF Injection, IsInjective
<1>5. f \in Surjection(S, 1 .. n)
  BY <1>1, <1>2, <1>4, FS_Injection
<1>6. PICK s \in S : f[s] = k
  BY <1>5 DEF Surjection
<1>7. Ahead(S, s) + 1 = k /\ Ahead(S, s) \in Nat
  BY <1>1, <1>3, <1>6
<1> QED
  BY <1>7

\* Sorted lists every session of a set, once, at the place of its rank.
LEMMA SortedByRank ==
  ASSUME TypeOK, NEW S \in SUBSET Sessions
  PROVE  /\ Sorted(S) \in Seq(S) /\ Len(Sorted(S)) = Cardinality(S)
         /\ Cardinality(S) \in Nat
         /\ \A k \in 1 .. Cardinality(S) :
              Sorted(S)[k] \in S /\ Ahead(S, Sorted(S)[k]) = k - 1
         /\ \A s \in S : /\ Ahead(S, s) + 1 \in 1 .. Cardinality(S)
                         /\ Sorted(S)[Ahead(S, s) + 1] = s
<1>1. Cardinality(S) \in Nat
  BY TargetsAssumption, FS_Subset, FS_CardinalityType
<1>2. \A k \in 1 .. Cardinality(S) :
        Sorted(S)[k] \in S /\ Ahead(S, Sorted(S)[k]) = k - 1
  BY RowOfRank DEF Sorted
<1>3. Sorted(S) \in [1 .. Cardinality(S) -> S]
  BY <1>2 DEF Sorted
<1>4. Sorted(S) \in Seq(S) /\ Len(Sorted(S)) = Cardinality(S)
  <2>1. Sorted(S) \in Seq(S)
    BY <1>1, <1>3, SeqDef
  <2>2. DOMAIN Sorted(S) = 1 .. Cardinality(S)
    BY DEF Sorted
  <2> QED
    BY <1>1, <2>1, <2>2, LenProperties
<1>5. ASSUME NEW s \in S
      PROVE  /\ Ahead(S, s) + 1 \in 1 .. Cardinality(S)
             /\ Sorted(S)[Ahead(S, s) + 1] = s
  <2>1. Ahead(S, s) \in 0 .. Cardinality(S) - 1
    BY RankOfRow
  <2> DEFINE t == Sorted(S)[Ahead(S, s) + 1]
  <2>2. Ahead(S, s) + 1 \in 1 .. Cardinality(S) /\ Ahead(S, s) + 1 - 1 = Ahead(S, s)
    BY <1>1, <2>1
  <2>3. t \in S /\ Ahead(S, t) = Ahead(S, s)
    <3>1. PICK k \in 1 .. Cardinality(S) : k = Ahead(S, s) + 1
      BY <2>2
    <3>2. Sorted(S)[k] \in S /\ Ahead(S, Sorted(S)[k]) = k - 1
      BY <1>2
    <3>3. k - 1 = Ahead(S, s)
      BY <1>1, <2>1, <3>1
    <3> QED
      BY <3>1, <3>2, <3>3, Zenon
  <2> HIDE DEF t
  <2>4. ~Before(s, t) /\ ~Before(t, s)
    <3>1. Ahead(S, s) \in Nat
      BY <1>1, <2>1
    <3>2. Before(s, t) => Ahead(S, s) < Ahead(S, t)
      BY <2>3, RankOfRow
    <3>3. Before(t, s) => Ahead(S, t) < Ahead(S, s)
      BY <2>3, RankOfRow
    <3> QED
      BY <2>3, <3>1, <3>2, <3>3
  <2>5. s = t
    BY <2>3, <2>4, BeforeOrders
  <2> QED
    BY <2>2, <2>5 DEF t
<1> QED
  BY <1>1, <1>2, <1>4, <1>5

\* The result holds the rows of the filter in their order, all of them or as many
\* as the limit allows.
LEMMA JoinByRank ==
  ASSUME TypeOK, NEW cwd, NEW limit \in Nat
  PROVE  LET S == Chosen(cwd)
             n == Cardinality(S)
             J == Join(cwd, limit)
         IN  /\ S \in SUBSET Sessions /\ n \in Nat
             /\ J \in Seq(Sessions)
             /\ Len(J) = IF limit > 0 /\ n > limit THEN limit ELSE n
             /\ \A k \in DOMAIN J : J[k] \in S /\ Ahead(S, J[k]) = k - 1
             /\ \A s \in S : Ahead(S, s) \in Nat
             /\ \A s \in S : Ahead(S, s) < Len(J) => Ahead(S, s) + 1 \in DOMAIN J
                                                     /\ J[Ahead(S, s) + 1] = s
<1> DEFINE S == Chosen(cwd)
           n == Cardinality(S)
           q == Sorted(S)
           J == Join(cwd, limit)
<1>1. S \in SUBSET Sessions
  BY DEF Chosen, Listed
<1>2. J = IF limit > 0 /\ Len(q) > limit THEN SubSeq(q, 1, limit) ELSE q
  BY DEF Join
<1> HIDE DEF S
<1>3. /\ q \in Seq(S) /\ Len(q) = n /\ n \in Nat
      /\ \A k \in 1 .. n : q[k] \in S /\ Ahead(S, q[k]) = k - 1
      /\ \A s \in S : Ahead(S, s) + 1 \in 1 .. n /\ q[Ahead(S, s) + 1] = s
  BY <1>1, SortedByRank
<1>4. \A s \in S : Ahead(S, s) \in Nat
  BY <1>1, <1>3, RankOfRow
<1> HIDE DEF q, J, n
<1>5. /\ J \in Seq(S)
      /\ Len(J) = IF limit > 0 /\ n > limit THEN limit ELSE n
      /\ \A k \in 1 .. Len(J) : J[k] = q[k]
  <2>1. CASE limit > 0 /\ n > limit
    <3>1. J = SubSeq(q, 1, limit) /\ limit \in 1 .. Len(q)
      BY <1>2, <1>3, <2>1
    <3>2. 1 \in 1 .. Len(q) + 1
      BY <1>3
    <3>3. /\ J \in Seq(S) /\ Len(J) = limit
          /\ \A k \in 1 .. limit - 1 + 1 : J[k] = q[1 + k - 1]
      BY <1>3, <3>1, <3>2
    <3> QED
      BY <2>1, <3>3
  <2>2. CASE ~(limit > 0 /\ n > limit)
    BY <1>2, <1>3, <2>2
  <2> QED
    BY <2>1, <2>2
<1>6. DOMAIN J = 1 .. Len(J) /\ Len(J) \in Nat /\ Len(J) <= n
  BY <1>3, <1>5
<1>7. J \in Seq(Sessions)
  BY <1>1, <1>5
<1>8. \A k \in DOMAIN J : J[k] \in S /\ Ahead(S, J[k]) = k - 1
  BY <1>3, <1>5, <1>6
<1>9. ASSUME NEW s \in S, Ahead(S, s) < Len(J)
      PROVE  Ahead(S, s) + 1 \in DOMAIN J /\ J[Ahead(S, s) + 1] = s
  <2>1. Ahead(S, s) + 1 \in DOMAIN J
    BY <1>4, <1>6, <1>9
  <2> QED
    BY <1>3, <1>5, <1>6, <2>1
<1>10. S = Chosen(cwd) /\ n = Cardinality(S) /\ J = Join(cwd, limit)
  BY DEF S, n, J
<1> QED
  BY <1>1, <1>3, <1>4, <1>5, <1>7, <1>8, <1>9, <1>10

\* The result depends on what the listing has read, and on nothing else.
LEMMA JoinFrame ==
  ASSUME UNCHANGED <<rows, read>>, NEW cwd, NEW limit
  PROVE  Join(cwd, limit)' = Join(cwd, limit)
<1>1. \A s \in Sessions : Heard(s)' = Heard(s)
  BY DEF Heard
<1>2. \A s, t \in Sessions : Before(s, t)' <=> Before(s, t)
  BY <1>1 DEF Before
<1>3. Chosen(cwd)' = Chosen(cwd) /\ Chosen(cwd) \subseteq Sessions
  BY DEF Chosen, Listed, Cwd, Snapshot
<1> DEFINE S == Chosen(cwd)
<1>4. \A s \in S : Ahead(S, s)' = Ahead(S, s)
  BY <1>2, <1>3 DEF Ahead
<1>5. Sorted(S)' = Sorted(S)
  BY <1>3, <1>4 DEF Sorted
<1> QED
  BY <1>5 DEF Join

\* A row of the result is there once, and there are no more than the limit.
LEMMA JoinLists ==
  ASSUME TypeOK, NEW cwd, NEW limit \in Nat
  PROVE  LET J == Join(cwd, limit)
         IN  /\ J \in Seq(Sessions) /\ \A j, k \in DOMAIN J : J[j] = J[k] => j = k
             /\ limit = 0 \/ Len(J) <= limit
<1> DEFINE S == Chosen(cwd)
           J == Join(cwd, limit)
<1>1. /\ J \in Seq(Sessions) /\ Cardinality(S) \in Nat
      /\ Len(J) = IF limit > 0 /\ Cardinality(S) > limit THEN limit ELSE Cardinality(S)
      /\ \A k \in DOMAIN J : J[k] \in S /\ Ahead(S, J[k]) = k - 1
  BY JoinByRank
<1> HIDE DEF S, J
<1>2. DOMAIN J \subseteq Nat
  BY <1>1
<1>3. ASSUME NEW j \in DOMAIN J, NEW k \in DOMAIN J, J[j] = J[k] PROVE j = k
  <2>1. j - 1 = k - 1
    BY <1>1, <1>3
  <2> QED
    BY <1>2, <2>1
<1>4. limit = 0 \/ Len(J) <= limit
  BY <1>1
<1> QED
  BY <1>1, <1>3, <1>4 DEF J

-----------------------------------------------------------------------------
\* The inductive invariant.

\* What is recorded of a session without a snapshot is a report, or none.
LEMMA RecordedType ==
  ASSUME IInv, NEW t \in Targets
  PROVE  Recorded(t) \in [time : Times, cwds : SUBSET Cwds]
<1>1. TypeOK /\ Reported
  BY DEF IInv
<1>2. CASE t \in Sessions /\ file[t].known
  BY <1>1, <1>2 DEF Recorded, TypeOK, Records, Reported
<1>3. CASE ~(t \in Sessions /\ file[t].known)
  BY <1>3, BoundsAssumption DEF Recorded, Times
<1> QED
  BY <1>2, <1>3

\* The types, and what a listing has read being a part of what was there.
LEMMA StepTypeOK == ASSUME IInv, [Next]_vars PROVE TypeOK'
<1>t. TypeOK
  BY DEF IInv
<1>j. \A c, n : n \in Nat =>
        /\ Join(c, n) \in Seq(Sessions)
        /\ \A j, k \in DOMAIN Join(c, n) : Join(c, n)[j] = Join(c, n)[k] => j = k
        /\ n = 0 \/ Len(Join(c, n)) <= n
  BY <1>t, JoinLists
<1> USE TargetsAssumption, BoundsAssumption DEF TypeOK, Times, Records, Addresses
<1>1. ASSUME NEW t \in Targets, NEW c \in Cwds, Works(t, c) PROVE TypeOK'
  <2>1. file' \in [Sessions -> Records]
    BY <1>t, <1>1 DEF Works
  <2>2. report' \in [Targets -> [time : Times, cwds : SUBSET Cwds]]
    BY <1>t, <1>1 DEF Works, Reports
  <2>3. changes' \in 0 .. MaxChanges
    BY <1>t, <1>1 DEF Works, Change
  <2> QED
    BY <1>t, <1>1, <2>1, <2>2, <2>3 DEF Works, Unsettles
<1>2. ASSUME NEW t \in Targets, NEW c \in Cwds, NEW snapshot \in BOOLEAN,
             Registers(t, c, snapshot)
      PROVE  TypeOK'
  <2>1. addr' \in [Targets -> Addresses]
    BY <1>t, <1>2 DEF Registers
  <2>2. report' \in [Targets -> [time : Times, cwds : SUBSET Cwds]]
    <3>1. CASE snapshot
      <4>1. Reports(t, c)
        BY <1>2, <3>1 DEF Registers
      <4> QED
        BY <1>t, <4>1 DEF Reports
    <3>2. CASE ~snapshot
      <4>1. report' = [report EXCEPT ![t] = Recorded(t)]
        BY <1>2, <3>2 DEF Registers
      <4>2. Recorded(t) \in [time : Times, cwds : SUBSET Cwds]
        BY RecordedType
      <4> QED
        BY <1>t, <4>1, <4>2
    <3> QED
      BY <3>1, <3>2
  <2>3. changes' \in 0 .. MaxChanges
    BY <1>t, <1>2 DEF Registers, Change
  <2> QED
    BY <1>t, <1>2, <2>1, <2>2, <2>3 DEF Registers, Unsettles
<1>3. ASSUME NEW t \in Targets, Unregisters(t) PROVE TypeOK'
  <2>1. addr' \in [Targets -> Addresses]
    BY <1>t, <1>3 DEF Unregisters, NoAddress
  <2>2. report' \in [Targets -> [time : Times, cwds : SUBSET Cwds]]
    <3>1. report' = [report EXCEPT ![t] = Recorded(t)]
      BY <1>3 DEF Unregisters
    <3>2. Recorded(t) \in [time : Times, cwds : SUBSET Cwds]
      BY RecordedType
    <3> QED
      BY <1>t, <3>1, <3>2
  <2>3. changes' \in 0 .. MaxChanges
    BY <1>t, <1>3 DEF Unregisters, Change
  <2> QED
    BY <1>t, <1>3, <2>1, <2>2, <2>3 DEF Unregisters, Unsettles
<1>4. ASSUME NEW m \in Msgs, Push(m) \/ Take(m) \/ Ack(m) PROVE TypeOK'
  <2>1. place' \in [Msgs -> {"none", "pending", "claimed", "done"}]
    BY <1>t, <1>4 DEF Push, Take, Ack, Moves
  <2>2. changes' \in 0 .. MaxChanges
    BY <1>t, <1>4 DEF Push, Take, Ack, Moves, Change
  <2>3. {n \in Msgs : place[n] # "none"} \subseteq {n \in Msgs : place'[n] # "none"}
    BY <1>t, <1>4 DEF Push, Take, Ack, Moves
  <2>4. /\ boxes' = boxes \cup {To[m]} /\ To[m] \in Targets
        /\ UNCHANGED <<file, addr, now, report, listing, steady>>
    BY <1>4 DEF Push, Take, Ack, Moves
  <2> QED
    BY <1>t, <2>1, <2>2, <2>3, <2>4
<1>5. CASE Tick
  BY <1>t, <1>5 DEF Tick
<1>6. ASSUME NEW command \in {"sessions", "targets"}, Call(command) PROVE TypeOK'
  BY <1>t, <1>6 DEF Call, Steps
<1>7. CASE Discover \/ Walk
  BY <1>t, <1>7 DEF Discover, Walk, Steps
<1>8. ASSUME NEW t \in Targets, NextBox(t) PROVE TypeOK'
  BY <1>t, <1>8 DEF NextBox, Steps
<1>9. ASSUME NEW d \in {"pending", "claimed", "done"}, Count(d) PROVE TypeOK'
  BY <1>t, <1>9 DEF Count, After, Steps
<1>10. CASE ReadAddress \/ ReadAddressFails
  BY <1>t, <1>10 DEF ReadAddress, ReadAddressFails, Steps
<1>11. ASSUME NEW c \in Cwds \cup {AllDirs}, NEW n \in Limits, Prints(c, n) PROVE TypeOK'
  <2>1. n \in Nat
    OBVIOUS
  <2>2. /\ out' \in Seq(Sessions) /\ \A j, k \in DOMAIN out' : out'[j] = out'[k] => j = k
        /\ n = 0 \/ Len(out') <= n
    <3>1. CASE query.command = "sessions"
      BY <1>11, <1>j, <2>1, <3>1 DEF Prints
    <3>2. CASE query.command # "sessions"
      BY <1>11, <2>1, <3>2 DEF Prints
    <3> QED
      BY <3>1, <3>2
  <2> QED
    BY <1>t, <1>11, <2>1, <2>2 DEF Prints, Steps
<1>12. CASE Return
  BY <1>t, <1>12 DEF Return, NoQuery, Unknown, NoAddress, Steps
<1>13. CASE UNCHANGED vars
  BY <1>t, <1>13 DEF vars
<1> QED
  BY <1>1, <1>2, <1>3, <1>4, <1>5, <1>6, <1>7, <1>8, <1>9, <1>10, <1>11, <1>12, <1>13
     DEF Next, Lists, Changes

\* Messages and addresses are put in the directory of their mailbox, which is never
\* removed.
LEMMA StepHoused == ASSUME IInv, [Next]_vars PROVE Housed'
<1> USE DEF Housed
<1>i. TypeOK /\ Housed
  BY DEF IInv
<1>1. ASSUME NEW t \in Targets, NEW c \in Cwds,
             Works(t, c) \/ \E snapshot \in BOOLEAN : Registers(t, c, snapshot)
      PROVE  Housed'
  BY <1>i, <1>1 DEF Works, Registers, TypeOK
<1>2. ASSUME NEW t \in Targets, Unregisters(t) PROVE Housed'
  BY <1>i, <1>2 DEF Unregisters, TypeOK
<1>3. ASSUME NEW m \in Msgs, Push(m) \/ Take(m) \/ Ack(m) PROVE Housed'
  BY <1>i, <1>3 DEF Push, Take, Ack, Moves, TypeOK
<1>4. CASE Tick
  BY <1>i, <1>4 DEF Tick
<1>5. CASE Lists
  BY <1>i, <1>5 DEF Lists, Call, Discover, Walk, NextBox, Count, ReadAddress,
                    ReadAddressFails, Prints, Return
<1>6. CASE UNCHANGED vars
  BY <1>i, <1>6 DEF vars
<1> QED
  BY <1>1, <1>2, <1>3, <1>4, <1>5, <1>6 DEF Next, Changes

\* A message that is pushed, claimed or acknowledged moves on only, so it does
\* not get behind the listing; its mailbox has a directory.
LEMMA StepVisited == ASSUME IInv, [Next]_vars PROVE Visited'
<1> USE DEF Visited
<1>i. Visited /\ Housed
  BY DEF IInv
<1>1. ASSUME NEW t \in Targets, NEW c \in Cwds,
             Works(t, c) \/ \E snapshot \in BOOLEAN : Registers(t, c, snapshot)
      PROVE  Visited'
  BY <1>i, <1>1 DEF Works, Registers
<1>2. ASSUME NEW t \in Targets, Unregisters(t) PROVE Visited'
  BY <1>i, <1>2 DEF Unregisters
<1>3. ASSUME NEW m \in Msgs, Push(m) \/ Take(m) \/ Ack(m) PROVE Visited'
  <2>1. \A n \in Msgs : /\ place[n] = "done" => place'[n] = "done"
                        /\ place[n] = "claimed" => place'[n] \in {"claimed", "done"}
    BY <1>3, <1>i DEF Push, Take, Ack, Moves, IInv, TypeOK
  <2>2. UNCHANGED <<listing, steady>>
    BY <1>3 DEF Push, Take, Ack, Moves
  <2> QED
    BY <1>i, <2>1, <2>2 DEF IInv, TypeOK
<1>4. CASE Tick
  BY <1>i, <1>4 DEF Tick
<1>5. ASSUME NEW command \in {"sessions", "targets"}, Call(command) PROVE Visited'
  BY <1>i, <1>5 DEF Call
\* The walk sees the mailbox of every message that was there before.
<1>6. CASE Discover \/ Walk
  BY <1>i, <1>6 DEF Discover, Walk, Housed, IInv, TypeOK
<1>7. ASSUME NEW t \in Targets, NextBox(t) PROVE Visited'
  BY <1>i, <1>7 DEF NextBox
\* A directory has been counted: what was in it is counted, what is in an earlier
\* one has come there since.
<1>8. ASSUME NEW d \in {"pending", "claimed", "done"}, Count(d) PROVE Visited'
  <2>1. /\ step = d /\ step' = After(d)
        /\ counted' = counted \cup {m \in Msgs : To[m] \in at /\ place[m] = d}
        /\ UNCHANGED <<world, todo, at, present>>
    BY <1>8 DEF Count
  <2>2. \A m \in present \ counted :
          place[m] \in {"pending", "claimed", "done"} /\ m \in Msgs
    BY DEF IInv, TypeOK
  <2>3. CASE d = "pending"
    BY <1>i, <2>1, <2>2, <2>3 DEF After
  <2>4. CASE d = "claimed"
    BY <1>i, <2>1, <2>2, <2>4 DEF After
  <2>5. CASE d = "done"
    BY <1>i, <2>1, <2>2, <2>5 DEF After
  <2> QED
    BY <2>3, <2>4, <2>5
<1>9. CASE ReadAddress \/ ReadAddressFails
  BY <1>i, <1>9 DEF ReadAddress, ReadAddressFails
<1>10. ASSUME NEW c \in Cwds \cup {AllDirs}, NEW n \in Limits, Prints(c, n) PROVE Visited'
  BY <1>i, <1>10 DEF Prints
<1>11. CASE Return
  BY <1>i, <1>11 DEF Return
<1>12. CASE UNCHANGED vars
  BY <1>i, <1>12 DEF vars
<1> QED
  BY <1>1, <1>2, <1>3, <1>4, <1>5, <1>6, <1>7, <1>8, <1>9, <1>10, <1>11, <1>12
     DEF Next, Lists, Changes

\* A report is the last thing recorded of a session; what an earlier record of
\* the same second said is kept beside it.
LEMMA StepReported == ASSUME IInv, [Next]_vars PROVE Reported'
<1> USE BoundsAssumption DEF Times
<1>i. TypeOK /\ Reported
  BY DEF IInv
<1>n. \A t \in Targets : addr[t].seen \in Nat /\ report[t].time \in Nat /\ now \in Nat \ {0}
  BY <1>i DEF TypeOK, Addresses
<1>f. \A s \in Sessions : file[s].last \in Nat /\ s \in Targets
  BY <1>i DEF TypeOK, Records, Targets
<1>1. ASSUME NEW t \in Targets, NEW c \in Cwds, Works(t, c) PROVE Reported'
  <2>1. /\ t \in Sessions
        /\ file' = [file EXCEPT ![t] = [known |-> TRUE, cwd |-> c, last |-> now]]
        /\ report' = [report EXCEPT ![t] =
                       [time |-> now,
                        cwds |-> IF report[t].time = now THEN report[t].cwds \cup {c}
                                 ELSE {c}]]
        /\ UNCHANGED <<addr, now>>
    BY <1>1 DEF Works, Reports
  <2>2. ASSUME NEW s \in Sessions, s # t
        PROVE  file'[s] = file[s] /\ report'[s] = report[s]
    BY <2>1, <2>2, <1>i DEF TypeOK
  <2>3. /\ file'[t] = [known |-> TRUE, cwd |-> c, last |-> now]
        /\ report'[t].time = now /\ c \in report'[t].cwds
        /\ report[t].time = now => report[t].cwds \subseteq report'[t].cwds
    BY <2>1, <1>i DEF TypeOK
  <2> QED
    BY <1>i, <1>n, <1>f, <2>1, <2>2, <2>3 DEF Reported
<1>2. ASSUME NEW t \in Targets, NEW c \in Cwds, Registers(t, c, TRUE) PROVE Reported'
  <2>1. /\ addr' = [addr EXCEPT ![t] = [known |-> TRUE, cwd |-> c,
                                        seen |-> now, updated |-> now]]
        /\ report' = [report EXCEPT ![t] =
                       [time |-> now,
                        cwds |-> IF report[t].time = now THEN report[t].cwds \cup {c}
                                 ELSE {c}]]
        /\ UNCHANGED <<file, now>>
    BY <1>2 DEF Registers, Reports
  <2>2. ASSUME NEW s \in Targets, s # t
        PROVE  addr'[s] = addr[s] /\ report'[s] = report[s]
    BY <2>1, <2>2, <1>i DEF TypeOK
  <2>3. /\ addr'[t] = [known |-> TRUE, cwd |-> c, seen |-> now, updated |-> now]
        /\ report'[t].time = now /\ c \in report'[t].cwds
        /\ report[t].time = now => report[t].cwds \subseteq report'[t].cwds
    BY <2>1, <1>i DEF TypeOK
  <2> QED
    BY <1>i, <1>n, <1>f, <2>1, <2>2, <2>3 DEF Reported
\* Without a snapshot only the record of the host is left.
<1>3. ASSUME NEW t \in Targets,
             \/ \E c \in Cwds : Registers(t, c, FALSE)
             \/ Unregisters(t)
      PROVE  Reported'
  <2>1. /\ \E a : addr' = [addr EXCEPT ![t] = a] /\ a.seen = 0
        /\ report' = [report EXCEPT ![t] = Recorded(t)]
        /\ UNCHANGED <<file, now>>
    <3>1. ASSUME NEW c \in Cwds, Registers(t, c, FALSE)
          PROVE  \E a : addr' = [addr EXCEPT ![t] = a] /\ a.seen = 0
      <4>1. addr' = [addr EXCEPT ![t] = [known |-> TRUE, cwd |-> c,
                                        seen |-> 0, updated |-> now]]
        BY <3>1 DEF Registers
      <4>2. [known |-> TRUE, cwd |-> c, seen |-> 0, updated |-> now].seen = 0
        OBVIOUS
      <4> QED
        BY <4>1, <4>2
    <3>2. ASSUME Unregisters(t)
          PROVE  \E a : addr' = [addr EXCEPT ![t] = a] /\ a.seen = 0
      <4>1. addr' = [addr EXCEPT ![t] = NoAddress] /\ NoAddress.seen = 0
        BY <3>2 DEF Unregisters, NoAddress
      <4> QED
        BY <4>1
    <3>3. report' = [report EXCEPT ![t] = Recorded(t)] /\ UNCHANGED <<file, now>>
      BY <1>3 DEF Registers, Unregisters
    <3> QED
      BY <1>3, <3>1, <3>2, <3>3
  <2>2. ASSUME NEW s \in Targets, s # t
        PROVE  addr'[s] = addr[s] /\ report'[s] = report[s]
    BY <2>1, <2>2, <1>i DEF TypeOK
  <2>3. addr'[t].seen = 0 /\ report'[t] = Recorded(t)
    BY <2>1, <1>i DEF TypeOK
  <2>4. ASSUME t \in Sessions
        PROVE  /\ report'[t].time = file[t].last
               /\ file[t].known => file[t].cwd \in report'[t].cwds
               /\ report'[t].time = 0 => report'[t].cwds = {}
    BY <1>i, <2>3, <2>4 DEF Recorded, Reported
  <2> QED
    BY <1>i, <1>n, <1>f, <2>1, <2>2, <2>3, <2>4 DEF Reported
<1>4. ASSUME NEW m \in Msgs, Push(m) \/ Take(m) \/ Ack(m) PROVE Reported'
  BY <1>i, <1>4 DEF Push, Take, Ack, Moves, Reported
<1>5. CASE Tick
  BY <1>i, <1>n, <1>f, <1>5 DEF Tick, Reported
<1>6. CASE Lists \/ UNCHANGED vars
  <2>1. UNCHANGED world
    BY <1>6 DEF Lists, Call, Discover, Walk, NextBox, Count, ReadAddress,
                    ReadAddressFails, Prints, Return, vars
  <2> QED
    BY <1>i, <2>1 DEF Reported
<1> QED
  BY <1>1, <1>2, <1>3, <1>4, <1>5, <1>6 DEF Next, Changes

\* What has been read of a session is out of date once it changes, and the
\* session is not steady any more then.
LEMMA StepGathered == ASSUME IInv, [Next]_vars PROVE Gathered'
<1>i. TypeOK /\ Gathered /\ Visited
  BY DEF IInv
<1>w. ASSUME UNCHANGED listing, steady' \subseteq steady,
             \A s \in steady' : file'[s] = file[s] /\ addr'[s] = addr[s]
      PROVE  Gathered'
  <2>1. UNCHANGED <<step, query, rows, todo, at, read, out, unread>>
    BY <1>w
  <2>2. Join(query.cwd, query.limit)' = Join(query.cwd, query.limit)
    <3>1. PICK c, n : c = query.cwd /\ n = query.limit
      OBVIOUS
    <3>2. Join(c, n)' = Join(c, n)
      BY <2>1, JoinFrame
    <3>3. query'.cwd = c /\ query'.limit = n
      BY <2>1, <3>1
    <3> QED
      BY <3>1, <3>2, <3>3
  <2> QED
    BY <1>i, <1>w, <2>1, <2>2 DEF Gathered
<1>1. ASSUME NEW t \in Targets, NEW c \in Cwds, Works(t, c) PROVE Gathered'
  BY <1>i, <1>w, <1>1 DEF Works, Unsettles, TypeOK
<1>2. ASSUME NEW t \in Targets,
             \/ Unregisters(t)
             \/ \E c \in Cwds, snapshot \in BOOLEAN : Registers(t, c, snapshot)
      PROVE  Gathered'
  <2>1. /\ \E a : addr' = [addr EXCEPT ![t] = a]
        /\ UNCHANGED <<file, listing>> /\ steady' = steady \ {t}
    BY <1>2 DEF Registers, Unregisters, Unsettles
  <2>2. \A s \in steady' : addr'[s] = addr[s]
    BY <2>1, <1>i DEF TypeOK, Targets
  <2> QED
    BY <1>w, <2>1, <2>2
<1>3. ASSUME NEW m \in Msgs, Push(m) \/ Take(m) \/ Ack(m) PROVE Gathered'
  BY <1>w, <1>3 DEF Push, Take, Ack, Moves
<1>4. CASE Tick
  BY <1>w, <1>4 DEF Tick
<1>5. ASSUME NEW command \in {"sessions", "targets"}, Call(command) PROVE Gathered'
  BY <1>i, <1>5 DEF Call, Gathered, TypeOK
<1>6. CASE Discover
  BY <1>i, <1>6 DEF Discover, Gathered, TypeOK
\* A session without a mailbox has no address.
<1>7. CASE Walk
  <2>1. \A s \in steady : addr[s] = NoAddress \/ s \in boxes
    BY <1>i DEF IInv, Housed, TypeOK, Targets
  <2>2. /\ read = [t \in Targets |-> NoAddress] /\ unread = {} /\ at = {}
        /\ boxes \subseteq Targets /\ steady \subseteq Targets
    BY <1>i, <1>7 DEF Walk, Gathered, Visited, TypeOK, Targets
  <2>3. \A s \in Targets : read[s] = NoAddress
    BY <2>2
  <2>4. /\ step = "walk" /\ step' = "next" /\ todo' = boxes
        /\ UNCHANGED <<world, query, rows, at, read, out, unread, steady>>
    BY <1>7 DEF Walk
  <2> QED
    BY <1>i, <2>1, <2>2, <2>3, <2>4 DEF Gathered
<1>8. ASSUME NEW t \in Targets, NextBox(t) PROVE Gathered'
  BY <1>i, <1>8 DEF NextBox, Gathered, Visited
<1>9. ASSUME NEW d \in {"pending", "claimed", "done"}, Count(d) PROVE Gathered'
  BY <1>i, <1>9 DEF Count, After, Gathered
<1>10. CASE ReadAddress
  <2>1. \A s \in Targets : read'[s] = IF s \in at THEN addr[s] ELSE read[s]
    BY <1>10 DEF ReadAddress
  <2>2. steady \subseteq Targets /\ unread \cup todo \subseteq Targets
    BY <1>i DEF TypeOK, Targets
  <2>3. /\ step' = "next" /\ at' = {} /\ out' = out /\ step = "address"
        /\ UNCHANGED <<world, query, rows, todo, unread, steady>>
    BY <1>10 DEF ReadAddress
  <2> QED
    BY <1>i, <2>1, <2>2, <2>3 DEF Gathered
\* Nothing is known of the one that could not be read.
<1>14. CASE ReadAddressFails
  BY <1>i, <1>14 DEF ReadAddressFails, Gathered
<1>11. ASSUME NEW c \in Cwds \cup {AllDirs}, NEW n \in Limits, Prints(c, n)
       PROVE  Gathered'
  <2>1. query'.cwd = c /\ query'.limit = n /\ query'.command = query.command
    BY <1>i, <1>11 DEF Prints, TypeOK
  <2>2. /\ step = "next" /\ step' = "printed"
        /\ UNCHANGED <<file, addr, rows, read, todo, at, unread, steady>>
        /\ out' = IF query.command = "sessions" THEN Join(c, n) ELSE <<>>
    BY <1>11 DEF Prints
  <2>3. Join(query.cwd, query.limit)' = Join(c, n)
    <3>1. Join(c, n)' = Join(c, n)
      BY <2>2, JoinFrame
    <3> QED
      BY <2>1, <3>1
  <2> QED
    BY <1>i, <2>1, <2>2, <2>3 DEF Gathered
<1>12. CASE Return
  BY <1>i, <1>12 DEF Return, Gathered
<1>13. CASE UNCHANGED vars
  BY <1>w, <1>13 DEF vars
<1> QED
  BY <1>1, <1>2, <1>3, <1>4, <1>5, <1>6, <1>7, <1>8, <1>9, <1>10, <1>11, <1>12, <1>13,
     <1>14
     DEF Next, Lists, Changes

\* What a listing has read, counted and joined fits what is there, however the
\* sessions and messages change under it.
THEOREM Invariance == Spec => []IInv
<1>1. Init => IInv
  <2>1. Init => TypeOK
    BY TargetsAssumption, BoundsAssumption, EmptySeq
       DEF Init, TypeOK, Unknown, NoAddress, NoQuery, Records, Addresses, Times, Steps
  <2>2. Init => Housed /\ Visited
    BY DEF Init, Housed, Visited
  <2>3. Init => Reported
    BY TargetsAssumption DEF Init, Reported, Unknown, NoAddress, Targets
  <2>4. Init => Gathered
    BY DEF Init, Gathered
  <2> QED
    BY <2>1, <2>2, <2>3, <2>4 DEF IInv
<1>2. IInv /\ [Next]_vars => IInv'
  BY StepTypeOK, StepHoused, StepVisited, StepReported, StepGathered DEF IInv
<1> QED
  BY <1>1, <1>2, PTL DEF Spec

\* Mailboxes counts every message that had been published when it was called, in
\* one directory or another, wherever the message moves meanwhile.
THEOREM CountsAreComplete == Spec => []CountsMissNothing
<1>1. IInv => CountsMissNothing
  BY DEF IInv, TypeOK, Visited, CountsMissNothing
<1> QED
  BY <1>1, Invariance, PTL

-----------------------------------------------------------------------------
\* The result.

\* A session that has not changed has been heard of when it was last reported,
\* and is where it was last reported to be; one whose address could not be read
\* has been heard of no later, and is where its host has it.
LEMMA SteadyIsKnown ==
  ASSUME IInv, step = "printed", query.command = "sessions", NEW s \in steady
  PROVE  /\ s \in Sessions
         /\ report[s].cwds # {} => Heard(s) <= report[s].time
         /\ s \notin unread /\ report[s].cwds # {} => Heard(s) = report[s].time
         /\ \A c \in Cwds : Where(s) = {c} => Cwd(s) = c /\ s \in Listed
         /\ s \in unread /\ ~file[s].known => s \notin Listed
         /\ Heard(s) \in Nat /\ report[s].time \in Nat
<1>1. TypeOK /\ Reported /\ Gathered /\ Visited
  BY DEF IInv
<1>2. s \in Sessions /\ s \in Targets
  BY <1>1 DEF TypeOK, Targets
<1>3. /\ rows[s] = file[s]
      /\ s \notin unread => read[s] = addr[s]
      /\ s \in unread => read[s] = NoAddress
  BY <1>1 DEF Gathered, Visited
<1>4. /\ addr[s].seen \in Nat /\ addr[s].updated \in Nat /\ file[s].last \in Nat
      /\ report[s].time \in Nat
  BY <1>1, <1>2, BoundsAssumption DEF TypeOK, Records, Addresses, Times
<1>5. /\ addr[s].seen # 0 => addr[s].known /\ addr[s].updated = addr[s].seen
      /\ file[s].known <=> file[s].last # 0
      /\ report[s].time \in {file[s].last, addr[s].seen}
      /\ report[s].time >= file[s].last /\ report[s].time >= addr[s].seen
      /\ file[s].known /\ file[s].last = report[s].time => file[s].cwd \in report[s].cwds
      /\ addr[s].seen # 0 /\ addr[s].seen = report[s].time => addr[s].cwd \in report[s].cwds
      /\ report[s].time = 0 => report[s].cwds = {}
  BY <1>1, <1>2 DEF Reported
<1>6. ~NoAddress.known /\ NoAddress.seen = 0 /\ NoAddress.updated = 0
  BY DEF NoAddress
<1>7. LET T == {rows[s].last, read[s].seen}
               \cup (IF rows[s].known THEN {} ELSE {read[s].updated})
      IN  Heard(s) \in T /\ Heard(s) \in Nat /\ \A n \in T : n <= Heard(s)
  BY <1>1, <1>2, HeardIsLast
<1>8. ASSUME s \in unread PROVE Heard(s) <= report[s].time
  <2>1. Heard(s) \in {file[s].last, 0}
    BY <1>3, <1>6, <1>7, <1>8
  <2> QED
    BY <1>4, <1>5, <2>1
<1>9. ASSUME s \notin unread, report[s].cwds # {} PROVE Heard(s) = report[s].time
  <2>1. report[s].time # 0
    BY <1>5, <1>9
  <2>2. file[s].known \/ addr[s].updated = report[s].time
    BY <1>4, <1>5, <2>1
  <2> QED
    BY <1>3, <1>4, <1>5, <1>7, <1>9, <2>2
<1>10. ASSUME NEW c \in Cwds, Where(s) = {c} PROVE Cwd(s) = c /\ s \in Listed
  <2>1. CASE s \in unread
    <3>1. file[s].known /\ file[s].cwd = c
      BY <1>10, <2>1 DEF Where
    <3> QED
      BY <1>2, <1>3, <1>6, <2>1, <3>1 DEF Snapshot, Cwd, Listed
  <2>2. CASE s \notin unread
    <3>1. report[s].cwds = {c} /\ report[s].time # 0
      BY <1>5, <1>10, <2>2 DEF Where
    <3>2. s \in Listed
      BY <1>2, <1>3, <1>5, <2>2, <3>1 DEF Listed
    <3>3. CASE Snapshot(s)
      <4>1. addr[s].seen # 0 /\ addr[s].seen = report[s].time
        BY <1>3, <1>4, <1>5, <2>2, <3>3 DEF Snapshot
      <4>2. addr[s].cwd = c
        BY <1>5, <3>1, <4>1
      <4>3. Cwd(s) = read[s].cwd
        BY <3>3 DEF Cwd
      <4> QED
        BY <1>3, <2>2, <3>2, <4>2, <4>3
    <3>4. CASE ~Snapshot(s)
      <4>1. file[s].known /\ file[s].last = report[s].time
        BY <1>3, <1>4, <1>5, <2>2, <3>1, <3>4 DEF Snapshot
      <4>2. file[s].cwd = c
        BY <1>5, <3>1, <4>1
      <4>3. Cwd(s) = rows[s].cwd
        BY <1>3, <3>4, <4>1 DEF Cwd
      <4> QED
        BY <1>3, <3>2, <4>2, <4>3
    <3> QED
      BY <3>2, <3>3, <3>4
  <2> QED
    BY <2>1, <2>2
<1>11. ASSUME s \in unread, ~file[s].known PROVE s \notin Listed
  BY <1>3, <1>6, <1>11 DEF Listed
<1>12. report[s].cwds # {} => Heard(s) <= report[s].time
  BY <1>4, <1>8, <1>9
<1> QED
  BY <1>2, <1>4, <1>7, <1>9, <1>10, <1>11, <1>12

\* What CollectSessions and the command sessions say of a session that does not
\* change meanwhile is what its host or a hook reported last, and the filter for
\* a directory lists the sessions that are there.  If Mailboxes cannot read the
\* address of the session, it is what the host alone has reported.
THEOREM ListingIsTrue == Spec => []ListedWhereItIs
<1>1. IInv => ListedWhereItIs
  <2> SUFFICES ASSUME IInv, step = "printed", query.command = "sessions", query.limit = 0,
                      NEW s \in steady
               PROVE  /\ \A c \in Cwds : Where(s) = {c} =>
                           Cwd(s) = c /\ (s \in ToSet(out) <=> query.cwd \in {AllDirs, c})
                      /\ s \in unread /\ ~file[s].known => s \notin ToSet(out)
    BY DEF ListedWhereItIs
  <2> DEFINE S == Chosen(query.cwd)
  <2>1. /\ \A c \in Cwds : Where(s) = {c} => Cwd(s) = c /\ s \in Listed
        /\ s \in unread /\ ~file[s].known => s \notin Listed
    BY SteadyIsKnown
  <2>2. \A c \in Cwds : Where(s) = {c} => (s \in S <=> query.cwd \in {AllDirs, c})
    BY <2>1 DEF Chosen
  <2>7. s \in S => s \in Listed
    BY DEF Chosen
  <2>3. out = Join(query.cwd, query.limit) /\ TypeOK
    BY DEF IInv, Gathered
  <2> HIDE DEF S
  <2>4. /\ S \in SUBSET Sessions /\ Cardinality(S) \in Nat
        /\ out \in Seq(Sessions) /\ Len(out) = Cardinality(S)
        /\ \A k \in DOMAIN out : out[k] \in S
    BY <2>3, JoinByRank DEF S
  <2>5. ASSUME s \in S PROVE s \in ToSet(out)
    <3>1. Ahead(S, s) \in 0 .. Cardinality(S) - 1
      BY <2>3, <2>4, <2>5, RankOfRow
    <3>2. Ahead(S, s) < Len(out)
      BY <2>4, <3>1
    <3>3. Ahead(S, s) + 1 \in DOMAIN out /\ out[Ahead(S, s) + 1] = s
      BY <2>3, <2>5, <3>2, JoinByRank DEF S
    <3> QED
      BY <3>3 DEF ToSet
  <2>6. ASSUME s \in ToSet(out) PROVE s \in S
    BY <2>4, <2>6 DEF ToSet
  <2> QED
    BY <2>1, <2>2, <2>5, <2>6, <2>7
<1> QED
  BY <1>1, Invariance, PTL

\* sortSessionsByActivity and the limit after it: a session that is in the result
\* is there after every one of the directory that was reported later and whose
\* address could be read.
THEOREM LatestComeFirst == Spec => []NewestAreKept
<1>1. IInv => NewestAreKept
  <2> SUFFICES ASSUME IInv, step = "printed", query.command = "sessions",
                      NEW s \in steady \ unread, NEW t \in steady, Wanted(s),
                      report[t].cwds # {}, t \in ToSet(out),
                      report[s].time > report[t].time
               PROVE  \E j, k \in DOMAIN out : j < k /\ out[j] = s /\ out[k] = t
    BY DEF NewestAreKept
  <2> DEFINE S == Chosen(query.cwd)
  <2>1. s \in S
    <3>1. PICK c \in Cwds : report[s].cwds = {c} /\ query.cwd \in {AllDirs, c}
      BY DEF Wanted
    <3>2. Where(s) = {c}
      BY <3>1 DEF Where
    <3>3. s \in Listed /\ Cwd(s) = c
      BY <3>2, SteadyIsKnown
    <3> QED
      BY <3>1, <3>3 DEF Chosen
  <2>2. Before(s, t)
    <3>1. report[s].cwds # {}
      BY DEF Wanted
    <3>2. Heard(s) = report[s].time /\ Heard(t) <= report[t].time
      BY <3>1, SteadyIsKnown
    <3>3. /\ Heard(s) \in Nat /\ report[s].time \in Nat
          /\ Heard(t) \in Nat /\ report[t].time \in Nat
      BY SteadyIsKnown
    <3> QED
      BY <3>2, <3>3 DEF Before
  <2>3. out = Join(query.cwd, query.limit) /\ TypeOK /\ query.limit \in Nat
    BY DEF IInv, Gathered, TypeOK
  <2> HIDE DEF S
  <2>4. /\ S \in SUBSET Sessions
        /\ out \in Seq(Sessions)
        /\ \A k \in DOMAIN out : out[k] \in S /\ Ahead(S, out[k]) = k - 1
        /\ \A r \in S : Ahead(S, r) \in Nat
        /\ \A r \in S : Ahead(S, r) < Len(out) => Ahead(S, r) + 1 \in DOMAIN out
                                                  /\ out[Ahead(S, r) + 1] = r
    BY <2>3, JoinByRank DEF S
  <2>5. PICK k \in DOMAIN out : out[k] = t
    BY DEF ToSet
  <2>6. Ahead(S, t) = k - 1 /\ t \in S /\ k \in 1 .. Len(out) /\ Len(out) \in Nat
    BY <2>4, <2>5
  <2>7. Ahead(S, s) < Ahead(S, t) /\ Ahead(S, s) \in Nat
    BY <2>1, <2>2, <2>3, <2>4, <2>6, RankOfRow
  <2>8. Ahead(S, s) + 1 < k /\ Ahead(S, s) < Len(out)
    BY <2>6, <2>7
  <2>9. Ahead(S, s) + 1 \in DOMAIN out /\ out[Ahead(S, s) + 1] = s
    BY <2>1, <2>4, <2>8
  <2> QED
    BY <2>5, <2>8, <2>9
<1> QED
  BY <1>1, Invariance, PTL
=============================================================================
