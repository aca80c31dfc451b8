---------------------------- MODULE MessageStore ----------------------------
(***************************************************************************)
(* What agentqueue promises its users about the bodies of one target, with *)
(* no files, scans or processes: a message is published once, moves only   *)
(* forward through the states of item.go (pending, claimed, done), and its *)
(* body is handed to at most one consumer.  A pending message may be       *)
(* acknowledged without ever being claimed (the doc comment of Ack).       *)
(*                                                                         *)
(* Mailbox shows that the directory protocol of queue.go implements this   *)
(* module; Wake takes these operations as the payload side of the          *)
(* notification protocol.                                                  *)
(***************************************************************************)
EXTENDS Naturals

CONSTANT Ids        \* the message ids that can ever be generated

VARIABLES status,   \* status[i]: "absent" or a State of item.go
          told      \* told[i]: how often a claim returned the body of i

storeVars == <<status, told>>

States == {"pending", "claimed", "done"}

TypeOK == /\ status \in [Ids -> States \cup {"absent"}]
          /\ told \in [Ids -> 0..1]

Init == /\ status = [i \in Ids |-> "absent"]
        /\ told = [i \in Ids |-> 0]

\* Push: the body becomes visible, whole.
Publish(i) == /\ status[i] = "absent"
              /\ status' = [status EXCEPT ![i] = "pending"]
              /\ UNCHANGED told

\* Take and TakeNext, first half: one consumer becomes the owner.
Acquire(i) == /\ status[i] = "pending"
              /\ status' = [status EXCEPT ![i] = "claimed"]
              /\ UNCHANGED told

\* Take and TakeNext, second half: the owner is given the body.
Tell(i) == /\ status[i] = "claimed"
           /\ told[i] = 0
           /\ told' = [told EXCEPT ![i] = 1]
           /\ UNCHANGED status

\* Ack: a claimed, or an unclaimed, message is finished with.
Finish(i) == /\ status[i] \in {"pending", "claimed"}
             /\ status' = [status EXCEPT ![i] = "done"]
             /\ UNCHANGED told

Next == \E i \in Ids : Publish(i) \/ Acquire(i) \/ Tell(i) \/ Finish(i)

Spec == Init /\ [][Next]_storeVars
=============================================================================
