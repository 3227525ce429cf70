------------------------------ MODULE ChatRoom ------------------------------
(***************************************************************************)
(* What a chat room promises the device that writes to it: messages come   *)
(* and stay; a message the device sends enters the room at most once, is   *)
(* reported saved only if it is there, and its fate is reported once.  A   *)
(* device that dies does not learn the fate of what it had pending, and    *)
(* what was refused may have entered before (its first answer was lost).   *)
(***************************************************************************)
CONSTANTS Keys,   \* messages
          Others  \* the ones other devices send

VARIABLES room,   \* the messages in the room
          status  \* the fate of each message, as its sender knows it

roomVars == <<room, status>>

PendingOnes == {k \in Keys : status[k] = "pending"}

Init == /\ room = {}
        /\ status = [k \in Keys |-> "unsent"]

Submit(k) == /\ k \notin Others
             /\ status[k] = "unsent"
             /\ status' = [status EXCEPT ![k] = "pending"]
             /\ UNCHANGED room

Enter(k) == /\ k \in Others \/ status[k] \in {"pending", "lost"}
            /\ room' = room \cup {k}
            /\ UNCHANGED status

\* The fates of some pending messages are reported together.
Report(saved, refused) ==
  /\ saved \subseteq room \cap PendingOnes
  /\ refused \subseteq PendingOnes \ saved
  /\ status' = [k \in Keys |-> IF k \in saved THEN "saved"
                               ELSE IF k \in refused THEN "refused"
                               ELSE status[k]]
  /\ UNCHANGED room

Lose == /\ status' = [k \in Keys |-> IF k \in PendingOnes THEN "lost" ELSE status[k]]
        /\ UNCHANGED room

Next == \/ \E k \in Keys : Submit(k) \/ Enter(k)
        \/ \E saved, refused \in SUBSET PendingOnes : Report(saved, refused)
        \/ Lose

Spec == Init /\ [][Next]_roomVars
=============================================================================
