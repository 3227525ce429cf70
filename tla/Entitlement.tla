----------------------------- MODULE Entitlement -----------------------------
(***************************************************************************)
(* What the buyer of a non-consumable product may expect of an app: it is  *)
(* unlocked only once it is paid for, stays unlocked, and the store is     *)
(* told that a payment has been dealt with only when it is unlocked.       *)
(***************************************************************************)
CONSTANT Transactions

VARIABLES paid,       \* transactions the store has charged for, or restored
          settled,    \* those it need not report again
          unlocked

Init == paid = {} /\ settled = {} /\ unlocked = FALSE

Pay == /\ \E t \in Transactions \ paid : paid' = paid \cup {t}
       /\ UNCHANGED <<settled, unlocked>>

Unlock == /\ paid # {}
          /\ unlocked' = TRUE
          /\ UNCHANGED <<paid, settled>>

Settle == /\ unlocked
          /\ \E t \in paid \ settled : settled' = settled \cup {t}
          /\ UNCHANGED <<paid, unlocked>>

Next == Pay \/ Unlock \/ Settle

Spec == Init /\ [][Next]_<<paid, settled, unlocked>>
=============================================================================
