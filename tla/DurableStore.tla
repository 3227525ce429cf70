---------------------------- MODULE DurableStore ----------------------------
(***************************************************************************)
(* What LevelDB promises of its writes (include/leveldb/options.h and      *)
(* db.h), as far as the code keeps it.  Writes are numbered; a read sees   *)
(* every write acknowledged so far.  When the process stops none of them   *)
(* is lost, and when the machine stops none of those acknowledged with     *)
(* sync = true is, but for the exposed ones: writes accepted by a log that *)
(* was not healthy, an append to it having failed, and not yet in a table. *)
(* A write that was never acknowledged may be there afterwards, or not.    *)
(***************************************************************************)
EXTENDS Naturals

CONSTANT PowerLoss    \* may the machine stop, or only the process?

VARIABLES store,      \* the writes a read sees
          firm,       \* those acknowledged with sync = true
          exposed,    \* those any crash may take away, whatever they were promised
          healthy,    \* has no append to the log in use failed?
          running     \* is the store open?

storeVars == <<store, firm, exposed, healthy, running>>

Init == store = {} /\ firm = {} /\ exposed = {} /\ healthy = TRUE /\ running = TRUE

\* A group of writes becomes visible at once, newer than all before it.
Commit == /\ running
          /\ store \subseteq store' /\ store' # store
          /\ \A s \in store' \ store, r \in store : r < s
          /\ firm \subseteq firm' /\ firm' \ firm \subseteq store' \ store
          /\ exposed \subseteq exposed'
          /\ exposed' \ exposed \subseteq IF healthy THEN {} ELSE store' \ store
          /\ UNCHANGED <<healthy, running>>

\* An append to the log fails, or a new log is begun.
Turn == /\ running /\ healthy' \in BOOLEAN
        /\ UNCHANGED <<store, firm, exposed, running>>

\* Exposed writes have come into a table.
Secure == /\ running /\ exposed' \subseteq exposed
          /\ UNCHANGED <<store, firm, healthy, running>>

\* Writes that were under way, or had failed, may have reached the disk.
Crash == /\ running' = FALSE
         /\ firm' = firm \ exposed /\ firm' \subseteq store'
         /\ PowerLoss \/ store \ exposed \subseteq store'
         /\ exposed' = {} /\ healthy' = TRUE

Start == /\ ~running /\ running' = TRUE
         /\ UNCHANGED <<store, firm, exposed, healthy>>

Next == Commit \/ Turn \/ Secure \/ Crash \/ Start

Spec == Init /\ [][Next]_storeVars
=============================================================================
