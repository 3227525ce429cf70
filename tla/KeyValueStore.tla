---------------------------- MODULE KeyValueStore ----------------------------
(***************************************************************************)
(* What a LevelDB reader is promised (include/leveldb/db.h): a map from    *)
(* keys to values, and snapshots that keep showing the map as it was when  *)
(* they were taken.  A value stands for the write that stored it; 0 is no  *)
(* value.                                                                  *)
(***************************************************************************)
EXTENDS Naturals

CONSTANTS Keys, Values

VARIABLES value,    \* what a read of each key returns
          views     \* what it returns under each live snapshot

kvVars == <<value, views>>

Init == value = [k \in Keys |-> 0] /\ views = << >>

Write == /\ \E k \in Keys : /\ value'[k] \in Values
                           /\ \A j \in Keys \ {k} : value'[j] = value[j]
         /\ UNCHANGED views

GetSnapshot == /\ \E s \in Values \ DOMAIN views :
                    /\ DOMAIN views' = DOMAIN views \cup {s}
                    /\ views'[s] = value
                    /\ \A t \in DOMAIN views : views'[t] = views[t]
               /\ UNCHANGED value

ReleaseSnapshot == /\ \E s \in DOMAIN views :
                        /\ DOMAIN views' = DOMAIN views \ {s}
                        /\ \A t \in DOMAIN views' : views'[t] = views[t]
                   /\ UNCHANGED value

Next == Write \/ GetSnapshot \/ ReleaseSnapshot

Spec == Init /\ [][Next]_kvVars
=============================================================================
