------------------------------ MODULE TodoLists ------------------------------
(***************************************************************************)
(* What the to-do apps promise to keep: for each account a set of lists,   *)
(* for each list its entries, each to do or done.  A step changes one list *)
(* or one entry, and nothing else ever changes: not a sign-in, not a       *)
(* crash, not a launch under another account.                              *)
(***************************************************************************)
EXTENDS Accounts

CONSTANTS Cats, Items

VARIABLES mine,    \* the lists of each account
          entries  \* the entries of each list, with their state

listVars == <<mine, entries>>

Lists == UNION {mine[u] : u \in Users}
Entered(i) == \E c \in Cats, t \in {"todo", "done"} : <<i, t>> \in entries[c]

Init == /\ mine = [u \in Users |-> {}]
        /\ entries = [c \in Cats |-> {}]

AddList(u, c) == /\ c \notin Lists
                 /\ mine' = [mine EXCEPT ![u] = @ \cup {c}]
                 /\ UNCHANGED entries

DropList(u, c) == /\ c \in mine[u]
                  /\ mine' = [mine EXCEPT ![u] = @ \ {c}]
                  /\ entries' = [entries EXCEPT ![c] = {}]

AddEntry(c, i) == /\ c \in Lists
                  /\ ~Entered(i)
                  /\ entries' = [entries EXCEPT ![c] = @ \cup {<<i, "todo">>}]
                  /\ UNCHANGED mine

DropEntry(c, i, t) == /\ <<i, t>> \in entries[c]
                      /\ entries' = [entries EXCEPT ![c] = @ \ {<<i, t>>}]
                      /\ UNCHANGED mine

Flip(t) == IF t = "done" THEN "todo" ELSE "done"

FlipEntry(c, i, t) ==
  /\ <<i, t>> \in entries[c]
  /\ entries' = [entries EXCEPT ![c] = (@ \ {<<i, t>>}) \cup {<<i, Flip(t)>>}]
  /\ UNCHANGED mine

Next == \E c \in Cats :
          \/ \E u \in Users : AddList(u, c) \/ DropList(u, c)
          \/ \E i \in Items, t \in {"todo", "done"} :
               AddEntry(c, i) \/ DropEntry(c, i, t) \/ FlipEntry(c, i, t)

Spec == Init /\ [][Next]_listVars
=============================================================================
