----------------------------- MODULE RealmStore -----------------------------
(***************************************************************************)
(* The Realm database as the to-do apps use it: one Realm instance on the  *)
(* main thread, whose objects are read live (db), the file behind it       *)
(* (disk), and write transactions.                                         *)
(*                                                                         *)
(* A write runs in one uninterrupted piece of main-thread code: begin, the *)
(* block, commit.  A commit that fails returns an error and leaves the     *)
(* transaction OPEN: the objects keep the block's change, the file does    *)
(* not have it, and the next begin raises an Objective-C exception the     *)
(* apps' do/catch cannot catch.                                            *)
(***************************************************************************)
EXTENDS Accounts

CONSTANTS Cats,    \* identities of Category objects
          Items    \* identities of Item objects

VARIABLES db,      \* the objects as the Realm instance shows them
          disk,    \* the objects the file holds
          inWrite, \* Realm.isInWriteTransaction between two main-thread events
          used     \* identities handed out so far, never used for another object

storeVars == <<db, disk, inWrite, used>>

(***************************************************************************)
(* The objects: a category exists iff it has an owner, and holds a list of *)
(* items; an item is absent, to do, or done.                               *)
(***************************************************************************)
Store == [owner : [Cats -> Users \cup {Nobody}],
          items : [Cats -> SUBSET Items],
          state : [Items -> {"absent", "todo", "done"}]]

EmptyStore == [owner |-> [c \in Cats |-> Nobody],
               items |-> [c \in Cats |-> {}],
               state |-> [i \in Items |-> "absent"]]

CategoriesIn(s) == {c \in Cats : s.owner[c] # Nobody}
ItemsIn(s) == {i \in Items : s.state[i] # "absent"}

StoreTypeOK == /\ db \in Store
               /\ disk \in Store
               /\ inWrite \in BOOLEAN
               /\ used \in SUBSET (Cats \cup Items)

StoreInit == /\ db = EmptyStore
             /\ disk = EmptyStore
             /\ inWrite = FALSE
             /\ used = {}

-----------------------------------------------------------------------------
(* What the blocks passed to write do to the objects.                      *)

WithCategory(s, c, u) == [s EXCEPT !.owner[c] = u]

\* Mutant: the list outlives its category.
WithoutCategoryKeepingList(s, c) == [s EXCEPT !.owner[c] = Nobody]

\* Deleting a row removes the object and its list, and no linked object.
WithoutCategory(s, c) == [s EXCEPT !.owner[c] = Nobody, !.items[c] = {}]

WithItem(s, c, i) == [s EXCEPT !.items[c] = @ \cup {i}, !.state[i] = "todo"]

\* Mutant: the row stays linked from the list.
WithoutItemStillLinked(s, i) == [s EXCEPT !.state[i] = "absent"]

\* Deleting a row also removes it from every list that holds it.
WithoutItem(s, i) == [s EXCEPT !.items = [c \in Cats |-> s.items[c] \ {i}],
                               !.state[i] = "absent"]

Toggled(s, i) == [s EXCEPT !.state[i] = IF @ = "done" THEN "todo" ELSE "done"]

-----------------------------------------------------------------------------
(* The outcomes of one write(block), new being the objects after the block.*)

Committed(new) == /\ ~inWrite
                  /\ db' = new
                  /\ disk' = new
                  /\ UNCHANGED inWrite

\* Mutant: the failed commit ends the transaction and keeps its objects.
CommitFailedClosed(new) == /\ ~inWrite
                           /\ db' = new
                           /\ UNCHANGED <<inWrite, disk>>

CommitFailed(new) == /\ ~inWrite
                     /\ db' = new
                     /\ inWrite' = TRUE
                     /\ UNCHANGED disk

\* The write returned to its caller, with or without an error.
Written(new) == Committed(new) \/ CommitFailed(new)

\* beginWrite raises "The Realm is already in a write transaction".
BeginRaises == inWrite

\* The process is gone: an open transaction is lost, the file is what it was.
StoreReopened == /\ db' = disk
                 /\ inWrite' = FALSE
                 /\ UNCHANGED <<disk, used>>
=============================================================================
