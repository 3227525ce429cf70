------------------------------ MODULE ToBeDone ------------------------------
(***************************************************************************)
(* The tobedone app: a login screen, the categories of the account that is *)
(* signed in, and the items of one category.                               *)
(*                                                                         *)
(* Everything here runs on the main thread, one event at a time: a tap, or *)
(* a completion block of FirebaseAuth.  What makes it hard is that the     *)
(* progress HUD does not block taps, so several sign-ins can be under way; *)
(* that the category screen reads the current user when it loads, not the  *)
(* user of the completion block that opened it; that the Realm file is     *)
(* shared by every account of the device; and that a failed commit leaves  *)
(* a write transaction open.                                               *)
(***************************************************************************)
EXTENDS RealmStore, FirebaseAuth

CONSTANTS NoCat,      \* no category
          SameFolded  \* pairs of uids equal up to case: what CONTAINS[cd] matches

ASSUME ToBeDoneAssumption ==
  /\ NoCat \notin Cats
  /\ Cats \cap Items = {}
  /\ SameFolded \in SUBSET (Users \X Users)
  /\ \A u \in Users : <<u, u>> \in SameFolded

VARIABLES screen,           \* the screen on top, or "off": no process
          crash,            \* why the process last died
          authType,         \* LoginViewController.authType
          hud,              \* the progress HUD is shown
          errorMessage,     \* LoginViewController.errorMessage.text
          uid,              \* CategoryViewController.uid
          alert,            \* the alert on top of the screen
          deleting,         \* the category the delete alert has captured
          selectedCategory  \* ItemViewController.selectedCategory

uiVars == <<screen, crash, authType, hud, errorMessage, uid, alert, deleting,
            selectedCategory>>
vars == <<storeVars, authVars, uiVars>>

UiTypeOK ==
  /\ screen \in {"off", "login", "categories", "items"}
  /\ crash \in {"none", "killed", "alreadyInWrite", "unauthorized"}
  /\ authType \in {"", LOGIN, SIGNUP}
  /\ screen # "off" => authType # ""
  /\ hud \in BOOLEAN
  /\ errorMessage \in {"", "Failed"}
  /\ uid \in Users \cup {Nobody}
  /\ alert \in {"none", "newCategory", "deleteCategory", "newItem"}
  /\ deleting \in Cats \cup {NoCat}
  /\ selectedCategory \in Cats \cup {NoCat}
  /\ screen \in {"categories", "items"} <=> uid # Nobody
  /\ screen = "items" <=> selectedCategory # NoCat
  /\ alert = "deleteCategory" <=> deleting # NoCat
  /\ alert \in {"newCategory", "deleteCategory"} => screen = "categories"
  /\ alert = "newItem" => screen = "items"

\* The types, and which screen an alert or a captured category goes with.
TypeOK == StoreTypeOK /\ AuthTypeOK /\ UiTypeOK

Init == /\ StoreInit
        /\ AuthInit
        /\ screen = "off"
        /\ crash = "none"
        /\ authType = ""
        /\ hud = FALSE
        /\ errorMessage = ""
        /\ uid = Nobody
        /\ alert = "none"
        /\ deleting = NoCat
        /\ selectedCategory = NoCat

-----------------------------------------------------------------------------
(* The process starts and ends.                                            *)

Launched == /\ screen = "off"
            /\ screen' = "login"
            /\ crash' = "none"
            /\ AuthLoaded
            /\ UNCHANGED <<storeVars, hud, errorMessage, uid, alert, deleting,
                           selectedCategory>>

\* Mutant: viewDidLoad forgets authType, declared as "".
LaunchUntyped == Launched /\ UNCHANGED authType

\* didFinishLaunching, and viewDidLoad of the login screen: it is the initial
\* screen, whoever the keychain holds.
Launch == Launched /\ authType' = LOGIN

Stop(why) == /\ screen' = "off"
             /\ crash' = why
             /\ authType' = ""
             /\ hud' = FALSE
             /\ errorMessage' = ""
             /\ uid' = Nobody
             /\ alert' = "none"
             /\ deleting' = NoCat
             /\ selectedCategory' = NoCat
             /\ StoreReopened
             /\ AuthStopped

Kill == screen # "off" /\ Stop("killed")

-----------------------------------------------------------------------------
(* LoginViewController                                                     *)

toggleAuthType(kind) == /\ screen = "login"
                        /\ authType' = kind
                        /\ UNCHANGED <<storeVars, authVars, screen, crash, hud,
                                       errorMessage, uid, alert, deleting,
                                       selectedCategory>>

\* The HUD goes up whatever authType is; only its two values start a call.
handleStart(s, u) == /\ screen = "login"
                     /\ hud' = TRUE
                     /\ \/ authType \in {LOGIN, SIGNUP} /\ Sent(s, authType, u)
                        \/ authType \notin {LOGIN, SIGNUP} /\ UNCHANGED authVars
                     /\ UNCHANGED <<storeVars, screen, crash, authType, errorMessage,
                                    uid, alert, deleting, selectedCategory>>

\* Mutant: the HUD is left up.
StartFailedHudUp(s) == /\ Completed(s)
                       /\ calls[s].stage = "failed"
                       /\ errorMessage' = "Failed"
                       /\ UNCHANGED <<storeVars, screen, crash, authType, hud, uid, alert,
                                      deleting, selectedCategory>>

\* Mutant: the screen opens on an error too, for the account that was typed.
StartFailedOpens(s) == /\ Completed(s)
                       /\ calls[s].stage = "failed"
                       /\ screen = "login"
                       /\ hud' = FALSE
                       /\ screen' = "categories"
                       /\ uid' = calls[s].user
                       /\ UNCHANGED <<storeVars, crash, authType, errorMessage, alert,
                                      deleting, selectedCategory>>

\* Mutant: the error is only printed.
StartFailedSilent(s) == /\ Completed(s)
                        /\ calls[s].stage = "failed"
                        /\ hud' = FALSE
                        /\ UNCHANGED <<storeVars, screen, crash, authType, errorMessage,
                                       uid, alert, deleting, selectedCategory>>

\* The completion block, given an error.
StartFailed(s) == /\ Completed(s)
                  /\ calls[s].stage = "failed"
                  /\ hud' = FALSE
                  /\ errorMessage' = "Failed"
                  /\ UNCHANGED <<storeVars, screen, crash, authType, uid, alert,
                                 deleting, selectedCategory>>

\* performSegue presents the category screen, whose viewDidLoad takes the
\* current user; it does nothing when a screen is already presented.
Presented == IF screen = "login"
             THEN screen' = "categories" /\ uid' = currentUser
             ELSE UNCHANGED <<screen, uid>>

(***************************************************************************)
(* The completion block, given a user.  When viewDidLoad finds no current  *)
(* user, fatalError("Unauthoized") ends the process.                       *)
(***************************************************************************)
StartSucceeded(s) ==
  /\ mainQueue # <<>>
  /\ s = Head(mainQueue)
  /\ calls[s].stage = "ok"
  /\ IF screen = "login" /\ currentUser = Nobody
     THEN Stop("unauthorized")
     ELSE /\ Completed(s)
          /\ hud' = FALSE
          /\ Presented
          /\ UNCHANGED <<storeVars, crash, authType, errorMessage, alert, deleting,
                         selectedCategory>>

-----------------------------------------------------------------------------
(* CategoryViewController                                                  *)

\* The rows: a live query for the categories whose uid CONTAINS[cd] this uid.
Rows == {c \in CategoriesIn(db) : <<db.owner[c], uid>> \in SameFolded}

OnCategories == screen = "categories" /\ alert = "none"
OnItems == screen = "items" /\ alert = "none"

authAndLogin == <<authVars, authType, hud, errorMessage, uid>>

\* A button opens an alert: addCategory, addItem, or a swipe on a category.
Asks(which, c) == /\ alert' = which
                  /\ deleting' = c
                  /\ UNCHANGED <<storeVars, authAndLogin, screen, crash,
                                 selectedCategory>>

addCategory == OnCategories /\ Asks("newCategory", NoCat)
\* Mutants: the row index is looked up in all the categories.
swipeAnyCategory(c) == OnCategories /\ c \in CategoriesIn(db) /\ Asks("deleteCategory", c)

swipeCategory(c) == OnCategories /\ c \in Rows /\ Asks("deleteCategory", c)
addItem == OnItems /\ Asks("newItem", NoCat)

cancel == /\ alert # "none"
          /\ alert' = "none"
          /\ deleting' = NoCat
          /\ UNCHANGED <<storeVars, authAndLogin, screen, crash, selectedCategory>>

(***************************************************************************)
(* An alert's action, or a tap on a row, runs do { try realm.write }, new  *)
(* being the objects after the block and made those the block creates.     *)
(***************************************************************************)
Writes(new, made) == \/ /\ Written(new)
                        /\ used' = used \cup made
                        /\ alert' = "none"
                        /\ deleting' = NoCat
                        /\ UNCHANGED <<authAndLogin, screen, crash, selectedCategory>>
                     \/ /\ BeginRaises
                        /\ Stop("alreadyInWrite")

saveCategory(c) == /\ alert = "newCategory"
                   /\ c \notin used
                   /\ Writes(WithCategory(db, c, uid), {c})

confirmDelete == /\ alert = "deleteCategory"
                 /\ Writes(WithoutCategory(db, deleting), {})

selectAnyCategory(c) == /\ OnCategories
                        /\ c \in CategoriesIn(db)
                        /\ screen' = "items"
                        /\ selectedCategory' = c
                        /\ UNCHANGED <<storeVars, authAndLogin, crash, alert, deleting>>

\* didSelectRowAt and prepare(for:sender:).
selectCategory(c) == /\ OnCategories
                     /\ c \in Rows
                     /\ screen' = "items"
                     /\ selectedCategory' = c
                     /\ UNCHANGED <<storeVars, authAndLogin, crash, alert, deleting>>

-----------------------------------------------------------------------------
(* ItemViewController                                                      *)

\* The navigation bar's Back.
back == /\ OnItems
        /\ screen' = "categories"
        /\ selectedCategory' = NoCat
        /\ UNCHANGED <<storeVars, authAndLogin, crash, alert, deleting>>

saveItem(i) == /\ alert = "newItem"
               /\ i \notin used
               /\ Writes(WithItem(db, selectedCategory, i), {i})

deleteItem(i) == /\ OnItems
                 /\ i \in db.items[selectedCategory]
                 /\ Writes(WithoutItem(db, i), {})

toggleItem(i) == /\ OnItems
                 /\ i \in db.items[selectedCategory]
                 /\ Writes(Toggled(db, i), {})

-----------------------------------------------------------------------------
(* The network and the auth work queue.                                    *)

Background(s) == /\ \/ ServerAccepts(s)
                    \/ CallFails(s)
                    \/ SignedIn(s)
                    \/ SignInFailed(s)
                 /\ UNCHANGED <<storeVars, uiVars>>

\* A completion block of LoginViewController, run by the main queue.
Completion(s) == StartFailed(s) \/ StartSucceeded(s)

User == \/ Launch
        \/ Kill
        \/ \E kind \in {LOGIN, SIGNUP} : toggleAuthType(kind)
        \/ \E s \in Slots, u \in Users : handleStart(s, u)
        \/ addCategory
        \/ \E c \in Cats : swipeCategory(c) \/ saveCategory(c) \/ selectCategory(c)
        \/ confirmDelete
        \/ cancel
        \/ addItem
        \/ \E i \in Items : saveItem(i) \/ deleteItem(i) \/ toggleItem(i)
        \/ back

Next == User \/ \E s \in Slots : Background(s) \/ Completion(s)

Spec == Init /\ [][Next]_vars

(***************************************************************************)
(* A request is answered or times out, and the work queue and the main     *)
(* queue run what is posted to them.  Nothing obliges the user to act.     *)
(***************************************************************************)
Fairness == \A s \in Slots : WF_vars(Background(s)) /\ WF_vars(Completion(s))

FairSpec == Spec /\ Fairness

-----------------------------------------------------------------------------
(* Safety                                                                  *)

(***************************************************************************)
(* The uid that owns what the session writes signed in during this launch: *)
(* it is never the user the keychain still held, even though viewDidLoad   *)
(* reads whoever is current and not the user of its completion block.      *)
(***************************************************************************)
SessionAuthenticated ==
  screen \in {"categories", "items"} => uid \in signedIn /\ uid \in registered

\* fatalError("Unauthoized") is unreachable: the work queue makes the user
\* current before it posts the completion block that opens the screen.
NeverUnauthorized == crash # "unauthorized"

\* Every category in the file, whichever launch wrote it, names an account
\* the server has: newCategory.uid is never stale or nil.
OwnersRegistered == \A c \in CategoriesIn(disk) : disk.owner[c] \in registered

(***************************************************************************)
(* The objects captured by the delete alert's closure and by the item      *)
(* screen are still in the database and still the session's own when they  *)
(* are used: touching an invalidated Realm object raises.                  *)
(***************************************************************************)
HeldCategoriesLive == /\ alert = "deleteCategory" => deleting \in Rows
                      /\ screen = "items" => selectedCategory \in Rows

Lists(s) == /\ \A c \in Cats : /\ c \notin CategoriesIn(s) => s.items[c] = {}
                               /\ s.items[c] \subseteq ItemsIn(s)
            /\ \A c, d \in Cats : c # d => s.items[c] \cap s.items[d] = {}

\* In the objects and in the file, an item is in at most one list, and a list
\* holds no deleted item: List.append and delete keep both.
OneListPerItem == Lists(db) /\ Lists(disk)

\* What the screens show is what the file holds, unless a commit has failed
\* and its transaction is still open.
DurableUnlessCommitFailed == db # disk => inWrite

\* The HUD is up only while a call is under way, so it cannot be left over a
\* screen for good: every completion block dismisses it before anything else.
HudMeansCall == hud => UnderWay # {}

\* What a step leaves of the categories that are not the session's own.
ForeignKept == \A c \in CategoriesIn(disk) :
  <<disk.owner[c], uid>> \notin SameFolded =>
    /\ disk'.owner[c] = disk.owner[c]
    /\ disk'.items[c] = disk.items[c]
    /\ \A i \in disk.items[c] : disk'.state[i] = disk.state[i]

(***************************************************************************)
(* A category that is not the session's own (its uid does not match) stays *)
(* in the file with its items and their state, whatever the session does,  *)
(* and nothing in the file changes while nobody is signed in.              *)
(***************************************************************************)
ForeignDataUntouched == [][ForeignKept]_vars

(***************************************************************************)
(* What the invariants above rest on: no call outlives the process, a user *)
(* who signed in is current when the completion block runs, an accepted    *)
(* account exists, and an identity is never reused.                        *)
(***************************************************************************)
OffInv == screen = "off" => signedIn = {} /\ UnderWay = {}

AuthInv == /\ signedIn \subseteq registered
           /\ \A s \in Slots :
                /\ calls[s].stage = "ok" => currentUser \in signedIn
                /\ calls[s].stage = "accepted" => calls[s].user \in registered

UsedInv == /\ CategoriesIn(db) \cup ItemsIn(db) \subseteq used
           /\ CategoriesIn(disk) \cup ItemsIn(disk) \subseteq used

IInv == /\ TypeOK
        /\ OffInv
        /\ AuthInv
        /\ UsedInv
        /\ SessionAuthenticated
        /\ NeverUnauthorized
        /\ OwnersRegistered
        /\ HeldCategoriesLive
        /\ OneListPerItem
        /\ DurableUnlessCommitFailed
        /\ HudMeansCall

-----------------------------------------------------------------------------
(* Liveness                                                                *)

\* Every HUD goes away, however many calls share it.
HudClears == hud ~> ~hud

\* A sign-in that fails is reported, unless the process ends first.
FailureShown == \A s \in Slots :
  calls[s].stage = "failed" ~> (errorMessage = "Failed" \/ screen = "off")

-----------------------------------------------------------------------------
(* The file implements the abstract lists.                                 *)

OwnedIn(s) == [u \in Users |-> {c \in Cats : s.owner[c] = u}]
EntriesIn(s) == [c \in Cats |-> {<<i, s.state[i]>> : i \in s.items[c]}]

TL == INSTANCE TodoLists WITH mine <- OwnedIn(disk), entries <- EntriesIn(disk)

\* Every change of the file is one change of one account's lists.
ImplementsTodoLists == TL!Spec
=============================================================================
