--------------------------- MODULE ToBeDoneProofs ---------------------------
(***************************************************************************)
(* Proofs about ToBeDone, for any accounts, categories, items and calls.   *)
(***************************************************************************)
EXTENDS ToBeDone, SequenceTheorems, TLAPS

-----------------------------------------------------------------------------
(* Type correctness, one lemma per part of the state.                      *)

\* A write that returns or raises leaves the store well-formed.
LEMMA WritesTyped ==
  ASSUME StoreTypeOK, NEW new \in Store, NEW made \in SUBSET (Cats \cup Items),
         Writes(new, made)
  PROVE  StoreTypeOK'
  BY DEF Writes, Stop, StoreTypeOK, StoreReopened, Written, Committed, CommitFailed

\* The five actions that write, and those that end the process.
LEMMA StoreStep ==
  ASSUME TypeOK, [Next]_vars
  PROVE  StoreTypeOK'
  <1> USE DEF TypeOK
  <1>1. ASSUME NEW c \in Cats, saveCategory(c) PROVE StoreTypeOK'
    <2>1. uid \in Users
      BY <1>1 DEF saveCategory, UiTypeOK
    <2>2. WithCategory(db, c, uid) \in Store
      BY <2>1 DEF StoreTypeOK, Store, WithCategory
    <2>3. QED
      BY <1>1, <2>2, WritesTyped DEF saveCategory
  <1>2. CASE confirmDelete
    <2>1. deleting \in Cats
      BY <1>2 DEF confirmDelete, UiTypeOK
    <2>2. WithoutCategory(db, deleting) \in Store
      BY <2>1 DEF StoreTypeOK, Store, WithoutCategory
    <2>3. QED
      BY <1>2, <2>2, WritesTyped DEF confirmDelete
  <1>3. ASSUME NEW i \in Items, saveItem(i) PROVE StoreTypeOK'
    <2>1. selectedCategory \in Cats
      BY <1>3 DEF saveItem, UiTypeOK
    <2>2. WithItem(db, selectedCategory, i) \in Store
      BY <2>1 DEF StoreTypeOK, Store, WithItem
    <2>3. QED
      BY <1>3, <2>2, WritesTyped DEF saveItem
  <1>4. ASSUME NEW i \in Items, deleteItem(i) PROVE StoreTypeOK'
    <2>1. WithoutItem(db, i) \in Store
      BY DEF StoreTypeOK, Store, WithoutItem
    <2>2. QED
      BY <1>4, <2>1, WritesTyped DEF deleteItem
  <1>5. ASSUME NEW i \in Items, toggleItem(i) PROVE StoreTypeOK'
    <2>1. Toggled(db, i) \in Store
      BY DEF StoreTypeOK, Store, Toggled
    <2>2. QED
      BY <1>5, <2>1, WritesTyped DEF toggleItem
  <1>6. ASSUME NEW why, Stop(why) PROVE StoreTypeOK'
    BY <1>6 DEF Stop, StoreReopened, StoreTypeOK
  <1>7. ASSUME UNCHANGED storeVars PROVE StoreTypeOK'
    BY <1>7 DEF storeVars, StoreTypeOK
  <1>8. QED
    BY <1>1, <1>2, <1>3, <1>4, <1>5, <1>6, <1>7
       DEF Next, User, Background, Completion, Launch, Launched, Kill,
           toggleAuthType, handleStart, StartFailed, StartSucceeded, Presented,
           addCategory, swipeCategory, addItem, Asks, cancel, selectCategory, back,
           vars

\* Calls, completion blocks and accounts.
LEMMA AuthStep ==
  ASSUME TypeOK, [Next]_vars
  PROVE  AuthTypeOK'
  <1> USE DEF TypeOK
  <1>1. ASSUME NEW s \in Slots, NEW u \in Users, handleStart(s, u) PROVE AuthTypeOK'
    BY <1>1 DEF handleStart, Sent, AuthTypeOK, Call, Stages, authVars
  <1>2. ASSUME NEW s \in Slots, Completed(s) PROVE AuthTypeOK'
    <2>1. NoCall \in Call
      BY DEF Call
    <2>2. mainQueue' \in Seq(Slots)
      BY <1>2, HeadTailProperties DEF Completed, AuthTypeOK
    <2>3. QED
      BY <1>2, <2>1, <2>2 DEF Completed, AuthTypeOK
  <1>3. ASSUME NEW s \in Slots, ServerAccepts(s) PROVE AuthTypeOK'
    <2>1. calls[s] \in [stage : Stages, kind : {LOGIN, SIGNUP}, user : Users]
      BY <1>3 DEF ServerAccepts, AuthTypeOK, Call, NoCall
    <2>2. QED
      BY <1>3, <2>1 DEF ServerAccepts, AuthTypeOK, Call, Stages
  <1>4. ASSUME NEW s \in Slots, CallFails(s) PROVE AuthTypeOK'
    <2>1. calls[s] \in [stage : Stages, kind : {LOGIN, SIGNUP}, user : Users]
      BY <1>4 DEF CallFails, AuthTypeOK, Call, NoCall
    <2>2. QED
      BY <1>4, <2>1 DEF CallFails, AuthTypeOK, Call, Stages
  <1>5. ASSUME NEW s \in Slots, SignedIn(s) PROVE AuthTypeOK'
    <2>1. calls[s] \in [stage : Stages, kind : {LOGIN, SIGNUP}, user : Users]
      BY <1>5 DEF SignedIn, AuthTypeOK, Call, NoCall
    <2>2. mainQueue' \in Seq(Slots)
      BY <1>5, AppendProperties DEF SignedIn, Posted, AuthTypeOK
    <2>3. QED
      BY <1>5, <2>1, <2>2 DEF SignedIn, Posted, AuthTypeOK, Call, Stages
  <1>6. ASSUME NEW s \in Slots, SignInFailed(s) PROVE AuthTypeOK'
    <2>1. calls[s] \in [stage : Stages, kind : {LOGIN, SIGNUP}, user : Users]
      BY <1>6 DEF SignInFailed, AuthTypeOK, Call, NoCall
    <2>2. mainQueue' \in Seq(Slots)
      BY <1>6, AppendProperties DEF SignInFailed, Posted, AuthTypeOK
    <2>3. QED
      BY <1>6, <2>1, <2>2 DEF SignInFailed, Posted, AuthTypeOK, Call, Stages
  <1>7. ASSUME NEW why, Stop(why) PROVE AuthTypeOK'
    <2>1. mainQueue' \in Seq(Slots)
      BY <1>7, EmptySeq DEF Stop, AuthStopped
    <2>2. QED
      BY <1>7, <2>1 DEF Stop, AuthStopped, AuthTypeOK, Call
  <1>8. CASE Launch
    BY <1>8 DEF Launch, Launched, AuthLoaded, AuthTypeOK
  <1>9. ASSUME UNCHANGED authVars PROVE AuthTypeOK'
    BY <1>9 DEF authVars, AuthTypeOK
  <1>10. QED
    BY <1>1, <1>2, <1>3, <1>4, <1>5, <1>6, <1>7, <1>8, <1>9
       DEF Next, User, Background, Completion, Kill, toggleAuthType, StartFailed,
           StartSucceeded, Presented, addCategory, swipeCategory, addItem, Asks,
           cancel, Writes, saveCategory, confirmDelete, saveItem, deleteItem,
           toggleItem, selectCategory, back, authAndLogin, vars

\* Screens and alerts.
LEMMA UiStep ==
  ASSUME TypeOK, [Next]_vars
  PROVE  UiTypeOK'
  <1> USE DEF TypeOK
  <1>1. ASSUME NEW why \in {"killed", "alreadyInWrite", "unauthorized"}, Stop(why)
        PROVE  UiTypeOK'
    BY <1>1, ToBeDoneAssumption, NobodyAssumption DEF Stop, UiTypeOK
  <1>2. ASSUME NEW new, NEW made, Writes(new, made) PROVE UiTypeOK'
    BY <1>1, <1>2 DEF Writes, UiTypeOK, authAndLogin
  <1>3. ASSUME NEW which \in {"newCategory", "deleteCategory", "newItem"},
               NEW c \in Cats \cup {NoCat}, Asks(which, c),
               which = "newItem" => OnItems,
               which # "newItem" => OnCategories,
               which = "deleteCategory" <=> c \in Cats
        PROVE  UiTypeOK'
    BY <1>3, ToBeDoneAssumption
       DEF Asks, UiTypeOK, authAndLogin, OnItems, OnCategories
  <1>4. CASE Launch
    BY <1>4 DEF Launch, Launched, UiTypeOK, LOGIN, SIGNUP
  <1>5. ASSUME NEW kind \in {LOGIN, SIGNUP}, toggleAuthType(kind) PROVE UiTypeOK'
    BY <1>5 DEF toggleAuthType, UiTypeOK, LOGIN, SIGNUP
  <1>6. ASSUME NEW s \in Slots, NEW u \in Users, handleStart(s, u) PROVE UiTypeOK'
    BY <1>6 DEF handleStart, UiTypeOK
  <1>7. ASSUME NEW s \in Slots, StartFailed(s) PROVE UiTypeOK'
    BY <1>7 DEF StartFailed, UiTypeOK
  <1>8. ASSUME NEW s \in Slots, StartSucceeded(s) PROVE UiTypeOK'
    BY <1>1, <1>8, ToBeDoneAssumption DEF StartSucceeded, Presented, Completed, UiTypeOK, AuthTypeOK
  <1>9. CASE addCategory
    BY <1>3, <1>9, ToBeDoneAssumption DEF addCategory
  <1>10. ASSUME NEW c \in Cats, swipeCategory(c) PROVE UiTypeOK'
    BY <1>3, <1>10 DEF swipeCategory
  <1>11. CASE addItem
    BY <1>3, <1>11, ToBeDoneAssumption DEF addItem
  <1>12. CASE cancel
    BY <1>12 DEF cancel, UiTypeOK, authAndLogin
  <1>13. ASSUME NEW c \in Cats, selectCategory(c) PROVE UiTypeOK'
    BY <1>13, ToBeDoneAssumption DEF selectCategory, OnCategories, UiTypeOK, authAndLogin
  <1>14. CASE back
    BY <1>14 DEF back, OnItems, UiTypeOK, authAndLogin
  <1>15. ASSUME UNCHANGED uiVars PROVE UiTypeOK'
    BY <1>15 DEF uiVars, UiTypeOK
  <1>16. QED
    BY <1>1, <1>2, <1>4, <1>5, <1>6, <1>7, <1>8, <1>9, <1>10, <1>11, <1>12, <1>13,
       <1>14, <1>15
       DEF Next, User, Background, Completion, Kill, saveCategory,
           confirmDelete, saveItem, deleteItem, toggleItem, vars

\* The first launch finds an empty file and no one signed in.
LEMMA InitTyped ==
  ASSUME Init
  PROVE  TypeOK
  <1>1. StoreTypeOK
    BY DEF Init, StoreInit, StoreTypeOK, Store, EmptyStore
  <1>2. AuthTypeOK
    BY EmptySeq DEF Init, AuthInit, AuthTypeOK, Call
  <1>3. UiTypeOK
    BY DEF Init, UiTypeOK
  <1>4. QED
    BY <1>1, <1>2, <1>3 DEF TypeOK

\* Every variable keeps its type, and every alert and every captured category
\* keeps to the screen it belongs to.
THEOREM TypeCorrect == Spec => []TypeOK
  <1>1. Init => TypeOK
    BY InitTyped
  <1>2. TypeOK /\ [Next]_vars => TypeOK'
    BY StoreStep, AuthStep, UiStep DEF TypeOK
  <1>3. QED
    BY <1>1, <1>2, PTL DEF Spec

-----------------------------------------------------------------------------
(* The inductive invariant, one lemma per part.                            *)

\* A call that has an answer to handle has its user.
LEMMA CallTyped ==
  ASSUME TypeOK, NEW s \in Slots, calls[s].stage # "idle"
  PROVE  calls[s] \in [stage : Stages, kind : {LOGIN, SIGNUP}, user : Users]
  BY DEF TypeOK, AuthTypeOK, Call, NoCall

\* No call and no signed-in user outlives the process.
LEMMA OffInvStep ==
  ASSUME TypeOK, OffInv, [Next]_vars
  PROVE  OffInv'
  <1>1. ASSUME NEW why, Stop(why) PROVE OffInv'
    BY <1>1 DEF Stop, AuthStopped, NoCall, OffInv, UnderWay
  <1>2. CASE screen' # "off"
    BY <1>2 DEF OffInv
  <1>3. CASE UNCHANGED <<authVars, screen>>
    BY <1>3 DEF OffInv, UnderWay, authVars
  <1>4. ASSUME NEW s \in Slots, Background(s) PROVE OffInv'
    BY <1>4 DEF Background, ServerAccepts, CallFails, SignedIn, SignInFailed, OffInv,
                UnderWay, uiVars
  <1>5. ASSUME NEW s \in Slots, Completed(s), calls[s].stage \in {"ok", "failed"},
               screen' = screen
        PROVE  OffInv'
    BY <1>5 DEF Completed, OffInv, UnderWay
  <1>6. QED
    BY <1>1, <1>2, <1>3, <1>4, <1>5
       DEF Next, User, Completion, Kill, Launch, Launched, handleStart, toggleAuthType,
           StartFailed, StartSucceeded, Presented, addCategory, swipeCategory,
           addItem, Asks, cancel, Writes, saveCategory, confirmDelete, saveItem,
           deleteItem, toggleItem, selectCategory, back, authAndLogin, uiVars, vars

\* The work queue makes the user current before it posts the block, and only
\* the end of the process takes it away.
LEMMA AuthInvStep ==
  ASSUME TypeOK, OffInv, AuthInv, [Next]_vars
  PROVE  AuthInv'
  <1>1. ASSUME NEW s \in Slots, NEW u \in Users, handleStart(s, u) PROVE AuthInv'
    BY <1>1 DEF handleStart, Sent, AuthInv, TypeOK, AuthTypeOK, authVars
  <1>2. ASSUME NEW s \in Slots, Completed(s) PROVE AuthInv'
    BY <1>2 DEF Completed, NoCall, AuthInv, TypeOK, AuthTypeOK
  <1>3. ASSUME NEW s \in Slots, ServerAccepts(s) PROVE AuthInv'
    BY <1>3, CallTyped DEF ServerAccepts, AuthInv, TypeOK, AuthTypeOK
  <1>4. ASSUME NEW s \in Slots, CallFails(s) PROVE AuthInv'
    BY <1>4, CallTyped DEF CallFails, AuthInv, TypeOK, AuthTypeOK
  <1>5. ASSUME NEW s \in Slots, SignedIn(s) PROVE AuthInv'
    BY <1>5, CallTyped DEF SignedIn, Posted, AuthInv, TypeOK, AuthTypeOK
  <1>6. ASSUME NEW s \in Slots, SignInFailed(s) PROVE AuthInv'
    BY <1>6, CallTyped DEF SignInFailed, Posted, AuthInv, TypeOK, AuthTypeOK
  <1>7. ASSUME NEW why, Stop(why) PROVE AuthInv'
    BY <1>7 DEF Stop, AuthStopped, NoCall, AuthInv
  <1>8. CASE Launch
    <2>1. \A s \in Slots : calls[s].stage = "idle"
      BY <1>8 DEF Launch, Launched, OffInv, UnderWay
    <2>2. QED
      BY <1>8, <2>1 DEF Launch, Launched, AuthLoaded, AuthInv
  <1>9. ASSUME UNCHANGED authVars PROVE AuthInv'
    BY <1>9 DEF authVars, AuthInv
  <1>10. QED
    BY <1>1, <1>2, <1>3, <1>4, <1>5, <1>6, <1>7, <1>8, <1>9
       DEF Next, User, Background, Completion, Kill, toggleAuthType, StartFailed,
           StartSucceeded, Presented, addCategory, swipeCategory, addItem, Asks,
           cancel, Writes, saveCategory, confirmDelete, saveItem, deleteItem,
           toggleItem, selectCategory, back, authAndLogin, vars

\* A session starts under a user of this launch and keeps it; the server
\* never loses an account.
LEMMA SessionStep ==
  ASSUME TypeOK, AuthInv, SessionAuthenticated, NeverUnauthorized, [Next]_vars
  PROVE  SessionAuthenticated' /\ NeverUnauthorized'
  <1> DEFINE Goal == SessionAuthenticated' /\ NeverUnauthorized'
  <1>1. ASSUME NEW s \in Slots, Background(s) PROVE Goal
    BY <1>1 DEF Background, ServerAccepts, CallFails, SignedIn, SignInFailed, uiVars,
                SessionAuthenticated, NeverUnauthorized
  <1>2. ASSUME NEW s \in Slots, StartSucceeded(s) PROVE Goal
    <2>1. calls[s].stage = "ok"
      BY <1>2 DEF StartSucceeded
    <2>2. currentUser \in signedIn /\ currentUser \in registered
      BY <1>2, <2>1 DEF AuthInv
    <2>3. Completed(s) /\ Presented /\ UNCHANGED crash
      BY <1>2, <2>2, NobodyAssumption DEF StartSucceeded, TypeOK, AuthTypeOK
    <2>4. CASE screen = "login"
      BY <2>2, <2>3, <2>4 DEF Completed, Presented, SessionAuthenticated, NeverUnauthorized
    <2>5. CASE screen # "login"
      BY <2>3, <2>5 DEF Completed, Presented, SessionAuthenticated, NeverUnauthorized
    <2>6. QED
      BY <2>4, <2>5
  <1>3. ASSUME NEW why \in {"killed", "alreadyInWrite"}, Stop(why) PROVE Goal
    BY <1>3 DEF Stop, SessionAuthenticated, NeverUnauthorized
  <1>4. CASE UNCHANGED <<registered, signedIn, uid, crash>>
             /\ (screen' \in {"categories", "items"} => screen \in {"categories", "items"})
    BY <1>4 DEF SessionAuthenticated, NeverUnauthorized
  <1>5. CASE Launch
    BY <1>5 DEF Launch, Launched, SessionAuthenticated, NeverUnauthorized
  <1>6. QED
    BY <1>1, <1>2, <1>3, <1>4, <1>5
       DEF Next, User, Completion, Kill, handleStart, Sent, toggleAuthType, StartFailed,
           Completed, addCategory, swipeCategory, addItem, Asks, OnCategories, OnItems,
           cancel, Writes, saveCategory, confirmDelete, saveItem, deleteItem, toggleItem,
           selectCategory, back, authAndLogin, authVars, uiVars, vars

\* The HUD goes up with a call, and the call that ends takes it down.
LEMMA HudStep ==
  ASSUME TypeOK, HudMeansCall, [Next]_vars
  PROVE  HudMeansCall'
  <1>1. ASSUME NEW s \in Slots, NEW u \in Users, handleStart(s, u) PROVE HudMeansCall'
    <2>1. authType \in {LOGIN, SIGNUP}
      BY <1>1 DEF handleStart, TypeOK, UiTypeOK
    <2>2. Sent(s, authType, u)
      BY <1>1, <2>1 DEF handleStart
    <2>3. calls'[s].stage = "sent"
      BY <2>2 DEF Sent, TypeOK, AuthTypeOK
    <2>4. QED
      BY <2>3 DEF HudMeansCall, UnderWay
  <1>2. ASSUME NEW s \in Slots, Background(s) PROVE HudMeansCall'
    <2>1. UNCHANGED hud
      BY <1>2 DEF Background, uiVars
    <2>2. calls'[s].stage # "idle" /\ \A t \in Slots \ {s} : calls'[t] = calls[t]
      <3>1. calls[s] \in [stage : Stages, kind : {LOGIN, SIGNUP}, user : Users]
        BY <1>2, CallTyped DEF Background, ServerAccepts, CallFails, SignedIn, SignInFailed
      <3>2. \E stage \in Stages : calls' = [calls EXCEPT ![s].stage = stage]
        BY <1>2 DEF Background, ServerAccepts, CallFails, SignedIn, SignInFailed, Posted,
                    Stages
      <3>3. QED
        BY <1>2, <3>1, <3>2 DEF Stages, TypeOK, AuthTypeOK
    <2>3. QED
      BY <1>2, <2>1, <2>2 DEF HudMeansCall, UnderWay
  <1>3. CASE hud' = FALSE
    BY <1>3 DEF HudMeansCall
  <1>4. CASE UNCHANGED <<hud, calls>>
    BY <1>4 DEF HudMeansCall, UnderWay
  <1>5. QED
    BY <1>1, <1>2, <1>3, <1>4
       DEF Next, User, Completion, Kill, Launch, Launched, AuthLoaded, Stop,
           toggleAuthType, StartFailed, StartSucceeded, Presented, addCategory,
           swipeCategory, addItem, Asks, cancel, Writes, saveCategory, confirmDelete,
           saveItem, deleteItem, toggleItem, selectCategory, back, authAndLogin,
           authVars, uiVars, vars

\* Each block keeps an item in at most one list, and lists free of deleted items.
LEMMA BlocksKeepLists ==
  ASSUME NEW s \in Store, Lists(s)
  PROVE  /\ \A c \in Cats, u \in Users : Lists(WithCategory(s, c, u))
         /\ \A c \in Cats : Lists(WithoutCategory(s, c))
         /\ \A c \in CategoriesIn(s), i \in Items \ ItemsIn(s) : Lists(WithItem(s, c, i))
         /\ \A i \in Items : Lists(WithoutItem(s, i))
         /\ \A i \in ItemsIn(s) : Lists(Toggled(s, i))
  <1>1. ASSUME NEW c \in Cats, NEW u \in Users PROVE Lists(WithCategory(s, c, u))
    BY NobodyAssumption DEF Lists, WithCategory, Store, CategoriesIn, ItemsIn
  <1>2. ASSUME NEW c \in Cats PROVE Lists(WithoutCategory(s, c))
    BY DEF Lists, WithoutCategory, Store, CategoriesIn, ItemsIn
  <1>3. ASSUME NEW c \in CategoriesIn(s), NEW i \in Items \ ItemsIn(s)
        PROVE  Lists(WithItem(s, c, i))
    <2>1. \A d \in Cats : i \notin s.items[d]
      BY DEF Lists
    <2>2. QED
      BY <2>1 DEF Lists, WithItem, Store, CategoriesIn, ItemsIn
  <1>4. ASSUME NEW i \in Items PROVE Lists(WithoutItem(s, i))
    BY DEF Lists, WithoutItem, Store, CategoriesIn, ItemsIn
  <1>5. ASSUME NEW i \in ItemsIn(s) PROVE Lists(Toggled(s, i))
    BY DEF Lists, Toggled, Store, CategoriesIn, ItemsIn
  <1>6. QED
    BY <1>1, <1>2, <1>3, <1>4, <1>5

StoreInv == UsedInv /\ OneListPerItem /\ DurableUnlessCommitFailed /\ OwnersRegistered

\* A write keeps the store's invariants when its block does.
LEMMA WritesKeepStoreInv ==
  ASSUME TypeOK, StoreInv, NEW new \in Store, NEW made, Writes(new, made),
         Lists(new),
         CategoriesIn(new) \cup ItemsIn(new) \subseteq
           CategoriesIn(db) \cup ItemsIn(db) \cup made,
         \A c \in CategoriesIn(new) :
           new.owner[c] = db.owner[c] \/ new.owner[c] \in registered
  PROVE  StoreInv'
  <1>1. CASE Written(new) /\ used' = used \cup made /\ UNCHANGED registered
    <2>1. UsedInv'
      BY <1>1 DEF StoreInv, UsedInv, Written, Committed, CommitFailed
    <2>2. OneListPerItem' /\ DurableUnlessCommitFailed'
      BY <1>1 DEF StoreInv, OneListPerItem, Lists, CategoriesIn, ItemsIn,
                  DurableUnlessCommitFailed, Written, Committed, CommitFailed
    <2>3. OwnersRegistered'
      <3>1. CASE Committed(new)
        <4>1. db = disk
          BY <3>1 DEF Committed, StoreInv, DurableUnlessCommitFailed
        <4>2. \A c \in CategoriesIn(new) : new.owner[c] \in registered
          BY <4>1 DEF StoreInv, OwnersRegistered, CategoriesIn
        <4>3. QED
          BY <1>1, <3>1, <4>2 DEF Committed, OwnersRegistered, CategoriesIn
      <3>2. CASE CommitFailed(new)
        BY <1>1, <3>2 DEF CommitFailed, StoreInv, OwnersRegistered, CategoriesIn
      <3>3. QED
        BY <1>1, <3>1, <3>2 DEF Written
    <2>4. QED
      BY <2>1, <2>2, <2>3 DEF StoreInv
  <1>2. CASE Stop("alreadyInWrite")
    BY <1>2 DEF Stop, StoreReopened, AuthStopped, StoreInv, UsedInv, OneListPerItem, Lists,
                DurableUnlessCommitFailed, OwnersRegistered, CategoriesIn, ItemsIn
  <1>3. QED
    BY <1>1, <1>2 DEF Writes, authAndLogin, authVars

LEMMA StoreInvStep ==
  ASSUME TypeOK, StoreInv, SessionAuthenticated, HeldCategoriesLive, [Next]_vars
  PROVE  StoreInv'
  <1>a. db \in Store /\ Lists(db)
    BY DEF TypeOK, StoreTypeOK, StoreInv, OneListPerItem
  <1>1. ASSUME NEW c \in Cats, saveCategory(c) PROVE StoreInv'
    <2> DEFINE new == WithCategory(db, c, uid)
    <2>1. uid \in Users /\ uid \in registered
      BY <1>1 DEF saveCategory, TypeOK, UiTypeOK, SessionAuthenticated
    <2>2. new \in Store /\ Lists(new)
      BY <1>a, <2>1, BlocksKeepLists DEF Store, WithCategory
    <2>3. CategoriesIn(new) \cup ItemsIn(new) \subseteq CategoriesIn(db) \cup ItemsIn(db) \cup {c}
      BY <1>a, <2>1 DEF WithCategory, Store, CategoriesIn, ItemsIn
    <2>4. \A d \in CategoriesIn(new) : new.owner[d] = db.owner[d] \/ new.owner[d] \in registered
      BY <1>a, <2>1 DEF WithCategory, Store, CategoriesIn
    <2>5. Writes(new, {c})
      BY <1>1 DEF saveCategory
    <2> HIDE DEF new
    <2>6. QED
      BY <2>2, <2>3, <2>4, <2>5, WritesKeepStoreInv
  <1>2. CASE confirmDelete
    <2> DEFINE new == WithoutCategory(db, deleting)
    <2>1. deleting \in Cats
      BY <1>2 DEF confirmDelete, TypeOK, UiTypeOK
    <2>2. new \in Store /\ Lists(new)
      BY <1>a, <2>1, BlocksKeepLists DEF Store, WithoutCategory
    <2>3. CategoriesIn(new) \cup ItemsIn(new) \subseteq CategoriesIn(db) \cup ItemsIn(db) \cup {}
      BY <1>a, <2>1 DEF WithoutCategory, Store, CategoriesIn, ItemsIn
    <2>4. \A d \in CategoriesIn(new) : new.owner[d] = db.owner[d] \/ new.owner[d] \in registered
      BY <1>a, <2>1 DEF WithoutCategory, Store, CategoriesIn
    <2>5. Writes(new, {})
      BY <1>2 DEF confirmDelete
    <2> HIDE DEF new
    <2>6. QED
      BY <2>2, <2>3, <2>4, <2>5, WritesKeepStoreInv
  <1>3. ASSUME NEW i \in Items, saveItem(i) PROVE StoreInv'
    <2> DEFINE new == WithItem(db, selectedCategory, i)
    <2>1. selectedCategory \in CategoriesIn(db) /\ i \in Items \ ItemsIn(db)
      BY <1>3 DEF saveItem, TypeOK, UiTypeOK, HeldCategoriesLive, Rows, StoreInv, UsedInv
    <2>2. new \in Store /\ Lists(new)
      BY <1>a, <2>1, BlocksKeepLists DEF Store, WithItem, CategoriesIn
    <2>3. CategoriesIn(new) \cup ItemsIn(new) \subseteq CategoriesIn(db) \cup ItemsIn(db) \cup {i}
      BY <1>a, <2>1 DEF WithItem, Store, CategoriesIn, ItemsIn
    <2>4. \A d \in CategoriesIn(new) : new.owner[d] = db.owner[d] \/ new.owner[d] \in registered
      BY <1>a, <2>1 DEF WithItem, Store, CategoriesIn
    <2>5. Writes(new, {i})
      BY <1>3 DEF saveItem
    <2> HIDE DEF new
    <2>6. QED
      BY <2>2, <2>3, <2>4, <2>5, WritesKeepStoreInv
  <1>4. ASSUME NEW i \in Items, deleteItem(i) PROVE StoreInv'
    <2> DEFINE new == WithoutItem(db, i)
    <2>2. new \in Store /\ Lists(new)
      BY <1>a, <1>4, BlocksKeepLists DEF Store, WithoutItem
    <2>3. CategoriesIn(new) \cup ItemsIn(new) \subseteq CategoriesIn(db) \cup ItemsIn(db) \cup {}
      BY <1>a, <1>4 DEF WithoutItem, Store, CategoriesIn, ItemsIn
    <2>4. \A d \in CategoriesIn(new) : new.owner[d] = db.owner[d] \/ new.owner[d] \in registered
      BY <1>a DEF WithoutItem, Store, CategoriesIn
    <2>5. Writes(new, {})
      BY <1>4 DEF deleteItem
    <2> HIDE DEF new
    <2>6. QED
      BY <2>2, <2>3, <2>4, <2>5, WritesKeepStoreInv
  <1>5. ASSUME NEW i \in Items, toggleItem(i) PROVE StoreInv'
    <2> DEFINE new == Toggled(db, i)
    <2>1. i \in ItemsIn(db)
      BY <1>a, <1>5 DEF toggleItem, OnItems, TypeOK, UiTypeOK, Lists
    <2>2. new \in Store /\ Lists(new)
      BY <1>a, <2>1, BlocksKeepLists DEF Store, Toggled
    <2>3. CategoriesIn(new) \cup ItemsIn(new) \subseteq CategoriesIn(db) \cup ItemsIn(db) \cup {}
      BY <1>a, <2>1 DEF Toggled, Store, CategoriesIn, ItemsIn
    <2>4. \A d \in CategoriesIn(new) : new.owner[d] = db.owner[d] \/ new.owner[d] \in registered
      BY <1>a DEF Toggled, Store, CategoriesIn
    <2>5. Writes(new, {})
      BY <1>5 DEF toggleItem
    <2> HIDE DEF new
    <2>6. QED
      BY <2>2, <2>3, <2>4, <2>5, WritesKeepStoreInv
  <1>6. ASSUME NEW why, Stop(why) PROVE StoreInv'
    BY <1>6 DEF Stop, StoreReopened, AuthStopped, StoreInv, UsedInv, OneListPerItem, Lists,
                DurableUnlessCommitFailed, OwnersRegistered, CategoriesIn, ItemsIn
  <1>7. ASSUME UNCHANGED storeVars, registered \subseteq registered' PROVE StoreInv'
    BY <1>7 DEF storeVars, StoreInv, UsedInv, OneListPerItem, Lists,
                DurableUnlessCommitFailed, OwnersRegistered, CategoriesIn, ItemsIn
  <1>8. QED
    BY <1>1, <1>2, <1>3, <1>4, <1>5, <1>6, <1>7
       DEF Next, User, Background, Completion, Launch, Launched, AuthLoaded, Kill,
           toggleAuthType, handleStart, Sent, ServerAccepts, CallFails, SignedIn,
           SignInFailed, StartFailed, StartSucceeded, Completed,
           addCategory, swipeCategory, addItem, Asks, cancel, selectCategory, back,
           authAndLogin, authVars, vars

\* The delete alert and the item screen keep a category that is still there:
\* nothing else runs while an alert is up, and a block that runs on the item
\* screen changes no owner.
LEMMA HeldStep ==
  ASSUME TypeOK, HeldCategoriesLive, [Next]_vars
  PROVE  HeldCategoriesLive'
  <1>1. ASSUME NEW new, NEW made, Writes(new, made),
               screen = "items" => new.owner = db.owner
        PROVE  HeldCategoriesLive'
    BY <1>1 DEF Writes, Written, Committed, CommitFailed, Stop, authAndLogin,
                HeldCategoriesLive, Rows, CategoriesIn
  <1>2. ASSUME NEW c \in Cats, saveCategory(c) PROVE HeldCategoriesLive'
    BY <1>1, <1>2 DEF saveCategory, TypeOK, UiTypeOK
  <1>3. CASE confirmDelete
    BY <1>1, <1>3 DEF confirmDelete, TypeOK, UiTypeOK
  <1>4. ASSUME NEW i \in Items, saveItem(i) PROVE HeldCategoriesLive'
    BY <1>1, <1>4 DEF saveItem, WithItem, TypeOK, StoreTypeOK, Store
  <1>5. ASSUME NEW i \in Items, deleteItem(i) PROVE HeldCategoriesLive'
    BY <1>1, <1>5 DEF deleteItem, WithoutItem, TypeOK, StoreTypeOK, Store
  <1>6. ASSUME NEW i \in Items, toggleItem(i) PROVE HeldCategoriesLive'
    BY <1>1, <1>6 DEF toggleItem, Toggled, TypeOK, StoreTypeOK, Store
  <1>7. ASSUME NEW why, Stop(why) PROVE HeldCategoriesLive'
    BY <1>7 DEF Stop, HeldCategoriesLive
  <1>8. ASSUME NEW c \in Cats, swipeCategory(c) PROVE HeldCategoriesLive'
    BY <1>8 DEF swipeCategory, Asks, OnCategories, HeldCategoriesLive, Rows, CategoriesIn,
                storeVars, authAndLogin
  <1>9. ASSUME NEW c \in Cats, selectCategory(c) PROVE HeldCategoriesLive'
    BY <1>9 DEF selectCategory, OnCategories, HeldCategoriesLive, Rows, CategoriesIn,
                storeVars, authAndLogin
  <1>10. CASE screen' # "items" /\ alert' # "deleteCategory"
    BY <1>10 DEF HeldCategoriesLive
  <1>11. CASE UNCHANGED <<db, uid, screen, alert, deleting, selectedCategory>>
    BY <1>11 DEF HeldCategoriesLive, Rows, CategoriesIn
  <1>12. CASE UNCHANGED <<db, uid, screen, selectedCategory>> /\ alert' # "deleteCategory"
    BY <1>12 DEF HeldCategoriesLive, Rows, CategoriesIn
  <1>13. QED
    BY <1>2, <1>3, <1>4, <1>5, <1>6, <1>7, <1>8, <1>9, <1>10, <1>11, <1>12
       DEF Next, User, Background, Completion, Launch, Launched, Kill, toggleAuthType,
           handleStart, StartFailed, StartSucceeded, Presented, addCategory, addItem,
           Asks, cancel, back, OnItems, OnCategories, TypeOK, UiTypeOK, storeVars,
           authAndLogin, uiVars, vars

\* The inductive invariant holds throughout.
THEOREM Inductive == Spec => []IInv
  <1>1. Init => IInv
    <2> SUFFICES ASSUME Init PROVE IInv
      OBVIOUS
    <2>1. TypeOK
      BY InitTyped
    <2>2. OffInv /\ AuthInv /\ SessionAuthenticated /\ NeverUnauthorized /\ HudMeansCall
      BY DEF Init, AuthInit, NoCall, OffInv, AuthInv, UnderWay, SessionAuthenticated,
             NeverUnauthorized, HudMeansCall
    <2>3. UsedInv /\ OneListPerItem /\ DurableUnlessCommitFailed /\ OwnersRegistered
      BY DEF Init, StoreInit, EmptyStore, UsedInv, OneListPerItem, Lists,
             DurableUnlessCommitFailed, OwnersRegistered, CategoriesIn, ItemsIn
    <2>4. HeldCategoriesLive
      BY DEF Init, HeldCategoriesLive
    <2>5. QED
      BY <2>1, <2>2, <2>3, <2>4 DEF IInv
  <1>2. IInv /\ [Next]_vars => IInv'
    <2> SUFFICES ASSUME IInv, [Next]_vars PROVE IInv'
      OBVIOUS
    <2>1. TypeOK'
      BY StoreStep, AuthStep, UiStep DEF TypeOK, IInv
    <2>2. OffInv' /\ AuthInv'
      BY OffInvStep, AuthInvStep DEF IInv
    <2>3. SessionAuthenticated' /\ NeverUnauthorized' /\ HudMeansCall'
      BY SessionStep, HudStep DEF IInv
    <2>4. StoreInv'
      BY StoreInvStep DEF IInv, StoreInv
    <2>5. HeldCategoriesLive'
      BY HeldStep DEF IInv
    <2>6. QED
      BY <2>1, <2>2, <2>3, <2>4, <2>5 DEF IInv, StoreInv
  <1>3. QED
    BY <1>1, <1>2, PTL DEF Spec

-----------------------------------------------------------------------------
(* What follows from the inductive invariant.                              *)

\* Each safety invariant the runs check, for any number of accounts, categories,
\* items and calls, is a part of the inductive one.

\* Whatever two sign-ins do at the same time, the session's uid is a user that
\* this launch signed in: viewDidLoad of the category screen took it from
\* currentUser, not from the completion block that opened the screen.
THEOREM Session == Spec => []SessionAuthenticated
  <1>1. IInv => SessionAuthenticated
    BY DEF IInv
  <1>2. QED
    BY <1>1, Inductive, PTL

\* The category screen never reaches its fatalError: a user is current whenever
\* a completion block opens it.
THEOREM Authorized == Spec => []NeverUnauthorized
  <1>1. IInv => NeverUnauthorized
    BY DEF IInv
  <1>2. QED
    BY <1>1, Inductive, PTL

\* Every category in the file belongs to an account the server knows.
THEOREM Owners == Spec => []OwnersRegistered
  <1>1. IInv => OwnersRegistered
    BY DEF IInv
  <1>2. QED
    BY <1>1, Inductive, PTL

\* The category that the delete alert captured, or the item screen shows, is
\* still in Realm and on the session's list when it is used.
THEOREM Held == Spec => []HeldCategoriesLive
  <1>1. IInv => HeldCategoriesLive
    BY DEF IInv
  <1>2. QED
    BY <1>1, Inductive, PTL

\* Every item Realm holds in a list is in that one list only, and in one of the
\* two states, through failed commits, crashes and launches.
THEOREM Unshared == Spec => []OneListPerItem
  <1>1. IInv => OneListPerItem
    BY DEF IInv
  <1>2. QED
    BY <1>1, Inductive, PTL

\* The screens show what the file holds, unless a commit has failed and left its
\* transaction open.
THEOREM Durable == Spec => []DurableUnlessCommitFailed
  <1>1. IInv => DurableUnlessCommitFailed
    BY DEF IInv
  <1>2. QED
    BY <1>1, Inductive, PTL

\* The HUD is on the screen only over a sign-in call that is still under way.
THEOREM Hud == Spec => []HudMeansCall
  <1>1. IInv => HudMeansCall
    BY DEF IInv
  <1>2. QED
    BY <1>1, Inductive, PTL

\* A step that commits starts from objects equal to the file and writes to the
\* session's own category, or to a new one.
LEMMA ForeignStep ==
  ASSUME IInv, [Next]_vars
  PROVE  ForeignKept
  <1>a. disk \in Store
    BY DEF IInv, TypeOK, StoreTypeOK
  <1>1. CASE UNCHANGED disk
    BY <1>1 DEF ForeignKept
  <1>2. ASSUME NEW new, NEW made, Writes(new, made), db = disk /\ disk' = new => ForeignKept
        PROVE  ForeignKept
    BY <1>1, <1>2 DEF Writes, Written, Committed, CommitFailed, Stop, StoreReopened,
                      IInv, DurableUnlessCommitFailed
  <1>3. ASSUME NEW c \in Cats, saveCategory(c) PROVE ForeignKept
    <2>1. c \notin CategoriesIn(disk)
      BY <1>3 DEF saveCategory, IInv, UsedInv
    <2>2. disk' = WithCategory(disk, c, uid) => ForeignKept
      BY <1>a, <2>1 DEF WithCategory, ForeignKept, Store, CategoriesIn
    <2>3. QED
      BY <1>2, <1>3, <2>2 DEF saveCategory
  <1>4. CASE confirmDelete
    <2>1. db = disk => deleting \in Cats /\ <<disk.owner[deleting], uid>> \in SameFolded
      BY <1>4 DEF confirmDelete, IInv, HeldCategoriesLive, Rows, CategoriesIn
    <2>2. db = disk /\ disk' = WithoutCategory(disk, deleting) => ForeignKept
      BY <1>a, <2>1 DEF WithoutCategory, ForeignKept, Store, CategoriesIn
    <2>3. QED
      BY <1>2, <1>4, <2>2 DEF confirmDelete
  <1>b. screen = "items" /\ db = disk =>
          selectedCategory \in Cats /\ <<disk.owner[selectedCategory], uid>> \in SameFolded
    BY DEF IInv, HeldCategoriesLive, Rows, CategoriesIn
  <1>5. ASSUME NEW i \in Items, saveItem(i) PROVE ForeignKept
    <2>1. screen = "items"
      BY <1>5 DEF saveItem, IInv, TypeOK, UiTypeOK
    <2>2. \A c \in Cats : i \notin disk.items[c]
      BY <1>5 DEF saveItem, IInv, UsedInv, OneListPerItem, Lists
    <2>3. db = disk /\ disk' = WithItem(disk, selectedCategory, i) => ForeignKept
      BY <1>a, <1>b, <2>1, <2>2 DEF WithItem, ForeignKept, Store, CategoriesIn
    <2>4. QED
      BY <1>2, <1>5, <2>3 DEF saveItem
  <1>c. ASSUME NEW i \in Items, i \in db.items[selectedCategory], screen = "items", db = disk,
               NEW c \in Cats, <<disk.owner[c], uid>> \notin SameFolded
        PROVE  i \notin disk.items[c]
    BY <1>b, <1>c DEF IInv, OneListPerItem, Lists
  <1>6. ASSUME NEW i \in Items, deleteItem(i) PROVE ForeignKept
    <2>1. screen = "items" /\ i \in db.items[selectedCategory]
      BY <1>6 DEF deleteItem, OnItems
    <2>2. db = disk /\ disk' = WithoutItem(disk, i) => ForeignKept
      BY <1>a, <1>c, <2>1 DEF WithoutItem, ForeignKept, Store, CategoriesIn
    <2>3. QED
      BY <1>2, <1>6, <2>2 DEF deleteItem
  <1>7. ASSUME NEW i \in Items, toggleItem(i) PROVE ForeignKept
    <2>1. screen = "items" /\ i \in db.items[selectedCategory]
      BY <1>7 DEF toggleItem, OnItems
    <2>2. db = disk /\ disk' = Toggled(disk, i) => ForeignKept
      BY <1>a, <1>c, <2>1 DEF Toggled, ForeignKept, Store, CategoriesIn
    <2>3. QED
      BY <1>2, <1>7, <2>2 DEF toggleItem
  <1>8. QED
    BY <1>1, <1>3, <1>4, <1>5, <1>6, <1>7
       DEF Next, User, Background, Completion, Launch, Launched, Kill, Stop, StoreReopened,
           toggleAuthType, handleStart, StartFailed, StartSucceeded, Presented,
           addCategory, swipeCategory, addItem, Asks, cancel, selectCategory, back,
           storeVars, vars

\* A session never changes what another account has in the file.
THEOREM ForeignSafe == Spec => ForeignDataUntouched
  <1>1. IInv /\ [Next]_vars => [ForeignKept]_vars
    BY ForeignStep
  <1>2. QED
    BY <1>1, Inductive, PTL DEF Spec, ForeignDataUntouched

-----------------------------------------------------------------------------
(* The file implements TodoLists: what each block does to the lists.       *)

LEMMA AddsList ==
  ASSUME NEW s \in Store, Lists(s), NEW c \in Cats, s.owner[c] = Nobody, NEW u \in Users
  PROVE  /\ OwnedIn(WithCategory(s, c, u)) = [OwnedIn(s) EXCEPT ![u] = @ \cup {c}]
         /\ EntriesIn(WithCategory(s, c, u)) = EntriesIn(s)
  <1> DEFINE n == WithCategory(s, c, u)
  <1>1. n.owner = [s.owner EXCEPT ![c] = u] /\ n.items = s.items /\ n.state = s.state
    BY DEF Store, WithCategory
  <1>2. \A v \in Users : {d \in Cats : n.owner[d] = v} =
          IF v = u THEN {d \in Cats : s.owner[d] = v} \cup {c} ELSE {d \in Cats : s.owner[d] = v}
    BY <1>1, NobodyAssumption DEF Store
  <1>3. EntriesIn(n) = EntriesIn(s)
    BY <1>1 DEF EntriesIn
  <1> HIDE DEF n
  <1>4. OwnedIn(n) = [OwnedIn(s) EXCEPT ![u] = @ \cup {c}]
    <2>1. \A v \in Users : OwnedIn(n)[v] = IF v = u THEN OwnedIn(s)[v] \cup {c} ELSE OwnedIn(s)[v]
      BY <1>2 DEF OwnedIn
    <2>2. /\ OwnedIn(n) = [v \in Users |-> OwnedIn(n)[v]]
          /\ OwnedIn(s) = [v \in Users |-> OwnedIn(s)[v]]
      BY DEF OwnedIn
    <2>3. QED
      BY <2>1, <2>2
  <1>5. QED
    BY <1>3, <1>4 DEF n

LEMMA DropsList ==
  ASSUME NEW s \in Store, NEW c \in Cats, s.owner[c] \in Users
  PROVE  /\ OwnedIn(WithoutCategory(s, c)) = [OwnedIn(s) EXCEPT ![s.owner[c]] = @ \ {c}]
         /\ EntriesIn(WithoutCategory(s, c)) = [EntriesIn(s) EXCEPT ![c] = {}]
  <1> DEFINE n == WithoutCategory(s, c)
  <1>1. /\ n.owner = [s.owner EXCEPT ![c] = Nobody]
        /\ n.items = [s.items EXCEPT ![c] = {}]
        /\ n.state = s.state
    BY DEF Store, WithoutCategory
  <1>2. \A v \in Users : {d \in Cats : n.owner[d] = v} =
          IF v = s.owner[c] THEN {d \in Cats : s.owner[d] = v} \ {c}
                            ELSE {d \in Cats : s.owner[d] = v}
    BY <1>1, NobodyAssumption DEF Store
  <1>3. \A d \in Cats : {<<i, n.state[i]>> : i \in n.items[d]} =
          IF d = c THEN {} ELSE {<<i, s.state[i]>> : i \in s.items[d]}
    BY <1>1 DEF Store
  <1> HIDE DEF n
  <1>4. OwnedIn(n) = [OwnedIn(s) EXCEPT ![s.owner[c]] = @ \ {c}]
    BY <1>2 DEF OwnedIn
  <1>5. EntriesIn(n) = [EntriesIn(s) EXCEPT ![c] = {}]
    BY <1>3 DEF EntriesIn
  <1>6. QED
    BY <1>4, <1>5 DEF n

LEMMA AddsEntry ==
  ASSUME NEW s \in Store, NEW c \in Cats, NEW i \in Items, \A d \in Cats : i \notin s.items[d]
  PROVE  /\ OwnedIn(WithItem(s, c, i)) = OwnedIn(s)
         /\ EntriesIn(WithItem(s, c, i)) = [EntriesIn(s) EXCEPT ![c] = @ \cup {<<i, "todo">>}]
  <1> DEFINE n == WithItem(s, c, i)
  <1>1. /\ n.owner = s.owner
        /\ n.items = [s.items EXCEPT ![c] = @ \cup {i}]
        /\ n.state = [s.state EXCEPT ![i] = "todo"]
    BY DEF Store, WithItem
  <1>2. OwnedIn(n) = OwnedIn(s)
    BY <1>1 DEF OwnedIn
  <1>3. \A d \in Cats : {<<j, n.state[j]>> : j \in n.items[d]} =
          IF d = c THEN {<<j, s.state[j]>> : j \in s.items[d]} \cup {<<i, "todo">>}
                   ELSE {<<j, s.state[j]>> : j \in s.items[d]}
    BY <1>1 DEF Store
  <1> HIDE DEF n
  <1>4. EntriesIn(n) = [EntriesIn(s) EXCEPT ![c] = @ \cup {<<i, "todo">>}]
    BY <1>3 DEF EntriesIn
  <1>5. QED
    BY <1>2, <1>4 DEF n

LEMMA DropsEntry ==
  ASSUME NEW s \in Store, Lists(s), NEW c \in Cats, NEW i \in s.items[c]
  PROVE  /\ OwnedIn(WithoutItem(s, i)) = OwnedIn(s)
         /\ EntriesIn(WithoutItem(s, i)) =
              [EntriesIn(s) EXCEPT ![c] = @ \ {<<i, s.state[i]>>}]
  <1> DEFINE n == WithoutItem(s, i)
  <1>a. i \in Items
    BY DEF Store
  <1>1. /\ n.owner = s.owner
        /\ n.items = [d \in Cats |-> s.items[d] \ {i}]
        /\ n.state = [s.state EXCEPT ![i] = "absent"]
    BY <1>a DEF Store, WithoutItem
  <1>2. OwnedIn(n) = OwnedIn(s)
    BY <1>1 DEF OwnedIn
  <1>3. \A d \in Cats : n.items[d] = IF d = c THEN s.items[d] \ {i} ELSE s.items[d]
    BY <1>1 DEF Lists
  <1>4. \A d \in Cats : {<<j, n.state[j]>> : j \in n.items[d]} =
          IF d = c THEN {<<j, s.state[j]>> : j \in s.items[d]} \ {<<i, s.state[i]>>}
                   ELSE {<<j, s.state[j]>> : j \in s.items[d]}
    BY <1>1, <1>3, <1>a DEF Store, Lists
  <1> HIDE DEF n
  <1>5. EntriesIn(n) = [EntriesIn(s) EXCEPT ![c] = @ \ {<<i, s.state[i]>>}]
    BY <1>4 DEF EntriesIn
  <1>6. QED
    BY <1>2, <1>5 DEF n

LEMMA FlipsEntry ==
  ASSUME NEW s \in Store, Lists(s), NEW c \in Cats, NEW i \in s.items[c]
  PROVE  /\ OwnedIn(Toggled(s, i)) = OwnedIn(s)
         /\ EntriesIn(Toggled(s, i)) =
              [EntriesIn(s) EXCEPT ![c] = (@ \ {<<i, s.state[i]>>})
                                           \cup {<<i, TL!Flip(s.state[i])>>}]
  <1> DEFINE n == Toggled(s, i)
             t == TL!Flip(s.state[i])
  <1>a. i \in Items
    BY DEF Store
  <1>1. /\ n.owner = s.owner
        /\ n.items = s.items
        /\ n.state = [s.state EXCEPT ![i] = t]
    BY <1>a DEF Store, Toggled, TL!Flip
  <1>2. OwnedIn(n) = OwnedIn(s)
    BY <1>1 DEF OwnedIn
  <1> HIDE DEF t
  <1>3. \A d \in Cats : d # c => i \notin s.items[d]
    BY DEF Lists
  <1>4. \A d \in Cats : {<<j, n.state[j]>> : j \in n.items[d]} =
          IF d = c
          THEN ({<<j, s.state[j]>> : j \in s.items[d]} \ {<<i, s.state[i]>>}) \cup {<<i, t>>}
          ELSE {<<j, s.state[j]>> : j \in s.items[d]}
    BY <1>1, <1>3, <1>a DEF Store
  <1> HIDE DEF n
  <1>5. EntriesIn(n) = [EntriesIn(s) EXCEPT ![c] = (@ \ {<<i, s.state[i]>>}) \cup {<<i, t>>}]
    BY <1>4 DEF EntriesIn
  <1>6. QED
    BY <1>2, <1>5 DEF n, t

\* Every step is one change of one list or entry, or changes neither.
LEMMA ListsStep ==
  ASSUME IInv, [Next]_vars
  PROVE  [TL!Next]_(TL!listVars)
  <1> DEFINE Goal == [TL!Next]_(TL!listVars)
  <1>a. disk \in Store /\ Lists(disk)
    BY DEF IInv, TypeOK, StoreTypeOK, OneListPerItem
  <1>1. CASE UNCHANGED disk
    BY <1>1 DEF TL!listVars, OwnedIn, EntriesIn
  <1>2. ASSUME NEW new, NEW made, Writes(new, made), db = disk /\ disk' = new => Goal
        PROVE  Goal
    <2> HIDE DEF Goal
    <2>1. UNCHANGED disk => Goal
      BY <1>1 DEF Goal
    <2>2. QED
      BY <1>2, <2>1 DEF Writes, Written, Committed, CommitFailed, Stop, StoreReopened,
                        IInv, DurableUnlessCommitFailed
  <1>3. ASSUME NEW c \in Cats, saveCategory(c) PROVE Goal
    <2>1. uid \in Users
      BY <1>3 DEF saveCategory, IInv, TypeOK, UiTypeOK
    <2>2. disk.owner[c] = Nobody
      BY <1>3 DEF saveCategory, IInv, UsedInv, CategoriesIn
    <2>3. c \notin TL!Lists
      BY <2>2, NobodyAssumption DEF TL!Lists, OwnedIn
    <2>4. ASSUME disk' = WithCategory(disk, c, uid) PROVE TL!AddList(uid, c)
      BY <1>a, <2>1, <2>2, <2>3, <2>4, AddsList DEF TL!AddList
    <2>5. db = disk /\ disk' = WithCategory(db, c, uid) => TL!Next
      BY <2>1, <2>4 DEF TL!Next
    <2>6. QED
      BY <1>2, <1>3, <2>5 DEF saveCategory
  <1>4. CASE confirmDelete
    <2>1. deleting \in Cats /\ db.owner[deleting] # Nobody
      BY <1>4 DEF confirmDelete, IInv, HeldCategoriesLive, Rows, CategoriesIn
    <2>2. ASSUME db = disk, disk' = WithoutCategory(disk, deleting)
          PROVE  TL!DropList(disk.owner[deleting], deleting)
      <3>1. disk.owner[deleting] \in Users
        BY <1>a, <2>1, <2>2 DEF Store
      <3>2. deleting \in OwnedIn(disk)[disk.owner[deleting]]
        BY <2>1, <3>1 DEF OwnedIn
      <3>3. QED
        BY <1>a, <2>1, <2>2, <3>1, <3>2, DropsList DEF TL!DropList
    <2>3. db = disk /\ disk' = WithoutCategory(db, deleting) => TL!Next
      BY <1>a, <2>1, <2>2 DEF TL!Next, Store
    <2>4. QED
      BY <1>2, <1>4, <2>3 DEF confirmDelete
  <1>5. ASSUME NEW i \in Items, saveItem(i) PROVE Goal
    <2>1. selectedCategory \in Cats /\ db.owner[selectedCategory] # Nobody
      BY <1>5 DEF saveItem, IInv, TypeOK, UiTypeOK, HeldCategoriesLive, Rows, CategoriesIn
    <2>2. \A c \in Cats : i \notin disk.items[c]
      BY <1>5 DEF saveItem, IInv, UsedInv, OneListPerItem, Lists
    <2>3. ASSUME db = disk, disk' = WithItem(disk, selectedCategory, i)
          PROVE  TL!AddEntry(selectedCategory, i)
      <3>1. selectedCategory \in TL!Lists
        BY <1>a, <2>1, <2>3 DEF TL!Lists, OwnedIn, Store
      <3>2. ~TL!Entered(i)
        BY <2>2 DEF TL!Entered, EntriesIn
      <3>3. QED
        BY <1>a, <2>1, <2>2, <2>3, <3>1, <3>2, AddsEntry DEF TL!AddEntry
    <2>4. db = disk /\ disk' = WithItem(db, selectedCategory, i) => TL!Next
      BY <2>1, <2>3 DEF TL!Next
    <2>5. QED
      BY <1>2, <1>5, <2>4 DEF saveItem
  <1>b. ASSUME screen = "items", NEW i \in Items, i \in db.items[selectedCategory], db = disk
        PROVE  /\ selectedCategory \in Cats
               /\ i \in disk.items[selectedCategory]
               /\ disk.state[i] \in {"todo", "done"}
               /\ <<i, disk.state[i]>> \in EntriesIn(disk)[selectedCategory]
    <2>1. selectedCategory \in Cats
      BY <1>b DEF IInv, TypeOK, UiTypeOK
    <2>2. disk.state[i] \in {"todo", "done"}
      BY <1>a, <1>b, <2>1 DEF Lists, ItemsIn, Store
    <2>3. QED
      BY <1>b, <2>1, <2>2 DEF EntriesIn
  <1>6. ASSUME NEW i \in Items, deleteItem(i) PROVE Goal
    <2>1. screen = "items" /\ i \in db.items[selectedCategory]
      BY <1>6 DEF deleteItem, OnItems
    <2>2. ASSUME db = disk, disk' = WithoutItem(disk, i)
          PROVE  TL!DropEntry(selectedCategory, i, disk.state[i])
      BY <1>a, <1>b, <2>1, <2>2, DropsEntry DEF TL!DropEntry
    <2>3. db = disk /\ disk' = WithoutItem(db, i) => TL!Next
      BY <1>b, <2>1, <2>2 DEF TL!Next
    <2>4. QED
      BY <1>2, <1>6, <2>3 DEF deleteItem
  <1>7. ASSUME NEW i \in Items, toggleItem(i) PROVE Goal
    <2>1. screen = "items" /\ i \in db.items[selectedCategory]
      BY <1>7 DEF toggleItem, OnItems
    <2>2. ASSUME db = disk, disk' = Toggled(disk, i)
          PROVE  TL!FlipEntry(selectedCategory, i, disk.state[i])
      BY <1>a, <1>b, <2>1, <2>2, FlipsEntry DEF TL!FlipEntry
    <2>3. db = disk /\ disk' = Toggled(db, i) => TL!Next
      BY <1>b, <2>1, <2>2 DEF TL!Next
    <2>4. QED
      BY <1>2, <1>7, <2>3 DEF toggleItem
  <1>8. QED
    BY <1>1, <1>3, <1>4, <1>5, <1>6, <1>7
       DEF Next, User, Background, Completion, Launch, Launched, Kill, Stop, StoreReopened,
           toggleAuthType, handleStart, StartFailed, StartSucceeded, Presented,
           addCategory, swipeCategory, addItem, Asks, cancel, selectCategory, back,
           storeVars, vars

\* The file implements TodoLists: whatever fails or ends, each account's lists
\* change by one complete operation at a time.
THEOREM Refinement == Spec => ImplementsTodoLists
  <1>1. Init => TL!Init
    <2> SUFFICES ASSUME Init PROVE TL!Init
      OBVIOUS
    <2>1. \A u \in Users : {c \in Cats : disk.owner[c] = u} = {}
      BY NobodyAssumption DEF Init, StoreInit, EmptyStore
    <2>2. \A c \in Cats : {<<i, disk.state[i]>> : i \in disk.items[c]} = {}
      BY DEF Init, StoreInit, EmptyStore
    <2>3. QED
      BY <2>1, <2>2 DEF TL!Init, OwnedIn, EntriesIn
  <1>2. IInv /\ [Next]_vars => [TL!Next]_(TL!listVars)
    BY ListsStep
  <1>3. QED
    BY <1>1, <1>2, Inductive, PTL DEF Spec, ImplementsTodoLists, TL!Spec
=============================================================================
