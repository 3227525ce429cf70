# A TLA+ verification of learn-ios

The repository is a collection of iOS apps and exercises. Three of them have a
protocol worth proving about: **tobedone** (accounts and to-do lists, on
Firebase Auth and Realm), **Flash Chat** (a chat room on Firebase Auth and the
Firebase Realtime Database) and **InspoQuotes** (a purchase through StoreKit).
Of the libraries vendored with them the one with the most demanding code is
**LevelDB**, the store under the Realtime Database's disk cache. This directory
models the three apps with the parts of the libraries they stand on, and
LevelDB's write path, levels and log, checks them with TLC and proves all of them
correct with TLAPS. The other apps are listed below with what is worth modelling in
them.

## Inventory

Paths are under `src/`. "Hard" is what a test would hardly reach.

| Component | State | Operations | Interacts through | Hard | Correct when |
|---|---|---|---|---|---|
| tobedone (`projects/tobedone/tobedone`) | screen, alert, auth type, HUD, error label, uid, captured category | log in or sign up, add, delete and open a category, add, delete and toggle an item | completion blocks of Firebase Auth; one Realm | several sign-ins at once; stale `currentUser`; failed commits; crashes; one file for all accounts | a session belongs to who signed in; accounts' lists stay apart and whole |
| Realm (`.../Pods/Realm*`) | objects, file, open transaction | write | exceptions, returned errors | a failed commit leaves the transaction open | file = objects, or a transaction is open |
| Firebase Auth (`.../Pods/FirebaseAuth`) | accounts, keychain, current user, calls, main queue | signIn, createUser, signOut, forced sign-out | work queue, main queue | answers in any order, lost answers | the user is current before the block runs |
| Flash Chat (`udemy/Flash-Chat-iOS12`) | navigation stack, rows of each chat screen, send controls | log in, register, log out, send, Back | completion blocks and child-added events | screens that outlive their pop; sends in flight; answers for a popped form | no row twice, every message arrives, controls come back |
| Realtime Database client (`.../Pods/FirebaseDatabase`) | connection, outstanding puts, unanswered listens, server and event caches, event queue | observe, setValue, connect, disconnect, answers, pushes | one connection, the main queue | loss of the connection at any point, resending, snapshots under pending writes | writes enter once, the view follows the server |
| SVProgressHUD | shown or not | show, dismiss | shared by all screens | one HUD for several requests | goes away |
| Todoey (`udemy/todoey`) | rows, filter | as tobedone, without accounts | Realm | searches accumulate, unsorted rows | the row acted on is the row shown |
| Clima, BitcoinTicker | what is shown, requests under way | request, answer | Alamofire | answers out of order | the last request is the one shown |
| LevelDB (`.../Pods/leveldb-library`) | writer queue, memtables, log, versions, manifest, levels, snapshots | write, flush, compact, read, snapshot, recover | `DBImpl::mutex_`, condition variables, one background thread, files | group commit outside the mutex; a crash between any two file operations; a flush inside a compaction; failed appends | an acknowledged write is seen and survives what its options say; a compaction changes no read |
| InspoQuotes (`udemy/InspoQuotes-master`) | rows, saved purchase flag, restore button | buy, restore, handle a report of transactions | StoreKit's transaction queue, UserDefaults | a process that ends between two statements; transactions reported again | a payment is finished only when it is unlocked; the screen agrees with what is saved |
| Quizzler, Calculator | index and score; display and pending operation | answer, restart; keys | - | last question; long key sequences | no crash, right score |
| ARDicee, other AR demos, SwiftUI, segue and language exercises | next to none | - | ARKit, SceneKit, SpriteKit | - | - |
| SwipeCellKit, other Pods | third-party | - | one or two entry points | - | - |

`PROJECT.json` lists every component with its status, and every hazard at its line.

## Modules

| Module | Models | Depends on |
|---|---|---|
| `Accounts` | the accounts of a device, and "nobody" | |
| `RealmStore` | one Realm instance, its file, write transactions | Accounts |
| `FirebaseAuth` | sign-in calls, server accounts, keychain, current user | Accounts |
| `ToBeDone` | the app: all three screens and the process | RealmStore + FirebaseAuth |
| `TodoLists` | abstract: each account's lists, changed one operation at a time | Accounts |
| `ToBeDoneProofs` | the proofs about ToBeDone | ToBeDone, TLAPS |
| `Filters` | `Among`: the elements of a sequence that are in a set, in their order, in a form the provers can open | |
| `FilterProofs` | the lemmas about `Among` | Filters, TLAPS |
| `FirebaseDatabase` | one Realtime Database client, the connection, the server | Filters |
| `FirebaseDatabaseProofs` | the invariant of the client, action by action | FirebaseDatabase, FilterProofs |
| `FlashChat` | the app: welcome, forms, chat screens, the process | FirebaseAuth + FirebaseDatabase |
| `FlashChatProofs` | the proofs about the app with its client and the server | FlashChat, FirebaseDatabaseProofs |
| `ChatRoom` | abstract: messages enter at most once, their fate is reported once | |
| `LevelDBWrites` | DBImpl: Write, the log, the memtables, the background thread, the manifest, recovery | |
| `LevelDBWritesProofs` | the proofs about LevelDBWrites | LevelDBWrites, TLAPS |
| `DurableStore` | abstract: what a crash of the process or of the machine may take from a store | |
| `LevelDBCompaction` | the levels: reads, snapshots, flushes, compactions, CompactRange | Filters |
| `LevelDBCompactionProofs` | the proofs about the levels | LevelDBCompaction, FilterProofs |
| `KeyValueStore` | abstract: a map and snapshots of it | |
| `LogFormat` | log::Writer and log::Reader: blocks, fragments, what a torn file reads as | |
| `LogFormatProofs` | the proofs about the log | LogFormat, TLAPS |
| `QuotePurchases` | InspoQuotes: the purchase flag, the rows, the handler of transactions | |
| `Entitlement` | abstract: unlocked only when paid, for good, finished only then | |
| `QuotePurchasesProofs` | the proofs about QuotePurchases | QuotePurchases, TLAPS |
| `MCToBeDone`, `MCFlashChat` | values of the constants for TLC | |

LevelDB is cut in three: `LevelDBWrites` knows which writes are where, and takes
a level-0 file for a number and a log for a set of records; `LevelDBCompaction`
knows which entries are in which file, and takes a write for atomic and durable;
`LogFormat` knows bytes, and justifies what `LevelDBWrites` says of a log after a
crash (`Surviving`: the records up to some point; `LogSurvivors` below). After a
failed append `LevelDBWrites` lets a reader find a later record or not, one by one:
the writer's blocks are not the reader's any more, and `LogFormat` says what is certain
then (`LogKeptBeforeDamage`: nothing that was written before is lost with it).

### How state and actions correspond to the code

*ToBeDone.* An action is one main-thread event: a tap (`handleStart`,
`addCategory`, `swipeCategory`, `confirmDelete`, `toggleItem`, ...; the names are
the source's) or the completion block at the head of the main queue
(`StartFailed`, `StartSucceeded`). A block runs whole: a write is begin, block and
commit in one action, since Realm is only used on the main thread. `Writes` is
the `do { try realm.write }` of all five handlers: committed, or failed (printed,
transaction left open), or, with a transaction open already, an exception that
ends the process. `uid` is what `viewDidLoad` read from `currentUser`;
`deleting` is the object the delete alert's closure captured. `Rows` is the live
query: `SameFolded` is what `CONTAINS[cd]` matches for uids of equal length.

*RealmStore.* `db` is what the objects show, `disk` what the file has, `inWrite`
`isInWriteTransaction` between two events. Names, dates and sort orders are left
out: rows are picked by identity.

*FirebaseAuth.* A call has stages: `sent`, `accepted` or `rejected` (by the
server, or lost), then `ok` or `failed` when the work queue has handled it and
posted the block. `SignedIn` saves and sets the user before it posts, in that
order. An accepted call may still fail: its answer was lost, or the keychain
refused.

*FirebaseDatabase.* A message is a key. `status` stands for the pending writes of
the sync tree (and remembers what became of a write), `puts` for
`outstandingPuts`, `unacked` for `unackedListensCount`, `serverCache`/`complete`/
`eventCache` for the view's two caches, `events` for the blocks on the main queue.
`Observe` and `SetValue` are the app's calls; `Connect`, `Disconnect`, `AuthOk`,
`SnapshotReceived`, `ChildReceived`, `PutAnswered` and `ListenAnswered` are what the
client does with the connection. `up` and `down` are the two directions of the
connection, `loading` the listens the server works on. The server is external:
it is modelled from what the client expects of it.

*FlashChat.* `form` and `stack` are the navigation stack above the welcome
screen; `observers` of FirebaseDatabase are the chat screens that have loaded in
this process, popped or not, since none removes its observer; `rows` is each
one's `messageArray`; `sending` is the message whose completion will enable its
controls again.

*LevelDBWrites.* An action is what one thread does between taking and releasing
`mutex_`, or one step it takes without it. `th[t].pc` is where a writer is: in the
queue, at its front, waiting on `bg_cv_`, or leading a group (`append`, `sync`,
`insert`, `publish`, the four steps of `Write` after `BuildBatchGroup`). A batch is
its sequence number. `MakeRoom` has one disjunct per branch of the loop of
`MakeRoomForWrite`; a pass through the loop that waits ends the action. The
background thread is `bg`: `BackgroundCall` picks the work, `FlushLogged` and
`FlushInstalled` are the two halves of `CompactMemTable` around `LogAndApply`, which
releases the mutex, `CompactionEnds` a compaction of level 0. `logs` and `manifest`
are the files; `Recover` and `Open` the two halves of `DB::Open`, so that a crash can
come between them. `ProcessDies` keeps the files as they are, `MachineDies` what was
synced and any prefix of the rest.

A log is what a reader will make of it: `recs` are the records it finds. An append that
fails (`AddRecordFails`) may have left the record, or damage: `EmitPhysicalRecord`
advances `block_offset_` although the file has not grown by as much, `Write` sets no
background error, and the log stays in use. `damaged` says so, and each record appended
behind (`Appended`) is then found, or goes to `lost`, those that `AddRecord` returned OK
for and `Sync` synced included. `AddRecordUnfilled` does the same damage without an error, for
the status of filling a block's trailer is not looked at. The manifest is a log
too: `manifest.end` is `damaged` after a failed append, and from then on an edit is found
or the reader ends before it (`cut`); that writer has set a background error, so no
file is deleted any more. The implementing state of `DurableStore` is what
a read finds while the store is open, and what the disk holds while it is not;
`exposed` is what of it is `lost` in a log that is still needed, and the store is `healthy`
while the log in use is not damaged.

*LevelDBCompaction.* A file is the set of its entries. Sizes are left out: where
the code compares one with a limit, both outcomes are possible. `Candidates`
lists what a read meets, in the order of `DBImpl::Get` and `Version::Get`, and `Get`
stops at the first. A compaction is two actions, the choice of its inputs
(`PickCompaction`, `ManualCompaction`) and `DoCompactionWork`, between which
memtables are flushed and snapshots come and go; what the code reads at the
beginning (`SmallestSnapshot`, `Covered`) is kept in `compaction`.

*LogFormat.* A file is a sequence of cells, one for a byte, that carry the fragment
and the place in it; a checksum is right when a fragment's cells are all there in
a row. A pass through the loop of `AddRecord` is one action: `Emit`, `EmitUnfilled` (the
fill of a trailer was lost, which the code does not look at) or `EmitFails`. `left` and
`frags` are the loop's locals. The reader's buffer is `file[pos + 1 .. end]`; `ReadBlock`,
`EndOfFile` and `BadRecord` are what `ReadPhysicalRecord` may meet, and `FullRecord`,
`FirstFragment`, `MiddleFragment`, `LastFragment` and `MissingStart` the switch of
`ReadRecord`. Two variables are history, which no action looks at: `tail` remembers whether
the end of the file was torn and whether it has been written on since (`buried`), and
`intact` how many cells come before what was written on a torn end.

*QuotePurchases.* `state` and `unreported` are StoreKit's; `report` is what the loop
of `paymentQueue(_:updatedTransactions:)` has still to take and `step` the
statement it is at, so that `ProcessDies` can come between any two. `stale` is a
table that UIKit has not laid out again yet.

## What is checked

Each property names in its comment the behaviour of the code it is about.

| Run | Instance | States | Shows |
|---|---|---|---|
| `tobedone_store` | 2 accounts, 2 categories, 2 items, 1 call | 70,501 | `TypeOK`, `OwnersRegistered`, `HeldCategoriesLive`, `OneListPerItem`, `DurableUnlessCommitFailed`, `ForeignDataUntouched`, refinement of `TodoLists` |
| `tobedone_auth` | 2 accounts, 1 category, 2 calls | 47,567 | `SessionAuthenticated`, `NeverUnauthorized`, and liveness: `HudClears`, `FailureShown` |
| `flashchat_screens` | 2 screens, keys o1 < m1 (o1 from another device) | 726,156 | `TypeOK`, `RowsUnique`, `ViewFollows`, `WritesOutstanding`, `GhostsRefused`, `SendWaits`, refinement of `ChatRoom` |
| `flashchat_live` | 1 screen, keys o1 < m1 | 35,812 | liveness: `MessageArrives`, `SendReturns` |
| `flashchat_sender` | 1 screen, 1 key | violation | `SenderPresent` |
| `leveldb_writes` | 2 threads, 3 calls, 1 failure, 2 crashes of either kind | 401,821 | `TypeOK`, `AckedVisible`, `AckedOnDisk`, `PinnedSynced`, `FreshSequence`, refinement of `DurableStore`, and liveness: `WritesReturn` |
| `leveldb_lost` | as `leveldb_writes` | violation | `NoWritesLost` |
| `leveldb_compaction` | 2 keys, 3 writes, 1 snapshot, 3 levels | 238,552 | `TypeOK`, `LevelsDisjoint`, `NewestAbove`, refinement of `KeyValueStore` |
| `leveldb_split` | 1 key, 2 writes, files may end inside a key | violation | `NewestAbove` |
| `leveldb_gap` | 3 keys, 5 writes, 2 levels, one CompactRange | violation | `LevelsDisjoint` |
| `leveldb_log` | blocks of 5 bytes, 3 records, cut anywhere | 2,251,071 | `TypeOK`, `Survivors`, `KeptBeforeDamage`, `DamageEnds`, `NothingInvented` |
| `quote_purchases` | 3 transactions, 3 launches | 264,298 | `TypeOK`, `ShownIffSaved`, refinement of `Entitlement`, and liveness: `Unlocks` |

Four runs refute what the repository says:

* **`flashchat_sender`.** `retrieveMessages` unwraps `snapshotValue["Sender"]!`
  (`ChatViewController.swift:187`). `sendPressed` writes
  `Auth.auth().currentUser?.email` (line 156), which is nil after a forced
  sign-out, and Firebase stores no nil. The shortest behaviour: sign in, the
  token refresh signs the user out, send; the message is in the room without a
  Sender, and each screen told of it ends its process (`crash = "nilSender"`).
* **`leveldb_lost`.** "If it is just the process that crashes (i.e., the machine does not
  reboot), no writes will be lost even if sync==false" (`options.h:194-196`). An
  append fails and returns its error for its own write alone (`db_impl.cc:1224` sets no
  background error), but `block_offset_` has been advanced (`log_writer.cc:107`). Later
  fragments then lie over the ends of the reader's blocks, or behind part of a record,
  and the reader drops them (`log_reader.cc:232-237`, `256-265`). The run acknowledges a
  write behind the failure that neither the manifest nor a reader of the logs has;
  with `sync = true` it is the same. `AckedOnDisk`, `PinnedSynced` and `DurableStore` say what
  remains: such writes are at risk only until their memtable is flushed, and no others are.
* **`leveldb_split`.** `Version::Get` stops at the first level with the key "since
  entries never hop across levels" (`version_set.cc:346`). `DoCompactionWork` may
  end an output file between two entries of one user key that a snapshot keeps
  apart (`db_impl.cc:998` looks at the size alone), and the next compaction may then
  take the file with the newer entry down alone. A read without a snapshot finds
  the older value. `leveldb_compaction` has `SplitKeys = FALSE`: its compactions are those
  that end their files between keys, and there the assumption holds, by proof for any
  number of keys. It is also proved for files that end anywhere, as long as no snapshot
  is taken, which is how the database client uses LevelDB.
* **`leveldb_gap`.** "Must not overlap" (`version_set.cc:764`) is asserted of the
  files of a level. `CompactRange` may take several files with a gap between their
  ranges; a memtable that fills up during the merge is flushed in the middle of it
  (`db_impl.cc:922`) to a level chosen from a version without the merge's output.
  If its keys are in the gap it goes to the output's own level. The
  run merges keys 1 and 3 while key 2 is flushed. No compaction that LevelDB
  picks by itself leaves such a gap (`Gapless` in the proofs), and nothing in the
  repository calls `CompactRange`.

What the passing runs also show, and a reader may not expect: a second sign-in
can be started and can win, and the session then belongs to the account that is
current, which did sign in (`SessionAuthenticated`); a category's items stay in the file when it is deleted, in no
list and on no screen, although the alert says "All items in this category will be
deleted" (`CategoryViewController.swift:92`; line 97 deletes the category alone), and
`OneListPerItem` and the refinement of `TodoLists` say that they never come back in
another list; after a refused write the
sender alone keeps a row nobody else has (`GhostsRefused` says that this is the
only way a row departs from the view); after a refused write that screen's
controls never come back (the exception in `SendReturns`).

### Bounds

* `Slots`: sign-in calls under way. Two give every pair of kinds, outcomes and
  orders; the main queue orders them and nothing compares three.
* `Cats`, `Items`: identities are never reused (`used`), so a run of N has N
  creations. Two of each allow two owners, an item in either list, a delete
  beside a survivor.
* `Chats`: screens one process opens. A popped screen still observes, so two
  give a live and a leaked one. `formPressed` never starts more calls than there
  are screens left: the bound's only guard.
* `KeyOrder`, `Mine`: a key is sent once. An own key and a foreign one give a put
  resent before and after another device's message. That several puts of one
  device do not disturb each other is proved for any number of keys.
* Restarts, disconnections and resends are not bounded.
* Categories and items are symmetry sets in `tobedone_store` only, where no
  liveness is checked.
* `LevelDBWrites`: a memtable holds one batch and the triggers of level 0 are 1, 1
  and 2, so that three calls switch the memtable twice, fill level 0, delay a
  writer, and stop one. Two threads give groups of one and two and a writer that
  is overtaken at every point of another's commit; two crashes give one during
  recovery. `MaxCalls`, `MaxFaults` and `MaxCrashes` are guards of `Write`, `Fault` and
  `Crashes` alone.
* `LevelDBCompaction`: three levels are the fewest with a grandparent, and
  `MaxMemCompactLevel` 1 the fewest with a flush that passes a level. Three writes
  on two keys give an older and a newer entry of one key beside another key. Two
  keys leave no gap between files, hence `leveldb_gap` with three; it needs two
  writes of each outer key, for two files of either level, and one of the inner.
* `LogFormat`: a block of 5 with headers of 2 leaves fills of one byte, empty
  fragments at a block's end, and, with lengths 0, 1, 4 and 7, records of one to
  three fragments. One reuse of the log (`MaxReopens`) puts records behind an end that
  was torn at any byte.
* `QuotePurchases`: three transactions give a purchase, a second one and a restore;
  two in a report give the handler a batch; three launches let a redelivered
  transaction be interrupted again.
* `DistinctFolds`: no two uids of a run are equal up to case. The proofs make no
  such assumption.

### Fairness

`ToBeDone!Fairness`: weak fairness of each call's background steps (a request is
answered or times out, FIRAuth's work queue runs what it holds) and of the main
queue. The user is never obliged to act.

`FlashChat!Fairness`: the client reconnects (`tryScheduleReconnect` is called on
every disconnect and retries with a bounded delay), the server reads and
answers, the client reads, the main queue runs. `StableAtLast` assumes that from
some time on the connection is not lost again: an environment that cuts it before
each answer would let no client finish. A forced sign-out or a kill stays
possible at any time, and the properties say what they then allow.

`LevelDBWrites!Fairness`: every thread gets to run and takes the mutex in the end,
also the background thread. Calls are not owed: `WritesReturn` is about those made. Nor
is `DB::Open` after a crash: the application may not call it, and it may find a damaged
manifest and fail.

`QuotePurchases!Fairness`: StoreKit reports what it has to, the main thread runs
what is posted to it, and the user opens the app again. Payments are not owed.

### Mutants

For every property of a passing run `PROJECT.json` names a plausible bug in a
mapped definition that breaks it, defined beside it and introduced by
"Mutant:". For example, acting on a put's answer at once instead of holding it
behind the listen shows a message twice (`RowsUnique`); closing the transaction
of a failed commit leaves the screens out of step with the file
(`DurableUnlessCommitFailed`).

## What is proved

`ToBeDoneProofs` proves for all values of the constants, under the assumptions
`NobodyAssumption` (nobody is not an account) and `ToBeDoneAssumption` (`NoCat` is
no category, categories and items are different identities, a uid matches itself):

* `TypeCorrect`: `Spec => []TypeOK`.
* `Inductive`: `Spec => []IInv`, and from it the safety invariants:
  `Session`, `Authorized`, `Owners`, `Held`, `Unshared`, `Durable` and `Hud`.
* `ForeignSafe`: `Spec => ForeignDataUntouched`, an action property.
* `Refinement`: `Spec => TL!Spec`: every step is one step of `TodoLists` or none.

No single invariant is inductive. `SessionAuthenticated` needs to know who is
current when a success block runs, which is `AuthInv` (a call that is `ok` has
a current user among `signedIn`; an `accepted` one has a registered user), and
`AuthInv` needs `OffInv` for the launch, where `signedIn` is empty and so no call
may be under way. `OneListPerItem` needs `UsedInv`: a new category has an empty
list and a new item is in none, because an identity not used before is nowhere
in the objects or the file. `HeldCategoriesLive` is preserved because an alert
keeps the other screens' actions out. `IInv` is the conjunction; the proof goes by
one lemma per part and one step per action (`AuthInvStep`, `SessionStep`,
`StoreInvStep`, `HeldStep`, `HudStep`). `ForeignStep` and `ListsStep` then use `IInv`
at a step: the category a write touches is in `Rows`, hence not foreign; and a
write changes exactly one list or entry of the file. `AddsList` ... `FlipsEntry`
show how `OwnedIn` and `EntriesIn` change under each write.

`FlashChatProofs`, with `FirebaseDatabaseProofs`, proves for any keys in any order, any
of them sent from this device, any number of screens and accounts:

* `Inductive`: `Spec => []IInv`.
* `TypeCorrect`, `ShownOnce`, `ViewShows`, `Outstanding`, `Ghosts`, `ControlsWait`: `Spec => []`
  of `TypeOK`, `RowsUnique`, `ViewFollows`, `WritesOutstanding`, `GhostsRefused` and
  `SendWaits`.
* `Implements`: `Spec => ImplementsChatRoom`, that is `ChatRoom`'s specification.

The difficulty is what may be on its way when the connection is lost, or when a put is
answered. `DatabaseInv` says it:

* `PutsInv`: the pending keys are those the connection holds, each once, in `puts` or in
  `putsToAck`. `WireInv`: a put on the wire or its answer is of a put still held, at most
  once; what a dead connection has left for the server is pending, or lost with its process.
* `ServerInv`: what the client has, is sent or is told was accepted is on the server, and
  once it has subscribed it has, or is sent, all there is.
* `PhaseInv`: a connection that is up is in one of four phases: the listen is its first
  request (`Asking`), the server works on it (`Answering`), the answer is on its way
  (`Arriving`), or no listen is unanswered (`Settled`). In the last two an accepted put's
  answer comes after what it is about, and answers that come too early are
  kept back until the listen's. This is why acting on an answer never takes a message
  off the screen: `ViewInv`, the view is the server cache with the pending
  writes, survives the write's removal.
* `ToldInv`: each screen registers once, has been told of all the view shows, once, in its
  rows or in events to come, and of nothing else but refused writes.

There is a lemma per action for the client's part. The app's steps then need only what a
client step tells its observers (`ClientTells`), whichever of the client's actions it was.
`RoomStep` maps each step to one of `ChatRoom`'s or to none.

`QuotePurchasesProofs` proves for any set of transactions and any bounds:

* `TypeCorrect` and `ShownSafe`: `Spec => []TypeOK` and `Spec => []ShownIffSaved`.
* `Refinement`: `Spec => Rights!Spec`.

`ShownIffSaved` only speaks of the moments between two events. The inductive
invariant says what holds inside the handler, statement by statement: a purchase
at `save` has been shown and not saved yet, one at `finish` was both, a restored one
is the other way round. It needs two more facts: what is in `report` is distinct
from what is unreported or finished, and a settled transaction has been saved,
which is also what the refinement rests on.

`LevelDBWritesProofs` proves for any number of threads, calls, failures and crashes,
any size of a memtable and any triggers, without further hypotheses:

* `TypeCorrect`, `ReadsSafe`, `DiskSafe`, `PinnedSafe`, `Fresh`: `Spec => []` of `TypeOK`,
  `AckedVisible`, `AckedOnDisk`, `PinnedSynced` and `FreshSequence`.
* `Refinement`: `Spec => Implements`, that is `Store!Spec`.

`DBImpl::Write` lets the mutex go in the middle of a commit, so the invariant `IInv`
says what holds there, and what the disk owes the memory meanwhile:

* `QueueInv`: at most one thread commits or waits for room, the front of the queue, and
  there is a group exactly while one commits. Without it two leaders could take the same
  numbers. `OffInv`: a store that is not open has nobody at work, which makes a crash
  at any step lead to a state `DB::Open` may start from.
* `GroupInv`: how far the leader is. Its group begins after `lastSequence`; from `sync`
  on its record is in the log in use, found or lost, from `insert` on it is synced if the
  group is (a lost one never is, and then it is in `lost`), and
  from `publish` on it is in the memtable, unless a step has failed. `Publish` turns this
  into the acknowledgement.
* `NumberInv`: every number in a log is `lastSequence` or less, but for those of the group
  being committed; a memtable's likewise. With `FileInv` (a manifest's tables are at
  most its `last`, and that at most `lastSequence`) this gives `Fresh`, and it is why
  a read sees nothing of a group before its leader publishes it, the heart of
  `Refinement`.
* `StoreInv`: the memtable is in the log in use, the immutable one and the version's
  tables are on the disk, each write found there or lost behind a failed append
  (`Held`). The second part is where the files'
  lives meet. A switch of memtables leaves the old log to the manifest. A flush's
  edit retires that log and lists the table in the same write (`FlushInv` holds until it is
  installed, and only then are logs deleted; if the edit was `cut`, there has been a
  background error, by `FileInv`, and none is deleted). A compaction's edit names the
  version's own log, which may be older than the manifest's after a failed flush;
  that brings files back and takes none away, and after a failure none is deleted.
* `SyncInv`: the same for writes with `sync = true`, of the synced part of the logs.
* `LostInv`: a record that was lost is found in no log, so a write is counted lost or found
  and not both, and a store that is not open has lost nothing it still counts as written.

There is a lemma per action (`AddRecordStep` ... `OpenStep`). A call to
`MakeRoomForWrite` is met in two places, `Write` on an empty queue and `Front`: `WriteIs`
and `FrontIs` reduce both to `AtRoom`, and `RoomStep` treats it once. The background
thread's steps leave the queue alone (`Beside`) and differ in the files (`Filed`).

`LevelDBCompactionProofs` proves for any numbers of keys, levels, writes and snapshots:

* `TypeCorrect`: `Spec => []TypeOK`, with no further hypothesis.
* `FilesApart`: `Spec => []LevelsDisjoint`, if `CompactRange` is not called (`NoRange`).
  `leveldb_gap` refutes it otherwise; nothing in the repository calls it.
* `NewestSafe`: `Spec => []NewestAbove`, if moreover `Undivided`: files may end
  anywhere, as `DoCompactionWork` ends them, and no snapshot is taken, so that two entries of
  a key are never kept; or snapshots are taken, and files end between keys. The first is
  how the code in this repository uses LevelDB: the database client takes no snapshot.
  With both, `leveldb_split` refutes it.
* `Refinement`: `Spec => Implements`, that is `KeyValueStore`'s specification, under both
  hypotheses.

A compaction is chosen in one step and ends in another, and memtables are flushed past it in
between. The invariant is built in four layers, each with a lemma per action:

* `BaseInv`: an entry is in one place and its number was given once; the files a running
  compaction has chosen stay in the version; the snapshot it took for the oldest is as
  old as any there is. Snapshots taken later are newer (`SnapInv`).
* `LevelInv`: the files below level 0 are apart, and so are the output of a running
  compaction and the files that stay at its level (`MergeInv`). What makes this
  inductive is that the merged files are `Gapless`: over each key of their range
  there is one of them. A memtable that overlaps no file of the levels it passes can then
  not fall into that range (`FlushFree`). Level 0 gives a closed set of touching files,
  deeper levels one file and those above and below it, and `InputsApart` follows
  `SetupOtherInputs` through its second look at the upper level.
* `OrderInv`: an entry is newer than those of its key in older layers, and what stays at the
  level a compaction takes from is newer than what it takes (`AboveInv`), else the
  output would lie under it wrongly.
* `StoreInv`: a key with an entry further down than the output is known to the compaction as
  such (`CoveredInv`); a memtable flushed further down than the inputs
  overlaps none of them (`FlushFree` again), so it stays true.

`GetIs` states what the read path computes: with the levels in order, the first hit of
`Version::Get`'s search, with its binary search for a file in each level, is the newest
entry of the key that the snapshot sees, over all entries there are. `WorkAnswers` is then
about sets: a dropped entry is either under a newer one that every snapshot sees, or a deletion
with nothing under it (`NothingUnder`), so no answer changes. `Refinement` follows: a write changes
the newest answer to what it wrote, and every other step changes none.

`LogFormatProofs` proves for any block longer than a header, any header of at least one byte,
any lengths, any number of records, failures, crashes and reuses:

* `LogTypeOK`, `LogNothingInvented` and `LogSurvivors`: `Spec => []` of `TypeOK`,
  `NothingInvented` and `Survivors`.
* `LogKeptBeforeDamage`: `Spec => []KeptBeforeDamage`. `Survivors` is silent about a log
  that was written on behind a torn end; this theorem is about those too, whether the
  writer went on after a failed append or reused the log, and without a hypothesis.

Two invariants are proved together. `IInv` holds of every file, however often it was torn and
written on. A cell says which fragment it is of, and the file is then described cell by cell:

* `Backward`: the cells of a fragment before a cell of it are there. Nothing of the kind
  holds forward, since a fragment may be cut off and another one follow.
* `Joined`: a fragment that is not the first of its record comes directly behind the one
  before it, which ended its block. A writer that fails in a fragment gives the record up,
  and this is why: behind a torn end there are only beginnings of records (`WriterOK`,
  `EndOfPart`).
* `Ordered`: behind the end of a record there are only later ones.
* `ScratchOK`: what the reader has put together are the first fragments of one record, and
  the last of them ended where the reader is, or a trailer before. A sound fragment in front
  is either the next one of that record, by `Joined`, or the first of another. Without
  `BadRecord`'s clearing of scratch this fails, and `NothingInvented` with it.

`AInv` is about the first `intact` cells of the file (`Prefix`), those before what was written
behind a torn end, which is all of them while nothing was. They are `Aligned`, that is,
every fragment lies in one block, and behind the end of each comes, after the fill, what the
writer wrote next, or the end of the prefix (`NextAt`). The reader has read all records that
end there (`AllRead`), or is at a boundary of the prefix with all before it read (`Halfway`,
`Progress`); what comes behind, however damaged, takes nothing of that back. What makes this
inductive for the writer is `TailOK`: `block_offset_` and the length of the file agree modulo the block, and
the last record in the file is the one before the next, as long as the tail is whole. Both
kinds of crash preserve `Aligned`,
since it speaks of what is in the file only (`CutAligned`). `GrownOK` and `GrownAligned` say
what a write, whole or in part, does to the two kinds of file; the steps of the writer
instantiate them. The steps of the reader rest on `ParsedOK`, about the
fragment in front, and `Awaiting`, by which it is the one that is due and all there while
records of the prefix are still unread, and leave the rest to `ScratchStep` and `RecordStep`. The prover's
arithmetic does not know that sums are taken modulo the block: `Modulo`, `Sums` and
`BlockSums` say it.

In the models a filter is `Among`, not `SelectSeq`: the provers know nothing of
`SelectSeq`, a recursive definition. TLC evaluates `Among` in the runs.

**Only model-checked:** every liveness property (fairness and ENABLED are out of
the prover's reach), what the levels answer while a `CompactRange` runs, where damage to a log
ends (`DamageEnds`), and the four refuted properties. Every other invariant and every
refinement that a passing run checks is proved, under the hypotheses named above.

## What is left out, and why

* *tobedone.* Showing and dismissing the HUD are instantaneous; presenting a
  screen is atomic; the server does not apply a sign-up after the process that
  sent it has ended. The forced sign-out cannot happen here: FIRAuth refreshes
  tokens by itself only after somebody asked it for one, and nothing in this app
  does. How Realm writes a file is external: a failed commit leaves the file as
  it was. Deleting through VoiceOver is not modelled yet.
* *Flash Chat.* A call to the database posts a block to its own queue; the model
  runs the block with the call, and lets the network be as slow as it likes. The
  blocks of Auth and of the Database are kept in two queues that are served in
  any order, which allows every order of the one main queue and more. Messages
  are never removed or changed, listens are never denied (the rules are open for
  reading), a put may be refused. A new connection ends the session it replaces;
  puts of the old one may be read by the server until then. Push ids are distinct
  and in any order (the client's clock is corrected by the server's offset).
  Other devices' messages have a Sender. Authentication of the connection
  succeeds; a rejected token closes the connection, which is a disconnection.
* *LevelDB.* Table files and their blocks, caches, iterators and the reference
  counts of versions are left out: a table is what was put in it. So are
  `reuse_logs` in the write path, `paranoid_checks`, compression, and the real sizes and
  constants (7 levels, memtables flushed down to level 2). The environment is
  external: a file's bytes reach the disk in order, a failed append or manifest write
  leaves any part of its bytes, and a read of a file does not fail. `LevelDBWrites` knows
  which records a reader finds behind a failed append only as any of them, which is
  more than `LogFormat` would let it. It lets the reader of a damaged manifest end
  before an edit. When it skips one and reports it, `VersionSet::Recover` fails and the
  store stays closed, as it may in the model; that it skips one without a report, at a
  header of zeros, and finds a later one is not modelled. Recovery writes one table for a
  log, however long.
  These behaviours of the code are in the models but
  have no property, since what the comments promise does not hold there:
  a synced write may survive a power loss
  that an earlier, unsynced one in the previous log does not survive (`options.h:199`);
  the NULL batch of `TEST_CompactMemTable` may be absorbed by another writer's
  group, and then no memtable is flushed (`db_impl.h:50`);
  a log reused
  behind a torn record takes acknowledged records that are not read back, in
  `LogFormat` (`options.h:194`; `KeptBeforeDamage` and `DamageEnds` say which are not affected).
* *InspoQuotes.* What UserDefaults was given survives the end of the process. The
  handler's `.purchased` branch reloads the table before it saves the flag, so the
  "Get More Quotes" row may stay until the next reload; nothing in the repository
  says that it must not, so no property is stated. A device that may not pay only
  prints.
* *Elsewhere.* See the components marked `not_modelled`.

## Plan

Done, each with its proofs: `ToBeDone`; `FlashChat` and `FirebaseDatabase`; LevelDB's
write path, its levels and its log; `QuotePurchases`.

Left, the most valuable first:

1. Proofs: `NewestAbove` with a `CompactRange`
   that is given one file at a time, or none that leaves a gap (what `Gapless` needs).
2. LevelDB: the reference counts of versions and the files iterators keep
   (`VersionSet`, `pending_outputs_`), the LRU cache, and the skip list's reads beside one
   writer.
3. `Todoey` on `RealmStore`: the search filter, rows by index, no accounts; it
   implements `TodoLists` for one account. VoiceOver's second delete, there and in
   `ToBeDone`.
4. `LatestRequest` (Clima, BitcoinTicker): requests and answers in any order, what
   is shown against what was asked for.
5. `Calculator` and `Quizzler`: the display as a parse state; index, score and
   alert. `PushId`: the carry over twelve base-64 characters, as a recursive
   function, against the order of ids.

Items 3 to 5 are small and each has little that a test would not reach, which is
why the write path of LevelDB came first.
