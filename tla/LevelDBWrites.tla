--------------------------- MODULE LevelDBWrites ---------------------------
(***************************************************************************)
(* The write path of LevelDB, the store under the Realtime Database's disk *)
(* cache: the queue of writers and its group commit, the log, the two      *)
(* memtables, the background thread that flushes them, the manifest, the   *)
(* deletion of old logs, and recovery after a crash.                       *)
(*                                                                         *)
(* One sequence number stands for a whole batch.  An action is what one    *)
(* thread does between taking and releasing DBImpl::mutex_, or one step it *)
(* takes without it.                                                       *)
(***************************************************************************)
EXTENDS Naturals, Sequences, FiniteSets

CONSTANTS Threads,        \* threads that call Write and CompactRange
          WriteBuffer,    \* batches a memtable holds: options_.write_buffer_size
          L0Compaction, L0Slowdown, L0Stop,   \* dbformat.h's triggers
          PowerLoss,      \* may the machine stop, or only the process?
          MaxCalls, MaxFaults, MaxCrashes     \* bounds on calls and failures

ASSUME BufferAssumption == WriteBuffer \in Nat \ {0}
ASSUME TriggerAssumption == /\ L0Compaction \in Nat \ {0} /\ L0Stop \in Nat
                            /\ L0Compaction <= L0Stop
ASSUME PowerAssumption == PowerLoss \in BOOLEAN

VARIABLES
  th,           \* what each thread is doing, and its request
  writers,      \* writers_
  group,        \* the batch group the writer at the front is committing
  mem, imm, hasImm,     \* mem_ and imm_, as sets of sequence numbers
  logfile,      \* logfile_number_
  lastSequence, nextFile, tables, logNumber, l0,   \* versions_
  bgError, bgScheduled, bg,     \* bg_error_, bg_compaction_scheduled_, BGWork
  open,         \* "closed", "opening" or "open"
  logs,         \* the log files: the records a reader finds, those of them that
                \* are synced, has an append failed, and the records behind that
                \* failure which the reader does not find
  manifest,     \* what MANIFEST and CURRENT say, and the state of their end
  acked, pinned,    \* history: writes acknowledged, and those with sync = true,
                    \* that no crash has taken
  calls, faults, crashes

thread == <<th, writers, group, acked, pinned>>
memory == <<mem, imm, hasImm, logfile, lastSequence, nextFile, tables,
            logNumber, l0>>
work   == <<bgError, bgScheduled, bg>>
disk   == <<logs, manifest>>
bounds == <<calls, faults, crashes>>
vars   == <<thread, memory, work, open, disk, bounds>>

Idle    == [pc |-> "idle", sync |-> FALSE, null |-> FALSE, delay |-> FALSE]
NoGroup == [size |-> 0, first |-> 1, last |-> 0, sync |-> FALSE, pins |-> {},
            status |-> "ok"]
NewLog  == [recs |-> {}, synced |-> {}, damaged |-> FALSE, lost |-> {}]

Init ==
  /\ th = [t \in Threads |-> Idle]
  /\ writers = <<>> /\ group = NoGroup
  /\ mem = {} /\ imm = {} /\ hasImm = FALSE
  /\ logfile = 3 /\ nextFile = 4 /\ logNumber = 3
  /\ lastSequence = 0 /\ tables = {} /\ l0 = 0
  /\ bgError = FALSE /\ bgScheduled = FALSE /\ bg = "idle"
  /\ open = "open"
  /\ logs = [n \in {3} |-> NewLog]
  /\ manifest = [log |-> 3, next |-> 4, last |-> 0, tables |-> {}, l0 |-> 0,
                 end |-> "whole"]
  /\ acked = {} /\ pinned = {}
  /\ calls = 0 /\ faults = 0 /\ crashes = 0

Imm == IF hasImm THEN imm ELSE {}

\* The writes a restart finds on disk: the tables the manifest lists and the
\* records of every log it has not retired.
Live(n) == n \in DOMAIN logs /\ n >= manifest.log
OnDisk == manifest.tables \cup UNION {UNION logs[n].recs : n \in {m \in DOMAIN logs : Live(m)}}
OnDiskSynced ==
  manifest.tables \cup UNION {UNION logs[n].synced : n \in {m \in DOMAIN logs : Live(m)}}

\* The writes it does not find, for an append to their log had failed before theirs.
Lost == (UNION {UNION logs[n].lost : n \in {m \in DOMAIN logs : Live(m)}}) \ OnDisk

-----------------------------------------------------------------------------
(* Condition variables: a writer's own cv, and bg_cv_.                     *)

\* Mutant: nobody wakes the next writer.
SignalNobody(f, q) == f

Signal(f, q) == IF q = <<>> THEN f ELSE [f EXCEPT ![Head(q)].pc = "front"]

SignalAll(f) == [t \in Threads |->
                   [f[t] EXCEPT !.pc = CASE @ = "bgwait"  -> "front"
                                         [] @ = "immwait" -> "immcheck"
                                         [] OTHER         -> @]]

(* MakeRoomForWrite and BuildBatchGroup, for the writer t at the front of  *)
(* the queue q with the request r.                                         *)

Batches(q, f, k) == Cardinality({j \in 1..k : ~f[q[j]].null})

\* Mutant: a sync write may join a group that is not synced.
AnyGroupEnds(q, f, k) == k < Len(q) => ~f[q[k + 1]].null

\* BuildBatchGroup stops at a sync write behind a leader that is not, or at
\* a batch that would make the group too big.
GroupEnds(q, f, k) == /\ \A j \in 1..k : f[q[j]].sync => f[q[1]].sync
                      /\ k < Len(q) => \/ ~f[q[k + 1]].null
                                       \/ f[q[k + 1]].sync /\ ~f[q[1]].sync

\* The sequence numbers of the group's sync writes.
Pins(q, f, k, numbers) ==
  {s \in numbers : \E j \in 1..k : /\ f[q[j]].sync
                                  /\ s = lastSequence + Batches(q, f, j)}

Lead(t, q, f) ==
  /\ writers' = q
  /\ \E k \in 1..Len(q) :
       LET first == lastSequence + 1
           last  == lastSequence + Batches(q, f, k)
       IN /\ GroupEnds(q, f, k)
          /\ group' = [size |-> k, first |-> first, last |-> last,
                       sync |-> f[t].sync,
                       pins |-> Pins(q, f, k, first..last), status |-> "ok"]
  /\ th' = [f EXCEPT ![t].pc = "append", ![t].delay = FALSE]
  /\ UNCHANGED <<acked, pinned>>

\* Write returns without having written anything.
Leave(t, q, f, ok) ==
  /\ writers' = Tail(q)
  /\ th' = Signal([f EXCEPT ![t] = IF ok /\ f[t].null
                                   THEN [Idle EXCEPT !.pc = "immcheck"]
                                   ELSE Idle], Tail(q))
  /\ UNCHANGED <<group, acked, pinned>>

Sleep(t, q, f, pc) ==
  /\ writers' = q
  /\ th' = [f EXCEPT ![t].pc = pc, ![t].delay = FALSE]
  /\ UNCHANGED <<group, acked, pinned>>

Full(r) == r.null \/ Cardinality(mem) >= WriteBuffer
Delays(r) == r.delay /\ l0 >= L0Slowdown
\* Mutant: the previous memtable need not have been flushed.
BlockedByFiles == l0 >= L0Stop
Blocked == hasImm \/ l0 >= L0Stop

WithNewLog(next) == [n \in DOMAIN logs \cup {next} |->
                       IF n = next THEN NewLog ELSE logs[n]]

SwitchMemtable ==
  /\ logs' = WithNewLog(nextFile)
  /\ logfile' = nextFile /\ nextFile' = nextFile + 1
  /\ imm' = mem /\ hasImm' = TRUE /\ mem' = {}
  /\ bgScheduled' = TRUE
  /\ UNCHANGED <<lastSequence, tables, logNumber, l0, bgError, bg, manifest,
                 faults>>

Fault == faults < MaxFaults /\ faults' = faults + 1

MakeRoom(t, q, f) ==
  \/ /\ bgError
     /\ Leave(t, q, f, FALSE)
     /\ UNCHANGED <<memory, work, disk, faults>>
  \/ /\ ~bgError /\ Delays(f[t])
     /\ Sleep(t, q, f, "front")
     /\ UNCHANGED <<memory, work, disk, faults>>
  \/ /\ ~bgError /\ ~Delays(f[t]) /\ ~Full(f[t])
     /\ Lead(t, q, f)
     /\ UNCHANGED <<memory, work, disk, faults>>
  \/ /\ ~bgError /\ ~Delays(f[t]) /\ Full(f[t]) /\ Blocked
     /\ Sleep(t, q, f, "bgwait")
     /\ UNCHANGED <<memory, work, disk, faults>>
  \/ /\ ~bgError /\ ~Delays(f[t]) /\ Full(f[t]) /\ ~Blocked
     /\ SwitchMemtable
     /\ IF f[t].null THEN Leave(t, q, f, TRUE) ELSE Lead(t, q, f)
  \/ /\ ~bgError /\ ~Delays(f[t]) /\ Full(f[t]) /\ ~Blocked
     /\ Fault                        \* the new log cannot be created
     /\ Leave(t, q, f, FALSE)
     /\ UNCHANGED <<memory, work, disk>>

-----------------------------------------------------------------------------
(* DBImpl::Write.  A NULL batch comes from TEST_CompactMemTable.           *)

Request(sync, null) ==
  [pc |-> "queued", sync |-> sync, null |-> null, delay |-> ~null]

Write(t, sync, null) ==
  LET f == [th EXCEPT ![t] = Request(sync, null)]
  IN /\ open = "open" /\ th[t].pc = "idle"
     /\ null => ~sync
     /\ calls < MaxCalls /\ calls' = calls + 1
     /\ IF writers = <<>>
        THEN MakeRoom(t, <<t>>, f)
        ELSE /\ writers' = Append(writers, t)
             /\ th' = f
             /\ UNCHANGED <<group, acked, pinned, memory, work, disk, faults>>
     /\ UNCHANGED <<open, crashes>>

\* The writer has come to the front, or bg_cv_ or its delay is over.
Front(t) == /\ th[t].pc = "front"
            /\ MakeRoom(t, writers, th)
            /\ UNCHANGED <<open, calls, crashes>>

Record == group.first .. group.last

\* log_, when the record is appended.  A failed append leaves the writer at an offset
\* that is not the file's, or part of a record in the way: of the records behind it a
\* reader finds some.
Found(l)   == [l EXCEPT !.recs = @ \cup {Record}]
Missed(l)  == [l EXCEPT !.lost = @ \cup {Record}]
Damaged(l) == [l EXCEPT !.damaged = TRUE]
Appended(l) == {Found(l)} \cup {k \in {Missed(l)} : l.damaged}

LogBecomes(l) == logs' = [logs EXCEPT ![logfile] = l]

\* Writer::AddRecord returns OK.
Adds(t, l) ==
  /\ th[t].pc = "append"
  /\ \E k \in Appended(l) : LogBecomes(k)
  /\ th' = [th EXCEPT ![t].pc = IF group.sync THEN "sync" ELSE "insert"]
  /\ UNCHANGED <<writers, group, acked, pinned, memory, work, open, manifest,
                 calls, crashes>>

AddRecord(t) == Adds(t, logs[logfile]) /\ UNCHANGED faults

\* The trailer of a block cannot be written, which is not looked at.
AddRecordUnfilled(t) == Adds(t, Damaged(logs[logfile])) /\ Fault

\* Writer::AddRecord fails.  Its bytes are there all the same, and the file may lack
\* them; no background error is set.
AddRecordFails(t) ==
  /\ th[t].pc = "append"
  /\ Fault
  /\ \E l \in {Found(logs[logfile]), Damaged(logs[logfile])} : LogBecomes(l)
  /\ group' = [group EXCEPT !.status = "failed"]
  /\ th' = [th EXCEPT ![t].pc = "publish"]
  /\ UNCHANGED <<writers, acked, pinned, memory, work, open, manifest, calls,
                 crashes>>

Sync(t) ==
  /\ th[t].pc = "sync"
  /\ logs' = [logs EXCEPT ![logfile].synced = logs[logfile].recs]
  /\ th' = [th EXCEPT ![t].pc = "insert"]
  /\ UNCHANGED <<writers, group, acked, pinned, memory, work, open, manifest,
                 bounds>>

SyncFails(t) ==
  /\ th[t].pc = "sync"
  /\ Fault
  /\ group' = [group EXCEPT !.status = "syncFailed"]
  /\ th' = [th EXCEPT ![t].pc = "publish"]
  /\ UNCHANGED <<writers, acked, pinned, memory, work, open, disk, calls,
                 crashes>>

InsertInto(t) ==
  /\ th[t].pc = "insert"
  /\ mem' = mem \cup Record
  /\ th' = [th EXCEPT ![t].pc = "publish"]
  /\ UNCHANGED <<writers, group, acked, pinned, imm, hasImm, logfile,
                 lastSequence, nextFile, tables, logNumber, l0, work, open,
                 disk, bounds>>

\* The leader takes the mutex back: it publishes the sequence numbers, even
\* of a group that failed, and hands every member its status.
Returned(f) ==
  [t \in Threads |->
     IF \E j \in 1..group.size : writers[j] = t
     THEN IF f[t].null /\ group.status = "ok"
          THEN [Idle EXCEPT !.pc = "immcheck"] ELSE Idle
     ELSE f[t]]

Publish(t) ==
  LET q == SubSeq(writers, group.size + 1, Len(writers))
      failing == group.status = "syncFailed" /\ ~bgError
  IN /\ th[t].pc = "publish"
     /\ bgError' = (bgError \/ failing)
     /\ lastSequence' = group.last
     /\ writers' = q
     /\ th' = Signal(Returned(IF failing THEN SignalAll(th) ELSE th), q)
     /\ group' = NoGroup
     /\ IF group.status = "ok"
        THEN acked' = acked \cup Record /\ pinned' = pinned \cup group.pins
        ELSE UNCHANGED <<acked, pinned>>
     /\ UNCHANGED <<mem, imm, hasImm, logfile, nextFile, tables, logNumber, l0,
                    bgScheduled, bg, open, disk, bounds>>

\* TEST_CompactMemTable waits for the memtable it meant to have flushed.
CompactMemTableWaits(t) ==
  /\ th[t].pc = "immcheck"
  /\ th' = [th EXCEPT ![t] = IF hasImm /\ ~bgError
                             THEN [Idle EXCEPT !.pc = "immwait"] ELSE Idle]
  /\ UNCHANGED <<writers, group, acked, pinned, memory, work, open, disk,
                 bounds>>

-----------------------------------------------------------------------------
(* The background thread.                                                  *)

NeedsWork(has, files, err) == (has \/ files >= L0Compaction) /\ ~err

\* The end of BackgroundCall.
Ends(has, files, err) == /\ bg' = "idle"
                         /\ bgScheduled' = NeedsWork(has, files, err)
                         /\ th' = SignalAll(th)
                         /\ UNCHANGED <<writers, group, acked, pinned>>

BackgroundCall ==
  /\ bgScheduled /\ bg = "idle"
  /\ \/ /\ ~bgError /\ hasImm
        /\ bg' = "flush"
        /\ UNCHANGED <<thread, bgScheduled>>
     \/ /\ ~bgError /\ ~hasImm /\ l0 >= L0Compaction
        /\ bg' = "compact"
        /\ UNCHANGED <<thread, bgScheduled>>
     \/ /\ bgError \/ (~hasImm /\ l0 < L0Compaction)
        /\ Ends(hasImm, l0, bgError)
  /\ UNCHANGED <<memory, bgError, open, disk, bounds>>

\* DoCompactionWork turns to a memtable that has become immutable meanwhile.
FlushFirst == /\ bg = "compact" /\ hasImm
              /\ bg' = "compactFlush"
              /\ UNCHANGED <<thread, memory, bgError, bgScheduled, open, disk,
                             bounds>>

Flushing == bg \in {"flush", "compactFlush"}

\* LogAndApply appends an edit to the manifest, which is a log too, and the log stays
\* in use when that fails.  An edit behind a failed append is found when the manifest
\* is read, or the reader ends before it.
EditLogged(e) == {m \in {e} : manifest.end # "cut"} \cup
                 {[m EXCEPT !.end = "cut"] : m \in {n \in {manifest} : n.end # "whole"}}
\* It fails; the edit may be there all the same.
EditFailed(e) == {manifest} \cup EditLogged(e) \cup
                 {[m EXCEPT !.end = "damaged"] : m \in {n \in {manifest} : n.end # "cut"}}

\* The edit CompactMemTable writes to the manifest: a table with imm_, unless
\* that is empty, at level 0 or below, and the current log as the oldest needed.
Level0Files == IF imm = {} THEN {l0} ELSE {l0, l0 + 1}
Edit(files) == [log |-> logfile, next |-> nextFile, last |-> lastSequence,
                tables |-> manifest.tables \cup imm, l0 |-> files,
                end |-> manifest.end]

FlushLogged == /\ Flushing
               /\ \E files \in Level0Files : manifest' \in EditLogged(Edit(files))
               /\ bg' = IF bg = "flush" THEN "install" ELSE "compactInstall"
               /\ UNCHANGED <<thread, memory, bgError, bgScheduled, open, logs,
                              bounds>>

\* Mutant: the log in use is deleted with the old ones.
KeptAfter(from) == [n \in {m \in DOMAIN logs : bgError \/ m > from} |-> logs[n]]

\* Its end, when the manifest is written: the version is installed and logs
\* no longer needed are deleted.
Kept(from) == [n \in {m \in DOMAIN logs : bgError \/ m >= from} |-> logs[n]]

FlushInstalled ==
  /\ bg \in {"install", "compactInstall"}
  /\ tables' = tables \cup imm /\ logNumber' = logfile
  /\ l0' \in IF manifest.end = "cut" THEN Level0Files ELSE {manifest.l0}
  /\ imm' = {} /\ hasImm' = FALSE
  /\ logs' = Kept(logfile)
  /\ IF bg = "install"
     THEN Ends(FALSE, l0', bgError)
     ELSE /\ bg' = "compact"
          /\ th' = SignalAll(th)
          /\ UNCHANGED <<writers, group, acked, pinned, bgScheduled>>
  /\ UNCHANGED <<mem, logfile, lastSequence, nextFile, bgError, open, manifest,
                 bounds>>

\* The table or the manifest cannot be written.
FlushFails ==
  /\ Flushing
  /\ Fault
  /\ \E files \in Level0Files : manifest' \in EditFailed(Edit(files))
  /\ bgError' = TRUE
  /\ IF bg = "flush"
     THEN Ends(TRUE, l0, TRUE)
     ELSE /\ bg' = "compact"
          /\ th' = SignalAll(th)
          /\ UNCHANGED <<writers, group, acked, pinned, bgScheduled>>
  /\ UNCHANGED <<memory, open, logs, calls, crashes>>

\* Mutant: the edit names the log in use, as a flush does.
CompactionEditNewLog == [manifest EXCEPT !.log = logfile, !.next = nextFile,
                                         !.last = lastSequence, !.l0 = 0]

\* A compaction of level 0 ends.  Its edit names no log, so LogAndApply puts
\* the version's own.
CompactionEdit == [manifest EXCEPT !.log = logNumber, !.next = nextFile,
                                   !.last = lastSequence, !.l0 = 0]

CompactionEnds ==
  /\ bg = "compact"
  /\ l0' = 0
  /\ manifest' \in EditLogged(CompactionEdit)
  /\ logs' = Kept(logNumber)
  /\ Ends(hasImm, 0, bgError)
  /\ UNCHANGED <<mem, imm, hasImm, logfile, lastSequence, nextFile, tables,
                 logNumber, bgError, open, bounds>>

CompactionFails ==
  /\ bg = "compact"
  /\ Fault
  /\ bgError' = TRUE
  /\ manifest' \in EditFailed(CompactionEdit)
  /\ Ends(hasImm, l0, TRUE)
  /\ UNCHANGED <<memory, open, logs, calls, crashes>>

-----------------------------------------------------------------------------
(* Crashes, and DB::Open after them.                                       *)

Forgets ==
  /\ th' = [t \in Threads |-> Idle] /\ writers' = <<>> /\ group' = NoGroup
  /\ mem' = {} /\ imm' = {} /\ hasImm' = FALSE
  /\ tables' = {} /\ l0' = 0 /\ lastSequence' = 0
  /\ logfile' = 0 /\ nextFile' = 0 /\ logNumber' = 0
  /\ bgError' = FALSE /\ bgScheduled' = FALSE /\ bg' = "idle"
  /\ open' = "closed"
  /\ pinned' = pinned \ Lost
  /\ UNCHANGED <<manifest, calls>>

Crashes == crashes < MaxCrashes /\ crashes' = crashes + 1

\* Of each log a reader finds its records again, or those up to some point.
ProcessDies ==
  /\ open # "closed"
  /\ Crashes
  /\ Forgets
  /\ logs' = [n \in DOMAIN logs |-> [logs[n] EXCEPT !.lost = {}]]
  /\ acked' = acked \ Lost
  /\ UNCHANGED faults

\* Those that were synced are before it.
Surviving(l, upto) == {r \in l.recs : r \in l.synced \/ \A s \in r : s <= upto}

MachineDies ==
  /\ PowerLoss
  /\ open # "closed"
  /\ Crashes
  /\ Forgets
  /\ \E upto \in [DOMAIN logs -> 0..MaxCalls] :
       logs' = [n \in DOMAIN logs |->
                  [recs    |-> Surviving(logs[n], upto[n]),
                   synced  |-> Surviving(logs[n], upto[n]),
                   damaged |-> logs[n].damaged, lost |-> {}]]
  /\ acked' = acked \cap OnDisk'
  /\ UNCHANGED faults

\* Recover replays the live logs, one level-0 table each, and a new log is
\* created; the manifest does not know any of it yet.
Greatest(S) == {n \in S : \A m \in S : m <= n}
\* Mutant: the log the manifest names is taken for flushed.
ReplayedAfter == {n \in DOMAIN logs : n > manifest.log /\ logs[n].recs # {}}
Replayed == {n \in DOMAIN logs : n >= manifest.log /\ logs[n].recs # {}}
Replays == UNION {UNION logs[n].recs : n \in Replayed}
\* Mutant: the numbers found in the logs are not counted.
ManifestSequence == {manifest.last}
RecoveredSequence == Greatest({manifest.last} \cup Replays)

Recover ==
  /\ open = "closed"
  /\ open' = "opening"
  /\ tables' = manifest.tables \cup Replays
  /\ lastSequence' \in RecoveredSequence
  /\ l0' = manifest.l0 + Cardinality(Replayed)
  /\ logNumber' = manifest.log
  /\ \E used \in Greatest({manifest.next} \cup {n \in DOMAIN logs : Live(n)}) :
       /\ logfile' = used + 1 /\ nextFile' = used + 2
       /\ logs' = WithNewLog(used + 1)
  /\ UNCHANGED <<thread, mem, imm, hasImm, work, manifest, bounds>>

\* LogAndApply writes a new descriptor, DeleteObsoleteFiles follows.
Open == /\ open = "opening"
        /\ open' = "open"
        /\ manifest' = [log |-> logfile, next |-> nextFile, last |-> lastSequence,
                        tables |-> tables, l0 |-> l0, end |-> "whole"]
        /\ logNumber' = logfile
        /\ logs' = Kept(logfile)
        /\ bgScheduled' = NeedsWork(FALSE, l0, FALSE)
        /\ UNCHANGED <<thread, mem, imm, hasImm, logfile, lastSequence, nextFile,
                       tables, l0, bgError, bg, bounds>>

OpenFails == /\ open = "opening"
             /\ Fault
             /\ Forgets
             /\ UNCHANGED <<logs, acked, crashes>>

-----------------------------------------------------------------------------
Steps(t) == \/ Front(t)
            \/ AddRecord(t) \/ AddRecordUnfilled(t) \/ AddRecordFails(t)
            \/ Sync(t) \/ SyncFails(t)
            \/ InsertInto(t)
            \/ Publish(t)
            \/ CompactMemTableWaits(t)

Background == \/ BackgroundCall
              \/ FlushFirst \/ FlushLogged \/ FlushInstalled \/ FlushFails
              \/ CompactionEnds \/ CompactionFails

Opening == Recover \/ Open \/ OpenFails

Next == \/ \E t \in Threads, sync, null \in BOOLEAN : Write(t, sync, null)
        \/ \E t \in Threads : Steps(t)
        \/ Background
        \/ ProcessDies \/ MachineDies
        \/ Opening

Spec == Init /\ [][Next]_vars

\* Every thread and the background thread get to run.  A store that is closed may stay
\* so: nobody need open it, and DB::Open may find a damaged manifest.
Fairness == /\ \A t \in Threads : WF_vars(Steps(t))
            /\ WF_vars(Background)
FairSpec == Spec /\ Fairness
-----------------------------------------------------------------------------
(* Properties.                                                             *)

ThreadState == [pc : {"idle", "queued", "front", "bgwait", "immcheck", "immwait",
                      "append", "sync", "insert", "publish"},
                sync : BOOLEAN, null : BOOLEAN, delay : BOOLEAN]
GroupState == [size : Nat, first : Nat, last : Nat, sync : BOOLEAN,
               pins : SUBSET Nat, status : {"ok", "failed", "syncFailed"}]
LogState == [recs : SUBSET SUBSET Nat, synced : SUBSET SUBSET Nat, damaged : BOOLEAN,
             lost : SUBSET SUBSET Nat]
ManifestState == [log : Nat, next : Nat, last : Nat, tables : SUBSET Nat, l0 : Nat,
                  end : {"whole", "damaged", "cut"}]

\* Every variable has a value of its type, the log being written exists, a log no
\* append to which has failed has lost nothing, and the batch group is the front of
\* the queue.
TypeOK ==
  /\ th \in [Threads -> ThreadState]
  /\ writers \in Seq(Threads)
  /\ group \in GroupState
  /\ mem \subseteq Nat /\ imm \subseteq Nat /\ tables \subseteq Nat
  /\ hasImm \in BOOLEAN /\ bgError \in BOOLEAN /\ bgScheduled \in BOOLEAN
  /\ logfile \in Nat /\ lastSequence \in Nat /\ nextFile \in Nat /\ logNumber \in Nat
  /\ l0 \in Nat /\ calls \in Nat /\ faults \in Nat /\ crashes \in Nat
  /\ bg \in {"idle", "flush", "install", "compact", "compactFlush", "compactInstall"}
  /\ open \in {"closed", "opening", "open"}
  /\ manifest \in ManifestState
  /\ \A n \in DOMAIN logs : /\ n \in Nat /\ logs[n] \in LogState
                            /\ ~logs[n].damaged => logs[n].lost = {}
  /\ acked \subseteq Nat /\ pinned \subseteq Nat
  /\ open # "closed" => logfile \in DOMAIN logs
  /\ group.size <= Len(writers)

\* A write that Write has acknowledged is seen by every later read: not lost
\* between the log and the memtable, nor while the memtable becomes a table
\* (MakeRoomForWrite, CompactMemTable).
AckedVisible == open = "open" => acked \subseteq mem \cup Imm \cup tables

\* The manifest and the logs DeleteObsoleteFiles has left hold every acknowledged
\* write, whatever the moment, but for those a log still needed has lost behind a
\* failed append: they are gone for good only when the process stops before their
\* memtable is flushed.
AckedOnDisk == acked \subseteq OnDisk \cup Lost

\* "If it is just the process that crashes (i.e., the machine does not reboot), no
\* writes will be lost even if sync==false" (options.h:194-196).
NoWritesLost == acked \subseteq OnDisk

\* A write acknowledged with sync = true survives the machine's crash, also when it
\* was committed in the group of another writer, unless it is one of those.
PinnedSynced == pinned \subseteq OnDiskSynced \cup Lost

\* Sequence numbers are used once: those of the group about to be logged are
\* in no log, memtable or table, even after a write that failed halfway, or a
\* recovery (SetLastSequence, Recover).
FreshSequence ==
  (\E t \in Threads : th[t].pc = "append") =>
    Record \cap (OnDisk \cup mem \cup Imm \cup tables) = {}

\* The writes a read sees, whatever memtable or table they are in, are a
\* DurableStore: group after group, flushes and compactions change nothing, a crash
\* takes away what it may, and writes are exposed to it only while the log in use is
\* not healthy.
Visible == {s \in mem \cup Imm \cup tables : s <= lastSequence}
Store == INSTANCE DurableStore
         WITH store   <- IF open = "open" THEN Visible ELSE OnDisk,
              firm    <- pinned,
              exposed <- IF open = "open" THEN Visible \cap Lost ELSE {},
              healthy <- IF open = "open" THEN ~logs[logfile].damaged ELSE TRUE,
              running <- (open = "open")
Implements == Store!Spec

\* Every Write and every TEST_CompactMemTable returns: a writer in the queue is
\* signalled when its turn comes, one that waits for room when there is some or
\* after a background error.
WritesReturn == \A t \in Threads : (th[t].pc # "idle") ~> (th[t].pc = "idle")
=============================================================================
