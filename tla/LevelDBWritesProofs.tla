------------------------- MODULE LevelDBWritesProofs -------------------------
(***************************************************************************)
(* Proofs about LevelDBWrites, for any number of threads, calls, failures  *)
(* and crashes.                                                            *)
(***************************************************************************)
EXTENDS LevelDBWrites, FiniteSetTheorems, SequenceTheorems, TLAPS

\* TypeOK in three parts.
ThreadOK ==
  /\ th \in [Threads -> ThreadState] /\ writers \in Seq(Threads)
  /\ group \in GroupState /\ group.size <= Len(writers)
  /\ acked \subseteq Nat /\ pinned \subseteq Nat
CountOK == calls \in Nat /\ faults \in Nat /\ crashes \in Nat
StoreOK ==
  /\ mem \subseteq Nat /\ imm \subseteq Nat /\ tables \subseteq Nat
  /\ hasImm \in BOOLEAN /\ bgError \in BOOLEAN /\ bgScheduled \in BOOLEAN
  /\ logfile \in Nat /\ lastSequence \in Nat /\ nextFile \in Nat /\ logNumber \in Nat
  /\ l0 \in Nat
  /\ bg \in {"idle", "flush", "install", "compact", "compactFlush", "compactInstall"}
  /\ open \in {"closed", "opening", "open"}
  /\ manifest \in ManifestState
  /\ \A n \in DOMAIN logs : /\ n \in Nat /\ logs[n] \in LogState
                            /\ ~logs[n].damaged => logs[n].lost = {}
  /\ open # "closed" => logfile \in DOMAIN logs

InGroup == {"append", "sync", "insert", "publish"}
AtFront == InGroup \cup {"front", "bgwait"}

\* Only the front of the queue commits, or waits to.
QueueInv ==
  /\ \A t \in Threads :
       /\ th[t].pc \in AtFront => writers # <<>> /\ t = Head(writers)
       /\ th[t].pc \in InGroup => group.size > 0
  /\ group.size > 0 => \E t \in Threads : th[t].pc \in InGroup

\* Without an open store nobody is at work.
OffInv ==
  open # "open" => /\ \A t \in Threads : th[t].pc = "idle"
                   /\ mem = {} /\ ~hasImm /\ bg = "idle"
                   /\ ~bgScheduled /\ ~bgError

\* A manifest edit in hand is the flush of imm_.
FlushInv ==
  /\ bg \in {"flush", "compactFlush", "install", "compactInstall"} => hasImm
  /\ bg \in {"install", "compactInstall"} /\ manifest.end # "cut" =>
       imm \subseteq manifest.tables /\ manifest.log = logfile

\* The files are those before the current log, and those the version has are known
\* to the manifest, unless an append to it has failed.
FileInv ==
  /\ IsFiniteSet(DOMAIN logs)
  /\ manifest.log <= manifest.next
  /\ \A s \in manifest.tables : s <= manifest.last
  /\ \A n \in DOMAIN logs : logs[n].synced \subseteq logs[n].recs
  /\ open # "closed" =>
       /\ logfile \in DOMAIN logs /\ logfile < nextFile
       /\ manifest.log <= logfile /\ manifest.next <= nextFile
       /\ \A n \in DOMAIN logs : n <= logfile
  /\ open = "open" => /\ manifest.end # "cut" => logNumber <= manifest.log
                      /\ manifest.end # "whole" => bgError

\* A record that a log has lost is found in none.
LostInv ==
  /\ \A n, m \in DOMAIN logs : \A r \in logs[n].recs, q \in logs[m].lost : r \cap q = {}
  /\ open # "open" => \A n \in DOMAIN logs : logs[n].lost = {}

\* What a read finds is on the disk, or was lost behind a failed append.
Held == OnDisk \cup Lost

StoreInv ==
  /\ open = "open" =>
       /\ mem \subseteq UNION (logs[logfile].recs \cup logs[logfile].lost)
       /\ Imm \subseteq Held /\ tables \subseteq Held
       /\ manifest.end # "cut" => tables \subseteq manifest.tables
       /\ acked \subseteq mem \cup Imm \cup tables
  /\ open = "opening" => tables = OnDisk /\ logs[logfile] = NewLog
  /\ acked \subseteq Held

\* What was acknowledged with sync = true is synced, or lost.
SyncInv ==
  /\ pinned \subseteq acked
  /\ pinned \subseteq OnDiskSynced \cup Lost
  /\ open = "open" =>
       pinned \cap mem \subseteq UNION (logs[logfile].synced \cup logs[logfile].lost)

\* How far the group at the front of the queue is.
Logged(t) == \/ th[t].pc \in {"sync", "insert"}
             \/ th[t].pc = "publish" /\ group.status = "ok"
Durable(t) == th[t].pc # "sync" /\ Logged(t)
Inserted(t) == th[t].pc = "publish" /\ group.status = "ok"

GroupInv ==
  \A t \in Threads : th[t].pc \in InGroup =>
    /\ group.first = lastSequence + 1 /\ group.last >= lastSequence
    /\ group.pins \subseteq Record /\ (group.pins # {} => group.sync)
    /\ th[t].pc # "publish" => group.status = "ok"
    /\ Logged(t) => Record \in logs[logfile].recs \cup logs[logfile].lost
    /\ Durable(t) /\ group.sync => Record \in logs[logfile].synced \cup logs[logfile].lost
    /\ Inserted(t) => Record \subseteq mem

\* Sequence numbers in use are no greater than the last, but for those of the group
\* that is being committed.
Committing(s) == \E t \in Threads : /\ th[t].pc \in {"sync", "insert", "publish"}
                                    /\ s \in Record
Applying(s) == \E t \in Threads : Inserted(t) /\ s \in Record

NumberInv ==
  /\ open # "closed" => /\ manifest.last <= lastSequence
                        /\ \A s \in tables : s <= lastSequence
  /\ open = "open" =>
       /\ \A s \in Imm \cup acked : s <= lastSequence
       /\ \A s \in mem : s <= lastSequence \/ Applying(s)
       /\ \A n \in DOMAIN logs : \A r \in logs[n].recs \cup logs[n].lost : \A s \in r :
            s <= lastSequence \/ Committing(s)

IInv == /\ TypeOK /\ QueueInv /\ OffInv /\ FlushInv /\ FileInv /\ LostInv
        /\ StoreInv /\ SyncInv /\ GroupInv /\ NumberInv


-----------------------------------------------------------------------------
(* Lemmas about the operators.                                             *)

LEMMA TypeParts ==
  /\ TypeOK <=> ThreadOK /\ StoreOK /\ CountOK
  /\ TypeOK' <=> ThreadOK' /\ StoreOK' /\ CountOK'
BY DEF TypeOK, ThreadOK, StoreOK, CountOK

LEMMA Types ==
  ASSUME TypeOK
  PROVE  /\ th \in [Threads -> ThreadState] /\ writers \in Seq(Threads)
         /\ calls \in Nat /\ faults \in Nat /\ lastSequence \in Nat
         /\ group.size \in Nat /\ group.size <= Len(writers)
         /\ group.first \in Nat /\ group.last \in Nat /\ group.pins \subseteq Nat
<1>1. group \in GroupState
  BY DEF TypeOK
<1>2. /\ group.size \in Nat /\ group.first \in Nat /\ group.last \in Nat
      /\ group.pins \subseteq Nat
  BY <1>1 DEF GroupState
<1> QED
  BY <1>2 DEF TypeOK

LEMMA BatchesType ==
  ASSUME NEW q, NEW f, NEW k \in Nat
  PROVE  Batches(q, f, k) \in Nat
<1> DEFINE S == {j \in 1..k : ~f[q[j]].null}
<1>1. IsFiniteSet(1..k)
  BY FS_Interval
<1>2. S \in SUBSET (1..k)
  OBVIOUS
<1> HIDE DEF S
<1>3. Cardinality(S) \in Nat
  BY <1>1, <1>2, FS_Subset, FS_CardinalityType
<1> QED
  BY <1>3 DEF Batches, S

LEMMA SignalIs ==
  ASSUME NEW f \in [Threads -> ThreadState], NEW q \in Seq(Threads)
  PROVE  /\ Signal(f, q) \in [Threads -> ThreadState]
         /\ \A t \in Threads : \/ Signal(f, q)[t] = f[t]
                               \/ /\ q # <<>> /\ t = Head(q)
                                  /\ Signal(f, q)[t].pc = "front"
BY DEF Signal, ThreadState

LEMMA SignalAllIs ==
  ASSUME NEW f \in [Threads -> ThreadState]
  PROVE  /\ SignalAll(f) \in [Threads -> ThreadState]
         /\ \A t \in Threads : \/ SignalAll(f)[t] = f[t]
                               \/ f[t].pc = "bgwait" /\ SignalAll(f)[t].pc = "front"
                               \/ f[t].pc = "immwait" /\ SignalAll(f)[t].pc = "immcheck"
<1> DEFINE to(pc) == CASE pc = "bgwait"  -> "front"
                       [] pc = "immwait" -> "immcheck"
                       [] OTHER          -> pc
           g(t) == [f[t] EXCEPT !.pc = to(f[t].pc)]
<1>1. SignalAll(f) = [t \in Threads |-> g(t)]
  BY DEF SignalAll
<1>2. ASSUME NEW t \in Threads
      PROVE  /\ g(t) \in ThreadState
             /\ \/ g(t) = f[t]
                \/ f[t].pc = "bgwait" /\ g(t).pc = "front"
                \/ f[t].pc = "immwait" /\ g(t).pc = "immcheck"
  <2>1. f[t] \in ThreadState
    OBVIOUS
  <2>2. to(f[t].pc) \in {"front", "immcheck", f[t].pc}
    OBVIOUS
  <2>3. f[t].pc \notin {"bgwait", "immwait"} => g(t) = f[t]
    BY <2>1 DEF ThreadState
  <2> QED
    BY <2>1, <2>2, <2>3 DEF ThreadState
<1> HIDE DEF g
<1> QED
  BY <1>1, <1>2

LEMMA ReturnedIs ==
  ASSUME NEW f \in [Threads -> ThreadState]
  PROVE  /\ Returned(f) \in [Threads -> ThreadState]
         /\ \A t \in Threads : \/ Returned(f)[t].pc \in {"idle", "immcheck"}
                               \/ /\ Returned(f)[t] = f[t]
                                  /\ \A j \in 1..group.size : writers[j] # t
BY DEF Returned, ThreadState, Idle

-----------------------------------------------------------------------------
(* A writer at the front of the queue: Write on an empty queue, or Front.  *)

\* MakeRoom is called for t, with the queue q and the threads' states f.
AtRoom(t, q, f) ==
  /\ open = "open" /\ UNCHANGED <<open, crashes>> /\ calls' \in Nat
  /\ q \in Seq(Threads) /\ q # <<>> /\ t = Head(q)
  /\ f \in [Threads -> ThreadState]
  /\ \A u \in Threads : f[u].pc \in AtFront => u = t
  /\ \A u \in Threads : f[u].pc \notin InGroup /\ th[u].pc \notin InGroup
  /\ group.size = 0
  /\ MakeRoom(t, q, f)

\* A writer joins the queue behind others.
Joins(t) ==
  /\ open = "open" /\ UNCHANGED <<open, crashes>> /\ calls' \in Nat
  /\ writers # <<>> /\ writers' = Append(writers, t)
  /\ th' \in [Threads -> ThreadState] /\ th'[t].pc = "queued" /\ th[t].pc = "idle"
  /\ \A u \in Threads : u # t => th'[u] = th[u]
  /\ UNCHANGED <<group, acked, pinned, memory, work, disk, faults>>

LEMMA FrontIs ==
  ASSUME IInv, NEW t \in Threads, Front(t)
  PROVE  AtRoom(t, writers, th)
<1>1. /\ th[t].pc = "front" /\ MakeRoom(t, writers, th)
      /\ UNCHANGED <<open, calls, crashes>>
  BY DEF Front
<1>2. open = "open"
  BY <1>1 DEF IInv, OffInv
<1>3. writers # <<>> /\ t = Head(writers)
  BY <1>1 DEF IInv, QueueInv, AtFront
<1>4. \A u \in Threads : th[u].pc \in AtFront => u = t
  BY <1>3 DEF IInv, QueueInv
<1>5. \A u \in Threads : th[u].pc \notin InGroup
  BY <1>1, <1>4 DEF InGroup, AtFront
<1>6. group.size = 0
  <2>1. ~(group.size > 0)
    BY <1>5 DEF IInv, QueueInv
  <2> QED
    BY <2>1, Types DEF IInv
<1> QED
  BY <1>1, <1>2, <1>3, <1>4, <1>5, <1>6 DEF AtRoom, IInv, TypeOK

LEMMA WriteIs ==
  ASSUME IInv, NEW t \in Threads, NEW sync \in BOOLEAN, NEW null \in BOOLEAN,
         Write(t, sync, null)
  PROVE  Joins(t) \/ \E q, f : AtRoom(t, q, f)
<1> DEFINE f == [th EXCEPT ![t] = Request(sync, null)]
<1>1. /\ open = "open" /\ th[t].pc = "idle" /\ calls' = calls + 1
      /\ UNCHANGED <<open, crashes>>
  BY DEF Write
<1>2. calls' \in Nat
  BY <1>1, Types DEF IInv
<1>3. Request(sync, null) \in ThreadState /\ Request(sync, null).pc = "queued"
  BY DEF Request, ThreadState
<1>4. /\ f \in [Threads -> ThreadState] /\ f[t].pc = "queued"
      /\ \A u \in Threads : u # t => f[u] = th[u]
  BY <1>3 DEF IInv, TypeOK
<1>5. CASE writers = <<>>
  <2>1. MakeRoom(t, <<t>>, f)
    BY <1>5 DEF Write
  <2>2. \A u \in Threads : th[u].pc \notin AtFront
    BY <1>5 DEF IInv, QueueInv
  <2>3. \A u \in Threads : f[u].pc \notin AtFront
    BY <1>4, <2>2 DEF AtFront, InGroup
  <2>4. group.size = 0
    <3>1. ~(group.size > 0)
      BY <2>2 DEF IInv, QueueInv, AtFront
    <3> QED
      BY <3>1, Types DEF IInv
  <2>5. <<t>> \in Seq(Threads) /\ <<t>> # <<>> /\ t = Head(<<t>>)
    OBVIOUS
  <2> HIDE DEF f
  <2>6. AtRoom(t, <<t>>, f)
    BY <1>1, <1>2, <1>4, <2>1, <2>2, <2>3, <2>4, <2>5 DEF AtRoom, AtFront
  <2> QED
    BY <2>6
<1>6. CASE writers # <<>>
  <2>1. /\ writers' = Append(writers, t) /\ th' = f
        /\ UNCHANGED <<group, acked, pinned, memory, work, disk, faults>>
    BY <1>6 DEF Write
  <2> QED
    BY <1>1, <1>2, <1>4, <1>6, <2>1 DEF Joins
<1> QED
  BY <1>5, <1>6

LEMMA RoomIs ==
  ASSUME NEW t, NEW q, NEW f, AtRoom(t, q, f), TypeOK
  PROVE  /\ \/ Lead(t, q, f)
            \/ \E ok \in BOOLEAN : Leave(t, q, f, ok)
            \/ \E pc \in {"front", "bgwait"} : Sleep(t, q, f, pc)
         /\ \/ SwitchMemtable /\ ~hasImm
            \/ UNCHANGED <<memory, work, disk>>
         /\ faults' \in Nat
<1>1. MakeRoom(t, q, f) /\ faults \in Nat
  BY Types DEF AtRoom
<1>2. faults' \in Nat
  <2>1. faults' = faults \/ faults' = faults + 1
    BY <1>1 DEF MakeRoom, SwitchMemtable, Fault
  <2> QED
    BY <1>1, <2>1
<1>3. \/ SwitchMemtable /\ ~hasImm
      \/ UNCHANGED <<memory, work, disk>>
  BY <1>1 DEF MakeRoom, Blocked
<1>4. \/ Lead(t, q, f)
      \/ \E ok \in BOOLEAN : Leave(t, q, f, ok)
      \/ \E pc \in {"front", "bgwait"} : Sleep(t, q, f, pc)
  <2>1. \/ Lead(t, q, f) \/ Leave(t, q, f, TRUE) \/ Leave(t, q, f, FALSE)
        \/ Sleep(t, q, f, "front") \/ Sleep(t, q, f, "bgwait")
    BY <1>1 DEF MakeRoom
  <2> QED
    BY <2>1
<1> QED
  BY <1>2, <1>3, <1>4

LEMMA LeadIs ==
  ASSUME TypeOK, NEW t, NEW q, NEW f, AtRoom(t, q, f), Lead(t, q, f)
  PROVE  /\ writers' = q /\ UNCHANGED <<acked, pinned>>
         /\ group' \in GroupState /\ group'.size \in 1..Len(q)
         /\ group'.first = lastSequence + 1 /\ group'.last >= lastSequence
         /\ group'.pins \subseteq group'.first .. group'.last
         /\ group'.pins # {} => group'.sync
         /\ group'.status = "ok"
         /\ th' \in [Threads -> ThreadState] /\ th'[t].pc = "append"
         /\ \A u \in Threads : u # t => th'[u] = f[u]
<1>1. /\ writers' = q /\ UNCHANGED <<acked, pinned>>
      /\ th' = [f EXCEPT ![t].pc = "append", ![t].delay = FALSE]
  BY DEF Lead
<1>2. PICK k \in 1..Len(q) :
        /\ GroupEnds(q, f, k)
        /\ group' = [size |-> k, first |-> lastSequence + 1,
                     last |-> lastSequence + Batches(q, f, k), sync |-> f[t].sync,
                     pins |-> Pins(q, f, k, (lastSequence + 1) .. (lastSequence + Batches(q, f, k))),
                     status |-> "ok"]
  BY DEF Lead
<1>3. Batches(q, f, k) \in Nat /\ lastSequence \in Nat /\ t \in Threads
  <2>1. k \in Nat
    BY <1>2
  <2>2. t \in Threads
    BY HeadTailProperties DEF AtRoom
  <2> QED
    BY <2>1, <2>2, BatchesType, Types
<1>4. f[t] \in ThreadState /\ f \in [Threads -> ThreadState]
  BY <1>3 DEF AtRoom
<1>5. /\ th' \in [Threads -> ThreadState] /\ th'[t].pc = "append"
      /\ \A u \in Threads : u # t => th'[u] = f[u]
  BY <1>1, <1>3, <1>4 DEF ThreadState
<1>6. /\ group'.pins \subseteq (lastSequence + 1) .. (lastSequence + Batches(q, f, k))
      /\ group'.pins # {} => \E j \in 1..k : f[q[j]].sync
  BY <1>2 DEF Pins
<1>7. group'.pins # {} => group'.sync
  <2>1. q[1] = t
    BY DEF AtRoom
  <2> QED
    BY <1>2, <1>6, <2>1 DEF GroupEnds
<1>8. group'.pins \in SUBSET Nat
  BY <1>3, <1>6
<1>9. group' \in GroupState
  BY <1>2, <1>3, <1>4, <1>8 DEF GroupState, ThreadState
<1> QED
  BY <1>1, <1>2, <1>3, <1>5, <1>6, <1>7, <1>9

\* Nobody but the front of the queue commits after a writer's turn, and it begins with
\* the record it has composed.
Composed ==
  /\ \A u \in Threads : th[u].pc \in InGroup =>
       /\ th[u].pc = "append" /\ group.status = "ok"
       /\ group.first = lastSequence + 1 /\ group.last >= lastSequence
       /\ group.pins \subseteq group.first .. group.last
       /\ group.pins # {} => group.sync

LEMMA RoomLead ==
  ASSUME TypeOK, NEW t, NEW q, NEW f, AtRoom(t, q, f), Lead(t, q, f),
         lastSequence' = lastSequence
  PROVE  /\ UNCHANGED <<acked, pinned>>
         /\ th' \in [Threads -> ThreadState] /\ writers' \in Seq(Threads)
         /\ group' \in GroupState /\ group'.size <= Len(writers')
         /\ QueueInv' /\ Composed'
<1>1. /\ q \in Seq(Threads) /\ q # <<>> /\ t = Head(q) /\ t \in Threads
      /\ \A u \in Threads : f[u].pc \in AtFront => u = t
  BY HeadTailProperties DEF AtRoom
<1>2. /\ writers' = q /\ UNCHANGED <<acked, pinned>>
      /\ group' \in GroupState /\ group'.size \in 1..Len(q)
      /\ group'.first = lastSequence + 1 /\ group'.last >= lastSequence
      /\ group'.pins \subseteq group'.first .. group'.last
      /\ group'.pins # {} => group'.sync
      /\ group'.status = "ok"
      /\ th' \in [Threads -> ThreadState] /\ th'[t].pc = "append"
      /\ \A u \in Threads : u # t => th'[u] = f[u]
  BY LeadIs
<1>3. \A u \in Threads : th'[u].pc \in AtFront => u = t
  BY <1>1, <1>2
<1>4. Len(q) \in Nat
  BY <1>1
<1>5. group'.size > 0 /\ group'.size <= Len(writers')
  BY <1>2, <1>4
<1>6. QueueInv'
  BY <1>1, <1>2, <1>3, <1>5 DEF QueueInv, InGroup
<1>7. Composed'
  BY <1>2, <1>3 DEF Composed, AtFront
<1> QED
  BY <1>1, <1>2, <1>5, <1>6, <1>7

LEMMA RoomLeave ==
  ASSUME TypeOK, NEW t, NEW q, NEW f, AtRoom(t, q, f),
         NEW ok \in BOOLEAN, Leave(t, q, f, ok)
  PROVE  /\ UNCHANGED <<acked, pinned>>
         /\ th' \in [Threads -> ThreadState] /\ writers' \in Seq(Threads)
         /\ group' \in GroupState /\ group'.size <= Len(writers')
         /\ QueueInv' /\ Composed'
<1> DEFINE left == [f EXCEPT ![t] = IF ok /\ f[t].null
                                    THEN [Idle EXCEPT !.pc = "immcheck"]
                                    ELSE Idle]
<1>1. /\ q \in Seq(Threads) /\ q # <<>> /\ t = Head(q) /\ t \in Threads
      /\ Tail(q) \in Seq(Threads)
      /\ f \in [Threads -> ThreadState] /\ group.size = 0
      /\ \A u \in Threads : f[u].pc \in AtFront => u = t
  BY HeadTailProperties DEF AtRoom
<1>2. /\ writers' = Tail(q) /\ th' = Signal(left, Tail(q))
      /\ UNCHANGED <<group, acked, pinned>>
  BY DEF Leave
<1>3. /\ left \in [Threads -> ThreadState]
      /\ left[t].pc \in {"idle", "immcheck"}
      /\ \A u \in Threads : u # t => left[u] = f[u]
  <2>1. Idle \in ThreadState /\ [Idle EXCEPT !.pc = "immcheck"] \in ThreadState
    BY DEF Idle, ThreadState
  <2>2. Idle.pc = "idle" /\ [Idle EXCEPT !.pc = "immcheck"].pc = "immcheck"
    BY DEF Idle
  <2> QED
    BY <1>1, <2>1, <2>2
<1>4. \A u \in Threads : left[u].pc \notin AtFront
  BY <1>1, <1>3 DEF AtFront, InGroup
<1> HIDE DEF left
<1>5. /\ th' \in [Threads -> ThreadState]
      /\ \A u \in Threads : \/ th'[u] = left[u]
                            \/ /\ writers' # <<>> /\ u = Head(writers')
                               /\ th'[u].pc = "front"
  <2>1. /\ Signal(left, Tail(q)) \in [Threads -> ThreadState]
        /\ \A u \in Threads : \/ Signal(left, Tail(q))[u] = left[u]
                              \/ /\ Tail(q) # <<>> /\ u = Head(Tail(q))
                                 /\ Signal(left, Tail(q))[u].pc = "front"
    BY <1>1, <1>3, SignalIs
  <2> QED
    BY <1>2, <2>1
<1>6. \A u \in Threads : /\ th'[u].pc \notin InGroup
                         /\ th'[u].pc \in AtFront => writers' # <<>> /\ u = Head(writers')
  <2>1. TAKE u \in Threads
  <2>2. CASE th'[u] = left[u]
    BY <1>4, <2>2 DEF AtFront
  <2>3. CASE writers' # <<>> /\ u = Head(writers') /\ th'[u].pc = "front"
    BY <2>3 DEF InGroup
  <2> QED
    BY <1>5, <2>2, <2>3
<1>7. group' \in GroupState /\ group'.size = 0 /\ group'.size <= Len(writers')
  <2>1. Len(Tail(q)) \in Nat
    BY <1>1
  <2>2. group \in GroupState
    BY DEF TypeOK
  <2> QED
    BY <1>1, <1>2, <2>1, <2>2
<1> QED
  BY <1>1, <1>2, <1>5, <1>6, <1>7 DEF QueueInv, Composed

LEMMA RoomSleep ==
  ASSUME TypeOK, NEW t, NEW q, NEW f, AtRoom(t, q, f),
         NEW pc \in {"front", "bgwait"}, Sleep(t, q, f, pc)
  PROVE  /\ UNCHANGED <<acked, pinned>>
         /\ th' \in [Threads -> ThreadState] /\ writers' \in Seq(Threads)
         /\ group' \in GroupState /\ group'.size <= Len(writers')
         /\ QueueInv' /\ Composed'
<1>1. /\ q \in Seq(Threads) /\ q # <<>> /\ t = Head(q) /\ t \in Threads
      /\ f \in [Threads -> ThreadState] /\ group.size = 0
      /\ \A u \in Threads : f[u].pc \in AtFront => u = t
  BY HeadTailProperties DEF AtRoom
<1>2. /\ writers' = q /\ th' = [f EXCEPT ![t].pc = pc, ![t].delay = FALSE]
      /\ UNCHANGED <<group, acked, pinned>>
  BY DEF Sleep
<1>3. /\ th' \in [Threads -> ThreadState] /\ th'[t].pc = pc
      /\ \A u \in Threads : u # t => th'[u] = f[u]
  BY <1>1, <1>2 DEF ThreadState
<1>4. \A u \in Threads : /\ th'[u].pc \notin InGroup
                         /\ th'[u].pc \in AtFront => u = t
  BY <1>1, <1>3 DEF InGroup, AtFront
<1>5. group' \in GroupState /\ group'.size = 0 /\ group'.size <= Len(writers')
  <2>1. Len(q) \in Nat
    BY <1>1
  <2>2. group \in GroupState
    BY DEF TypeOK
  <2> QED
    BY <1>1, <1>2, <2>1, <2>2
<1> QED
  BY <1>1, <1>2, <1>3, <1>4, <1>5 DEF QueueInv, Composed

-----------------------------------------------------------------------------
(* What is on the disk.                                                    *)

\* OnDisk and OnDiskSynced by their elements, now and after a step.
LEMMA OnDiskIs ==
  /\ \A s : s \in OnDisk <=>
       \/ s \in manifest.tables
       \/ \E n \in DOMAIN logs : n >= manifest.log /\ s \in UNION logs[n].recs
  /\ \A s : s \in OnDisk' <=>
       \/ s \in manifest'.tables
       \/ \E n \in DOMAIN logs' : n >= manifest'.log /\ s \in UNION logs'[n].recs
BY DEF OnDisk, Live

LEMMA OnDiskSyncedIs ==
  /\ \A s : s \in OnDiskSynced <=>
       \/ s \in manifest.tables
       \/ \E n \in DOMAIN logs : n >= manifest.log /\ s \in UNION logs[n].synced
  /\ \A s : s \in OnDiskSynced' <=>
       \/ s \in manifest'.tables
       \/ \E n \in DOMAIN logs' : n >= manifest'.log /\ s \in UNION logs'[n].synced
BY DEF OnDiskSynced, Live

LEMMA LostIs ==
  /\ \A s : s \in Lost <=>
       /\ s \notin OnDisk
       /\ \E n \in DOMAIN logs : n >= manifest.log /\ s \in UNION logs[n].lost
  /\ \A s : s \in Lost' <=>
       /\ s \notin OnDisk'
       /\ \E n \in DOMAIN logs' : n >= manifest'.log /\ s \in UNION logs'[n].lost
<1> DEFINE U == UNION {UNION logs[n].lost : n \in {m \in DOMAIN logs : Live(m)}}
<1>1. \A s : s \in U <=>
        \E n \in DOMAIN logs : n >= manifest.log /\ s \in UNION logs[n].lost
  BY DEF Live
<1>2. \A s : s \in U' <=>
        \E n \in DOMAIN logs' : n >= manifest'.log /\ s \in UNION logs'[n].lost
  BY DEF Live
<1>3. Lost = U \ OnDisk
  BY Zenon DEF Lost
<1>4. Lost' = U' \ OnDisk'
  BY Zenon DEF Lost
<1> HIDE DEF U
<1> QED
  BY <1>1, <1>2, <1>3, <1>4

\* Held and what is held synced, by their elements.
LEMMA HeldIs ==
  /\ \A s : s \in Held <=>
       \/ s \in manifest.tables
       \/ \E n \in DOMAIN logs : /\ n >= manifest.log
                                /\ s \in UNION (logs[n].recs \cup logs[n].lost)
  /\ \A s : s \in Held' <=>
       \/ s \in manifest'.tables
       \/ \E n \in DOMAIN logs' : /\ n >= manifest'.log
                                 /\ s \in UNION (logs'[n].recs \cup logs'[n].lost)
<1>1. ASSUME NEW s
      PROVE  s \in Held <=>
        \/ s \in manifest.tables
        \/ \E n \in DOMAIN logs : /\ n >= manifest.log
                                 /\ s \in UNION (logs[n].recs \cup logs[n].lost)
  <2>1. s \in Held <=> s \in OnDisk \/ s \in Lost
    BY DEF Held
  <2>2. s \in Held <=>
          s \in OnDisk \/ \E n \in DOMAIN logs : n >= manifest.log /\ s \in UNION logs[n].lost
    BY <2>1, LostIs
  <2> QED
    BY <2>2, OnDiskIs
<1>2. ASSUME NEW s
      PROVE  s \in Held' <=>
        \/ s \in manifest'.tables
        \/ \E n \in DOMAIN logs' : /\ n >= manifest'.log
                                  /\ s \in UNION (logs'[n].recs \cup logs'[n].lost)
  <2>1. s \in Held' <=> s \in OnDisk' \/ s \in Lost'
    BY DEF Held
  <2>2. s \in Held' <=>
          s \in OnDisk' \/ \E n \in DOMAIN logs' : n >= manifest'.log /\ s \in UNION logs'[n].lost
    BY <2>1, LostIs
  <2> QED
    BY <2>2, OnDiskIs
<1> QED
  BY <1>1, <1>2

\* A write that a log has lost is lost, or in a table.
LEMMA LostStays ==
  ASSUME LostInv, NEW n \in DOMAIN logs, n >= manifest.log, NEW s \in UNION logs[n].lost
  PROVE  s \in manifest.tables \cup Lost
<1>1. \A m \in DOMAIN logs : s \notin UNION logs[m].recs
  BY DEF LostInv
<1> QED
  BY <1>1, LostIs, OnDiskIs

\* The same after a step.
LEMMA LostStaysThen ==
  ASSUME LostInv', NEW n \in DOMAIN logs', n >= manifest'.log, NEW s \in UNION logs'[n].lost
  PROVE  s \in manifest'.tables \cup Lost'
<1>1. \A m \in DOMAIN logs' : s \notin UNION logs'[m].recs
  BY DEF LostInv
<1> QED
  BY <1>1, LostIs, OnDiskIs

\* A closed store has lost nothing any more.
LEMMA NoneLost ==
  /\ LostInv /\ open # "open" => Lost = {} /\ Held = OnDisk
  /\ LostInv' /\ open' # "open" => Lost' = {} /\ Held' = OnDisk'
<1>1. LostInv /\ open # "open" => Lost = {}
  BY LostIs DEF LostInv
<1>2. LostInv' /\ open' # "open" => Lost' = {}
  BY LostIs DEF LostInv
<1> QED
  BY <1>1, <1>2 DEF Held

LEMMA SameDisk ==
  ASSUME UNCHANGED disk
  PROVE  UNCHANGED <<OnDisk, OnDiskSynced, Lost, Held>>
<1>1. UNCHANGED <<OnDisk, OnDiskSynced>>
  BY DEF disk, OnDisk, OnDiskSynced, Live
<1>2. UNCHANGED Lost
  BY <1>1 DEF disk, Lost, Live
<1> QED
  BY <1>1, <1>2 DEF Held

\* A new log changes nothing of what is on the disk.
LEMMA WithNewLogIs ==
  ASSUME NEW next \in Nat, next \notin DOMAIN logs, logs' = WithNewLog(next),
         manifest' = manifest
  PROVE  /\ DOMAIN logs' = DOMAIN logs \cup {next}
         /\ \A n \in DOMAIN logs : logs'[n] = logs[n]
         /\ logs'[next] = NewLog
         /\ UNCHANGED <<OnDisk, OnDiskSynced, Lost, Held>>
<1>1. /\ DOMAIN logs' = DOMAIN logs \cup {next}
      /\ \A n \in DOMAIN logs : logs'[n] = logs[n]
      /\ logs'[next] = NewLog
  BY DEF WithNewLog
<1>2. \A s : /\ s \notin UNION logs'[next].recs /\ s \notin UNION logs'[next].synced
            /\ s \notin UNION logs'[next].lost
  BY <1>1 DEF NewLog
<1>3. \A s : s \in OnDisk' <=> s \in OnDisk
  BY <1>1, <1>2, OnDiskIs
<1>4. \A s : s \in OnDiskSynced' <=> s \in OnDiskSynced
  BY <1>1, <1>2, OnDiskSyncedIs
<1>5. \A s : s \in Lost' <=> s \in Lost
  BY <1>1, <1>2, <1>3, LostIs
<1>6. UNCHANGED <<OnDisk, OnDiskSynced, Lost>>
  BY <1>3, <1>4, <1>5
<1> QED
  BY <1>1, <1>6 DEF Held

\* What a new log is, and what stays true of all when there is one.
LEMMA NewLogIs ==
  /\ NewLog \in LogState /\ NewLog.recs = {} /\ NewLog.synced = {} /\ NewLog.lost = {}
  /\ ~NewLog.damaged
BY DEF NewLog, LogState

LEMMA NewLogLost ==
  ASSUME LostInv, NEW next, DOMAIN logs' = DOMAIN logs \cup {next},
         \A n \in DOMAIN logs : logs'[n] = logs[n], logs'[next] = NewLog,
         next \notin DOMAIN logs, open' = "open" \/ open # "open"
  PROVE  LostInv'
<1>1. logs'[next].recs = {} /\ logs'[next].lost = {}
  BY NewLogIs
<1>2. ASSUME NEW n \in DOMAIN logs', NEW m \in DOMAIN logs',
             NEW r \in logs'[n].recs, NEW q \in logs'[m].lost
      PROVE  r \cap q = {}
  <2>1. n \in DOMAIN logs /\ m \in DOMAIN logs
    BY <1>1, <1>2
  <2> QED
    BY <1>2, <2>1 DEF LostInv
<1>3. open' # "open" => \A n \in DOMAIN logs' : logs'[n].lost = {}
  BY <1>1 DEF LostInv
<1> QED
  BY <1>2, <1>3 DEF LostInv

\* The files that are kept hold what the manifest needs.
LEMMA KeptIs ==
  ASSUME NEW from, logs' = Kept(from)
  PROVE  /\ DOMAIN logs' \subseteq DOMAIN logs
         /\ \A n \in DOMAIN logs : n >= from => n \in DOMAIN logs'
         /\ \A n \in DOMAIN logs' : logs'[n] = logs[n]
         /\ ~bgError => \A n \in DOMAIN logs' : n >= from
         /\ bgError => DOMAIN logs' = DOMAIN logs
BY DEF Kept

\* Logs that are left as they were still lose nothing that is found.
LEMMA FewerLost ==
  ASSUME LostInv, open' = "open", DOMAIN logs' \subseteq DOMAIN logs,
         \A n \in DOMAIN logs' : logs'[n] = logs[n]
  PROVE  LostInv'
BY DEF LostInv

LEMMA ManifestTypes ==
  /\ StoreOK => /\ manifest.log \in Nat /\ manifest.next \in Nat /\ manifest.last \in Nat
                /\ manifest.l0 \in Nat /\ manifest.tables \subseteq Nat
                /\ manifest.end \in {"whole", "damaged", "cut"}
  /\ StoreOK => \A n \in DOMAIN logs : /\ n \in Nat /\ logs[n].recs \subseteq SUBSET Nat
                                       /\ logs[n].synced \subseteq SUBSET Nat
                                       /\ logs[n].lost \subseteq SUBSET Nat
                                       /\ logs[n].damaged \in BOOLEAN
BY DEF StoreOK, ManifestState, LogState

\* While nobody commits, every number in use is one of those published.
LEMMA Quiet ==
  ASSUME NumberInv, open = "open", \A u \in Threads : th[u].pc \notin InGroup
  PROVE  /\ \A s \in mem : s <= lastSequence
         /\ \A n \in DOMAIN logs : \A r \in logs[n].recs \cup logs[n].lost : \A s \in r :
              s <= lastSequence
BY DEF NumberInv, Applying, Committing, Inserted, InGroup

\* The parts of the invariant that are not about the queue and its group.
DataInv == /\ StoreOK /\ OffInv /\ FlushInv /\ FileInv /\ LostInv
           /\ StoreInv /\ SyncInv /\ NumberInv

LEMMA SwitchData ==
  ASSUME DataInv, open = "open", open' = open, UNCHANGED <<acked, pinned>>,
         \A u \in Threads : th[u].pc \notin InGroup,
         SwitchMemtable, ~hasImm
  PROVE  DataInv'
<1>1. /\ logs' = WithNewLog(nextFile)
      /\ logfile' = nextFile /\ nextFile' = nextFile + 1
      /\ imm' = mem /\ hasImm' = TRUE /\ mem' = {}
      /\ bgScheduled' = TRUE
      /\ UNCHANGED <<lastSequence, tables, logNumber, l0, bgError, bg, manifest>>
  BY DEF SwitchMemtable
<1>2. /\ logfile \in DOMAIN logs /\ logfile < nextFile
      /\ manifest.log <= logfile /\ manifest.next <= nextFile
      /\ \A n \in DOMAIN logs : n <= logfile
      /\ logfile \in Nat /\ nextFile \in Nat /\ manifest.log \in Nat
      /\ manifest.next \in Nat
      /\ \A n \in DOMAIN logs : n \in Nat
  BY ManifestTypes DEF DataInv, FileInv, StoreOK
<1>3. nextFile \notin DOMAIN logs
  BY <1>2
<1>4. /\ DOMAIN logs' = DOMAIN logs \cup {nextFile}
      /\ \A n \in DOMAIN logs : logs'[n] = logs[n]
      /\ logs'[nextFile] = NewLog
      /\ UNCHANGED <<OnDisk, OnDiskSynced, Lost, Held>>
  BY <1>1, <1>2, <1>3, WithNewLogIs
<1>5. /\ NewLog \in LogState /\ NewLog.synced = {} /\ NewLog.recs = {} /\ NewLog.lost = {}
      /\ ~NewLog.damaged
  BY NewLogIs
<1>6. mem \subseteq Held
  <2>1. mem \subseteq UNION (logs[logfile].recs \cup logs[logfile].lost)
    BY DEF DataInv, StoreInv
  <2>2. logfile >= manifest.log
    BY <1>2
  <2> QED
    BY <1>2, <2>1, <2>2, HeldIs
<1>7. /\ \A s \in mem : s <= lastSequence
      /\ \A n \in DOMAIN logs : \A r \in logs[n].recs \cup logs[n].lost : \A s \in r :
           s <= lastSequence
  BY Quiet DEF DataInv
<1>8. StoreOK'
  <2>1. \A n \in DOMAIN logs' : /\ n \in Nat /\ logs'[n] \in LogState
                                /\ ~logs'[n].damaged => logs'[n].lost = {}
    BY <1>2, <1>4, <1>5 DEF DataInv, StoreOK
  <2>2. mem' \subseteq Nat /\ imm' \subseteq Nat /\ tables' \subseteq Nat
    BY <1>1 DEF DataInv, StoreOK
  <2>3. hasImm' \in BOOLEAN /\ bgError' \in BOOLEAN /\ bgScheduled' \in BOOLEAN
    BY <1>1 DEF DataInv, StoreOK
  <2>4. /\ logfile' \in Nat /\ lastSequence' \in Nat /\ nextFile' \in Nat
        /\ logNumber' \in Nat /\ l0' \in Nat /\ logfile' \in DOMAIN logs'
    <3>1. lastSequence \in Nat /\ logNumber \in Nat /\ l0 \in Nat
      BY DEF DataInv, StoreOK
    <3>2. nextFile \in DOMAIN logs'
      BY <1>4
    <3> QED
      BY <1>1, <1>2, <3>1, <3>2
  <2>5. /\ bg' \in {"idle", "flush", "install", "compact", "compactFlush",
                    "compactInstall"}
        /\ open' \in {"closed", "opening", "open"} /\ manifest' \in ManifestState
    BY <1>1 DEF DataInv, StoreOK
  <2> QED
    BY <2>1, <2>2, <2>3, <2>4, <2>5 DEF StoreOK
<1>9. OffInv' /\ FlushInv'
  BY <1>1 DEF DataInv, OffInv, FlushInv
<1>10. LostInv'
  BY <1>3, <1>4, NewLogLost DEF DataInv
<1>11. FileInv'
  <2>1. IsFiniteSet(DOMAIN logs')
    BY <1>4, FS_AddElement DEF DataInv, FileInv
  <2>2. \A n \in DOMAIN logs' : logs'[n].synced \subseteq logs'[n].recs
    BY <1>4, <1>5 DEF DataInv, FileInv
  <2>3. \A n \in DOMAIN logs' : n <= nextFile
    BY <1>2, <1>4
  <2> QED
    BY <1>1, <1>2, <1>4, <2>1, <2>2, <2>3 DEF DataInv, FileInv
<1>12. StoreInv'
  <2>1. Imm' = mem
    BY <1>1 DEF Imm
  <2>2. Imm = {}
    BY DEF Imm
  <2> QED
    BY <1>1, <1>4, <1>6, <2>1, <2>2 DEF DataInv, StoreInv
<1>13. SyncInv'
  BY <1>1, <1>4 DEF DataInv, SyncInv
<1>14. NumberInv'
  <2>1. Imm' = mem
    BY <1>1 DEF Imm
  <2>2. \A n \in DOMAIN logs' : \A r \in logs'[n].recs \cup logs'[n].lost : \A s \in r :
          s <= lastSequence
    BY <1>4, <1>5, <1>7
  <2> QED
    BY <1>1, <1>7, <2>1, <2>2 DEF DataInv, NumberInv
<1> QED
  BY <1>8, <1>9, <1>10, <1>11, <1>12, <1>13, <1>14 DEF DataInv

LEMMA SameData ==
  ASSUME DataInv, open' = open, UNCHANGED <<acked, pinned, memory, work, disk>>,
         open = "open" => \A u \in Threads : th[u].pc \notin InGroup,
         open # "open" => \A u \in Threads : th'[u].pc = "idle"
  PROVE  DataInv'
<1>1. UNCHANGED <<OnDisk, OnDiskSynced, Lost, Held>> /\ Imm' = Imm
  BY SameDisk DEF Imm, memory
<1> USE DEF DataInv, memory, work, disk
<1>2. StoreOK'
  BY DEF StoreOK
<1>3. OffInv' /\ FlushInv'
  BY DEF OffInv, FlushInv
<1>4. FileInv' /\ LostInv'
  BY DEF FileInv, LostInv
<1>5. StoreInv' /\ SyncInv'
  BY <1>1 DEF StoreInv, SyncInv
<1>6. NumberInv'
  <2>1. CASE open = "open"
    BY <1>1, <2>1, Quiet DEF NumberInv
  <2>2. CASE open # "open"
    BY <1>1, <2>2 DEF NumberInv
  <2> QED
    BY <2>1, <2>2
<1> QED
  BY <1>2, <1>3, <1>4, <1>5, <1>6

LEMMA RoomStep ==
  ASSUME IInv, NEW t, NEW q, NEW f, AtRoom(t, q, f)
  PROVE  IInv'
<1>1. /\ open = "open" /\ UNCHANGED <<open, crashes>> /\ calls' \in Nat
      /\ \A u \in Threads : th[u].pc \notin InGroup
  BY DEF AtRoom
<1>2. DataInv
  BY TypeParts DEF DataInv, IInv
<1>3. /\ \/ Lead(t, q, f)
         \/ \E ok \in BOOLEAN : Leave(t, q, f, ok)
         \/ \E pc \in {"front", "bgwait"} : Sleep(t, q, f, pc)
      /\ \/ SwitchMemtable /\ ~hasImm
         \/ UNCHANGED <<memory, work, disk>>
      /\ faults' \in Nat
  BY RoomIs DEF IInv
<1>4. lastSequence' = lastSequence
  BY <1>3 DEF SwitchMemtable, memory
<1>5. /\ UNCHANGED <<acked, pinned>>
      /\ th' \in [Threads -> ThreadState] /\ writers' \in Seq(Threads)
      /\ group' \in GroupState /\ group'.size <= Len(writers')
      /\ QueueInv' /\ Composed'
  BY <1>3, <1>4, RoomLead, RoomLeave, RoomSleep DEF IInv
<1>6. DataInv'
  BY <1>1, <1>2, <1>3, <1>5, SwitchData, SameData
<1>7. ThreadOK' /\ CountOK'
  BY <1>1, <1>3, <1>5 DEF ThreadOK, CountOK, IInv, TypeOK
<1>8. GroupInv'
  BY <1>5 DEF Composed, GroupInv, Logged, Durable, Inserted, Record
<1> QED
  BY <1>5, <1>6, <1>7, <1>8, TypeParts DEF DataInv, IInv

LEMMA JoinStep ==
  ASSUME IInv, NEW t \in Threads, Joins(t)
  PROVE  IInv'
<1>1. /\ open = "open" /\ UNCHANGED <<open, crashes>> /\ calls' \in Nat
      /\ writers # <<>> /\ writers' = Append(writers, t)
      /\ th' \in [Threads -> ThreadState] /\ th'[t].pc = "queued" /\ th[t].pc = "idle"
      /\ \A u \in Threads : u # t => th'[u] = th[u]
      /\ UNCHANGED <<group, acked, pinned, memory, work, disk, faults>>
  BY DEF Joins
<1>2. /\ writers' \in Seq(Threads) /\ writers' # <<>> /\ Head(writers') = Head(writers)
      /\ Len(writers) \in Nat /\ Len(writers') = Len(writers) + 1
  BY <1>1, Types DEF IInv
<1>3. /\ \A u \in Threads : th'[u].pc \in AtFront => u # t /\ th'[u] = th[u]
      /\ \A u \in Threads : th'[u].pc \in InGroup => u # t /\ th'[u] = th[u]
      /\ \A u \in Threads : th[u].pc \in InGroup => th'[u] = th[u]
  BY <1>1 DEF AtFront, InGroup
<1>4. ThreadOK' /\ CountOK'
  <2>1. group.size <= Len(writers')
    BY <1>2, Types DEF IInv
  <2> QED
    BY <1>1, <1>2, <2>1, TypeParts DEF IInv, ThreadOK, CountOK
<1>5. QueueInv'
  <2>1. ASSUME NEW u \in Threads, th'[u].pc \in AtFront
        PROVE  writers' # <<>> /\ u = Head(writers')
    BY <1>2, <1>3, <2>1 DEF IInv, QueueInv
  <2>2. ASSUME NEW u \in Threads, th'[u].pc \in InGroup
        PROVE  group'.size > 0
    BY <1>1, <1>3, <2>2 DEF IInv, QueueInv
  <2>3. ASSUME group'.size > 0
        PROVE  \E u \in Threads : th'[u].pc \in InGroup
    BY <1>1, <1>3, <2>3 DEF IInv, QueueInv
  <2> QED
    BY <2>1, <2>2, <2>3 DEF QueueInv
<1>6. UNCHANGED <<lastSequence, logfile, logs, mem, imm, hasImm, tables, logNumber,
                  nextFile, l0, bgError, bgScheduled, bg, manifest>>
  BY <1>1 DEF memory, work, disk
<1>7. /\ UNCHANGED <<OnDisk, OnDiskSynced, Lost, Held>> /\ Imm' = Imm
      /\ Record' = Record
  BY <1>1, <1>6, SameDisk DEF Imm, Record
<1>8. GroupInv'
  BY <1>1, <1>3, <1>6, <1>7 DEF IInv, GroupInv, Logged, Durable, Inserted, InGroup
<1>9. StoreOK' /\ OffInv' /\ FlushInv' /\ FileInv' /\ LostInv'
  <2>1. StoreOK'
    BY <1>1, <1>6, TypeParts DEF IInv, StoreOK
  <2>2. LostInv'
    BY <1>1, <1>6 DEF IInv, LostInv
  <2> QED
    BY <1>1, <1>6, <2>1, <2>2 DEF IInv, OffInv, FlushInv, FileInv
<1>10. StoreInv' /\ SyncInv'
  BY <1>1, <1>6, <1>7 DEF IInv, StoreInv, SyncInv
<1>11. NumberInv'
  <2>1. \A s : Committing(s) => Committing(s)'
    BY <1>3, <1>7 DEF Committing, InGroup
  <2>2. \A s : Applying(s) => Applying(s)'
    BY <1>1, <1>3, <1>7 DEF Applying, Inserted, InGroup
  <2> QED
    BY <1>1, <1>6, <1>7, <2>1, <2>2 DEF IInv, NumberInv
<1> QED
  BY <1>4, <1>5, <1>8, <1>9, <1>10, <1>11, TypeParts DEF IInv

-----------------------------------------------------------------------------
(* The writer that commits its group.                                      *)

LEMMA Leading ==
  ASSUME IInv, NEW t \in Threads, th[t].pc \in InGroup
  PROVE  /\ open = "open" /\ writers # <<>> /\ t = Head(writers) /\ group.size > 0
         /\ \A u \in Threads : th[u].pc \in AtFront => u = t
         /\ \A u \in Threads : th[u].pc \in InGroup => u = t
         /\ Record \subseteq Nat
         /\ logfile \in DOMAIN logs /\ logfile >= manifest.log
<1>1. open = "open"
  BY DEF IInv, OffInv, InGroup
<1>2. th[t].pc \in AtFront /\ \A u \in Threads : th[u].pc \in InGroup => th[u].pc \in AtFront
  BY DEF AtFront
<1>3. /\ writers # <<>> /\ t = Head(writers) /\ group.size > 0
      /\ \A u \in Threads : th[u].pc \in AtFront => u = t
  BY <1>2 DEF IInv, QueueInv
<1>4. Record \subseteq Nat
  BY Types DEF IInv, Record
<1>5. logfile \in DOMAIN logs /\ logfile >= manifest.log
  BY <1>1, ManifestTypes, TypeParts DEF IInv, FileInv, StoreOK
<1> QED
  BY <1>1, <1>2, <1>3, <1>4, <1>5

\* The leader goes on with its group.
LEMMA Moves ==
  ASSUME IInv, NEW t \in Threads, th[t].pc \in InGroup, NEW pc \in InGroup,
         th' = [th EXCEPT ![t].pc = pc], UNCHANGED writers,
         group' \in GroupState, group'.size = group.size,
         UNCHANGED <<acked, pinned>>
  PROVE  /\ th'[t].pc = pc /\ \A u \in Threads : u # t => th'[u] = th[u]
         /\ \A u \in Threads : th'[u].pc \in InGroup => u = t
         /\ ThreadOK' /\ QueueInv'
<1>1. /\ writers # <<>> /\ t = Head(writers) /\ group.size > 0
      /\ \A u \in Threads : th[u].pc \in AtFront => u = t
      /\ \A u \in Threads : th[u].pc \in InGroup => u = t
  BY Leading
<1>2. /\ th' \in [Threads -> ThreadState] /\ th'[t].pc = pc
      /\ \A u \in Threads : u # t => th'[u] = th[u]
  BY Types DEF IInv, ThreadState, InGroup
<1>3. ThreadOK'
  BY <1>2, TypeParts DEF IInv, ThreadOK
<1>4. \A u \in Threads : th'[u].pc \in AtFront => u = t
  BY <1>1, <1>2
<1>5. QueueInv'
  BY <1>1, <1>2, <1>4 DEF QueueInv, AtFront
<1> QED
  BY <1>1, <1>2, <1>3, <1>5

\* The log in use gets more records, loses more, or has more of them synced.
LEMMA LogWritten ==
  ASSUME IInv, open = "open", UNCHANGED <<open, memory, work, manifest, acked, pinned>>,
         DOMAIN logs' = DOMAIN logs,
         \A n \in DOMAIN logs : n # logfile => logs'[n] = logs[n],
         logs'[logfile] \in LogState,
         ~logs'[logfile].damaged => logs'[logfile].lost = {},
         logs[logfile].recs \subseteq logs'[logfile].recs,
         logs[logfile].lost \subseteq logs'[logfile].lost,
         logs[logfile].synced \subseteq logs'[logfile].synced,
         logs'[logfile].synced \subseteq logs'[logfile].recs,
         LostInv'
  PROVE  /\ StoreOK' /\ OffInv' /\ FlushInv' /\ FileInv' /\ LostInv'
         /\ StoreInv' /\ SyncInv'
<1>1. UNCHANGED <<mem, imm, hasImm, logfile, lastSequence, nextFile, tables, logNumber, l0,
                  bgError, bgScheduled, bg, Imm>>
  BY DEF memory, work, Imm
<1>2. logfile \in DOMAIN logs
  BY DEF IInv, FileInv
<1>3. \A n \in DOMAIN logs : /\ UNION logs[n].recs \subseteq UNION logs'[n].recs
                             /\ UNION logs[n].lost \subseteq UNION logs'[n].lost
                             /\ UNION logs[n].synced \subseteq UNION logs'[n].synced
  BY <1>2
<1>4. Held \subseteq Held' /\ OnDiskSynced \subseteq OnDiskSynced'
  BY <1>3, HeldIs, OnDiskSyncedIs
<1>5. Lost \subseteq OnDiskSynced' \cup Lost'
  <2>1. ASSUME NEW s \in Lost
        PROVE  s \in OnDiskSynced' \cup Lost'
    <3>1. PICK n \in DOMAIN logs : n >= manifest.log /\ s \in UNION logs[n].lost
      BY <2>1, LostIs
    <3>2. n \in DOMAIN logs' /\ n >= manifest'.log /\ s \in UNION logs'[n].lost
      BY <1>3, <3>1
    <3>3. s \in manifest'.tables \cup Lost'
      BY <3>2, LostStaysThen
    <3> QED
      BY <3>3, OnDiskSyncedIs
  <2> QED
    BY <2>1
<1>6. StoreOK'
  <2>1. \A n \in DOMAIN logs' : /\ n \in Nat /\ logs'[n] \in LogState
                                /\ ~logs'[n].damaged => logs'[n].lost = {}
    BY TypeParts DEF IInv, StoreOK
  <2> QED
    BY <1>1, <1>2, <2>1, TypeParts DEF IInv, StoreOK
<1>7. OffInv' /\ FlushInv'
  BY <1>1 DEF IInv, OffInv, FlushInv
<1>8. FileInv'
  BY <1>1 DEF IInv, FileInv
<1>9. StoreInv'
  <2>1. /\ mem \subseteq UNION (logs[logfile].recs \cup logs[logfile].lost)
        /\ Imm \subseteq Held /\ tables \subseteq Held
        /\ manifest.end # "cut" => tables \subseteq manifest.tables
        /\ acked \subseteq mem \cup Imm \cup tables /\ acked \subseteq Held
    BY DEF IInv, StoreInv
  <2> QED
    BY <1>1, <1>2, <1>3, <1>4, <2>1 DEF StoreInv
<1>10. SyncInv'
  <2>1. /\ pinned \subseteq acked /\ pinned \subseteq OnDiskSynced \cup Lost
        /\ pinned \cap mem \subseteq UNION (logs[logfile].synced \cup logs[logfile].lost)
    BY DEF IInv, SyncInv
  <2> QED
    BY <1>1, <1>2, <1>3, <1>4, <1>5, <2>1 DEF SyncInv
<1> QED
  BY <1>6, <1>7, <1>8, <1>9, <1>10

\* The log in use after an append, whether it has failed or not.
Grown(l) ==
  /\ l \in LogState /\ (~l.damaged => l.lost = {})
  /\ logs[logfile].recs \subseteq l.recs /\ l.recs \subseteq logs[logfile].recs \cup {Record}
  /\ logs[logfile].lost \subseteq l.lost /\ l.lost \subseteq logs[logfile].lost \cup {Record}
  /\ l.recs = logs[logfile].recs \/ l.lost = logs[logfile].lost
  /\ l.synced = logs[logfile].synced

LEMMA GrownIs ==
  ASSUME logs[logfile] \in LogState, Record \subseteq Nat,
         ~logs[logfile].damaged => logs[logfile].lost = {}
  PROVE  /\ Grown(Found(logs[logfile])) /\ Grown(Damaged(logs[logfile]))
         /\ \A l \in Appended(logs[logfile]) \cup Appended(Damaged(logs[logfile])) :
              Grown(l) /\ Record \in l.recs \cup l.lost
<1> DEFINE b == logs[logfile]
           d == Damaged(b)
<1>1. b \in LogState /\ (~b.damaged => b.lost = {}) /\ Record \in SUBSET Nat
  OBVIOUS
<1>2. /\ d \in LogState /\ d.damaged
      /\ d.recs = b.recs /\ d.synced = b.synced /\ d.lost = b.lost
  BY <1>1 DEF Damaged, LogState
<1>3. ASSUME NEW c \in LogState
      PROVE  /\ Found(c) \in LogState /\ Found(c).damaged = c.damaged
             /\ Found(c).recs = c.recs \cup {Record}
             /\ Found(c).synced = c.synced /\ Found(c).lost = c.lost
             /\ Missed(c) \in LogState /\ Missed(c).damaged = c.damaged
             /\ Missed(c).recs = c.recs
             /\ Missed(c).synced = c.synced /\ Missed(c).lost = c.lost \cup {Record}
  <2>1. /\ c.recs \cup {Record} \in SUBSET SUBSET Nat
        /\ c.lost \cup {Record} \in SUBSET SUBSET Nat
    BY <1>1 DEF LogState
  <2> QED
    BY <2>1 DEF Found, Missed, LogState
<1>4. Grown(d) <=> /\ d \in LogState /\ (~d.damaged => d.lost = {})
                   /\ b.recs \subseteq d.recs /\ d.recs \subseteq b.recs \cup {Record}
                   /\ b.lost \subseteq d.lost /\ d.lost \subseteq b.lost \cup {Record}
                   /\ d.recs = b.recs \/ d.lost = b.lost
                   /\ d.synced = b.synced
  BY DEF Grown
<1>5. Grown(d)
  BY <1>2, <1>4
<1>6. ASSUME NEW c \in {b, d}
      PROVE  /\ Grown(Found(c)) /\ Record \in Found(c).recs
             /\ c.damaged => Grown(Missed(c)) /\ Record \in Missed(c).lost
  <2>1. /\ c \in LogState /\ (~c.damaged => c.lost = {})
        /\ c.recs = b.recs /\ c.synced = b.synced /\ c.lost = b.lost
    BY <1>1, <1>2, <1>6
  <2> HIDE DEF d
  <2>2. Grown(Found(c)) /\ Record \in Found(c).recs
    BY <1>3, <2>1 DEF Grown
  <2>3. c.damaged => Grown(Missed(c)) /\ Record \in Missed(c).lost
    BY <1>3, <2>1 DEF Grown
  <2> QED
    BY <2>2, <2>3
<1> HIDE DEF b, d
<1>7. ASSUME NEW c \in {b, d}, NEW l \in Appended(c)
      PROVE  Grown(l) /\ Record \in l.recs \cup l.lost
  <2>1. l = Found(c) \/ (c.damaged /\ l = Missed(c))
    BY <1>7 DEF Appended
  <2> QED
    BY <1>6, <2>1
<1>8. \A l \in Appended(b) \cup Appended(d) : Grown(l) /\ Record \in l.recs \cup l.lost
  BY <1>7
<1> QED
  BY <1>5, <1>6, <1>8 DEF b, d

LEMMA AppendStep ==
  ASSUME IInv, NEW t \in Threads, th[t].pc = "append", NEW l, Grown(l), LogBecomes(l),
         UNCHANGED <<open, memory, work, manifest, acked, pinned, writers>>,
         NEW pc \in {"sync", "insert", "publish"}, th' = [th EXCEPT ![t].pc = pc],
         group' \in GroupState, group'.size = group.size,
         group'.first = group.first, group'.last = group.last
  PROVE  /\ ThreadOK' /\ QueueInv' /\ StoreOK' /\ OffInv' /\ FlushInv' /\ FileInv'
         /\ LostInv' /\ StoreInv' /\ SyncInv' /\ NumberInv'
         /\ th'[t].pc = pc /\ \A u \in Threads : th'[u].pc \in InGroup => u = t
         /\ logs'[logfile] = l /\ Record' = Record
         /\ lastSequence' = lastSequence /\ logfile' = logfile
<1>1. /\ open = "open" /\ Record \subseteq Nat /\ logfile \in DOMAIN logs
      /\ \A u \in Threads : th[u].pc \in InGroup => u = t
  BY Leading DEF InGroup
<1>2. /\ th'[t].pc = pc /\ \A u \in Threads : u # t => th'[u] = th[u]
      /\ \A u \in Threads : th'[u].pc \in InGroup => u = t
      /\ ThreadOK' /\ QueueInv'
  BY Moves DEF InGroup
<1>3. /\ DOMAIN logs' = DOMAIN logs /\ logs'[logfile] = l
      /\ \A n \in DOMAIN logs : n # logfile => logs'[n] = logs[n]
  BY <1>1 DEF LogBecomes
<1>4. UNCHANGED <<mem, Imm, lastSequence, logfile, tables, Record>>
  BY DEF memory, Imm, Record
<1>5. \A s : ~Committing(s) /\ ~Applying(s)
  BY <1>1 DEF Committing, Applying, Inserted, InGroup
<1>6. \A n \in DOMAIN logs : \A r \in logs[n].recs \cup logs[n].lost : \A s \in r :
        s <= lastSequence
  BY <1>1, <1>5 DEF IInv, NumberInv
<1>7. \A s \in Record : ~(s <= lastSequence)
  <2>1. group.first = lastSequence + 1 /\ lastSequence \in Nat /\ group.last \in Nat
    BY Types DEF IInv, GroupInv, InGroup
  <2> QED
    BY <2>1 DEF Record
<1>8. \A n \in DOMAIN logs' : /\ logs'[n].recs \subseteq logs[n].recs \cup {Record}
                              /\ logs'[n].lost \subseteq logs[n].lost \cup {Record}
                              /\ \/ logs'[n].recs = logs[n].recs
                                 \/ logs'[n].lost = logs[n].lost
  BY <1>3 DEF Grown
<1>9. ASSUME NEW n \in DOMAIN logs', NEW m \in DOMAIN logs',
             NEW r \in logs'[n].recs, NEW q \in logs'[m].lost
      PROVE  r \cap q = {}
  <2>1. CASE r \in logs[n].recs /\ q \in logs[m].lost
    BY <1>3, <2>1 DEF IInv, LostInv
  <2>2. CASE r = Record /\ q \in logs[m].lost
    BY <1>3, <1>6, <1>7, <2>2
  <2>3. CASE r \in logs[n].recs /\ q = Record
    BY <1>3, <1>6, <1>7, <2>3
  <2>4. CASE r \notin logs[n].recs /\ q \notin logs[m].lost
    <3>1. n = logfile /\ m = logfile
      BY <1>3, <1>9, <2>4
    <3> QED
      BY <1>8, <1>9, <2>4, <3>1
  <2> QED
    BY <1>8, <1>9, <2>1, <2>2, <2>3, <2>4
<1>10. LostInv'
  BY <1>1, <1>9 DEF LostInv
<1>11. logs[logfile].synced \subseteq logs[logfile].recs
  BY <1>1 DEF IInv, FileInv
<1>12. /\ StoreOK' /\ OffInv' /\ FlushInv' /\ FileInv' /\ StoreInv' /\ SyncInv'
  <2>1. /\ logs'[logfile] \in LogState /\ (~logs'[logfile].damaged => logs'[logfile].lost = {})
        /\ logs[logfile].recs \subseteq logs'[logfile].recs
        /\ logs[logfile].lost \subseteq logs'[logfile].lost
        /\ logs[logfile].synced \subseteq logs'[logfile].synced
        /\ logs'[logfile].synced \subseteq logs'[logfile].recs
    BY <1>3, <1>11 DEF Grown
  <2> QED
    BY <1>1, <1>3, <1>10, <2>1, LogWritten
<1>13. NumberInv'
  <2>1. \A s \in Record : Committing(s)'
    BY <1>2, <1>4 DEF Committing
  <2>2. \A n \in DOMAIN logs' : \A r \in logs'[n].recs \cup logs'[n].lost : \A s \in r :
          s <= lastSequence \/ Committing(s)'
    BY <1>3, <1>6, <1>8, <2>1
  <2> QED
    BY <1>1, <1>4, <1>5, <2>2 DEF IInv, NumberInv
<1> QED
  BY <1>2, <1>3, <1>4, <1>10, <1>12, <1>13

\* AddRecord returns OK, whatever has become of a trailer before its record.
LEMMA AddsStep ==
  ASSUME IInv, NEW t \in Threads, AddRecord(t) \/ AddRecordUnfilled(t)
  PROVE  IInv'
<1> DEFINE next == IF group.sync THEN "sync" ELSE "insert"
<1>1. /\ th[t].pc = "append" /\ th' = [th EXCEPT ![t].pc = next]
      /\ \E l \in Appended(logs[logfile]) \cup Appended(Damaged(logs[logfile])) : LogBecomes(l)
      /\ faults' = faults \/ faults' = faults + 1
      /\ UNCHANGED <<writers, group, acked, pinned, memory, work, open, manifest, calls, crashes>>
  BY DEF AddRecord, AddRecordUnfilled, Adds, Fault
<1>2. /\ next \in {"sync", "insert"} /\ next \in {"sync", "insert", "publish"}
      /\ (next = "insert" => ~group.sync)
  OBVIOUS
<1> HIDE DEF next
<1>3. Record \subseteq Nat /\ logfile \in DOMAIN logs
  BY <1>1, Leading DEF InGroup
<1>4. group' \in GroupState
  BY <1>1, TypeParts DEF IInv, ThreadOK
<1>5. /\ logs[logfile] \in LogState
      /\ ~logs[logfile].damaged => logs[logfile].lost = {}
  BY <1>3, TypeParts DEF IInv, StoreOK
<1>6. PICK l \in Appended(logs[logfile]) \cup Appended(Damaged(logs[logfile])) : LogBecomes(l)
  BY <1>1
<1>7. Grown(l) /\ Record \in l.recs \cup l.lost
  BY <1>3, <1>5, <1>6, GrownIs
<1>8. /\ ThreadOK' /\ QueueInv' /\ StoreOK' /\ OffInv' /\ FlushInv' /\ FileInv'
      /\ LostInv' /\ StoreInv' /\ SyncInv' /\ NumberInv'
      /\ th'[t].pc = next /\ \A u \in Threads : th'[u].pc \in InGroup => u = t
      /\ logs'[logfile] = l /\ Record' = Record
      /\ lastSequence' = lastSequence /\ logfile' = logfile
  BY <1>1, <1>2, <1>4, <1>6, <1>7, AppendStep
<1>9. GroupInv'
  <2>1. /\ group.first = lastSequence + 1 /\ group.last >= lastSequence
        /\ group.pins \subseteq Record /\ (group.pins # {} => group.sync)
        /\ group.status = "ok"
    BY <1>1 DEF IInv, GroupInv, InGroup
  <2> QED
    BY <1>1, <1>2, <1>7, <1>8, <2>1 DEF GroupInv, Logged, Durable, Inserted
<1>10. CountOK'
  BY <1>1, TypeParts DEF IInv, CountOK
<1> QED
  BY <1>8, <1>9, <1>10, TypeParts DEF IInv

LEMMA SyncStep ==
  ASSUME IInv, NEW t \in Threads, Sync(t)
  PROVE  IInv'
<1>1. /\ th[t].pc = "sync"
      /\ logs' = [logs EXCEPT ![logfile].synced = logs[logfile].recs]
      /\ th' = [th EXCEPT ![t].pc = "insert"]
      /\ UNCHANGED <<writers, group, acked, pinned, memory, work, open, manifest, bounds>>
  BY DEF Sync
<1>2. /\ open = "open" /\ Record \subseteq Nat /\ logfile \in DOMAIN logs
      /\ \A u \in Threads : th[u].pc \in InGroup => u = t
  BY <1>1, Leading DEF InGroup
<1>3. group' \in GroupState /\ group'.size = group.size
  BY <1>1, TypeParts DEF IInv, ThreadOK
<1>4. /\ th'[t].pc = "insert" /\ \A u \in Threads : u # t => th'[u] = th[u]
      /\ \A u \in Threads : th'[u].pc \in InGroup => u = t
      /\ ThreadOK' /\ QueueInv'
  BY <1>1, <1>3, Moves DEF InGroup
<1>5. /\ logs[logfile] \in LogState /\ logs[logfile].synced \subseteq logs[logfile].recs
      /\ ~logs[logfile].damaged => logs[logfile].lost = {}
  BY <1>2, TypeParts DEF IInv, StoreOK, FileInv
<1>6. /\ DOMAIN logs' = DOMAIN logs
      /\ \A n \in DOMAIN logs : n # logfile => logs'[n] = logs[n]
      /\ logs'[logfile].recs = logs[logfile].recs
      /\ logs'[logfile].lost = logs[logfile].lost
      /\ logs'[logfile].damaged = logs[logfile].damaged
      /\ logs'[logfile].synced = logs[logfile].recs
      /\ logs'[logfile] \in LogState
  BY <1>1, <1>2, <1>5 DEF LogState
<1>7. StoreOK' /\ OffInv' /\ FlushInv' /\ FileInv' /\ LostInv' /\ StoreInv' /\ SyncInv'
  <2>1. \A n \in DOMAIN logs : logs'[n].recs = logs[n].recs /\ logs'[n].lost = logs[n].lost
    BY <1>6
  <2>2. LostInv'
    BY <1>1, <1>2, <1>6, <2>1 DEF IInv, LostInv
  <2> QED
    BY <1>1, <1>2, <1>5, <1>6, <2>2, LogWritten
<1>8. UNCHANGED <<mem, Imm, lastSequence, logfile, tables, Record>>
  BY <1>1 DEF memory, Imm, Record
<1>9. GroupInv'
  <2>1. /\ group.first = lastSequence + 1 /\ group.last >= lastSequence
        /\ group.pins \subseteq Record /\ (group.pins # {} => group.sync)
        /\ group.status = "ok" /\ Record \in logs[logfile].recs \cup logs[logfile].lost
    BY <1>1 DEF IInv, GroupInv, InGroup, Logged
  <2> QED
    BY <1>1, <1>4, <1>6, <1>8, <2>1 DEF GroupInv, Logged, Durable, Inserted
<1>10. NumberInv'
  <2>1. \A s : Committing(s) => Committing(s)'
    BY <1>2, <1>4, <1>8 DEF Committing, InGroup
  <2>2. \A s : ~Applying(s)
    BY <1>1, <1>2 DEF Applying, Inserted, InGroup
  <2>3. \A n \in DOMAIN logs' : logs'[n].recs = logs[n].recs /\ logs'[n].lost = logs[n].lost
    BY <1>6
  <2> QED
    BY <1>1, <1>2, <1>6, <1>8, <2>1, <2>2, <2>3 DEF IInv, NumberInv
<1>11. CountOK'
  BY <1>1, TypeParts DEF IInv, CountOK, bounds
<1> QED
  BY <1>4, <1>7, <1>9, <1>10, <1>11, TypeParts DEF IInv

LEMMA AddRecordFailsStep ==
  ASSUME IInv, NEW t \in Threads, AddRecordFails(t)
  PROVE  IInv'
<1>1. /\ th[t].pc = "append"
      /\ \E l \in {Found(logs[logfile]), Damaged(logs[logfile])} : LogBecomes(l)
      /\ group' = [group EXCEPT !.status = "failed"]
      /\ th' = [th EXCEPT ![t].pc = "publish"]
      /\ faults' = faults + 1
      /\ UNCHANGED <<writers, acked, pinned, memory, work, open, manifest, calls, crashes>>
  BY DEF AddRecordFails, Fault
<1>2. Record \subseteq Nat /\ logfile \in DOMAIN logs
  BY <1>1, Leading DEF InGroup
<1>3. /\ group' \in GroupState /\ group'.status = "failed"
      /\ group'.size = group.size /\ group'.first = group.first /\ group'.last = group.last
      /\ group'.pins = group.pins /\ group'.sync = group.sync
  <2>1. group \in GroupState
    BY TypeParts DEF IInv, ThreadOK
  <2> QED
    BY <1>1, <2>1 DEF GroupState
<1>4. /\ logs[logfile] \in LogState
      /\ ~logs[logfile].damaged => logs[logfile].lost = {}
  BY <1>2, TypeParts DEF IInv, StoreOK
<1>5. PICK l \in {Found(logs[logfile]), Damaged(logs[logfile])} : LogBecomes(l)
  BY <1>1
<1>6. Grown(l)
  BY <1>2, <1>4, <1>5, GrownIs
<1>7. /\ ThreadOK' /\ QueueInv' /\ StoreOK' /\ OffInv' /\ FlushInv' /\ FileInv'
      /\ LostInv' /\ StoreInv' /\ SyncInv' /\ NumberInv'
      /\ th'[t].pc = "publish" /\ \A u \in Threads : th'[u].pc \in InGroup => u = t
      /\ Record' = Record /\ lastSequence' = lastSequence
  <2>1. "publish" \in {"sync", "insert", "publish"}
    OBVIOUS
  <2> QED
    BY <1>1, <1>3, <1>5, <1>6, <2>1, AppendStep
<1>8. GroupInv'
  <2>1. /\ group.first = lastSequence + 1 /\ group.last >= lastSequence
        /\ group.pins \subseteq Record /\ (group.pins # {} => group.sync)
    BY <1>1 DEF IInv, GroupInv, InGroup
  <2> QED
    BY <1>3, <1>7, <2>1 DEF GroupInv, Logged, Durable, Inserted
<1>9. CountOK'
  BY <1>1, TypeParts DEF IInv, CountOK
<1> QED
  BY <1>7, <1>8, <1>9, TypeParts DEF IInv

LEMMA SyncFailsStep ==
  ASSUME IInv, NEW t \in Threads, SyncFails(t)
  PROVE  IInv'
<1>1. /\ th[t].pc = "sync"
      /\ group' = [group EXCEPT !.status = "syncFailed"]
      /\ th' = [th EXCEPT ![t].pc = "publish"]
      /\ faults' = faults + 1
      /\ UNCHANGED <<writers, acked, pinned, memory, work, open, disk, calls, crashes>>
  BY DEF SyncFails, Fault
<1>2. /\ open = "open" /\ logfile \in DOMAIN logs
      /\ \A u \in Threads : th[u].pc \in InGroup => u = t
  BY <1>1, Leading DEF InGroup
<1>3. /\ group' \in GroupState /\ group'.status = "syncFailed"
      /\ group'.size = group.size /\ group'.first = group.first /\ group'.last = group.last
      /\ group'.pins = group.pins /\ group'.sync = group.sync
  <2>1. group \in GroupState
    BY TypeParts DEF IInv, ThreadOK
  <2> QED
    BY <1>1, <2>1 DEF GroupState
<1>4. /\ th'[t].pc = "publish" /\ \A u \in Threads : u # t => th'[u] = th[u]
      /\ \A u \in Threads : th'[u].pc \in InGroup => u = t
      /\ ThreadOK' /\ QueueInv'
  BY <1>1, <1>3, Moves DEF InGroup
<1>5. UNCHANGED <<logs, manifest>>
  BY <1>1 DEF disk
<1>6. StoreOK' /\ OffInv' /\ FlushInv' /\ FileInv' /\ LostInv' /\ StoreInv' /\ SyncInv'
  <2>1. /\ logs[logfile] \in LogState /\ logs[logfile].synced \subseteq logs[logfile].recs
        /\ ~logs[logfile].damaged => logs[logfile].lost = {}
    BY <1>2, TypeParts DEF IInv, StoreOK, FileInv
  <2>2. LostInv'
    BY <1>1, <1>5 DEF IInv, LostInv
  <2> QED
    BY <1>1, <1>2, <1>5, <2>1, <2>2, LogWritten
<1>7. UNCHANGED <<mem, Imm, lastSequence, logfile, tables, Record>>
  BY <1>1, <1>3 DEF memory, Imm, Record
<1>8. GroupInv'
  <2>1. /\ group.first = lastSequence + 1 /\ group.last >= lastSequence
        /\ group.pins \subseteq Record /\ (group.pins # {} => group.sync)
    BY <1>1 DEF IInv, GroupInv, InGroup
  <2> QED
    BY <1>3, <1>4, <1>7, <2>1 DEF GroupInv, Logged, Durable, Inserted
<1>9. NumberInv'
  <2>1. \A s : Committing(s) => Committing(s)'
    BY <1>2, <1>4, <1>7 DEF Committing, InGroup
  <2>2. \A s : ~Applying(s)
    BY <1>1, <1>2 DEF Applying, Inserted, InGroup
  <2> QED
    BY <1>1, <1>2, <1>5, <1>7, <2>1, <2>2 DEF IInv, NumberInv
<1>10. CountOK'
  <2>1. calls \in Nat /\ faults \in Nat /\ crashes \in Nat
    BY TypeParts DEF IInv, CountOK
  <2>2. calls' = calls /\ faults' = faults + 1 /\ crashes' = crashes
    BY <1>1
  <2> QED
    BY <2>1, <2>2 DEF CountOK
<1> QED
  BY <1>4, <1>6, <1>8, <1>9, <1>10, TypeParts DEF IInv

LEMMA InsertStep ==
  ASSUME IInv, NEW t \in Threads, InsertInto(t)
  PROVE  IInv'
<1>1. /\ th[t].pc = "insert" /\ mem' = mem \cup Record
      /\ th' = [th EXCEPT ![t].pc = "publish"]
      /\ UNCHANGED <<writers, group, acked, pinned, imm, hasImm, logfile, lastSequence,
                     nextFile, tables, logNumber, l0, work, open, disk, bounds>>
  BY DEF InsertInto
<1>2. /\ open = "open" /\ Record \subseteq Nat /\ logfile \in DOMAIN logs
      /\ \A u \in Threads : th[u].pc \in InGroup => u = t
  BY <1>1, Leading DEF InGroup
<1>3. group' \in GroupState /\ group'.size = group.size
  BY <1>1, TypeParts DEF IInv, ThreadOK
<1>4. /\ th'[t].pc = "publish" /\ \A u \in Threads : u # t => th'[u] = th[u]
      /\ \A u \in Threads : th'[u].pc \in InGroup => u = t
      /\ ThreadOK' /\ QueueInv'
  BY <1>1, <1>3, Moves DEF InGroup
<1>5. /\ group.first = lastSequence + 1 /\ group.last >= lastSequence
      /\ group.pins \subseteq Record /\ (group.pins # {} => group.sync)
      /\ group.status = "ok" /\ Record \in logs[logfile].recs \cup logs[logfile].lost
      /\ group.sync => Record \in logs[logfile].synced \cup logs[logfile].lost
  BY <1>1 DEF IInv, GroupInv, InGroup, Logged, Durable
<1>6. /\ UNCHANGED <<Imm, Record, bgError, bgScheduled, bg, logs, manifest>>
      /\ UNCHANGED <<OnDisk, OnDiskSynced, Lost, Held>>
  BY <1>1, SameDisk DEF Imm, Record, work, disk
<1>7. StoreOK'
  BY <1>1, <1>2, <1>6, TypeParts DEF IInv, StoreOK
<1>8. OffInv' /\ FlushInv' /\ FileInv' /\ LostInv'
  BY <1>1, <1>2, <1>6 DEF IInv, OffInv, FlushInv, FileInv, LostInv
<1>9. StoreInv'
  <2>1. Record \subseteq UNION (logs[logfile].recs \cup logs[logfile].lost)
    BY <1>5
  <2>2. mem' \subseteq UNION (logs[logfile].recs \cup logs[logfile].lost)
    BY <1>1, <1>2, <2>1 DEF IInv, StoreInv
  <2> QED
    BY <1>1, <1>2, <1>6, <2>2 DEF IInv, StoreInv
<1>10. SyncInv'
  <2>1. \A s \in pinned : s <= lastSequence
    BY <1>2 DEF IInv, SyncInv, NumberInv
  <2>2. \A s \in Record : s > lastSequence
    BY <1>5, Types DEF IInv, Record
  <2>3. pinned \subseteq Nat /\ lastSequence \in Nat
    BY TypeParts DEF IInv, ThreadOK, StoreOK
  <2>4. \A s \in pinned : s \notin Record
    BY <1>2, <2>1, <2>2, <2>3
  <2> QED
    BY <1>1, <1>6, <2>4 DEF IInv, SyncInv
<1>11. GroupInv'
  BY <1>1, <1>4, <1>5, <1>6 DEF GroupInv, Logged, Durable, Inserted
<1>12. NumberInv'
  <2>1. \A s : Committing(s) => Committing(s)'
    BY <1>2, <1>4, <1>6 DEF Committing, InGroup
  <2>2. \A s \in Record : Applying(s)'
    BY <1>1, <1>4, <1>5, <1>6 DEF Applying, Inserted
  <2>3. \A s : ~Applying(s)
    BY <1>1, <1>2 DEF Applying, Inserted, InGroup
  <2> QED
    BY <1>1, <1>2, <1>6, <2>1, <2>2, <2>3 DEF IInv, NumberInv
<1>13. CountOK'
  BY <1>1, TypeParts DEF IInv, CountOK, bounds
<1> QED
  BY <1>4, <1>7, <1>8, <1>9, <1>10, <1>11, <1>12, <1>13, TypeParts DEF IInv

\* When the leader leaves the queue with its group, the next writer is at the front.
LEMMA PublishThreads ==
  ASSUME IInv, NEW t \in Threads, Publish(t)
  PROVE  /\ th' \in [Threads -> ThreadState] /\ writers' \in Seq(Threads)
         /\ \A u \in Threads : th'[u].pc \notin InGroup
         /\ group' = NoGroup /\ group' \in GroupState /\ group'.size <= Len(writers')
         /\ QueueInv'
<1> DEFINE failing == group.status = "syncFailed" /\ ~bgError
           f == IF failing THEN SignalAll(th) ELSE th
           q == SubSeq(writers, group.size + 1, Len(writers))
           g == Returned(f)
<1>1. /\ th[t].pc = "publish" /\ writers' = q /\ th' = Signal(g, q) /\ group' = NoGroup
  BY DEF Publish
<1>2. /\ writers # <<>> /\ t = Head(writers) /\ group.size > 0 /\ group.size \in Nat
      /\ group.size <= Len(writers) /\ Len(writers) \in Nat /\ writers \in Seq(Threads)
      /\ th \in [Threads -> ThreadState]
      /\ \A u \in Threads : th[u].pc \in AtFront => u = t
  <2>1. th[t].pc \in InGroup
    BY <1>1 DEF InGroup
  <2>2. /\ writers # <<>> /\ t = Head(writers) /\ group.size > 0
        /\ \A u \in Threads : th[u].pc \in AtFront => u = t
    BY <2>1, Leading
  <2>3. /\ group.size \in Nat /\ group.size <= Len(writers) /\ writers \in Seq(Threads)
        /\ th \in [Threads -> ThreadState]
    BY Types DEF IInv
  <2> QED
    BY <2>2, <2>3
<1>3. q \in Seq(Threads)
  BY <1>2
<1>4. /\ f \in [Threads -> ThreadState]
      /\ \A u \in Threads : f[u].pc \in AtFront => u = t
  <2>1. /\ SignalAll(th) \in [Threads -> ThreadState]
        /\ \A u \in Threads : \/ SignalAll(th)[u] = th[u]
                              \/ th[u].pc = "bgwait" /\ SignalAll(th)[u].pc = "front"
                              \/ th[u].pc = "immwait" /\ SignalAll(th)[u].pc = "immcheck"
    BY <1>2, SignalAllIs
  <2>2. \A u \in Threads : SignalAll(th)[u].pc \in AtFront => u = t
    BY <1>2, <2>1 DEF AtFront, InGroup
  <2> QED
    BY <1>2, <2>1, <2>2
<1> HIDE DEF f, q
<1>5. /\ g \in [Threads -> ThreadState]
      /\ \A u \in Threads : \/ g[u].pc \in {"idle", "immcheck"}
                            \/ /\ g[u] = f[u]
                               /\ \A j \in 1..group.size : writers[j] # u
  BY <1>4, ReturnedIs
<1>6. \A u \in Threads : g[u].pc \notin AtFront
  <2>1. 1 \in 1..group.size /\ writers[1] = t
    BY <1>2
  <2>2. TAKE u \in Threads
  <2>3. CASE g[u].pc \in {"idle", "immcheck"}
    BY <2>3 DEF AtFront, InGroup
  <2>4. CASE g[u] = f[u] /\ \A j \in 1..group.size : writers[j] # u
    BY <1>4, <2>1, <2>4
  <2> QED
    BY <1>5, <2>3, <2>4
<1> HIDE DEF g
<1>7. /\ th' \in [Threads -> ThreadState]
      /\ \A u \in Threads : \/ th'[u] = g[u]
                            \/ /\ writers' # <<>> /\ u = Head(writers')
                               /\ th'[u].pc = "front"
  <2>1. /\ Signal(g, q) \in [Threads -> ThreadState]
        /\ \A u \in Threads : \/ Signal(g, q)[u] = g[u]
                              \/ q # <<>> /\ u = Head(q) /\ Signal(g, q)[u].pc = "front"
    BY <1>3, <1>5, SignalIs
  <2> QED
    BY <1>1, <2>1
<1>8. \A u \in Threads : /\ th'[u].pc \notin InGroup
                         /\ th'[u].pc \in AtFront => writers' # <<>> /\ u = Head(writers')
  <2>1. TAKE u \in Threads
  <2>2. CASE th'[u] = g[u]
    BY <1>6, <2>2 DEF AtFront
  <2>3. CASE writers' # <<>> /\ u = Head(writers') /\ th'[u].pc = "front"
    BY <2>3 DEF InGroup
  <2> QED
    BY <1>7, <2>2, <2>3
<1>9. group' \in GroupState /\ group'.size = 0
  BY <1>1 DEF NoGroup, GroupState
<1>10. Len(writers') \in Nat /\ writers' \in Seq(Threads)
  BY <1>1, <1>3
<1> QED
  BY <1>1, <1>7, <1>8, <1>9, <1>10 DEF QueueInv

LEMMA PublishStep ==
  ASSUME IInv, NEW t \in Threads, Publish(t)
  PROVE  IInv'
<1>1. /\ th[t].pc = "publish"
      /\ bgError' = (bgError \/ (group.status = "syncFailed" /\ ~bgError))
      /\ lastSequence' = group.last
      /\ IF group.status = "ok"
         THEN acked' = acked \cup Record /\ pinned' = pinned \cup group.pins
         ELSE UNCHANGED <<acked, pinned>>
      /\ UNCHANGED <<mem, imm, hasImm, logfile, nextFile, tables, logNumber, l0,
                     bgScheduled, bg, open, disk, bounds>>
  BY DEF Publish
<1>2. /\ th' \in [Threads -> ThreadState] /\ writers' \in Seq(Threads)
      /\ \A u \in Threads : th'[u].pc \notin InGroup
      /\ group' \in GroupState /\ group'.size <= Len(writers')
      /\ QueueInv'
  BY PublishThreads
<1>3. /\ open = "open" /\ Record \subseteq Nat /\ logfile \in DOMAIN logs
      /\ logfile >= manifest.log
      /\ \A u \in Threads : th[u].pc \in InGroup => u = t
  BY <1>1, Leading DEF InGroup
<1>4. /\ group.first = lastSequence + 1 /\ group.last >= lastSequence
      /\ group.pins \subseteq Record /\ (group.pins # {} => group.sync)
      /\ group.status = "ok" =>
           /\ group.sync => Record \in logs[logfile].synced \cup logs[logfile].lost
           /\ Record \subseteq mem
  BY <1>1 DEF IInv, GroupInv, InGroup, Logged, Durable, Inserted
<1>5. /\ lastSequence \in Nat /\ group.last \in Nat
      /\ \A s \in Record : s <= group.last
      /\ \A s \in Nat : s <= lastSequence => s <= group.last
  BY <1>4, Types DEF IInv, Record
<1>6. /\ acked \subseteq acked' /\ acked' \subseteq acked \cup Record
      /\ acked' \subseteq acked \cup mem
      /\ pinned' \subseteq pinned \cup group.pins /\ pinned' \subseteq acked'
      /\ group.status # "ok" => pinned' = pinned
  BY <1>1, <1>4 DEF IInv, SyncInv
<1>7. UNCHANGED <<logs, manifest, Imm, OnDisk, OnDiskSynced, Lost, Held>>
  BY <1>1, SameDisk DEF Imm, disk
<1>8. ThreadOK'
  BY <1>2, <1>3, <1>4, <1>6, TypeParts DEF IInv, ThreadOK
<1>9. StoreOK'
  <2>1. bgError' \in BOOLEAN
    BY <1>1
  <2> QED
    BY <1>1, <1>3, <1>5, <1>7, <2>1, TypeParts DEF IInv, StoreOK
<1>10. OffInv' /\ FlushInv' /\ FileInv' /\ LostInv'
  <2>1. FileInv'
    BY <1>1, <1>3, <1>7 DEF IInv, FileInv
  <2> QED
    BY <1>1, <1>3, <1>7, <2>1 DEF IInv, OffInv, FlushInv, LostInv
<1>11. StoreInv'
  <2>1. mem \subseteq Held
    BY <1>3, HeldIs DEF IInv, StoreInv
  <2> QED
    BY <1>1, <1>3, <1>6, <1>7, <2>1 DEF IInv, StoreInv
<1>12. SyncInv'
  <2>1. group.status = "ok" =>
          /\ group.pins \subseteq UNION (logs[logfile].synced \cup logs[logfile].lost)
          /\ group.pins \subseteq OnDiskSynced \cup Lost
    <3>1. group.status = "ok" =>
            group.pins \subseteq UNION (logs[logfile].synced \cup logs[logfile].lost)
      <4>1. ASSUME group.status = "ok", NEW s \in group.pins
            PROVE  s \in UNION (logs[logfile].synced \cup logs[logfile].lost)
        <5>1. s \in Record /\ Record \in logs[logfile].synced \cup logs[logfile].lost
          BY <1>4, <4>1
        <5> QED
          BY <5>1
      <4> QED
        BY <4>1
    <3>2. UNION logs[logfile].lost \subseteq manifest.tables \cup Lost
      BY <1>3, LostStays DEF IInv
    <3> QED
      BY <1>3, <3>1, <3>2, OnDiskSyncedIs
  <2> QED
    BY <1>1, <1>3, <1>6, <1>7, <2>1 DEF IInv, SyncInv
<1>13. GroupInv'
  BY <1>2 DEF GroupInv
<1>14. NumberInv'
  <2>1. \A s : Committing(s) \/ Applying(s) => s \in Record
    BY DEF Committing, Applying
  <2>2. manifest.last \in Nat
    BY ManifestTypes, TypeParts DEF IInv
  <2>3. /\ tables \subseteq Nat /\ mem \subseteq Nat /\ acked \subseteq Nat
        /\ Imm \subseteq Nat
        /\ \A n \in DOMAIN logs : \A r \in logs[n].recs \cup logs[n].lost : \A s \in r :
             s \in Nat
    BY ManifestTypes, TypeParts DEF IInv, ThreadOK, StoreOK, Imm
  <2>4. \A s \in mem : s <= group.last
    BY <1>3, <1>5, <2>1, <2>3 DEF IInv, NumberInv
  <2>5. \A n \in DOMAIN logs : \A r \in logs[n].recs \cup logs[n].lost : \A s \in r :
          s <= group.last
    BY <1>3, <1>5, <2>1, <2>3 DEF IInv, NumberInv
  <2>6. manifest.last <= group.last /\ \A s \in tables : s <= group.last
    BY <1>3, <1>5, <2>2, <2>3 DEF IInv, NumberInv
  <2>7. \A s \in Imm \cup acked' : s <= group.last
    BY <1>3, <1>5, <1>6, <2>3 DEF IInv, NumberInv
  <2> QED
    BY <1>1, <1>3, <1>7, <2>4, <2>5, <2>6, <2>7 DEF NumberInv
<1>15. CountOK'
  BY <1>1, TypeParts DEF IInv, CountOK, bounds
<1> QED
  BY <1>2, <1>8, <1>9, <1>10, <1>11, <1>12, <1>13, <1>14, <1>15, TypeParts DEF IInv

-----------------------------------------------------------------------------
(* Steps beside the queue: TEST_CompactMemTable and the background thread. *)

\* The group at the front of the queue is left alone.
Beside == /\ th' \in [Threads -> ThreadState]
          /\ \A u \in Threads :
               /\ th[u].pc \in InGroup => th'[u].pc = th[u].pc
               /\ th'[u].pc \in InGroup => th[u].pc \in InGroup
               /\ th'[u].pc \in AtFront => th[u].pc \in AtFront
          /\ UNCHANGED <<writers, group, acked, pinned, calls, crashes, open>>
          /\ faults' \in Nat
          /\ UNCHANGED <<mem, logfile, lastSequence, nextFile>>

LEMMA SignalAllBeside ==
  ASSUME IInv, th' = SignalAll(th) \/ th' = th
  PROVE  /\ th' \in [Threads -> ThreadState]
         /\ \A u \in Threads :
              /\ th[u].pc \in InGroup => th'[u].pc = th[u].pc
              /\ th'[u].pc \in InGroup => th[u].pc \in InGroup
              /\ th'[u].pc \in AtFront => th[u].pc \in AtFront
<1>1. th \in [Threads -> ThreadState]
  BY Types DEF IInv
<1>2. CASE th' = th
  BY <1>1, <1>2
<1>3. CASE th' = SignalAll(th)
  <2>1. /\ th' \in [Threads -> ThreadState]
        /\ \A u \in Threads : \/ th'[u] = th[u]
                              \/ th[u].pc = "bgwait" /\ th'[u].pc = "front"
                              \/ th[u].pc = "immwait" /\ th'[u].pc = "immcheck"
    BY <1>1, <1>3, SignalAllIs
  <2> QED
    BY <2>1 DEF InGroup, AtFront
<1> QED
  BY <1>2, <1>3

LEMMA BesideQueue ==
  ASSUME IInv, Beside
  PROVE  /\ ThreadOK' /\ CountOK' /\ QueueInv' /\ Record' = Record
         /\ \A s : Committing(s) <=> Committing(s)'
         /\ \A s : Applying(s) <=> Applying(s)'
<1>1. /\ th' \in [Threads -> ThreadState]
      /\ \A u \in Threads : /\ th[u].pc \in InGroup => th'[u].pc = th[u].pc
                            /\ th'[u].pc \in InGroup => th[u].pc \in InGroup
                            /\ th'[u].pc \in AtFront => th[u].pc \in AtFront
      /\ UNCHANGED <<writers, group, acked, pinned, calls, crashes>> /\ faults' \in Nat
  BY DEF Beside
<1>2. ThreadOK' /\ CountOK'
  BY <1>1, TypeParts DEF IInv, ThreadOK, CountOK
<1>3. QueueInv'
  BY <1>1 DEF IInv, QueueInv
<1>4. Record' = Record
  BY <1>1 DEF Record
<1>5. \A s : Committing(s) <=> Committing(s)'
  BY <1>1, <1>4 DEF Committing, InGroup
<1>6. \A s : Applying(s) <=> Applying(s)'
  BY <1>1, <1>4 DEF Applying, Inserted, InGroup
<1> QED
  BY <1>2, <1>3, <1>4, <1>5, <1>6

LEMMA BesideGroup ==
  ASSUME IInv, Beside, open = "open" => logs'[logfile] = logs[logfile]
  PROVE  GroupInv'
<1>1. /\ \A u \in Threads : /\ th[u].pc \in InGroup => th'[u].pc = th[u].pc
                            /\ th'[u].pc \in InGroup => th[u].pc \in InGroup
      /\ UNCHANGED <<group, mem, logfile, lastSequence>>
  BY DEF Beside
<1>2. Record' = Record
  BY BesideQueue
<1>3. SUFFICES ASSUME NEW t \in Threads, th'[t].pc \in InGroup
               PROVE  /\ group.first = lastSequence + 1 /\ group.last >= lastSequence
                      /\ group.pins \subseteq Record /\ (group.pins # {} => group.sync)
                      /\ th'[t].pc # "publish" => group.status = "ok"
                      /\ Logged(t)' => Record \in logs'[logfile].recs \cup logs'[logfile].lost
                      /\ Durable(t)' /\ group.sync =>
                           Record \in logs'[logfile].synced \cup logs'[logfile].lost
                      /\ Inserted(t)' => Record \subseteq mem
  BY <1>1, <1>2 DEF GroupInv
<1>4. th[t].pc \in InGroup /\ th'[t].pc = th[t].pc
  BY <1>1, <1>3
<1>5. logs'[logfile] = logs[logfile]
  BY <1>4, Leading
<1>6. (Logged(t)' => Logged(t)) /\ (Durable(t)' => Durable(t)) /\ (Inserted(t)' => Inserted(t))
  BY <1>1, <1>4 DEF Logged, Durable, Inserted
<1> QED
  BY <1>4, <1>5, <1>6 DEF IInv, GroupInv

\* What a flush, a compaction or their failure may do to the files: the manifest says
\* what it did, or knows of everything up to now; what it needs is kept; and what a
\* read finds may leave the logs only for a table.
SameEdits == /\ manifest'.log = manifest.log /\ manifest'.next = manifest.next
             /\ manifest'.last = manifest.last /\ manifest'.tables = manifest.tables
Filed ==
  /\ imm' \in {imm, {}}
  /\ manifest' \in ManifestState
  /\ \/ SameEdits
     \/ /\ manifest'.last = lastSequence /\ manifest'.next = nextFile
        /\ manifest'.log <= logfile
  /\ manifest.tables \subseteq manifest'.tables
  /\ manifest'.tables \subseteq manifest.tables \cup Imm
  /\ manifest'.log <= manifest.log \/ Imm \cup tables \subseteq manifest'.tables
  /\ tables \subseteq tables' /\ tables' \subseteq tables \cup Imm
  /\ manifest'.end # "cut" => tables' \subseteq manifest'.tables /\ logNumber' <= manifest'.log
  /\ manifest'.end # "whole" => bgError'
  /\ Imm' \subseteq Imm /\ Imm \subseteq Imm' \cup tables'
  /\ logNumber' \in Nat /\ l0' \in Nat
  /\ DOMAIN logs' \subseteq DOMAIN logs
  /\ \A n \in DOMAIN logs' : logs'[n] = logs[n]
  /\ \A n \in DOMAIN logs : n >= manifest'.log => n \in DOMAIN logs'

LEMMA FiledStep ==
  ASSUME IInv, Beside, open = "open", Filed, FlushInv',
         hasImm' \in BOOLEAN, bgError' \in BOOLEAN, bgScheduled' \in BOOLEAN,
         bg' \in {"idle", "flush", "install", "compact", "compactFlush", "compactInstall"}
  PROVE  IInv'
<1>1. /\ open' = "open"
      /\ UNCHANGED <<mem, logfile, lastSequence, nextFile, acked, pinned>>
  BY DEF Beside
<1>2. /\ logfile \in Nat /\ lastSequence \in Nat /\ nextFile \in Nat
      /\ manifest.log \in Nat /\ manifest.next \in Nat /\ manifest.last \in Nat
      /\ manifest'.log \in Nat /\ manifest'.next \in Nat /\ manifest'.last \in Nat
      /\ manifest'.tables \subseteq Nat
      /\ \A n \in DOMAIN logs : n \in Nat
  BY ManifestTypes, TypeParts DEF IInv, StoreOK, Filed, ManifestState
<1>3. /\ logfile \in DOMAIN logs /\ logfile < nextFile
      /\ manifest.log <= logfile /\ manifest.next <= nextFile
      /\ \A n \in DOMAIN logs : n <= logfile
  BY DEF IInv, FileInv
<1>4. /\ manifest'.log <= logfile /\ manifest'.next <= nextFile
      /\ manifest'.log <= manifest'.next /\ manifest'.last <= lastSequence
  <2>1. CASE SameEdits
    BY <1>3, <2>1 DEF SameEdits, IInv, FileInv, NumberInv
  <2>2. CASE /\ manifest'.last = lastSequence /\ manifest'.next = nextFile
             /\ manifest'.log <= logfile
    BY <1>2, <1>3, <2>2
  <2> QED
    BY <2>1, <2>2 DEF Filed
<1>5. logfile \in DOMAIN logs' /\ logs'[logfile] = logs[logfile]
  BY <1>3, <1>4 DEF Filed
<1>6. \A s \in Imm \cup acked : s <= lastSequence
  BY DEF IInv, NumberInv
<1>7. StoreOK'
  <2>1. \A n \in DOMAIN logs' : /\ n \in Nat /\ logs'[n] \in LogState
                                /\ ~logs'[n].damaged => logs'[n].lost = {}
    BY TypeParts DEF IInv, StoreOK, Filed
  <2>2. mem' \subseteq Nat /\ imm' \subseteq Nat /\ tables' \subseteq Nat
    <3>1. mem \subseteq Nat /\ imm \subseteq Nat /\ tables \subseteq Nat /\ Imm \subseteq Nat
      BY TypeParts DEF IInv, StoreOK, Imm
    <3>2. imm' \in {imm, {}} /\ tables' \subseteq tables \cup Imm
      BY DEF Filed
    <3> QED
      BY <1>1, <3>1, <3>2
  <2>3. /\ manifest' \in ManifestState /\ logNumber' \in Nat /\ l0' \in Nat
        /\ logfile' \in Nat /\ lastSequence' \in Nat /\ nextFile' \in Nat
    BY <1>1, <1>2 DEF Filed
  <2> QED
    BY <1>1, <1>5, <2>1, <2>2, <2>3 DEF StoreOK
<1>8. FileInv'
  <2>1. IsFiniteSet(DOMAIN logs')
    <3>1. IsFiniteSet(DOMAIN logs) /\ DOMAIN logs' \in SUBSET DOMAIN logs
      BY DEF IInv, FileInv, Filed
    <3> QED
      BY <3>1, FS_Subset
  <2>3. \A s \in manifest'.tables : s <= manifest'.last
    <3>1. CASE SameEdits
      BY <3>1 DEF SameEdits, IInv, FileInv
    <3>2. CASE manifest'.last = lastSequence
      <4>1. TAKE s \in manifest'.tables
      <4>2. CASE s \in manifest.tables
        <5>1. s <= manifest.last /\ manifest.last <= lastSequence
          BY <4>2 DEF IInv, FileInv, NumberInv
        <5>2. s \in Nat
          BY <1>2, <4>1
        <5> QED
          BY <1>2, <3>2, <5>1, <5>2
      <4>3. CASE s \in Imm
        BY <1>6, <3>2, <4>3
      <4> QED
        BY <4>1, <4>2, <4>3 DEF Filed
    <3> QED
      BY <3>1, <3>2 DEF Filed
  <2>4. \A n \in DOMAIN logs' : logs'[n].synced \subseteq logs'[n].recs /\ n <= logfile
    BY <1>3 DEF IInv, FileInv, Filed
  <2> QED
    BY <1>1, <1>3, <1>4, <1>5, <2>1, <2>3, <2>4 DEF FileInv, Filed
<1>9. LostInv'
  BY <1>1, FewerLost DEF IInv, Filed
<1>10. /\ mem \subseteq UNION (logs[logfile].recs \cup logs[logfile].lost)
       /\ Imm \subseteq Held /\ tables \subseteq Held
       /\ acked \subseteq mem \cup Imm \cup tables
  BY DEF IInv, StoreInv
<1>11. ASSUME manifest'.log <= manifest.log, NEW n \in DOMAIN logs, n >= manifest.log
       PROVE  n \in DOMAIN logs' /\ n >= manifest'.log /\ logs'[n] = logs[n]
  <2>1. n \in Nat /\ manifest.log \in Nat /\ manifest'.log \in Nat
    BY <1>2
  <2>2. n >= manifest'.log
    BY <1>11, <2>1
  <2> QED
    BY <2>2 DEF Filed
<1>12. Imm \subseteq Held' /\ tables \subseteq Held'
  <2>1. manifest'.log <= manifest.log => Held \subseteq Held'
    BY <1>11, HeldIs DEF Filed
  <2>2. manifest'.tables \subseteq Held'
    BY HeldIs
  <2> QED
    BY <1>10, <2>1, <2>2 DEF Filed
<1>13. mem \subseteq Held'
  <2>1. logfile >= manifest'.log
    BY <1>2, <1>4
  <2> QED
    BY <1>5, <1>10, <2>1, HeldIs
<1>14. StoreInv'
  <2>1. /\ Imm' \subseteq Held' /\ tables' \subseteq Held' /\ acked \subseteq Held'
        /\ acked \subseteq mem \cup Imm' \cup tables'
        /\ manifest'.end # "cut" => tables' \subseteq manifest'.tables
    BY <1>10, <1>12, <1>13 DEF Filed
  <2> QED
    BY <1>1, <1>5, <1>10, <2>1 DEF StoreInv
<1>15. SyncInv'
  <2>1. /\ pinned \subseteq acked /\ pinned \subseteq OnDiskSynced \cup Lost
        /\ pinned \cap mem \subseteq UNION (logs[logfile].synced \cup logs[logfile].lost)
    BY DEF IInv, SyncInv
  <2>2. manifest'.tables \subseteq OnDiskSynced'
    BY OnDiskSyncedIs
  <2>3. ASSUME NEW n \in DOMAIN logs', n >= manifest'.log
        PROVE  /\ UNION logs'[n].synced \subseteq OnDiskSynced'
               /\ UNION logs'[n].lost \subseteq OnDiskSynced' \cup Lost'
    <3>1. UNION logs'[n].lost \subseteq manifest'.tables \cup Lost'
      BY <1>9, <2>3, LostStaysThen
    <3> QED
      BY <2>2, <2>3, <3>1, OnDiskSyncedIs
  <2>4. pinned \cap mem \subseteq OnDiskSynced' \cup Lost'
    <3>1. logfile >= manifest'.log
      BY <1>2, <1>4
    <3>2. /\ UNION logs[logfile].synced \subseteq OnDiskSynced'
          /\ UNION logs[logfile].lost \subseteq OnDiskSynced' \cup Lost'
      BY <1>5, <2>3, <3>1
    <3> QED
      BY <2>1, <3>2
  <2>5. CASE manifest'.log <= manifest.log
    <3>1. OnDiskSynced \subseteq OnDiskSynced'
      BY <1>11, <2>5, OnDiskSyncedIs DEF Filed
    <3>2. Lost \subseteq OnDiskSynced' \cup Lost'
      BY <1>11, <2>3, <2>5, LostIs
    <3> QED
      BY <1>1, <1>5, <2>1, <3>1, <3>2 DEF SyncInv
  <2>6. CASE Imm \cup tables \subseteq manifest'.tables
    <3>1. pinned \subseteq OnDiskSynced' \cup Lost'
      BY <1>10, <2>1, <2>2, <2>4, <2>6
    <3> QED
      BY <1>1, <1>5, <2>1, <3>1 DEF SyncInv
  <2> QED
    BY <2>5, <2>6 DEF Filed
<1>16. OffInv'
  BY <1>1 DEF OffInv
<1>17. NumberInv'
  <2>1. /\ \A s : Committing(s) <=> Committing(s)'
        /\ \A s : Applying(s) <=> Applying(s)'
    BY BesideQueue
  <2>3. \A s \in tables' \cup Imm' : s <= lastSequence
    BY <1>6 DEF IInv, NumberInv, Filed
  <2>4. \A n \in DOMAIN logs' : \A r \in logs'[n].recs \cup logs'[n].lost : \A s \in r :
          s <= lastSequence \/ Committing(s)'
    BY <2>1 DEF IInv, NumberInv, Filed
  <2>5. \A s \in mem : s <= lastSequence \/ Applying(s)'
    BY <2>1 DEF IInv, NumberInv
  <2> QED
    BY <1>1, <1>4, <1>6, <2>3, <2>4, <2>5 DEF NumberInv
<1>18. GroupInv'
  BY <1>5, BesideGroup
<1> QED
  BY <1>7, <1>8, <1>9, <1>14, <1>15, <1>16, <1>17, <1>18, BesideQueue, TypeParts DEF IInv

\* The store's files and its version are left alone.
LEMMA FiledSame ==
  ASSUME IInv, open = "open",
         UNCHANGED <<imm, hasImm, tables, logNumber, l0, logs, manifest>>,
         bgError => bgError'
  PROVE  Filed
<1>1. /\ manifest \in ManifestState /\ logNumber \in Nat /\ l0 \in Nat
  BY TypeParts DEF IInv, StoreOK
<1>2. manifest.log <= manifest.log
  BY <1>1 DEF ManifestState
<1>3. /\ manifest.end # "cut" => tables \subseteq manifest.tables /\ logNumber <= manifest.log
      /\ manifest.end # "whole" => bgError
  BY DEF IInv, StoreInv, FileInv
<1>4. Imm' = Imm
  BY DEF Imm
<1> QED
  BY <1>1, <1>2, <1>3, <1>4 DEF Filed, SameEdits

LEMMA WaitsStep ==
  ASSUME IInv, NEW t \in Threads, CompactMemTableWaits(t)
  PROVE  IInv'
<1> DEFINE next == IF hasImm /\ ~bgError THEN [Idle EXCEPT !.pc = "immwait"] ELSE Idle
<1>1. /\ th[t].pc = "immcheck" /\ th' = [th EXCEPT ![t] = next]
      /\ UNCHANGED <<writers, group, acked, pinned, memory, work, open, disk, bounds>>
  BY DEF CompactMemTableWaits
<1>2. next \in ThreadState /\ next.pc \in {"immwait", "idle"}
  BY DEF Idle, ThreadState
<1> HIDE DEF next
<1>3. th \in [Threads -> ThreadState] /\ faults \in Nat
  BY Types DEF IInv
<1>4. /\ th' \in [Threads -> ThreadState] /\ th'[t].pc \in {"immwait", "idle"}
      /\ \A u \in Threads : u # t => th'[u] = th[u]
  BY <1>1, <1>2, <1>3
<1>5. Beside
  BY <1>1, <1>3, <1>4 DEF Beside, InGroup, AtFront, memory, bounds
<1>6. open = "open"
  BY <1>1 DEF IInv, OffInv
<1>7. /\ UNCHANGED <<imm, hasImm, tables, logNumber, l0, logs, manifest>>
      /\ UNCHANGED <<bgError, bgScheduled, bg, logfile>>
  BY <1>1 DEF memory, disk, work
<1>8. Filed
  BY <1>6, <1>7, FiledSame
<1>9. FlushInv'
  BY <1>7 DEF IInv, FlushInv
<1> QED
  BY <1>5, <1>6, <1>7, <1>8, <1>9, FiledStep, TypeParts DEF IInv, StoreOK

LEMMA BackgroundCallStep ==
  ASSUME IInv, BackgroundCall
  PROVE  IInv'
<1>1. /\ bgScheduled /\ bg = "idle"
      /\ UNCHANGED <<memory, bgError, open, disk, bounds>>
  BY DEF BackgroundCall
<1>2. \/ bg' = "flush" /\ hasImm /\ UNCHANGED <<thread, bgScheduled>>
      \/ bg' = "compact" /\ UNCHANGED <<thread, bgScheduled>>
      \/ Ends(hasImm, l0, bgError)
  BY DEF BackgroundCall
<1>3. open = "open"
  BY <1>1 DEF IInv, OffInv
<1>4. /\ th' = SignalAll(th) \/ th' = th
      /\ UNCHANGED <<writers, group, acked, pinned>>
      /\ bg' \in {"flush", "compact", "idle"}
  BY <1>2 DEF Ends, thread
<1>5. bgScheduled' \in BOOLEAN /\ bgError' \in BOOLEAN /\ hasImm' \in BOOLEAN
  <2>1. bgScheduled \in BOOLEAN /\ bgError \in BOOLEAN /\ hasImm \in BOOLEAN
    BY TypeParts DEF IInv, StoreOK
  <2>2. bgScheduled' = bgScheduled \/ bgScheduled' = NeedsWork(hasImm, l0, bgError)
    BY <1>2 DEF Ends
  <2>3. NeedsWork(hasImm, l0, bgError) \in BOOLEAN
    BY DEF NeedsWork
  <2>4. bgError' = bgError /\ hasImm' = hasImm
    BY <1>1 DEF memory
  <2> QED
    BY <2>1, <2>2, <2>3, <2>4
<1>6. Beside
  BY <1>1, <1>4, SignalAllBeside, Types DEF IInv, Beside, memory, bounds
<1>7. UNCHANGED <<imm, hasImm, tables, logNumber, l0, logs, manifest>>
  BY <1>1 DEF memory, disk
<1>8. Filed
  BY <1>1, <1>3, <1>7, FiledSame
<1>9. FlushInv'
  BY <1>2, <1>7, <1>4 DEF FlushInv, Ends
<1> QED
  BY <1>3, <1>4, <1>5, <1>6, <1>8, <1>9, FiledStep

LEMMA FlushFirstStep ==
  ASSUME IInv, FlushFirst
  PROVE  IInv'
<1>1. /\ bg = "compact" /\ hasImm /\ bg' = "compactFlush"
      /\ UNCHANGED <<thread, memory, bgError, bgScheduled, open, disk, bounds>>
  BY DEF FlushFirst
<1>2. open = "open"
  BY <1>1 DEF IInv, OffInv
<1>3. UNCHANGED <<imm, hasImm, tables, logNumber, l0, logs, manifest>>
  BY <1>1 DEF memory, disk
<1>4. Filed
  BY <1>1, <1>2, <1>3, FiledSame
<1>5. Beside
  BY <1>1, SignalAllBeside, Types DEF IInv, Beside, memory, bounds, thread
<1>6. FlushInv'
  BY <1>1, <1>3 DEF FlushInv
<1> QED
  BY <1>1, <1>2, <1>3, <1>4, <1>5, <1>6, FiledStep, TypeParts DEF IInv, StoreOK

\* What the manifest says after LogAndApply.
LEMMA EditsAre ==
  ASSUME manifest \in ManifestState, NEW e
  PROVE  /\ \A m \in EditLogged(e) :
              \/ manifest.end # "cut" /\ m = e
              \/ manifest.end # "whole" /\ m = [manifest EXCEPT !.end = "cut"]
         /\ \A m \in EditFailed(e) :
              \/ manifest.end # "cut" /\ m = e
              \/ /\ m \in ManifestState
                 /\ m.log = manifest.log /\ m.next = manifest.next /\ m.last = manifest.last
                 /\ m.tables = manifest.tables
                 /\ m.end # "cut" => manifest.end # "cut"
         /\ EditLogged(e) \subseteq EditFailed(e)
<1>1. /\ [manifest EXCEPT !.end = "cut"] \in ManifestState
      /\ [manifest EXCEPT !.end = "damaged"] \in ManifestState
      /\ [manifest EXCEPT !.end = "cut"].end = "cut"
  BY DEF ManifestState
<1> QED
  BY <1>1 DEF EditLogged, EditFailed, ManifestState

\* The edit of a flush: imm_ is in a table, and no log before the one in use is needed.
LEMMA EditFiled ==
  ASSUME IInv, open = "open", hasImm, NEW files \in Level0Files,
         manifest' \in EditFailed(Edit(files)), manifest'.end # "whole" => bgError',
         UNCHANGED <<imm, hasImm, tables, logNumber, l0, logs>>
  PROVE  /\ Filed
         /\ manifest' = Edit(files) => imm \subseteq manifest'.tables /\ manifest'.log = logfile
<1>1. /\ manifest.tables \subseteq Nat /\ imm \subseteq Nat /\ l0 \in Nat
      /\ logfile \in Nat /\ nextFile \in Nat /\ lastSequence \in Nat /\ logNumber \in Nat
      /\ manifest.log \in Nat /\ manifest \in ManifestState
      /\ manifest.end \in {"whole", "damaged", "cut"}
  BY ManifestTypes, TypeParts DEF IInv, StoreOK
<1>2. files \in Nat
  BY <1>1 DEF Level0Files
<1>3. manifest' = Edit(files) =>
        /\ manifest'.log = logfile /\ manifest'.next = nextFile
        /\ manifest'.last = lastSequence /\ manifest'.tables = manifest.tables \cup imm
        /\ manifest' \in ManifestState
  <2>1. manifest.tables \cup imm \in SUBSET Nat
    BY <1>1
  <2>2. Edit(files) \in ManifestState
    BY <1>1, <1>2, <2>1 DEF Edit, ManifestState
  <2> QED
    BY <2>2 DEF Edit
<1>4. Imm = imm /\ Imm' = imm
  BY DEF Imm
<1>5. /\ manifest.end # "cut" => tables \subseteq manifest.tables /\ logNumber <= manifest.log
      /\ manifest.log <= logfile
  BY DEF IInv, StoreInv, FileInv
<1>6. /\ manifest.end # "cut" => logNumber <= logfile
      /\ logfile <= logfile /\ manifest.log <= manifest.log
  BY <1>1, <1>5
<1>7. CASE manifest.end # "cut" /\ manifest' = Edit(files)
  BY <1>1, <1>3, <1>4, <1>5, <1>6, <1>7 DEF Filed
<1>8. CASE /\ manifest' \in ManifestState /\ SameEdits
           /\ manifest'.end # "cut" => manifest.end # "cut"
  <2>1. Filed
    BY <1>1, <1>4, <1>5, <1>6, <1>8 DEF Filed, SameEdits
  <2> QED
    BY <1>3, <2>1
<1> QED
  BY <1>1, <1>7, <1>8, EditsAre DEF SameEdits

LEMMA FlushLoggedStep ==
  ASSUME IInv, FlushLogged
  PROVE  IInv'
<1>1. /\ bg \in {"flush", "compactFlush"} /\ bg' \in {"install", "compactInstall"}
      /\ UNCHANGED <<thread, memory, bgError, bgScheduled, open, logs, bounds>>
  BY DEF FlushLogged, Flushing
<1>2. PICK files \in Level0Files : manifest' \in EditLogged(Edit(files))
  BY DEF FlushLogged
<1>3. open = "open" /\ hasImm
  BY <1>1 DEF IInv, OffInv, FlushInv
<1>4. UNCHANGED <<imm, hasImm, tables, logNumber, l0, logs, logfile>>
  BY <1>1 DEF memory
<1>5. /\ \/ manifest.end # "cut" /\ manifest' = Edit(files)
         \/ manifest.end # "whole" /\ manifest' = [manifest EXCEPT !.end = "cut"]
      /\ manifest' \in EditFailed(Edit(files))
  BY <1>2, EditsAre, TypeParts DEF IInv, StoreOK
<1>6. /\ manifest'.end # "whole" => bgError'
      /\ manifest'.end # "cut" => manifest' = Edit(files)
  <2>1. manifest.end # "whole" => bgError
    BY <1>3 DEF IInv, FileInv
  <2>2. Edit(files).end = manifest.end
    BY DEF Edit
  <2>3. [manifest EXCEPT !.end = "cut"].end = "cut"
    BY TypeParts DEF IInv, StoreOK, ManifestState
  <2> QED
    BY <1>1, <1>5, <2>1, <2>2, <2>3
<1>7. /\ Filed
      /\ manifest' = Edit(files) => imm \subseteq manifest'.tables /\ manifest'.log = logfile
  BY <1>3, <1>4, <1>5, <1>6, EditFiled
<1>8. Beside
  BY <1>1, SignalAllBeside, Types DEF IInv, Beside, memory, bounds, thread
<1>9. FlushInv'
  BY <1>3, <1>4, <1>6, <1>7 DEF FlushInv
<1> QED
  BY <1>1, <1>3, <1>4, <1>7, <1>8, <1>9, FiledStep, TypeParts DEF IInv, StoreOK

LEMMA FlushInstalledStep ==
  ASSUME IInv, FlushInstalled
  PROVE  IInv'
<1>1. /\ bg \in {"install", "compactInstall"}
      /\ tables' = tables \cup imm /\ logNumber' = logfile
      /\ l0' \in {l0, l0 + 1, manifest.l0}
      /\ imm' = {} /\ hasImm' = FALSE /\ logs' = Kept(logfile)
      /\ UNCHANGED <<mem, logfile, lastSequence, nextFile, bgError, open, manifest, bounds>>
  BY DEF FlushInstalled, Level0Files
<1>2. /\ th' = SignalAll(th) /\ UNCHANGED <<writers, group, acked, pinned>>
      /\ bg' \in {"idle", "compact"}
      /\ bgScheduled' \in {bgScheduled, NeedsWork(FALSE, l0', bgError)}
  BY DEF FlushInstalled, Ends
<1>3. bgScheduled' \in BOOLEAN /\ bgError' \in BOOLEAN
  <2>1. bgScheduled \in BOOLEAN /\ bgError \in BOOLEAN
    BY TypeParts DEF IInv, StoreOK
  <2>2. NeedsWork(FALSE, l0', bgError) \in BOOLEAN
    BY DEF NeedsWork
  <2> QED
    BY <1>1, <1>2, <2>1, <2>2
<1>4. /\ open = "open" /\ hasImm
      /\ manifest.end # "cut" => imm \subseteq manifest.tables /\ manifest.log = logfile
  BY <1>1 DEF IInv, OffInv, FlushInv
<1>5. Imm = imm /\ Imm' = {}
  BY <1>1, <1>4 DEF Imm
<1>6. /\ manifest.log \in Nat /\ manifest \in ManifestState
      /\ manifest.log <= manifest.log /\ l0' \in Nat /\ logfile \in Nat
      /\ manifest.end \in {"whole", "damaged", "cut"}
  <2>1. /\ manifest.log \in Nat /\ manifest.l0 \in Nat /\ manifest \in ManifestState
        /\ l0 \in Nat /\ logfile \in Nat /\ manifest.end \in {"whole", "damaged", "cut"}
    BY ManifestTypes, TypeParts DEF IInv, StoreOK
  <2> QED
    BY <1>1, <2>1
<1>7. /\ manifest.end # "cut" => tables \subseteq manifest.tables
      /\ manifest.end # "whole" => bgError
  BY <1>4 DEF IInv, StoreInv, FileInv
<1>8. /\ DOMAIN logs' \subseteq DOMAIN logs
      /\ \A n \in DOMAIN logs : n >= manifest.log => n \in DOMAIN logs'
      /\ \A n \in DOMAIN logs' : logs'[n] = logs[n]
  <2>1. /\ \A n \in DOMAIN logs : n >= logfile => n \in DOMAIN logs'
        /\ \A n \in DOMAIN logs' : logs'[n] = logs[n]
        /\ bgError => DOMAIN logs' = DOMAIN logs
        /\ DOMAIN logs' \subseteq DOMAIN logs
    BY <1>1, KeptIs
  <2> QED
    BY <1>4, <1>7, <2>1
<1>9. Filed
  BY <1>1, <1>4, <1>5, <1>6, <1>7, <1>8 DEF Filed, SameEdits
<1>10. Beside
  BY <1>1, <1>2, SignalAllBeside, Types DEF IInv, Beside, bounds
<1>11. FlushInv'
  BY <1>2 DEF FlushInv
<1> QED
  BY <1>1, <1>2, <1>3, <1>4, <1>9, <1>10, <1>11, FiledStep

LEMMA FlushFailsStep ==
  ASSUME IInv, FlushFails
  PROVE  IInv'
<1>1. /\ bg \in {"flush", "compactFlush"} /\ bgError' = TRUE
      /\ faults' = faults + 1
      /\ \E files \in Level0Files : manifest' \in EditFailed(Edit(files))
      /\ UNCHANGED <<memory, open, logs, calls, crashes>>
  BY DEF FlushFails, Flushing, Fault
<1>2. /\ th' = SignalAll(th) /\ UNCHANGED <<writers, group, acked, pinned>>
      /\ bg' \in {"idle", "compact"}
      /\ bgScheduled' \in {bgScheduled, NeedsWork(TRUE, l0, TRUE)}
  BY DEF FlushFails, Ends
<1>3. bgScheduled' \in BOOLEAN
  <2>1. bgScheduled \in BOOLEAN
    BY TypeParts DEF IInv, StoreOK
  <2>2. NeedsWork(TRUE, l0, TRUE) \in BOOLEAN
    BY DEF NeedsWork
  <2> QED
    BY <1>2, <2>1, <2>2
<1>4. open = "open" /\ hasImm
  BY <1>1 DEF IInv, OffInv, FlushInv
<1>5. UNCHANGED <<imm, hasImm, tables, logNumber, l0, logs>>
  BY <1>1 DEF memory
<1>6. Filed
  BY <1>1, <1>4, <1>5, EditFiled
<1>7. Beside
  BY <1>1, <1>2, SignalAllBeside, Types DEF IInv, Beside, memory
<1>8. FlushInv'
  BY <1>2 DEF FlushInv
<1> QED
  BY <1>1, <1>2, <1>3, <1>4, <1>5, <1>6, <1>7, <1>8, FiledStep

\* The edit of a compaction names the log the version has, which is no newer than
\* the manifest's.
LEMMA CompactionFiled ==
  ASSUME IInv, open = "open", manifest' \in EditFailed(CompactionEdit),
         manifest'.end # "whole" => bgError',
         UNCHANGED <<imm, hasImm, tables, logNumber>>, l0' \in Nat,
         \/ logs' = logs
         \/ logs' = Kept(logNumber) /\ manifest' \in EditLogged(CompactionEdit)
  PROVE  Filed
<1>1. /\ manifest \in ManifestState /\ logNumber \in Nat /\ nextFile \in Nat
      /\ lastSequence \in Nat /\ manifest.log \in Nat /\ logfile \in Nat
      /\ manifest.end \in {"whole", "damaged", "cut"}
  BY ManifestTypes, TypeParts DEF IInv, StoreOK
<1>2. manifest' = CompactionEdit =>
        /\ manifest'.log = logNumber /\ manifest'.next = nextFile
        /\ manifest'.last = lastSequence /\ manifest'.tables = manifest.tables
        /\ manifest' \in ManifestState
  <2>1. /\ CompactionEdit \in ManifestState
        /\ CompactionEdit.log = logNumber /\ CompactionEdit.next = nextFile
        /\ CompactionEdit.last = lastSequence /\ CompactionEdit.tables = manifest.tables
    BY <1>1 DEF CompactionEdit, ManifestState
  <2> QED
    BY <2>1
<1>3. Imm' = Imm
  BY DEF Imm
<1>4. /\ manifest.end # "cut" => tables \subseteq manifest.tables /\ logNumber <= manifest.log
      /\ manifest.log <= logfile
      /\ manifest.end # "whole" => bgError
  BY DEF IInv, StoreInv, FileInv
<1>5. /\ manifest.end # "cut" => logNumber <= logfile
      /\ logNumber <= logNumber /\ manifest.log <= manifest.log
  BY <1>1, <1>4
<1>6. /\ DOMAIN logs' \subseteq DOMAIN logs
      /\ \A n \in DOMAIN logs' : logs'[n] = logs[n]
      /\ \A n \in DOMAIN logs : n >= logNumber => n \in DOMAIN logs'
      /\ bgError => DOMAIN logs' = DOMAIN logs
  BY KeptIs
<1>7. CASE manifest.end # "cut" /\ manifest' = CompactionEdit
  <2>1. \A n \in DOMAIN logs : n >= manifest'.log => n \in DOMAIN logs'
    BY <1>2, <1>6, <1>7
  <2> QED
    BY <1>1, <1>2, <1>3, <1>4, <1>5, <1>6, <1>7, <2>1 DEF Filed
<1>8. CASE ~(manifest.end # "cut" /\ manifest' = CompactionEdit)
  <2>1. /\ manifest' \in ManifestState /\ SameEdits
        /\ manifest'.end # "cut" => manifest.end # "cut"
    BY <1>1, <1>8, EditsAre DEF SameEdits
  <2>2. manifest' \in EditLogged(CompactionEdit) => bgError
    <3>1. manifest' \in EditLogged(CompactionEdit) => manifest.end # "whole"
      BY <1>1, <1>8, EditsAre
    <3> QED
      BY <1>4, <3>1
  <2>3. DOMAIN logs' = DOMAIN logs
    BY <1>6, <2>2
  <2> QED
    BY <1>1, <1>3, <1>4, <1>5, <1>6, <2>1, <2>3 DEF Filed, SameEdits
<1> QED
  BY <1>7, <1>8

LEMMA CompactionEndsStep ==
  ASSUME IInv, CompactionEnds
  PROVE  IInv'
<1>1. /\ bg = "compact" /\ l0' = 0 /\ manifest' \in EditLogged(CompactionEdit)
      /\ logs' = Kept(logNumber)
      /\ UNCHANGED <<mem, imm, hasImm, logfile, lastSequence, nextFile, tables,
                     logNumber, bgError, open, bounds>>
  BY DEF CompactionEnds
<1>2. /\ th' = SignalAll(th) /\ UNCHANGED <<writers, group, acked, pinned>>
      /\ bg' = "idle" /\ bgScheduled' = NeedsWork(hasImm, 0, bgError)
  BY DEF CompactionEnds, Ends
<1>3. bgScheduled' \in BOOLEAN
  BY <1>2 DEF NeedsWork
<1>4. open = "open"
  BY <1>1 DEF IInv, OffInv
<1>5. Filed
  <2>1. manifest \in ManifestState /\ (manifest.end # "whole" => bgError)
    BY <1>4, TypeParts DEF IInv, StoreOK, FileInv
  <2>2. /\ manifest' \in EditFailed(CompactionEdit)
        /\ manifest' = CompactionEdit \/ manifest.end # "whole"
    BY <1>1, <2>1, EditsAre
  <2>3. CompactionEdit.end = manifest.end
    BY <2>1 DEF CompactionEdit, ManifestState
  <2>4. manifest'.end # "whole" => bgError'
    BY <1>1, <2>1, <2>2, <2>3
  <2>5. l0' \in Nat
    BY <1>1
  <2> QED
    BY <1>1, <1>4, <2>2, <2>4, <2>5, CompactionFiled
<1>6. Beside
  BY <1>1, <1>2, SignalAllBeside, Types DEF IInv, Beside, bounds
<1>7. FlushInv'
  BY <1>2 DEF FlushInv
<1>8. hasImm' \in BOOLEAN /\ bgError' \in BOOLEAN
  BY <1>1, TypeParts DEF IInv, StoreOK
<1> QED
  BY <1>2, <1>3, <1>4, <1>5, <1>6, <1>7, <1>8, FiledStep

LEMMA CompactionFailsStep ==
  ASSUME IInv, CompactionFails
  PROVE  IInv'
<1>1. /\ bg = "compact" /\ bgError' = TRUE /\ faults' = faults + 1
      /\ manifest' \in EditFailed(CompactionEdit)
      /\ UNCHANGED <<memory, open, logs, calls, crashes>>
  BY DEF CompactionFails, Fault
<1>2. /\ th' = SignalAll(th) /\ UNCHANGED <<writers, group, acked, pinned>>
      /\ bg' = "idle" /\ bgScheduled' = NeedsWork(hasImm, l0, TRUE)
  BY DEF CompactionFails, Ends
<1>3. bgScheduled' \in BOOLEAN
  BY <1>2 DEF NeedsWork
<1>4. open = "open"
  BY <1>1 DEF IInv, OffInv
<1>5. UNCHANGED <<imm, hasImm, tables, logNumber, l0, logs>> /\ l0 \in Nat
  BY <1>1, TypeParts DEF memory, IInv, StoreOK
<1>6. Filed
  BY <1>1, <1>4, <1>5, CompactionFiled
<1>7. Beside
  BY <1>1, <1>2, SignalAllBeside, Types DEF IInv, Beside, memory
<1>8. FlushInv'
  BY <1>2 DEF FlushInv
<1>9. hasImm' \in BOOLEAN
  BY <1>5, TypeParts DEF IInv, StoreOK
<1> QED
  BY <1>1, <1>2, <1>3, <1>4, <1>6, <1>7, <1>8, <1>9, FiledStep

-----------------------------------------------------------------------------
(* Crashes and recovery.                                                   *)

\* Nothing is left in memory, and the files hold what they must.
LEMMA ForgetsStep ==
  ASSUME IInv, Forgets, crashes' \in Nat, faults' \in Nat,
         DOMAIN logs' = DOMAIN logs,
         \A n \in DOMAIN logs' : /\ logs'[n] \in LogState /\ logs'[n].lost = {}
                                 /\ logs'[n].synced \subseteq logs'[n].recs,
         acked' \subseteq acked, acked' \subseteq OnDisk',
         pinned' \subseteq acked', pinned' \subseteq OnDiskSynced'
  PROVE  IInv'
<1>1. /\ th' = [t \in Threads |-> Idle] /\ writers' = <<>> /\ group' = NoGroup
      /\ mem' = {} /\ imm' = {} /\ hasImm' = FALSE
      /\ tables' = {} /\ l0' = 0 /\ lastSequence' = 0
      /\ logfile' = 0 /\ nextFile' = 0 /\ logNumber' = 0
      /\ bgError' = FALSE /\ bgScheduled' = FALSE /\ bg' = "idle"
      /\ open' = "closed"
      /\ pinned' = pinned \ Lost
      /\ UNCHANGED <<manifest, calls>>
  BY DEF Forgets
<1>2. \A t \in Threads : th'[t] = Idle /\ th'[t].pc = "idle"
  BY <1>1 DEF Idle
<1>3. ThreadOK'
  <2>1. Idle \in ThreadState /\ NoGroup \in GroupState /\ NoGroup.size = 0
    BY DEF Idle, ThreadState, NoGroup, GroupState
  <2>2. writers' \in Seq(Threads) /\ Len(writers') = 0
    BY <1>1, EmptySeq
  <2> QED
    BY <1>1, <2>1, <2>2, TypeParts DEF IInv, ThreadOK
<1>4. StoreOK'
  BY <1>1, TypeParts DEF IInv, StoreOK
<1>5. CountOK'
  BY <1>1, TypeParts DEF IInv, CountOK
<1>6. QueueInv' /\ GroupInv'
  BY <1>1, <1>2 DEF QueueInv, GroupInv, AtFront, InGroup, NoGroup
<1>7. OffInv' /\ FlushInv'
  BY <1>1, <1>2 DEF OffInv, FlushInv
<1>8. FileInv' /\ LostInv'
  BY <1>1 DEF IInv, FileInv, LostInv
<1>9. StoreInv' /\ SyncInv' /\ NumberInv'
  BY <1>1 DEF StoreInv, SyncInv, NumberInv, Held
<1> QED
  BY <1>3, <1>4, <1>5, <1>6, <1>7, <1>8, <1>9, TypeParts DEF IInv

\* What the process leaves: all but what the logs had lost.
LEMMA KilledDisk ==
  ASSUME IInv, ProcessDies \/ OpenFails
  PROVE  /\ DOMAIN logs' = DOMAIN logs
         /\ \A n \in DOMAIN logs' : /\ logs'[n] \in LogState /\ logs'[n].lost = {}
                                    /\ logs'[n].synced \subseteq logs'[n].recs
         /\ OnDisk' = OnDisk /\ OnDiskSynced' = OnDiskSynced
         /\ acked' = acked \ Lost
<1>1. manifest' = manifest
  BY DEF ProcessDies, OpenFails, Forgets
<1>2. /\ DOMAIN logs' = DOMAIN logs
      /\ \A n \in DOMAIN logs' : /\ logs'[n].recs = logs[n].recs
                                 /\ logs'[n].synced = logs[n].synced
                                 /\ logs'[n] \in LogState /\ logs'[n].lost = {}
  <2>1. \A n \in DOMAIN logs : logs[n] \in LogState
    BY TypeParts DEF IInv, StoreOK
  <2>2. CASE ProcessDies
    BY <2>1, <2>2 DEF ProcessDies, LogState
  <2>3. CASE OpenFails
    BY <2>1, <2>3 DEF OpenFails, IInv, LostInv
  <2> QED
    BY <2>2, <2>3
<1>3. \A n \in DOMAIN logs' : logs'[n].synced \subseteq logs'[n].recs
  BY <1>2 DEF IInv, FileInv
<1>4. \A s : s \in OnDisk' <=> s \in OnDisk
  BY <1>1, <1>2, OnDiskIs
<1>5. \A s : s \in OnDiskSynced' <=> s \in OnDiskSynced
  BY <1>1, <1>2, OnDiskSyncedIs
<1>6. acked' = acked \ Lost
  <2>1. CASE ProcessDies
    BY <2>1 DEF ProcessDies
  <2>2. CASE OpenFails
    <3>1. Lost = {}
      BY <2>2, NoneLost DEF OpenFails, IInv
    <3> QED
      BY <2>2, <3>1 DEF OpenFails
  <2> QED
    BY <2>1, <2>2
<1> QED
  BY <1>2, <1>3, <1>4, <1>5, <1>6

LEMMA KilledStep ==
  ASSUME IInv, ProcessDies \/ OpenFails
  PROVE  IInv'
<1>1. /\ Forgets /\ pinned' = pinned \ Lost
      /\ \/ crashes' = crashes + 1 /\ faults' = faults
         \/ faults' = faults + 1 /\ crashes' = crashes
  BY DEF ProcessDies, OpenFails, Forgets, Crashes, Fault
<1>2. crashes' \in Nat /\ faults' \in Nat
  BY <1>1, TypeParts DEF IInv, CountOK
<1>3. /\ acked \subseteq OnDisk \cup Lost /\ pinned \subseteq acked
      /\ pinned \subseteq OnDiskSynced \cup Lost
  BY DEF IInv, StoreInv, SyncInv, Held
<1>4. /\ acked' \subseteq acked /\ acked' \subseteq OnDisk'
      /\ pinned' \subseteq acked' /\ pinned' \subseteq OnDiskSynced'
  BY <1>1, <1>3, KilledDisk
<1> QED
  BY <1>1, <1>2, <1>4, KilledDisk, ForgetsStep

\* What was synced survives the machine.
LEMMA MachineDiesDisk ==
  ASSUME IInv, MachineDies
  PROVE  /\ DOMAIN logs' = DOMAIN logs
         /\ \A n \in DOMAIN logs' : /\ logs'[n] \in LogState /\ logs'[n].lost = {}
                                    /\ logs'[n].synced = logs'[n].recs
                                    /\ logs[n].synced \subseteq logs'[n].synced
         /\ OnDiskSynced \subseteq OnDiskSynced' /\ OnDisk' = OnDiskSynced'
<1>1. PICK upto \in [DOMAIN logs -> 0..MaxCalls] :
        logs' = [n \in DOMAIN logs |->
                   [recs    |-> Surviving(logs[n], upto[n]),
                    synced  |-> Surviving(logs[n], upto[n]),
                    damaged |-> logs[n].damaged, lost |-> {}]]
  BY DEF MachineDies
<1>2. DOMAIN logs' = DOMAIN logs
  BY <1>1
<1>3. ASSUME NEW n \in DOMAIN logs
      PROVE  /\ logs'[n] \in LogState /\ logs'[n].lost = {}
             /\ logs'[n].synced = logs'[n].recs
             /\ logs[n].synced \subseteq logs'[n].synced
  <2>1. logs[n] \in LogState /\ logs[n].synced \subseteq logs[n].recs
    BY TypeParts DEF IInv, StoreOK, FileInv
  <2>2. logs'[n] = [recs    |-> Surviving(logs[n], upto[n]),
                    synced  |-> Surviving(logs[n], upto[n]),
                    damaged |-> logs[n].damaged, lost |-> {}]
    BY <1>1
  <2>3. /\ Surviving(logs[n], upto[n]) \subseteq logs[n].recs
        /\ logs[n].synced \subseteq Surviving(logs[n], upto[n])
    BY <2>1 DEF Surviving
  <2>4. /\ logs[n].recs \in SUBSET SUBSET Nat /\ logs[n].damaged \in BOOLEAN
    BY <2>1 DEF LogState
  <2>5. /\ Surviving(logs[n], upto[n]) \in SUBSET SUBSET Nat
        /\ {} \in SUBSET SUBSET Nat
    BY <2>3, <2>4
  <2>6. logs'[n] \in LogState
    BY <2>2, <2>4, <2>5 DEF LogState
  <2> QED
    BY <2>2, <2>3, <2>6
<1>4. manifest' = manifest
  BY DEF MachineDies, Forgets
<1>5. OnDiskSynced \subseteq OnDiskSynced'
  <2>1. \A n \in DOMAIN logs : UNION logs[n].synced \subseteq UNION logs'[n].synced
    BY <1>3
  <2> QED
    BY <1>2, <1>4, <2>1, OnDiskSyncedIs
<1>6. OnDisk' = OnDiskSynced'
  <2>1. \A n \in DOMAIN logs' : logs'[n].synced = logs'[n].recs
    BY <1>2, <1>3
  <2>2. \A s : s \in OnDisk' <=> s \in OnDiskSynced'
    BY <2>1, OnDiskIs, OnDiskSyncedIs
  <2> QED
    BY <2>2
<1> QED
  BY <1>2, <1>3, <1>5, <1>6

LEMMA MachineDiesStep ==
  ASSUME IInv, MachineDies
  PROVE  IInv'
<1>1. /\ Forgets /\ acked' = acked \cap OnDisk' /\ crashes' = crashes + 1 /\ faults' = faults
      /\ pinned' = pinned \ Lost
  BY DEF MachineDies, Forgets, Crashes
<1>2. crashes' \in Nat /\ faults' \in Nat
  BY <1>1, TypeParts DEF IInv, CountOK
<1>3. pinned \subseteq acked /\ pinned \subseteq OnDiskSynced \cup Lost
  BY DEF IInv, SyncInv
<1>4. pinned' \subseteq OnDiskSynced' /\ pinned' \subseteq acked'
  BY <1>1, <1>3, MachineDiesDisk
<1>5. \A n \in DOMAIN logs' : /\ logs'[n] \in LogState /\ logs'[n].lost = {}
                              /\ logs'[n].synced \subseteq logs'[n].recs
  BY MachineDiesDisk
<1> QED
  BY <1>1, <1>2, <1>4, <1>5, MachineDiesDisk, ForgetsStep

LEMMA RecoverStep ==
  ASSUME IInv, Recover
  PROVE  IInv'
<1>1. /\ open = "closed" /\ open' = "opening"
      /\ tables' = manifest.tables \cup Replays
      /\ lastSequence' \in RecoveredSequence
      /\ l0' = manifest.l0 + Cardinality(Replayed)
      /\ logNumber' = manifest.log
      /\ UNCHANGED <<thread, mem, imm, hasImm, work, manifest, bounds>>
  BY DEF Recover
<1>2. PICK used \in Greatest({manifest.next} \cup {n \in DOMAIN logs : Live(n)}) :
        logfile' = used + 1 /\ nextFile' = used + 2 /\ logs' = WithNewLog(used + 1)
  BY DEF Recover
<1>3. /\ manifest.log \in Nat /\ manifest.next \in Nat /\ manifest.last \in Nat
      /\ manifest.l0 \in Nat /\ manifest.tables \subseteq Nat
      /\ manifest \in ManifestState
      /\ \A n \in DOMAIN logs : n \in Nat
      /\ manifest.log <= manifest.next
  BY ManifestTypes, TypeParts DEF IInv, StoreOK, FileInv
<1>4. /\ used \in Nat /\ manifest.next <= used
      /\ \A n \in DOMAIN logs : n >= manifest.log => n <= used
  BY <1>2, <1>3 DEF Greatest, Live
<1>5. /\ \A n \in DOMAIN logs : n <= used
      /\ manifest.log <= used
  BY <1>3, <1>4
<1>6. used + 1 \in Nat /\ used + 1 \notin DOMAIN logs
  BY <1>3, <1>4, <1>5
<1>7. /\ DOMAIN logs' = DOMAIN logs \cup {used + 1}
      /\ \A n \in DOMAIN logs : logs'[n] = logs[n]
      /\ logs'[used + 1] = NewLog
      /\ UNCHANGED <<OnDisk, OnDiskSynced, Lost, Held>>
  BY <1>1, <1>2, <1>6, WithNewLogIs
<1>8. tables' = OnDisk
  <2>1. \A s : s \in Replays <=>
          \E n \in DOMAIN logs : n >= manifest.log /\ s \in UNION logs[n].recs
    BY DEF Replays, Replayed
  <2> QED
    BY <1>1, <2>1, OnDiskIs
<1>9. /\ lastSequence' \in Nat /\ manifest.last <= lastSequence'
      /\ Replays \subseteq Nat
      /\ \A s \in tables' : s <= lastSequence'
  <2>1. Replays \subseteq Nat
    BY ManifestTypes, TypeParts DEF IInv, Replays, Replayed
  <2>2. /\ lastSequence' \in {manifest.last} \cup Replays
        /\ \A m \in {manifest.last} \cup Replays : m <= lastSequence'
    BY <1>1 DEF RecoveredSequence, Greatest
  <2>3. \A s \in manifest.tables : s <= manifest.last
    BY DEF IInv, FileInv
  <2>4. lastSequence' \in Nat
    BY <1>3, <2>1, <2>2
  <2>5. \A s \in manifest.tables : s <= lastSequence'
    BY <1>3, <2>2, <2>3, <2>4
  <2> QED
    BY <1>1, <2>1, <2>2, <2>4, <2>5
<1>10. l0' \in Nat
  <2>1. IsFiniteSet(DOMAIN logs)
    BY DEF IInv, FileInv
  <2>2. Replayed \in SUBSET DOMAIN logs
    BY DEF Replayed
  <2>3. Cardinality(Replayed) \in Nat
    BY <2>1, <2>2, FS_Subset, FS_CardinalityType
  <2> QED
    BY <1>1, <1>3, <2>3
<1>11. /\ NewLog \in LogState /\ NewLog.synced = {} /\ NewLog.recs = {} /\ NewLog.lost = {}
       /\ ~NewLog.damaged
  BY NewLogIs
<1>12. UNCHANGED <<th, writers, group, acked, pinned, calls, faults, crashes, bgError, bgScheduled, bg>>
  BY <1>1 DEF thread, work, bounds
<1>13. /\ \A t \in Threads : th[t].pc = "idle"
       /\ mem = {} /\ ~hasImm /\ bg = "idle" /\ ~bgScheduled /\ ~bgError
  BY <1>1 DEF IInv, OffInv
<1>14. ThreadOK' /\ CountOK'
  BY <1>12, TypeParts DEF IInv, ThreadOK, CountOK
<1>15. StoreOK'
  <2>1. \A n \in DOMAIN logs' : /\ n \in Nat /\ logs'[n] \in LogState
                                /\ ~logs'[n].damaged => logs'[n].lost = {}
    BY <1>6, <1>7, <1>11, TypeParts DEF IInv, StoreOK
  <2>2. tables' \subseteq Nat
    BY <1>1, <1>3, <1>9
  <2>3. logfile' \in Nat /\ nextFile' \in Nat /\ logfile' \in DOMAIN logs' /\ logNumber' \in Nat
    BY <1>1, <1>2, <1>3, <1>4, <1>7
  <2> QED
    BY <1>1, <1>9, <1>10, <1>12, <2>1, <2>2, <2>3, TypeParts DEF IInv, StoreOK
<1>16. QueueInv' /\ GroupInv'
  BY <1>12, <1>13 DEF IInv, QueueInv, GroupInv, InGroup
<1>17. OffInv' /\ FlushInv'
  BY <1>1, <1>12, <1>13 DEF OffInv, FlushInv
<1>18. FileInv'
  <2>1. IsFiniteSet(DOMAIN logs')
    BY <1>7, FS_AddElement DEF IInv, FileInv
  <2>2. \A n \in DOMAIN logs' : logs'[n].synced \subseteq logs'[n].recs
    BY <1>7, <1>11 DEF IInv, FileInv
  <2>3. /\ logfile' \in DOMAIN logs' /\ logfile' < nextFile'
        /\ manifest.log <= logfile' /\ manifest.next <= nextFile'
        /\ \A n \in DOMAIN logs' : n <= logfile'
    BY <1>2, <1>3, <1>4, <1>5, <1>7
  <2> QED
    BY <1>1, <2>1, <2>2, <2>3 DEF IInv, FileInv
<1>19. LostInv'
  BY <1>1, <1>6, <1>7, NewLogLost DEF IInv
<1>20. StoreInv'
  BY <1>1, <1>2, <1>7, <1>8, <1>12 DEF IInv, StoreInv
<1>21. SyncInv'
  BY <1>1, <1>7, <1>12 DEF IInv, SyncInv
<1>22. NumberInv'
  BY <1>1, <1>9 DEF NumberInv
<1> QED
  BY <1>14, <1>15, <1>16, <1>17, <1>18, <1>19, <1>20, <1>21, <1>22, TypeParts DEF IInv

LEMMA OpenStep ==
  ASSUME IInv, Open
  PROVE  IInv'
<1>1. /\ open = "opening" /\ open' = "open"
      /\ manifest' = [log |-> logfile, next |-> nextFile, last |-> lastSequence,
                      tables |-> tables, l0 |-> l0, end |-> "whole"]
      /\ logNumber' = logfile /\ logs' = Kept(logfile)
      /\ bgScheduled' = NeedsWork(FALSE, l0, FALSE)
      /\ UNCHANGED <<thread, mem, imm, hasImm, logfile, lastSequence, nextFile, tables,
                     l0, bgError, bg, bounds>>
  BY DEF Open
<1>2. UNCHANGED <<th, writers, group, acked, pinned, calls, faults, crashes, Imm>>
  BY <1>1 DEF thread, bounds, Imm
<1>3. /\ \A t \in Threads : th[t].pc = "idle"
      /\ mem = {} /\ ~hasImm /\ bg = "idle" /\ ~bgError /\ Imm = {}
  BY <1>1 DEF IInv, OffInv, Imm
<1>4. /\ logfile \in DOMAIN logs /\ logfile < nextFile
      /\ \A n \in DOMAIN logs : n <= logfile
      /\ IsFiniteSet(DOMAIN logs)
      /\ \A n \in DOMAIN logs : logs[n].synced \subseteq logs[n].recs
  BY <1>1 DEF IInv, FileInv
<1>5. /\ tables = OnDisk /\ logs[logfile] = NewLog /\ acked \subseteq OnDisk
      /\ pinned \subseteq acked
  BY <1>1, NoneLost DEF IInv, StoreInv, SyncInv
<1>6. /\ logfile \in Nat /\ nextFile \in Nat /\ lastSequence \in Nat /\ l0 \in Nat
      /\ tables \subseteq Nat /\ \A n \in DOMAIN logs : n \in Nat /\ logs[n] \in LogState
  BY TypeParts DEF IInv, StoreOK
<1>7. /\ DOMAIN logs' \subseteq DOMAIN logs
      /\ \A n \in DOMAIN logs : n >= logfile => n \in DOMAIN logs'
      /\ \A n \in DOMAIN logs' : logs'[n] = logs[n]
      /\ \A n \in DOMAIN logs' : n >= logfile
  BY <1>1, <1>3, KeptIs
<1>8. /\ logfile \in DOMAIN logs' /\ \A n \in DOMAIN logs' : n = logfile
      /\ \A n \in DOMAIN logs' : /\ logs'[n].recs = {} /\ logs'[n].synced = {}
                                 /\ logs'[n].lost = {}
  BY <1>4, <1>5, <1>6, <1>7, NewLogIs
<1>9. /\ manifest'.log = logfile /\ manifest'.next = nextFile /\ manifest'.last = lastSequence
      /\ manifest'.tables = tables /\ manifest'.end = "whole" /\ manifest' \in ManifestState
  BY <1>1, <1>6 DEF ManifestState
<1>10. tables \subseteq Held' /\ tables \subseteq OnDiskSynced'
  BY <1>9, HeldIs, OnDiskSyncedIs
<1>11. \A s \in tables : s <= lastSequence
  BY <1>1 DEF IInv, NumberInv
<1>12. ThreadOK' /\ CountOK'
  BY <1>2, TypeParts DEF IInv, ThreadOK, CountOK
<1>13. StoreOK'
  <2>1. bgScheduled' \in BOOLEAN
    BY <1>1 DEF NeedsWork
  <2>2. \A n \in DOMAIN logs' : /\ n \in Nat /\ logs'[n] \in LogState
                                /\ ~logs'[n].damaged => logs'[n].lost = {}
    BY <1>6, <1>7, <1>8
  <2> QED
    BY <1>1, <1>6, <1>8, <1>9, <2>1, <2>2, TypeParts DEF IInv, StoreOK
<1>14. QueueInv' /\ GroupInv'
  BY <1>2, <1>3 DEF IInv, QueueInv, GroupInv, InGroup
<1>15. OffInv' /\ FlushInv'
  BY <1>1, <1>3 DEF OffInv, FlushInv
<1>16. FileInv'
  <2>1. IsFiniteSet(DOMAIN logs')
    <3>1. DOMAIN logs' \in SUBSET DOMAIN logs
      BY <1>7
    <3> QED
      BY <1>4, <3>1, FS_Subset
  <2>2. logfile <= logfile /\ logfile <= nextFile /\ nextFile <= nextFile
    BY <1>4, <1>6
  <2> QED
    BY <1>1, <1>4, <1>7, <1>8, <1>9, <1>11, <2>1, <2>2 DEF FileInv
<1>17. StoreInv'
  BY <1>1, <1>2, <1>3, <1>5, <1>9, <1>10 DEF StoreInv
<1>18. SyncInv'
  BY <1>1, <1>2, <1>3, <1>5, <1>10 DEF SyncInv
<1>19. NumberInv'
  <2>1. lastSequence <= lastSequence
    BY <1>6
  <2> QED
    BY <1>1, <1>2, <1>3, <1>5, <1>8, <1>9, <1>11, <2>1 DEF NumberInv
<1>20. LostInv'
  BY <1>8 DEF LostInv
<1> QED
  BY <1>12, <1>13, <1>14, <1>15, <1>16, <1>17, <1>18, <1>19, <1>20, TypeParts DEF IInv

-----------------------------------------------------------------------------
(* The theorems.                                                           *)

LEMMA StutterStep ==
  ASSUME IInv, UNCHANGED vars
  PROVE  IInv'
<1>1. /\ UNCHANGED <<th, writers, group, acked, pinned, mem, imm, hasImm, logfile,
                     lastSequence, nextFile, tables, logNumber, l0, bgError,
                     bgScheduled, bg, open, logs, manifest>>
      /\ UNCHANGED <<calls, faults, crashes, Imm>>
  BY DEF vars, thread, memory, work, disk, bounds, Imm
<1>2. UNCHANGED <<OnDisk, OnDiskSynced, Lost, Held>>
  BY <1>1, SameDisk DEF disk
<1>3. ThreadOK' /\ StoreOK' /\ CountOK'
  BY <1>1, TypeParts DEF IInv, ThreadOK, StoreOK, CountOK
<1>4. QueueInv' /\ OffInv' /\ FlushInv' /\ FileInv' /\ LostInv'
  BY <1>1 DEF IInv, QueueInv, OffInv, FlushInv, FileInv, LostInv
<1>5. StoreInv' /\ SyncInv'
  BY <1>1, <1>2 DEF IInv, StoreInv, SyncInv
<1>6. GroupInv' /\ NumberInv'
  BY <1>1 DEF IInv, GroupInv, NumberInv, Record, Logged, Durable, Inserted,
              Committing, Applying
<1> QED
  BY <1>3, <1>4, <1>5, <1>6, TypeParts DEF IInv

LEMMA NextStep ==
  ASSUME IInv, [Next]_vars
  PROVE  IInv'
<1>1. ASSUME NEW t \in Threads, NEW sync \in BOOLEAN, NEW null \in BOOLEAN,
             Write(t, sync, null)
      PROVE  IInv'
  BY <1>1, WriteIs, JoinStep, RoomStep
<1>2. ASSUME NEW t \in Threads, Steps(t)
      PROVE  IInv'
  <2>1. CASE Front(t)
    BY <2>1, FrontIs, RoomStep
  <2>2. CASE AddRecord(t) \/ AddRecordUnfilled(t)
    BY <2>2, AddsStep
  <2>3. CASE AddRecordFails(t)
    BY <2>3, AddRecordFailsStep
  <2>4. CASE Sync(t)
    BY <2>4, SyncStep
  <2>5. CASE SyncFails(t)
    BY <2>5, SyncFailsStep
  <2>6. CASE InsertInto(t)
    BY <2>6, InsertStep
  <2>7. CASE Publish(t)
    BY <2>7, PublishStep
  <2>8. CASE CompactMemTableWaits(t)
    BY <2>8, WaitsStep
  <2> QED
    BY <1>2, <2>1, <2>2, <2>3, <2>4, <2>5, <2>6, <2>7, <2>8 DEF Steps
<1>3. CASE Background
  BY <1>3, BackgroundCallStep, FlushFirstStep, FlushLoggedStep, FlushInstalledStep,
     FlushFailsStep, CompactionEndsStep, CompactionFailsStep DEF Background
<1>4. CASE ProcessDies \/ MachineDies
  BY <1>4, KilledStep, MachineDiesStep
<1>5. CASE Opening
  BY <1>5, KilledStep, RecoverStep, OpenStep DEF Opening
<1>6. CASE UNCHANGED vars
  BY <1>6, StutterStep
<1> QED
  BY <1>1, <1>2, <1>3, <1>4, <1>5, <1>6 DEF Next

LEMMA InitStep ==
  ASSUME Init
  PROVE  IInv
<1>1. /\ th = [t \in Threads |-> Idle] /\ writers = <<>> /\ group = NoGroup
      /\ mem = {} /\ imm = {} /\ hasImm = FALSE /\ logfile = 3 /\ nextFile = 4
      /\ logNumber = 3 /\ lastSequence = 0 /\ tables = {} /\ l0 = 0
      /\ bgError = FALSE /\ bgScheduled = FALSE /\ bg = "idle" /\ open = "open"
      /\ logs = [n \in {3} |-> NewLog]
      /\ manifest = [log |-> 3, next |-> 4, last |-> 0, tables |-> {}, l0 |-> 0,
                     end |-> "whole"]
      /\ acked = {} /\ pinned = {} /\ calls = 0 /\ faults = 0 /\ crashes = 0
  BY DEF Init
<1>2. /\ DOMAIN logs = {3} /\ logs[3] = NewLog /\ NewLog \in LogState
      /\ NewLog.recs = {} /\ NewLog.synced = {} /\ NewLog.lost = {}
  BY <1>1, NewLogIs
<1>3. Idle \in ThreadState /\ Idle.pc = "idle"
  BY DEF Idle, ThreadState
<1>4. NoGroup \in GroupState /\ NoGroup.size = 0
  BY DEF NoGroup, GroupState
<1>5. writers \in Seq(Threads) /\ Len(writers) = 0
  BY <1>1, EmptySeq
<1>6. th \in [Threads -> ThreadState] /\ \A t \in Threads : th[t].pc = "idle"
  BY <1>1, <1>3
<1>7. ThreadOK
  BY <1>1, <1>4, <1>5, <1>6 DEF ThreadOK
<1>8. StoreOK
  <2>1. manifest \in ManifestState
    BY <1>1 DEF ManifestState
  <2>2. hasImm \in BOOLEAN /\ bgError \in BOOLEAN /\ bgScheduled \in BOOLEAN
    BY <1>1
  <2>3. /\ \A n \in DOMAIN logs : /\ n \in Nat /\ logs[n] \in LogState
                                  /\ ~logs[n].damaged => logs[n].lost = {}
        /\ logfile \in DOMAIN logs
    BY <1>1, <1>2
  <2>4. /\ mem \subseteq Nat /\ imm \subseteq Nat /\ tables \subseteq Nat
        /\ logfile \in Nat /\ lastSequence \in Nat /\ nextFile \in Nat
        /\ logNumber \in Nat /\ l0 \in Nat
    BY <1>1
  <2> QED
    BY <1>1, <2>1, <2>2, <2>3, <2>4 DEF StoreOK
<1>9. CountOK
  BY <1>1 DEF CountOK
<1>10. QueueInv /\ GroupInv
  BY <1>1, <1>4, <1>6 DEF QueueInv, GroupInv, AtFront, InGroup
<1>11. OffInv /\ FlushInv
  BY <1>1 DEF OffInv, FlushInv
<1>12. FileInv /\ LostInv
  <2>1. IsFiniteSet(DOMAIN logs)
    BY <1>2, FS_Singleton
  <2> QED
    BY <1>1, <1>2, <2>1 DEF FileInv, LostInv
<1>13. StoreInv /\ SyncInv
  BY <1>1 DEF StoreInv, SyncInv, Imm
<1>14. NumberInv
  BY <1>1, <1>2 DEF NumberInv, Imm
<1> QED
  BY <1>7, <1>8, <1>9, <1>10, <1>11, <1>12, <1>13, <1>14, TypeParts DEF IInv

\* The inductive invariant of LevelDB's write path: the queue's front leads the group
\* (Write, BuildBatchGroup), a read's data is on the disk or lost behind a failed append,
\* and sequence numbers in use are the last or less but for the group's.
THEOREM Inductive ==
  Spec => []IInv
<1>1. Init => IInv
  BY InitStep
<1>2. IInv /\ [Next]_vars => IInv'
  BY NextStep
<1> QED
  BY <1>1, <1>2, PTL DEF Spec

\* Type correctness: no step of a writer, of the background thread or of DB::Open
\* gives a variable a value outside its type, or puts the batch group beyond the queue.
THEOREM TypeCorrect ==
  Spec => []TypeOK
<1>1. IInv => TypeOK
  BY DEF IInv
<1> QED
  BY <1>1, Inductive, PTL

\* A write that DBImpl::Write has acknowledged is seen by every later read, through
\* any interleaving of MakeRoomForWrite, CompactMemTable and recovery.
THEOREM ReadsSafe ==
  Spec => []AckedVisible
<1>1. IInv => AckedVisible
  BY DEF IInv, StoreInv, AckedVisible
<1> QED
  BY <1>1, Inductive, PTL

\* The manifest and the logs DeleteObsoleteFiles has left hold every acknowledged
\* write at every moment, but for those behind a failed append in a log that is still
\* needed: a crash of the process loses no other.
THEOREM DiskSafe ==
  Spec => []AckedOnDisk
<1>1. IInv => AckedOnDisk
  BY DEF IInv, StoreInv, Held, AckedOnDisk
<1> QED
  BY <1>1, Inductive, PTL

\* A write acknowledged with sync = true is in a table or in the synced part of a log
\* that recovery reads, also when another writer committed it (BuildBatchGroup), unless
\* it is behind a failed append in a log that is still needed.
THEOREM PinnedSafe ==
  Spec => []PinnedSynced
<1>1. IInv => PinnedSynced
  BY DEF IInv, SyncInv, PinnedSynced
<1> QED
  BY <1>1, Inductive, PTL

\* The sequence numbers DBImpl::Write gives to the group it is about to log are in no
\* log, memtable or table, after whatever failures and recoveries.
THEOREM Fresh ==
  Spec => []FreshSequence
<1>1. ASSUME IInv
      PROVE  FreshSequence
  <2> SUFFICES ASSUME NEW t \in Threads, th[t].pc = "append"
               PROVE  Record \cap (OnDisk \cup mem \cup Imm \cup tables) = {}
    BY DEF FreshSequence
  <2>1. \A u \in Threads : th[u].pc \in InGroup => u = t
    BY <1>1 DEF IInv, QueueInv, AtFront, InGroup
  <2>2. \A u \in Threads : th[u].pc \notin {"sync", "insert", "publish"}
    BY <2>1 DEF InGroup
  <2>3. open = "open"
    BY <1>1 DEF IInv, OffInv
  <2>4. \A s \in mem \cup Imm \cup tables : s <= lastSequence
    BY <1>1, <2>2, <2>3 DEF IInv, NumberInv, Applying, Inserted
  <2>5. \A n \in DOMAIN logs : \A r \in logs[n].recs : \A s \in r : s <= lastSequence
    BY <1>1, <2>2, <2>3 DEF IInv, NumberInv, Committing
  <2>6. \A s \in manifest.tables : s <= lastSequence
    <3>1. /\ manifest.last \in Nat /\ lastSequence \in Nat
          /\ manifest.tables \subseteq Nat
      BY <1>1, TypeParts, ManifestTypes, Types DEF IInv
    <3>2. manifest.last <= lastSequence /\ \A s \in manifest.tables : s <= manifest.last
      BY <1>1, <2>3 DEF IInv, NumberInv, FileInv
    <3> QED
      BY <3>1, <3>2
  <2>7. \A s \in OnDisk : s <= lastSequence
    BY <2>5, <2>6, OnDiskIs
  <2>8. \A s \in Record : ~(s <= lastSequence)
    <3>1. group.first = lastSequence + 1 /\ lastSequence \in Nat /\ group.last \in Nat
      BY <1>1, Types DEF IInv, GroupInv, InGroup
    <3> QED
      BY <3>1 DEF Record
  <2> QED
    BY <2>4, <2>7, <2>8
<1> QED
  BY <1>1, Inductive, PTL

-----------------------------------------------------------------------------
(* The write path implements DurableStore.                                 *)

LEMMA Unseen ==
  ASSUME open = "open", open' = "open", Visible' = Visible, pinned' = pinned,
         (Visible \cap Lost)' = Visible \cap Lost,
         logs'[logfile'].damaged = logs[logfile].damaged
  PROVE  UNCHANGED Store!storeVars
<1>1. (~logs[logfile].damaged)' = ~logs[logfile].damaged
  OBVIOUS
<1> QED
  BY <1>1 DEF Store!storeVars

\* The log in use may have been damaged, or be a new one.
LEMMA Turned ==
  ASSUME open = "open", open' = "open", Visible' = Visible, pinned' = pinned,
         (Visible \cap Lost)' = Visible \cap Lost
  PROVE  Store!Turn
BY DEF Store!Turn

LEMMA SameMemory ==
  ASSUME IInv, UNCHANGED <<mem, imm, hasImm, tables, lastSequence, logfile, pinned, open, disk>>,
         open = "open"
  PROVE  UNCHANGED Store!storeVars
<1>1. Visible' = Visible
  BY DEF Visible, Imm
<1>2. (Visible \cap Lost)' = Visible \cap Lost
  BY <1>1, SameDisk
<1>3. logs'[logfile'].damaged = logs[logfile].damaged
  BY DEF disk
<1> QED
  BY <1>1, <1>2, <1>3, Unseen

LEMMA RoomStore ==
  ASSUME IInv, NEW t, NEW q, NEW f, AtRoom(t, q, f)
  PROVE  Store!Turn \/ UNCHANGED Store!storeVars
<1>1. open = "open" /\ open' = open /\ TypeOK
  BY DEF AtRoom, IInv
<1>2. pinned' = pinned
  BY <1>1, RoomIs DEF Lead, Leave, Sleep
<1>3. CASE SwitchMemtable /\ ~hasImm
  <2>1. /\ imm' = mem /\ hasImm' = TRUE /\ mem' = {} /\ ~hasImm
        /\ logs' = WithNewLog(nextFile)
        /\ UNCHANGED <<lastSequence, tables, manifest>>
    BY <1>3 DEF SwitchMemtable
  <2>2. Visible' = Visible
    BY <2>1 DEF Visible, Imm
  <2>3. nextFile \in Nat /\ nextFile \notin DOMAIN logs
    <3>1. logfile < nextFile /\ \A n \in DOMAIN logs : n <= logfile
      BY <1>1 DEF IInv, FileInv
    <3>2. logfile \in Nat /\ nextFile \in Nat
      BY TypeParts DEF IInv, StoreOK
    <3> QED
      BY <3>1, <3>2
  <2>4. Lost' = Lost
    BY <2>1, <2>3, WithNewLogIs
  <2>5. (Visible \cap Lost)' = Visible \cap Lost
    BY <2>2, <2>4
  <2> QED
    BY <1>1, <1>2, <2>2, <2>5, Turned
<1>4. CASE UNCHANGED <<memory, work, disk>>
  BY <1>1, <1>2, <1>4, SameMemory DEF memory
<1> QED
  BY <1>1, <1>3, <1>4, RoomIs

\* A record is newer than all a read finds, in the log or lost.
LEMMA NewRecord ==
  ASSUME IInv, NEW t \in Threads, th[t].pc \in InGroup
  PROVE  \A s \in Record : ~(s <= lastSequence)
<1>1. group.first = lastSequence + 1 /\ lastSequence \in Nat /\ group.last \in Nat
  BY Types DEF IInv, GroupInv
<1> QED
  BY <1>1 DEF Record

LEMMA GrownStore ==
  ASSUME IInv, NEW t \in Threads, th[t].pc = "append", NEW l, Grown(l), LogBecomes(l),
         UNCHANGED <<open, memory, manifest, pinned>>
  PROVE  Store!Turn
<1>1. open = "open" /\ logfile \in DOMAIN logs
  BY Leading DEF InGroup
<1>2. UNCHANGED <<mem, imm, hasImm, tables, lastSequence>>
  BY DEF memory
<1>3. Visible' = Visible
  BY <1>2 DEF Visible, Imm
<1>4. /\ DOMAIN logs' = DOMAIN logs
      /\ \A n \in DOMAIN logs :
           /\ logs[n].recs \subseteq logs'[n].recs
           /\ logs'[n].recs \subseteq logs[n].recs \cup {Record}
           /\ logs[n].lost \subseteq logs'[n].lost
           /\ logs'[n].lost \subseteq logs[n].lost \cup {Record}
  BY <1>1 DEF Grown, LogBecomes
<1>5. ASSUME NEW s \in Visible
      PROVE  s \in Lost' <=> s \in Lost
  <2>1. s \notin Record
    BY <1>5, NewRecord DEF Visible, InGroup
  <2>2. \A n \in DOMAIN logs : /\ s \in UNION logs'[n].recs <=> s \in UNION logs[n].recs
                               /\ s \in UNION logs'[n].lost <=> s \in UNION logs[n].lost
    BY <1>4, <2>1
  <2>3. s \in OnDisk' <=> s \in OnDisk
    BY <1>4, <2>2, OnDiskIs
  <2> QED
    BY <1>4, <2>2, <2>3, LostIs
<1>6. (Visible \cap Lost)' = Visible \cap Lost
  BY <1>3, <1>5
<1> QED
  BY <1>1, <1>3, <1>6, Turned

LEMMA AppendStore ==
  ASSUME IInv, NEW t \in Threads,
         AddRecord(t) \/ AddRecordUnfilled(t) \/ AddRecordFails(t)
  PROVE  Store!Turn
<1>1. /\ th[t].pc = "append" /\ UNCHANGED <<open, memory, manifest, pinned>>
      /\ \E l \in Appended(logs[logfile]) \cup Appended(Damaged(logs[logfile]))
                    \cup {Found(logs[logfile]), Damaged(logs[logfile])} : LogBecomes(l)
  BY DEF AddRecord, AddRecordUnfilled, AddRecordFails, Adds
<1>2. logfile \in DOMAIN logs /\ Record \subseteq Nat
  BY <1>1, Leading DEF InGroup
<1>3. /\ logs[logfile] \in LogState
      /\ ~logs[logfile].damaged => logs[logfile].lost = {}
  BY <1>2, TypeParts DEF IInv, StoreOK
<1>4. PICK l : LogBecomes(l) /\ Grown(l)
  BY <1>1, <1>2, <1>3, GrownIs
<1> QED
  BY <1>1, <1>4, GrownStore

LEMMA SyncStore ==
  ASSUME IInv, NEW t \in Threads, Sync(t)
  PROVE  UNCHANGED Store!storeVars
<1>1. /\ th[t].pc = "sync"
      /\ logs' = [logs EXCEPT ![logfile].synced = logs[logfile].recs]
      /\ UNCHANGED <<mem, imm, hasImm, tables, lastSequence, logfile, pinned, open, manifest>>
  BY DEF Sync, memory
<1>2. open = "open" /\ logfile \in DOMAIN logs
  BY <1>1, Leading DEF InGroup
<1>3. logs[logfile] \in LogState
  BY <1>2, TypeParts DEF IInv, StoreOK
<1>4. /\ DOMAIN logs' = DOMAIN logs
      /\ \A n \in DOMAIN logs : /\ logs'[n].recs = logs[n].recs /\ logs'[n].lost = logs[n].lost
                                /\ logs'[n].damaged = logs[n].damaged
  BY <1>1, <1>2, <1>3 DEF LogState
<1>5. \A s : s \in OnDisk' <=> s \in OnDisk
  BY <1>1, <1>4, OnDiskIs
<1>6. \A s : s \in Lost' <=> s \in Lost
  BY <1>1, <1>4, <1>5, LostIs
<1>7. Visible' = Visible
  BY <1>1 DEF Visible, Imm
<1>8. (Visible \cap Lost)' = Visible \cap Lost
  BY <1>6, <1>7
<1> QED
  BY <1>1, <1>2, <1>4, <1>7, <1>8, Unseen

LEMMA InsertStore ==
  ASSUME IInv, NEW t \in Threads, InsertInto(t)
  PROVE  UNCHANGED Store!storeVars
<1>1. /\ th[t].pc = "insert" /\ mem' = mem \cup Record
      /\ UNCHANGED <<imm, hasImm, tables, lastSequence, logfile, pinned, open, disk>>
  BY DEF InsertInto
<1>2. open = "open"
  BY <1>1 DEF IInv, OffInv
<1>3. \A s \in Record : ~(s <= lastSequence)
  BY <1>1, NewRecord DEF InGroup
<1>4. Visible' = Visible
  BY <1>1, <1>3 DEF Visible, Imm
<1>5. (Visible \cap Lost)' = Visible \cap Lost
  BY <1>1, <1>4, SameDisk
<1>6. logs'[logfile'].damaged = logs[logfile].damaged
  BY <1>1 DEF disk
<1> QED
  BY <1>1, <1>2, <1>4, <1>5, <1>6, Unseen

\* The group becomes visible, or what is left of a failed one.
LEMMA PublishStore ==
  ASSUME IInv, NEW t \in Threads, Publish(t)
  PROVE  Store!Commit \/ UNCHANGED Store!storeVars
<1>1. /\ th[t].pc = "publish" /\ lastSequence' = group.last
      /\ IF group.status = "ok" THEN pinned' = pinned \cup group.pins
                                ELSE pinned' = pinned
      /\ UNCHANGED <<mem, imm, hasImm, tables, logfile, open, disk>>
  BY DEF Publish
<1>2. open = "open" /\ open' = "open"
  BY <1>1 DEF IInv, OffInv
<1>3. /\ lastSequence \in Nat /\ group.last \in Nat /\ group.first \in Nat
      /\ mem \cup Imm \cup tables \subseteq Nat
  BY Types, TypeParts DEF IInv, StoreOK, Imm
<1>4. /\ group.first = lastSequence + 1 /\ group.last >= lastSequence
      /\ group.pins \subseteq Record
      /\ group.status = "ok" => Record \subseteq mem
  BY <1>1 DEF IInv, GroupInv, InGroup, Inserted
<1>5. Visible \subseteq Visible' /\ \A s \in Visible' \ Visible, r \in Visible : r < s
  BY <1>1, <1>3, <1>4 DEF Visible, Imm
<1>6. group.status = "ok" => group.pins \subseteq Visible' \ Visible
  <2>1. \A s \in Record : s \in Nat /\ s <= group.last /\ ~(s <= lastSequence)
    BY <1>3, <1>4 DEF Record
  <2> QED
    BY <1>1, <1>4, <2>1 DEF Visible, Imm
<1>7. pinned \subseteq pinned' /\ pinned' \ pinned \subseteq Visible' \ Visible
  BY <1>1, <1>6
<1>8. Lost' = Lost /\ logs' = logs
  BY <1>1, SameDisk DEF disk
<1>9. ASSUME ~logs[logfile].damaged, NEW s \in Visible' \ Visible
      PROVE  s \notin Lost
  <2>1. s \in mem
    <3>1. \A r \in Imm \cup tables : r <= lastSequence
      BY <1>2 DEF IInv, NumberInv
    <3> QED
      BY <1>1, <1>9, <3>1 DEF Visible, Imm
  <2>2. logfile \in DOMAIN logs /\ logs[logfile].lost = {}
    BY <1>2, <1>9, TypeParts DEF IInv, StoreOK
  <2>3. s \in UNION logs[logfile].recs
    BY <1>2, <2>1, <2>2 DEF IInv, StoreInv
  <2>4. \A n \in DOMAIN logs : s \notin UNION logs[n].lost
    BY <2>2, <2>3 DEF IInv, LostInv
  <2> QED
    BY <2>4, LostIs
<1>10. CASE Visible' = Visible
  <2>1. pinned' = pinned
    BY <1>7, <1>10
  <2>2. (Visible \cap Lost)' = Visible \cap Lost
    BY <1>8, <1>10
  <2>3. logs'[logfile'].damaged = logs[logfile].damaged
    BY <1>1, <1>8
  <2> QED
    BY <1>2, <1>10, <2>1, <2>2, <2>3, Unseen
<1>11. CASE Visible' # Visible
  <2>1. /\ Visible \cap Lost \subseteq (Visible \cap Lost)'
        /\ (Visible \cap Lost)' \ (Visible \cap Lost) \subseteq
             IF ~logs[logfile].damaged THEN {} ELSE Visible' \ Visible
    BY <1>5, <1>8, <1>9
  <2>2. (~logs[logfile].damaged)' = ~logs[logfile].damaged
    BY <1>1, <1>8
  <2> QED
    BY <1>2, <1>5, <1>7, <1>11, <2>1, <2>2 DEF Store!Commit
<1> QED
  BY <1>10, <1>11

\* Everything a read finds, every acknowledged write with it, is on the disk, or lost.
LEMMA VisibleHeld ==
  ASSUME IInv, open = "open"
  PROVE  Visible \subseteq Held /\ pinned \subseteq Visible
<1>1. /\ mem \subseteq UNION (logs[logfile].recs \cup logs[logfile].lost)
      /\ Imm \subseteq Held /\ tables \subseteq Held
      /\ logfile \in DOMAIN logs /\ manifest.log <= logfile
  BY DEF IInv, StoreInv, FileInv
<1>2. logfile \in Nat /\ manifest.log \in Nat
  BY TypeParts, ManifestTypes DEF IInv, StoreOK
<1>3. logfile >= manifest.log
  BY <1>1, <1>2
<1>4. mem \subseteq Held
  BY <1>1, <1>3, HeldIs
<1>5. /\ pinned \subseteq acked /\ acked \subseteq mem \cup Imm \cup tables
      /\ \A s \in acked : s <= lastSequence
  BY DEF IInv, SyncInv, StoreInv, NumberInv
<1> QED
  BY <1>1, <1>4, <1>5 DEF Visible

\* The background thread only adds tables and deletes logs.
LEMMA BackgroundDisk ==
  ASSUME IInv, Background
  PROVE  /\ manifest.tables \subseteq manifest'.tables
         /\ DOMAIN logs' \subseteq DOMAIN logs
         /\ \A n \in DOMAIN logs' : logs'[n] = logs[n]
<1>1. manifest \in ManifestState
  BY TypeParts DEF IInv, StoreOK
<1>2. \A files : manifest.tables \subseteq Edit(files).tables
  BY DEF Edit
<1>3. CompactionEdit.tables = manifest.tables
  BY <1>1 DEF CompactionEdit, ManifestState
<1>4. [manifest EXCEPT !.end = "cut"].tables = manifest.tables
  BY <1>1 DEF ManifestState
<1>5. \A e : manifest.tables \subseteq e.tables =>
        \A m \in EditFailed(e) : manifest.tables \subseteq m.tables
  BY <1>1, EditsAre
<1>6. \/ manifest' = manifest \/ manifest' \in EditFailed(CompactionEdit)
      \/ \E files \in Level0Files : manifest' \in EditFailed(Edit(files))
  <2>1. \A e : EditLogged(e) \subseteq EditFailed(e)
    BY <1>1, EditsAre
  <2> QED
    BY <2>1 DEF Background, BackgroundCall, FlushFirst, FlushLogged, FlushInstalled,
                FlushFails, CompactionEnds, CompactionFails, disk
<1>7. manifest.tables \subseteq manifest'.tables
  BY <1>2, <1>3, <1>5, <1>6
<1>8. logs' = logs \/ \E from : logs' = Kept(from)
  BY DEF Background, BackgroundCall, FlushFirst, FlushLogged, FlushInstalled,
         FlushFails, CompactionEnds, CompactionFails, disk
<1> QED
  BY <1>7, <1>8, KeptIs

LEMMA BackgroundStore ==
  ASSUME IInv, Background
  PROVE  Store!Secure
<1>1. open = "open" /\ open' = open /\ UNCHANGED <<pinned, logfile>>
  <2>1. open' = open /\ UNCHANGED <<pinned, logfile>>
    BY DEF Background, BackgroundCall, FlushFirst, FlushLogged, FlushInstalled,
           FlushFails, CompactionEnds, CompactionFails, Ends, thread, memory
  <2>2. bg # "idle" \/ bgScheduled
    BY DEF Background, BackgroundCall, FlushFirst, FlushLogged, FlushInstalled,
           FlushFails, CompactionEnds, CompactionFails, Flushing
  <2> QED
    BY <2>1, <2>2 DEF IInv, OffInv
<1>2. Visible' = Visible
  <2>1. CASE FlushInstalled
    <3>1. /\ bg \in {"install", "compactInstall"} /\ tables' = tables \cup imm
          /\ imm' = {} /\ hasImm' = FALSE /\ UNCHANGED <<mem, lastSequence>>
      BY <2>1 DEF FlushInstalled
    <3>2. hasImm
      BY <3>1 DEF IInv, FlushInv
    <3> QED
      BY <3>1, <3>2 DEF Visible, Imm
  <2>2. CASE ~FlushInstalled
    <3>1. UNCHANGED <<mem, imm, hasImm, tables, lastSequence>>
      BY <2>2 DEF Background, BackgroundCall, FlushFirst, FlushLogged, FlushFails,
                  CompactionEnds, CompactionFails, memory
    <3> QED
      BY <3>1 DEF Visible, Imm
  <2> QED
    BY <2>1, <2>2
<1>3. /\ manifest.tables \subseteq manifest'.tables
      /\ DOMAIN logs' \subseteq DOMAIN logs
      /\ \A n \in DOMAIN logs' : logs'[n] = logs[n]
  BY BackgroundDisk
<1>4. ASSUME NEW s \in Visible, s \in Lost'
      PROVE  s \in Lost
  <2>1. PICK n \in DOMAIN logs' : s \in UNION logs'[n].lost
    BY <1>4, LostIs
  <2>2. n \in DOMAIN logs /\ s \in UNION logs[n].lost
    BY <1>3, <2>1
  <2>3. \A m \in DOMAIN logs : s \notin UNION logs[m].recs
    BY <2>2 DEF IInv, LostInv
  <2>4. s \notin manifest.tables
    BY <1>3, <1>4, LostIs, OnDiskIs
  <2>5. s \notin OnDisk
    BY <2>3, <2>4, OnDiskIs
  <2> QED
    BY <1>1, <2>5, VisibleHeld DEF Held
<1>5. (Visible \cap Lost)' \subseteq Visible \cap Lost
  BY <1>2, <1>4
<1>6. logs'[logfile'] = logs[logfile]
  <2>1. IInv'
    BY NextStep DEF Next
  <2>2. logfile' \in DOMAIN logs'
    BY <1>1, <2>1 DEF IInv, FileInv
  <2> QED
    BY <1>1, <1>3, <2>2
<1>7. (~logs[logfile].damaged)' = ~logs[logfile].damaged
  BY <1>6
<1> QED
  BY <1>1, <1>2, <1>5, <1>7 DEF Store!Secure

\* What a crash takes away at most, seen from the open store and from a closed one.
LEMMA CrashStore ==
  ASSUME IInv, open' = "closed", pinned' = pinned \ Lost, pinned' \subseteq OnDisk',
         PowerLoss \/ OnDisk \subseteq OnDisk'
  PROVE  Store!Crash
<1>1. CASE open = "open"
  <2>1. Visible \subseteq Held /\ pinned \subseteq Visible
    BY <1>1, VisibleHeld
  <2>2. pinned' = pinned \ (Visible \cap Lost)
    BY <2>1
  <2>3. PowerLoss \/ Visible \ (Visible \cap Lost) \subseteq OnDisk'
    BY <2>1 DEF Held
  <2> QED
    BY <1>1, <2>2, <2>3 DEF Store!Crash
<1>2. CASE open # "open"
  <2>1. Lost = {}
    BY <1>2, NoneLost DEF IInv
  <2> QED
    BY <1>2, <2>1 DEF Store!Crash
<1> QED
  BY <1>1, <1>2

LEMMA KilledStore ==
  ASSUME IInv, ProcessDies \/ OpenFails
  PROVE  Store!Crash
<1>1. open' = "closed" /\ pinned' = pinned \ Lost
  BY DEF ProcessDies, OpenFails, Forgets
<1>2. OnDisk' = OnDisk
  BY KilledDisk
<1>3. pinned \subseteq OnDisk \cup Lost
  BY DEF IInv, SyncInv, StoreInv, Held
<1> QED
  BY <1>1, <1>2, <1>3, CrashStore

LEMMA MachineDiesStore ==
  ASSUME IInv, MachineDies
  PROVE  Store!Crash
<1>1. open' = "closed" /\ pinned' = pinned \ Lost /\ PowerLoss
  BY DEF MachineDies, Forgets
<1>2. pinned \subseteq OnDiskSynced \cup Lost
  BY DEF IInv, SyncInv
<1>3. OnDiskSynced \subseteq OnDisk'
  BY MachineDiesDisk
<1> QED
  BY <1>1, <1>2, <1>3, CrashStore

LEMMA RecoverStore ==
  ASSUME IInv, Recover
  PROVE  UNCHANGED Store!storeVars
<1>1. /\ open = "closed" /\ open' = "opening" /\ pinned' = pinned
      /\ tables' = manifest.tables \cup Replays
  BY DEF Recover, thread
<1>2. tables' = OnDisk'
  BY <1>1, RecoverStep DEF IInv, StoreInv
<1>3. manifest.tables \cup Replays = OnDisk
  <2>1. \A s : s \in Replays <=>
          \E n \in DOMAIN logs : n >= manifest.log /\ s \in UNION logs[n].recs
    BY DEF Replays, Replayed
  <2> QED
    BY <2>1, OnDiskIs
<1> QED
  BY <1>1, <1>2, <1>3 DEF Store!storeVars

LEMMA OpenStore ==
  ASSUME IInv, Open
  PROVE  Store!Start
<1>1. /\ open = "opening" /\ open' = "open" /\ pinned' = pinned /\ logs' = Kept(logfile)
      /\ UNCHANGED <<mem, imm, hasImm, tables, lastSequence, logfile>>
  BY DEF Open, thread
<1>2. /\ mem = {} /\ ~hasImm /\ tables = OnDisk /\ \A s \in tables : s <= lastSequence
      /\ logs[logfile] = NewLog /\ logfile \in DOMAIN logs
      /\ \A n \in DOMAIN logs : logs[n].lost = {}
  BY <1>1 DEF IInv, OffInv, StoreInv, NumberInv, FileInv, LostInv
<1>3. Visible' = OnDisk
  BY <1>1, <1>2 DEF Visible, Imm
<1>4. Lost' = {}
  BY <1>1, <1>2, KeptIs, LostIs
<1>5. logs'[logfile'] = NewLog
  <2>1. logfile \in Nat
    BY TypeParts DEF IInv, StoreOK
  <2>2. logfile \in DOMAIN logs'
    BY <1>1, <1>2, <2>1, KeptIs
  <2> QED
    BY <1>1, <1>2, <2>2, KeptIs
<1>6. (~logs[logfile].damaged)' = TRUE
  BY <1>5, NewLogIs
<1>7. (Visible \cap Lost)' = {}
  BY <1>4
<1> QED
  BY <1>1, <1>3, <1>6, <1>7 DEF Store!Start

LEMMA StoreStep ==
  ASSUME IInv, [Next]_vars
  PROVE  Store!Next \/ UNCHANGED Store!storeVars
<1>1. ASSUME NEW t \in Threads, NEW sync \in BOOLEAN, NEW null \in BOOLEAN,
             Write(t, sync, null)
      PROVE  Store!Turn \/ UNCHANGED Store!storeVars
  <2>1. CASE Joins(t)
    BY <2>1, SameMemory DEF Joins, memory
  <2> QED
    BY <1>1, <2>1, WriteIs, RoomStore
<1>2. ASSUME NEW t \in Threads, Steps(t)
      PROVE  Store!Commit \/ Store!Turn \/ UNCHANGED Store!storeVars
  <2>1. CASE Front(t)
    BY <2>1, FrontIs, RoomStore
  <2>2. CASE AddRecord(t) \/ AddRecordUnfilled(t) \/ AddRecordFails(t)
    BY <2>2, AppendStore
  <2>3. CASE SyncFails(t) \/ CompactMemTableWaits(t)
    <3>1. /\ th[t].pc # "idle"
          /\ UNCHANGED <<mem, imm, hasImm, tables, lastSequence, logfile, pinned, open, disk>>
      BY <2>3 DEF SyncFails, CompactMemTableWaits, memory
    <3> QED
      BY <3>1, SameMemory DEF IInv, OffInv
  <2> QED
    BY <1>2, <2>1, <2>2, <2>3, SyncStore, InsertStore, PublishStore DEF Steps
<1>3. CASE Background
  BY <1>3, BackgroundStore DEF Store!Next
<1>4. CASE ProcessDies \/ MachineDies \/ Opening
  BY <1>4, KilledStore, MachineDiesStore, RecoverStore, OpenStore
     DEF Opening, Store!Next
<1>5. CASE UNCHANGED vars
  <2>1. UNCHANGED <<mem, imm, hasImm, tables, lastSequence, logfile, pinned, open, disk>>
    BY <1>5 DEF vars, thread, memory
  <2>2. UNCHANGED <<Visible, OnDisk, Lost>>
    BY <2>1, SameDisk DEF Visible, Imm
  <2>3. (~logs[logfile].damaged)' = ~logs[logfile].damaged
    BY <2>1 DEF disk
  <2> QED
    BY <2>1, <2>2, <2>3 DEF Store!storeVars
<1> QED
  BY <1>1, <1>2, <1>3, <1>4, <1>5 DEF Next, Store!Next

\* LevelDB's write path implements DurableStore, whatever fails: its reads grow by whole
\* groups of writes, newer than all before them; a crash of the process takes nothing
\* away that a read could find, and a crash of the machine nothing written with
\* sync = true, but for writes that came into a log behind a failed append to it and
\* were in no table yet.
THEOREM Refinement ==
  Spec => Implements
<1>1. Init => Store!Init
  <2>1. ASSUME Init PROVE Store!Init
    <3>1. /\ mem = {} /\ tables = {} /\ ~hasImm /\ pinned = {} /\ open = "open"
          /\ logfile = 3 /\ logs = [n \in {3} |-> NewLog]
      BY <2>1 DEF Init
    <3>2. Visible = {} /\ ~logs[logfile].damaged
      BY <3>1, NewLogIs DEF Visible, Imm
    <3> QED
      BY <3>1, <3>2 DEF Store!Init
  <2> QED
    BY <2>1
<1>2. IInv /\ [Next]_vars => [Store!Next]_(Store!storeVars)
  BY StoreStep
<1> QED
  BY <1>1, <1>2, Inductive, PTL DEF Spec, Implements, Store!Spec
=============================================================================
