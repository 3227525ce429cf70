------------------------- MODULE LevelDBCompaction -------------------------
(***************************************************************************)
(* The levels of LevelDB: reads under snapshots, flushes of the memtable   *)
(* into a level, compactions picked by size or seeks, compactions asked    *)
(* for by CompactRange, and the rule by which a compaction drops entries.  *)
(*                                                                         *)
(* A file is the set of its entries.  Sizes are left out: where the code   *)
(* compares one with a limit, the model may go either way.  Compactions    *)
(* and flushes are done by one background thread; a flush may come in the  *)
(* middle of a compaction.                                                 *)
(***************************************************************************)
EXTENDS Naturals, Sequences, FiniteSets, SequencesExt, Filters

CONSTANTS MaxKey,         \* user keys are 1..MaxKey
          NumLevels,      \* config::kNumLevels
          MaxMemCompactLevel,   \* config::kMaxMemCompactLevel
          SplitKeys,      \* may a file end between two entries of one key?
          Deletions,      \* the kinds of write: deletions, or not
          MaxWrites, MaxSnapshots, MaxManual    \* bounds

ASSUME LevelAssumption == /\ NumLevels \in Nat /\ NumLevels > 1
                          /\ MaxMemCompactLevel \in 0..NumLevels - 1
ASSUME KindAssumption == SplitKeys \in BOOLEAN /\ Deletions \subseteq BOOLEAN
ASSUME BoundAssumption == {MaxKey, MaxWrites, MaxSnapshots, MaxManual} \subseteq Nat

VARIABLES mem, imm, hasImm,    \* mem_ and imm_
          lastSequence,        \* versions_->LastSequence()
          snapshots,           \* snapshots_, as their numbers
          level0,              \* files_[0] of the current version, oldest first
          deeper,              \* files_[1], files_[2], ...
          compaction,          \* the compaction under way, or None
          manual,              \* CompactRange's progress, or None
          manuals              \* calls of CompactRange so far

memtables == <<mem, imm, hasImm>>
version   == <<level0, deeper>>
vars == <<memtables, lastSequence, snapshots, version, compaction, manual, manuals>>

Keys  == 1..MaxKey
Entry == [key : Keys, seq : 1..MaxWrites, del : BOOLEAN]
File  == (SUBSET Entry) \ {{}}
None  == [level |-> NumLevels]

Init == /\ mem = {} /\ imm = {} /\ hasImm = FALSE
        /\ lastSequence = 0 /\ snapshots = {}
        /\ level0 = <<>> /\ deeper = [l \in 1..NumLevels - 1 |-> {}]
        /\ compaction = None /\ manual = None /\ manuals = 0

-----------------------------------------------------------------------------
(* Internal keys and ranges.                                               *)

\* InternalKeyComparator: by user key, the newest entry of a key first.
Precedes(e, f) == e.key < f.key \/ (e.key = f.key /\ e.seq > f.seq)

Smallest(file) == CHOOSE e \in file : \A f \in file \ {e} : Precedes(e, f)
Largest(file)  == CHOOSE e \in file : \A f \in file \ {e} : Precedes(f, e)

\* The user keys of a file that are first and last.
From(file) == Smallest(file).key
To(file)   == Largest(file).key

Files(l) == IF l = 0 THEN ToSet(level0) ELSE deeper[l]

Touches(file, lo, hi) == From(file) <= hi /\ To(file) >= lo

\* Of level 0, also the files that overlap a file already taken.
Closed(taken, lo, hi) ==
  \A f \in ToSet(level0) \ taken :
    /\ ~Touches(f, lo, hi)
    /\ taken # {} => ~Touches(f, From(UNION taken), To(UNION taken))

GetOverlappingInputs(l, lo, hi) ==
  {f \in Files(l) :
     IF l = 0
     THEN \A taken \in SUBSET ToSet(level0) : Closed(taken, lo, hi) => f \in taken
     ELSE Touches(f, lo, hi)}

OverlapInLevel(l, file) == \E f \in Files(l) : Touches(f, From(file), To(file))

-----------------------------------------------------------------------------
(* Reads.                                                                  *)

\* Below level 0 only one file can hold the key: FindFile's, the first that does
\* not end before the entry looked for.
Ends(f, k, s) == To(f) < k \/ (To(f) = k /\ Largest(f).seq > s)
FoundIn(l, k, s) ==
  {f \in deeper[l] : /\ ~Ends(f, k, s) /\ From(f) <= k
                     /\ \A g \in deeper[l] \ {f} :
                          Ends(g, k, s) \/ Precedes(Largest(f), Largest(g))}

\* The entries a read could stop at, with the place each is in: Get looks in mem_,
\* imm_, the files of level 0 from the newest, and the other levels, in this order.
Hits(place, S, k, s) == {[place |-> place, seq |-> e.seq, del |-> e.del] :
                           e \in {x \in S : x.key = k /\ x.seq <= s}}
NoHit == [place |-> Len(level0) + NumLevels + 3, seq |-> 0, del |-> FALSE]
Candidates(k, s) ==
  Hits(1, mem, k, s) \cup Hits(2, imm, k, s)
    \cup (UNION {Hits(3 + Len(level0) - i, level0[i], k, s) : i \in DOMAIN level0})
    \cup (UNION {Hits(3 + Len(level0) + l, UNION FoundIn(l, k, s), k, s) :
                   l \in 1..NumLevels - 1})
    \cup {NoHit}

\* The number of the write a read returns, or 0: the newest entry it may see in
\* the first place that has one.
FirstHit(hits) == CHOOSE c \in hits : \A d \in hits \ {c} :
                    c.place < d.place \/ (c.place = d.place /\ c.seq > d.seq)
Get(k, s) == IF FirstHit(Candidates(k, s)).del THEN 0
             ELSE FirstHit(Candidates(k, s)).seq

-----------------------------------------------------------------------------
(* The user's calls.                                                       *)

Write(k, del) ==
  /\ lastSequence < MaxWrites
  /\ lastSequence' = lastSequence + 1
  /\ mem' = mem \cup {[key |-> k, seq |-> lastSequence + 1, del |-> del]}
  /\ UNCHANGED <<imm, hasImm, snapshots, version, compaction, manual, manuals>>

GetSnapshot ==
  /\ Cardinality(snapshots) < MaxSnapshots
  /\ snapshots' = snapshots \cup {lastSequence}
  /\ UNCHANGED <<memtables, lastSequence, version, compaction, manual, manuals>>

ReleaseSnapshot(s) ==
  /\ s \in snapshots
  /\ snapshots' = snapshots \ {s}
  /\ UNCHANGED <<memtables, lastSequence, version, compaction, manual, manuals>>

\* MakeRoomForWrite, when the memtable is full.
SwitchMemtable ==
  /\ ~hasImm /\ mem # {}
  /\ imm' = mem /\ hasImm' = TRUE /\ mem' = {}
  /\ UNCHANGED <<lastSequence, snapshots, version, compaction, manual, manuals>>

-----------------------------------------------------------------------------
(* CompactMemTable, by the background thread or in the middle of a         *)
(* compaction.                                                             *)

\* Mutant: only level 0 is looked at on the way down.
PickLevelUnseen(table) == IF OverlapInLevel(0, table) THEN {0} ELSE 0..MaxMemCompactLevel

\* The levels PickLevelForMemTableOutput may choose: down through levels the
\* table does not overlap, ending above one it does, or where it overlaps too
\* much two levels down.
PickLevel(table) ==
  {l \in 0..MaxMemCompactLevel :
     /\ l > 0 => \A j \in 0..l : ~OverlapInLevel(j, table)
     /\ \/ OverlapInLevel(0, table)
        \/ l = MaxMemCompactLevel
        \/ OverlapInLevel(l + 1, table)
        \/ l + 2 < NumLevels /\ OverlapInLevel(l + 2, table)}

CompactMemTable ==
  /\ hasImm
  /\ \E l \in PickLevel(imm) :
       IF l = 0
       THEN level0' = Append(level0, imm) /\ UNCHANGED deeper
       ELSE deeper' = [deeper EXCEPT ![l] = @ \cup {imm}] /\ UNCHANGED level0
  /\ imm' = {} /\ hasImm' = FALSE
  /\ UNCHANGED <<mem, lastSequence, snapshots, compaction, manual, manuals>>

-----------------------------------------------------------------------------
(* Compactions.                                                            *)

\* SetupOtherInputs: the files of the next level under the chosen ones, and
\* more of this level, if it does not take more of the next (and is not too big).
Inputs(l, chosen) ==
  LET Under(fs) == GetOverlappingInputs(l + 1, From(UNION fs), To(UNION fs))
      in1  == Under(chosen)
      all  == UNION (chosen \cup in1)
      more == GetOverlappingInputs(l, From(all), To(all))
      grows == /\ in1 # {}
               /\ Cardinality(more) > Cardinality(chosen)
               /\ Cardinality(Under(more)) = Cardinality(in1)
  IN {<<chosen, in1>>} \cup (IF grows THEN {<<more, Under(more)>>} ELSE {})

Grandparents(l, in) ==
  IF l + 2 < NumLevels
  THEN GetOverlappingInputs(l + 2, From(UNION (in[1] \cup in[2])),
                                   To(UNION (in[1] \cup in[2])))
  ELSE {}

\* Keys for which the compaction is not at their base level: a file further
\* down may hold them.
Covered(l) == {k \in Keys : \E j \in l + 2..NumLevels - 1 :
                              \E f \in deeper[j] : Touches(f, k, k)}

\* Mutant: snapshots are not looked at.
SmallestSnapshotNone == lastSequence

SmallestSnapshot == IF snapshots = {} THEN lastSequence
                    ELSE CHOOSE s \in snapshots : \A t \in snapshots : s <= t

Started(l, in, end) == [level |-> l, in |-> in, covered |-> Covered(l),
                        smallest |-> SmallestSnapshot, end |-> end]

\* The version without the files `gone', and with `new' at level l.
Apply(gone, l, new) ==
  /\ level0' = Among(level0, ToSet(level0) \ gone)
  /\ deeper' = [j \in DOMAIN deeper |->
                  (deeper[j] \ gone) \cup (IF j = l THEN new ELSE {})]

Idle == compaction = None /\ ~hasImm

\* Mutant: a file of level 0 is compacted without those that overlap it.
PickedAlone(l, f) == {f}

\* A compaction for a level's size or a file's seeks may take any file, at level 0
\* with all that overlap it.
Picked(l, f) == IF l = 0 THEN GetOverlappingInputs(0, From(f), To(f)) ELSE {f}

\* One file with nothing under it is moved,
\* unless too much lies two levels down.
PickCompaction ==
  /\ Idle
  /\ \E l \in 0..NumLevels - 2 : \E f \in Files(l) :
       \E in \in Inputs(l, Picked(l, f)) :
         \/ /\ Cardinality(in[1]) = 1 /\ in[2] = {}
            /\ Apply(in[1], l + 1, in[1])
            /\ UNCHANGED compaction
         \/ /\ Cardinality(in[1]) > 1 \/ in[2] # {} \/ Grandparents(l, in) # {}
            /\ compaction' = Started(l, in, 0)
            /\ UNCHANGED version
  /\ UNCHANGED <<memtables, lastSequence, snapshots, manual, manuals>>

\* Hidden by a newer entry that every snapshot sees, or a deletion with nothing
\* left to delete.
Dropped(e, merged) ==
  \/ \E f \in merged : f.key = e.key /\ f.seq > e.seq /\ f.seq <= compaction.smallest
  \/ e.del /\ e.seq <= compaction.smallest /\ e.key \notin compaction.covered

\* The ways to cut what is kept into files, in order.
Outputs(kept) ==
  LET cuts == {e \in kept : \E f \in kept :
                 Precedes(f, e) /\ (SplitKeys \/ \A g \in kept : g.key = e.key => g.seq <= e.seq)}
      Part(C, e) == Cardinality({c \in C : ~Precedes(e, c)})
  IN {{{f \in kept : Part(C, f) = Part(C, e)} : e \in kept} : C \in SUBSET cuts}

DoCompactionWork ==
  LET in     == compaction.in[1] \cup compaction.in[2]
      merged == UNION in
      kept   == {e \in merged : ~Dropped(e, merged)}
  IN /\ compaction # None
     /\ \E new \in Outputs(kept) : Apply(in, compaction.level + 1, new)
     /\ compaction' = None
     /\ manual' = IF compaction.end = 0 THEN manual
                  ELSE [manual EXCEPT !.from = compaction.end]
     /\ UNCHANGED <<memtables, lastSequence, snapshots, manuals>>

-----------------------------------------------------------------------------
(* CompactRange: level after level, from the top to the last with files in *)
(* the range.                                                              *)

CompactRange(lo, hi) ==
  LET withFiles == {l \in 1..NumLevels - 1 : \E f \in deeper[l] : Touches(f, lo, hi)}
  IN /\ manual = None /\ manuals < MaxManual
     /\ manuals' = manuals + 1
     /\ manual' = [level |-> 0, lo |-> lo, hi |-> hi, from |-> lo,
                   last |-> CHOOSE m \in withFiles \cup {1} :
                              \A l \in withFiles : l <= m]
     /\ UNCHANGED <<memtables, lastSequence, snapshots, version, compaction>>

\* In the order of files_: where the range of files that are too much is cut.
FirstFiles(fs) ==
  {p \in (SUBSET fs) \ {{}} :
     \A f \in p, g \in fs \ p : Precedes(Smallest(f), Smallest(g))}

LastFile(fs) == CHOOSE f \in fs :
                  \A g \in fs \ {f} : Precedes(Smallest(g), Smallest(f))

\* Mutant: the last level is compacted too.
NextLevelToo(m) == IF m.level < m.last
                   THEN [m EXCEPT !.level = @ + 1, !.from = m.lo] ELSE None

NextLevel(m) == IF m.level + 1 < m.last
                THEN [m EXCEPT !.level = @ + 1, !.from = m.lo] ELSE None

\* One piece of it, by the background thread; a level without files is done.
ManualCompaction ==
  LET l  == manual.level
      fs == GetOverlappingInputs(l, manual.from, manual.hi)
  IN /\ manual # None /\ Idle
     /\ IF fs = {}
        THEN /\ manual' = NextLevel(manual)
             /\ UNCHANGED compaction
        ELSE /\ \E p \in IF l = 0 THEN {fs} ELSE FirstFiles(fs) :
                  \E in \in Inputs(l, p) :
                    compaction' = Started(l, in, To(LastFile(in[1])))
             /\ UNCHANGED manual
     /\ UNCHANGED <<memtables, lastSequence, snapshots, version, manuals>>

-----------------------------------------------------------------------------
Next == \/ \E k \in Keys, del \in Deletions : Write(k, del)
        \/ GetSnapshot
        \/ \E s \in snapshots : ReleaseSnapshot(s)
        \/ SwitchMemtable
        \/ CompactMemTable
        \/ PickCompaction
        \/ DoCompactionWork
        \/ \E lo, hi \in Keys : lo <= hi /\ CompactRange(lo, hi)
        \/ ManualCompaction

Spec == Init /\ [][Next]_vars
-----------------------------------------------------------------------------
(* Properties.                                                             *)

\* Every variable has a value of its type; no file is empty, a compaction has files
\* to compact, and CompactRange stays on levels it may compact.
TypeOK ==
  /\ mem \subseteq Entry /\ imm \subseteq Entry /\ hasImm \in BOOLEAN
  /\ lastSequence \in 0..MaxWrites /\ snapshots \subseteq 0..MaxWrites
  /\ level0 \in Seq(File) /\ deeper \in [1..NumLevels - 1 -> SUBSET File]
  /\ compaction # None =>
       compaction \in [level : 0..NumLevels - 2,
                       in : ((SUBSET File) \ {{}}) \X SUBSET File,
                       covered : SUBSET Keys, smallest : 0..MaxWrites, end : 0..MaxKey]
  /\ manual # None =>
       manual \in [level : 0..NumLevels - 2, lo : Keys, hi : Keys, from : Keys,
                   last : 1..NumLevels - 1]
  /\ manuals \in 0..MaxManual

\* The files of a level below level 0 do not overlap, which MaybeAddFile asserts
\* and Get's binary search relies on, also when the memtable was flushed past
\* level 0 while a compaction into that level was under way.
LevelsDisjoint ==
  \A l \in 1..NumLevels - 1 : \A f, g \in deeper[l] :
    f # g => Precedes(Largest(f), Smallest(g)) \/ Precedes(Largest(g), Smallest(f))

\* "Entries never hop across levels" (Version::Get): what is found further up is
\* newer than anything about the same key further down.
Layers == <<mem, imm>> \o Reverse(level0) \o [l \in 1..NumLevels - 1 |-> UNION deeper[l]]

NewestAbove ==
  LET layers == Layers
  IN \A i, j \in DOMAIN layers :
       i < j => \A e \in layers[i], f \in layers[j] : e.key = f.key => e.seq > f.seq

\* What Get returns, now and under every snapshot, changes only when the user
\* writes: flushes and compactions lose nothing a snapshot can see and bring
\* nothing back.
Store == INSTANCE KeyValueStore
         WITH Values <- 0..MaxWrites,
              value <- [k \in Keys |-> Get(k, lastSequence)],
              views <- [s \in snapshots |-> [k \in Keys |-> Get(k, s)]]
Implements == Store!Spec
=============================================================================
