----------------------------- MODULE LogFormat -----------------------------
(***************************************************************************)
(* LevelDB's log files: how log::Writer cuts records into fragments that   *)
(* fit the blocks, what a failed append or a crash leaves of them, and     *)
(* what log::Reader makes of it.  The manifest has the same format.        *)
(*                                                                         *)
(* A file is a sequence of cells, one for a byte: the fragment it belongs  *)
(* to and its place there.  A checksum is right when all the cells of a    *)
(* fragment are there, one after the other.                                *)
(***************************************************************************)
EXTENDS Naturals, Sequences

CONSTANTS Block, Header,     \* kBlockSize, kHeaderSize
          Lengths,           \* the lengths of records
          ReuseLogs,         \* options_.reuse_logs
          FaultsWhileOpen,   \* may an append fail and the writer go on?
          MaxRecords, MaxReopens    \* bounds

ASSUME SizeAssumption == /\ Header \in Nat \ {0} /\ Block \in Nat /\ Block > Header
                         /\ Lengths \subseteq Nat
ASSUME FlagAssumption == ReuseLogs \in BOOLEAN /\ FaultsWhileOpen \in BOOLEAN
ASSUME BoundAssumption == MaxRecords \in Nat /\ MaxReopens \in Nat

VARIABLES file,          \* the cells written so far
          state,         \* the writer is "idle" or "adding" a record, or there is none
                         \* and a reader is "reading" the log or has "read" it
          blockOffset,   \* block_offset_
          left, frags,   \* AddRecord's left, and how many fragments it has emitted
          records,       \* the lengths of the records ever handed to the writer
          acked,         \* those it returned OK for, without those a power loss took
          tail,          \* is the end of the file "whole", "torn", or has a torn
                         \* one been written on, "buried"?
          intact,         \* so many of its cells come before what was written behind
                         \* a torn end
          reopens,
          pos, end, eof, \* buffer_ is file[pos + 1 .. end]; end_of_buffer_offset_, eof_
          scratch,       \* the fragments of the record being put together
          read           \* the records ReadRecord has returned

writer == <<blockOffset, left, frags, records, acked, reopens>>
reader == <<pos, end, eof, scratch, read>>
vars   == <<file, state, writer, tail, intact, reader>>

\* A fragment: number `frag' of record `id', with the bytes from `from' on.
Fragment == [id : Nat, frag : Nat, from : Nat, len : Nat,
             type : {"zero", "full", "first", "middle", "last"}]
Cell     == [of : Fragment, at : Nat]

NoFragment == [id |-> 0, frag |-> 0, from |-> 0, len |-> 0, type |-> "zero"]
Zero       == [of |-> NoFragment, at |-> 0]

Lesser(a, b) == IF a < b THEN a ELSE b

Init == /\ file = <<>> /\ state = "idle" /\ blockOffset = 0
        /\ left = 0 /\ frags = 0
        /\ records = <<>> /\ acked = {} /\ tail = "whole" /\ intact = 0 /\ reopens = 0
        /\ pos = 0 /\ end = 0 /\ eof = FALSE /\ scratch = <<>> /\ read = <<>>

-----------------------------------------------------------------------------
(* Writer::AddRecord: one pass of its loop is one action.                  *)

Type(begin, last) == CASE begin /\ last -> "full"   [] begin /\ ~last  -> "first"
                       [] ~begin /\ last -> "last"  [] ~begin /\ ~last -> "middle"

\* Mutant: the trailer of a block is not filled.
FillUnwritten == 0

\* A block with no room for a header is filled up, and the next one begins.
Room  == Block - blockOffset
Fill  == IF Room < Header THEN Room ELSE 0
Start == IF Room < Header THEN 0 ELSE blockOffset
Taken == Lesser(left, Block - Start - Header)

Current == [id |-> Len(records), frag |-> frags + 1,
            from |-> records[Len(records)] - left, len |-> Taken,
            type |-> Type(frags = 0, Taken = left)]

Zeros(n)    == [i \in 1..n |-> Zero]
Cells(f, n) == [i \in 1..n |-> [of |-> f, at |-> i - 1]]
Size(f)     == Header + f.len

\* Mutant: a new block does not begin at offset 0.
OffsetUnwrapped == blockOffset + Fill + Size(Current)

OffsetAfter == Start + Size(Current)

\* AddRecord's locals are gone.
NoRecord == left' = 0 /\ frags' = 0

AddRecord(n) ==
  /\ state = "idle" /\ state' = "adding"
  /\ Len(records) < MaxRecords
  /\ records' = Append(records, n) /\ left' = n /\ frags' = 0
  /\ UNCHANGED <<file, blockOffset, acked, tail, intact, reopens, reader>>

\* g cells of the fill and k cells of the fragment reach the file.
Written(g, k) == file' = file \o Zeros(g) \o Cells(Current, k)

\* What becomes of the end of the file when it is written to.
Behind(t) == IF tail = "whole" THEN t ELSE "buried"

\* What is written behind a torn end is not intact, and a cut may leave less.
Intact == intact' = IF tail' = "buried" THEN Lesser(intact, Len(file')) ELSE Len(file')

\* EmitPhysicalRecord returns OK.  Whether the fill was written is not looked at:
\* without (some of) it the fragment begins in the old block.
Emitted(g) ==
  /\ state = "adding"
  /\ Written(g, Size(Current))
  /\ blockOffset' = OffsetAfter
  /\ IF Taken = left
     THEN state' = "idle" /\ acked' = acked \cup {Len(records)} /\ NoRecord
     ELSE left' = left - Taken /\ frags' = frags + 1 /\ UNCHANGED <<state, acked>>
  /\ UNCHANGED <<records, reopens, reader>>

Emit == Emitted(Fill) /\ tail' = Behind("whole") /\ Intact

EmitUnfilled == /\ FaultsWhileOpen
                /\ \E g \in 0..Fill : g < Fill /\ Emitted(g)
                /\ tail' = "buried" /\ Intact

\* It fails: all of the fragment counts for block_offset_, the rest of the record is
\* not written, and AddRecord returns.
EmitFails ==
  /\ FaultsWhileOpen
  /\ state = "adding" /\ state' = "idle"
  /\ \E g \in 0..Fill, k \in 0..Size(Current) :
       /\ Written(g, k)
       /\ tail' = IF k = 0 \/ g = Fill THEN Behind("torn") ELSE "buried"
  /\ Intact
  /\ blockOffset' = OffsetAfter /\ NoRecord
  /\ UNCHANGED <<records, acked, reopens, reader>>

\* There is no writer any more; the log will be read, from its beginning.
Closed == /\ state' = "reading" /\ blockOffset' = 0 /\ NoRecord
          /\ UNCHANGED <<records, reopens, reader>>

\* The process stops between two records,
Close == state = "idle" /\ Closed /\ UNCHANGED <<file, acked, tail, intact>>

\* or in the middle of one.
ProcessDies ==
  /\ state = "adding" /\ Closed
  /\ \E g \in 0..Fill, k \in 0..Size(Current) : (k = 0 \/ g = Fill) /\ Written(g, k)
  /\ tail' = Behind("torn") /\ Intact /\ UNCHANGED acked

\* Is cell c the last of a fragment?  Does that end the record?
EndsFragment(c) == c.of # NoFragment /\ c.at = Size(c.of) - 1
EndsRecord(c)   == EndsFragment(c) /\ c.of.type \in {"full", "last"}

\* Is the last cell of record r there?
Whole(r) == \E i \in DOMAIN file : EndsRecord(file[i]) /\ file[i].of.id = r

\* The machine stops, and the end of the file is not on the disk.
MachineDies ==
  /\ state \in {"idle", "adding"} /\ Closed
  /\ \E n \in 0..Len(file) : file' = SubSeq(file, 1, n)
  /\ acked' = {r \in acked : Whole(r)'}
  /\ tail' = IF tail = "whole" THEN "torn" ELSE tail
  /\ Intact

\* The reader is gone.
NoReader == pos' = 0 /\ end' = 0 /\ eof' = FALSE /\ scratch' = <<>> /\ read' = <<>>

\* Mutant: the new writer is not told the length of the log.
ReopenUnaligned == /\ state = "read" /\ state' = "idle"
                   /\ ReuseLogs /\ reopens < MaxReopens
                   /\ reopens' = reopens + 1
                   /\ blockOffset' = 0
                   /\ NoReader
                   /\ UNCHANGED <<file, left, frags, records, acked, tail, intact>>

\* With reuse_logs the last log is appended to after it has been read.
Reopen == /\ state = "read" /\ state' = "idle"
          /\ ReuseLogs /\ reopens < MaxReopens
          /\ reopens' = reopens + 1
          /\ blockOffset' = Len(file) % Block
          /\ NoReader
          /\ UNCHANGED <<file, left, frags, records, acked, tail, intact>>

-----------------------------------------------------------------------------
(* Reader::ReadRecord, again and again until it returns false.             *)

Remaining == end - pos

\* What is left of a block is a trailer, and the next block is read.
ReadBlock == /\ state = "reading"
             /\ Remaining < Header /\ ~eof
             /\ pos' = end /\ end' = Lesser(end + Block, Len(file))
             /\ eof' = (end' < end + Block)
             /\ UNCHANGED <<file, state, writer, tail, intact, scratch, read>>

Front   == file[pos + 1].of
TooLong == Remaining >= Header /\ Size(Front) > Remaining
Sound   == /\ Front # NoFragment
           /\ \A i \in 1..Size(Front) : file[pos + i] = [of |-> Front, at |-> i - 1]

\* Mutant: a length that cannot be ends the file wherever it is.
EndAtTooLong == /\ state = "reading" /\ state' = "read"
                /\ TooLong \/ (eof /\ Remaining < Header)
                /\ scratch' = <<>>
                /\ UNCHANGED <<file, writer, tail, intact, pos, end, eof, read>>

\* A truncated header or fragment at the end of the file: "just ignore the entire
\* logical record".
EndOfFile == /\ state = "reading" /\ state' = "read"
             /\ eof /\ (Remaining < Header \/ TooLong)
             /\ scratch' = <<>>
             /\ UNCHANGED <<file, writer, tail, intact, pos, end, eof, read>>

\* Mutant: damage in the middle of a record does not end it.
BadRecordKept ==
  /\ state = "reading" /\ Remaining >= Header
  /\ IF TooLong THEN ~eof ELSE ~Sound
  /\ pos' = end
  /\ UNCHANGED <<file, state, writer, tail, intact, end, eof, scratch, read>>

\* A length that cannot be, zeros, or a checksum that is not right: the rest of the
\* buffer is dropped.  (A header of other bytes may also have a length that is too
\* long for the last buffer; at the end of the file the two come to the same.)
BadRecord ==
  /\ state = "reading" /\ Remaining >= Header
  /\ IF TooLong THEN ~eof ELSE ~Sound
  /\ pos' = end /\ scratch' = <<>>
  /\ UNCHANGED <<file, state, writer, tail, intact, end, eof, read>>

\* A fragment is read, and is one of these types.
Parsed(types) ==
  /\ state = "reading" /\ Remaining >= Header
  /\ ~TooLong /\ Sound /\ Front.type \in types
  /\ pos' = pos + Size(Front)
  /\ UNCHANGED <<file, state, writer, tail, intact, end, eof>>

FullRecord == Parsed({"full"}) /\ scratch' = <<>> /\ read' = Append(read, <<Front>>)

FirstFragment == Parsed({"first"}) /\ scratch' = <<Front>> /\ UNCHANGED read

MiddleFragment == /\ Parsed({"middle"}) /\ scratch # <<>>
                  /\ scratch' = Append(scratch, Front) /\ UNCHANGED read

LastFragment == /\ Parsed({"last"}) /\ scratch # <<>>
                /\ read' = Append(read, Append(scratch, Front)) /\ scratch' = <<>>

\* "missing start of fragmented record"
MissingStart == /\ Parsed({"middle", "last"}) /\ scratch = <<>>
                /\ UNCHANGED <<scratch, read>>

-----------------------------------------------------------------------------
Write == \/ \E n \in Lengths : AddRecord(n)
         \/ Emit \/ EmitUnfilled \/ EmitFails
         \/ Close \/ ProcessDies \/ MachineDies \/ Reopen

Read == \/ ReadBlock \/ EndOfFile \/ BadRecord
        \/ FullRecord \/ FirstFragment \/ MiddleFragment \/ LastFragment \/ MissingStart

Next == Write \/ Read

Spec == Init /\ [][Next]_vars
-----------------------------------------------------------------------------
(* Properties.                                                             *)

\* Every variable has a value of its type (the assertions of AddRecord among them:
\* block_offset_ is never beyond the block), and while nothing is torn the writer
\* knows where in the block it is.
TypeOK ==
  /\ file \in Seq(Cell) /\ state \in {"idle", "adding", "reading", "read"}
  /\ blockOffset \in 0..Block /\ left \in Nat /\ frags \in Nat
  /\ records \in Seq(Lengths) /\ Len(records) <= MaxRecords
  /\ acked \subseteq 1..Len(records)
  /\ tail \in {"whole", "torn", "buried"} /\ reopens \in 0..MaxReopens
  /\ intact \in 0..Len(file)
  /\ end \in 0..Len(file) /\ pos \in 0..end /\ eof \in BOOLEAN
  /\ scratch \in Seq(Fragment) /\ read \in Seq(Seq(Fragment))
  /\ tail = "whole" /\ state \in {"idle", "adding"} =>
       blockOffset % Block = Len(file) % Block

\* The fragments s are record r: all of them, in order, every byte once.
IsRecord(s, r) ==
  /\ r \in DOMAIN records /\ s # <<>>
  /\ \A j \in DOMAIN s : s[j].id = r /\ s[j].frag = j
  /\ s[1].from = 0
  /\ \A j \in 2..Len(s) : s[j].from = s[j-1].from + s[j-1].len
  /\ s[Len(s)].from + s[Len(s)].len = records[r]

\* A file that was cut anywhere, at the end of a block, in a fill or in a header,
\* reads as exactly the records that are all there, and nothing before it: "just
\* ignore the entire logical record" (ReadRecord, at kEof).  Every record that was
\* acknowledged, and that no power loss took, is among them.
Survivors ==
  state = "read" /\ tail # "buried" =>
    /\ \A r \in DOMAIN records : Whole(r) <=> r <= Len(read)
    /\ \A r \in DOMAIN read : IsRecord(read[r], r)
    /\ acked \subseteq DOMAIN read

\* What is written behind a torn end, by a writer that goes on after a failed append
\* or that reuses the log, may be lost, and acknowledged records with it (AddRecord
\* is told nothing of the end it writes behind).  It takes nothing along that was
\* written before: each record whose last byte comes before the damage is read, as
\* the one it is.
KeptBeforeDamage ==
  state = "read" =>
    \A i \in 1..intact : EndsRecord(file[i]) =>
      LET r == file[i].of.id IN r \in DOMAIN read /\ IsRecord(read[r], r)

\* And it is over when a block begins with a record: wherever the file was damaged
\* before, such a record is read if all of it is there and none of its fragments
\* lies in two blocks (as they do behind an append that failed, for which
\* block_offset_ was advanced all the same).
Begins(i)  == file[i].of.type \in {"full", "first"} /\ file[i].at = 0
Unsplit(r) == \A i \in DOMAIN file :
                file[i].of.id = r => (i - 1 - file[i].at) \div Block = (i - 1) \div Block
DamageEnds ==
  state = "read" =>
    \A i \in DOMAIN file :
      LET r == file[i].of.id
      IN Begins(i) /\ (i - 1) % Block = 0 /\ Whole(r) /\ Unsplit(r) =>
           \E j \in DOMAIN read : IsRecord(read[j], r)

\* Whatever was torn, and written on since, a record that is read is one that
\* was written, whole, and each is read once, in the order of writing: fragments
\* of two records are never put together.
NothingInvented ==
  /\ \A i \in DOMAIN read : \E r \in DOMAIN records : IsRecord(read[i], r)
  /\ \A i, j \in DOMAIN read : i < j => read[i][1].id < read[j][1].id
=============================================================================
