--------------------------- MODULE LogFormatProofs ---------------------------
(***************************************************************************)
(* What a reader finds in a log, for all sizes of blocks, headers and      *)
(* records.                                                                *)
(***************************************************************************)
EXTENDS LogFormat, Integers, SequenceTheorems, TLAPS

Final == {"full", "last"}

\* The fragment g is one of record g.id: the first has the first byte, and one
\* that ends the record its last byte.
FragmentOK(g, recs) ==
  /\ g.id \in DOMAIN recs /\ g.frag >= 1 /\ g.type # "zero"
  /\ g.frag = 1 <=> g.type \in {"first", "full"}
  /\ g.frag = 1 => g.from = 0
  /\ g.type \in Final => g.from + g.len = recs[g.id]

\* h is the fragment after g.
Follows(g, h) == /\ g.type \notin Final
                 /\ h.id = g.id /\ h.frag = g.frag + 1 /\ h.from = g.from + g.len

\* What holds of the cells of every file, torn and written on or not:
\* each belongs to a fragment of a record or is a zero,
CellsOK(f, recs) ==
  \A i \in DOMAIN f : IF f[i].of = NoFragment THEN f[i] = Zero
                      ELSE FragmentOK(f[i].of, recs) /\ f[i].at < Size(f[i].of)

\* the cells before it are there,
Backward(f) ==
  \A i \in DOMAIN f : f[i].of # NoFragment =>
    \A d \in 0..f[i].at : i - d \in DOMAIN f /\ f[i - d] = [of |-> f[i].of, at |-> f[i].at - d]

\* a fragment that is not the first of its record comes directly after the one
\* before it, which ended its block,
Joined(f) ==
  \A i \in DOMAIN f : f[i].of # NoFragment /\ f[i].at = 0 /\ f[i].of.frag > 1 =>
    i - 1 \in DOMAIN f /\ EndsFragment(f[i - 1]) /\ Follows(f[i - 1].of, f[i].of)

\* and after the end of a record come later ones.
Ordered(f) ==
  \A i, j \in DOMAIN f : i < j /\ EndsRecord(f[i]) /\ f[j].of # NoFragment =>
    f[i].of.id < f[j].of.id

FileOK(f, recs) == CellsOK(f, recs) /\ Backward(f) /\ Joined(f) /\ Ordered(f)

\* What holds of a file up to where it is written on behind a torn end: the cells of a
\* fragment follow its first one, all of them in a block,
Forward(f) ==
  \A i \in DOMAIN f : f[i].of # NoFragment /\ f[i].at = 0 =>
    /\ ((i - 1) % Block) + Size(f[i].of) <= Block
    /\ \A d \in 0..f[i].of.len + Header - 1 : i + d \in DOMAIN f =>
         f[i + d] = [of |-> f[i].of, at |-> d]

\* and after the end of a fragment, and in the beginning, comes what the writer
\* wrote next.
Boundary(f, b) == b = 0 \/ EndsFragment(f[b])
FillAt(b) == IF Block - (b % Block) < Header THEN Block - (b % Block) ELSE 0
Succeeds(f, b, g) ==
  IF b = 0 THEN g.id = 1 /\ g.frag = 1
  ELSE IF f[b].of.type \in Final THEN g.id = f[b].of.id + 1 /\ g.frag = 1
  ELSE g.id = f[b].of.id /\ g.frag > 1

NextAt(f, b) ==
  /\ \A d \in 1..FillAt(b) : b + d \in DOMAIN f => f[b + d] = Zero
  /\ b + FillAt(b) + 1 \in DOMAIN f =>
       LET c == f[b + FillAt(b) + 1]
       IN c.of # NoFragment /\ c.at = 0 /\ Succeeds(f, b, c.of)

Aligned(f) == Forward(f) /\ \A b \in 0..Len(f) : Boundary(f, b) => NextAt(f, b)

\* The writer: while a record is added its last fragment is not in the file, and
\* its other fragments end the file and their block.
EndOfPart == LET c == file[Len(file)]
             IN /\ Len(file) > 0 /\ EndsFragment(c)
                /\ c.of.type \notin Final /\ c.of.id = Len(records) /\ c.of.frag = frags
                /\ c.of.from + c.of.len = records[Len(records)] - left

WriterOK ==
  state = "adding" =>
    /\ Len(records) > 0 /\ left <= records[Len(records)]
    /\ \A i \in DOMAIN file : EndsRecord(file[i]) => file[i].of.id < Len(records)
    /\ frags = 0 => left = records[Len(records)]
    /\ frags > 0 => left > 0 /\ blockOffset = Block /\ EndOfPart

\* With a whole tail every record before is in the file.
NextId == IF state = "adding" THEN Len(records) ELSE Len(records) + 1
TailOK ==
  tail = "whole" =>
    /\ state \in {"idle", "adding"} => blockOffset % Block = Len(file) % Block
    /\ frags = 0 => IF Len(file) = 0 THEN NextId = 1
                    ELSE EndsRecord(file[Len(file)]) /\ file[Len(file)].of.id + 1 = NextId

AckedOK == \A r \in acked : Whole(r)

\* The reader's buffer is in one block.
BufferOK == /\ end - pos <= Block - (pos % Block)
            /\ ~eof => end % Block = 0
            /\ eof  => end = Len(file)

\* The fragments in scratch are the first ones of a record.  Their last cell is
\* where the reader is, or a trailer before.
ScratchOK ==
  /\ \A j \in DOMAIN scratch : /\ FragmentOK(scratch[j], records)
                               /\ scratch[j].id = scratch[1].id /\ scratch[j].frag = j
                               /\ scratch[j].type \notin Final
                               /\ j > 1 => Follows(scratch[j - 1], scratch[j])
  /\ scratch # <<>> =>
       \E p \in 1..pos : /\ EndsFragment(file[p]) /\ file[p].of = scratch[Len(scratch)]
                         /\ p = pos \/ (pos - p < Header /\ (eof \/ end - pos >= Header))

\* The records read are records, their ends are where the reader has been, and
\* they are in order.
ReadIsRecord(i) ==
  /\ IsRecord(read[i], read[i][1].id)
  /\ \E p \in 1..pos : EndsRecord(file[p]) /\ file[p].of.id = read[i][1].id
ReadOK ==
  /\ \A i \in DOMAIN read : ReadIsRecord(i)
  /\ \A i, j \in DOMAIN read : i < j => read[i][1].id < read[j][1].id

\* While there is a writer there is no reader.
ReaderOff ==
  state \in {"idle", "adding"} =>
    pos = 0 /\ end = 0 /\ ~eof /\ scratch = <<>> /\ read = <<>>

\* Up to the boundary b every record has been read.
Progress(b) ==
  IF b = 0 THEN scratch = <<>> /\ read = <<>>
  ELSE IF file[b].of.type \in Final THEN scratch = <<>> /\ Len(read) = file[b].of.id
  ELSE scratch # <<>> /\ scratch[Len(scratch)] = file[b].of /\ Len(read) + 1 = file[b].of.id

\* The reader of the part of the file that nothing was written behind a torn end in
\* has read all its records, or is at a boundary of it and has read those before.
Ids     == \A i \in DOMAIN read : read[i][1].id = i
AllRead == \A i \in 1..intact : EndsRecord(file[i]) =>
             LET r == file[i].of.id IN r \in DOMAIN read /\ read[r][1].id = r
Halfway(b) == /\ b <= intact /\ Boundary(file, b) /\ Progress(b) /\ Ids
              /\ pos = b \/ pos = b + FillAt(b)
AlignedReader ==
  /\ state = "reading" => AllRead \/ \E b \in 0..pos : Halfway(b)
  /\ state = "read" => AllRead

Typed ==
  /\ file \in Seq(Cell) /\ state \in {"idle", "adding", "reading", "read"}
  /\ blockOffset \in 0..Block /\ left \in Nat /\ frags \in Nat
  /\ records \in Seq(Lengths) /\ Len(records) <= MaxRecords
  /\ acked \subseteq 1..Len(records)
  /\ tail \in {"whole", "torn", "buried"} /\ reopens \in 0..MaxReopens
  /\ end \in 0..Len(file) /\ pos \in 0..end /\ eof \in BOOLEAN
  /\ scratch \in Seq(Fragment) /\ read \in Seq(Seq(Fragment))

IInv == /\ Typed /\ FileOK(file, records) /\ WriterOK /\ AckedOK /\ ReaderOff
        /\ BufferOK /\ ScratchOK /\ ReadOK
        /\ state # "adding" => frags = 0

Prefix == SubSeq(file, 1, intact)

AInv == /\ intact \in 0..Len(file) /\ Aligned(Prefix) /\ AlignedReader
        /\ tail # "buried" => intact = Len(file) /\ TailOK
-----------------------------------------------------------------------------
(* Numbers, and files that grow or are cut.                                *)

\* The place of a cell behind a boundary and a fill.
LEMMA Place ==
  ASSUME NEW i \in Nat, NEW a \in Nat, NEW b \in Nat, NEW n \in Nat
  PROVE  i - a - b - 1 = n => i = a + b + 1 + n /\ i - 1 = a + b + n
  OBVIOUS

\* Quotient and remainder,
LEMMA Division ==
  ASSUME NEW B \in Nat \ {0}, NEW a \in Nat
  PROVE  a \div B \in Nat /\ a % B \in 0..B - 1 /\ a = B * (a \div B) + (a % B)
  OBVIOUS

\* the remainder is the only number there can be,
LEMMA Unique ==
  ASSUME NEW B \in Nat \ {0}, NEW a \in Nat, NEW q \in Int, NEW r \in 0..B - 1, a = B * q + r
  PROVE  a % B = r
  <1> DEFINE p == a \div B
             s == a % B
  <1>1. p \in Nat /\ s \in 0..B - 1 /\ a = B * p + s
    BY Division
  <1> HIDE DEF p, s
  <1>2. ASSUME NEW k \in Int, k >= 1 PROVE B * k >= B
    BY <1>2
  <1>3. p - q >= 1 => B * (p - q) >= B
    BY <1>1, <1>2
  <1>4. q - p >= 1 => B * (q - p) >= B
    BY <1>1, <1>2
  <1>5. B * (p - q) = B * p - B * q /\ B * (q - p) = B * q - B * p
    BY <1>1
  <1>6. B * p \in Int /\ B * q \in Int
    BY <1>1
  <1>7. p = q
    BY <1>1, <1>3, <1>4, <1>5, <1>6
  <1>8. QED
    BY <1>1, <1>6, <1>7 DEF s

\* and what it is for sums.
LEMMA Sums ==
  ASSUME NEW B \in Nat \ {0}, NEW a \in Nat, NEW n \in Nat
  PROVE  /\ (a % B) + n < B => (a + n) % B = (a % B) + n
         /\ (a % B) + n = B => (a + n) % B = 0
         /\ a % B = 0 /\ n \in 1..B /\ n <= a => (a - n) % B = B - n
  <1> DEFINE q == a \div B
             r == a % B
  <1>1. q \in Nat /\ r \in 0..B - 1 /\ a = B * q + r
    BY Division
  <1> HIDE DEF q, r
  <1>2. B * q \in Int /\ B * (q + 1) = B * q + B /\ B * (q - 1) = B * q - B
    BY <1>1
  <1>3. ASSUME r + n < B PROVE (a + n) % B = r + n
    <2>1. a + n = B * q + (r + n) /\ r + n \in 0..B - 1 /\ a + n \in Nat
      BY <1>1, <1>2, <1>3
    <2>2. QED
      BY <1>1, <2>1, Unique
  <1>4. ASSUME r + n = B PROVE (a + n) % B = 0
    <2>1. a + n = B * (q + 1) + 0 /\ 0 \in 0..B - 1 /\ a + n \in Nat /\ q + 1 \in Int
      BY <1>1, <1>2, <1>4
    <2>2. QED
      BY <2>1, Unique
  <1>5. ASSUME r = 0, n \in 1..B, n <= a PROVE (a - n) % B = B - n
    <2>1. /\ a - n = B * (q - 1) + (B - n) /\ B - n \in 0..B - 1 /\ a - n \in Nat
          /\ q - 1 \in Int
      BY <1>1, <1>2, <1>5
    <2>2. QED
      BY <2>1, Unique
  <1>6. QED
    BY <1>3, <1>4, <1>5 DEF r

\* The same for places in a block.
LEMMA Modulo ==
  ASSUME NEW a \in Nat
  PROVE  /\ a % Block \in 0..Block - 1
         /\ a < Block => a % Block = a
         /\ Block % Block = 0
  <1> Block \in Nat \ {0}
    BY SizeAssumption
  <1>1. a % Block \in 0..Block - 1
    OBVIOUS
  <1>2. a < Block => a % Block = a
    OBVIOUS
  <1>3. Block % Block = 0
    OBVIOUS
  <1>4. QED
    BY <1>1, <1>2, <1>3

\* A place further on, or further back, in the file.
LEMMA BlockSums ==
  ASSUME NEW a \in Nat, NEW n \in Nat
  PROVE  /\ (a % Block) + n < Block => (a + n) % Block = (a % Block) + n
         /\ (a % Block) + n = Block => (a + n) % Block = 0
         /\ a % Block = 0 /\ n \in 1..Block /\ n <= a => (a - n) % Block = Block - n
  <1>1. Block \in Nat \ {0}
    BY SizeAssumption
  <1>2. QED
    BY <1>1, Sums

\* A fill is shorter than a header.
LEMMA FillAtType ==
  ASSUME NEW b \in Nat
  PROVE  FillAt(b) \in 0..Header - 1
  BY Modulo, SizeAssumption DEF FillAt

\* A zero is a cell of no fragment.
LEMMA ZeroCell == NoFragment \in Fragment /\ Zero \in Cell /\ Zero.of = NoFragment /\ Zero.at = 0
  BY DEF NoFragment, Fragment, Zero, Cell

\* The cells of h are those of f, g zeros and the first k cells of c.
Grown(f, h, c, g, k) ==
  /\ h \in Seq(Cell) /\ Len(h) = Len(f) + g + k
  /\ \A i \in 1..Len(f) : h[i] = f[i]
  /\ \A i \in Len(f) + 1..Len(f) + g : h[i] = Zero
  /\ \A i \in Len(f) + g + 1..Len(h) : h[i] = [of |-> c, at |-> i - Len(f) - g - 1]

\* What Written does.
LEMMA WrittenGrown ==
  ASSUME NEW f \in Seq(Cell), NEW c \in Fragment, NEW g \in Nat, NEW k \in Nat
  PROVE  Grown(f, f \o Zeros(g) \o Cells(c, k), c, g, k)
  <1> DEFINE z == Zeros(g)
             d == Cells(c, k)
  <1>1. z \in Seq(Cell) /\ Len(z) = g /\ \A i \in 1..g : z[i] = Zero
    BY ZeroCell DEF Zeros
  <1>2. d \in Seq(Cell) /\ Len(d) = k /\ \A i \in 1..k : d[i] = [of |-> c, at |-> i - 1]
    <2>1. \A i \in 1..k : [of |-> c, at |-> i - 1] \in Cell
      BY DEF Cell
    <2>2. QED
      BY <2>1 DEF Cells
  <1> HIDE DEF z, d
  <1>3. /\ f \o z \in Seq(Cell) /\ Len(f \o z) = Len(f) + g
        /\ \A i \in 1..Len(f) + g : (f \o z)[i] = IF i <= Len(f) THEN f[i] ELSE z[i - Len(f)]
    BY <1>1, ConcatProperties
  <1> DEFINE fz == f \o z
  <1> HIDE DEF fz
  <1>4. /\ fz \o d \in Seq(Cell) /\ Len(fz \o d) = Len(fz) + k
        /\ \A i \in 1..Len(fz) + k : (fz \o d)[i] = IF i <= Len(fz) THEN fz[i] ELSE d[i - Len(fz)]
    BY <1>2, <1>3, ConcatProperties DEF fz
  <1> DEFINE h == fz \o d
  <1> HIDE DEF h
  <1>5. /\ h \in Seq(Cell) /\ Len(h) = Len(f) + g + k
        /\ \A i \in 1..Len(h) : h[i] = IF i <= Len(f) + g THEN fz[i] ELSE d[i - (Len(f) + g)]
    BY <1>3, <1>4 DEF h, fz
  <1>6. /\ Len(fz) = Len(f) + g
        /\ \A i \in 1..Len(f) + g : fz[i] = IF i <= Len(f) THEN f[i] ELSE z[i - Len(f)]
    BY <1>3 DEF fz
  <1>7. \A i \in 1..Len(f) : h[i] = f[i]
    BY <1>5, <1>6
  <1>8. \A i \in Len(f) + 1..Len(f) + g : h[i] = Zero
    BY <1>1, <1>5, <1>6
  <1>9. \A i \in Len(f) + g + 1..Len(h) : h[i] = [of |-> c, at |-> i - Len(f) - g - 1]
    BY <1>2, <1>5
  <1>10. QED
    BY <1>5, <1>7, <1>8, <1>9 DEF Grown, h, fz, z, d

\* h is a beginning of f.
Cut(f, h) == /\ h \in Seq(Cell) /\ Len(h) <= Len(f)
             /\ \A i \in 1..Len(h) : h[i] = f[i]

\* What the machine leaves of a file.
LEMMA SubSeqCut ==
  ASSUME NEW f \in Seq(Cell), NEW n \in 0..Len(f)
  PROVE  Cut(f, SubSeq(f, 1, n)) /\ Len(SubSeq(f, 1, n)) = n
  <1>1. SubSeq(f, 1, n) \in Seq(Cell) /\ Len(SubSeq(f, 1, n)) = n
        /\ \A i \in 1..n : SubSeq(f, 1, n)[i] = f[i]
    BY SubSeqProperties
  <1>2. QED
    BY <1>1 DEF Cut

\* A cut leaves a file of fragments,
LEMMA CutOK ==
  ASSUME NEW f \in Seq(Cell), NEW h, NEW recs, FileOK(f, recs), Cut(f, h)
  PROVE  FileOK(h, recs)
  <1>1. h \in Seq(Cell) /\ Len(h) <= Len(f) /\ DOMAIN h = 1..Len(h) /\ DOMAIN f = 1..Len(f)
        /\ \A i \in DOMAIN h : i \in DOMAIN f /\ h[i] = f[i]
    BY DEF Cut
  <1>2. \A i \in DOMAIN h : h[i].at \in Nat
    <2>1. \A i \in DOMAIN h : h[i] \in Cell
      BY <1>1
    <2>2. QED
      BY <2>1 DEF Cell
  <1>3. CellsOK(h, recs)
    BY <1>1 DEF FileOK, CellsOK
  <1>4. Backward(h)
    <2> SUFFICES ASSUME NEW i \in DOMAIN h, h[i].of # NoFragment, NEW d \in 0..h[i].at
                 PROVE  i - d \in DOMAIN h /\ h[i - d] = [of |-> h[i].of, at |-> h[i].at - d]
      BY DEF Backward
    <2>1. i - d \in DOMAIN f /\ f[i - d] = [of |-> f[i].of, at |-> f[i].at - d]
      BY <1>1 DEF FileOK, Backward
    <2>2. QED
      BY <1>1, <1>2, <2>1
  <1>5. Joined(h)
    <2> SUFFICES ASSUME NEW i \in DOMAIN h, h[i].of # NoFragment, h[i].at = 0, h[i].of.frag > 1
                 PROVE  i - 1 \in DOMAIN h /\ EndsFragment(h[i - 1])
                        /\ Follows(h[i - 1].of, h[i].of)
      BY DEF Joined
    <2>1. i - 1 \in DOMAIN f /\ EndsFragment(f[i - 1]) /\ Follows(f[i - 1].of, f[i].of)
      BY <1>1 DEF FileOK, Joined
    <2>2. QED
      BY <1>1, <2>1
  <1>6. Ordered(h)
    BY <1>1 DEF FileOK, Ordered
  <1>7. QED
    BY <1>3, <1>4, <1>5, <1>6 DEF FileOK

\* and an aligned one aligned: it speaks of the cells that are there.
LEMMA CutAligned ==
  ASSUME NEW f \in Seq(Cell), NEW h, Aligned(f), Cut(f, h)
  PROVE  Aligned(h)
  <1>1. h \in Seq(Cell) /\ Len(h) <= Len(f) /\ DOMAIN h = 1..Len(h) /\ DOMAIN f = 1..Len(f)
        /\ \A i \in DOMAIN h : i \in DOMAIN f /\ h[i] = f[i]
    BY DEF Cut
  <1>2. Forward(h)
    <2> SUFFICES ASSUME NEW i \in DOMAIN h, h[i].of # NoFragment, h[i].at = 0
                 PROVE  /\ ((i - 1) % Block) + Size(h[i].of) <= Block
                        /\ \A d \in 0..h[i].of.len + Header - 1 : i + d \in DOMAIN h =>
                             h[i + d] = [of |-> h[i].of, at |-> d]
      BY DEF Forward
    <2>1. /\ ((i - 1) % Block) + Size(f[i].of) <= Block
          /\ \A d \in 0..f[i].of.len + Header - 1 : i + d \in DOMAIN f =>
               f[i + d] = [of |-> f[i].of, at |-> d]
      BY <1>1 DEF Aligned, Forward
    <2>2. QED
      BY <1>1, <2>1
  <1>3. ASSUME NEW b \in 0..Len(h), Boundary(h, b)
        PROVE  NextAt(h, b)
    <2>1. b \in 0..Len(f) /\ Boundary(f, b)
      BY <1>1, <1>3 DEF Boundary
    <2>2. NextAt(f, b)
      BY <2>1 DEF Aligned
    <2>3. \A g : Succeeds(f, b, g) => Succeeds(h, b, g)
      BY <1>1 DEF Succeeds
    <2>4. FillAt(b) \in Nat
      BY FillAtType, <1>1
    <2>5. QED
      BY <1>1, <2>2, <2>3, <2>4 DEF NextAt
  <1>4. QED
    BY <1>2, <1>3 DEF Aligned

\* A fragment, or a beginning of it, after a file; zeros before it, or not.
LEMMA GrownOK ==
  ASSUME NEW f \in Seq(Cell), NEW h, NEW recs, NEW c \in Fragment, NEW g \in Nat, NEW k \in Nat,
         FileOK(f, recs), Grown(f, h, c, g, k), FragmentOK(c, recs), k <= Size(c),
         \A i \in DOMAIN f : EndsRecord(f[i]) => f[i].of.id < c.id,
         c.frag > 1 => /\ g = 0 /\ Len(f) > 0
                       /\ EndsFragment(f[Len(f)]) /\ Follows(f[Len(f)].of, c)
  PROVE  FileOK(h, recs)
  <1> DEFINE L == Len(f)
  <1>1. /\ h \in Seq(Cell) /\ DOMAIN h = 1..L + g + k /\ DOMAIN f = 1..L /\ L \in Nat
        /\ \A i \in 1..L : h[i] = f[i]
        /\ \A i \in L + 1..L + g : h[i] = Zero
        /\ \A i \in L + g + 1..L + g + k : h[i] = [of |-> c, at |-> i - L - g - 1]
    BY DEF Grown
  <1> HIDE DEF L
  <1>2. \A i \in L + g + 1..L + g + k : h[i].of = c /\ h[i].at = i - L - g - 1
    <2> SUFFICES ASSUME NEW i \in L + g + 1..L + g + k
                 PROVE  h[i].of = c /\ h[i].at = i - L - g - 1
      OBVIOUS
    <2>1. h[i] = [of |-> c, at |-> i - L - g - 1]
      BY <1>1
    <2>2. QED
      BY <2>1
  <1>3. \A i \in 1..L : f[i].at \in Nat /\ f[i].of \in Fragment
    <2>1. \A i \in 1..L : f[i] \in Cell
      BY <1>1
    <2>2. QED
      BY <2>1 DEF Cell
  <1>4. c # NoFragment /\ Size(c) \in Nat /\ c.frag \in Nat /\ c.id \in Nat
    BY SizeAssumption DEF FragmentOK, NoFragment, Fragment, Size
  <1>5. CellsOK(h, recs)
    <2> SUFFICES ASSUME NEW i \in DOMAIN h
                 PROVE  IF h[i].of = NoFragment THEN h[i] = Zero
                        ELSE FragmentOK(h[i].of, recs) /\ h[i].at < Size(h[i].of)
      BY DEF CellsOK
    <2>1. CASE i \in 1..L
      BY <1>1, <2>1 DEF FileOK, CellsOK
    <2>2. CASE i \in L + 1..L + g
      BY <1>1, <2>2, ZeroCell
    <2>3. CASE i \in L + g + 1..L + g + k
      BY <1>1, <1>2, <1>4, <2>3
    <2>4. QED
      BY <1>1, <2>1, <2>2, <2>3
  <1>6. Backward(h)
    <2> SUFFICES ASSUME NEW i \in DOMAIN h, h[i].of # NoFragment, NEW d \in 0..h[i].at
                 PROVE  i - d \in DOMAIN h /\ h[i - d] = [of |-> h[i].of, at |-> h[i].at - d]
      BY DEF Backward
    <2>1. CASE i \in 1..L
      <3>1. h[i] = f[i] /\ i \in DOMAIN f /\ f[i].at \in Nat
        BY <1>1, <1>3, <2>1
      <3>2. i - d \in DOMAIN f /\ f[i - d] = [of |-> f[i].of, at |-> f[i].at - d]
        BY <3>1 DEF FileOK, Backward
      <3>3. QED
        BY <1>1, <3>1, <3>2
    <2>2. CASE i \in L + 1..L + g
      BY <1>1, <2>2, ZeroCell
    <2>3. CASE i \in L + g + 1..L + g + k
      <3>1. h[i].of = c /\ h[i].at = i - L - g - 1
        BY <1>2, <2>3
      <3>2. i - d \in L + g + 1..L + g + k
        BY <1>1, <2>3, <3>1
      <3>3. h[i - d] = [of |-> c, at |-> (i - d) - L - g - 1]
        BY <1>1, <3>2
      <3>4. (i - d) - L - g - 1 = (i - L - g - 1) - d
        BY <1>1
      <3>5. QED
        BY <1>1, <3>1, <3>2, <3>3, <3>4
    <2>4. QED
      BY <1>1, <2>1, <2>2, <2>3
  <1>7. Joined(h)
    <2> SUFFICES ASSUME NEW i \in DOMAIN h, h[i].of # NoFragment, h[i].at = 0, h[i].of.frag > 1
                 PROVE  i - 1 \in DOMAIN h /\ EndsFragment(h[i - 1])
                        /\ Follows(h[i - 1].of, h[i].of)
      BY DEF Joined
    <2>1. CASE i \in 1..L
      <3>1. h[i] = f[i] /\ i \in DOMAIN f
        BY <1>1, <2>1
      <3>2. i - 1 \in DOMAIN f /\ EndsFragment(f[i - 1]) /\ Follows(f[i - 1].of, f[i].of)
        BY <3>1 DEF FileOK, Joined
      <3>3. QED
        BY <1>1, <3>1, <3>2
    <2>2. CASE i \in L + 1..L + g
      BY <1>1, <2>2, ZeroCell
    <2>3. CASE i \in L + g + 1..L + g + k
      <3>1. h[i].of = c /\ i = L + g + 1
        BY <1>1, <1>2, <2>3
      <3>2. g = 0 /\ L > 0 /\ EndsFragment(f[L]) /\ Follows(f[L].of, c)
        BY <3>1 DEF L
      <3>3. i - 1 = L /\ h[L] = f[L] /\ L \in DOMAIN h
        BY <1>1, <3>1, <3>2
      <3>4. QED
        BY <3>1, <3>2, <3>3
    <2>4. QED
      BY <1>1, <2>1, <2>2, <2>3
  <1>8. Ordered(h)
    <2> SUFFICES ASSUME NEW i \in DOMAIN h, NEW j \in DOMAIN h, i < j, EndsRecord(h[i]),
                        h[j].of # NoFragment
                 PROVE  h[i].of.id < h[j].of.id
      BY DEF Ordered
    <2>1. CASE j \in 1..L
      BY <1>1, <2>1 DEF FileOK, Ordered
    <2>2. CASE j \in L + 1..L + g
      BY <1>1, <2>2, ZeroCell
    <2>3. CASE j \in L + g + 1..L + g + k
      <3>1. CASE i \in 1..L
        BY <1>1, <1>2, <2>3, <3>1
      <3>2. CASE i \in L + 1..L + g
        BY <1>1, <3>2, ZeroCell DEF EndsRecord, EndsFragment
      <3>3. CASE i \in L + g + 1..L + g + k
        <4>1. h[i].at = Size(c) - 1 /\ h[i].at = i - L - g - 1
          BY <1>2, <3>3 DEF EndsRecord, EndsFragment
        <4>2. QED
          BY <1>1, <1>4, <2>3, <3>3, <4>1
      <3>4. QED
        BY <1>1, <3>1, <3>2, <3>3
    <2>4. QED
      BY <1>1, <2>1, <2>2, <2>3
  <1>9. QED
    BY <1>5, <1>6, <1>7, <1>8 DEF FileOK

\* With the whole fill, behind the end of a fragment, and with the fragment that is
\* due there.
LEMMA GrownAligned ==
  ASSUME NEW f \in Seq(Cell), NEW h, NEW recs, NEW c \in Fragment, NEW k \in Nat,
         FileOK(f, recs), Aligned(f), Grown(f, h, c, FillAt(Len(f)), k), FragmentOK(c, recs),
         k <= Size(c), Boundary(f, Len(f)), Succeeds(f, Len(f), c),
         ((Len(f) + FillAt(Len(f))) % Block) + Size(c) <= Block
  PROVE  Aligned(h)
  <1> DEFINE L == Len(f)
             g == FillAt(L)
  <1>1. /\ h \in Seq(Cell) /\ DOMAIN h = 1..L + g + k /\ DOMAIN f = 1..L /\ L \in Nat
        /\ Len(h) = L + g + k /\ g \in Nat
        /\ \A i \in 1..L : h[i] = f[i]
        /\ \A i \in L + 1..L + g : h[i] = Zero
        /\ \A i \in L + g + 1..L + g + k : h[i] = [of |-> c, at |-> i - L - g - 1]
    <2>1. L \in Nat /\ DOMAIN f = 1..L
      OBVIOUS
    <2>2. g \in Nat
      BY <2>1, FillAtType, SizeAssumption
    <2>3. h \in Seq(Cell) /\ Len(h) = L + g + k /\ DOMAIN h = 1..Len(h)
      BY DEF Grown
    <2> HIDE DEF g
    <2>4. /\ \A i \in 1..L : h[i] = f[i]
          /\ \A i \in L + 1..L + g : h[i] = Zero
          /\ \A i \in L + g + 1..Len(h) : h[i] = [of |-> c, at |-> i - L - g - 1]
      BY DEF Grown, g
    <2>5. QED
      BY <2>1, <2>2, <2>3, <2>4
  <1>2. ((L + g) % Block) + Size(c) <= Block /\ Boundary(f, L) /\ Succeeds(f, L, c)
    OBVIOUS
  <1>3. g = FillAt(L)
    OBVIOUS
  <1>0. /\ L \in Nat /\ g \in Nat /\ k \in Nat /\ DOMAIN f = 1..L
        /\ DOMAIN h = 1..L + g + k /\ Len(h) = L + g + k
    BY <1>1
  <1> HIDE DEF L, g
  <1>4. \A i \in L + g + 1..L + g + k : h[i].of = c /\ h[i].at = i - L - g - 1
    <2> SUFFICES ASSUME NEW i \in L + g + 1..L + g + k
                 PROVE  h[i].of = c /\ h[i].at = i - L - g - 1
      OBVIOUS
    <2>1. h[i] = [of |-> c, at |-> i - L - g - 1]
      BY <1>1
    <2>2. QED
      BY <2>1
  <1>5. \A i \in 1..L : f[i].at \in Nat /\ f[i].of \in Fragment
    <2>1. \A i \in 1..L : f[i] \in Cell
      BY <1>1
    <2>2. QED
      BY <2>1 DEF Cell
  <1>6. c # NoFragment /\ Size(c) \in Nat /\ c.len \in Nat /\ Size(c) = c.len + Header
        /\ Header \in Nat
    BY SizeAssumption DEF FragmentOK, NoFragment, Fragment, Size
  <1>7. L > 0 => EndsFragment(f[L])
    BY <1>1, <1>2 DEF Boundary
  <1>8. Forward(h)
    <2> SUFFICES ASSUME NEW i \in DOMAIN h, h[i].of # NoFragment, h[i].at = 0
                 PROVE  /\ ((i - 1) % Block) + Size(h[i].of) <= Block
                        /\ \A d \in 0..h[i].of.len + Header - 1 : i + d \in DOMAIN h =>
                             h[i + d] = [of |-> h[i].of, at |-> d]
      BY DEF Forward
    <2>1. CASE i \in 1..L
      <3>1. h[i] = f[i] /\ i \in DOMAIN f /\ f[i].of \in Fragment
        BY <1>1, <1>5, <2>1
      <3>2. /\ ((i - 1) % Block) + Size(f[i].of) <= Block
            /\ \A d \in 0..f[i].of.len + Header - 1 : i + d \in DOMAIN f =>
                 f[i + d] = [of |-> f[i].of, at |-> d]
        BY <3>1 DEF Aligned, Forward
      <3>3. ASSUME NEW d \in 0..f[i].of.len + Header - 1, i + d \in DOMAIN h
            PROVE  i + d \in DOMAIN f
        <4> DEFINE n == f[i].of.len
        <4>1. n \in Nat /\ Size(f[i].of) = Header + n
          <5>1. n \in Nat
            BY <3>1 DEF Fragment
          <5>2. QED
            BY <5>1 DEF Size
        <4>0. i \in Nat /\ i >= 1 /\ i <= L /\ d \in Nat /\ d <= n + Header - 1
              /\ Header \in Nat
          <5>1. d \in 0..n + Header - 1
            BY <3>3
          <5>2. QED
            BY <1>0, <1>6, <2>1, <4>1, <5>1
        <4>2. SUFFICES ASSUME i + d > L PROVE FALSE
          BY <1>1, <3>3
        <4>3. L - i \in 0..n + Header - 1 /\ i + (L - i) = L /\ L \in DOMAIN f
          <5> HIDE DEF n
          <5>1. QED
            BY <1>0, <4>0, <4>1, <4>2
        <4>4. f[L] = [of |-> f[i].of, at |-> L - i]
          BY <3>2, <4>3
        <4>5. L - i = Size(f[i].of) - 1
          BY <1>7, <2>1, <1>1, <4>4 DEF EndsFragment
        <4>6. L - i = (Header + n) - 1
          BY <4>1, <4>5
        <4> HIDE DEF n
        <4>7. QED
          BY <1>0, <4>0, <4>1, <4>2, <4>6
      <3>4. ASSUME NEW d \in 0..f[i].of.len + Header - 1, i + d \in DOMAIN h
            PROVE  h[i + d] = [of |-> f[i].of, at |-> d]
        BY <1>1, <3>2, <3>3, <3>4
      <3>5. QED
        BY <3>1, <3>2, <3>4
    <2>2. CASE i \in L + 1..L + g
      BY <1>1, <2>2, ZeroCell
    <2>3. CASE i \in L + g + 1..L + g + k
      <3>1. h[i].of = c /\ i = L + g + 1 /\ i - 1 = L + g
        <4>1. h[i].of = c /\ h[i].at = i - L - g - 1 /\ h[i].at = 0
          BY <1>4, <2>3
        <4>2. i \in Nat
          BY <1>0, <2>3
        <4>3. i - L - g - 1 = 0
          BY <4>1
        <4>4. i = L + g + 1 /\ i - 1 = L + g
          BY <1>0, <4>2, <4>3, Place
        <4>5. QED
          BY <4>1, <4>4
      <3>2. ASSUME NEW d \in 0..c.len + Header - 1, i + d \in DOMAIN h
            PROVE  h[i + d] = [of |-> c, at |-> d]
        <4>1. i + d \in L + g + 1..L + g + k /\ (i + d) - L - g - 1 = d
          BY <1>1, <1>6, <3>1, <3>2
        <4>2. h[i + d] = [of |-> c, at |-> (i + d) - L - g - 1]
          BY <1>1, <4>1
        <4>3. QED
          BY <4>1, <4>2
      <3>3. QED
        BY <1>2, <3>1, <3>2
    <2>4. QED
      BY <1>1, <2>1, <2>2, <2>3
  <1>9. ASSUME NEW b \in 0..Len(h), Boundary(h, b)
        PROVE  NextAt(h, b)
    <2>1. FillAt(b) \in Nat
      BY FillAtType, <1>1
    <2>2. CASE b < L
      <3>1. Boundary(f, b) /\ b \in 0..L /\ b \in Nat
        BY <1>1, <1>9, <2>2 DEF Boundary
      <3>2. NextAt(f, b)
        BY <3>1 DEF Aligned, L
      <3>3. b + FillAt(b) < L
        <4>1. SUFFICES ASSUME b + FillAt(b) >= L PROVE FALSE
          BY <1>1, <2>1, <3>1
        <4>2. L - b \in 1..FillAt(b) /\ b + (L - b) = L /\ L \in DOMAIN f
          BY <1>1, <2>1, <2>2, <3>1, <4>1
        <4>3. f[L] = Zero
          BY <3>2, <4>2 DEF NextAt
        <4>4. QED
          BY <1>7, <1>1, <4>2, <4>3, ZeroCell DEF EndsFragment
      <3>4. \A d \in 1..FillAt(b) : b + d \in 1..L
        BY <1>1, <2>1, <3>1, <3>3
      <3>5. b + FillAt(b) + 1 \in 1..L
        BY <1>1, <2>1, <3>1, <3>3
      <3>6. \A x : Succeeds(f, b, x) => Succeeds(h, b, x)
        BY <1>1, <2>2, <3>1 DEF Succeeds
      <3>7. QED
        BY <1>1, <3>2, <3>4, <3>5, <3>6 DEF NextAt
    <2>3. CASE b = L
      <3>1. \A d \in 1..FillAt(b) : b + d \in L + 1..L + g
        BY <1>1, <1>3, <2>3
      <3>2. \A x : Succeeds(f, b, x) => Succeeds(h, b, x)
        BY <1>1, <2>3 DEF Succeeds
      <3>3. b + FillAt(b) + 1 \in DOMAIN h => b + FillAt(b) + 1 \in L + g + 1..L + g + k
        BY <1>1, <1>3, <2>3
      <3>4. b + FillAt(b) + 1 = L + g + 1 /\ (L + g + 1) - L - g - 1 = 0
        BY <1>1, <1>3, <2>3
      <3>5. QED
        BY <1>1, <1>2, <1>4, <1>6, <2>3, <3>1, <3>2, <3>3, <3>4 DEF NextAt
    <2>4. CASE b > L
      <3>1. b \in L + g + 1..L + g + k
        <4>1. CASE b \in L + 1..L + g
          BY <1>1, <1>9, <2>4, <4>1, ZeroCell DEF Boundary, EndsFragment
        <4>2. QED
          BY <1>1, <2>4, <4>1
      <3>2. b = Len(h)
        <4>1. h[b].of = c /\ h[b].at = b - L - g - 1
          BY <1>4, <3>1
        <4>2. b # 0 /\ b \in Nat /\ b <= L + g + k
          BY <1>0, <3>1
        <4>3. h[b].at = Size(c) - 1
          BY <1>9, <4>1, <4>2 DEF Boundary, EndsFragment
        <4>4. b - L - g - 1 = Size(c) - 1
          BY <4>1, <4>3
        <4>5. QED
          BY <1>0, <1>6, <4>2, <4>4
      <3>3. QED
        BY <1>1, <2>1, <3>2 DEF NextAt
    <2>5. QED
      BY <1>1, <2>2, <2>3, <2>4
  <1>10. QED
    BY <1>8, <1>9 DEF Aligned

-----------------------------------------------------------------------------
(* The writer.                                                             *)

\* The next fragment fits its block, is one of the record, and if it does not end
\* it, fills the block.
LEMMA CurrentOK ==
  ASSUME Typed, WriterOK, state = "adding"
  PROVE  /\ Fill \in Nat /\ Start \in Nat /\ Taken \in 0..left
         /\ Start + Header + Taken <= Block
         /\ Taken # left => Start + Header + Taken = Block
         /\ Current \in Fragment /\ FragmentOK(Current, records)
         /\ Size(Current) = Header + Taken /\ Size(Current) \in Nat \ {0}
         /\ Current.id = Len(records) /\ Current.frag = frags + 1 /\ Current.len = Taken
         /\ Current.from = records[Len(records)] - left
         /\ Current.type \in Final <=> Taken = left
         /\ frags > 0 => /\ Fill = 0 /\ Len(file) > 0
                         /\ EndsFragment(file[Len(file)])
                         /\ Follows(file[Len(file)].of, Current)
  <1>1. /\ Header \in Nat \ {0} /\ Block \in Nat /\ Block > Header /\ Lengths \subseteq Nat
        /\ blockOffset \in 0..Block /\ left \in Nat /\ frags \in Nat
        /\ records \in Seq(Lengths) /\ Len(records) \in Nat
    BY SizeAssumption DEF Typed
  <1>2. /\ Len(records) > 0 /\ left <= records[Len(records)]
        /\ frags = 0 => left = records[Len(records)]
        /\ frags > 0 => left > 0 /\ blockOffset = Block /\ EndOfPart
    BY DEF WriterOK
  <1>3. Len(records) \in DOMAIN records /\ records[Len(records)] \in Nat
    <2>1. Len(records) \in 1..Len(records)
      BY <1>1, <1>2
    <2>2. records[Len(records)] \in Lengths
      BY <1>1, <2>1, ElementOfSeq
    <2>3. Len(records) \in DOMAIN records
      BY <1>1, <2>1
    <2>4. records[Len(records)] \in Nat
      BY <1>1, <2>2
    <2>5. QED
      BY <2>3, <2>4
  <1>4. Fill \in Nat /\ Start \in Nat /\ Start + Header <= Block
    BY <1>1 DEF Fill, Start, Room
  <1>5. /\ Taken \in 0..left /\ Start + Header + Taken <= Block
        /\ Taken # left => Start + Header + Taken = Block
    BY <1>1, <1>4 DEF Taken, Lesser
  <1> DEFINE last == Taken = left
  <1>6. Type(frags = 0, last)
          = IF frags = 0 THEN (IF last THEN "full" ELSE "first")
                         ELSE (IF last THEN "last" ELSE "middle")
    BY DEF Type
  <1>7. /\ Current.id = Len(records) /\ Current.frag = frags + 1 /\ Current.len = Taken
        /\ Current.from = records[Len(records)] - left
        /\ Current.type = IF frags = 0 THEN (IF last THEN "full" ELSE "first")
                                       ELSE (IF last THEN "last" ELSE "middle")
    BY <1>6 DEF Current
  <1>8. Current.type \in Final <=> Taken = left
    BY <1>7 DEF Final
  <1>9. Current \in Fragment
    <2>1. /\ records[Len(records)] - left \in Nat /\ frags + 1 \in Nat /\ Taken \in Nat
          /\ Len(records) \in Nat
      BY <1>1, <1>2, <1>3, <1>5
    <2>2. Type(frags = 0, last) \in {"zero", "full", "first", "middle", "last"}
      BY <1>6
    <2>3. QED
      BY <2>1, <2>2 DEF Current, Fragment
  <1>10. FragmentOK(Current, records)
    <2>1. Current.frag >= 1 /\ (Current.frag = 1 <=> frags = 0)
      BY <1>1, <1>7
    <2>2. Current.type # "zero" /\ (frags = 0 <=> Current.type \in {"first", "full"})
      BY <1>7
    <2>3. frags = 0 => Current.from = 0
      BY <1>2, <1>3, <1>7
    <2>4. Taken = left => Current.from + Current.len = records[Len(records)]
      BY <1>1, <1>3, <1>7
    <2>5. QED
      BY <1>3, <1>7, <1>8, <2>1, <2>2, <2>3, <2>4 DEF FragmentOK
  <1>11. Size(Current) = Header + Taken /\ Size(Current) \in Nat \ {0}
    BY <1>1, <1>5, <1>7 DEF Size
  <1>12. ASSUME frags > 0
         PROVE  /\ Fill = 0 /\ Len(file) > 0 /\ EndsFragment(file[Len(file)])
                /\ Follows(file[Len(file)].of, Current)
    <2>1. blockOffset = Block /\ EndOfPart
      BY <1>2, <1>12
    <2>2. Fill = 0
      BY <1>1, <2>1 DEF Fill, Room
    <2>3. QED
      BY <1>7, <2>1, <2>2 DEF EndOfPart, Follows
  <1>13. QED
    BY <1>4, <1>5, <1>7, <1>8, <1>9, <1>10, <1>11, <1>12

\* Whatever part of the fill and of the fragment gets to the file, it stays a file
\* of fragments.
LEMMA WrittenOK ==
  ASSUME Typed, WriterOK, FileOK(file, records), state = "adding",
         NEW g \in 0..Fill, NEW k \in 0..Size(Current), NEW h,
         h = file \o Zeros(g) \o Cells(Current, k)
  PROVE  /\ Grown(file, h, Current, g, k)
         /\ FileOK(h, records)
  <1>1. /\ Fill \in Nat /\ Current \in Fragment /\ FragmentOK(Current, records)
        /\ Size(Current) \in Nat /\ Current.id = Len(records) /\ Current.frag = frags + 1
        /\ frags > 0 => /\ Fill = 0 /\ Len(file) > 0 /\ EndsFragment(file[Len(file)])
                        /\ Follows(file[Len(file)].of, Current)
    BY CurrentOK
  <1>2. file \in Seq(Cell) /\ g \in Nat /\ k \in Nat /\ k <= Size(Current) /\ frags \in Nat
    BY <1>1 DEF Typed
  <1>3. Grown(file, h, Current, g, k)
    BY <1>1, <1>2, WrittenGrown
  <1>4. \A i \in DOMAIN file : EndsRecord(file[i]) => file[i].of.id < Current.id
    BY <1>1 DEF WriterOK
  <1>5. Current.frag > 1 => /\ g = 0 /\ Len(file) > 0 /\ EndsFragment(file[Len(file)])
                            /\ Follows(file[Len(file)].of, Current)
    BY <1>1, <1>2
  <1> DEFINE c == Current
  <1> HIDE DEF c
  <1>6. QED
    BY <1>1, <1>2, <1>3, <1>4, <1>5, GrownOK DEF c

\* With a whole tail the writer is where the next fragment is due.
LEMMA Due ==
  ASSUME Typed, WriterOK, TailOK, state = "adding", tail = "whole"
  PROVE  /\ FillAt(Len(file)) = Fill
         /\ (Len(file) + Fill) % Block = Start
         /\ Boundary(file, Len(file)) /\ Succeeds(file, Len(file), Current)
  <1>1. /\ Header \in Nat \ {0} /\ Block \in Nat /\ Block > Header
        /\ blockOffset \in 0..Block /\ frags \in Nat
        /\ file \in Seq(Cell) /\ Len(file) \in Nat /\ records \in Seq(Lengths)
        /\ Len(records) \in Nat
    BY SizeAssumption DEF Typed
  <1>2. /\ blockOffset % Block = Len(file) % Block
        /\ frags = 0 => IF Len(file) = 0 THEN NextId = 1
                        ELSE /\ EndsRecord(file[Len(file)])
                             /\ file[Len(file)].of.id + 1 = NextId
    BY DEF TailOK
  <1>3. /\ Current.id = Len(records) /\ Current.frag = frags + 1
        /\ frags > 0 => /\ Len(file) > 0 /\ EndsFragment(file[Len(file)])
                        /\ Follows(file[Len(file)].of, Current)
    BY CurrentOK
  <1>4. FillAt(Len(file)) = Fill /\ (Len(file) + Fill) % Block = Start
    <2>1. CASE blockOffset = Block
      <3>1. Len(file) % Block = 0
        BY <1>1, <1>2, <2>1, Modulo
      <3>2. QED
        BY <1>1, <2>1, <3>1 DEF FillAt, Fill, Start, Room
    <2>2. CASE blockOffset < Block
      <3>1. Len(file) % Block = blockOffset
        <4>1. blockOffset \in Nat /\ blockOffset % Block = blockOffset
          <5>1. blockOffset \in Nat
            BY <1>1
          <5>2. QED
            BY <2>2, <5>1, Modulo
        <4>2. QED
          BY <1>2, <4>1
      <3>2. FillAt(Len(file)) = Fill
        BY <3>1 DEF FillAt, Fill, Room
      <3>3. CASE Block - blockOffset < Header
        <4>1. Fill = Block - blockOffset /\ Start = 0
          BY <3>3 DEF Fill, Start, Room
        <4>2. Fill \in Nat /\ (Len(file) % Block) + Fill = Block
          BY <1>1, <3>1, <4>1
        <4>3. (Len(file) + Fill) % Block = 0
          BY <1>1, <4>2, BlockSums
        <4>4. QED
          BY <3>2, <4>1, <4>3
      <3>4. CASE ~(Block - blockOffset < Header)
        <4>1. Fill = 0 /\ Start = blockOffset
          BY <3>4 DEF Fill, Start, Room
        <4>2. QED
          BY <1>1, <3>1, <3>2, <4>1
      <3>5. QED
        BY <3>3, <3>4
    <2>3. QED
      BY <1>1, <2>1, <2>2
  <1>5. Boundary(file, Len(file)) /\ Succeeds(file, Len(file), Current)
    <2>1. CASE frags = 0 /\ Len(file) = 0
      BY <1>1, <1>2, <1>3, <2>1 DEF Boundary, Succeeds, NextId
    <2>2. CASE frags = 0 /\ Len(file) # 0
      <3>1. EndsRecord(file[Len(file)]) /\ file[Len(file)].of.id + 1 = Len(records)
        BY <1>2, <2>2 DEF NextId
      <3>2. Current.id = file[Len(file)].of.id + 1 /\ Current.frag = 1
        BY <1>3, <2>2, <3>1
      <3>3. QED
        BY <2>2, <3>1, <3>2 DEF Boundary, Succeeds, EndsRecord, Final
    <2>3. CASE frags > 0
      <3>1. /\ Len(file) # 0 /\ EndsFragment(file[Len(file)])
            /\ Follows(file[Len(file)].of, Current)
        BY <1>1, <1>3, <2>3
      <3>2. Current.frag > 1
        BY <1>1, <1>3, <2>3
      <3>3. QED
        BY <3>1, <3>2 DEF Boundary, Succeeds, Follows
    <2>4. QED
      BY <1>1, <2>1, <2>2, <2>3
  <1>6. QED
    BY <1>4, <1>5

\* In the order of writing, it stays aligned.
LEMMA WrittenAligned ==
  ASSUME Typed, WriterOK, TailOK, FileOK(file, records), Aligned(file),
         state = "adding", tail = "whole",
         NEW g \in 0..Fill, NEW k \in 0..Size(Current), k = 0 \/ g = Fill, NEW h,
         h = file \o Zeros(g) \o Cells(Current, k)
  PROVE  Aligned(h)
  <1>1. /\ Fill \in Nat /\ Current \in Fragment /\ FragmentOK(Current, records)
        /\ Size(Current) \in Nat /\ Size(Current) = Header + Taken
        /\ Start \in Nat /\ Taken \in Nat /\ Start + Header + Taken <= Block
    BY CurrentOK DEF Typed
  <1>2. file \in Seq(Cell) /\ g \in Nat /\ k \in Nat /\ k <= Size(Current) /\ Len(file) \in Nat
    BY <1>1 DEF Typed
  <1>3. /\ FillAt(Len(file)) = Fill /\ (Len(file) + Fill) % Block = Start
        /\ Boundary(file, Len(file)) /\ Succeeds(file, Len(file), Current)
    BY Due
  <1>4. ((Len(file) + FillAt(Len(file))) % Block) + Size(Current) <= Block
    BY <1>1, <1>3, SizeAssumption
  <1> DEFINE c == Current
             full == file \o Zeros(Fill) \o Cells(c, k)
  <1>5. Grown(file, full, c, Fill, k)
    BY <1>1, <1>2, WrittenGrown
  <1> HIDE DEF c, full
  <1>6. Aligned(full)
    <2>1. Grown(file, full, c, FillAt(Len(file)), k)
      BY <1>3, <1>5
    <2>2. c \in Fragment /\ FragmentOK(c, records) /\ k <= Size(c) /\ Succeeds(file, Len(file), c)
          /\ ((Len(file) + FillAt(Len(file))) % Block) + Size(c) <= Block
      BY <1>1, <1>2, <1>3, <1>4 DEF c
    <2>3. QED
      BY <1>2, <1>3, <2>1, <2>2, GrownAligned
  <1>7. CASE g = Fill
    BY <1>6, <1>7 DEF full, c
  <1>8. CASE k = 0
    <2>1. Grown(file, h, c, g, 0)
      BY <1>1, <1>2, <1>8, WrittenGrown DEF c
    <2>2. /\ h \in Seq(Cell) /\ Len(h) = Len(file) + g
          /\ \A i \in 1..Len(file) : h[i] = file[i]
          /\ \A i \in Len(file) + 1..Len(file) + g : h[i] = Zero
      BY <1>2, <2>1 DEF Grown
    <2>3. /\ full \in Seq(Cell) /\ Len(full) = Len(file) + Fill
          /\ \A i \in 1..Len(file) : full[i] = file[i]
          /\ \A i \in Len(file) + 1..Len(file) + Fill : full[i] = Zero
      BY <1>1, <1>2, <1>5, <1>8 DEF Grown
    <2>4. Cut(full, h)
      <3>1. ASSUME NEW i \in 1..Len(h)
            PROVE  h[i] = full[i]
        <4>1. CASE i \in 1..Len(file)
          BY <2>2, <2>3, <4>1
        <4>2. CASE i \in Len(file) + 1..Len(file) + g
          <5>1. i \in Len(file) + 1..Len(file) + Fill
            BY <1>1, <1>2, <4>2
          <5>2. QED
            BY <2>2, <2>3, <4>2, <5>1
        <4>3. QED
          BY <1>2, <2>2, <4>1, <4>2
      <3>2. Len(h) <= Len(full)
        BY <1>1, <1>2, <2>2, <2>3
      <3>3. QED
        BY <2>2, <3>1, <3>2 DEF Cut
    <2>5. QED
      BY <1>6, <2>3, <2>4, CutAligned
  <1>9. QED
    BY <1>7, <1>8

\* The intact part of the file,
LEMMA PrefixType ==
  ASSUME IInv, AInv
  PROVE  /\ intact \in Nat /\ intact <= Len(file)
         /\ Prefix \in Seq(Cell) /\ Len(Prefix) = intact /\ DOMAIN Prefix = 1..intact
         /\ \A i \in 1..intact : i \in DOMAIN file /\ Prefix[i] = file[i]
  <1>1. file \in Seq(Cell) /\ intact \in 0..Len(file)
    BY DEF IInv, Typed, AInv
  <1>2. Cut(file, Prefix) /\ Len(Prefix) = intact
    BY <1>1, SubSeqCut DEF Prefix
  <1>3. Prefix \in Seq(Cell) /\ \A i \in 1..intact : Prefix[i] = file[i]
    BY <1>2 DEF Cut
  <1>4. QED
    BY <1>1, <1>2, <1>3

\* which is the whole of it if nothing was written behind a torn end.
LEMMA PrefixWhole ==
  ASSUME IInv, AInv, tail # "buried"
  PROVE  Aligned(file) /\ TailOK
  <1>1. intact = Len(file) /\ TailOK /\ Aligned(Prefix)
    BY DEF AInv
  <1>2. Cut(Prefix, file)
    BY <1>1, PrefixType DEF Cut, IInv, Typed
  <1>3. QED
    BY <1>1, <1>2, PrefixType, CutAligned

\* A reader that has not begun.
LEMMA QuietNext ==
  ASSUME pos' = 0, end' = 0, eof' = FALSE, scratch' = <<>>, read' = <<>>, state' # "read"
  PROVE  BufferOK' /\ ScratchOK' /\ ReadOK' /\ ReaderOff'
  <1>1. BufferOK'
    <2>1. 0 % Block = 0
      BY Modulo, SizeAssumption
    <2>2. QED
      BY <2>1, SizeAssumption DEF BufferOK
  <1>2. ScratchOK' /\ ReadOK' /\ ReaderOff'
    BY DEF ScratchOK, ReadOK, ReaderOff
  <1>3. QED
    BY <1>1, <1>2

\* It is at the first boundary of what is intact.
LEMMA QuietAligned ==
  ASSUME pos' = 0, scratch' = <<>>, read' = <<>>, state' # "read", intact' \in Nat
  PROVE  AlignedReader'
  <1>1. Boundary(file', 0) /\ Progress(0)' /\ Ids'
    BY DEF Boundary, Progress, Ids
  <1>2. Halfway(0)'
    BY <1>1 DEF Halfway
  <1>3. QED
    BY <1>2 DEF AlignedReader

\* A step that does not write,
LEMMA SameFile ==
  ASSUME AInv, UNCHANGED <<file, tail, intact>>, TailOK => TailOK', AlignedReader'
  PROVE  AInv'
  <1>1. Prefix' = Prefix
    BY DEF Prefix
  <1>2. Aligned(Prefix)' <=> Aligned(Prefix)
    BY <1>1 DEF Aligned, Forward, NextAt, Succeeds, Boundary
  <1>3. QED
    BY <1>2 DEF AInv

\* and one that does, and leaves alone the cells there are or drops the last of them.
LEMMA IntactStep ==
  ASSUME IInv, AInv, IInv', Intact,
         \A i \in 1..Len(file) : i <= Len(file') => file'[i] = file[i],
         tail = "buried" => tail' = "buried",
         tail' # "buried" => Aligned(file') /\ TailOK',
         pos' = 0, scratch' = <<>>, read' = <<>>, state' # "read"
  PROVE  AInv'
  <1>1. file' \in Seq(Cell) /\ Len(file') \in Nat
    BY DEF IInv, Typed
  <1>2. intact \in Nat /\ intact <= Len(file) /\ Len(file) \in Nat
    BY PrefixType DEF IInv, Typed
  <1>3. intact' \in 0..Len(file') /\ (tail' # "buried" => intact' = Len(file'))
        /\ (tail' = "buried" => intact' <= intact)
    BY <1>1, <1>2 DEF Intact, Lesser
  <1> DEFINE h == SubSeq(file', 1, intact')
  <1>4. h \in Seq(Cell) /\ Len(h) = intact' /\ \A i \in 1..intact' : h[i] = file'[i]
    BY <1>1, <1>3, SubSeqCut DEF Cut
  <1> HIDE DEF h
  <1>5. Aligned(h)
    <2>1. CASE tail' # "buried"
      <3>1. Cut(file', h)
        BY <1>3, <1>4, <2>1 DEF Cut
      <3>2. QED
        BY <1>1, <2>1, <3>1, CutAligned
    <2>2. CASE tail' = "buried"
      <3>1. ASSUME NEW i \in 1..intact'
            PROVE  h[i] = Prefix[i]
        <4>1. i \in 1..intact /\ i \in 1..Len(file) /\ i <= Len(file')
          BY <1>1, <1>2, <1>3, <2>2
        <4>2. QED
          BY <1>4, <4>1, PrefixType
      <3>2. Cut(Prefix, h)
        BY <1>3, <1>4, <2>2, <3>1, PrefixType DEF Cut
      <3>3. Aligned(Prefix)
        BY DEF AInv
      <3>4. QED
        BY <3>2, <3>3, PrefixType, CutAligned
    <2>3. QED
      BY <2>1, <2>2
  <1>6. Aligned(Prefix)'
    <2>1. Prefix' = h
      BY DEF Prefix, h
    <2>2. QED
      BY <1>5, <2>1 DEF Aligned, Forward, NextAt, Succeeds, Boundary
  <1>7. AlignedReader'
    BY <1>3, QuietAligned
  <1>8. QED
    BY <1>3, <1>6, <1>7 DEF AInv

\* A record keeps its last cell while the file grows.
LEMMA GrownWhole ==
  ASSUME Typed, NEW c, NEW g \in Nat, NEW k \in Nat, Grown(file, file', c, g, k), NEW r, Whole(r)
  PROVE  Whole(r)'
  <1>1. PICK i \in DOMAIN file : EndsRecord(file[i]) /\ file[i].of.id = r
    BY DEF Whole
  <1>2. DOMAIN file = 1..Len(file) /\ Len(file) \in Nat /\ DOMAIN file' = 1..Len(file')
        /\ Len(file') = Len(file) + g + k /\ file'[i] = file[i]
    <2>1. file \in Seq(Cell) /\ DOMAIN file = 1..Len(file) /\ Len(file) \in Nat
      BY DEF Typed
    <2>2. /\ file' \in Seq(Cell) /\ Len(file') = Len(file) + g + k
          /\ \A j \in 1..Len(file) : file'[j] = file[j]
      BY DEF Grown
    <2>3. DOMAIN file' = 1..Len(file')
      BY <2>2
    <2>4. QED
      BY <1>1, <2>1, <2>2, <2>3
  <1>3. i \in DOMAIN file'
    BY <1>1, <1>2
  <1>4. QED
    BY <1>1, <1>2, <1>3 DEF Whole

\* One lemma for each action of the writer.
LEMMA AddRecordStep ==
  ASSUME IInv, AInv, NEW n \in Lengths, AddRecord(n)
  PROVE  IInv' /\ AInv'
  <1>1. /\ file \in Seq(Cell) /\ Lengths \subseteq Nat /\ records \in Seq(Lengths) /\ n \in Nat
        /\ Len(records) \in Nat /\ DOMAIN records = 1..Len(records) /\ MaxRecords \in Nat
    BY SizeAssumption, BoundAssumption DEF IInv, Typed
  <1>2. /\ records' = Append(records, n) /\ records' \in Seq(Lengths)
        /\ Len(records') = Len(records) + 1 /\ DOMAIN records' = 1..Len(records) + 1
        /\ \A r \in DOMAIN records : r \in DOMAIN records' /\ records'[r] = records[r]
        /\ records'[Len(records) + 1] = n
    BY <1>1, AppendProperties DEF AddRecord
  <1>3. /\ file' = file /\ state = "idle" /\ state' = "adding" /\ left' = n /\ frags' = 0
        /\ Len(records) < MaxRecords /\ blockOffset' = blockOffset /\ acked' = acked
        /\ tail' = tail /\ intact' = intact /\ reopens' = reopens
        /\ UNCHANGED <<pos, end, eof, scratch, read>>
    BY DEF AddRecord, reader
  <1>4. Typed'
    <2>1. acked' \subseteq 1..Len(records') /\ Len(records') <= MaxRecords
      BY <1>1, <1>2, <1>3 DEF IInv, Typed
    <2>2. QED
      BY <1>1, <1>2, <1>3, <2>1 DEF IInv, Typed
  <1>5. FileOK(file', records')
    <2>1. CellsOK(file, records')
      BY <1>2 DEF IInv, FileOK, CellsOK, FragmentOK
    <2>2. QED
      BY <1>3, <2>1 DEF IInv, FileOK
  <1>6. WriterOK'
    <2>1. ASSUME NEW i \in DOMAIN file, EndsRecord(file[i])
          PROVE  file[i].of.id < Len(records')
      <3>1. file[i].of.id \in DOMAIN records
        BY <2>1 DEF IInv, FileOK, CellsOK, FragmentOK, EndsRecord, EndsFragment
      <3>2. QED
        BY <1>1, <1>2, <3>1
    <2>2. QED
      BY <1>1, <1>2, <1>3, <2>1 DEF WriterOK
  <1>7. AckedOK'
    BY <1>3 DEF IInv, AckedOK, Whole
  <1>8. pos' = 0 /\ end' = 0 /\ eof' = FALSE /\ scratch' = <<>> /\ read' = <<>>
    BY <1>3 DEF IInv, ReaderOff, Typed
  <1>9. BufferOK' /\ ScratchOK' /\ ReadOK' /\ ReaderOff'
    BY <1>3, <1>8, QuietNext
  <1>10. IInv'
    BY <1>3, <1>4, <1>5, <1>6, <1>7, <1>9 DEF IInv
  <1>11. AInv'
    <2>1. NextId' = NextId /\ frags = 0
      BY <1>2, <1>3 DEF NextId, IInv
    <2>2. TailOK => TailOK'
      BY <1>3, <2>1 DEF TailOK
    <2>3. AlignedReader'
      BY <1>3 DEF AlignedReader
    <2>4. QED
      BY <1>3, <2>2, <2>3, SameFile
  <1>12. QED
    BY <1>10, <1>11

\* A fragment that was written, behind all of its fill or not.
LEMMA EmittedStep ==
  ASSUME IInv, NEW g \in 0..Fill, Emitted(g), tail' \in {"whole", "torn", "buried"}
  PROVE  /\ IInv' /\ \A i \in 1..Len(file) : file'[i] = file[i]
         /\ pos' = 0 /\ scratch' = <<>> /\ read' = <<>> /\ state' # "read"
         /\ Len(file') = Len(file) + g + Size(Current)
         /\ blockOffset' = Start + Size(Current)
         /\ frags' = 0 => /\ state' = "idle" /\ records' = records
                          /\ EndsRecord(file'[Len(file')])
                          /\ file'[Len(file')].of.id = Len(records)
  <1> DEFINE k == Size(Current)
             s == Len(records)
             x == Current
             w == file'
  <1>1. /\ Typed /\ WriterOK /\ FileOK(file, records) /\ AckedOK
        /\ state = "adding" /\ w = file \o Zeros(g) \o Cells(x, k)
        /\ blockOffset' = Start + k
        /\ records' = records /\ reopens' = reopens
        /\ UNCHANGED <<pos, end, eof, scratch, read>>
    BY DEF IInv, Emitted, Written, OffsetAfter, reader
  <1>2. /\ Fill \in Nat /\ Start \in Nat /\ Taken \in 0..left
        /\ Start + k <= Block
        /\ Taken # left => Start + k = Block
        /\ x \in Fragment /\ FragmentOK(x, records)
        /\ k \in Nat \ {0}
        /\ x.id = s /\ x.frag = frags + 1 /\ x.len = Taken
        /\ x.from = records[s] - left
        /\ x.type \in Final <=> Taken = left
    <2>1. /\ Fill \in Nat /\ Start \in Nat /\ Taken \in 0..left
          /\ Start + Header + Taken <= Block
          /\ Taken # left => Start + Header + Taken = Block
          /\ Current \in Fragment /\ FragmentOK(Current, records)
          /\ Size(Current) = Header + Taken /\ Size(Current) \in Nat \ {0}
          /\ Current.id = Len(records) /\ Current.frag = frags + 1 /\ Current.len = Taken
          /\ Current.from = records[Len(records)] - left
          /\ Current.type \in Final <=> Taken = left
      BY <1>1, CurrentOK
    <2>2. Start + k = Start + Header + Taken
      BY <2>1, SizeAssumption DEF Typed
    <2>3. QED
      BY <2>1, <2>2
  <1>3. /\ file \in Seq(Cell) /\ Len(file) \in Nat /\ DOMAIN file = 1..Len(file)
        /\ left \in Nat /\ frags \in Nat /\ records \in Seq(Lengths) /\ s \in Nat
        /\ g \in Nat /\ Header \in Nat /\ Block \in Nat
    <2>1. file \in Seq(Cell) /\ left \in Nat /\ frags \in Nat /\ records \in Seq(Lengths)
      BY <1>1 DEF Typed
    <2>2. Len(file) \in Nat /\ DOMAIN file = 1..Len(file) /\ s \in Nat
      BY <2>1
    <2>3. Fill \in Nat
      BY <1>2
    <2>4. g \in Nat
      BY <2>3
    <2>5. QED
      BY <2>1, <2>2, <2>4, SizeAssumption
  <1>4. k \in 0..Size(Current)
    BY <1>2
  <1>5. Grown(file, w, x, g, k) /\ FileOK(w, records)
    BY <1>1, <1>4, WrittenOK
  <1>6. s > 0 /\ left <= records[s] /\ s \in DOMAIN records /\ records[s] \in Nat
        /\ \A i \in DOMAIN file : EndsRecord(file[i]) => file[i].of.id < s
    <2>1. s > 0 /\ left <= records[s]
          /\ \A i \in DOMAIN file : EndsRecord(file[i]) => file[i].of.id < s
      BY <1>1 DEF WriterOK
    <2>2. s \in 1..s
      BY <1>3, <2>1
    <2>3. records[s] \in Lengths
      BY <1>3, <2>2, ElementOfSeq
    <2>4. s \in DOMAIN records
      BY <1>3, <2>2
    <2>5. QED
      BY <2>1, <2>3, <2>4, SizeAssumption
  <1>7. IF Taken = left
        THEN state' = "idle" /\ acked' = acked \cup {s} /\ left' = 0 /\ frags' = 0
        ELSE left' = left - Taken /\ frags' = frags + 1 /\ state' = state /\ acked' = acked
    BY DEF Emitted, NoRecord
  <1> HIDE DEF k, s, x, w
  <1>8. /\ w \in Seq(Cell) /\ Len(w) = Len(file) + g + k /\ DOMAIN w = 1..Len(w)
        /\ \A i \in 1..Len(file) : w[i] = file[i]
        /\ \A i \in Len(file) + 1..Len(file) + g : w[i] = Zero
        /\ \A i \in Len(file) + g + 1..Len(w) : w[i] = [of |-> x, at |-> i - Len(file) - g - 1]
    BY <1>5 DEF Grown
  <1>9. Len(w) > 0 /\ Len(w) \in Len(file) + g + 1..Len(w) /\ Len(w) - Len(file) - g - 1 = k - 1
    BY <1>2, <1>3, <1>8
  <1>10. /\ w[Len(w)].of = x /\ w[Len(w)].at = k - 1 /\ EndsFragment(w[Len(w)])
    <2>1. w[Len(w)] = [of |-> x, at |-> k - 1]
      BY <1>8, <1>9
    <2>2. x # NoFragment
      BY <1>2 DEF FragmentOK, NoFragment
    <2>3. QED
      BY <2>1, <2>2 DEF EndsFragment, k, x
  <1>11. Typed'
    <2>1. blockOffset' \in 0..Block
      BY <1>1, <1>2, <1>3
    <2>2. left' \in Nat /\ frags' \in Nat /\ state' \in {"idle", "adding", "reading", "read"}
      BY <1>1, <1>2, <1>3, <1>7
    <2>3. acked' \subseteq 1..Len(records')
      <3>1. acked \subseteq 1..s /\ s \in 1..s
        BY <1>1, <1>3, <1>6 DEF Typed, s
      <3>2. acked' \subseteq 1..s
        BY <1>7, <3>1
      <3>3. Len(records') = s
        BY <1>1 DEF s
      <3>4. QED
        BY <3>2, <3>3
    <2>4. end' \in 0..Len(file')
      BY <1>1, <1>2, <1>3, <1>8 DEF Typed, w
    <2>5. file' \in Seq(Cell)
      BY <1>8 DEF w
    <2>6. QED
      BY <1>1, <2>1, <2>2, <2>3, <2>4, <2>5 DEF Typed
  <1>12. FileOK(file', records')
    BY <1>1, <1>5 DEF w
  <1>13. WriterOK'
    <2> SUFFICES ASSUME state' = "adding"
                 PROVE  /\ s > 0 /\ left' <= records[s]
                        /\ \A i \in DOMAIN w : EndsRecord(w[i]) => w[i].of.id < s
                        /\ frags' = 0 => left' = records[s]
                        /\ frags' > 0 => left' > 0 /\ blockOffset' = Block /\ EndOfPart'
      BY <1>1 DEF WriterOK, w, s
    <2>1. Taken # left /\ left' = left - Taken /\ frags' = frags + 1 /\ x.type \notin Final
      BY <1>2, <1>7
    <2>2. ASSUME NEW i \in DOMAIN w, EndsRecord(w[i])
          PROVE  w[i].of.id < s
      <3>1. CASE i \in 1..Len(file)
        BY <1>3, <1>6, <1>8, <2>2, <3>1
      <3>2. CASE i \in Len(file) + 1..Len(file) + g
        BY <1>8, <2>2, <3>2, ZeroCell DEF EndsRecord, EndsFragment
      <3>3. CASE i \in Len(file) + g + 1..Len(w)
        <4>1. w[i] = [of |-> x, at |-> i - Len(file) - g - 1]
          BY <1>8, <3>3
        <4>2. w[i].of = x
          BY <4>1
        <4>3. QED
          BY <2>1, <2>2, <4>2 DEF EndsRecord, Final
      <3>4. QED
        BY <1>3, <1>8, <2>2, <3>1, <3>2, <3>3
    <2>3. x.from + x.len = records[s] - left'
      BY <1>2, <1>3, <1>6, <2>1
    <2>4. EndOfPart'
      <3>1. w[Len(w)].of.id = s /\ w[Len(w)].of.frag = frags' /\ w[Len(w)].of.type \notin Final
        BY <1>2, <1>10, <2>1
      <3>2. w[Len(w)].of.from + w[Len(w)].of.len = records[s] - left'
        BY <1>10, <2>3
      <3>3. QED
        BY <1>1, <1>9, <1>10, <3>1, <3>2 DEF EndOfPart, w, s
    <2>5. left' > 0 /\ left' <= records[s] /\ frags' # 0
      <3>1. Taken \in 0..left /\ Taken # left
        BY <1>2, <2>1
      <3>2. left' \in 1..left
        BY <1>3, <2>1, <3>1
      <3>3. frags' # 0
        BY <1>3, <2>1
      <3>4. left \in Nat /\ left <= records[s] /\ records[s] \in Nat
        BY <1>3, <1>6
      <3>5. QED
        BY <3>2, <3>3, <3>4
    <2>6. blockOffset' = Block
      BY <1>1, <1>2, <2>1
    <2>7. QED
      BY <1>6, <2>2, <2>4, <2>5, <2>6
  <1>14. AckedOK'
    <2> SUFFICES ASSUME NEW r \in acked'
                 PROVE  Whole(r)'
      BY DEF AckedOK
    <2>1. CASE r \in acked
      <3>1. Whole(r)
        BY <1>1, <2>1 DEF AckedOK
      <3>2. k \in Nat /\ Grown(file, file', x, g, k)
        BY <1>2, <1>5 DEF w
      <3>3. QED
        BY <1>1, <1>3, <3>1, <3>2, GrownWhole
    <2>2. CASE r \notin acked
      <3>1. Taken = left /\ r = s
        BY <1>7, <2>2
      <3>2. EndsRecord(w[Len(w)]) /\ w[Len(w)].of.id = r
        BY <1>2, <1>10, <3>1 DEF EndsRecord, Final
      <3>3. Len(w) \in DOMAIN w
        BY <1>8, <1>9, <1>3
      <3>4. QED
        BY <3>2, <3>3 DEF Whole, w
    <2>3. QED
      BY <2>1, <2>2
  <1>15. pos' = 0 /\ end' = 0 /\ eof' = FALSE /\ scratch' = <<>> /\ read' = <<>>
    BY <1>1 DEF IInv, ReaderOff, Typed
  <1>16. state' # "read" /\ (state' # "adding" => frags' = 0)
    BY <1>1, <1>7
  <1>17. BufferOK' /\ ScratchOK' /\ ReadOK' /\ ReaderOff'
    BY <1>15, <1>16, QuietNext
  <1>18. IInv'
    BY <1>11, <1>12, <1>13, <1>14, <1>16, <1>17 DEF IInv
  <1>19. ASSUME frags' = 0
         PROVE  /\ state' = "idle" /\ EndsRecord(w[Len(w)]) /\ w[Len(w)].of.id = s
    <2>1. Taken = left
      BY <1>3, <1>7, <1>19
    <2>2. QED
      BY <1>2, <1>7, <1>10, <2>1 DEF EndsRecord, Final
  <1>20. Len(file') = Len(file) + g + Size(Current) /\ blockOffset' = Start + Size(Current)
    BY <1>1, <1>8 DEF w, k
  <1>21. QED
    BY <1>1, <1>8, <1>15, <1>16, <1>18, <1>19, <1>20 DEF w, s

LEMMA EmitStep ==
  ASSUME IInv, AInv, Emit
  PROVE  IInv' /\ AInv'
  <1>1. /\ Emitted(Fill) /\ state = "adding" /\ Typed /\ WriterOK /\ FileOK(file, records)
        /\ file' = file \o Zeros(Fill) \o Cells(Current, Size(Current))
        /\ tail' = IF tail = "whole" THEN "whole" ELSE "buried"
        /\ Intact
    BY DEF IInv, Emit, Emitted, Written, Behind
  <1>2. /\ Fill \in Nat /\ Start \in Nat /\ Size(Current) \in Nat \ {0}
        /\ Start + Size(Current) <= Block
    <2>1. /\ Fill \in Nat /\ Start \in Nat /\ Size(Current) \in Nat \ {0}
          /\ Start + Header + Taken <= Block /\ Size(Current) = Header + Taken
          /\ Taken \in 0..left
      BY <1>1, CurrentOK
    <2>2. QED
      BY <2>1, SizeAssumption, <1>1 DEF Typed
  <1>3. Fill \in 0..Fill /\ Size(Current) \in 0..Size(Current)
    BY <1>2
  <1>4. /\ IInv' /\ \A i \in 1..Len(file) : file'[i] = file[i]
        /\ pos' = 0 /\ scratch' = <<>> /\ read' = <<>> /\ state' # "read"
        /\ Len(file') = Len(file) + Fill + Size(Current)
        /\ blockOffset' = Start + Size(Current)
        /\ frags' = 0 => /\ state' = "idle" /\ records' = records
                         /\ EndsRecord(file'[Len(file')])
                         /\ file'[Len(file')].of.id = Len(records)
    BY <1>1, <1>3, EmittedStep
  <1>5. ASSUME tail = "whole"
        PROVE  Aligned(file') /\ TailOK'
    <2>1. Aligned(file) /\ TailOK
      BY <1>5, PrefixWhole
    <2>2. Aligned(file')
      BY <1>1, <1>3, <1>5, <2>1, WrittenAligned
    <2>3. (Len(file) + Fill) % Block = Start /\ Len(file) \in Nat /\ Len(records) \in Nat
      BY <1>1, <1>5, <2>1, Due DEF Typed
    <2> DEFINE z == Size(Current)
               a == Len(file) + Fill
    <2>4. a \in Nat /\ z \in Nat /\ a % Block = Start /\ Start + z <= Block
          /\ Len(file') = a + z /\ blockOffset' = Start + z /\ z > 0
      BY <1>2, <1>4, <2>3
    <2> HIDE DEF z, a
    <2>5. blockOffset' % Block = Len(file') % Block
      <3>1. CASE Start + z < Block
        <4>1. (a + z) % Block = Start + z
          BY <2>4, <3>1, BlockSums
        <4>2. (Start + z) % Block = Start + z
          BY <1>2, <2>4, <3>1, Modulo
        <4>3. QED
          BY <2>4, <4>1, <4>2
      <3>2. CASE Start + z = Block
        <4>1. (a + z) % Block = 0
          BY <2>4, <3>2, BlockSums
        <4>2. Block % Block = 0
          BY Modulo
        <4>3. QED
          BY <2>4, <3>2, <4>1, <4>2
      <3>3. QED
        BY <1>2, <2>4, <3>1, <3>2, SizeAssumption
    <2>6. frags' = 0 => /\ EndsRecord(file'[Len(file')])
                        /\ file'[Len(file')].of.id + 1 = NextId'
      BY <1>4 DEF NextId
    <2>7. Len(file') # 0
      BY <2>4
    <2>8. QED
      BY <2>2, <2>5, <2>6, <2>7 DEF TailOK
  <1>6. QED
    BY <1>1, <1>4, <1>5, IntactStep

LEMMA EmitUnfilledStep ==
  ASSUME IInv, AInv, EmitUnfilled
  PROVE  IInv' /\ AInv'
  <1>1. PICK g \in 0..Fill : Emitted(g)
    BY DEF EmitUnfilled
  <1>2. tail' = "buried" /\ Intact
    BY DEF EmitUnfilled
  <1>3. /\ IInv' /\ \A i \in 1..Len(file) : file'[i] = file[i]
        /\ pos' = 0 /\ scratch' = <<>> /\ read' = <<>> /\ state' # "read"
    BY <1>1, <1>2, EmittedStep
  <1>4. QED
    BY <1>2, <1>3, IntactStep

\* The writer stops in a fragment, and goes on with another record or dies.
LEMMA TornStep ==
  ASSUME IInv, AInv, state = "adding", NEW g \in 0..Fill, NEW k \in 0..Size(Current),
         Written(g, k), state' \in {"idle", "reading"}, left' = 0, frags' = 0,
         blockOffset' \in 0..Block, tail' \in {"torn", "buried"},
         tail' # "buried" => tail = "whole" /\ (k = 0 \/ g = Fill),
         Intact, UNCHANGED <<records, acked, reopens, reader>>
  PROVE  IInv' /\ AInv'
  <1>1. /\ Typed /\ WriterOK /\ FileOK(file, records) /\ AckedOK
        /\ file' = file \o Zeros(g) \o Cells(Current, k)
        /\ UNCHANGED <<records, acked, reopens, pos, end, eof, scratch, read>>
    BY DEF IInv, Written, reader
  <1>2. Grown(file, file', Current, g, k) /\ FileOK(file', records)
    BY <1>1, WrittenOK
  <1>3. g \in Nat /\ k \in Nat
    BY <1>1, CurrentOK
  <1>4. /\ file \in Seq(Cell) /\ file' \in Seq(Cell) /\ Len(file') = Len(file) + g + k
        /\ Len(file) \in Nat
    BY <1>1, <1>2 DEF Typed, Grown
  <1>5. Typed'
    <2>1. end' \in 0..Len(file')
      BY <1>1, <1>3, <1>4 DEF Typed
    <2>2. QED
      BY <1>1, <1>4, <2>1 DEF Typed
  <1>6. AckedOK'
    <2> SUFFICES ASSUME NEW r \in acked PROVE Whole(r)'
      BY <1>1 DEF AckedOK
    <2>1. Whole(r)
      BY <1>1 DEF AckedOK
    <2>2. QED
      BY <1>1, <1>2, <1>3, <2>1, GrownWhole
  <1>7. pos' = 0 /\ end' = 0 /\ eof' = FALSE /\ scratch' = <<>> /\ read' = <<>>
    BY <1>1 DEF IInv, ReaderOff, Typed
  <1>8. BufferOK' /\ ScratchOK' /\ ReadOK' /\ ReaderOff'
    BY <1>7, QuietNext
  <1>9. IInv'
    BY <1>1, <1>2, <1>5, <1>6, <1>8 DEF IInv, WriterOK
  <1>10. ASSUME tail' # "buried"
         PROVE  Aligned(file') /\ TailOK'
    <2>1. tail = "whole" /\ (k = 0 \/ g = Fill) /\ Aligned(file) /\ TailOK
      BY <1>10, PrefixWhole
    <2>2. Aligned(file')
      BY <1>1, <2>1, WrittenAligned
    <2>3. QED
      BY <2>2 DEF TailOK
  <1>11. \A i \in 1..Len(file) : file'[i] = file[i]
    BY <1>2 DEF Grown
  <1>12. tail = "buried" => tail' = "buried"
    OBVIOUS
  <1>13. QED
    BY <1>7, <1>9, <1>10, <1>11, <1>12, IntactStep

LEMMA EmitFailsStep ==
  ASSUME IInv, AInv, EmitFails
  PROVE  IInv' /\ AInv'
  <1>1. PICK g \in 0..Fill, k \in 0..Size(Current) :
          /\ Written(g, k)
          /\ tail' = IF k = 0 \/ g = Fill THEN Behind("torn") ELSE "buried"
    BY DEF EmitFails
  <1>2. /\ state = "adding" /\ state' = "idle" /\ left' = 0 /\ frags' = 0
        /\ blockOffset' = Start + Size(Current)
        /\ Intact /\ UNCHANGED <<records, acked, reopens, reader>>
    BY DEF EmitFails, NoRecord, OffsetAfter
  <1>3. tail' \in {"torn", "buried"}
        /\ (tail' # "buried" => tail = "whole" /\ (k = 0 \/ g = Fill))
    BY <1>1 DEF Behind
  <1>4. blockOffset' \in 0..Block
    <2>1. /\ Start \in Nat /\ Taken \in 0..left /\ left \in Nat /\ Start + Header + Taken <= Block
          /\ Size(Current) = Header + Taken
      BY <1>2, CurrentOK DEF IInv, Typed
    <2>2. QED
      BY <1>2, <2>1, SizeAssumption
  <1>5. QED
    BY <1>1, <1>2, <1>3, <1>4, TornStep

LEMMA ProcessDiesStep ==
  ASSUME IInv, AInv, ProcessDies
  PROVE  IInv' /\ AInv'
  <1>1. PICK g \in 0..Fill, k \in 0..Size(Current) : (k = 0 \/ g = Fill) /\ Written(g, k)
    BY DEF ProcessDies
  <1>2. /\ state = "adding" /\ state' = "reading" /\ left' = 0 /\ frags' = 0
        /\ blockOffset' = 0
        /\ Intact /\ UNCHANGED <<records, acked, reopens, reader>>
    BY DEF ProcessDies, Closed, NoRecord
  <1>3. tail' \in {"torn", "buried"} /\ (tail' # "buried" => tail = "whole")
    BY DEF ProcessDies, Behind
  <1>4. blockOffset' \in 0..Block
    BY <1>2, SizeAssumption
  <1>5. QED
    BY <1>1, <1>2, <1>3, <1>4, TornStep

LEMMA CloseStep ==
  ASSUME IInv, AInv, Close
  PROVE  IInv' /\ AInv'
  <1>1. /\ state = "idle" /\ state' = "reading" /\ blockOffset' = 0 /\ left' = 0 /\ frags' = 0
        /\ frags = 0
        /\ UNCHANGED <<file, acked, tail, intact, records, reopens, pos, end, eof, scratch, read>>
    BY DEF Close, Closed, NoRecord, reader, IInv
  <1>2. Typed'
    BY <1>1, SizeAssumption DEF IInv, Typed
  <1>3. FileOK(file', records') /\ AckedOK' /\ WriterOK'
    BY <1>1 DEF IInv, AckedOK, Whole, WriterOK
  <1>4. pos' = 0 /\ end' = 0 /\ eof' = FALSE /\ scratch' = <<>> /\ read' = <<>>
    BY <1>1 DEF IInv, ReaderOff, Typed
  <1>5. BufferOK' /\ ScratchOK' /\ ReadOK' /\ ReaderOff'
    BY <1>1, <1>4, QuietNext
  <1>6. TailOK => TailOK'
    BY <1>1 DEF TailOK, NextId
  <1>7. AlignedReader'
    BY <1>1, <1>4, PrefixType, QuietAligned
  <1>8. AInv'
    BY <1>1, <1>6, <1>7, SameFile
  <1>9. QED
    BY <1>1, <1>2, <1>3, <1>5, <1>8 DEF IInv

LEMMA MachineDiesStep ==
  ASSUME IInv, AInv, MachineDies
  PROVE  IInv' /\ AInv'
  <1>1. PICK n \in 0..Len(file) : file' = SubSeq(file, 1, n)
    BY DEF MachineDies
  <1>2. /\ state \in {"idle", "adding"} /\ state' = "reading"
        /\ blockOffset' = 0 /\ left' = 0 /\ frags' = 0
        /\ acked' = {r \in acked : Whole(r)'}
        /\ tail' = IF tail = "whole" THEN "torn" ELSE tail
        /\ Intact
        /\ UNCHANGED <<records, reopens, pos, end, eof, scratch, read>>
    BY DEF MachineDies, Closed, NoRecord, reader
  <1>3. file \in Seq(Cell) /\ FileOK(file, records) /\ Typed
    BY DEF IInv, Typed
  <1>4. Cut(file, file')
    BY <1>1, <1>3, SubSeqCut
  <1>5. file' \in Seq(Cell)
    BY <1>4 DEF Cut
  <1>6. pos' = 0 /\ end' = 0 /\ eof' = FALSE /\ scratch' = <<>> /\ read' = <<>>
    BY <1>2 DEF IInv, ReaderOff, Typed
  <1>7. Typed'
    <2>1. Len(file') \in Nat
      BY <1>5
    <2>2. end' \in 0..Len(file') /\ pos' \in 0..end' /\ blockOffset' \in 0..Block
      BY <1>2, <1>6, <2>1, SizeAssumption
    <2>3. acked' \subseteq 1..Len(records') /\ tail' \in {"whole", "torn", "buried"}
      BY <1>2, <1>3 DEF Typed
    <2>4. QED
      BY <1>2, <1>3, <1>5, <2>2, <2>3 DEF Typed
  <1>8. FileOK(file', records')
    BY <1>2, <1>3, <1>4, CutOK
  <1>9. WriterOK' /\ AckedOK'
    BY <1>2 DEF WriterOK, AckedOK
  <1>10. BufferOK' /\ ScratchOK' /\ ReadOK' /\ ReaderOff'
    BY <1>2, <1>6, QuietNext
  <1>11. IInv'
    BY <1>2, <1>7, <1>8, <1>9, <1>10 DEF IInv
  <1>12. \A i \in 1..Len(file) : i <= Len(file') => file'[i] = file[i]
    <2>1. \A i \in 1..Len(file') : file'[i] = file[i]
      BY <1>4 DEF Cut
    <2>2. Len(file) \in Nat /\ Len(file') \in Nat
      BY <1>3, <1>5
    <2>3. QED
      BY <2>1, <2>2
  <1>13. tail' # "buried" => Aligned(file') /\ TailOK'
    <2>1. SUFFICES ASSUME tail' # "buried" PROVE Aligned(file') /\ TailOK'
      OBVIOUS
    <2>2. tail # "buried" /\ tail' = "torn"
      BY <1>2, <1>3, <2>1 DEF Typed
    <2>3. Aligned(file)
      BY <2>2, PrefixWhole
    <2>4. QED
      BY <1>3, <1>4, <2>2, <2>3, CutAligned DEF TailOK
  <1>14. QED
    BY <1>2, <1>6, <1>11, <1>12, <1>13, IntactStep

LEMMA ReopenStep ==
  ASSUME IInv, AInv, Reopen
  PROVE  IInv' /\ AInv'
  <1>1. /\ state = "read" /\ state' = "idle" /\ frags = 0
        /\ reopens < MaxReopens /\ reopens' = reopens + 1
        /\ blockOffset' = Len(file) % Block
        /\ pos' = 0 /\ end' = 0 /\ eof' = FALSE /\ scratch' = <<>> /\ read' = <<>>
        /\ UNCHANGED <<file, left, frags, records, acked, tail, intact>>
    BY DEF Reopen, NoReader, IInv
  <1>2. Len(file) \in Nat /\ Len(file) % Block \in 0..Block - 1 /\ Block \in Nat
        /\ (Len(file) % Block) % Block = Len(file) % Block
    <2>1. Len(file) \in Nat
      BY DEF IInv, Typed
    <2>2. Len(file) % Block \in 0..Block - 1
      BY <2>1, Modulo
    <2>3. Len(file) % Block \in Nat /\ Len(file) % Block < Block
      BY <2>2, SizeAssumption
    <2>4. (Len(file) % Block) % Block = Len(file) % Block
      BY <2>3, Modulo
    <2>5. QED
      BY <2>1, <2>2, <2>4, SizeAssumption
  <1>3. Typed'
    <2>1. blockOffset' \in 0..Block
      BY <1>1, <1>2
    <2>2. reopens' \in 0..MaxReopens
      BY <1>1, BoundAssumption DEF IInv, Typed
    <2>3. end' \in 0..Len(file') /\ pos' \in 0..end'
      BY <1>1, <1>2
    <2>4. QED
      <3>1. scratch' \in Seq(Fragment) /\ read' \in Seq(Seq(Fragment)) /\ eof' \in BOOLEAN
        <4>1. <<>> \in Seq(Fragment) /\ <<>> \in Seq(Seq(Fragment))
          BY EmptySeq
        <4>2. QED
          BY <1>1, <4>1
      <3>2. /\ file' \in Seq(Cell) /\ left' \in Nat /\ frags' \in Nat
            /\ records' \in Seq(Lengths) /\ Len(records') <= MaxRecords
            /\ acked' \subseteq 1..Len(records') /\ tail' \in {"whole", "torn", "buried"}
        BY <1>1 DEF IInv, Typed
      <3>3. state' \in {"idle", "adding", "reading", "read"}
        BY <1>1
      <3>4. QED
        BY <2>1, <2>2, <2>3, <3>1, <3>2, <3>3 DEF Typed
  <1>4. FileOK(file', records') /\ AckedOK' /\ WriterOK'
    BY <1>1 DEF IInv, AckedOK, Whole, WriterOK
  <1>5. BufferOK' /\ ScratchOK' /\ ReadOK' /\ ReaderOff'
    BY <1>1, QuietNext
  <1>6. TailOK => TailOK'
    <2>1. NextId' = NextId
      BY <1>1 DEF NextId
    <2>2. blockOffset' % Block = Len(file') % Block
      BY <1>1, <1>2
    <2>3. QED
      BY <1>1, <2>1, <2>2 DEF TailOK
  <1>7. AlignedReader'
    BY <1>1 DEF AlignedReader
  <1>8. AInv'
    BY <1>1, <1>6, <1>7, SameFile
  <1>9. QED
    BY <1>1, <1>3, <1>4, <1>5, <1>8 DEF IInv

-----------------------------------------------------------------------------
(* The reader.                                                             *)

\* A step of the reader leaves the file and what was written alone.
LEMMA ReaderFrame ==
  ASSUME IInv, state = "reading", state' \in {"reading", "read"}, UNCHANGED <<file, writer, tail>>,
         end' \in 0..Len(file), pos' \in 0..end', eof' \in BOOLEAN,
         scratch' \in Seq(Fragment), read' \in Seq(Seq(Fragment)),
         BufferOK', ScratchOK', ReadOK'
  PROVE  IInv' /\ (TailOK => TailOK')
  <1>1. UNCHANGED <<file, blockOffset, left, frags, records, acked, reopens, tail>>
    BY DEF writer
  <1>2. Typed'
    BY <1>1 DEF IInv, Typed
  <1>3. FileOK(file', records') /\ WriterOK' /\ AckedOK' /\ ReaderOff'
    BY <1>1 DEF IInv, WriterOK, AckedOK, Whole, ReaderOff
  <1>4. TailOK => TailOK'
    BY <1>1 DEF TailOK, NextId
  <1>5. QED
    BY <1>1, <1>2, <1>3, <1>4 DEF IInv

\* The types of what the reader works with.
LEMMA ReaderTypes ==
  ASSUME IInv
  PROVE  /\ Header \in Nat \ {0} /\ Block \in Nat \ {0} /\ Block > Header
         /\ file \in Seq(Cell) /\ Len(file) \in Nat /\ DOMAIN file = 1..Len(file)
         /\ \A i \in DOMAIN file : /\ file[i].of \in Fragment /\ file[i].at \in Nat
                                   /\ Size(file[i].of) \in Nat /\ Size(file[i].of) >= Header
                                   /\ Size(file[i].of) = file[i].of.len + Header
                                   /\ file[i].of.len \in Nat /\ file[i].of.id \in Nat
         /\ end \in 0..Len(file) /\ pos \in 0..end /\ end \in Nat /\ pos \in Nat
         /\ scratch \in Seq(Fragment) /\ Len(scratch) \in Nat
         /\ read \in Seq(Seq(Fragment)) /\ Len(read) \in Nat
         /\ records \in Seq(Lengths) /\ Len(records) \in Nat
  <1>1. Header \in Nat \ {0} /\ Block \in Nat \ {0} /\ Block > Header
    BY SizeAssumption
  <1>2. /\ file \in Seq(Cell) /\ end \in 0..Len(file) /\ pos \in 0..end
        /\ scratch \in Seq(Fragment) /\ read \in Seq(Seq(Fragment)) /\ records \in Seq(Lengths)
    BY DEF IInv, Typed
  <1>3. Len(file) \in Nat /\ DOMAIN file = 1..Len(file) /\ Len(scratch) \in Nat
        /\ Len(read) \in Nat /\ Len(records) \in Nat
    BY <1>2
  <1>4. ASSUME NEW i \in DOMAIN file
        PROVE  /\ file[i].of \in Fragment /\ file[i].at \in Nat
               /\ Size(file[i].of) \in Nat /\ Size(file[i].of) >= Header
               /\ Size(file[i].of) = file[i].of.len + Header
               /\ file[i].of.len \in Nat /\ file[i].of.id \in Nat
    <2>1. file[i] \in Cell
      BY <1>2, <1>3
    <2>2. file[i].of \in Fragment /\ file[i].at \in Nat
      BY <2>1 DEF Cell
    <2>3. file[i].of.len \in Nat /\ file[i].of.id \in Nat
      BY <2>2 DEF Fragment
    <2>4. QED
      BY <1>1, <2>2, <2>3 DEF Size
  <1>5. end \in Nat /\ pos \in Nat
    BY <1>2, <1>3
  <1>6. QED
    BY <1>1, <1>2, <1>3, <1>4, <1>5

\* One lemma for each action of the reader.
LEMMA ReadBlockStep ==
  ASSUME IInv, AInv, ReadBlock
  PROVE  IInv' /\ AInv'
  <1>1. /\ state = "reading" /\ state' = state /\ end - pos < Header /\ eof = FALSE
        /\ pos' = end /\ end' = IF end + Block < Len(file) THEN end + Block ELSE Len(file)
        /\ eof' = (end' < end + Block)
        /\ UNCHANGED <<file, writer, tail, intact, scratch, read>>
    BY DEF ReadBlock, Remaining, Lesser, IInv, Typed
  <1>2. UNCHANGED <<file, records, tail, intact>>
    BY <1>1 DEF writer
  <1>3. /\ Header \in Nat \ {0} /\ Block \in Nat \ {0} /\ Block > Header
        /\ Len(file) \in Nat /\ end \in Nat /\ end <= Len(file) /\ pos \in Nat /\ pos <= end
        /\ scratch \in Seq(Fragment) /\ read \in Seq(Seq(Fragment))
    BY ReaderTypes
  <1>4. end % Block = 0 /\ end - pos <= Block - (pos % Block)
    BY <1>1 DEF IInv, BufferOK
  <1>5. /\ end' \in 0..Len(file) /\ pos' \in 0..end' /\ eof' \in BOOLEAN
        /\ end' - pos' <= Block
        /\ eof' = FALSE => end' = end + Block
        /\ eof' = TRUE => end' = Len(file)
    <2>1. eof' \in BOOLEAN /\ (eof' <=> end' < end + Block)
      <3>1. eof' = (end' < end + Block)
        BY <1>1
      <3>2. CASE end' < end + Block
        <4>1. eof' = TRUE
          BY <3>1, <3>2
        <4>2. QED
          BY <3>2, <4>1
      <3>3. CASE ~(end' < end + Block)
        <4>1. eof' = FALSE
          <5>1. (end' < end + Block) = FALSE
            BY <3>3
          <5>2. QED
            BY <3>1, <5>1
        <4>2. QED
          BY <3>3, <4>1
      <3>4. QED
        BY <3>2, <3>3
    <2>2. /\ end' \in 0..Len(file) /\ end <= end' /\ end' - end <= Block
          /\ ~(end' < end + Block) => end' = end + Block
          /\ end' < end + Block => end' = Len(file)
      BY <1>1, <1>3
    <2>3. pos' \in 0..end' /\ end' - pos' <= Block
      BY <1>1, <1>3, <2>2
    <2>4. QED
      BY <2>1, <2>2, <2>3
  <1>6. BufferOK'
    <2>1. end' - pos' <= Block - (pos' % Block)
      BY <1>1, <1>3, <1>4, <1>5
    <2>2. (end + Block) % Block = 0
      <3>1. Block \in Nat /\ end \in Nat /\ (end % Block) + Block = Block
        BY <1>3, <1>4
      <3>2. QED
        BY <3>1, BlockSums
    <2>3. QED
      BY <1>1, <1>5, <2>1, <2>2 DEF BufferOK
  <1>7. ScratchOK'
    <2>1. ASSUME scratch # <<>>
          PROVE  \E p \in 1..pos' :
                   /\ EndsFragment(file[p]) /\ file[p].of = scratch[Len(scratch)]
                   /\ p = pos' \/ (pos' - p < Header /\ (eof' \/ end' - pos' >= Header))
      <3>1. PICK p \in 1..pos :
                   /\ EndsFragment(file[p]) /\ file[p].of = scratch[Len(scratch)]
                   /\ p = pos \/ (pos - p < Header /\ (eof \/ end - pos >= Header))
        BY <2>1 DEF IInv, ScratchOK
      <3>2. p = pos
        BY <1>1, <1>3, <3>1
      <3>3. p \in 1..pos' /\ pos' - p < Header
        BY <1>1, <1>3, <3>1, <3>2
      <3>4. eof' \/ end' - pos' >= Header
        BY <1>1, <1>3, <1>5
      <3>5. QED
        BY <3>1, <3>3, <3>4
    <2>2. QED
      BY <1>1, <1>2, <2>1 DEF IInv, ScratchOK
  <1>8. ReadOK'
    <2>1. \A p \in 1..pos : p \in 1..pos'
      BY <1>1, <1>3
    <2>2. QED
      BY <1>1, <1>2, <2>1 DEF IInv, ReadOK, ReadIsRecord, IsRecord
  <1>9. IInv' /\ (TailOK => TailOK')
    BY <1>1, <1>3, <1>5, <1>6, <1>7, <1>8, ReaderFrame
  <1>10. AllRead => AllRead'
    BY <1>1, <1>2 DEF AllRead
  <1>11. ASSUME NEW b \in 0..pos, Halfway(b)
         PROVE  b \in 0..pos' /\ Halfway(b)'
    <2>1. Boundary(file, b) /\ Progress(b) /\ (pos = b \/ pos = b + FillAt(b))
      BY <1>11 DEF Halfway
    <2>2. b \in Nat /\ b <= pos /\ FillAt(b) \in Nat
      BY <1>3, <2>1, FillAtType
    <2>3. pos' = b \/ pos' = b + FillAt(b)
      <3>1. CASE pos = end
        BY <1>1, <2>1, <3>1
      <3>2. CASE pos # end
        <4>1. end - pos \in 1..Block
          BY <1>1, <1>3, <3>2
        <4>2. (end - (end - pos)) % Block = Block - (end - pos)
          BY <1>3, <1>4, <4>1, BlockSums
        <4>3. pos % Block = Block - (end - pos)
          BY <1>3, <4>2
        <4>4. CASE pos = b
          <5>1. Block - (b % Block) = end - pos
            BY <1>3, <4>3, <4>4
          <5>2. FillAt(b) = end - pos
            BY <1>1, <5>1 DEF FillAt
          <5>3. QED
            BY <1>1, <1>3, <4>4, <5>2
        <4>5. CASE pos # b
          <5>1. pos = b + FillAt(b) /\ FillAt(b) # 0
            BY <2>1, <2>2, <4>5
          <5>2. FillAt(b) = Block - (b % Block) /\ b % Block \in Nat
            BY <1>3, <2>2, <5>1, Modulo DEF FillAt
          <5>3. (b % Block) + FillAt(b) = Block
            BY <1>3, <5>2
          <5>4. pos % Block = 0
            BY <2>2, <5>1, <5>3, BlockSums
          <5>5. QED
            BY <1>1, <1>3, <4>3, <5>4
        <4>6. QED
          BY <4>4, <4>5
      <3>3. QED
        BY <3>1, <3>2
    <2>4. Boundary(file', b) /\ Progress(b)' /\ Ids'
      BY <1>1, <1>2, <1>11, <2>1, <2>2 DEF Progress, Halfway, Ids
    <2>5. b \in 0..pos'
      BY <1>1, <1>3, <2>2
    <2>6. QED
      BY <1>2, <1>11, <2>3, <2>4, <2>5 DEF Halfway
  <1>12. AlignedReader'
    <2>1. AlignedReader
      BY DEF AInv
    <2>2. QED
      BY <1>1, <1>10, <1>11, <2>1 DEF AlignedReader
  <1>13. QED
    BY <1>1, <1>2, <1>9, <1>12, SameFile

\* The fragment a reader takes is one of a record, comes after what was read and,
\* when it is not the first of its record, after the last one put in scratch.
LEMMA ParsedOK ==
  ASSUME IInv, NEW types, Parsed(types)
  PROVE  /\ pos + 1 \in DOMAIN file /\ file[pos + 1].of = Front /\ file[pos + 1].at = 0
         /\ Front # NoFragment /\ Front \in Fragment /\ FragmentOK(Front, records)
         /\ Front.type \in types
         /\ pos' = pos + Size(Front) /\ pos' \in Nat /\ pos < pos' /\ pos' <= end
         /\ EndsFragment(file[pos']) /\ file[pos'].of = Front
         /\ \A i \in DOMAIN read : read[i][1].id < Front.id
         /\ scratch # <<>> /\ Front.frag > 1 =>
              Follows(scratch[Len(scratch)], Front) /\ scratch[Len(scratch)] = file[pos].of
         /\ UNCHANGED <<file, state, writer, records, tail, intact, end, eof>>
         /\ state = "reading" /\ BufferOK'
  <1> DEFINE f == Front
             z == Size(f)
  <1>1. /\ state = "reading" /\ end - pos >= Header /\ ~(z > end - pos)
        /\ f # NoFragment
        /\ \A i \in 1..z : file[pos + i] = [of |-> f, at |-> i - 1]
        /\ f.type \in types /\ pos' = pos + z
        /\ UNCHANGED <<file, state, writer, records, tail, intact, end, eof>>
    BY DEF Parsed, Remaining, TooLong, Sound, writer
  <1>2. /\ Header \in Nat \ {0} /\ Block \in Nat \ {0} /\ Block > Header
        /\ Len(file) \in Nat /\ DOMAIN file = 1..Len(file)
        /\ \A i \in DOMAIN file : /\ file[i].of \in Fragment /\ file[i].at \in Nat
                                  /\ Size(file[i].of) \in Nat /\ Size(file[i].of) >= Header
        /\ end \in Nat /\ end <= Len(file) /\ pos \in Nat /\ pos <= end
        /\ scratch \in Seq(Fragment) /\ Len(scratch) \in Nat
    BY ReaderTypes
  <1>3. pos + 1 \in DOMAIN file /\ file[pos + 1].of = f
    BY <1>1, <1>2 DEF Front
  <1>4. f \in Fragment /\ z \in Nat /\ z >= Header /\ z > 0
    BY <1>2, <1>3
  <1> HIDE DEF f, z
  <1>5. file[pos + 1] = [of |-> f, at |-> 0]
    BY <1>1, <1>4
  <1>6. FragmentOK(f, records)
    BY <1>1, <1>3 DEF IInv, FileOK, CellsOK
  <1>7. pos' \in Nat /\ pos < pos' /\ pos' <= end
    BY <1>1, <1>2, <1>4
  <1>8. EndsFragment(file[pos']) /\ file[pos'].of = f
    <2>1. z \in 1..z
      BY <1>4
    <2>2. file[pos'] = [of |-> f, at |-> z - 1]
      BY <1>1, <2>1
    <2>3. QED
      BY <1>1, <2>2 DEF EndsFragment, z
  <1>9. ASSUME NEW i \in DOMAIN read
        PROVE  read[i][1].id < f.id
    <2>1. PICK p \in 1..pos : EndsRecord(file[p]) /\ file[p].of.id = read[i][1].id
      BY DEF IInv, ReadOK, ReadIsRecord
    <2>2. p \in DOMAIN file /\ p < pos + 1
      BY <1>2, <1>3
    <2>3. QED
      BY <1>1, <1>3, <2>1, <2>2 DEF IInv, FileOK, Ordered
  <1>10. ASSUME scratch # <<>>, f.frag > 1
         PROVE  Follows(scratch[Len(scratch)], f) /\ scratch[Len(scratch)] = file[pos].of
    <2>1. PICK p \in 1..pos : /\ EndsFragment(file[p]) /\ file[p].of = scratch[Len(scratch)]
                              /\ p = pos \/ pos - p < Header
      BY <1>10 DEF IInv, ScratchOK
    <2>2. file[pos + 1].at = 0 /\ file[pos + 1].of.frag > 1 /\ (pos + 1) - 1 = pos
          /\ file[pos + 1].of # NoFragment
      BY <1>1, <1>2, <1>5, <1>10
    <2>3. pos \in DOMAIN file /\ EndsFragment(file[pos]) /\ Follows(file[pos].of, f)
      <3>1. /\ (pos + 1) - 1 \in DOMAIN file /\ EndsFragment(file[(pos + 1) - 1])
            /\ Follows(file[(pos + 1) - 1].of, file[pos + 1].of)
        BY <1>3, <2>2 DEF IInv, FileOK, Joined
      <3>2. QED
        BY <1>3, <2>2, <3>1
    <2>4. /\ file[pos].at = Size(file[pos].of) - 1 /\ file[pos].of # NoFragment
          /\ file[p].at = Size(file[p].of) - 1
      BY <2>1, <2>3 DEF EndsFragment
    <2>5. pos - p \in 0..file[pos].at /\ pos - (pos - p) = p
      BY <1>2, <2>1, <2>3, <2>4
    <2>6. file[p] = [of |-> file[pos].of, at |-> file[pos].at - (pos - p)]
      <3>1. file[pos - (pos - p)] = [of |-> file[pos].of, at |-> file[pos].at - (pos - p)]
        BY <2>3, <2>4, <2>5 DEF IInv, FileOK, Backward
      <3>2. QED
        BY <2>5, <3>1
    <2>7. file[p].of = file[pos].of
      BY <2>6
    <2>8. QED
      BY <2>1, <2>3, <2>7
  <1>11. BufferOK'
    <2> DEFINE m == pos % Block
               w == (pos + z) % Block
    <2>1. end - pos <= Block - m /\ z <= end - pos
      <3>1. end - pos <= Block - m
        BY DEF IInv, BufferOK
      <3>2. z <= end - pos
        BY <1>1, <1>2, <1>4
      <3>3. QED
        BY <3>1, <3>2
    <2>2. (~eof => end % Block = 0) /\ (eof => end = Len(file))
      BY DEF IInv, BufferOK
    <2>3. m \in 0..Block - 1
      BY <1>2, Modulo
    <2>4. m + z < Block => w = m + z
      BY <1>2, <1>4, BlockSums
    <2>5. m + z = Block => w = 0
      BY <1>2, <1>4, BlockSums
    <2> HIDE DEF m, w
    <2>6. end - (pos + z) <= Block - w
      <3>1. m + z <= Block /\ m \in Nat
        BY <1>2, <1>4, <2>1, <2>3
      <3>2. CASE m + z < Block
        BY <1>2, <1>4, <2>1, <2>4, <3>1, <3>2
      <3>3. CASE m + z = Block
        BY <1>2, <1>4, <2>1, <2>5, <3>1, <3>3
      <3>4. QED
        BY <1>2, <1>4, <3>1, <3>2, <3>3
    <2>7. end' - pos' <= Block - (pos' % Block)
      BY <1>1, <2>6 DEF w
    <2>8. QED
      BY <1>1, <2>2, <2>7 DEF BufferOK
  <1>12. QED
    BY <1>1, <1>3, <1>4, <1>5, <1>6, <1>7, <1>8, <1>9, <1>10, <1>11 DEF f, z

\* While not all of what is intact has been read, there is more in the file, and what
\* is in front of the reader is the fragment that is due, all of it.
LEMMA Awaiting ==
  ASSUME IInv, AInv, state = "reading", ~AllRead
  PROVE  \E b \in 0..pos :
           /\ Halfway(b)
           /\ Remaining < Header => ~eof
           /\ Remaining >= Header => /\ ~TooLong /\ Sound /\ Succeeds(file, b, Front)
                                    /\ pos + Size(Front) <= intact
  <1>1. /\ Header \in Nat \ {0} /\ Block \in Nat \ {0} /\ Block > Header
        /\ Len(file) \in Nat /\ DOMAIN file = 1..Len(file)
        /\ \A i \in DOMAIN file : /\ file[i].of \in Fragment /\ file[i].at \in Nat
                                  /\ Size(file[i].of) \in Nat /\ Size(file[i].of) >= Header
                                  /\ Size(file[i].of) = file[i].of.len + Header
                                  /\ file[i].of.len \in Nat /\ file[i].of.id \in Nat
        /\ end \in Nat /\ end <= Len(file) /\ pos \in Nat /\ pos <= end
        /\ read \in Seq(Seq(Fragment)) /\ Len(read) \in Nat
    BY ReaderTypes
  <1>2. /\ intact \in Nat /\ intact <= Len(file)
        /\ DOMAIN Prefix = 1..intact /\ Len(Prefix) = intact
        /\ \A i \in 1..intact : i \in DOMAIN file /\ Prefix[i] = file[i]
    BY PrefixType
  <1>3. /\ end - pos <= Block - (pos % Block)
        /\ ~eof => end % Block = 0
        /\ eof => end = Len(file)
    BY DEF IInv, BufferOK
  <1>4. PICK b \in 0..pos : Halfway(b)
    BY DEF AInv, AlignedReader
  <1>5. /\ b \in Nat /\ b <= pos /\ b <= intact /\ FillAt(b) \in Nat
        /\ Boundary(file, b) /\ Progress(b) /\ Ids
        /\ pos = b \/ pos = b + FillAt(b)
    <2>1. b \in Nat /\ b <= pos
      BY <1>1
    <2>2. FillAt(b) \in 0..Header - 1
      BY <2>1, FillAtType
    <2>3. FillAt(b) \in Nat
      BY <2>2
    <2>4. QED
      BY <1>4, <2>1, <2>3 DEF Halfway
  <1> DEFINE m == pos % Block
  <1>3a. /\ Header \in Nat \ {0} /\ Block \in Nat \ {0} /\ Block > Header
        /\ end \in Nat /\ pos \in Nat /\ pos <= end /\ Len(file) \in Nat
        /\ intact \in Nat /\ intact <= Len(file) /\ end - pos <= Block - m
        /\ m \in 0..Block - 1
    BY <1>1, <1>2, <1>3, Modulo
  <1> HIDE DEF m
  \* A record that has not been read,
  <1>6. PICK i \in 1..intact :
          /\ EndsRecord(file[i])
          /\ ~(file[i].of.id \in DOMAIN read /\ read[file[i].of.id][1].id = file[i].of.id)
    BY DEF AllRead
  <1>7. /\ i \in Nat /\ i <= Len(file) /\ i \in DOMAIN file
        /\ file[i].of # NoFragment /\ file[i].at = Size(file[i].of) - 1
        /\ file[i].of.type \in Final
    BY <1>1, <1>2, <1>6 DEF EndsRecord, EndsFragment, Final
  \* ends behind the boundary.
  <1>8. i > b
    <2> DEFINE r == file[i].of.id
    <2>1. SUFFICES ASSUME i <= b PROVE FALSE
      BY <1>5, <1>7
    <2>2. b # 0 /\ b \in DOMAIN file /\ EndsFragment(file[b]) /\ file[b].of # NoFragment
      BY <1>1, <1>2, <1>5, <1>6, <2>1 DEF Boundary, EndsFragment
    <2>3. /\ Len(read) = file[b].of.id \/ Len(read) + 1 = file[b].of.id
          /\ file[b].of.type \in Final => Len(read) = file[b].of.id
      BY <1>5, <2>2 DEF Progress
    <2>4. r \in Nat /\ file[b].of.id \in Nat
      BY <1>1, <1>7, <2>2
    <2>5. r <= Len(read)
      <3>1. CASE i = b
        BY <1>7, <2>3, <2>4, <3>1
      <3>2. CASE i # b
        <4>1. i < b
          BY <1>5, <1>7, <2>1, <3>2
        <4>2. r < file[b].of.id
          BY <1>6, <1>7, <2>2, <4>1 DEF IInv, FileOK, Ordered
        <4>3. QED
          BY <1>1, <2>3, <2>4, <4>2
      <3>3. QED
        BY <3>1, <3>2
    <2>6. r \in DOMAIN records
      BY <1>7 DEF IInv, FileOK, CellsOK, FragmentOK
    <2>7. r >= 1
      BY <2>6, ReaderTypes
    <2>8. r \in DOMAIN read
      BY <1>1, <2>4, <2>5, <2>7
    <2>9. QED
      BY <1>5, <1>6, <2>8 DEF Ids
  \* The fragment g begins behind the boundary and a fill,
  <1> DEFINE s == b + FillAt(b) + 1
             g == file[s].of
  <1>9. NextAt(Prefix, b)
    <2>1. b \in 0..Len(Prefix) /\ Boundary(Prefix, b)
      BY <1>2, <1>5 DEF Boundary
    <2>2. QED
      BY <2>1 DEF AInv, Aligned
  <1>10. s \in Nat /\ s <= i /\ s >= 1 /\ s - 1 = b + FillAt(b) /\ s \in 1..intact
    <2>1. s \in Nat /\ s >= 1 /\ s - 1 = b + FillAt(b)
      BY <1>5
    <2>2. s <= i
      <3>1. SUFFICES ASSUME i < s PROVE FALSE
        BY <1>7, <2>1
      <3>2. i - b \in 1..FillAt(b) /\ b + (i - b) = i
        BY <1>5, <1>7, <1>8, <3>1
      <3>3. Prefix[i] = Zero
        BY <1>2, <1>9, <3>2 DEF NextAt
      <3>4. QED
        BY <1>2, <1>7, <3>3, ZeroCell
    <2>3. QED
      BY <1>2, <1>7, <2>1, <2>2
  <1>11. g # NoFragment /\ file[s].at = 0 /\ Succeeds(file, b, g)
    <2>1. Prefix[s] = file[s]
      BY <1>2, <1>10
    <2>2. /\ Prefix[s].of # NoFragment /\ Prefix[s].at = 0
          /\ Succeeds(Prefix, b, Prefix[s].of)
      BY <1>2, <1>9, <1>10 DEF NextAt
    <2>3. b # 0 => Prefix[b] = file[b]
      BY <1>2, <1>5
    <2>4. Succeeds(file, b, Prefix[s].of)
      BY <2>2, <2>3 DEF Succeeds
    <2>5. QED
      BY <2>1, <2>2, <2>4
  <1>12. Size(g) \in Nat /\ Size(g) >= Header /\ Size(g) = g.len + Header /\ g.len \in Nat
    BY <1>1, <1>2, <1>10
  <1>13. /\ ((s - 1) % Block) + Size(g) <= Block
         /\ \A d \in 0..g.len + Header - 1 : s + d \in 1..intact =>
              file[s + d] = [of |-> g, at |-> d]
    <2>1. Forward(Prefix) /\ s \in DOMAIN Prefix /\ Prefix[s] = file[s]
          /\ Prefix[s].of = g /\ Prefix[s].of # NoFragment /\ Prefix[s].at = 0
      BY <1>2, <1>10, <1>11 DEF AInv, Aligned
    <2> HIDE DEF s, g
    <2>2. /\ ((s - 1) % Block) + Size(g) <= Block
          /\ \A d \in 0..g.len + Header - 1 : s + d \in 1..intact =>
               Prefix[s + d] = [of |-> g, at |-> d]
      BY <1>2, <2>1 DEF Forward
    <2>3. QED
      BY <1>2, <2>2
  <1> HIDE DEF s, g
  \* and all of it is intact.
  <1>14. s + Size(g) - 1 <= intact
    <2>1. SUFFICES ASSUME i < s + Size(g) - 1 PROVE FALSE
      BY <1>2, <1>7, <1>10, <1>12
    <2>2. i - s \in 0..g.len + Header - 1 /\ s + (i - s) = i
      <3>1. Header \in Nat /\ i \in Nat /\ s \in Nat /\ i - s >= 0
        BY <1>1, <1>7, <1>10
      <3>2. i - s <= g.len + Header - 1
        BY <1>12, <2>1, <3>1
      <3>3. QED
        BY <1>12, <3>1, <3>2
    <2>3. file[i] = [of |-> g, at |-> i - s]
      BY <1>6, <1>13, <2>2
    <2>4. i - s = Size(g) - 1
      BY <1>7, <2>3
    <2>5. QED
      BY <1>7, <1>10, <1>12, <2>1, <2>4
  <1>15. pos <= s - 1
    BY <1>5, <1>10
  <1>16. Remaining < Header => ~eof
    <2>1. SUFFICES ASSUME Remaining < Header, eof PROVE FALSE
      OBVIOUS
    <2>2. end = Len(file) /\ end - pos < Header
      BY <1>3, <2>1 DEF Remaining
    <2>3. s + Size(g) - 1 <= end
      BY <1>2, <1>10, <1>12, <1>14, <2>2
    <2>4. QED
      BY <1>3a, <1>10, <1>12, <1>15, <2>2, <2>3
  <1>17. ASSUME Remaining >= Header
         PROVE  /\ ~TooLong /\ Sound /\ Succeeds(file, b, Front)
                /\ pos + Size(Front) <= intact
    <2>1. end - pos >= Header
      BY <1>17 DEF Remaining
    <2>2. pos = b + FillAt(b)
      <3>1. CASE pos = b
        <4>1. b % Block = m
          BY <3>1 DEF m
        <4>2. ~(Block - m < Header)
          BY <1>3a, <2>1
        <4>3. FillAt(b) = 0
          BY <4>1, <4>2 DEF FillAt
        <4>4. QED
          BY <1>1, <3>1, <4>3
      <3>2. QED
        BY <1>5, <3>1
    <2>3. pos = s - 1 /\ pos + 1 = s
      BY <1>1, <1>10, <2>2
    <2>4. Front = g
      BY <2>3 DEF Front, g
    <2>5. pos + Size(g) <= intact
      BY <1>1, <1>2, <1>10, <1>12, <1>14, <2>3
    <2>6. ~(Size(g) > end - pos)
      <3>1. SUFFICES ASSUME Size(g) > end - pos PROVE FALSE
        OBVIOUS
      <3>2. CASE eof
        <4>1. end = Len(file)
          BY <1>3, <3>2
        <4>2. QED
          BY <1>3a, <1>12, <2>5, <3>1, <4>1
      <3>3. CASE ~eof
        <4>1. end - pos \in 1..Block /\ end % Block = 0 /\ end - pos <= end
          <5>1. end % Block = 0
            BY <1>3, <3>3
          <5>2. end - pos \in 1..Block /\ end - pos <= end
            BY <1>3a, <2>1
          <5>3. QED
            BY <5>1, <5>2
        <4>2. (end - (end - pos)) % Block = Block - (end - pos)
          <5>1. end - pos \in Nat
            BY <4>1, <1>1
          <5>2. QED
            BY <1>1, <4>1, <5>1, BlockSums
        <4>3. pos % Block = Block - (end - pos)
          BY <1>1, <4>2
        <4>4. (pos % Block) + Size(g) <= Block
          BY <1>13, <2>3
        <4>5. QED
          BY <1>1, <1>12, <3>1, <4>3, <4>4
      <3>4. QED
        BY <3>2, <3>3
    <2>7. ASSUME NEW j \in 1..Size(g)
          PROVE  file[pos + j] = [of |-> g, at |-> j - 1]
      <3>1. j - 1 \in 0..g.len + Header - 1 /\ s + (j - 1) = pos + j
        <4>1. pos \in Nat /\ Header \in Nat
          BY <1>1
        <4>2. QED
          BY <1>10, <1>12, <2>3, <2>7, <4>1
      <3>2. pos + j \in 1..intact
        BY <1>1, <1>2, <1>12, <2>5, <2>7
      <3>3. QED
        BY <1>13, <3>1, <3>2
    <2>8. Sound
      BY <1>11, <2>4, <2>7 DEF Sound
    <2>9. ~TooLong
      BY <2>4, <2>6 DEF TooLong, Remaining
    <2>10. QED
      BY <1>11, <2>4, <2>5, <2>8, <2>9
  <1>18. QED
    BY <1>4, <1>16, <1>17

LEMMA EndOfFileStep ==
  ASSUME IInv, AInv, EndOfFile
  PROVE  IInv' /\ AInv'
  <1>1. /\ state = "reading" /\ state' = "read" /\ eof
        /\ Remaining < Header \/ TooLong
        /\ scratch' = <<>>
        /\ UNCHANGED <<file, writer, records, tail, intact, pos, end, eof, read>>
    BY DEF EndOfFile, writer
  <1>2. /\ Header \in Nat \ {0} /\ Block \in Nat \ {0} /\ Block > Header
        /\ Len(file) \in Nat /\ DOMAIN file = 1..Len(file)
        /\ \A i \in DOMAIN file : /\ file[i].of \in Fragment /\ file[i].at \in Nat
                                  /\ Size(file[i].of) \in Nat /\ Size(file[i].of) >= Header
                                  /\ Size(file[i].of) = file[i].of.len + Header
                                  /\ file[i].of.len \in Nat /\ file[i].of.id \in Nat
        /\ end \in 0..Len(file) /\ pos \in 0..end /\ end \in Nat /\ pos \in Nat
        /\ read \in Seq(Seq(Fragment)) /\ Len(read) \in Nat
    BY ReaderTypes
  <1>3. eof \in BOOLEAN /\ <<>> \in Seq(Fragment) /\ end = Len(file)
    BY <1>1, EmptySeq DEF IInv, Typed, BufferOK
  <1>4. BufferOK' /\ ScratchOK' /\ ReadOK'
    BY <1>1 DEF IInv, BufferOK, ScratchOK, ReadOK, ReadIsRecord, IsRecord
  <1>5. IInv' /\ (TailOK => TailOK')
    BY <1>1, <1>2, <1>3, <1>4, ReaderFrame
  <1>6. AllRead
    <2>1. SUFFICES ASSUME ~AllRead PROVE FALSE
      OBVIOUS
    <2>2. (Remaining < Header => ~eof) /\ (Remaining >= Header => ~TooLong)
      BY <1>1, <2>1, Awaiting
    <2>3. Remaining < Header \/ Remaining >= Header
      BY <1>2 DEF Remaining
    <2>4. QED
      BY <1>1, <2>2, <2>3
  <1>7. AlignedReader'
    BY <1>1, <1>6 DEF AlignedReader, AllRead
  <1>8. QED
    BY <1>1, <1>5, <1>7, SameFile

LEMMA BadRecordStep ==
  ASSUME IInv, AInv, BadRecord
  PROVE  IInv' /\ AInv'
  <1>1. /\ state = "reading" /\ state' = state /\ Remaining >= Header
        /\ IF TooLong THEN ~eof ELSE ~Sound
        /\ pos' = end /\ scratch' = <<>>
        /\ UNCHANGED <<file, writer, records, tail, intact, end, eof, read>>
    BY DEF BadRecord, writer
  <1>2. /\ Block \in Nat \ {0} /\ end \in 0..Len(file) /\ pos \in 0..end
        /\ end \in Nat /\ pos \in Nat /\ read \in Seq(Seq(Fragment))
    BY ReaderTypes
  <1>3. eof \in BOOLEAN /\ <<>> \in Seq(Fragment) /\ end \in 0..end
    BY <1>2, EmptySeq DEF IInv, Typed
  <1>4. BufferOK'
    <2>1. end % Block \in 0..Block - 1
      BY <1>2, Modulo
    <2>2. end - end <= Block - (end % Block)
      BY <1>2, <2>1
    <2>3. QED
      BY <1>1, <2>2 DEF IInv, BufferOK
  <1>5. ScratchOK'
    BY <1>1 DEF ScratchOK
  <1>6. ReadOK'
    <2>1. \A p \in 1..pos : p \in 1..pos'
      BY <1>1, <1>2
    <2>2. QED
      BY <1>1, <2>1 DEF IInv, ReadOK, ReadIsRecord, IsRecord
  <1>7. IInv' /\ (TailOK => TailOK')
    BY <1>1, <1>2, <1>3, <1>4, <1>5, <1>6, ReaderFrame
  <1>8. AllRead
    <2>1. SUFFICES ASSUME ~AllRead PROVE FALSE
      OBVIOUS
    <2>2. ~TooLong /\ Sound
      BY <1>1, <2>1, Awaiting
    <2>3. QED
      BY <1>1, <2>2
  <1>9. AlignedReader'
    BY <1>1, <1>8 DEF AlignedReader, AllRead
  <1>10. QED
    BY <1>1, <1>7, <1>9, SameFile

\* It is intact then, and the next one of the record that is read, or the first of the
\* next record.
LEMMA ParsedDue ==
  ASSUME IInv, AInv, ~AllRead, NEW types, Parsed(types)
  PROVE  /\ Len(read) + 1 = Front.id
         /\ Front.frag > 1 => scratch # <<>>
         /\ Ids /\ pos' <= intact
  <1>1. state = "reading" /\ Remaining >= Header /\ pos' = pos + Size(Front)
    BY DEF Parsed
  <1>2. PICK b \in 0..pos : /\ Halfway(b)
                            /\ Succeeds(file, b, Front) /\ pos + Size(Front) <= intact
    BY <1>1, Awaiting
  <1>3. Progress(b) /\ Ids
    BY <1>2 DEF Halfway
  <1>4. Front.frag \in Nat /\ Front.id \in Nat /\ Len(read) \in Nat
    BY ParsedOK, ReaderTypes DEF Fragment
  <1>5. CASE b = 0
    <2>1. Front.id = 1 /\ Front.frag = 1 /\ read = <<>>
      BY <1>2, <1>3, <1>5 DEF Succeeds, Progress
    <2>2. QED
      BY <1>1, <1>2, <1>3, <2>1
  <1>6. CASE b # 0 /\ file[b].of.type \in Final
    <2>1. Front.id = file[b].of.id + 1 /\ Front.frag = 1 /\ Len(read) = file[b].of.id
      BY <1>2, <1>3, <1>6 DEF Succeeds, Progress
    <2>2. QED
      BY <1>1, <1>2, <1>3, <2>1
  <1>7. CASE b # 0 /\ file[b].of.type \notin Final
    <2>1. /\ Front.id = file[b].of.id /\ Front.frag > 1 /\ scratch # <<>>
          /\ Len(read) + 1 = file[b].of.id
      BY <1>2, <1>3, <1>7 DEF Succeeds, Progress
    <2>2. QED
      BY <1>1, <1>2, <1>3, <2>1
  <1>8. QED
    BY <1>5, <1>6, <1>7

\* A fragment that ends no record is put in scratch, or passed over.
LEMMA ScratchStep ==
  ASSUME IInv, AInv, NEW types, Parsed(types), read' = read, scratch' \in Seq(Fragment),
         \A j \in DOMAIN scratch' :
           /\ FragmentOK(scratch'[j], records) /\ scratch'[j].id = scratch'[1].id
           /\ scratch'[j].frag = j /\ scratch'[j].type \notin Final
           /\ j > 1 => Follows(scratch'[j - 1], scratch'[j]),
         scratch' # <<>> => scratch'[Len(scratch')] = Front,
         ~AllRead => scratch' # <<>>
  PROVE  IInv' /\ AInv'
  <1>1. /\ Front \in Fragment /\ FragmentOK(Front, records)
        /\ pos' \in Nat /\ pos < pos' /\ pos' <= end
        /\ EndsFragment(file[pos']) /\ file[pos'].of = Front
        /\ UNCHANGED <<file, state, writer, records, tail, intact, end, eof>>
        /\ state = "reading" /\ BufferOK'
    BY ParsedOK
  <1>2. /\ end \in 0..Len(file) /\ pos \in 0..end /\ end \in Nat /\ pos \in Nat
        /\ read \in Seq(Seq(Fragment)) /\ Len(read) \in Nat
    BY ReaderTypes
  <1>3. end' \in 0..Len(file) /\ pos' \in 0..end' /\ eof' \in BOOLEAN /\ pos' \in 1..pos'
    <2>1. eof' \in BOOLEAN
      BY <1>1 DEF IInv, Typed
    <2>2. QED
      BY <1>1, <1>2, <2>1
  <1>4. ScratchOK'
    BY <1>1, <1>3 DEF ScratchOK
  <1>5. ReadOK'
    <2>1. \A p \in 1..pos : p \in 1..pos'
      BY <1>1, <1>2
    <2>2. QED
      BY <1>1, <2>1 DEF IInv, ReadOK, ReadIsRecord, IsRecord
  <1>6. IInv' /\ (TailOK => TailOK')
    BY <1>1, <1>2, <1>3, <1>4, <1>5, ReaderFrame
  <1>7. ASSUME ~AllRead
        PROVE  \E c \in 0..pos' : Halfway(c)'
    <2>1. Len(read) + 1 = Front.id /\ Ids /\ pos' <= intact
      BY <1>7, ParsedDue
    <2>2. scratch' # <<>> /\ scratch'[Len(scratch')] = Front /\ Front.type \notin Final
      <3>1. scratch' # <<>> /\ scratch'[Len(scratch')] = Front
        BY <1>7
      <3>2. Len(scratch') \in DOMAIN scratch'
        BY <3>1
      <3>3. QED
        BY <3>1, <3>2
    <2>3. pos' # 0
      BY <1>2, <1>1
    <2> DEFINE b == pos'
    <2>4. Boundary(file', b)
      BY <1>1, <1>3 DEF Boundary
    <2>5. /\ b # 0 /\ file'[b].of.type \notin Final /\ scratch' # <<>>
          /\ scratch'[Len(scratch')] = file'[b].of /\ Len(read') + 1 = file'[b].of.id
      BY <1>1, <2>1, <2>2, <2>3
    <2>6. b \in 0..pos' /\ Ids' /\ b <= intact'
      BY <1>1, <2>1, <2>2 DEF Ids
    <2>7. \E c \in 0..pos' : c <= intact' /\ Boundary(file', c) /\ Progress(c)' /\ pos' = c
      BY <2>4, <2>5, <2>6 DEF Progress
    <2>8. QED
      BY <2>6, <2>7 DEF Halfway
  <1>8. AllRead => AllRead'
    BY <1>1 DEF AllRead
  <1>9. AlignedReader'
    BY <1>1, <1>7, <1>8 DEF AlignedReader
  <1>10. QED
    BY <1>1, <1>6, <1>9, SameFile

\* A fragment that ends one makes a record of what is in s.
LEMMA RecordStep ==
  ASSUME IInv, AInv, NEW types, Parsed(types), NEW s \in Seq(Fragment),
         IsRecord(s, Front.id), Front.type \in Final,
         scratch' = <<>>, read' = Append(read, s)
  PROVE  IInv' /\ AInv'
  <1>1. /\ Front # NoFragment /\ Front \in Fragment /\ FragmentOK(Front, records)
        /\ pos' \in Nat /\ pos < pos' /\ pos' <= end
        /\ EndsFragment(file[pos']) /\ file[pos'].of = Front
        /\ \A i \in DOMAIN read : read[i][1].id < Front.id
        /\ UNCHANGED <<file, state, writer, records, tail, intact, end, eof>>
        /\ state = "reading" /\ BufferOK'
    BY ParsedOK
  <1>2. /\ end \in 0..Len(file) /\ pos \in 0..end /\ end \in Nat /\ pos \in Nat
        /\ read \in Seq(Seq(Fragment)) /\ Len(read) \in Nat
    BY ReaderTypes
  <1>3. end' \in 0..Len(file) /\ pos' \in 0..end' /\ eof' \in BOOLEAN /\ pos' \in 1..pos'
        /\ <<>> \in Seq(Fragment)
    <2>1. eof' \in BOOLEAN
      BY <1>1 DEF IInv, Typed
    <2>2. QED
      BY <1>1, <1>2, <2>1, EmptySeq
  <1> DEFINE n == Len(read)
  <1>4. /\ read' \in Seq(Seq(Fragment)) /\ Len(read') = n + 1
        /\ \A i \in 1..n : read'[i] = read[i]
        /\ read'[n + 1] = s
    BY <1>2, AppendProperties
  <1>5. DOMAIN read = 1..n /\ DOMAIN read' = 1..n + 1 /\ n \in Nat
    BY <1>2, <1>4
  <1>6. s[1].id = Front.id
    <2>1. s # <<>> /\ \A j \in DOMAIN s : s[j].id = Front.id
      BY DEF IsRecord
    <2>2. 1 \in DOMAIN s
      BY <2>1
    <2>3. QED
      BY <2>1, <2>2
  <1> HIDE DEF n
  <1>7. ScratchOK'
    BY DEF ScratchOK
  <1>8. ReadOK'
    <2>1. ASSUME NEW i \in 1..n + 1
          PROVE  ReadIsRecord(i)'
      <3>1. CASE i \in 1..n
        <4>1. /\ IsRecord(read[i], read[i][1].id)
              /\ \E p \in 1..pos : EndsRecord(file[p]) /\ file[p].of.id = read[i][1].id
          BY <1>5, <3>1 DEF IInv, ReadOK, ReadIsRecord
        <4>2. \A p \in 1..pos : p \in 1..pos'
          BY <1>1, <1>2
        <4>3. read'[i] = read[i]
          BY <1>4, <3>1
        <4>4. IsRecord(read[i], read[i][1].id)'
          BY <1>1, <4>1, <4>3 DEF IsRecord
        <4>5. \E p \in 1..pos' : EndsRecord(file'[p]) /\ file'[p].of.id = read'[i][1].id
          BY <1>1, <4>1, <4>2, <4>3
        <4>6. QED
          BY <4>4, <4>5 DEF ReadIsRecord
      <3>2. CASE i = n + 1
        <4>1. EndsRecord(file[pos'])
          BY <1>1 DEF EndsRecord, Final
        <4>2. read'[i] = s /\ read'[i][1].id = Front.id
          BY <1>4, <1>6, <3>2
        <4>3. QED
          BY <1>1, <1>3, <4>1, <4>2 DEF IsRecord, ReadIsRecord
      <3>3. QED
        BY <1>5, <2>1, <3>1, <3>2
    <2>2. ASSUME NEW i \in 1..n + 1, NEW j \in 1..n + 1, i < j
          PROVE  read'[i][1].id < read'[j][1].id
      <3>1. i \in 1..n /\ read'[i] = read[i]
        BY <1>4, <1>5, <2>2
      <3>2. CASE j \in 1..n
        BY <1>4, <1>5, <2>2, <3>1, <3>2 DEF IInv, ReadOK
      <3>3. CASE j = n + 1
        BY <1>1, <1>4, <1>5, <1>6, <3>1, <3>3
      <3>4. QED
        BY <1>5, <3>2, <3>3
    <2>3. QED
      BY <1>5, <2>1, <2>2 DEF ReadOK
  <1>9. IInv' /\ (TailOK => TailOK')
    BY <1>1, <1>2, <1>3, <1>4, <1>7, <1>8, ReaderFrame
  <1>10. ASSUME ~AllRead
         PROVE  \E c \in 0..pos' : Halfway(c)'
    <2>1. n + 1 = Front.id /\ Ids /\ pos' <= intact
      BY <1>10, ParsedDue DEF n
    <2>2. Ids'
      BY <1>4, <1>5, <1>6, <2>1 DEF Ids
    <2>3. pos' # 0
      BY <1>1, <1>2
    <2> DEFINE b == pos'
    <2>4. Boundary(file', b)
      BY <1>1, <1>3 DEF Boundary
    <2>5. b # 0 /\ file'[b].of.type \in Final /\ scratch' = <<>> /\ Len(read') = file'[b].of.id
      BY <1>1, <1>4, <2>1, <2>3
    <2>6. b \in 0..pos' /\ Ids' /\ b <= intact'
      BY <1>1, <2>1, <2>2 DEF Ids
    <2>7. \E c \in 0..pos' : c <= intact' /\ Boundary(file', c) /\ Progress(c)' /\ pos' = c
      BY <2>4, <2>5, <2>6 DEF Progress
    <2>8. QED
      BY <2>6, <2>7 DEF Halfway
  <1>11. AllRead => AllRead'
    <2>1. \A i \in DOMAIN read : i \in DOMAIN read' /\ read'[i] = read[i]
      BY <1>4, <1>5
    <2>2. QED
      BY <1>1, <2>1 DEF AllRead
  <1>12. AlignedReader'
    BY <1>1, <1>10, <1>11 DEF AlignedReader
  <1>13. QED
    BY <1>1, <1>9, <1>12, SameFile

LEMMA FullRecordStep ==
  ASSUME IInv, AInv, FullRecord
  PROVE  IInv' /\ AInv'
  <1>1. Parsed({"full"}) /\ scratch' = <<>> /\ read' = Append(read, <<Front>>)
    BY DEF FullRecord
  <1>2. Front \in Fragment /\ FragmentOK(Front, records) /\ Front.type = "full"
    BY <1>1, ParsedOK
  <1> DEFINE s == <<Front>>
  <1>3. s \in Seq(Fragment) /\ Len(s) = 1 /\ DOMAIN s = 1..1 /\ s[1] = Front /\ s # <<>>
    BY <1>2
  <1>4. Front.frag = 1 /\ Front.from = 0 /\ Front.from + Front.len = records[Front.id]
        /\ Front.id \in DOMAIN records
    BY <1>2 DEF FragmentOK, Final
  <1> HIDE DEF s
  <1>5. IsRecord(s, Front.id)
    BY <1>3, <1>4 DEF IsRecord
  <1>6. Front.type \in Final /\ read' = Append(read, s)
    BY <1>1, <1>2 DEF Final, s
  <1>7. QED
    BY <1>1, <1>3, <1>5, <1>6, RecordStep

LEMMA FirstFragmentStep ==
  ASSUME IInv, AInv, FirstFragment
  PROVE  IInv' /\ AInv'
  <1>1. Parsed({"first"}) /\ scratch' = <<Front>> /\ read' = read
    BY DEF FirstFragment
  <1>2. Front \in Fragment /\ FragmentOK(Front, records) /\ Front.type = "first"
    BY <1>1, ParsedOK
  <1> DEFINE s == <<Front>>
  <1>3. s \in Seq(Fragment) /\ Len(s) = 1 /\ DOMAIN s = 1..1 /\ s[1] = Front /\ s # <<>>
    BY <1>2
  <1>4. Front.frag = 1 /\ Front.type \notin Final
    BY <1>2 DEF FragmentOK, Final
  <1>5. scratch' = s
    BY <1>1
  <1> HIDE DEF s
  <1>6. \A j \in DOMAIN scratch' :
          /\ FragmentOK(scratch'[j], records) /\ scratch'[j].id = scratch'[1].id
          /\ scratch'[j].frag = j /\ scratch'[j].type \notin Final
          /\ j > 1 => Follows(scratch'[j - 1], scratch'[j])
    BY <1>2, <1>3, <1>4, <1>5
  <1>7. scratch' \in Seq(Fragment) /\ scratch' # <<>> /\ scratch'[Len(scratch')] = Front
    BY <1>3, <1>5
  <1>8. QED
    BY <1>1, <1>6, <1>7, ScratchStep

\* What is in scratch goes on with the fragment in front.
LEMMA Continued ==
  ASSUME IInv, NEW types, Parsed(types), types \subseteq {"middle", "last"}, scratch # <<>>
  PROVE  LET n == Len(scratch)
             s == Append(scratch, Front)
         IN /\ s \in Seq(Fragment) /\ n \in Nat \ {0} /\ Len(s) = n + 1 /\ DOMAIN s = 1..n + 1
            /\ \A j \in 1..n : s[j] = scratch[j] /\ s[j].type \notin Final
            /\ s[n + 1] = Front
            /\ \A j \in 1..n + 1 : /\ FragmentOK(s[j], records) /\ s[j].id = s[1].id
                                   /\ s[j].frag = j
                                   /\ j > 1 => Follows(s[j - 1], s[j])
  <1> DEFINE n == Len(scratch)
             s == Append(scratch, Front)
  <1>1. scratch \in Seq(Fragment) /\ n \in Nat
    BY ReaderTypes
  <1>2. /\ Front \in Fragment /\ FragmentOK(Front, records) /\ Front.type \in types
        /\ Front.frag > 1 => Follows(scratch[n], Front)
    BY ParsedOK
  <1>3. Front.frag > 1
    <2>1. Front.frag \in Nat
      BY <1>2 DEF Fragment
    <2>2. QED
      BY <1>2, <2>1 DEF FragmentOK
  <1>4. n \in Nat \ {0} /\ DOMAIN scratch = 1..n
    BY <1>1
  <1>5. /\ s \in Seq(Fragment) /\ Len(s) = n + 1
        /\ \A j \in 1..n : s[j] = scratch[j]
        /\ s[n + 1] = Front
    BY <1>1, <1>2, AppendProperties
  <1>6. \A j \in 1..n : /\ FragmentOK(scratch[j], records)
                        /\ scratch[j].id = scratch[1].id /\ scratch[j].frag = j
                        /\ scratch[j].type \notin Final
                        /\ j > 1 => Follows(scratch[j - 1], scratch[j])
    BY <1>4 DEF IInv, ScratchOK
  <1>7. DOMAIN s = 1..n + 1
    BY <1>5
  <1> HIDE DEF n, s
  <1>8. 1 \in 1..n /\ n \in 1..n /\ s[1] = scratch[1]
    BY <1>4, <1>5
  <1>9. Front.id = s[1].id /\ Front.frag = n + 1
    BY <1>2, <1>3, <1>6, <1>8 DEF Follows
  <1>10. ASSUME NEW j \in 1..n + 1
         PROVE  /\ FragmentOK(s[j], records) /\ s[j].id = s[1].id
                /\ s[j].frag = j
                /\ j > 1 => Follows(s[j - 1], s[j])
    <2>1. CASE j \in 1..n
      <3>1. j > 1 => j - 1 \in 1..n
        BY <1>4, <2>1
      <3>2. QED
        BY <1>5, <1>6, <1>8, <2>1, <3>1
    <2>2. CASE j = n + 1
      <3>1. j - 1 = n
        BY <1>4, <2>2
      <3>2. QED
        BY <1>2, <1>3, <1>5, <1>8, <1>9, <2>2, <3>1
    <2>3. QED
      BY <1>4, <2>1, <2>2
  <1>11. QED
    BY <1>4, <1>5, <1>6, <1>7, <1>10 DEF n, s

LEMMA MiddleFragmentStep ==
  ASSUME IInv, AInv, MiddleFragment
  PROVE  IInv' /\ AInv'
  <1>1. Parsed({"middle"}) /\ scratch # <<>> /\ scratch' = Append(scratch, Front) /\ read' = read
    BY DEF MiddleFragment
  <1>2. Front.type \notin Final
    BY <1>1, ParsedOK DEF Final
  <1> DEFINE n == Len(scratch)
             s == Append(scratch, Front)
  <1>3. /\ s \in Seq(Fragment) /\ n \in Nat \ {0} /\ Len(s) = n + 1 /\ DOMAIN s = 1..n + 1
        /\ \A j \in 1..n : s[j] = scratch[j] /\ s[j].type \notin Final
        /\ s[n + 1] = Front
        /\ \A j \in 1..n + 1 : /\ FragmentOK(s[j], records) /\ s[j].id = s[1].id
                               /\ s[j].frag = j
                               /\ j > 1 => Follows(s[j - 1], s[j])
    BY <1>1, Continued
  <1>4. scratch' = s
    BY <1>1
  <1> HIDE DEF n, s
  <1>5. \A j \in DOMAIN s : s[j].type \notin Final
    BY <1>2, <1>3
  <1>6. s \in Seq(Fragment) /\ s # <<>> /\ s[Len(s)] = Front
    BY <1>3
  <1>7. \A j \in DOMAIN s : /\ FragmentOK(s[j], records) /\ s[j].id = s[1].id
                            /\ s[j].frag = j
                            /\ j > 1 => Follows(s[j - 1], s[j])
    BY <1>3
  <1>8. QED
    BY <1>1, <1>4, <1>5, <1>6, <1>7, ScratchStep

LEMMA LastFragmentStep ==
  ASSUME IInv, AInv, LastFragment
  PROVE  IInv' /\ AInv'
  <1>1. /\ Parsed({"last"}) /\ scratch # <<>>
        /\ read' = Append(read, Append(scratch, Front)) /\ scratch' = <<>>
    BY DEF LastFragment
  <1>2. Front.type \in Final /\ FragmentOK(Front, records)
    BY <1>1, ParsedOK DEF Final
  <1> DEFINE n == Len(scratch)
             s == Append(scratch, Front)
  <1>3. /\ s \in Seq(Fragment) /\ n \in Nat \ {0} /\ Len(s) = n + 1 /\ DOMAIN s = 1..n + 1
        /\ s[n + 1] = Front
        /\ \A j \in 1..n + 1 : /\ FragmentOK(s[j], records) /\ s[j].id = s[1].id
                               /\ s[j].frag = j
                               /\ j > 1 => Follows(s[j - 1], s[j])
    BY <1>1, Continued
  <1>4. read' = Append(read, s)
    BY <1>1
  <1> HIDE DEF n, s
  <1>5. IsRecord(s, Front.id)
    <2>1. Front.id \in DOMAIN records /\ Front.from + Front.len = records[Front.id]
      BY <1>2 DEF FragmentOK
    <2>2. 1 \in 1..n + 1 /\ n + 1 \in 1..n + 1 /\ s # <<>>
      BY <1>3
    <2>3. Front.id = s[1].id
      BY <1>3, <2>2
    <2>4. ASSUME NEW j \in DOMAIN s
          PROVE  s[j].id = Front.id /\ s[j].frag = j
      <3>1. j \in 1..n + 1
        BY <1>3
      <3>2. s[j].id = s[1].id /\ s[j].frag = j
        BY <1>3, <3>1
      <3>3. QED
        BY <2>3, <3>2
    <2>5. s[1].from = 0
      <3>1. FragmentOK(s[1], records) /\ s[1].frag = 1
        BY <1>3, <2>2
      <3>2. QED
        BY <3>1 DEF FragmentOK
    <2>6. ASSUME NEW j \in 2..Len(s)
          PROVE  s[j].from = s[j - 1].from + s[j - 1].len
      <3>1. j \in 1..n + 1 /\ j > 1
        BY <1>3
      <3>2. Follows(s[j - 1], s[j])
        BY <1>3, <3>1
      <3>3. QED
        BY <3>2 DEF Follows
    <2>7. s[Len(s)].from + s[Len(s)].len = records[Front.id]
      BY <1>3, <2>1
    <2>8. QED
      BY <2>1, <2>2, <2>4, <2>5, <2>6, <2>7 DEF IsRecord
  <1>6. QED
    BY <1>1, <1>2, <1>3, <1>4, <1>5, RecordStep

LEMMA MissingStartStep ==
  ASSUME IInv, AInv, MissingStart
  PROVE  IInv' /\ AInv'
  <1>1. Parsed({"middle", "last"}) /\ scratch = <<>> /\ scratch' = scratch /\ read' = read
    BY DEF MissingStart
  <1>2. Front.frag > 1
    <2>1. Front \in Fragment /\ FragmentOK(Front, records) /\ Front.type \in {"middle", "last"}
      BY <1>1, ParsedOK
    <2>2. Front.frag \in Nat
      BY <2>1 DEF Fragment
    <2>3. QED
      BY <2>1, <2>2 DEF FragmentOK
  <1>3. AllRead
    BY <1>1, <1>2, ParsedDue
  <1>4. scratch' \in Seq(Fragment) /\ DOMAIN scratch' = {}
    BY <1>1, EmptySeq
  <1>5. QED
    BY <1>1, <1>3, <1>4, ScratchStep

-----------------------------------------------------------------------------
(* The invariant, and what follows from it.                                *)

\* The first log is empty.
LEMMA InitOK ==
  ASSUME Init
  PROVE  IInv /\ AInv
  <1>1. /\ file = <<>> /\ state = "idle" /\ blockOffset = 0 /\ left = 0 /\ frags = 0
        /\ records = <<>> /\ acked = {} /\ tail = "whole" /\ intact = 0 /\ reopens = 0
        /\ pos = 0 /\ end = 0 /\ eof = FALSE /\ scratch = <<>> /\ read = <<>>
    BY DEF Init
  <1>2. /\ file \in Seq(Cell) /\ records \in Seq(Lengths)
        /\ scratch \in Seq(Fragment) /\ read \in Seq(Seq(Fragment))
    BY <1>1, EmptySeq
  <1>3. /\ DOMAIN file = {} /\ DOMAIN scratch = {} /\ DOMAIN read = {}
        /\ Len(file) = 0 /\ Len(records) = 0
    BY <1>1
  <1>4. Block \in Nat /\ Block > 0 /\ 0 % Block = 0
    BY SizeAssumption
  <1>5. Typed
    <2>1. MaxRecords \in Nat /\ MaxReopens \in Nat
      BY BoundAssumption
    <2>2. blockOffset \in 0..Block /\ reopens \in 0..MaxReopens /\ end \in 0..Len(file)
          /\ pos \in 0..end
      BY <1>1, <1>3, <1>4, <2>1
    <2>3. Len(records) <= MaxRecords /\ left \in Nat /\ frags \in Nat
      BY <1>1, <1>3, <2>1
    <2>4. acked \subseteq 1..Len(records) /\ eof \in BOOLEAN
          /\ state \in {"idle", "adding", "reading", "read"} /\ tail \in {"whole", "torn", "buried"}
      BY <1>1
    <2>5. QED
      BY <1>2, <2>2, <2>3, <2>4 DEF Typed
  <1>6. FileOK(file, records)
    BY <1>3 DEF FileOK, CellsOK, Backward, Joined, Ordered
  <1>7. WriterOK /\ AckedOK /\ ReaderOff
    BY <1>1 DEF WriterOK, AckedOK, ReaderOff
  <1>8. BufferOK
    BY <1>1, <1>4 DEF BufferOK
  <1>9. ScratchOK /\ ReadOK
    BY <1>1, <1>3 DEF ScratchOK, ReadOK
  <1>10. Aligned(file)
    <2>1. Forward(file)
      BY <1>3 DEF Forward
    <2>2. ASSUME NEW b \in 0..Len(file)
          PROVE  NextAt(file, b)
      BY <1>3 DEF NextAt
    <2>3. QED
      BY <2>1, <2>2 DEF Aligned
  <1>11. TailOK
    BY <1>1, <1>3 DEF TailOK, NextId
  <1>12. AlignedReader
    BY <1>1, <1>3 DEF AlignedReader, Halfway, Boundary, Progress, Ids
  <1>13. Prefix = file
    BY <1>1 DEF Prefix
  <1>14. Aligned(Prefix) /\ intact \in 0..Len(file) /\ intact = Len(file)
    BY <1>1, <1>3, <1>10, <1>13
  <1>15. QED
    BY <1>1, <1>5, <1>6, <1>7, <1>8, <1>9, <1>11, <1>12, <1>14 DEF IInv, AInv

\* A step that changes nothing.
LEMMA StutterStep ==
  ASSUME IInv, AInv, UNCHANGED vars
  PROVE  IInv' /\ AInv'
  <1>1. /\ UNCHANGED <<file, state, blockOffset, left, frags, records, acked, tail, intact, reopens>>
        /\ UNCHANGED <<pos, end, eof, scratch, read>>
    BY DEF vars, writer, reader
  <1>2. Typed'
    BY <1>1 DEF IInv, Typed
  <1>3. FileOK(file, records)'
    BY <1>1 DEF IInv, FileOK, CellsOK, Backward, Joined, Ordered
  <1>4. WriterOK' /\ AckedOK' /\ ReaderOff'
    BY <1>1 DEF IInv, WriterOK, EndOfPart, AckedOK, Whole, ReaderOff
  <1>5. BufferOK' /\ ScratchOK'
    BY <1>1 DEF IInv, BufferOK, ScratchOK
  <1>6. ReadOK'
    BY <1>1 DEF IInv, ReadOK, ReadIsRecord, IsRecord
  <1>7. TailOK => TailOK'
    BY <1>1 DEF TailOK, NextId
  <1>8. AlignedReader => AlignedReader'
    BY <1>1 DEF AlignedReader, AllRead, Halfway, Progress, Ids
  <1>9. AInv'
    BY <1>1, <1>7, <1>8, SameFile DEF AInv
  <1>10. QED
    BY <1>1, <1>2, <1>3, <1>4, <1>5, <1>6, <1>9 DEF IInv

\* Both invariants hold at all times.
LEMMA Inductive == Spec => [](IInv /\ AInv)
  <1>1. Init => IInv /\ AInv
    BY InitOK
  <1>2. IInv /\ AInv /\ [Next]_vars => IInv' /\ AInv'
    <2> SUFFICES ASSUME IInv, AInv, [Next]_vars
                 PROVE  IInv' /\ AInv'
      OBVIOUS
    <2>1. ASSUME NEW n \in Lengths, AddRecord(n)
          PROVE  IInv' /\ AInv'
      BY <2>1, AddRecordStep
    <2>2. CASE Emit
      BY <2>2, EmitStep
    <2>3. CASE EmitUnfilled
      BY <2>3, EmitUnfilledStep
    <2>4. CASE EmitFails
      BY <2>4, EmitFailsStep
    <2>5. CASE Close
      BY <2>5, CloseStep
    <2>6. CASE ProcessDies
      BY <2>6, ProcessDiesStep
    <2>7. CASE MachineDies
      BY <2>7, MachineDiesStep
    <2>8. CASE Reopen
      BY <2>8, ReopenStep
    <2>9. CASE ReadBlock
      BY <2>9, ReadBlockStep
    <2>10. CASE EndOfFile
      BY <2>10, EndOfFileStep
    <2>11. CASE BadRecord
      BY <2>11, BadRecordStep
    <2>12. CASE FullRecord
      BY <2>12, FullRecordStep
    <2>13. CASE FirstFragment
      BY <2>13, FirstFragmentStep
    <2>14. CASE MiddleFragment
      BY <2>14, MiddleFragmentStep
    <2>15. CASE LastFragment
      BY <2>15, LastFragmentStep
    <2>16. CASE MissingStart
      BY <2>16, MissingStartStep
    <2>17. CASE UNCHANGED vars
      BY <2>17, StutterStep
    <2>18. QED
      BY <2>1, <2>2, <2>3, <2>4, <2>5, <2>6, <2>7, <2>8, <2>9, <2>10, <2>11, <2>12,
         <2>13, <2>14, <2>15, <2>16, <2>17 DEF Next, Write, Read
  <1>3. QED
    BY <1>1, <1>2, PTL DEF Spec

\* block_offset_ never passes the end of a block, the reader never the end of its
\* buffer, and while nothing is torn block_offset_ is where the file ends.
THEOREM LogTypeOK == Spec => []TypeOK
  <1>1. IInv /\ AInv => TypeOK
    <2> SUFFICES ASSUME IInv, AInv
                 PROVE  TypeOK
      OBVIOUS
    <2>1. tail = "whole" /\ state \in {"idle", "adding"} =>
            blockOffset % Block = Len(file) % Block
      BY DEF AInv, TailOK
    <2>2. intact \in 0..Len(file)
      BY DEF AInv
    <2>3. QED
      BY <2>1, <2>2 DEF IInv, Typed, TypeOK
  <1>2. QED
    BY <1>1, Inductive, PTL

\* Whatever appends failed, wherever processes and machines died and whatever was
\* written on behind: each record ReadRecord returns is one that AddRecord was given,
\* from its first byte to its last, and none is returned twice or out of order.
THEOREM LogNothingInvented == Spec => []NothingInvented
  <1>1. IInv => NothingInvented
    <2> SUFFICES ASSUME IInv
                 PROVE  NothingInvented
      OBVIOUS
    <2>1. ASSUME NEW i \in DOMAIN read
          PROVE  \E r \in DOMAIN records : IsRecord(read[i], r)
      <3>1. IsRecord(read[i], read[i][1].id)
        BY DEF IInv, ReadOK, ReadIsRecord
      <3>2. read[i][1].id \in DOMAIN records
        BY <3>1 DEF IsRecord
      <3>3. QED
        BY <3>1, <3>2
    <2>2. QED
      BY <2>1 DEF IInv, ReadOK, NothingInvented
  <1>2. QED
    BY <1>1, Inductive, PTL

\* A log that ends anywhere, but is not written on behind a torn end, reads as the
\* records whose last byte is there, and the acknowledged ones that no power loss
\* took are among them.
THEOREM LogSurvivors == Spec => []Survivors
  <1>1. IInv /\ AInv => Survivors
    <2> SUFFICES ASSUME IInv, AInv, state = "read", tail # "buried"
                 PROVE  /\ \A r \in DOMAIN records : Whole(r) <=> r <= Len(read)
                        /\ \A r \in DOMAIN read : IsRecord(read[r], r)
                        /\ acked \subseteq DOMAIN read
      BY DEF Survivors
    <2>1. /\ read \in Seq(Seq(Fragment)) /\ Len(read) \in Nat /\ DOMAIN read = 1..Len(read)
          /\ records \in Seq(Lengths) /\ Len(records) \in Nat
          /\ DOMAIN records = 1..Len(records) /\ acked \subseteq 1..Len(records)
          /\ file \in Seq(Cell) /\ Len(file) \in Nat /\ DOMAIN file = 1..Len(file)
          /\ end \in 0..Len(file) /\ pos \in 0..end
      BY DEF IInv, Typed
    <2>2. /\ \A i \in DOMAIN read : read[i][1].id = i
          /\ \A r \in DOMAIN records : Whole(r) => r <= Len(read)
      <3>1. AllRead /\ intact = Len(file)
        BY DEF AInv, AlignedReader
      <3>2. ASSUME NEW r \in DOMAIN records, Whole(r)
            PROVE  r \in DOMAIN read /\ read[r][1].id = r
        BY <2>1, <3>1, <3>2 DEF Whole, AllRead
      <3>3. ASSUME NEW i \in DOMAIN read
            PROVE  read[i][1].id = i
        <4> DEFINE r == read[i][1].id
        <4>1. /\ r \in DOMAIN records
              /\ \E p \in 1..pos : EndsRecord(file[p]) /\ file[p].of.id = r
          BY DEF IInv, ReadOK, ReadIsRecord, IsRecord
        <4>2. \A p \in 1..pos : p \in DOMAIN file
          BY <2>1
        <4>3. Whole(r)
          BY <4>1, <4>2 DEF Whole
        <4>4. r \in DOMAIN read /\ read[r][1].id = r
          BY <3>2, <4>1, <4>3
        <4>5. /\ i < r => read[i][1].id < read[r][1].id
              /\ r < i => read[r][1].id < read[i][1].id
          BY <4>4 DEF IInv, ReadOK
        <4>6. r \in Nat /\ i \in Nat
          BY <2>1, <4>1
        <4> HIDE DEF r
        <4>7. ~(i < r) /\ ~(r < i)
          BY <4>4, <4>5, <4>6 DEF r
        <4>8. QED
          BY <4>6, <4>7 DEF r
      <3>4. QED
        BY <2>1, <3>2, <3>3
    <2>3. ASSUME NEW r \in DOMAIN read
          PROVE  IsRecord(read[r], r) /\ Whole(r)
      <3>1. /\ IsRecord(read[r], r)
            /\ \E p \in 1..pos : EndsRecord(file[p]) /\ file[p].of.id = r
        BY <2>2 DEF IInv, ReadOK, ReadIsRecord
      <3>2. \A p \in 1..pos : p \in DOMAIN file
        BY <2>1
      <3>3. QED
        BY <3>1, <3>2 DEF Whole
    <2>4. ASSUME NEW r \in DOMAIN records
          PROVE  Whole(r) <=> r <= Len(read)
      <3>1. r <= Len(read) => r \in DOMAIN read
        BY <2>1
      <3>2. QED
        BY <2>2, <2>3, <3>1
    <2>5. ASSUME NEW r \in acked
          PROVE  r \in DOMAIN read
      <3>1. r \in DOMAIN records /\ Whole(r)
        BY <2>1 DEF IInv, AckedOK
      <3>2. r <= Len(read)
        BY <2>2, <3>1
      <3>3. QED
        BY <2>1, <3>1, <3>2
    <2>6. QED
      BY <2>3, <2>4, <2>5
  <1>2. QED
    BY <1>1, Inductive, PTL

\* Whatever is written behind a torn end, by a writer that goes on after a failed
\* append or that reuses the log, the records that ended before it are read, each from
\* its first byte to its last.
THEOREM LogKeptBeforeDamage == Spec => []KeptBeforeDamage
  <1>1. IInv /\ AInv => KeptBeforeDamage
    <2> SUFFICES ASSUME IInv, AInv, state = "read",
                        NEW i \in 1..intact, EndsRecord(file[i])
                 PROVE  LET r == file[i].of.id IN r \in DOMAIN read /\ IsRecord(read[r], r)
      BY DEF KeptBeforeDamage
    <2> DEFINE r == file[i].of.id
    <2>1. r \in DOMAIN read /\ read[r][1].id = r
      BY DEF AInv, AlignedReader, AllRead
    <2>2. IsRecord(read[r], r)
      BY <2>1 DEF IInv, ReadOK, ReadIsRecord
    <2>3. QED
      BY <2>1, <2>2
  <1>2. QED
    BY <1>1, Inductive, PTL
=============================================================================
