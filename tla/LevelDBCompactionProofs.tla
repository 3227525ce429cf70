----------------------- MODULE LevelDBCompactionProofs -----------------------
(***************************************************************************)
(* The levels keep apart, the newest entry of a key is uppermost, and a    *)
(* reader sees the map it was promised.                                    *)
(***************************************************************************)
EXTENDS LevelDBCompaction, FilterProofs, WellFoundedInduction

LEMMA LeastNatural ==
  ASSUME NEW S, S \subseteq Nat, S # {}
  PROVE  \E n \in S : \A m \in S : n <= m
  <1>1. PICK n \in S : \A m \in S : ~(<<m, n>> \in OpToRel(<, Nat))
    BY NatLessThanWellFounded, WFMin
  <1>2. ASSUME NEW m \in S PROVE n <= m
    <2>1. m \in Nat /\ n \in Nat
      OBVIOUS
    <2>2. ~(m < n)
      BY <1>1, <2>1, Zenon DEF OpToRel
    <2>3. QED
      BY <2>1, <2>2
  <1>3. QED
    BY <1>2


-----------------------------------------------------------------------------
(* Entries and files.                                                      *)

\* No two entries of S have a key and a number in common.
Distinct(S) == \A e, f \in S : e.key = f.key /\ e.seq = f.seq => e = f

LEMMA Bounds == MaxKey \in Nat /\ MaxWrites \in Nat /\ MaxSnapshots \in Nat /\ MaxManual \in Nat
  BY BoundAssumption

LEMMA EntryFields ==
  ASSUME NEW e \in Entry
  PROVE  e.key \in Nat /\ e.key \in Keys /\ e.key >= 1 /\ e.key <= MaxKey
         /\ e.seq \in Nat /\ e.seq >= 1 /\ e.seq <= MaxWrites /\ e.del \in BOOLEAN
  BY Bounds DEF Entry, Keys

\* Among the entries of least (greatest) key there is one of greatest (least)
\* number.
LEMMA FirstEntry ==
  ASSUME NEW S, S \subseteq Entry, S # {}, Distinct(S)
  PROVE  \E e \in S : \A f \in S \ {e} : Precedes(e, f)
  <1>1. \A e \in S : e.key \in Nat /\ e.seq \in Nat /\ e.seq <= MaxWrites
    BY EntryFields
  <1> DEFINE K == {e.key : e \in S}
  <1>2. PICK k \in K : \A j \in K : k <= j
    <2>1. K \subseteq Nat /\ K # {}
      BY <1>1
    <2> HIDE DEF K
    <2>2. QED
      BY <2>1, LeastNatural
  <1> DEFINE T == {e \in S : e.key = k}
             D == {MaxWrites - e.seq : e \in T}
  <1>3. PICK d \in D : \A c \in D : d <= c
    <2>1. D \subseteq Nat /\ D # {}
      BY <1>1, Bounds
    <2> HIDE DEF D
    <2>2. QED
      BY <2>1, LeastNatural
  <1>4. PICK e \in T : d = MaxWrites - e.seq
    OBVIOUS
  <1>5. ASSUME NEW f \in S \ {e} PROVE Precedes(e, f)
    <2>1. k <= f.key
      BY <1>2
    <2>2. CASE f.key = k
      <3>1. MaxWrites - e.seq <= MaxWrites - f.seq
        BY <1>3, <1>4, <2>2
      <3>2. e.seq # f.seq
        BY <1>4, <1>5, <2>2 DEF Distinct
      <3>3. QED
        BY <1>1, <1>4, <2>2, <3>1, <3>2, Bounds DEF Precedes
    <2>3. CASE f.key # k
      BY <1>1, <1>4, <2>1, <2>3 DEF Precedes
    <2>4. QED
      BY <2>2, <2>3
  <1>6. QED
    BY <1>4, <1>5

LEMMA LastEntry ==
  ASSUME NEW S, S \subseteq Entry, S # {}, Distinct(S)
  PROVE  \E e \in S : \A f \in S \ {e} : Precedes(f, e)
  <1>1. \A e \in S : e.key \in Nat /\ e.seq \in Nat /\ e.key <= MaxKey
    BY EntryFields
  <1> DEFINE K == {MaxKey - e.key : e \in S}
  <1>2. PICK k \in K : \A j \in K : k <= j
    <2>1. K \subseteq Nat /\ K # {}
      BY <1>1, Bounds
    <2> HIDE DEF K
    <2>2. QED
      BY <2>1, LeastNatural
  <1> DEFINE T == {e \in S : MaxKey - e.key = k}
             D == {e.seq : e \in T}
  <1>3. PICK d \in D : \A c \in D : d <= c
    <2>1. D \subseteq Nat /\ D # {}
      BY <1>1
    <2> HIDE DEF D
    <2>2. QED
      BY <2>1, LeastNatural
  <1>4. PICK e \in T : d = e.seq
    OBVIOUS
  <1>5. ASSUME NEW f \in S \ {e} PROVE Precedes(f, e)
    <2>1. k <= MaxKey - f.key /\ k = MaxKey - e.key
      BY <1>2, <1>4
    <2>2. CASE f.key = e.key
      <3>1. e.seq <= f.seq
        BY <1>3, <1>4, <2>1, <2>2
      <3>2. e.seq # f.seq
        BY <1>4, <1>5, <2>2 DEF Distinct
      <3>3. QED
        BY <1>1, <1>4, <2>2, <3>1, <3>2 DEF Precedes
    <2>3. CASE f.key # e.key
      BY <1>1, <1>4, <2>1, <2>3, Bounds DEF Precedes
    <2>4. QED
      BY <2>2, <2>3
  <1>6. QED
    BY <1>4, <1>5

\* The ends of a file.
LEMMA Ordered ==
  ASSUME NEW S, S \subseteq Entry, S # {}, Distinct(S)
  PROVE  /\ Smallest(S) \in S /\ \A f \in S \ {Smallest(S)} : Precedes(Smallest(S), f)
         /\ Largest(S) \in S /\ \A f \in S \ {Largest(S)} : Precedes(f, Largest(S))
  BY FirstEntry, LastEntry DEF Smallest, Largest

\* ... and of its range of user keys.
LEMMA FileRange ==
  ASSUME NEW S, S \subseteq Entry, S # {}, Distinct(S)
  PROVE  /\ From(S) \in Keys /\ To(S) \in Keys /\ From(S) \in Nat /\ To(S) \in Nat
         /\ \A e \in S : From(S) <= e.key /\ e.key <= To(S)
         /\ \E e \in S : e.key = From(S)
         /\ \E e \in S : e.key = To(S)
         /\ From(S) <= To(S)
  <1>1. /\ Smallest(S) \in S /\ \A f \in S \ {Smallest(S)} : Precedes(Smallest(S), f)
        /\ Largest(S) \in S /\ \A f \in S \ {Largest(S)} : Precedes(f, Largest(S))
    BY Ordered
  <1>2. \A e \in S : e.key \in Nat /\ e.seq \in Nat /\ e.key \in Keys
    BY EntryFields
  <1>3. ASSUME NEW e \in S PROVE From(S) <= e.key /\ e.key <= To(S)
    BY <1>1, <1>2 DEF From, To, Precedes
  <1>4. QED
    BY <1>1, <1>2, <1>3 DEF From, To


-----------------------------------------------------------------------------
(* Sets of files.                                                          *)

\* The range of a set of files is that of its files.
LEMMA Hull ==
  ASSUME NEW fs, fs \subseteq File, fs # {}, Distinct(UNION fs)
  PROVE  /\ From(UNION fs) \in Nat /\ To(UNION fs) \in Nat
         /\ \A f \in fs : /\ From(f) \in Nat /\ To(f) \in Nat /\ From(f) <= To(f)
                          /\ From(UNION fs) <= From(f) /\ To(f) <= To(UNION fs)
         /\ \E f \in fs : From(f) = From(UNION fs)
         /\ \E f \in fs : To(f) = To(UNION fs)
  <1> DEFINE U == UNION fs
  <1>a. \A f \in fs : f \subseteq Entry /\ f # {} /\ f \subseteq U
    BY DEF File
  <1>1. U \subseteq Entry /\ U # {} /\ Distinct(U)
    BY <1>a
  <1>2. ASSUME NEW f \in fs PROVE f \subseteq Entry /\ f # {} /\ Distinct(f) /\ f \subseteq U
    <2>1. f \subseteq U
      BY <1>a
    <2> HIDE DEF U
    <2>2. Distinct(f)
      BY <1>1, <2>1 DEF Distinct
    <2>3. QED
      BY <1>a, <2>2
  <1> HIDE DEF U
  <1>3. /\ From(U) \in Nat /\ To(U) \in Nat
        /\ \A e \in U : From(U) <= e.key /\ e.key <= To(U)
        /\ \E e \in U : e.key = From(U)
        /\ \E e \in U : e.key = To(U)
    BY <1>1, FileRange
  <1>4. ASSUME NEW f \in fs
        PROVE  /\ From(f) \in Nat /\ To(f) \in Nat /\ From(f) <= To(f)
               /\ \A e \in f : From(f) <= e.key /\ e.key <= To(f)
               /\ \E e \in f : e.key = From(f)
               /\ \E e \in f : e.key = To(f)
    BY <1>2, FileRange
  <1>5. ASSUME NEW f \in fs PROVE From(U) <= From(f) /\ To(f) <= To(U)
    BY <1>2, <1>3, <1>4
  <1>6. \A e \in U : \E f \in fs : e \in f
    BY DEF U
  <1>7. \E f \in fs : From(f) = From(U)
    <2>1. PICK e \in U : e.key = From(U)
      BY <1>3
    <2>2. PICK f \in fs : e \in f
      BY <1>6
    <2>3. From(f) <= From(U) /\ From(U) <= From(f) /\ From(f) \in Nat
      BY <1>4, <1>5, <2>1, <2>2
    <2>4. QED
      BY <1>3, <2>3
  <1>8. \E f \in fs : To(f) = To(U)
    <2>1. PICK e \in U : e.key = To(U)
      BY <1>3
    <2>2. PICK f \in fs : e \in f
      BY <1>6
    <2>3. To(f) <= To(U) /\ To(U) <= To(f) /\ To(f) \in Nat
      BY <1>4, <1>5, <2>1, <2>2
    <2>4. QED
      BY <1>3, <2>3
  <1>9. QED
    BY <1>3, <1>4, <1>5, <1>7, <1>8 DEF U

\* Between its ends, the set has a file over every key.
Gapless(fs) == \A k \in From(UNION fs) .. To(UNION fs) : \E f \in fs : From(f) <= k /\ k <= To(f)

LEMMA GaplessOne ==
  ASSUME NEW f
  PROVE  Gapless({f}) /\ UNION {f} = f
  <1>1. UNION {f} = f
    OBVIOUS
  <1>2. QED
    BY <1>1 DEF Gapless

LEMMA GaplessMore ==
  ASSUME NEW B, NEW R, B \cup R \subseteq File, B # {}, Distinct(UNION (B \cup R)), Gapless(B),
         \A f \in R : Touches(f, From(UNION B), To(UNION B))
  PROVE  Gapless(B \cup R)
  <1> DEFINE A == B \cup R
  <1>1. /\ From(UNION B) \in Nat /\ To(UNION B) \in Nat
        /\ \A f \in B : From(f) \in Nat /\ To(f) \in Nat
    <2>1. Distinct(UNION B)
      BY DEF Distinct
    <2>2. QED
      BY <2>1, Hull
  <1>2. /\ From(UNION A) \in Nat /\ To(UNION A) \in Nat
        /\ \A f \in A : From(f) \in Nat /\ To(f) \in Nat
        /\ \E f \in A : From(f) = From(UNION A)
        /\ \E f \in A : To(f) = To(UNION A)
    BY Hull
  <1>3. \A f \in B : From(UNION B) <= From(f) /\ To(f) <= To(UNION B)
    <2>1. Distinct(UNION B)
      BY DEF Distinct
    <2>2. QED
      BY <2>1, Hull
  <1>4. ASSUME NEW k \in From(UNION A) .. To(UNION A)
        PROVE  \E f \in A : From(f) <= k /\ k <= To(f)
    <2> HIDE DEF A
    <2>0. k \in Int /\ From(UNION A) <= k /\ k <= To(UNION A)
      BY <1>2
    <2>a. B \subseteq A /\ \A f \in A : f \in B \/ (f \in R /\ Touches(f, From(UNION B), To(UNION B)))
      BY DEF A
    <2>1. CASE k < From(UNION B)
      <3>1. PICK f \in A : From(f) = From(UNION A)
        BY <1>2
      <3>2. ASSUME f \in B PROVE FALSE
        <4>1. From(UNION B) <= From(f) /\ From(f) <= k
          BY <1>3, <2>0, <3>1, <3>2
        <4>2. From(f) \in Nat
          BY <1>1, <3>2
        <4>3. QED
          BY <1>1, <2>0, <2>1, <4>1, <4>2
      <3>3. To(f) >= From(UNION B)
        BY <2>a, <3>2 DEF Touches
      <3>4. QED
        BY <1>1, <1>2, <2>0, <2>1, <3>1, <3>3
    <2>2. CASE k > To(UNION B)
      <3>1. PICK f \in A : To(f) = To(UNION A)
        BY <1>2
      <3>2. ASSUME f \in B PROVE FALSE
        <4>1. To(f) <= To(UNION B) /\ k <= To(f)
          BY <1>3, <2>0, <3>1, <3>2
        <4>2. To(f) \in Nat
          BY <1>1, <3>2
        <4>3. QED
          BY <1>1, <2>0, <2>2, <4>1, <4>2
      <3>3. From(f) <= To(UNION B)
        BY <2>a, <3>2 DEF Touches
      <3>4. QED
        BY <1>1, <1>2, <2>0, <2>2, <3>1, <3>3
    <2>3. CASE k >= From(UNION B) /\ k <= To(UNION B)
      <3>1. k \in From(UNION B) .. To(UNION B)
        BY <1>1, <2>0, <2>3
      <3>2. QED
        BY <2>a, <3>1 DEF Gapless
    <2>4. QED
      BY <1>1, <2>0, <2>1, <2>2, <2>3
  <1>5. QED
    BY <1>4 DEF Gapless

\* What touches the range of a set without gaps touches one of its files.
LEMMA TouchesOne ==
  ASSUME NEW fs, fs \subseteq File, fs # {}, Distinct(UNION fs), Gapless(fs),
         NEW t, From(t) \in Nat, To(t) \in Nat, From(t) <= To(t),
         Touches(t, From(UNION fs), To(UNION fs))
  PROVE  \E f \in fs : Touches(t, From(f), To(f))
  <1>1. /\ From(UNION fs) \in Nat /\ To(UNION fs) \in Nat
        /\ \A f \in fs : From(f) \in Nat /\ To(f) \in Nat /\ From(f) <= To(f)
        /\ \E f \in fs : From(f) = From(UNION fs)
    BY Hull
  <1>2. CASE From(t) <= From(UNION fs)
    BY <1>1, <1>2 DEF Touches
  <1>3. CASE From(t) > From(UNION fs)
    <2>1. From(t) \in From(UNION fs) .. To(UNION fs)
      BY <1>1, <1>3 DEF Touches
    <2>2. PICK f \in fs : From(f) <= From(t) /\ From(t) <= To(f)
      BY <2>1 DEF Gapless
    <2>3. QED
      BY <1>1, <2>2 DEF Touches
  <1>4. QED
    BY <1>1, <1>2, <1>3


-----------------------------------------------------------------------------
(* Overlapping files.                                                      *)

\* The files of level 0 that are taken: closed, and no more than needed.
LEMMA Closure ==
  ASSUME NEW lo, NEW hi, ToSet(level0) \subseteq File, Distinct(UNION ToSet(level0))
  PROVE  LET R == GetOverlappingInputs(0, lo, hi) IN
         /\ R \subseteq ToSet(level0)
         /\ Closed(R, lo, hi)
         /\ \A T \in SUBSET ToSet(level0) : Closed(T, lo, hi) => R \subseteq T
  <1> DEFINE L == ToSet(level0)
             R == GetOverlappingInputs(0, lo, hi)
  <1>0. \A f \in L : From(f) \in Nat /\ To(f) \in Nat
    <2>1. CASE L # {}
      BY <2>1, Hull
    <2>2. QED
      BY <2>1
  <1>1. R = {f \in L : \A T \in SUBSET L : Closed(T, lo, hi) => f \in T}
    BY DEF GetOverlappingInputs, Files
  <1>2. R \subseteq L /\ \A T \in SUBSET L : Closed(T, lo, hi) => R \subseteq T
    BY <1>1
  <1>3. ASSUME NEW g \in L \ R
        PROVE  ~Touches(g, lo, hi) /\ (R # {} => ~Touches(g, From(UNION R), To(UNION R)))
    <2>1. PICK T \in SUBSET L : Closed(T, lo, hi) /\ g \notin T
      BY <1>1, <1>3
    <2>2. ~Touches(g, lo, hi) /\ (T # {} => ~Touches(g, From(UNION T), To(UNION T)))
      BY <1>3, <2>1 DEF Closed
    <2>3. R \subseteq T /\ R \subseteq L
      BY <1>2, <2>1
    <2> HIDE DEF R, L
    <2>4. ASSUME R # {} PROVE ~Touches(g, From(UNION R), To(UNION R))
      <3>1. T \subseteq File /\ T # {} /\ Distinct(UNION T) /\ R \subseteq File /\ Distinct(UNION R)
        <4>1. UNION T \subseteq UNION L /\ UNION R \subseteq UNION L
          BY <2>1, <2>3
        <4>2. QED
          BY <2>3, <2>4, <4>1 DEF Distinct, L
      <3>2. /\ From(UNION T) \in Nat /\ To(UNION T) \in Nat
            /\ \A f \in T : From(UNION T) <= From(f) /\ To(f) <= To(UNION T)
        BY <3>1, Hull
      <3>3. /\ From(UNION R) \in Nat /\ To(UNION R) \in Nat
            /\ \E f \in R : From(f) = From(UNION R)
            /\ \E f \in R : To(f) = To(UNION R)
        BY <2>4, <3>1, Hull
      <3>4. From(UNION T) <= From(UNION R) /\ To(UNION R) <= To(UNION T)
        BY <2>3, <3>2, <3>3
      <3>5. From(g) \in Nat /\ To(g) \in Nat
        BY <1>0, <1>3
      <3>6. From(g) > To(UNION T) \/ To(g) < From(UNION T)
        BY <2>2, <3>1, <3>2, <3>5 DEF Touches
      <3>7. From(g) > To(UNION R) \/ To(g) < From(UNION R)
        BY <3>2, <3>3, <3>4, <3>5, <3>6
      <3>8. QED
        BY <3>3, <3>5, <3>7 DEF Touches
    <2>5. QED
      BY <2>2, <2>4
  <1>4. Closed(R, lo, hi)
    BY <1>3 DEF Closed
  <1>5. QED
    BY <1>2, <1>4


AllFiles == UNION {Files(l) : l \in 0 .. NumLevels - 1}

\* The files are files, and no entry is twice among them.
FilesInv == AllFiles \subseteq File /\ Distinct(UNION AllFiles)

LEMMA Levels ==
  /\ 0 \in 0 .. NumLevels - 1
  /\ \A l \in 0 .. NumLevels - 1 : Files(l) \subseteq AllFiles
  /\ \A l \in 0 .. NumLevels - 2 : l \in 0 .. NumLevels - 1 /\ l + 1 \in 0 .. NumLevels - 1 /\ l + 1 # 0
  BY LevelAssumption DEF AllFiles

LEMMA SomeFiles ==
  ASSUME FilesInv, NEW fs, fs \subseteq AllFiles
  PROVE  fs \subseteq File /\ Distinct(UNION fs)
  <1>1. fs \subseteq File /\ UNION fs \subseteq UNION AllFiles
    BY DEF FilesInv
  <1>2. QED
    BY <1>1 DEF Distinct, FilesInv

LEMMA FileOk ==
  ASSUME FilesInv, NEW f \in AllFiles
  PROVE  f \subseteq Entry /\ f # {} /\ Distinct(f) /\ From(f) \in Nat /\ To(f) \in Nat /\ From(f) <= To(f)
         /\ From(f) \in Keys /\ To(f) \in Keys
         /\ \A e \in f : e.key \in Nat /\ From(f) <= e.key /\ e.key <= To(f)
  <1>1. f \subseteq Entry /\ f # {}
    BY DEF FilesInv, File
  <1>2. Distinct(f)
    BY DEF FilesInv, Distinct
  <1>3. \A e \in f : e.key \in Nat
    BY <1>1, EntryFields
  <1>4. QED
    BY <1>1, <1>2, <1>3, FileRange

LEMMA Overlapping ==
  ASSUME FilesInv, NEW l \in 0 .. NumLevels - 1, NEW lo, NEW hi
  PROVE  LET R == GetOverlappingInputs(l, lo, hi) IN
         /\ R \subseteq Files(l)
         /\ \A g \in Files(l) \ R : ~Touches(g, lo, hi)
         /\ l = 0 => Closed(R, lo, hi)
         /\ l = 0 => \A T \in SUBSET Files(0) : Closed(T, lo, hi) => R \subseteq T
         /\ l # 0 => \A f \in R : Touches(f, lo, hi)
  <1>1. CASE l = 0
    <2>1. ToSet(level0) \subseteq AllFiles
      BY Levels DEF Files
    <2>2. ToSet(level0) \subseteq File /\ Distinct(UNION ToSet(level0))
      BY <2>1, SomeFiles
    <2> DEFINE R == GetOverlappingInputs(0, lo, hi)
    <2>3. /\ R \subseteq ToSet(level0)
          /\ Closed(R, lo, hi)
          /\ \A T \in SUBSET ToSet(level0) : Closed(T, lo, hi) => R \subseteq T
      BY <2>2, Closure
    <2>4. Files(0) = ToSet(level0)
      BY DEF Files
    <2> HIDE DEF R
    <2>5. \A g \in Files(0) \ R : ~Touches(g, lo, hi)
      BY <2>3, <2>4 DEF Closed
    <2>6. QED
      BY <1>1, <2>3, <2>4, <2>5 DEF R
  <1>2. CASE l # 0
    <2>1. GetOverlappingInputs(l, lo, hi) = {f \in Files(l) : Touches(f, lo, hi)}
      BY <1>2 DEF GetOverlappingInputs
    <2>2. QED
      BY <1>2, <2>1
  <1>3. QED
    BY <1>1, <1>2

\* What overlaps a set without gaps leaves none.
LEMMA OverlapGapless ==
  ASSUME FilesInv, NEW l \in 0 .. NumLevels - 1, NEW B, B \subseteq AllFiles, B # {}, Gapless(B)
  PROVE  Gapless(B \cup GetOverlappingInputs(l, From(UNION B), To(UNION B)))
  <1> DEFINE lo == From(UNION B)
             hi == To(UNION B)
             R == GetOverlappingInputs(l, lo, hi)
             A == B \cup R
  <1>1. /\ R \subseteq Files(l)
        /\ \A g \in Files(l) \ R : ~Touches(g, lo, hi)
        /\ l = 0 => Closed(R, lo, hi)
        /\ l = 0 => \A T \in SUBSET Files(0) : Closed(T, lo, hi) => R \subseteq T
        /\ l # 0 => \A f \in R : Touches(f, lo, hi)
    BY Overlapping
  <1> HIDE DEF R
  <1>2. R \subseteq AllFiles /\ A \subseteq AllFiles
    BY <1>1, Levels
  <1>3. A \subseteq File /\ Distinct(UNION A) /\ B \subseteq File /\ Distinct(UNION B)
    BY <1>2, SomeFiles
  <1>4. CASE l # 0
    <2>1. \A f \in R : Touches(f, lo, hi)
      BY <1>1, <1>4
    <2>2. QED
      BY <1>3, <2>1, GaplessMore DEF R
  <1>5. CASE l = 0
    <2>1. /\ lo \in Nat /\ hi \in Nat
          /\ \A f \in B : lo <= From(f) /\ To(f) <= hi
      BY <1>3, Hull
    <2>2. /\ From(UNION A) \in Nat /\ To(UNION A) \in Nat
          /\ \E f \in A : From(f) = From(UNION A)
          /\ \E f \in A : To(f) = To(UNION A)
      BY <1>3, Hull
    <2>3. \A f \in Files(0) : From(f) \in Nat /\ To(f) \in Nat /\ From(f) <= To(f)
      BY FileOk, Levels
    <2>4. \A f \in A : From(f) \in Nat /\ To(f) \in Nat /\ From(f) <= To(f)
      BY <1>2, FileOk
    <2>5. R \subseteq Files(0) /\ Files(0) = ToSet(level0)
      BY <1>1, <1>5 DEF Files
    <2>a. \A g \in Files(0) \ R : ~Touches(g, lo, hi) /\ (R # {} => ~Touches(g, From(UNION R), To(UNION R)))
      BY <1>1, <1>5, <2>5 DEF Closed
    \* A part of R whose range holds nothing else of R, and not lo..hi's side.
    <2>6. ASSUME NEW T \in SUBSET R,
                 \A g \in R \ T : ~Touches(g, lo, hi),
                 \A g \in R \ T : T # {} => ~Touches(g, From(UNION T), To(UNION T))
          PROVE  R \subseteq T
      <3>1. ASSUME NEW g \in Files(0) \ T
            PROVE  ~Touches(g, lo, hi) /\ (T # {} => ~Touches(g, From(UNION T), To(UNION T)))
        <4>1. CASE g \in R
          BY <2>6, <3>1, <4>1
        <4>2. CASE g \notin R
          <5>1. ~Touches(g, lo, hi) /\ (R # {} => ~Touches(g, From(UNION R), To(UNION R)))
            BY <2>a, <3>1, <4>2
          <5>2. ASSUME T # {} PROVE ~Touches(g, From(UNION T), To(UNION T))
            <6>1. T \subseteq File /\ Distinct(UNION T) /\ R # {} /\ R \subseteq File /\ Distinct(UNION R)
              BY <1>2, <5>2, SomeFiles
            <6>2. /\ From(UNION R) \in Nat /\ To(UNION R) \in Nat
                  /\ \A f \in R : From(UNION R) <= From(f) /\ To(f) <= To(UNION R)
              BY <6>1, Hull
            <6>3. /\ From(UNION T) \in Nat /\ To(UNION T) \in Nat
                  /\ \E f \in T : From(f) = From(UNION T)
                  /\ \E f \in T : To(f) = To(UNION T)
              BY <5>2, <6>1, Hull
            <6>4. From(UNION R) <= From(UNION T) /\ To(UNION T) <= To(UNION R)
              BY <6>2, <6>3
            <6>5. From(g) > To(UNION R) \/ To(g) < From(UNION R)
              BY <2>3, <3>1, <5>1, <6>1, <6>2 DEF Touches
            <6>6. From(g) > To(UNION T) \/ To(g) < From(UNION T)
              BY <2>3, <3>1, <6>2, <6>3, <6>4, <6>5
            <6>7. QED
              BY <2>3, <3>1, <6>3, <6>6 DEF Touches
          <5>3. QED
            BY <5>1, <5>2
        <4>3. QED
          BY <4>1, <4>2
      <3>2. Closed(T, lo, hi)
        BY <2>5, <3>1 DEF Closed
      <3>3. T \in SUBSET Files(0)
        BY <2>5
      <3>4. QED
        BY <1>1, <1>5, <3>2, <3>3
    <2>7. ASSUME NEW k \in From(UNION A) .. To(UNION A), \A f \in A : ~(From(f) <= k /\ k <= To(f))
          PROVE  FALSE
      <3>1. k \in Int /\ From(UNION A) <= k /\ k <= To(UNION A)
        BY <2>2
      <3>2. CASE k < lo
        <4> DEFINE T == {f \in R : From(f) > k}
        <4>1. ASSUME NEW g \in R \ T PROVE To(g) < k /\ From(g) <= k
          BY <2>4, <2>7, <3>1, <4>1
        <4>2. \A g \in R \ T : ~Touches(g, lo, hi)
          BY <2>1, <2>4, <3>1, <3>2, <4>1 DEF Touches
        <4>3. ASSUME NEW g \in R \ T, T # {} PROVE ~Touches(g, From(UNION T), To(UNION T))
          <5>1. T \subseteq File /\ Distinct(UNION T)
            BY <1>2, SomeFiles
          <5>2. From(UNION T) \in Nat /\ \E f \in T : From(f) = From(UNION T)
            BY <4>3, <5>1, Hull
          <5>3. From(UNION T) > k
            BY <5>2
          <5>4. QED
            BY <2>4, <3>1, <4>1, <4>3, <5>2, <5>3 DEF Touches
        <4>4. R \subseteq T
          BY <2>6, <4>2, <4>3
        <4>5. PICK f \in A : From(f) = From(UNION A)
          BY <2>2
        <4>6. CASE f \in B
          <5>1. lo <= From(f) /\ From(f) <= k /\ From(f) \in Nat /\ lo \in Nat /\ k \in Int
            BY <2>1, <2>4, <3>1, <4>5, <4>6
          <5> HIDE DEF lo
          <5>2. QED
            BY <3>2, <5>1
        <4>7. CASE f \in R
          BY <2>2, <3>1, <4>4, <4>5, <4>7
        <4>8. QED
          BY <4>6, <4>7
      <3>3. CASE k > hi
        <4> DEFINE T == {f \in R : To(f) < k}
        <4>1. ASSUME NEW g \in R \ T PROVE From(g) > k /\ To(g) >= k
          BY <2>4, <2>7, <3>1, <4>1
        <4>2. \A g \in R \ T : ~Touches(g, lo, hi)
          BY <2>1, <2>4, <3>1, <3>3, <4>1 DEF Touches
        <4>3. ASSUME NEW g \in R \ T, T # {} PROVE ~Touches(g, From(UNION T), To(UNION T))
          <5>1. T \subseteq File /\ Distinct(UNION T)
            BY <1>2, SomeFiles
          <5>2. To(UNION T) \in Nat /\ \E f \in T : To(f) = To(UNION T)
            BY <4>3, <5>1, Hull
          <5>3. To(UNION T) < k
            BY <5>2
          <5>4. QED
            BY <2>4, <3>1, <4>1, <4>3, <5>2, <5>3 DEF Touches
        <4>4. R \subseteq T
          BY <2>6, <4>2, <4>3
        <4>5. PICK f \in A : To(f) = To(UNION A)
          BY <2>2
        <4>6. CASE f \in B
          <5>1. To(f) <= hi /\ k <= To(f) /\ To(f) \in Nat /\ hi \in Nat /\ k \in Int
            BY <2>1, <2>4, <3>1, <4>5, <4>6
          <5> HIDE DEF hi
          <5>2. QED
            BY <3>3, <5>1
        <4>7. CASE f \in R
          BY <2>2, <3>1, <4>4, <4>5, <4>7
        <4>8. QED
          BY <4>6, <4>7
      <3>4. CASE lo <= k /\ k <= hi
        <4>1. k \in lo .. hi
          BY <2>1, <3>1, <3>4
        <4>2. QED
          BY <2>7, <4>1 DEF Gapless
      <3>5. QED
        BY <2>1, <3>1, <3>2, <3>3, <3>4
    <2>8. Gapless(A)
      BY <2>7 DEF Gapless
    <2>9. QED
      BY <2>8 DEF R
  <1>6. QED
    BY <1>4, <1>5

-----------------------------------------------------------------------------
(* The inputs of a compaction.                                             *)

Under(l, fs) == GetOverlappingInputs(l + 1, From(UNION fs), To(UNION fs))
Whole(l, fs) == UNION (fs \cup Under(l, fs))
More(l, fs)  == GetOverlappingInputs(l, From(Whole(l, fs)), To(Whole(l, fs)))

LEMMA InputsAre ==
  ASSUME NEW l, NEW fs, NEW in \in Inputs(l, fs)
  PROVE  in = <<fs, Under(l, fs)>> \/ in = <<More(l, fs), Under(l, More(l, fs))>>
  BY DEF Inputs, Under, More, Whole

\* The files of the next level that are not under the set keep out of its range.
LEMMA UnderAll ==
  ASSUME FilesInv, NEW l \in 0 .. NumLevels - 2, NEW fs
  PROVE  /\ Under(l, fs) \subseteq Files(l + 1)
         /\ \A g \in Files(l + 1) \ Under(l, fs) : ~Touches(g, From(UNION fs), To(UNION fs))
         /\ \A g \in Under(l, fs) : Touches(g, From(UNION fs), To(UNION fs))
  <1>1. l + 1 \in 0 .. NumLevels - 1 /\ l + 1 # 0
    BY Levels
  <1>2. QED
    BY <1>1, Overlapping DEF Under

LEMMA UnderGapless ==
  ASSUME FilesInv, NEW l \in 0 .. NumLevels - 2, NEW fs, fs \subseteq AllFiles, fs # {},
         Gapless(fs)
  PROVE  Gapless(fs \cup Under(l, fs))
  <1>1. l + 1 \in 0 .. NumLevels - 1
    BY Levels
  <1>2. QED
    BY <1>1, OverlapGapless DEF Under

\* A larger set has more under it.
LEMMA UnderGrows ==
  ASSUME FilesInv, NEW l \in 0 .. NumLevels - 2, NEW fs, NEW gs, fs # {}, fs \subseteq gs,
         gs \subseteq AllFiles
  PROVE  Under(l, fs) \subseteq Under(l, gs)
  <1>1. gs \subseteq File /\ Distinct(UNION gs) /\ fs \subseteq File /\ Distinct(UNION fs)
    BY SomeFiles
  <1>2. /\ From(UNION gs) \in Nat /\ To(UNION gs) \in Nat
        /\ \A f \in gs : From(UNION gs) <= From(f) /\ To(f) <= To(UNION gs)
    BY <1>1, Hull
  <1>3. /\ From(UNION fs) \in Nat /\ To(UNION fs) \in Nat
        /\ \E f \in fs : From(f) = From(UNION fs)
        /\ \E f \in fs : To(f) = To(UNION fs)
    BY <1>1, Hull
  <1>4. From(UNION gs) <= From(UNION fs) /\ To(UNION fs) <= To(UNION gs)
    BY <1>2, <1>3
  <1>5. ASSUME NEW g \in Under(l, fs) PROVE g \in Under(l, gs)
    <2>1. g \in Files(l + 1) /\ Touches(g, From(UNION fs), To(UNION fs))
      BY UnderAll
    <2>2. From(g) \in Nat /\ To(g) \in Nat
      BY <2>1, FileOk, Levels
    <2>3. From(g) <= To(UNION fs) /\ To(g) >= From(UNION fs)
      BY <2>1 DEF Touches
    <2>4. From(g) <= To(UNION gs) /\ To(g) >= From(UNION gs)
      BY <1>2, <1>3, <1>4, <2>2, <2>3
    <2>5. QED
      BY <2>1, <2>4, UnderAll DEF Touches
  <1>6. QED
    BY <1>5

LEMMA MoreIs ==
  ASSUME FilesInv, NEW l \in 0 .. NumLevels - 2, NEW fs, fs \subseteq Files(l), fs # {}
  PROVE  /\ fs \subseteq More(l, fs) /\ More(l, fs) \subseteq Files(l)
         /\ l = 0 => \A g \in Files(0) \ More(l, fs) :
                       ~Touches(g, From(UNION More(l, fs)), To(UNION More(l, fs)))
         /\ Gapless(fs) => Gapless(fs \cup Under(l, fs) \cup More(l, fs))
  <1> DEFINE W == fs \cup Under(l, fs)
             M == More(l, fs)
             lo == From(UNION W)
             hi == To(UNION W)
  <1>0. l \in 0 .. NumLevels - 1
    BY Levels
  <1>1. M = GetOverlappingInputs(l, lo, hi)
    BY DEF More, Whole
  <1>2. W \subseteq AllFiles /\ fs \subseteq AllFiles /\ W # {}
    BY Levels, UnderAll
  <1> HIDE DEF M
  <1>3. /\ M \subseteq Files(l)
        /\ \A g \in Files(l) \ M : ~Touches(g, lo, hi)
        /\ l = 0 => Closed(M, lo, hi)
    <2> HIDE DEF lo, hi
    <2>1. QED
      BY <1>0, <1>1, Overlapping
  <1>4. fs \subseteq M
    <2>1. W \subseteq File /\ Distinct(UNION W)
      BY <1>2, SomeFiles
    <2>2. ASSUME NEW f \in fs PROVE Touches(f, lo, hi)
      <3>1. /\ lo \in Nat /\ hi \in Nat /\ From(f) \in Nat /\ To(f) \in Nat /\ From(f) <= To(f)
            /\ lo <= From(f) /\ To(f) <= hi
        BY <1>2, <2>1, Hull
      <3> HIDE DEF lo, hi
      <3>2. QED
        BY <3>1 DEF Touches
    <2>3. QED
      BY <1>3, <2>2
  <1>5. l = 0 => \A g \in Files(0) \ M : ~Touches(g, From(UNION M), To(UNION M))
    BY <1>3, <1>4 DEF Closed, Files
  <1>6. ASSUME Gapless(fs) PROVE Gapless(W \cup M)
    <2>1. Gapless(W)
      BY <1>2, <1>6, UnderGapless
    <2>2. QED
      BY <1>0, <1>1, <1>2, <2>1, OverlapGapless
  <1>7. QED
    BY <1>3, <1>4, <1>5, <1>6 DEF M

\* What a compaction of fs takes.
LEMMA Taken ==
  ASSUME FilesInv, NEW l \in 0 .. NumLevels - 2, NEW fs, fs \subseteq Files(l), fs # {},
         NEW in \in Inputs(l, fs)
  PROVE  /\ in = <<in[1], in[2]>>
         /\ fs \subseteq in[1] /\ in[1] \subseteq Files(l) /\ in[2] \subseteq Files(l + 1)
         /\ \A g \in Files(l + 1) \ in[2] : ~Touches(g, From(UNION in[1]), To(UNION in[1]))
         /\ \A g \in in[2] : Touches(g, From(UNION in[1]), To(UNION in[1]))
         /\ \/ in[1] = fs
            \/ l = 0 => \A g \in Files(0) \ in[1] :
                          ~Touches(g, From(UNION in[1]), To(UNION in[1]))
         /\ Gapless(fs) => Gapless(in[1] \cup in[2])
  <1>1. CASE in = <<fs, Under(l, fs)>>
    <2>1. in[1] = fs /\ in[2] = Under(l, fs)
      BY <1>1
    <2>2. fs \subseteq AllFiles
      BY Levels
    <2>3. Gapless(fs) => Gapless(fs \cup Under(l, fs))
      BY <2>2, UnderGapless
    <2>4. QED
      BY <1>1, <2>1, <2>3, UnderAll
  <1>2. CASE in = <<More(l, fs), Under(l, More(l, fs))>>
    <2> DEFINE M == More(l, fs)
    <2>1. in[1] = M /\ in[2] = Under(l, M)
      BY <1>2
    <2>2. /\ fs \subseteq M /\ M \subseteq Files(l)
          /\ l = 0 => \A g \in Files(0) \ M : ~Touches(g, From(UNION M), To(UNION M))
          /\ Gapless(fs) => Gapless(fs \cup Under(l, fs) \cup M)
      BY MoreIs
    <2> HIDE DEF M
    <2>3. M \subseteq AllFiles /\ M # {} /\ fs \subseteq AllFiles
      BY <2>2, Levels
    <2>4. ASSUME Gapless(fs) PROVE Gapless(M \cup Under(l, M))
      <3> DEFINE B == fs \cup Under(l, fs) \cup M
      <3>1. Under(l, fs) \subseteq Under(l, M)
        BY <2>2, <2>3, UnderGrows
      <3>2. B \cup Under(l, M) = M \cup Under(l, M)
        BY <2>2, <3>1
      <3>3. Under(l, M) \subseteq AllFiles /\ B \subseteq AllFiles
        BY <2>3, UnderAll, Levels
      <3>4. B \cup Under(l, M) \subseteq File /\ Distinct(UNION (B \cup Under(l, M)))
            /\ B \subseteq File /\ Distinct(UNION B)
            /\ M \subseteq File /\ Distinct(UNION M)
        BY <2>3, <3>3, SomeFiles
      <3>5. ASSUME NEW g \in Under(l, M) PROVE Touches(g, From(UNION B), To(UNION B))
        <4>1. /\ From(UNION M) \in Nat /\ To(UNION M) \in Nat
              /\ \E f \in M : From(f) = From(UNION M)
              /\ \E f \in M : To(f) = To(UNION M)
          BY <2>3, <3>4, Hull
        <4>2. B # {}
          BY <2>3
        <4>3. /\ From(UNION B) \in Nat /\ To(UNION B) \in Nat
              /\ \A f \in B : From(UNION B) <= From(f) /\ To(f) <= To(UNION B)
          BY <3>4, <4>2, Hull
        <4>4. From(UNION B) <= From(UNION M) /\ To(UNION M) <= To(UNION B)
          BY <4>1, <4>3
        <4>5. From(g) \in Nat /\ To(g) \in Nat
          BY <3>3, FileOk
        <4>6. From(g) <= To(UNION M) /\ To(g) >= From(UNION M)
          BY UnderAll DEF Touches
        <4>7. From(g) <= To(UNION B) /\ To(g) >= From(UNION B)
          BY <4>1, <4>3, <4>4, <4>5, <4>6
        <4>8. QED
          BY <4>7 DEF Touches
      <3>6. Gapless(B) /\ B # {}
        BY <2>2, <2>3, <2>4
      <3> HIDE DEF B
      <3>7. Gapless(B \cup Under(l, M))
        BY <3>4, <3>5, <3>6, GaplessMore
      <3>8. QED
        BY <3>2, <3>7
    <2>5. QED
      BY <1>2, <2>1, <2>2, <2>4, UnderAll
  <1>3. QED
    BY <1>1, <1>2, InputsAre

-----------------------------------------------------------------------------
(* The outputs of a compaction.                                            *)

\* A compaction may keep two entries of one key only for a snapshot, and end a file
\* between them only if files are ended wherever they are big enough.
Divides == SplitKeys /\ MaxSnapshots # 0

\* In the order of a level: if no file ends inside a key, the files' keys are in order
\* too.
Before(e, f) == IF Divides THEN Precedes(e, f) ELSE e.key < f.key

Apart(f, g) == \/ \A e \in f, d \in g : Before(e, d)
               \/ \A e \in f, d \in g : Before(d, e)

\* A number is of one entry.
Numbered(S) == \A e, f \in S : e.seq = f.seq => e = f

\* A key has one entry.
Single(S) == \A e, f \in S : e.key = f.key => e = f

LEMMA Order ==
  ASSUME NEW e \in Entry, NEW f \in Entry, NEW g \in Entry
  PROVE  /\ Precedes(e, f) /\ Precedes(f, g) => Precedes(e, g)
         /\ e.seq # f.seq => Precedes(e, f) \/ Precedes(f, e)
         /\ ~Precedes(e, e)
         /\ e.key < f.key => Before(e, f)
         /\ Before(e, f) => Precedes(e, f) /\ e.key <= f.key
         /\ ~Divides /\ Before(e, f) => e.key < f.key
  <1>1. e.key \in Nat /\ e.seq \in Nat /\ f.key \in Nat /\ f.seq \in Nat /\ g.key \in Nat /\ g.seq \in Nat
    BY EntryFields
  <1>2. Divides \in BOOLEAN
    BY KindAssumption DEF Divides
  <1>3. Precedes(e, f) /\ Precedes(f, g) => Precedes(e, g)
    BY <1>1 DEF Precedes
  <1>4. e.seq # f.seq => Precedes(e, f) \/ Precedes(f, e)
    BY <1>1 DEF Precedes
  <1>5. e.key < f.key => Precedes(e, f)
    BY DEF Precedes
  <1>6. Precedes(e, f) => e.key <= f.key
    BY <1>1 DEF Precedes
  <1>7. QED
    BY <1>1, <1>2, <1>3, <1>4, <1>5, <1>6 DEF Before, Precedes

LEMMA FiniteEntries ==
  ASSUME NEW S, S \subseteq Entry, Numbered(S)
  PROVE  IsFiniteSet(S)
  <1> DEFINE f == [e \in S |-> e.seq]
  <1>1. \A e \in S : e.seq \in 1 .. MaxWrites
    BY DEF Entry
  <1>2. f \in Injection(S, 1 .. MaxWrites)
    BY <1>1 DEF Injection, IsInjective, Numbered
  <1>3. IsFiniteSet(1 .. MaxWrites)
    BY Bounds, FS_Interval
  <1>4. QED
    BY <1>2, <1>3, FS_Injection

Cuts(kept) == {e \in kept : \E f \in kept :
                 Precedes(f, e) /\ (SplitKeys \/ \A g \in kept : g.key = e.key => g.seq <= e.seq)}
Part(C, e) == Cardinality({c \in C : ~Precedes(e, c)})
Piece(kept, C, e) == {f \in kept : Part(C, f) = Part(C, e)}

LEMMA PartsOrdered ==
  ASSUME NEW S, S \subseteq Entry, Numbered(S), MaxSnapshots = 0 => Single(S), NEW C, C \subseteq Cuts(S),
         NEW e \in S, NEW d \in S
  PROVE  /\ Part(C, e) \in Nat
         /\ Part(C, e) < Part(C, d) => Before(e, d)
  <1> DEFINE Upto(x) == {c \in C : ~Precedes(x, c)}
  <1>1. C \subseteq S
    BY DEF Cuts
  <1>2. ASSUME NEW x \in S PROVE IsFiniteSet(Upto(x)) /\ Cardinality(Upto(x)) \in Nat
    <2>1. IsFiniteSet(S) /\ Upto(x) \in SUBSET S
      BY <1>1, FiniteEntries
    <2> HIDE DEF Upto
    <2>2. QED
      BY <2>1, FS_Subset, FS_CardinalityType
  <1>3. Part(C, e) \in Nat /\ Part(C, d) \in Nat
    BY <1>2 DEF Part
  <1>4. ASSUME Upto(d) \subseteq Upto(e) PROVE ~(Part(C, e) < Part(C, d))
    <2>1. Cardinality(Upto(d)) <= Cardinality(Upto(e))
      <3> HIDE DEF Upto
      <3>1. Upto(d) \in SUBSET Upto(e)
        BY <1>4
      <3>2. QED
        BY <1>2, <3>1, FS_Subset
    <2>2. Part(C, d) <= Part(C, e)
      BY <2>1 DEF Part
    <2>3. QED
      BY <1>3, <2>2
  <1>5. ASSUME ~Precedes(e, d) PROVE Upto(d) \subseteq Upto(e)
    <2>1. e = d \/ Precedes(d, e)
      BY <1>5, Order DEF Numbered
    <2>2. ASSUME NEW c \in C, Precedes(e, c) PROVE Precedes(d, c)
      BY <1>1, <2>1, <2>2, Order
    <2>3. QED
      BY <2>2
  <1>6. ASSUME ~SplitKeys, e.key = d.key PROVE Upto(d) \subseteq Upto(e)
    <2>1. ASSUME NEW c \in C, ~Precedes(d, c), Precedes(e, c) PROVE FALSE
      <3>1. c \in Entry /\ e \in Entry /\ d \in Entry
        BY <1>1
      <3>2. /\ e.key \in Nat /\ e.seq \in Nat /\ d.key \in Nat /\ d.seq \in Nat
            /\ c.key \in Nat /\ c.seq \in Nat
        BY <3>1, EntryFields
      <3>3. c.key = e.key
        BY <1>6, <2>1, <3>2 DEF Precedes
      <3>4. e.seq <= c.seq
        BY <1>6, <3>3 DEF Cuts
      <3>5. QED
        BY <2>1, <3>2, <3>3, <3>4 DEF Precedes
    <2>2. QED
      BY <2>1
  <1>7. ASSUME Part(C, e) < Part(C, d) PROVE Before(e, d)
    <2>1. Precedes(e, d)
      BY <1>4, <1>5, <1>7
    <2>2. Divides \/ e.key # d.key
      <3>1. CASE ~SplitKeys
        BY <1>4, <1>6, <1>7, <3>1
      <3>2. CASE MaxSnapshots = 0 /\ e.key = d.key
        <4>1. e = d
          BY <3>2 DEF Single
        <4>2. QED
          BY <1>3, <1>7, <4>1
      <3>3. QED
        BY <3>1, <3>2 DEF Divides
    <2>3. e.key \in Nat /\ d.key \in Nat
      BY EntryFields
    <2>4. QED
      BY <2>1, <2>2, <2>3 DEF Before, Precedes
  <1>8. QED
    BY <1>3, <1>7

LEMMA OutputsAre ==
  ASSUME NEW S, S \subseteq Entry, Numbered(S), MaxSnapshots = 0 => Single(S),
         NEW new \in Outputs(S)
  PROVE  /\ UNION new = S
         /\ \A p \in new : p # {} /\ p \subseteq S
         /\ \A p, q \in new : p # q => Apart(p, q) /\ p \cap q = {}
  <1>1. PICK C \in SUBSET Cuts(S) : new = {Piece(S, C, e) : e \in S}
    BY DEF Outputs, Cuts, Part, Piece
  <1>2. \A e \in S : e \in Piece(S, C, e) /\ Piece(S, C, e) \subseteq S
    BY DEF Piece
  <1>3. ASSUME NEW p \in new PROVE p # {} /\ p \subseteq S
    BY <1>1, <1>2
  <1>4. \A e \in S : Part(C, e) \in Nat
    BY <1>1, PartsOrdered
  <1>5. ASSUME NEW p \in new, NEW q \in new, p # q
        PROVE  Apart(p, q) /\ p \cap q = {}
    <2>1. PICK a \in S : p = Piece(S, C, a)
      BY <1>1
    <2>2. PICK b \in S : q = Piece(S, C, b)
      BY <1>1
    <2>3. Part(C, a) # Part(C, b)
      BY <1>5, <2>1, <2>2 DEF Piece
    <2>4. \A e \in p : e \in S /\ Part(C, e) = Part(C, a)
      BY <2>1 DEF Piece
    <2>5. \A d \in q : d \in S /\ Part(C, d) = Part(C, b)
      BY <2>2 DEF Piece
    <2>6. CASE Part(C, a) < Part(C, b)
      <3>1. \A e \in p, d \in q : Before(e, d)
        BY <1>1, <2>4, <2>5, <2>6, PartsOrdered
      <3>2. QED
        BY <2>3, <2>4, <2>5, <3>1 DEF Apart
    <2>7. CASE Part(C, b) < Part(C, a)
      <3>1. \A e \in p, d \in q : Before(d, e)
        BY <1>1, <2>4, <2>5, <2>7, PartsOrdered
      <3>2. QED
        BY <2>3, <2>4, <2>5, <3>1 DEF Apart
    <2>8. QED
      BY <1>4, <2>3, <2>6, <2>7
  <1>6. UNION new = S
    <2>1. ASSUME NEW e \in S PROVE e \in UNION new
      BY <1>1, <1>2
    <2>2. ASSUME NEW e \in UNION new PROVE e \in S
      BY <1>3
    <2>3. QED
      BY <2>1, <2>2
  <1>7. QED
    BY <1>3, <1>5, <1>6

-----------------------------------------------------------------------------
(* What every step keeps, whatever the constants.                          *)

Entries == mem \cup imm \cup UNION AllFiles

\* Numbers are given once, up to lastSequence.
NumberInv == Numbered(Entries) /\ \A e \in Entries : e.seq <= lastSequence

\* An entry is in one place.
PlaceInv == /\ mem \cap imm = {}
            /\ \A f \in AllFiles : f \cap mem = {} /\ f \cap imm = {}
            /\ \A f, g \in AllFiles : f # g => f \cap g = {}

ImmInv == hasImm <=> imm # {}

\* A running compaction's files stay in the version, and it was CompactRange's only
\* if that has not ended.
CompInv == compaction # None =>
             /\ compaction.in[1] \subseteq Files(compaction.level)
             /\ compaction.in[2] \subseteq Files(compaction.level + 1)
             /\ compaction.end # 0 => manual # None

\* What a compaction took for the oldest snapshot still is one or older; without
\* snapshots it is none older than what is compacted.
SnapInv == /\ \A s \in snapshots : s <= lastSequence
           /\ compaction # None => /\ compaction.smallest <= lastSequence
                                   /\ \A s \in snapshots : compaction.smallest <= s
           /\ MaxSnapshots = 0 =>
                /\ snapshots = {}
                /\ compaction # None =>
                     \A f \in compaction.in[1] \cup compaction.in[2] : \A e \in f :
                       e.seq <= compaction.smallest

BaseInv == TypeOK /\ NumberInv /\ PlaceInv /\ ImmInv /\ CompInv /\ SnapInv

LEMMA FilesAre ==
  ASSUME TypeOK
  PROVE  /\ \A l \in 0 .. NumLevels - 1 : Files(l) \subseteq File
         /\ AllFiles \subseteq File
         /\ Files(0) = ToSet(level0) /\ \A l \in 1 .. NumLevels - 1 : Files(l) = deeper[l]
  <1>1. Files(0) = ToSet(level0) /\ ToSet(level0) \subseteq File
    BY DEF Files, ToSet, TypeOK
  <1>2. ASSUME NEW l \in 1 .. NumLevels - 1 PROVE Files(l) = deeper[l] /\ deeper[l] \subseteq File
    BY DEF Files, TypeOK
  <1>3. \A l \in 0 .. NumLevels - 1 : l = 0 \/ l \in 1 .. NumLevels - 1
    BY LevelAssumption
  <1>4. QED
    BY <1>1, <1>2, <1>3 DEF AllFiles

LEMMA NumberedDistinct ==
  ASSUME NEW S, Numbered(S), NEW T, T \subseteq S
  PROVE  Numbered(T) /\ Distinct(T)
  BY DEF Numbered, Distinct

LEMMA FilesOk ==
  ASSUME TypeOK, NumberInv
  PROVE  FilesInv
  <1>1. UNION AllFiles \subseteq Entries
    BY DEF Entries
  <1>2. QED
    BY <1>1, FilesAre, NumberedDistinct DEF FilesInv, NumberInv

LEMMA EntriesOk ==
  ASSUME TypeOK
  PROVE  Entries \subseteq Entry
  <1>1. \A f \in AllFiles : f \subseteq Entry
    BY FilesAre DEF File
  <1>2. QED
    BY <1>1 DEF Entries, TypeOK

LEMMA SameFiles ==
  ASSUME UNCHANGED version
  PROVE  /\ AllFiles' = AllFiles
         /\ \A l \in 0 .. NumLevels - 1 : Files(l)' = Files(l)
  BY DEF version, Files, AllFiles

\* CompactMemTable: the memtable becomes a file of one level.
LEMMA FlushIs ==
  ASSUME TypeOK, ImmInv, CompactMemTable
  PROVE  /\ imm \in File
         /\ level0' \in Seq(File) /\ deeper' \in [1 .. NumLevels - 1 -> SUBSET File]
         /\ \E l \in 0 .. NumLevels - 1 :
              /\ l \in PickLevel(imm)
              /\ Files(l)' = Files(l) \cup {imm}
              /\ \A j \in 0 .. NumLevels - 1 : j # l => Files(j)' = Files(j)
              /\ l = 0 => level0' = Append(level0, imm)
              /\ l # 0 => level0' = level0
         /\ AllFiles' = AllFiles \cup {imm}
  <1>1. imm \in File
    BY DEF CompactMemTable, ImmInv, TypeOK, File
  <1>2. PICK l \in PickLevel(imm) :
          IF l = 0 THEN level0' = Append(level0, imm) /\ UNCHANGED deeper
          ELSE deeper' = [deeper EXCEPT ![l] = @ \cup {imm}] /\ UNCHANGED level0
    BY DEF CompactMemTable
  <1>3. l \in 0 .. NumLevels - 1
    BY LevelAssumption DEF PickLevel
  <1>4. level0 \in Seq(File) /\ deeper \in [1 .. NumLevels - 1 -> SUBSET File]
    BY DEF TypeOK
  <1>5. Files(0)' = ToSet(level0') /\ Files(0) = ToSet(level0)
    BY DEF Files
  <1>6. \A j \in 1 .. NumLevels - 1 : Files(j)' = deeper'[j] /\ Files(j) = deeper[j]
    BY DEF Files
  <1>7. \A j \in 0 .. NumLevels - 1 : j = 0 \/ j \in 1 .. NumLevels - 1
    BY LevelAssumption
  <1>8. /\ level0' \in Seq(File) /\ deeper' \in [1 .. NumLevels - 1 -> SUBSET File]
        /\ Files(l)' = Files(l) \cup {imm}
        /\ \A j \in 0 .. NumLevels - 1 : j # l => Files(j)' = Files(j)
    <2>1. CASE l = 0
      <3>1. level0' = Append(level0, imm) /\ deeper' = deeper
        BY <1>2, <2>1
      <3>2. level0' \in Seq(File) /\ ToSet(level0') = ToSet(level0) \cup {imm}
        BY <1>1, <1>4, <3>1 DEF ToSet
      <3>3. QED
        BY <1>4, <1>5, <1>6, <1>7, <2>1, <3>1, <3>2
    <2>2. CASE l # 0
      <3>1. level0' = level0 /\ deeper' = [deeper EXCEPT ![l] = @ \cup {imm}]
        BY <1>2, <2>2
      <3>2. l \in 1 .. NumLevels - 1
        BY <1>3, <1>7, <2>2
      <3>3. /\ deeper' \in [1 .. NumLevels - 1 -> SUBSET File]
            /\ deeper'[l] = deeper[l] \cup {imm}
            /\ \A j \in 1 .. NumLevels - 1 : j # l => deeper'[j] = deeper[j]
        BY <1>1, <1>4, <3>1, <3>2
      <3>4. QED
        BY <1>4, <1>5, <1>6, <1>7, <3>1, <3>2, <3>3
    <2>3. QED
      BY <2>1, <2>2
  <1>9. AllFiles' = AllFiles \cup {imm}
    BY <1>3, <1>8 DEF AllFiles
  <1>10. QED
    BY <1>1, <1>2, <1>3, <1>8, <1>9

\* The version without `gone', with `new' at level l.
Edited(gone, l, new) ==
  /\ Files(l)' = (Files(l) \ gone) \cup new
  /\ \A j \in 0 .. NumLevels - 1 : j # l => Files(j)' = Files(j) \ gone
  /\ AllFiles' = (AllFiles \ gone) \cup new
  /\ \A i, j \in DOMAIN level0' :
       i < j => \E a, b \in DOMAIN level0 : a < b /\ level0'[i] = level0[a] /\ level0'[j] = level0[b]

\* A compaction's edit of the version.
LEMMA ApplyIs ==
  ASSUME TypeOK, NEW gone, NEW l \in 1 .. NumLevels - 1, NEW new, new \subseteq File,
         Apply(gone, l, new)
  PROVE  /\ level0' \in Seq(File) /\ deeper' \in [1 .. NumLevels - 1 -> SUBSET File]
         /\ Edited(gone, l, new)
  <1>1. level0 \in Seq(File) /\ deeper \in [1 .. NumLevels - 1 -> SUBSET File]
    BY DEF TypeOK
  <1> DEFINE T == ToSet(level0) \ gone
  <1>2. level0' = Among(level0, T)
    BY DEF Apply
  <1>3. deeper' = [j \in 1 .. NumLevels - 1 |-> (deeper[j] \ gone) \cup (IF j = l THEN new ELSE {})]
    BY <1>1 DEF Apply
  <1>4. /\ level0' \in Seq(File \cap T)
        /\ \A n \in DOMAIN level0' : \E i \in DOMAIN level0 : level0'[n] = level0[i] /\ level0[i] \in T
        /\ \A i \in DOMAIN level0 : level0[i] \in T => \E n \in DOMAIN level0' : level0'[n] = level0[i]
    <2> DEFINE A == Among(level0, T)
    <2> HIDE DEF T
    <2>1. /\ A \in Seq(File \cap T)
          /\ \A n \in DOMAIN A : \E i \in DOMAIN level0 : A[n] = level0[i] /\ level0[i] \in T
          /\ \A i \in DOMAIN level0 : level0[i] \in T => \E n \in DOMAIN A : A[n] = level0[i]
      BY <1>1, AmongProperties
    <2> HIDE DEF A
    <2>2. level0' = A
      BY <1>2 DEF A, T
    <2>3. QED
      BY <2>1, <2>2
  <1>5. level0' \in Seq(File)
    BY <1>4
  <1>6. ToSet(level0') = T
    <2>1. T = {f \in ToSet(level0) : f \in T}
      OBVIOUS
    <2> HIDE DEF T
    <2>2. QED
      BY <1>4, <2>1 DEF ToSet
  <1>7. deeper' \in [1 .. NumLevels - 1 -> SUBSET File]
    BY <1>1, <1>3
  <1>8. Files(0)' = ToSet(level0') /\ Files(0) = ToSet(level0)
    BY DEF Files
  <1>9. \A j \in 1 .. NumLevels - 1 : Files(j)' = deeper'[j] /\ Files(j) = deeper[j]
    BY DEF Files
  <1>10. \A j \in 0 .. NumLevels - 1 : j = 0 \/ j \in 1 .. NumLevels - 1
    BY LevelAssumption
  <1> HIDE DEF T
  <1>11. Files(l)' = (Files(l) \ gone) \cup new
    BY <1>3, <1>9
  <1>a. ASSUME NEW j \in 0 .. NumLevels - 1, j # l PROVE Files(j)' = Files(j) \ gone
    <2>1. CASE j = 0
      BY <1>6, <1>8, <2>1 DEF T
    <2>2. CASE j \in 1 .. NumLevels - 1
      BY <1>3, <1>9, <1>a, <2>2
    <2>3. QED
      BY <1>10, <2>1, <2>2
  <1>12. AllFiles' = (AllFiles \ gone) \cup new
    <2>1. l \in 0 .. NumLevels - 1
      BY LevelAssumption
    <2>2. QED
      BY <1>11, <1>a, <2>1 DEF AllFiles
  <1>13. ASSUME NEW m \in DOMAIN level0', NEW n \in DOMAIN level0', m < n
         PROVE  \E i, j \in DOMAIN level0 : i < j /\ level0'[m] = level0[i] /\ level0'[n] = level0[j]
    BY <1>1, <1>2, <1>13, AmongOrdered
  <1>b. Edited(gone, l, new)
    BY <1>11, <1>a, <1>12, <1>13 DEF Edited
  <1>14. QED
    BY <1>5, <1>7, <1>b

LEMMA Oldest ==
  ASSUME TypeOK, SnapInv
  PROVE  /\ SmallestSnapshot \in 0 .. MaxWrites /\ SmallestSnapshot <= lastSequence
         /\ \A s \in snapshots : SmallestSnapshot <= s
  <1>1. /\ lastSequence \in 0 .. MaxWrites /\ snapshots \subseteq 0 .. MaxWrites
        /\ lastSequence \in Nat /\ snapshots \subseteq Nat
    BY Bounds DEF TypeOK
  <1>2. CASE snapshots = {}
    BY <1>1, <1>2 DEF SmallestSnapshot
  <1>3. CASE snapshots # {}
    <2>1. \E s \in snapshots : \A t \in snapshots : s <= t
      BY <1>1, <1>3, LeastNatural
    <2>2. SmallestSnapshot \in snapshots /\ \A t \in snapshots : SmallestSnapshot <= t
      BY <1>3, <2>1 DEF SmallestSnapshot
    <2>3. QED
      BY <1>1, <2>2 DEF SnapInv
  <1>4. QED
    BY <1>2, <1>3

\* CompactRange ends at a level that exists.
LEMMA LastLevel ==
  ASSUME NEW S, S \subseteq 1 .. NumLevels - 1
  PROVE  (CHOOSE m \in S \cup {1} : \A l \in S : l <= m) \in 1 .. NumLevels - 1
  <1> DEFINE D == {NumLevels - l : l \in S \cup {1}}
  <1>1. S \cup {1} \subseteq 1 .. NumLevels - 1
    BY LevelAssumption
  <1>2. D \subseteq Nat /\ D # {}
    BY <1>1, LevelAssumption
  <1>3. PICK d \in D : \A c \in D : d <= c
    <2> HIDE DEF D
    <2>1. QED
      BY <1>2, LeastNatural
  <1>4. PICK m \in S \cup {1} : d = NumLevels - m
    OBVIOUS
  <1>5. ASSUME NEW l \in S PROVE l <= m
    <2>1. NumLevels - m <= NumLevels - l
      BY <1>3, <1>4
    <2>2. QED
      BY <1>1, <2>1, LevelAssumption
  <1>6. QED
    BY <1>1, <1>4, <1>5

\* The last of some files of a level.
LEMMA LastIs ==
  ASSUME FilesInv, PlaceInv, NEW fs, fs \subseteq AllFiles, fs # {}
  PROVE  LastFile(fs) \in fs
  <1>1. \A f \in fs : f \subseteq Entry /\ f # {} /\ Distinct(f)
    BY FileOk
  <1>2. \A f \in fs : Smallest(f) \in f
    BY <1>1, Ordered
  <1> DEFINE S == {Smallest(f) : f \in fs}
  <1>3. S \subseteq Entry /\ S # {} /\ S \subseteq UNION AllFiles
    BY <1>1, <1>2
  <1>4. Distinct(S)
    BY <1>3 DEF Distinct, FilesInv
  <1>5. PICK e \in S : \A d \in S \ {e} : Precedes(d, e)
    <2> HIDE DEF S
    <2>1. QED
      BY <1>3, <1>4, LastEntry
  <1>6. PICK f \in fs : e = Smallest(f)
    OBVIOUS
  <1>7. ASSUME NEW g \in fs \ {f} PROVE Precedes(Smallest(g), Smallest(f))
    <2>1. Smallest(g) # Smallest(f)
      BY <1>2, <1>7 DEF PlaceInv
    <2>2. QED
      BY <1>5, <1>6, <2>1
  <1>8. QED
    BY <1>6, <1>7 DEF LastFile

LEMMA PickedIs ==
  ASSUME FilesInv, NEW l \in 0 .. NumLevels - 1, NEW f \in Files(l)
  PROVE  /\ Picked(l, f) \subseteq Files(l) /\ f \in Picked(l, f)
         /\ Gapless(Picked(l, f))
         /\ l # 0 => Picked(l, f) = {f}
         /\ l = 0 => \A g \in Files(0) \ Picked(l, f) :
                       ~Touches(g, From(UNION Picked(l, f)), To(UNION Picked(l, f)))
  <1>0. f \in AllFiles /\ From(f) \in Nat /\ To(f) \in Nat /\ From(f) <= To(f)
    BY Levels, FileOk
  <1>1. CASE l # 0
    BY <1>1, GaplessOne DEF Picked
  <1>2. CASE l = 0
    <2> DEFINE R == GetOverlappingInputs(l, From(f), To(f))
    <2>1. Picked(l, f) = R
      BY <1>2 DEF Picked
    <2>2. /\ R \subseteq Files(l)
          /\ \A g \in Files(l) \ R : ~Touches(g, From(f), To(f))
          /\ Closed(R, From(f), To(f))
      BY <1>2, Overlapping
    <2>3. Gapless({f}) /\ UNION {f} = f /\ {f} \subseteq AllFiles /\ {f} # {}
      BY <1>0, GaplessOne
    <2>4. Gapless({f} \cup GetOverlappingInputs(l, From(UNION {f}), To(UNION {f})))
      BY <2>3, OverlapGapless
    <2>5. Gapless({f} \cup R)
      BY <2>3, <2>4
    <2> HIDE DEF R
    <2>6. f \in R
      BY <1>0, <2>2 DEF Touches
    <2>7. {f} \cup R = R
      BY <2>6
    <2>8. \A g \in Files(0) \ R : ~Touches(g, From(UNION R), To(UNION R))
      BY <1>2, <2>2, <2>6 DEF Closed, Files
    <2>9. QED
      BY <1>2, <2>1, <2>2, <2>5, <2>6, <2>7, <2>8
  <1>3. QED
    BY <1>1, <1>2

-----------------------------------------------------------------------------
(* The steps that leave the version alone.                                 *)

LEMMA InitBase ==
  ASSUME Init
  PROVE  BaseInv
  <1>1. Files(0) = {} /\ \A l \in 1 .. NumLevels - 1 : Files(l) = {}
    BY DEF Init, Files, ToSet
  <1>2. AllFiles = {}
    BY <1>1, LevelAssumption DEF AllFiles
  <1>3. Entries = {}
    BY <1>2 DEF Entries, Init
  <1>4. TypeOK
    <2>1. << >> \in Seq(File) /\ [l \in 1 .. NumLevels - 1 |-> {}] \in [1 .. NumLevels - 1 -> SUBSET File]
      OBVIOUS
    <2>2. 0 \in 0 .. MaxWrites /\ 0 \in 0 .. MaxManual
      BY Bounds
    <2>3. QED
      BY <2>1, <2>2 DEF Init, TypeOK
  <1>5. NumberInv /\ PlaceInv
    BY <1>2, <1>3 DEF NumberInv, Numbered, PlaceInv, Init
  <1>6. QED
    BY <1>4, <1>5 DEF BaseInv, ImmInv, CompInv, SnapInv, Init

LEMMA WriteBase ==
  ASSUME BaseInv, NEW k \in Keys, NEW del \in Deletions, Write(k, del)
  PROVE  BaseInv'
  <1> DEFINE e == [key |-> k, seq |-> lastSequence + 1, del |-> del]
  <1>1. TypeOK /\ NumberInv /\ PlaceInv /\ ImmInv /\ CompInv /\ SnapInv
    BY DEF BaseInv
  <1>2. lastSequence \in Nat /\ lastSequence + 1 \in 1 .. MaxWrites
    BY <1>1, Bounds DEF TypeOK, Write
  <1>3. e \in Entry
    BY <1>2, KindAssumption DEF Entry
  <1>4. /\ mem' = mem \cup {e} /\ lastSequence' = lastSequence + 1
        /\ UNCHANGED <<imm, hasImm, snapshots, version, compaction, manual, manuals>>
    BY DEF Write
  <1>5. AllFiles' = AllFiles /\ \A l \in 0 .. NumLevels - 1 : Files(l)' = Files(l)
    BY <1>4, SameFiles
  <1>6. Entries' = Entries \cup {e}
    BY <1>4, <1>5 DEF Entries
  <1>7. \A d \in Entries : d.seq <= lastSequence /\ d.seq \in Nat
    BY <1>1, EntriesOk, EntryFields DEF NumberInv
  <1>8. \A d \in Entries : d.seq # e.seq /\ d # e
    BY <1>2, <1>7
  <1>9. e.seq = lastSequence + 1
    OBVIOUS
  <1> HIDE DEF e
  <1>10. TypeOK'
    BY <1>1, <1>2, <1>3, <1>4 DEF TypeOK, version
  <1>11. NumberInv'
    BY <1>1, <1>2, <1>4, <1>6, <1>7, <1>8, <1>9 DEF NumberInv, Numbered
  <1>12. PlaceInv'
    <2>1. e \notin imm /\ \A f \in AllFiles : e \notin f
      BY <1>8 DEF Entries
    <2>2. QED
      BY <1>1, <1>4, <1>5, <2>1 DEF PlaceInv
  <1>13. CompInv'
    BY <1>1, <1>4, <1>5, Levels DEF CompInv, TypeOK
  <1>14. SnapInv'
    <2>1. snapshots \subseteq Nat
      BY <1>1 DEF TypeOK
    <2>2. compaction # None => compaction.smallest \in Nat
      BY <1>1 DEF TypeOK
    <2>3. /\ \A t \in snapshots : t <= lastSequence + 1
          /\ compaction # None => compaction.smallest <= lastSequence + 1
      BY <1>1, <1>2, <2>1, <2>2 DEF SnapInv
    <2>4. QED
      BY <1>1, <1>4, <2>3 DEF SnapInv
  <1>15. QED
    BY <1>1, <1>4, <1>10, <1>11, <1>12, <1>13, <1>14 DEF BaseInv, ImmInv

LEMMA SnapshotBase ==
  ASSUME BaseInv, GetSnapshot \/ \E s \in snapshots : ReleaseSnapshot(s)
  PROVE  BaseInv'
  <1>1. TypeOK /\ NumberInv /\ PlaceInv /\ ImmInv /\ CompInv /\ SnapInv
    BY DEF BaseInv
  <1>2. /\ snapshots' \subseteq snapshots \cup {lastSequence}
        /\ UNCHANGED <<memtables, lastSequence, version, compaction, manual, manuals>>
    BY DEF GetSnapshot, ReleaseSnapshot
  <1>3. AllFiles' = AllFiles /\ \A l \in 0 .. NumLevels - 1 : Files(l)' = Files(l)
    BY <1>2, SameFiles
  <1>4. Entries' = Entries
    BY <1>2, <1>3 DEF Entries, memtables
  <1>5. TypeOK'
    BY <1>1, <1>2 DEF TypeOK, version, memtables
  <1>6. CompInv'
    BY <1>1, <1>2, <1>3, Levels DEF CompInv, TypeOK
  <1>7. SnapInv'
    <2>1. lastSequence \in Nat
      BY <1>1, Bounds DEF TypeOK
    <2>2. \A s \in snapshots' : s \in snapshots \/ s = lastSequence
      BY <1>2
    <2>3. lastSequence' = lastSequence /\ compaction' = compaction
      BY <1>2
    <2>4. MaxSnapshots = 0 => snapshots' = {}
      <3>1. ASSUME MaxSnapshots = 0 PROVE snapshots = {} /\ ~GetSnapshot
        <4>1. snapshots = {}
          BY <1>1, <3>1 DEF SnapInv
        <4>2. Cardinality(snapshots) = 0
          BY <4>1, FS_EmptySet
        <4>3. QED
          BY <3>1, <4>1, <4>2 DEF GetSnapshot
      <3>2. QED
        BY <3>1 DEF ReleaseSnapshot
    <2>5. QED
      BY <1>1, <2>1, <2>2, <2>3, <2>4 DEF SnapInv
  <1>8. QED
    BY <1>1, <1>2, <1>3, <1>4, <1>5, <1>6, <1>7
       DEF BaseInv, ImmInv, NumberInv, PlaceInv, memtables

LEMMA SwitchBase ==
  ASSUME BaseInv, SwitchMemtable
  PROVE  BaseInv'
  <1>1. TypeOK /\ NumberInv /\ PlaceInv /\ ImmInv /\ CompInv /\ SnapInv
    BY DEF BaseInv
  <1>2. /\ imm = {} /\ mem # {} /\ imm' = mem /\ mem' = {} /\ hasImm' = TRUE
        /\ UNCHANGED <<lastSequence, snapshots, version, compaction, manual, manuals>>
    BY <1>1 DEF SwitchMemtable, ImmInv
  <1>3. AllFiles' = AllFiles /\ \A l \in 0 .. NumLevels - 1 : Files(l)' = Files(l)
    BY <1>2, SameFiles
  <1>4. Entries' = Entries
    BY <1>2, <1>3 DEF Entries
  <1>5. TypeOK'
    BY <1>1, <1>2 DEF TypeOK, version
  <1>6. CompInv'
    BY <1>1, <1>2, <1>3, Levels DEF CompInv, TypeOK
  <1>7. PlaceInv'
    BY <1>1, <1>2, <1>3 DEF PlaceInv
  <1>8. QED
    BY <1>1, <1>2, <1>4, <1>5, <1>6, <1>7 DEF BaseInv, ImmInv, NumberInv, SnapInv

LEMMA RangeBase ==
  ASSUME BaseInv, NEW lo \in Keys, NEW hi \in Keys, CompactRange(lo, hi)
  PROVE  BaseInv'
  <1> DEFINE S == {l \in 1 .. NumLevels - 1 : \E f \in deeper[l] : Touches(f, lo, hi)}
             last == CHOOSE m \in S \cup {1} : \A l \in S : l <= m
  <1>1. TypeOK /\ NumberInv /\ PlaceInv /\ ImmInv /\ CompInv /\ SnapInv
    BY DEF BaseInv
  <1>2. /\ manual = None /\ manuals < MaxManual /\ manuals' = manuals + 1
        /\ manual' = [level |-> 0, lo |-> lo, hi |-> hi, from |-> lo, last |-> last]
        /\ UNCHANGED <<memtables, lastSequence, snapshots, version, compaction>>
    BY DEF CompactRange
  <1>3. last \in 1 .. NumLevels - 1
    <2>1. S \subseteq 1 .. NumLevels - 1
      OBVIOUS
    <2> HIDE DEF S
    <2>2. QED
      BY <2>1, LastLevel
  <1> HIDE DEF last
  <1>4. AllFiles' = AllFiles /\ \A l \in 0 .. NumLevels - 1 : Files(l)' = Files(l)
    BY <1>2, SameFiles
  <1>5. Entries' = Entries
    BY <1>2, <1>4 DEF Entries, memtables
  <1>6. manual' \in [level : 0 .. NumLevels - 2, lo : Keys, hi : Keys, from : Keys,
                     last : 1 .. NumLevels - 1]
    BY <1>2, <1>3, LevelAssumption
  <1>7. TypeOK'
    <2>1. manuals' \in 0 .. MaxManual
      BY <1>1, <1>2, Bounds DEF TypeOK
    <2>2. QED
      BY <1>1, <1>2, <1>6, <2>1 DEF TypeOK, version, memtables
  <1>8. manual' # None
    BY <1>6, LevelAssumption DEF None
  <1>9. CompInv'
    BY <1>1, <1>2, <1>4, <1>8, Levels DEF CompInv, TypeOK
  <1>10. QED
    BY <1>1, <1>2, <1>4, <1>5, <1>7, <1>9
       DEF BaseInv, ImmInv, NumberInv, PlaceInv, SnapInv, memtables

\* A compaction starts, with files of the version.
LEMMA StartBase ==
  ASSUME BaseInv, NEW l \in 0 .. NumLevels - 2, NEW fs, fs \subseteq Files(l), fs # {},
         NEW in \in Inputs(l, fs), NEW end \in 0 .. MaxKey,
         compaction = None, compaction' = Started(l, in, end), end # 0 => manual # None,
         UNCHANGED <<memtables, lastSequence, snapshots, version, manual, manuals>>
  PROVE  BaseInv'
  <1>1. TypeOK /\ NumberInv /\ PlaceInv /\ ImmInv /\ CompInv /\ SnapInv
    BY DEF BaseInv
  <1>2. AllFiles' = AllFiles /\ \A j \in 0 .. NumLevels - 1 : Files(j)' = Files(j)
    BY SameFiles
  <1>3. Entries' = Entries
    BY <1>2 DEF Entries, memtables
  <1>4. /\ in = <<in[1], in[2]>>
        /\ fs \subseteq in[1] /\ in[1] \subseteq Files(l) /\ in[2] \subseteq Files(l + 1)
    BY <1>1, FilesOk, Taken
  <1>5. in \in ((SUBSET File) \ {{}}) \X SUBSET File
    <2>1. in[1] \subseteq File /\ in[2] \subseteq File /\ in[1] # {}
      BY <1>1, <1>4, Levels, FilesAre
    <2>2. QED
      BY <1>4, <2>1
  <1>6. SmallestSnapshot \in 0 .. MaxWrites /\ Covered(l) \subseteq Keys
    BY <1>1, Oldest DEF Covered
  <1>7. compaction' \in [level : 0 .. NumLevels - 2,
                         in : ((SUBSET File) \ {{}}) \X SUBSET File,
                         covered : SUBSET Keys, smallest : 0 .. MaxWrites, end : 0 .. MaxKey]
    BY <1>5, <1>6 DEF Started
  <1>8. TypeOK'
    BY <1>1, <1>7 DEF TypeOK, version, memtables
  <1>9. /\ compaction'.level = l /\ compaction'.in = in /\ compaction'.end = end
        /\ compaction'.smallest = SmallestSnapshot
    BY DEF Started
  <1>10. CompInv'
    BY <1>2, <1>4, <1>9, Levels DEF CompInv
  <1>11. SnapInv'
    <2>1. ASSUME MaxSnapshots = 0
          PROVE  /\ snapshots = {}
                 /\ \A f \in in[1] \cup in[2] : \A e \in f : e.seq <= SmallestSnapshot
      <3>1. snapshots = {} /\ SmallestSnapshot = lastSequence
        BY <1>1, <2>1 DEF SnapInv, SmallestSnapshot
      <3>2. in[1] \cup in[2] \subseteq AllFiles
        BY <1>4, Levels
      <3>3. QED
        BY <1>1, <3>1, <3>2 DEF NumberInv, Entries
    <2>2. QED
      BY <1>1, <1>9, <2>1, Oldest DEF SnapInv
  <1>12. QED
    BY <1>1, <1>2, <1>3, <1>8, <1>10, <1>11
       DEF BaseInv, ImmInv, NumberInv, PlaceInv, memtables

LEMMA ManualBase ==
  ASSUME BaseInv, ManualCompaction
  PROVE  BaseInv'
  <1> DEFINE l == manual.level
             fs == GetOverlappingInputs(l, manual.from, manual.hi)
  <1>1. TypeOK /\ NumberInv /\ PlaceInv /\ ImmInv /\ CompInv /\ SnapInv /\ FilesInv
    BY FilesOk DEF BaseInv
  <1>2. manual # None /\ compaction = None
        /\ UNCHANGED <<memtables, lastSequence, snapshots, version, manuals>>
    BY DEF ManualCompaction, Idle
  <1>3. manual \in [level : 0 .. NumLevels - 2, lo : Keys, hi : Keys, from : Keys,
                    last : 1 .. NumLevels - 1]
    BY <1>1, <1>2 DEF TypeOK
  <1>4. l \in 0 .. NumLevels - 2 /\ l \in 0 .. NumLevels - 1
    BY <1>3, Levels
  <1>5. CASE manual' = NextLevel(manual) /\ compaction' = compaction
    <2>1. AllFiles' = AllFiles /\ \A j \in 0 .. NumLevels - 1 : Files(j)' = Files(j)
      BY <1>2, SameFiles
    <2>2. Entries' = Entries
      BY <1>2, <2>1 DEF Entries, memtables
    <2>3. manual' # None => manual' \in [level : 0 .. NumLevels - 2, lo : Keys, hi : Keys,
                                         from : Keys, last : 1 .. NumLevels - 1]
      <3> DEFINE m == manual
      <3>1. /\ m \in [level : 0 .. NumLevels - 2, lo : Keys, hi : Keys, from : Keys,
                      last : 1 .. NumLevels - 1]
            /\ m.level \in Nat /\ m.last \in 1 .. NumLevels - 1 /\ m.lo \in Keys
        BY <1>3
      <3> HIDE DEF m
      <3>2. CASE m.level + 1 < m.last
        <4>1. m.level + 1 \in 0 .. NumLevels - 2
          BY <3>1, <3>2, LevelAssumption
        <4>2. [m EXCEPT !.level = m.level + 1, !.from = m.lo] \in
                [level : 0 .. NumLevels - 2, lo : Keys, hi : Keys, from : Keys, last : 1 .. NumLevels - 1]
          BY <3>1, <4>1
        <4>3. manual' = [m EXCEPT !.level = m.level + 1, !.from = m.lo]
          BY <1>5, <3>2 DEF NextLevel, m
        <4>4. QED
          BY <4>2, <4>3
      <3>3. CASE ~(m.level + 1 < m.last)
        BY <1>5, <3>3 DEF NextLevel, m
      <3>4. QED
        BY <3>2, <3>3
    <2>4. TypeOK'
      BY <1>1, <1>2, <1>5, <2>3 DEF TypeOK, version, memtables
    <2>5. QED
      BY <1>1, <1>2, <1>5, <2>1, <2>2, <2>4
         DEF BaseInv, ImmInv, NumberInv, PlaceInv, CompInv, SnapInv, memtables
  <1>6. CASE /\ fs # {}
             /\ \E p \in IF l = 0 THEN {fs} ELSE FirstFiles(fs) : \E in \in Inputs(l, p) :
                  compaction' = Started(l, in, To(LastFile(in[1])))
             /\ manual' = manual
    <2>a. PICK p \in (IF l = 0 THEN {fs} ELSE FirstFiles(fs)) :
            \E in \in Inputs(l, p) : compaction' = Started(l, in, To(LastFile(in[1])))
      BY <1>6
    <2>1. PICK in \in Inputs(l, p) : compaction' = Started(l, in, To(LastFile(in[1])))
      BY <2>a
    <2>2. fs \subseteq Files(l)
      BY <1>1, <1>4, Overlapping
    <2>3. p \subseteq Files(l) /\ p # {}
      BY <1>6, <2>2 DEF FirstFiles
    <2>4. in[1] \subseteq AllFiles /\ in[1] # {}
      <3>1. p \subseteq in[1] /\ in[1] \subseteq Files(l)
        BY <1>1, <1>4, <2>3, Taken
      <3>2. QED
        BY <1>4, <2>3, <3>1, Levels
    <2>5. LastFile(in[1]) \in AllFiles
      BY <1>1, <2>4, LastIs
    <2>6. To(LastFile(in[1])) \in 0 .. MaxKey
      BY <1>1, <2>5, FileOk DEF Keys
    <2> DEFINE end == To(LastFile(in[1]))
    <2>7. compaction' = Started(l, in, end) /\ end \in 0 .. MaxKey
      BY <2>1, <2>6
    <2> HIDE DEF end, l
    <2>8. QED
      BY <1>2, <1>4, <1>6, <2>3, <2>7, StartBase
  <1>7. QED
    BY <1>5, <1>6 DEF ManualCompaction

-----------------------------------------------------------------------------
(* The steps that change the version.                                      *)

LEMMA FlushBase ==
  ASSUME BaseInv, CompactMemTable
  PROVE  BaseInv'
  <1>1. TypeOK /\ NumberInv /\ PlaceInv /\ ImmInv /\ CompInv /\ SnapInv
    BY DEF BaseInv
  <1>2. /\ imm' = {} /\ hasImm' = FALSE
        /\ UNCHANGED <<mem, lastSequence, snapshots, compaction, manual, manuals>>
    BY DEF CompactMemTable
  <1>3. /\ level0' \in Seq(File) /\ deeper' \in [1 .. NumLevels - 1 -> SUBSET File]
        /\ \A j \in 0 .. NumLevels - 1 : Files(j) \subseteq Files(j)'
        /\ AllFiles' = AllFiles \cup {imm}
    <2>1. /\ level0' \in Seq(File) /\ deeper' \in [1 .. NumLevels - 1 -> SUBSET File]
          /\ \E l \in 0 .. NumLevels - 1 :
               /\ Files(l)' = Files(l) \cup {imm}
               /\ \A j \in 0 .. NumLevels - 1 : j # l => Files(j)' = Files(j)
          /\ AllFiles' = AllFiles \cup {imm}
      BY <1>1, FlushIs
    <2>2. QED
      BY <2>1
  <1>4. Entries' = Entries
    BY <1>2, <1>3 DEF Entries
  <1>5. TypeOK'
    BY <1>1, <1>2, <1>3 DEF TypeOK
  <1>6. PlaceInv'
    BY <1>1, <1>2, <1>3 DEF PlaceInv
  <1>7. CompInv'
    BY <1>1, <1>2, <1>3, Levels DEF CompInv, TypeOK
  <1>8. QED
    BY <1>1, <1>2, <1>4, <1>5, <1>6, <1>7 DEF BaseInv, ImmInv, NumberInv, SnapInv

LEMMA MoveBase ==
  ASSUME BaseInv, NEW l \in 0 .. NumLevels - 2, NEW in1, in1 \subseteq Files(l),
         compaction = None, Apply(in1, l + 1, in1),
         UNCHANGED <<memtables, lastSequence, snapshots, compaction, manual, manuals>>
  PROVE  BaseInv'
  <1>1. TypeOK /\ NumberInv /\ PlaceInv /\ ImmInv /\ CompInv /\ SnapInv
    BY DEF BaseInv
  <1>2. in1 \subseteq AllFiles /\ in1 \subseteq File /\ l + 1 \in 1 .. NumLevels - 1
    BY <1>1, Levels, FilesAre, LevelAssumption
  <1>3. /\ level0' \in Seq(File) /\ deeper' \in [1 .. NumLevels - 1 -> SUBSET File]
        /\ AllFiles' = (AllFiles \ in1) \cup in1
    <2>1. /\ level0' \in Seq(File) /\ deeper' \in [1 .. NumLevels - 1 -> SUBSET File]
          /\ Edited(in1, l + 1, in1)
      BY <1>1, <1>2, ApplyIs
    <2>2. QED
      BY <2>1 DEF Edited
  <1>4. AllFiles' = AllFiles
    BY <1>2, <1>3
  <1>5. Entries' = Entries
    BY <1>4 DEF Entries, memtables
  <1>6. TypeOK'
    BY <1>1, <1>3 DEF TypeOK, memtables
  <1>7. QED
    BY <1>1, <1>4, <1>5, <1>6
       DEF BaseInv, ImmInv, NumberInv, PlaceInv, CompInv, SnapInv, memtables

\* The files a compaction merges, and what it keeps of them.
Taking == compaction.in[1] \cup compaction.in[2]
Merged == UNION Taking
Keeps  == {e \in Merged : ~Dropped(e, Merged)}

LEMMA WorkIs ==
  ASSUME BaseInv, DoCompactionWork
  PROVE  /\ compaction # None /\ compaction' = None
         /\ compaction.level \in 0 .. NumLevels - 2 /\ compaction.level + 1 \in 1 .. NumLevels - 1
         /\ compaction.in[1] \subseteq AllFiles /\ compaction.in[2] \subseteq AllFiles
         /\ Taking \subseteq AllFiles /\ Merged \subseteq Entries /\ Merged \subseteq Entry
         /\ Numbered(Keeps) /\ Keeps \subseteq Merged
         /\ MaxSnapshots = 0 => Single(Keeps)
         /\ \E new \in Outputs(Keeps) :
              /\ new \subseteq File /\ UNION new = Keeps
              /\ Apply(Taking, compaction.level + 1, new)
         /\ UNCHANGED <<memtables, lastSequence, snapshots, manuals>>
         /\ manual' = IF compaction.end = 0 THEN manual
                      ELSE [manual EXCEPT !.from = compaction.end]
  <1>1. TypeOK /\ NumberInv /\ CompInv /\ SnapInv
    BY DEF BaseInv
  <1>2. /\ compaction # None /\ compaction' = None
        /\ \E new \in Outputs(Keeps) : Apply(Taking, compaction.level + 1, new)
        /\ UNCHANGED <<memtables, lastSequence, snapshots, manuals>>
        /\ manual' = IF compaction.end = 0 THEN manual
                     ELSE [manual EXCEPT !.from = compaction.end]
    BY DEF DoCompactionWork, Keeps, Merged, Taking
  <1>3. compaction.level \in 0 .. NumLevels - 2
    BY <1>1, <1>2 DEF TypeOK
  <1>4. compaction.level + 1 \in 1 .. NumLevels - 1
    BY <1>3, LevelAssumption
  <1>5. compaction.in[1] \subseteq AllFiles /\ compaction.in[2] \subseteq AllFiles
    BY <1>1, <1>2, <1>3, Levels DEF CompInv
  <1>6. Taking \subseteq AllFiles
    BY <1>5 DEF Taking
  <1>7. Merged \subseteq Entries /\ Merged \subseteq Entry
    BY <1>1, <1>6, EntriesOk DEF Merged, Entries
  <1>8. Keeps \subseteq Merged /\ Keeps \subseteq Entries /\ Keeps \subseteq Entry
    BY <1>7 DEF Keeps
  <1>9. Numbered(Keeps)
    BY <1>1, <1>8, NumberedDistinct DEF NumberInv
  <1>10. ASSUME MaxSnapshots = 0 PROVE Single(Keeps)
    <2>1. \A e \in Merged : e.seq <= compaction.smallest
      BY <1>1, <1>2, <1>10 DEF SnapInv, Merged, Taking
    <2>2. ASSUME NEW e \in Keeps, NEW f \in Keeps, e.key = f.key PROVE e = f
      <3>1. ~(f.seq > e.seq) /\ ~(e.seq > f.seq)
        BY <2>1, <2>2 DEF Keeps, Dropped
      <3>2. e.seq \in Nat /\ f.seq \in Nat
        BY <1>8, EntryFields
      <3>3. e.seq = f.seq
        BY <3>1, <3>2
      <3>4. QED
        BY <1>9, <3>3 DEF Numbered
    <2>3. QED
      BY <2>2 DEF Single
  <1>11. ASSUME NEW new \in Outputs(Keeps) PROVE new \subseteq File /\ UNION new = Keeps
    <2>1. UNION new = Keeps /\ \A p \in new : p # {} /\ p \subseteq Keeps
      BY <1>8, <1>9, <1>10, OutputsAre
    <2>2. QED
      BY <1>8, <2>1 DEF File
  <1>12. QED
    BY <1>2, <1>3, <1>4, <1>5, <1>6, <1>7, <1>8, <1>9, <1>10, <1>11

LEMMA WorkBase ==
  ASSUME BaseInv, DoCompactionWork
  PROVE  BaseInv'
  <1>1. TypeOK /\ NumberInv /\ PlaceInv /\ ImmInv /\ CompInv /\ SnapInv
    BY DEF BaseInv
  <1>2. /\ compaction # None /\ compaction' = None
        /\ compaction.level \in 0 .. NumLevels - 2 /\ compaction.level + 1 \in 1 .. NumLevels - 1
        /\ Taking \subseteq AllFiles /\ Merged \subseteq Entries /\ Merged \subseteq Entry
        /\ Numbered(Keeps) /\ Keeps \subseteq Merged /\ Keeps \subseteq Entry
        /\ MaxSnapshots = 0 => Single(Keeps)
        /\ UNCHANGED <<memtables, lastSequence, snapshots, manuals>>
        /\ manual' = IF compaction.end = 0 THEN manual
                     ELSE [manual EXCEPT !.from = compaction.end]
    BY WorkIs
  <1>3. PICK new \in Outputs(Keeps) :
          /\ new \subseteq File /\ UNION new = Keeps
          /\ Apply(Taking, compaction.level + 1, new)
    BY WorkIs
  <1>4. /\ level0' \in Seq(File) /\ deeper' \in [1 .. NumLevels - 1 -> SUBSET File]
        /\ AllFiles' = (AllFiles \ Taking) \cup new
    <2>1. /\ level0' \in Seq(File) /\ deeper' \in [1 .. NumLevels - 1 -> SUBSET File]
          /\ Edited(Taking, compaction.level + 1, new)
      BY <1>1, <1>2, <1>3, ApplyIs
    <2>2. QED
      BY <2>1 DEF Edited
  <1>5. Entries' \subseteq Entries
    BY <1>2, <1>3, <1>4 DEF Entries, memtables
  <1>6. NumberInv'
    <2>1. Numbered(Entries')
      BY <1>1, <1>5, NumberedDistinct DEF NumberInv
    <2>2. QED
      BY <1>1, <1>2, <1>5, <2>1 DEF NumberInv, Numbered
  <1>7. PlaceInv'
    <2>1. mem' = mem /\ imm' = imm
      BY <1>2 DEF memtables
    <2>2. \A p, q \in new : p # q => p \cap q = {}
      BY <1>2, OutputsAre
    <2>3. \A p \in new : p \subseteq Merged
      BY <1>2, <1>3
    <2>4. Merged \cap mem = {} /\ Merged \cap imm = {}
      BY <1>1, <1>2 DEF Merged, PlaceInv
    <2>5. \A g \in AllFiles \ Taking : g \cap Merged = {}
      BY <1>1, <1>2 DEF Merged, PlaceInv
    <2>6. \A f \in AllFiles' : f \cap mem = {} /\ f \cap imm = {}
      BY <1>1, <1>4, <2>3, <2>4 DEF PlaceInv
    <2>7. ASSUME NEW f \in AllFiles', NEW g \in AllFiles', f # g PROVE f \cap g = {}
      <3>1. CASE f \in new /\ g \in new
        BY <2>2, <2>7, <3>1
      <3>2. CASE f \in new /\ g \in AllFiles \ Taking
        BY <2>3, <2>5, <3>2
      <3>3. CASE f \in AllFiles \ Taking /\ g \in new
        BY <2>3, <2>5, <3>3
      <3>4. CASE f \in AllFiles \ Taking /\ g \in AllFiles \ Taking
        BY <1>1, <2>7, <3>4 DEF PlaceInv
      <3>5. QED
        BY <1>4, <3>1, <3>2, <3>3, <3>4
    <2>8. QED
      BY <1>1, <2>1, <2>6, <2>7 DEF PlaceInv
  <1>8. manual' # None => manual' \in [level : 0 .. NumLevels - 2, lo : Keys, hi : Keys,
                                       from : Keys, last : 1 .. NumLevels - 1]
    <2>1. CASE compaction.end = 0
      BY <1>1, <1>2, <2>1 DEF TypeOK
    <2>2. CASE compaction.end # 0
      <3> DEFINE m == manual
                 end == compaction.end
      <3>1. m \in [level : 0 .. NumLevels - 2, lo : Keys, hi : Keys, from : Keys,
                   last : 1 .. NumLevels - 1]
        BY <1>1, <1>2, <2>2 DEF TypeOK, CompInv
      <3>2. end \in 0 .. MaxKey
        BY <1>1, <1>2 DEF TypeOK
      <3>3. end \in Keys
        BY <2>2, <3>2, Bounds DEF Keys
      <3>4. manual' = [m EXCEPT !.from = end]
        BY <1>2, <2>2
      <3> HIDE DEF m, end
      <3>5. QED
        BY <3>1, <3>3, <3>4
    <2>3. QED
      BY <2>1, <2>2
  <1>9. TypeOK'
    BY <1>1, <1>2, <1>4, <1>8 DEF TypeOK, memtables
  <1>10. CompInv' /\ SnapInv' /\ ImmInv'
    BY <1>1, <1>2 DEF CompInv, SnapInv, ImmInv, memtables
  <1>11. QED
    BY <1>6, <1>7, <1>9, <1>10 DEF BaseInv

\* What PickCompaction does.
LEMMA PickIs ==
  ASSUME BaseInv, PickCompaction
  PROVE  /\ compaction = None /\ imm = {}
         /\ UNCHANGED <<memtables, lastSequence, snapshots, manual, manuals>>
         /\ \E l \in 0 .. NumLevels - 2 : \E f \in Files(l) : \E in \in Inputs(l, Picked(l, f)) :
              \/ /\ in[2] = {} /\ \E g \in Files(l) : in[1] = {g}
                 /\ Apply(in[1], l + 1, in[1])
                 /\ UNCHANGED compaction
              \/ compaction' = Started(l, in, 0) /\ UNCHANGED version
  <1>1. /\ compaction = None /\ imm = {}
        /\ UNCHANGED <<memtables, lastSequence, snapshots, manual, manuals>>
    BY DEF PickCompaction, Idle, BaseInv, ImmInv
  <1>2. TypeOK /\ FilesInv /\ NumberInv
    BY FilesOk DEF BaseInv
  <1>3. PICK l \in 0 .. NumLevels - 2 : \E f \in Files(l) : \E in \in Inputs(l, Picked(l, f)) :
          \/ /\ Cardinality(in[1]) = 1 /\ in[2] = {}
             /\ Apply(in[1], l + 1, in[1])
             /\ UNCHANGED compaction
          \/ compaction' = Started(l, in, 0) /\ UNCHANGED version
    BY DEF PickCompaction
  <1>4. PICK f \in Files(l) : \E in \in Inputs(l, Picked(l, f)) :
          \/ /\ Cardinality(in[1]) = 1 /\ in[2] = {}
             /\ Apply(in[1], l + 1, in[1])
             /\ UNCHANGED compaction
          \/ compaction' = Started(l, in, 0) /\ UNCHANGED version
    BY <1>3
  <1>5. PICK in \in Inputs(l, Picked(l, f)) :
          \/ /\ Cardinality(in[1]) = 1 /\ in[2] = {}
             /\ Apply(in[1], l + 1, in[1])
             /\ UNCHANGED compaction
          \/ compaction' = Started(l, in, 0) /\ UNCHANGED version
    BY <1>4
  <1>6. l \in 0 .. NumLevels - 1
    BY Levels
  <1>7. Picked(l, f) \subseteq Files(l) /\ Picked(l, f) # {}
    BY <1>2, <1>6, PickedIs
  <1>8. in[1] \subseteq Files(l) /\ in[1] # {}
    BY <1>2, <1>7, Taken
  <1>9. ASSUME Cardinality(in[1]) = 1 PROVE \E g \in Files(l) : in[1] = {g}
    <2>1. UNION in[1] \subseteq Entries /\ in[1] \subseteq File /\ in[1] \subseteq AllFiles
      BY <1>2, <1>6, <1>8, Levels, FilesAre DEF Entries
    <2>2. Numbered(UNION in[1]) /\ UNION in[1] \subseteq Entry
      BY <1>2, <2>1, NumberedDistinct, EntriesOk DEF NumberInv
    <2>3. IsFiniteSet(UNION in[1])
      BY <2>2, FiniteEntries
    <2>4. IsFiniteSet(SUBSET (UNION in[1])) /\ in[1] \in SUBSET (SUBSET (UNION in[1]))
      BY <2>3, FS_SUBSET
    <2>5. IsFiniteSet(in[1])
      BY <2>4, FS_Subset
    <2>6. \E g : in[1] = {g}
      BY <1>9, <2>5, FS_Singleton
    <2>7. QED
      BY <1>8, <2>6
  <1>10. \/ /\ in[2] = {} /\ \E g \in Files(l) : in[1] = {g}
            /\ Apply(in[1], l + 1, in[1])
            /\ UNCHANGED compaction
         \/ compaction' = Started(l, in, 0) /\ UNCHANGED version
    BY <1>5, <1>9
  <1>11. QED
    BY <1>1, <1>10

LEMMA PickBase ==
  ASSUME BaseInv, PickCompaction
  PROVE  BaseInv'
  <1>1. /\ compaction = None
        /\ UNCHANGED <<memtables, lastSequence, snapshots, manual, manuals>>
    BY PickIs
  <1>2. PICK l \in 0 .. NumLevels - 2 : \E f \in Files(l) : \E in \in Inputs(l, Picked(l, f)) :
          \/ /\ in[2] = {} /\ \E g \in Files(l) : in[1] = {g}
             /\ Apply(in[1], l + 1, in[1])
             /\ UNCHANGED compaction
          \/ compaction' = Started(l, in, 0) /\ UNCHANGED version
    BY PickIs
  <1>3. PICK f \in Files(l) : \E in \in Inputs(l, Picked(l, f)) :
          \/ /\ in[2] = {} /\ \E g \in Files(l) : in[1] = {g}
             /\ Apply(in[1], l + 1, in[1])
             /\ UNCHANGED compaction
          \/ compaction' = Started(l, in, 0) /\ UNCHANGED version
    BY <1>2
  <1>4. PICK in \in Inputs(l, Picked(l, f)) :
          \/ /\ in[2] = {} /\ \E g \in Files(l) : in[1] = {g}
             /\ Apply(in[1], l + 1, in[1])
             /\ UNCHANGED compaction
          \/ compaction' = Started(l, in, 0) /\ UNCHANGED version
    BY <1>3
  <1>5. l \in 0 .. NumLevels - 1 /\ FilesInv
    BY Levels, FilesOk DEF BaseInv
  <1>6. Picked(l, f) \subseteq Files(l) /\ Picked(l, f) # {}
    BY <1>5, PickedIs
  <1>7. CASE /\ \E g \in Files(l) : in[1] = {g}
             /\ Apply(in[1], l + 1, in[1])
             /\ UNCHANGED compaction
    <2> DEFINE in1 == in[1]
    <2>1. in1 \subseteq Files(l) /\ Apply(in1, l + 1, in1)
      BY <1>7
    <2> HIDE DEF in1
    <2>2. QED
      BY <1>1, <1>7, <2>1, MoveBase
  <1>8. CASE compaction' = Started(l, in, 0) /\ UNCHANGED version
    <2>1. 0 \in 0 .. MaxKey
      BY Bounds
    <2>2. QED
      BY <1>1, <1>6, <1>8, <2>1, StartBase
  <1>9. QED
    BY <1>4, <1>7, <1>8

LEMMA BaseStep ==
  ASSUME BaseInv, [Next]_vars
  PROVE  BaseInv'
  <1>1. CASE UNCHANGED vars
    <2>1. UNCHANGED <<memtables, lastSequence, snapshots, version, compaction, manual, manuals>>
      BY <1>1 DEF vars
    <2>2. AllFiles' = AllFiles /\ \A j \in 0 .. NumLevels - 1 : Files(j)' = Files(j)
      BY <2>1, SameFiles
    <2>3. Entries' = Entries
      BY <2>1, <2>2 DEF Entries, memtables
    <2>4. CompInv'
      BY <2>1, <2>2, Levels DEF BaseInv, CompInv, TypeOK
    <2>5. TypeOK'
      BY <2>1 DEF BaseInv, TypeOK, version, memtables
    <2>6. QED
      BY <2>1, <2>2, <2>3, <2>4, <2>5
         DEF BaseInv, NumberInv, PlaceInv, ImmInv, SnapInv, memtables
  <1>2. ASSUME NEW k \in Keys, NEW del \in Deletions, Write(k, del) PROVE BaseInv'
    BY <1>2, WriteBase
  <1>3. CASE GetSnapshot \/ \E s \in snapshots : ReleaseSnapshot(s)
    BY <1>3, SnapshotBase
  <1>4. CASE SwitchMemtable
    BY <1>4, SwitchBase
  <1>5. CASE CompactMemTable
    BY <1>5, FlushBase
  <1>6. CASE PickCompaction
    BY <1>6, PickBase
  <1>7. CASE DoCompactionWork
    BY <1>7, WorkBase
  <1>8. ASSUME NEW lo \in Keys, NEW hi \in Keys, CompactRange(lo, hi) PROVE BaseInv'
    BY <1>8, RangeBase
  <1>9. CASE ManualCompaction
    BY <1>9, ManualBase
  <1>10. QED
    BY <1>1, <1>2, <1>3, <1>4, <1>5, <1>6, <1>7, <1>8, <1>9 DEF Next

\* Every variable keeps its type, whatever the constants: no file is ever empty, a
\* compaction has files to compact, and CompactRange stays on levels that exist.
THEOREM TypeCorrect == Spec => []TypeOK
  <1>1. Init => BaseInv
    BY InitBase
  <1>2. BaseInv /\ [Next]_vars => BaseInv'
    BY BaseStep
  <1>3. BaseInv => TypeOK
    BY DEF BaseInv
  <1>4. QED
    BY <1>1, <1>2, <1>3, PTL DEF Spec

-----------------------------------------------------------------------------
(* The files of a level keep apart.                                        *)

ApartInv == \A l \in 1 .. NumLevels - 1 : \A f, g \in Files(l) : f # g => Apart(f, g)

\* The files a compaction will merge stay free of gaps, and apart from the files
\* that stay where its output goes.
MergeInv == compaction # None =>
              /\ Gapless(Taking)
              /\ \A g \in Files(compaction.level + 1) \ compaction.in[2] : Apart(g, Merged)

ManualOff == manual = None

LevelInv == BaseInv /\ ApartInv /\ MergeInv /\ ManualOff

\* A file that does not touch the range of another is apart from it, and has none
\* of its keys.
LEMMA Untouched ==
  ASSUME NEW f, NEW g, f \subseteq Entry, f # {}, Distinct(f), g \subseteq Entry, g # {}, Distinct(g),
         ~Touches(f, From(g), To(g)) \/ ~Touches(g, From(f), To(f))
  PROVE  /\ Apart(f, g) /\ Apart(g, f)
         /\ \A e \in f, d \in g : e.key # d.key
         /\ ~Touches(f, From(g), To(g)) /\ ~Touches(g, From(f), To(f))
  <1>1. /\ From(f) \in Nat /\ To(f) \in Nat /\ From(f) <= To(f)
        /\ \A e \in f : e \in Entry /\ e.key \in Nat /\ From(f) <= e.key /\ e.key <= To(f)
    BY FileRange, EntryFields
  <1>2. /\ From(g) \in Nat /\ To(g) \in Nat /\ From(g) <= To(g)
        /\ \A e \in g : e \in Entry /\ e.key \in Nat /\ From(g) <= e.key /\ e.key <= To(g)
    BY FileRange, EntryFields
  <1>3. To(f) < From(g) \/ To(g) < From(f)
    BY <1>1, <1>2 DEF Touches
  <1>4. CASE To(f) < From(g)
    <2>1. \A e \in f, d \in g : e.key < d.key
      BY <1>1, <1>2, <1>4
    <2>2. \A e \in f, d \in g : Before(e, d)
      BY <1>1, <1>2, <2>1, Order
    <2>3. \A e \in f, d \in g : e.key # d.key
      BY <1>1, <1>2, <2>1
    <2>4. ~Touches(f, From(g), To(g)) /\ ~Touches(g, From(f), To(f))
      BY <1>1, <1>2, <1>4 DEF Touches
    <2>5. QED
      BY <2>2, <2>3, <2>4 DEF Apart
  <1>5. CASE To(g) < From(f)
    <2>1. \A e \in f, d \in g : d.key < e.key
      BY <1>1, <1>2, <1>5
    <2>2. \A e \in f, d \in g : Before(d, e)
      BY <1>1, <1>2, <2>1, Order
    <2>3. \A e \in f, d \in g : e.key # d.key
      BY <1>1, <1>2, <2>1
    <2>4. ~Touches(f, From(g), To(g)) /\ ~Touches(g, From(f), To(f))
      BY <1>1, <1>2, <1>5 DEF Touches
    <2>5. QED
      BY <2>2, <2>3, <2>4 DEF Apart
  <1>6. QED
    BY <1>3, <1>4, <1>5

\* The range of files of the version.
LEMMA RangeOk ==
  ASSUME FilesInv, NEW fs, fs \subseteq AllFiles, fs # {}
  PROVE  UNION fs \subseteq Entry /\ UNION fs # {} /\ Distinct(UNION fs)
  <1>1. \A f \in fs : f \subseteq Entry /\ f # {}
    BY FileOk
  <1>2. QED
    BY <1>1, SomeFiles

\* What is apart from all the files under some others, and does not touch those,
\* is apart from them together.
LEMMA ApartFromInputs ==
  ASSUME FilesInv, NEW A, A \subseteq AllFiles, A # {}, NEW B, B \subseteq AllFiles,
         \A h \in B : Touches(h, From(UNION A), To(UNION A)),
         NEW g \in AllFiles, ~Touches(g, From(UNION A), To(UNION A)),
         \A h \in B : Apart(g, h)
  PROVE  Apart(g, UNION (A \cup B))
  <1> DEFINE lo == From(UNION A)
             hi == To(UNION A)
  <1>1. A \subseteq File /\ Distinct(UNION A)
    BY SomeFiles
  <1>2. lo \in Nat /\ hi \in Nat /\ \A h \in A : lo <= From(h) /\ To(h) <= hi
    BY <1>1, Hull
  <1>3. /\ From(g) \in Nat /\ To(g) \in Nat /\ g \subseteq Entry
        /\ \A e \in g : e.key \in Nat /\ From(g) <= e.key /\ e.key <= To(g)
    BY FileOk
  <1>4. \A h \in A \cup B :
          /\ From(h) \in Nat /\ To(h) \in Nat /\ h \subseteq Entry
          /\ \A d \in h : d.key \in Nat /\ From(h) <= d.key /\ d.key <= To(h)
    BY FileOk
  <1>5. \A h \in B : /\ \E d \in h : d.key = From(h)
                     /\ \E d \in h : d.key = To(h)
    <2>1. \A h \in B : h \subseteq Entry /\ h # {} /\ Distinct(h)
      BY FileOk
    <2>2. QED
      BY <2>1, FileRange
  <1>6. \A h \in B : From(h) <= hi /\ To(h) >= lo
    BY DEF Touches
  <1>7. To(g) < lo \/ From(g) > hi
    BY <1>2, <1>3 DEF Touches
  <1> HIDE DEF lo, hi
  <1>8. CASE To(g) < lo
    <2>1. ASSUME NEW e \in g, NEW h \in A, NEW d \in h PROVE Before(e, d)
      <3>1. e.key <= To(g) /\ lo <= From(h) /\ From(h) <= d.key
        BY <1>2, <1>3, <1>4
      <3>2. e.key < d.key
        BY <1>2, <1>3, <1>4, <1>8, <3>1
      <3>3. e \in Entry /\ d \in Entry
        BY <1>3, <1>4
      <3>4. QED
        BY <3>2, <3>3, Order
    <2>2. ASSUME NEW h \in B PROVE \A e \in g, d \in h : Before(e, d)
      <3>1. ASSUME \A e \in g, d \in h : Before(d, e), NEW e \in g PROVE FALSE
        <4>1. PICK d \in h : d.key = To(h)
          BY <1>5
        <4>2. d \in Entry /\ e \in Entry
          BY <1>3, <1>4
        <4>3. d.key <= e.key
          BY <3>1, <4>2, Order
        <4>4. e.key <= To(g) /\ To(h) >= lo
          BY <1>3, <1>6
        <4>5. e.key \in Nat /\ d.key \in Nat /\ To(h) \in Nat
          BY <1>3, <1>4
        <4>6. QED
          BY <1>2, <1>3, <1>8, <4>1, <4>3, <4>4, <4>5
      <3>2. QED
        BY <3>1 DEF Apart
    <2>3. \A e \in g, d \in UNION (A \cup B) : Before(e, d)
      BY <2>1, <2>2
    <2>4. QED
      BY <2>3 DEF Apart
  <1>9. CASE From(g) > hi
    <2>1. ASSUME NEW e \in g, NEW h \in A, NEW d \in h PROVE Before(d, e)
      <3>1. From(g) <= e.key /\ To(h) <= hi /\ d.key <= To(h)
        BY <1>2, <1>3, <1>4
      <3>2. d.key < e.key
        BY <1>2, <1>3, <1>4, <1>9, <3>1
      <3>3. e \in Entry /\ d \in Entry
        BY <1>3, <1>4
      <3>4. QED
        BY <3>2, <3>3, Order
    <2>2. ASSUME NEW h \in B PROVE \A e \in g, d \in h : Before(d, e)
      <3>1. ASSUME \A e \in g, d \in h : Before(e, d), NEW e \in g PROVE FALSE
        <4>1. PICK d \in h : d.key = From(h)
          BY <1>5
        <4>2. d \in Entry /\ e \in Entry
          BY <1>3, <1>4
        <4>3. e.key <= d.key
          BY <3>1, <4>2, Order
        <4>4. From(g) <= e.key /\ From(h) <= hi
          BY <1>3, <1>6
        <4>5. e.key \in Nat /\ d.key \in Nat /\ From(h) \in Nat
          BY <1>3, <1>4
        <4>6. QED
          BY <1>2, <1>3, <1>9, <4>1, <4>3, <4>4, <4>5
      <3>2. QED
        BY <3>1 DEF Apart
    <2>3. \A e \in g, d \in UNION (A \cup B) : Before(d, e)
      BY <2>1, <2>2
    <2>4. QED
      BY <2>3 DEF Apart
  <1>10. QED
    BY <1>7, <1>8, <1>9

\* What PickCompaction may take.
LEMMA InputsApart ==
  ASSUME BaseInv, ApartInv, NEW l \in 0 .. NumLevels - 2, NEW f \in Files(l),
         NEW in \in Inputs(l, Picked(l, f))
  PROVE  /\ in = <<in[1], in[2]>> /\ in[1] # {}
         /\ in[1] \subseteq Files(l) /\ in[2] \subseteq Files(l + 1)
         /\ Gapless(in[1] \cup in[2])
         /\ \A g \in Files(l + 1) \ in[2] : ~Touches(g, From(UNION in[1]), To(UNION in[1]))
         /\ \A g \in Files(l + 1) \ in[2] : Apart(g, UNION (in[1] \cup in[2]))
         /\ l = 0 => \A g \in Files(0) \ in[1] : ~Touches(g, From(UNION in[1]), To(UNION in[1]))
  <1> DEFINE fs == Picked(l, f)
  <1>1. FilesInv /\ l \in 0 .. NumLevels - 1 /\ l + 1 \in 0 .. NumLevels - 1
    BY FilesOk, Levels DEF BaseInv
  <1>2. /\ fs \subseteq Files(l) /\ fs # {} /\ Gapless(fs)
        /\ l = 0 => \A g \in Files(0) \ fs : ~Touches(g, From(UNION fs), To(UNION fs))
    BY <1>1, PickedIs
  <1> HIDE DEF fs
  <1>3. in \in Inputs(l, fs)
    BY DEF fs
  <1>4. /\ in = <<in[1], in[2]>>
        /\ fs \subseteq in[1] /\ in[1] \subseteq Files(l) /\ in[2] \subseteq Files(l + 1)
        /\ \A g \in Files(l + 1) \ in[2] : ~Touches(g, From(UNION in[1]), To(UNION in[1]))
        /\ \A g \in in[2] : Touches(g, From(UNION in[1]), To(UNION in[1]))
        /\ \/ in[1] = fs
           \/ l = 0 => \A g \in Files(0) \ in[1] :
                         ~Touches(g, From(UNION in[1]), To(UNION in[1]))
        /\ Gapless(in[1] \cup in[2])
    BY <1>1, <1>2, <1>3, Taken
  <1>5. in[1] # {} /\ in[1] \subseteq AllFiles /\ in[2] \subseteq AllFiles
    BY <1>1, <1>2, <1>4, Levels
  <1>6. ASSUME NEW g \in Files(l + 1) \ in[2] PROVE Apart(g, UNION (in[1] \cup in[2]))
    <2>1. g \in AllFiles /\ ~Touches(g, From(UNION in[1]), To(UNION in[1]))
      BY <1>1, <1>4, <1>6, Levels
    <2>2. \A h \in in[2] : Apart(g, h)
      <3>1. l + 1 \in 1 .. NumLevels - 1
        BY LevelAssumption
      <3>2. QED
        BY <1>4, <1>6, <3>1 DEF ApartInv
    <2>3. QED
      BY <1>1, <1>4, <1>5, <2>1, <2>2, ApartFromInputs
  <1>7. QED
    BY <1>2, <1>4, <1>5, <1>6

\* A memtable that goes past a level touches nothing in it.
LEMMA FlushFree ==
  ASSUME BaseInv, imm \in File, NEW l \in PickLevel(imm), l # 0,
         NEW j \in 0 .. l, NEW f \in Files(j)
  PROVE  /\ f \in AllFiles
         /\ ~Touches(f, From(imm), To(imm))
         /\ f \subseteq Entry /\ f # {} /\ Distinct(f)
         /\ imm \subseteq Entry /\ imm # {} /\ Distinct(imm)
  <1>1. l \in 0 .. NumLevels - 1 /\ l > 0
    BY LevelAssumption DEF PickLevel
  <1>2. ~OverlapInLevel(j, imm)
    BY <1>1 DEF PickLevel
  <1>3. f \in AllFiles
    <2>1. j \in 0 .. NumLevels - 1
      BY <1>1, LevelAssumption
    <2>2. QED
      BY <2>1, Levels
  <1>4. f \subseteq Entry /\ f # {} /\ Distinct(f)
    BY <1>3, FilesOk, FileOk DEF BaseInv
  <1>5. imm \subseteq Entry /\ imm # {}
    BY DEF File
  <1>6. Distinct(imm)
    BY NumberedDistinct DEF BaseInv, NumberInv, Entries
  <1>7. QED
    BY <1>2, <1>3, <1>4, <1>5, <1>6 DEF OverlapInLevel

LEMMA ApartInit ==
  ASSUME Init
  PROVE  ApartInv /\ MergeInv /\ ManualOff
  <1>1. \A l \in 1 .. NumLevels - 1 : Files(l) = {}
    BY DEF Init, Files
  <1>2. QED
    BY <1>1 DEF ApartInv, MergeInv, ManualOff, Init

\* While the version stays, and no compaction starts.
LEMMA ApartSame ==
  ASSUME LevelInv, UNCHANGED <<version, compaction, manual>>
  PROVE  ApartInv' /\ MergeInv' /\ ManualOff'
  <1>1. \A l \in 0 .. NumLevels - 1 : Files(l)' = Files(l)
    BY SameFiles
  <1>2. ApartInv'
    BY <1>1, LevelAssumption DEF LevelInv, ApartInv
  <1>3. MergeInv'
    <2>1. Taking' = Taking /\ Merged' = Merged
      BY DEF Taking, Merged
    <2>2. compaction # None => compaction.level + 1 \in 0 .. NumLevels - 1
      BY Levels DEF LevelInv, BaseInv, TypeOK
    <2>3. Gapless(Taking) => Gapless(Taking)'
      BY <2>1 DEF Gapless
    <2>4. QED
      BY <1>1, <2>1, <2>2, <2>3 DEF LevelInv, MergeInv
  <1>4. QED
    BY <1>2, <1>3 DEF LevelInv, ManualOff

LEMMA FlushApart ==
  ASSUME LevelInv, CompactMemTable
  PROVE  ApartInv' /\ MergeInv' /\ ManualOff'
  <1>1. BaseInv /\ ApartInv /\ MergeInv /\ ManualOff /\ TypeOK /\ ImmInv /\ CompInv /\ FilesInv
    BY FilesOk DEF LevelInv, BaseInv
  <1>2. compaction' = compaction /\ manual' = manual
    BY DEF CompactMemTable
  <1>3. imm \in File
    BY <1>1, FlushIs
  <1>4. PICK l \in 0 .. NumLevels - 1 :
          /\ l \in PickLevel(imm)
          /\ Files(l)' = Files(l) \cup {imm}
          /\ \A j \in 0 .. NumLevels - 1 : j # l => Files(j)' = Files(j)
    BY <1>1, FlushIs
  <1>5. ASSUME l # 0, NEW f \in Files(l) PROVE Apart(f, imm) /\ Apart(imm, f)
    <2>1. l \in 0 .. l
      BY <1>4
    <2>2. /\ f \subseteq Entry /\ f # {} /\ Distinct(f) /\ ~Touches(f, From(imm), To(imm))
          /\ imm \subseteq Entry /\ imm # {} /\ Distinct(imm)
      BY <1>1, <1>3, <1>4, <1>5, <2>1, FlushFree
    <2>3. QED
      BY <2>2, Untouched
  <1>6. ApartInv'
    <2> SUFFICES ASSUME NEW j \in 1 .. NumLevels - 1, NEW f \in Files(j)', NEW g \in Files(j)', f # g
                 PROVE  Apart(f, g)
      BY DEF ApartInv, Apart, Before, Precedes
    <2>1. j \in 0 .. NumLevels - 1 /\ j # 0
      BY LevelAssumption
    <2>2. CASE j # l
      BY <1>1, <1>4, <2>1, <2>2 DEF ApartInv
    <2>3. CASE j = l /\ f \in Files(j) /\ g \in Files(j)
      BY <1>1, <2>3 DEF ApartInv
    <2>4. CASE j = l /\ f = imm /\ g \in Files(j)
      BY <1>5, <2>1, <2>4
    <2>5. CASE j = l /\ f \in Files(j) /\ g = imm
      BY <1>5, <2>1, <2>5
    <2>6. QED
      BY <1>4, <2>2, <2>3, <2>4, <2>5
  <1>7. ASSUME compaction # None, NEW L \in 0 .. NumLevels - 2, L = compaction.level
        PROVE  /\ Gapless(Taking)'
               /\ \A g \in Files(L + 1)' \ compaction.in[2] : Apart(g, Merged)'
    <2>1. /\ Gapless(Taking) /\ \A g \in Files(L + 1) \ compaction.in[2] : Apart(g, Merged)
          /\ compaction.in[1] \subseteq Files(L) /\ compaction.in[2] \subseteq Files(L + 1)
          /\ L \in 0 .. NumLevels - 2 /\ compaction.in[1] # {}
      BY <1>1, <1>7 DEF MergeInv, CompInv, TypeOK
    <2>2. L \in 0 .. NumLevels - 1 /\ L + 1 \in 0 .. NumLevels - 1 /\ L + 1 # 0
      BY <2>1, Levels
    <2>3. Taking' = Taking /\ Merged' = Merged
      BY <1>2 DEF Taking, Merged
    <2>4. Gapless(Taking)'
      BY <2>1, <2>3 DEF Gapless
    <2>5. ASSUME l = L + 1 PROVE Apart(imm, Merged)
      <3>1. Taking \subseteq AllFiles /\ Taking # {}
        BY <2>1, <2>2, Levels DEF Taking
      <3>2. /\ Merged \subseteq Entry /\ Merged # {} /\ Distinct(Merged)
            /\ Taking \subseteq File /\ Merged = UNION Taking
        BY <1>1, <3>1, RangeOk, SomeFiles DEF Merged
      <3>3. ASSUME NEW f \in Taking
            PROVE  /\ ~Touches(f, From(imm), To(imm)) /\ ~Touches(imm, From(f), To(f))
                   /\ imm \subseteq Entry /\ imm # {} /\ Distinct(imm)
        <4>1. PICK j \in 0 .. l : f \in Files(j)
          BY <2>1, <2>2, <2>5 DEF Taking
        <4>2. /\ f \subseteq Entry /\ f # {} /\ Distinct(f) /\ ~Touches(f, From(imm), To(imm))
              /\ imm \subseteq Entry /\ imm # {} /\ Distinct(imm)
          BY <1>1, <1>3, <1>4, <2>2, <2>5, <4>1, FlushFree
        <4>3. QED
          BY <4>2, Untouched
      <3>4. imm \subseteq Entry /\ imm # {} /\ Distinct(imm)
        BY <3>1, <3>3
      <3>5. From(imm) \in Nat /\ To(imm) \in Nat /\ From(imm) <= To(imm)
        BY <3>4, FileRange
      <3>6. ~Touches(imm, From(Merged), To(Merged))
        BY <2>1, <3>1, <3>2, <3>3, <3>5, TouchesOne
      <3>7. QED
        BY <3>2, <3>4, <3>6, Untouched
    <2>6. ASSUME NEW g \in Files(L + 1)' \ compaction.in[2] PROVE Apart(g, Merged)
      <3>1. CASE l # L + 1
        BY <1>4, <2>1, <2>2, <2>6, <3>1
      <3>2. CASE l = L + 1
        BY <1>4, <2>1, <2>5, <2>6, <3>2
      <3>3. QED
        BY <3>1, <3>2
    <2>7. QED
      BY <2>3, <2>4, <2>6 DEF Apart, Before, Precedes
  <1>8. MergeInv'
    <2>1. compaction # None => compaction.level \in 0 .. NumLevels - 2
      BY <1>1 DEF TypeOK
    <2>2. QED
      BY <1>2, <1>7, <2>1 DEF MergeInv
  <1>9. QED
    BY <1>1, <1>2, <1>6, <1>8 DEF ManualOff

\* An edit of the version: what it adds is apart from what stays there.
LEMMA ApplyApart ==
  ASSUME BaseInv, ApartInv, NEW gone, NEW l \in 1 .. NumLevels - 1, NEW new, new \subseteq File,
         Apply(gone, l, new),
         \A p, q \in new : p # q => Apart(p, q),
         \A g \in Files(l) \ gone, p \in new : Apart(g, p)
  PROVE  ApartInv'
  <1>1. /\ Files(l)' = (Files(l) \ gone) \cup new
        /\ \A j \in 0 .. NumLevels - 1 : j # l => Files(j)' = Files(j) \ gone
    <2>1. Edited(gone, l, new)
      BY ApplyIs DEF BaseInv
    <2>2. QED
      BY <2>1 DEF Edited
  <1>2. ASSUME NEW j \in 1 .. NumLevels - 1, NEW f \in Files(j)', NEW g \in Files(j)', f # g
        PROVE  Apart(f, g)
    <2>1. j \in 0 .. NumLevels - 1
      BY LevelAssumption
    <2>2. CASE f \in Files(j) /\ g \in Files(j)
      BY <1>2, <2>2 DEF ApartInv
    <2>3. CASE j = l /\ f \in new /\ g \in new
      BY <1>2, <2>3
    <2>4. CASE j = l /\ f \in Files(l) \ gone /\ g \in new
      BY <2>4
    <2>5. CASE j = l /\ f \in new /\ g \in Files(l) \ gone
      BY <2>5 DEF Apart
    <2>6. QED
      BY <1>1, <1>2, <2>1, <2>2, <2>3, <2>4, <2>5
  <1>3. QED
    BY <1>2 DEF ApartInv, Apart, Before, Precedes

LEMMA WorkApart ==
  ASSUME LevelInv, DoCompactionWork
  PROVE  ApartInv' /\ MergeInv' /\ ManualOff'
  <1>1. BaseInv /\ ApartInv /\ MergeInv /\ ManualOff /\ CompInv
    BY DEF LevelInv, BaseInv
  <1>2. /\ compaction # None /\ compaction' = None
        /\ compaction.level + 1 \in 1 .. NumLevels - 1
        /\ Merged \subseteq Entry /\ Numbered(Keeps) /\ Keeps \subseteq Merged /\ Keeps \subseteq Entry
        /\ MaxSnapshots = 0 => Single(Keeps)
        /\ manual' = IF compaction.end = 0 THEN manual
                     ELSE [manual EXCEPT !.from = compaction.end]
    BY <1>1, WorkIs
  <1>3. PICK new \in Outputs(Keeps) :
          /\ new \subseteq File /\ UNION new = Keeps
          /\ Apply(Taking, compaction.level + 1, new)
    BY <1>1, WorkIs
  <1>4. \A p, q \in new : p # q => Apart(p, q)
    BY <1>2, OutputsAre
  <1>5. ASSUME NEW g \in Files(compaction.level + 1) \ Taking, NEW p \in new
        PROVE  Apart(g, p)
    <2>1. Apart(g, Merged)
      BY <1>1, <1>2, <1>5 DEF MergeInv, Taking
    <2>2. p \subseteq Merged
      BY <1>2, <1>3
    <2>3. QED
      BY <2>1, <2>2 DEF Apart
  <1>6. ApartInv'
    BY <1>1, <1>2, <1>3, <1>4, <1>5, ApplyApart
  <1>7. compaction.end = 0
    BY <1>1, <1>2 DEF CompInv, ManualOff
  <1>8. QED
    BY <1>1, <1>2, <1>6, <1>7 DEF MergeInv, ManualOff

LEMMA PickApart ==
  ASSUME LevelInv, PickCompaction
  PROVE  ApartInv' /\ MergeInv' /\ ManualOff'
  <1>1. BaseInv /\ ApartInv /\ MergeInv /\ ManualOff /\ FilesInv /\ TypeOK
    BY FilesOk DEF LevelInv, BaseInv
  <1>2. compaction = None /\ manual' = manual
    BY <1>1, PickIs
  <1>3. PICK l \in 0 .. NumLevels - 2 : \E f \in Files(l) : \E in \in Inputs(l, Picked(l, f)) :
          \/ /\ in[2] = {} /\ \E g \in Files(l) : in[1] = {g}
             /\ Apply(in[1], l + 1, in[1])
             /\ UNCHANGED compaction
          \/ compaction' = Started(l, in, 0) /\ UNCHANGED version
    BY <1>1, PickIs
  <1>4. PICK f \in Files(l) : \E in \in Inputs(l, Picked(l, f)) :
          \/ /\ in[2] = {} /\ \E g \in Files(l) : in[1] = {g}
             /\ Apply(in[1], l + 1, in[1])
             /\ UNCHANGED compaction
          \/ compaction' = Started(l, in, 0) /\ UNCHANGED version
    BY <1>3
  <1>5. PICK in \in Inputs(l, Picked(l, f)) :
          \/ /\ in[2] = {} /\ \E g \in Files(l) : in[1] = {g}
             /\ Apply(in[1], l + 1, in[1])
             /\ UNCHANGED compaction
          \/ compaction' = Started(l, in, 0) /\ UNCHANGED version
    BY <1>4
  <1>6. /\ in[1] # {} /\ in[1] \subseteq Files(l) /\ in[2] \subseteq Files(l + 1)
        /\ Gapless(in[1] \cup in[2])
        /\ \A g \in Files(l + 1) \ in[2] : Apart(g, UNION (in[1] \cup in[2]))
    BY <1>1, InputsApart
  <1>7. l + 1 \in 1 .. NumLevels - 1 /\ l \in 0 .. NumLevels - 1
    BY LevelAssumption
  <1>8. CASE /\ in[2] = {} /\ \E g \in Files(l) : in[1] = {g}
             /\ Apply(in[1], l + 1, in[1])
             /\ UNCHANGED compaction
    <2>1. PICK h \in Files(l) : in[1] = {h}
      BY <1>8
    <2>2. {h} \subseteq File /\ Apply({h}, l + 1, {h})
      BY <1>1, <1>7, <1>8, <2>1, FilesAre
    <2>3. UNION (in[1] \cup in[2]) = h
      BY <1>8, <2>1
    <2>4. ASSUME NEW g \in Files(l + 1) \ {h} PROVE \A p \in {h} : Apart(g, p)
      <3>1. Apart(g, UNION (in[1] \cup in[2]))
        BY <1>6, <1>8
      <3>2. Apart(g, h)
        BY <2>3, <3>1
      <3>3. QED
        BY <3>2
    <2>5. ApartInv'
      <3>1. \A p, q \in {h} : p # q => Apart(p, q)
        OBVIOUS
      <3>2. QED
        BY <1>1, <1>7, <2>2, <2>4, <3>1, ApplyApart
    <2>6. QED
      BY <1>1, <1>2, <1>8, <2>5 DEF MergeInv, ManualOff
  <1>9. CASE compaction' = Started(l, in, 0) /\ UNCHANGED version
    <2>1. \A j \in 0 .. NumLevels - 1 : Files(j)' = Files(j)
      BY <1>9, SameFiles
    <2>2. ApartInv'
      BY <1>1, <2>1, LevelAssumption DEF ApartInv
    <2>3. compaction'.level = l /\ compaction'.in = in
      BY <1>9 DEF Started
    <2>4. Taking' = in[1] \cup in[2] /\ Merged' = UNION (in[1] \cup in[2])
      BY <2>3 DEF Taking, Merged
    <2>5. Gapless(Taking)'
      BY <1>6, <2>4 DEF Gapless
    <2>6. ASSUME NEW g \in Files(l + 1)' \ in[2] PROVE Apart(g, Merged)'
      <3>1. Apart(g, UNION (in[1] \cup in[2]))
        BY <1>6, <1>7, <2>1, <2>6, Levels
      <3>2. QED
        BY <2>4, <3>1 DEF Apart, Before, Precedes
    <2>7. MergeInv'
      BY <2>3, <2>5, <2>6 DEF MergeInv
    <2>8. QED
      BY <1>1, <1>2, <2>2, <2>7 DEF ManualOff
  <1>10. QED
    BY <1>5, <1>8, <1>9

\* No CompactRange: it may take several files at once, and leave gaps between them
\* (leveldb_gap).  The database client never calls it.
NoRange == MaxManual = 0

LEMMA LevelStep ==
  ASSUME NoRange, LevelInv, [Next]_vars
  PROVE  LevelInv'
  <1>1. BaseInv'
    BY BaseStep DEF LevelInv
  <1>2. CASE UNCHANGED <<version, compaction, manual>>
    BY <1>1, <1>2, ApartSame DEF LevelInv
  <1>3. CASE CompactMemTable
    BY <1>1, <1>3, FlushApart DEF LevelInv
  <1>4. CASE PickCompaction
    BY <1>1, <1>4, PickApart DEF LevelInv
  <1>5. CASE DoCompactionWork
    BY <1>1, <1>5, WorkApart DEF LevelInv
  <1>6. ASSUME NEW lo \in Keys, NEW hi \in Keys, CompactRange(lo, hi) PROVE FALSE
    <2>1. manuals \in Nat /\ manuals < 0
      BY <1>6 DEF CompactRange, NoRange, LevelInv, BaseInv, TypeOK
    <2>2. QED
      BY <2>1
  <1>7. ~ManualCompaction
    BY DEF ManualCompaction, LevelInv, ManualOff
  <1>8. ASSUME NEW k \in Keys, NEW del \in Deletions, Write(k, del)
        PROVE  UNCHANGED <<version, compaction, manual>>
    BY <1>8 DEF Write
  <1>9. ASSUME NEW s \in snapshots, ReleaseSnapshot(s)
        PROVE  UNCHANGED <<version, compaction, manual>>
    BY <1>9 DEF ReleaseSnapshot
  <1>10. GetSnapshot \/ SwitchMemtable \/ UNCHANGED vars => UNCHANGED <<version, compaction, manual>>
    BY DEF GetSnapshot, SwitchMemtable, vars
  <1>11. QED
    BY <1>2, <1>3, <1>4, <1>5, <1>6, <1>7, <1>8, <1>9, <1>10 DEF Next

LEMMA ApartMeansDisjoint ==
  ASSUME BaseInv, ApartInv
  PROVE  LevelsDisjoint
  <1> SUFFICES ASSUME NEW l \in 1 .. NumLevels - 1, NEW f \in deeper[l], NEW g \in deeper[l], f # g
               PROVE  Precedes(Largest(f), Smallest(g)) \/ Precedes(Largest(g), Smallest(f))
    BY DEF LevelsDisjoint
  <1>1. l \in 0 .. NumLevels - 1 /\ Files(l) = deeper[l] /\ FilesInv
    BY LevelAssumption, FilesAre, FilesOk DEF BaseInv
  <1>2. f \in AllFiles /\ g \in AllFiles /\ Apart(f, g)
    BY <1>1, Levels DEF ApartInv
  <1>3. /\ f \subseteq Entry /\ f # {} /\ Distinct(f)
        /\ g \subseteq Entry /\ g # {} /\ Distinct(g)
    BY <1>1, <1>2, FileOk
  <1>4. Smallest(f) \in f /\ Largest(f) \in f /\ Smallest(g) \in g /\ Largest(g) \in g
    BY <1>3, Ordered
  <1>5. \/ Before(Largest(f), Smallest(g))
        \/ Before(Largest(g), Smallest(f))
    BY <1>2, <1>4 DEF Apart
  <1>6. QED
    BY <1>3, <1>4, <1>5, Order

\* Files of a level below level 0 never overlap, wherever output files are cut and
\* although memtables are flushed past level 0 during a compaction into that level.
THEOREM FilesApart ==
  ASSUME NoRange
  PROVE  Spec => []LevelsDisjoint
  <1>1. Init => LevelInv
    BY InitBase, ApartInit DEF LevelInv
  <1>2. LevelInv /\ [Next]_vars => LevelInv'
    BY LevelStep
  <1>3. LevelInv => LevelsDisjoint
    BY ApartMeansDisjoint DEF LevelInv
  <1>4. QED
    BY <1>1, <1>2, <1>3, PTL DEF Spec

-----------------------------------------------------------------------------
(* The newest entry of a key is uppermost.                                 *)

\* Files may be ended anywhere, as DoCompactionWork does, and there are no snapshots (the
\* database client takes none), so that no two entries of a key are kept; or there are
\* snapshots, and files are ended between keys.  With both, NewestAbove does not hold
\* (leveldb_split).
Undivided == SplitKeys => MaxSnapshots = 0

Newer(S, T) == \A e \in S, d \in T : e.key = d.key => e.seq > d.seq

NewestInv == /\ Newer(mem, imm)
             /\ \A f \in AllFiles : Newer(mem, f) /\ Newer(imm, f)
             /\ \A i, j \in DOMAIN level0 : i < j => Newer(level0[j], level0[i])
             /\ \A j, m \in 0 .. NumLevels - 1 : j < m =>
                  \A f \in Files(j), g \in Files(m) : Newer(f, g)

\* What stays at the level a compaction takes from is newer than what goes.
AboveInv == compaction # None =>
              \A h \in Files(compaction.level) \ compaction.in[1] : Newer(h, UNION compaction.in[1])

OrderInv == LevelInv /\ NewestInv /\ AboveInv

LEMMA NewestInit ==
  ASSUME Init
  PROVE  NewestInv /\ AboveInv
  <1>1. Files(0) = {} /\ \A l \in 1 .. NumLevels - 1 : Files(l) = {}
    BY DEF Init, Files, ToSet
  <1>2. AllFiles = {}
    BY <1>1, LevelAssumption DEF AllFiles
  <1>3. \A l \in 0 .. NumLevels - 1 : Files(l) = {}
    BY <1>2, Levels
  <1>4. QED
    BY <1>2, <1>3 DEF NewestInv, AboveInv, Newer, Init

\* While the version stays, and no compaction starts.
LEMMA AboveSame ==
  ASSUME BaseInv, AboveInv, UNCHANGED <<version, compaction>>
  PROVE  AboveInv'
  <1>1. \A l \in 0 .. NumLevels - 1 : Files(l)' = Files(l)
    BY SameFiles
  <1>2. compaction # None => compaction.level \in 0 .. NumLevels - 1
    BY Levels DEF BaseInv, TypeOK
  <1>3. QED
    BY <1>1, <1>2 DEF AboveInv, Newer

\* The memtables change, not the version.
LEMMA NewestSame ==
  ASSUME NewestInv, UNCHANGED version,
         Newer(mem', imm'), \A f \in AllFiles : Newer(mem', f) /\ Newer(imm', f)
  PROVE  NewestInv'
  <1>1. AllFiles' = AllFiles /\ \A l \in 0 .. NumLevels - 1 : Files(l)' = Files(l)
    BY SameFiles
  <1>2. level0' = level0
    BY DEF version
  <1>3. \A i, j \in DOMAIN level0' : i < j => Newer(level0'[j], level0'[i])
    BY <1>2 DEF NewestInv
  <1>4. ASSUME NEW j \in 0 .. NumLevels - 1, NEW m \in 0 .. NumLevels - 1, j < m,
               NEW f \in Files(j)', NEW g \in Files(m)'
        PROVE  Newer(f, g)
    BY <1>1, <1>4 DEF NewestInv
  <1>5. QED
    BY <1>1, <1>3, <1>4 DEF NewestInv, Newer

LEMMA WriteNewest ==
  ASSUME BaseInv, NewestInv, AboveInv, NEW k \in Keys, NEW del \in Deletions, Write(k, del)
  PROVE  NewestInv' /\ AboveInv'
  <1> DEFINE e == [key |-> k, seq |-> lastSequence + 1, del |-> del]
  <1>1. /\ mem' = mem \cup {e} /\ e.seq = lastSequence + 1 /\ imm' = imm
        /\ UNCHANGED <<version, compaction>>
    BY DEF Write
  <1> HIDE DEF e
  <1>2. \A d \in Entries : d.seq <= lastSequence /\ d.seq \in Nat
    BY EntriesOk, EntryFields DEF BaseInv, NumberInv
  <1>3. lastSequence \in Nat
    BY Bounds DEF BaseInv, TypeOK
  <1>4. \A d \in Entries : e.seq > d.seq
    BY <1>1, <1>2, <1>3
  <1>5. imm \subseteq Entries /\ \A f \in AllFiles : f \subseteq Entries
    BY DEF Entries
  <1>6. Newer(mem', imm')
    BY <1>1, <1>4, <1>5 DEF NewestInv, Newer
  <1>7. \A f \in AllFiles : Newer(mem', f) /\ Newer(imm', f)
    BY <1>1, <1>4, <1>5 DEF NewestInv, Newer
  <1>8. QED
    BY <1>1, <1>6, <1>7, NewestSame, AboveSame

LEMMA SwitchNewest ==
  ASSUME BaseInv, NewestInv, AboveInv, SwitchMemtable
  PROVE  NewestInv' /\ AboveInv'
  <1>1. imm' = mem /\ mem' = {} /\ UNCHANGED <<version, compaction>>
    BY DEF SwitchMemtable
  <1>2. Newer(mem', imm') /\ \A f \in AllFiles : Newer(mem', f) /\ Newer(imm', f)
    BY <1>1 DEF NewestInv, Newer
  <1>3. QED
    BY <1>1, <1>2, NewestSame, AboveSame

LEMMA OtherNewest ==
  ASSUME BaseInv, NewestInv, AboveInv, UNCHANGED <<memtables, version, compaction>>
  PROVE  NewestInv' /\ AboveInv'
  <1>1. mem' = mem /\ imm' = imm
    BY DEF memtables
  <1>2. Newer(mem', imm') /\ \A f \in AllFiles : Newer(mem', f) /\ Newer(imm', f)
    BY <1>1 DEF NewestInv
  <1>3. QED
    BY <1>2, NewestSame, AboveSame

LEMMA FlushNewest ==
  ASSUME OrderInv, CompactMemTable
  PROVE  NewestInv' /\ AboveInv'
  <1>1. BaseInv /\ NewestInv /\ AboveInv /\ TypeOK /\ ImmInv /\ CompInv
    BY DEF OrderInv, LevelInv, BaseInv
  <1>2. mem' = mem /\ imm' = {} /\ compaction' = compaction
    BY DEF CompactMemTable
  <1>3. imm \in File /\ AllFiles' = AllFiles \cup {imm}
    BY <1>1, FlushIs
  <1>4. PICK l \in 0 .. NumLevels - 1 :
          /\ l \in PickLevel(imm)
          /\ Files(l)' = Files(l) \cup {imm}
          /\ \A j \in 0 .. NumLevels - 1 : j # l => Files(j)' = Files(j)
          /\ l = 0 => level0' = Append(level0, imm)
          /\ l # 0 => level0' = level0
    BY <1>1, FlushIs
  <1>5. \A f \in AllFiles' : Newer(mem', f) /\ Newer(imm', f)
    BY <1>1, <1>2, <1>3 DEF NewestInv, Newer
  <1>6. \A f \in AllFiles : Newer(imm, f)
    BY <1>1 DEF NewestInv
  <1>7. \A i \in DOMAIN level0 : level0[i] \in AllFiles
    <2>1. \A i \in DOMAIN level0 : level0[i] \in Files(0)
      BY DEF Files, ToSet
    <2>2. QED
      BY <2>1, Levels
  <1>8. \A i, j \in DOMAIN level0' : i < j => Newer(level0'[j], level0'[i])
    <2>1. level0 \in Seq(File)
      BY <1>1 DEF TypeOK
    <2>2. CASE l # 0
      BY <1>1, <1>4, <2>2 DEF NewestInv
    <2>3. CASE l = 0
      <3> DEFINE n == Len(level0)
      <3>1. /\ n \in Nat /\ DOMAIN level0 = 1 .. n /\ DOMAIN level0' = 1 .. n + 1
            /\ level0'[n + 1] = imm /\ \A i \in 1 .. n : level0'[i] = level0[i]
        BY <1>4, <2>1, <2>3
      <3> HIDE DEF n
      <3>2. ASSUME NEW i \in 1 .. n + 1, NEW j \in 1 .. n + 1, i < j
            PROVE  Newer(level0'[j], level0'[i])
        <4>1. i \in 1 .. n
          BY <3>1, <3>2
        <4>2. CASE j \in 1 .. n
          BY <1>1, <3>1, <3>2, <4>1, <4>2 DEF NewestInv
        <4>3. CASE j = n + 1
          BY <1>6, <1>7, <3>1, <4>1, <4>3
        <4>4. QED
          BY <3>1, <4>2, <4>3
      <3>3. QED
        BY <3>1, <3>2
    <2>4. QED
      BY <2>2, <2>3
  <1>9. ASSUME NEW j \in 0 .. NumLevels - 1, NEW m \in 0 .. NumLevels - 1, j < m,
               NEW f \in Files(j)', NEW g \in Files(m)'
        PROVE  Newer(f, g)
    <2>1. CASE f \in Files(j) /\ g \in Files(m)
      BY <1>1, <1>9, <2>1 DEF NewestInv
    <2>2. CASE f = imm /\ g \in Files(m)
      BY <1>6, <2>2, Levels
    <2>3. CASE m = l /\ f \in Files(j) /\ g = imm
      <3>1. l # 0 /\ j \in 0 .. l
        BY <1>9, <2>3
      <3>2. /\ f \subseteq Entry /\ f # {} /\ Distinct(f) /\ ~Touches(f, From(imm), To(imm))
            /\ imm \subseteq Entry /\ imm # {} /\ Distinct(imm)
        BY <1>1, <1>3, <1>4, <2>3, <3>1, FlushFree
      <3>3. \A e \in f, d \in imm : e.key # d.key
        BY <3>2, Untouched
      <3>4. QED
        BY <2>3, <3>3 DEF Newer
    <2>4. CASE j = l /\ m = l
      BY <1>9, <2>4
    <2>5. QED
      BY <1>4, <2>1, <2>2, <2>3, <2>4
  <1>10. NewestInv'
    <2>1. Newer(mem', imm')
      BY <1>2 DEF Newer
    <2>2. QED
      BY <1>5, <1>8, <1>9, <2>1 DEF NewestInv, Newer
  <1>11. ASSUME compaction # None, NEW L \in 0 .. NumLevels - 2, L = compaction.level,
                NEW h \in Files(L)' \ compaction.in[1]
         PROVE  Newer(h, UNION compaction.in[1])
    <2>1. L \in 0 .. NumLevels - 1
      BY Levels
    <2>2. CASE h \in Files(L)
      BY <1>1, <1>11, <2>2 DEF AboveInv
    <2>3. CASE h = imm
      <3>1. compaction.in[1] \subseteq AllFiles
        BY <1>1, <1>11, <2>1, Levels DEF CompInv
      <3>2. QED
        BY <1>6, <2>3, <3>1 DEF Newer
    <2>4. QED
      BY <1>4, <1>11, <2>1, <2>2, <2>3
  <1>12. AboveInv'
    <2>1. compaction # None => compaction.level \in 0 .. NumLevels - 2
      BY <1>1 DEF TypeOK
    <2>2. QED
      BY <1>2, <1>11, <2>1 DEF AboveInv, Newer
  <1>13. QED
    BY <1>10, <1>12

\* An edit of the version that brings entries one level down.
LEMMA ApplyNewest ==
  ASSUME BaseInv, NewestInv, NEW l \in 0 .. NumLevels - 2, NEW A, A \subseteq Files(l),
         NEW B, B \subseteq Files(l + 1), \A h \in Files(l) \ A : Newer(h, UNION A),
         NEW new, new \subseteq File, UNION new \subseteq UNION (A \cup B),
         Apply(A \cup B, l + 1, new), mem' = mem, imm' = imm
  PROVE  NewestInv'
  <1> DEFINE n == l + 1
             gone == A \cup B
  <1>1. n \in 1 .. NumLevels - 1 /\ n \in 0 .. NumLevels - 1 /\ l \in 0 .. NumLevels - 1 /\ l < n
    BY LevelAssumption
  <1>2. TypeOK /\ Apply(gone, n, new)
    BY DEF BaseInv
  <1>3. A \subseteq AllFiles /\ B \subseteq AllFiles
    BY <1>1, Levels
  <1>4. \A p \in new : p \subseteq UNION gone
    OBVIOUS
  <1>5. \A d \in UNION gone : \E h \in gone : d \in h
    OBVIOUS
  <1>6. B \subseteq Files(n) /\ gone = A \cup B
    OBVIOUS
  <1>a. n > l /\ \A j \in Nat : j < n => j < l \/ j = l
    BY <1>1
  <1> HIDE DEF n, gone
  <1>7. /\ Files(n)' = (Files(n) \ gone) \cup new
        /\ \A j \in 0 .. NumLevels - 1 : j # n => Files(j)' = Files(j) \ gone
        /\ AllFiles' = (AllFiles \ gone) \cup new
        /\ \A i, j \in DOMAIN level0' :
             i < j => \E a, b \in DOMAIN level0 : a < b /\ level0'[i] = level0[a] /\ level0'[j] = level0[b]
    <2>1. Edited(gone, n, new)
      BY <1>1, <1>2, ApplyIs
    <2>2. QED
      BY <2>1 DEF Edited
  <1>8. ASSUME NEW i \in DOMAIN level0', NEW j \in DOMAIN level0', i < j
        PROVE  Newer(level0'[j], level0'[i])
    BY <1>7, <1>8 DEF NewestInv
  <1>9. ASSUME NEW f \in AllFiles' PROVE Newer(mem, f) /\ Newer(imm, f)
    <2>1. CASE f \in AllFiles
      BY <2>1 DEF NewestInv
    <2>2. CASE f \in new
      <3>1. \A d \in f : \E h \in AllFiles : d \in h
        BY <1>3, <1>4, <1>5, <1>6, <2>2
      <3>2. QED
        BY <3>1 DEF NewestInv, Newer
    <2>3. QED
      BY <1>7, <2>1, <2>2
  <1>10. ASSUME NEW j \in 0 .. NumLevels - 1, NEW m \in 0 .. NumLevels - 1, j < m,
                NEW f \in Files(j)', NEW g \in Files(m)'
         PROVE  Newer(f, g)
    <2>1. CASE f \in Files(j) /\ g \in Files(m)
      BY <1>10, <2>1 DEF NewestInv
    <2>2. CASE j = n /\ f \in new
      <3>1. g \in Files(m) /\ n < m /\ l < m
        BY <1>1, <1>7, <1>10, <2>2
      <3>2. \A h \in gone : Newer(h, g)
        BY <1>1, <1>6, <3>1 DEF NewestInv
      <3>3. QED
        BY <1>4, <1>5, <2>2, <3>2 DEF Newer
    <2>3. CASE m = n /\ g \in new
      <3>1. f \in Files(j) \ gone /\ (j < l \/ j = l)
        BY <1>1, <1>7, <1>a, <1>10, <2>3
      <3>2. \A h \in B : Newer(f, h)
        BY <1>1, <1>6, <1>10, <2>3, <3>1 DEF NewestInv
      <3>3. \A h \in A : Newer(f, h)
        <4>1. CASE j < l
          BY <1>1, <3>1, <4>1 DEF NewestInv
        <4>2. CASE j = l
          BY <1>6, <3>1, <4>2 DEF Newer
        <4>3. QED
          BY <3>1, <4>1, <4>2
      <3>4. \A h \in gone : Newer(f, h)
        BY <1>6, <3>2, <3>3
      <3>5. QED
        BY <1>4, <1>5, <2>3, <3>4 DEF Newer
    <2>4. QED
      BY <1>7, <1>10, <2>1, <2>2, <2>3
  <1>11. QED
    BY <1>8, <1>9, <1>10 DEF NewestInv, Newer

LEMMA WorkNewest ==
  ASSUME OrderInv, DoCompactionWork
  PROVE  NewestInv' /\ AboveInv'
  <1>1. BaseInv /\ NewestInv /\ AboveInv /\ CompInv
    BY DEF OrderInv, LevelInv, BaseInv
  <1>2. /\ compaction # None /\ compaction' = None
        /\ compaction.level \in 0 .. NumLevels - 2
        /\ Keeps \subseteq Merged
        /\ UNCHANGED memtables
    BY <1>1, WorkIs
  <1>3. PICK new \in Outputs(Keeps) :
          /\ new \subseteq File /\ UNION new = Keeps
          /\ Apply(Taking, compaction.level + 1, new)
    BY <1>1, WorkIs
  <1> DEFINE A == compaction.in[1]
             B == compaction.in[2]
             l == compaction.level
  <1>4. /\ A \subseteq Files(l) /\ B \subseteq Files(l + 1) /\ l \in 0 .. NumLevels - 2
        /\ \A h \in Files(l) \ A : Newer(h, UNION A)
    BY <1>1, <1>2 DEF CompInv, AboveInv
  <1>5. Apply(A \cup B, l + 1, new) /\ UNION new \subseteq UNION (A \cup B)
    BY <1>2, <1>3 DEF Taking, Merged
  <1>6. mem' = mem /\ imm' = imm
    BY <1>2 DEF memtables
  <1> HIDE DEF A, B, l
  <1>7. NewestInv'
    BY <1>1, <1>3, <1>4, <1>5, <1>6, ApplyNewest
  <1>8. QED
    BY <1>2, <1>7 DEF AboveInv

\* What PickCompaction takes has nothing older beside it at its level.
LEMMA InputsNewer ==
  ASSUME Undivided, OrderInv, NEW l \in 0 .. NumLevels - 2, NEW f \in Files(l),
         NEW in \in Inputs(l, Picked(l, f))
  PROVE  \A h \in Files(l) \ in[1] : Newer(h, UNION in[1])
  <1>1. BaseInv /\ ApartInv /\ FilesInv
    BY FilesOk DEF OrderInv, LevelInv, BaseInv
  <1>2. /\ in[1] # {} /\ in[1] \subseteq Files(l)
        /\ l = 0 => \A g \in Files(0) \ in[1] : ~Touches(g, From(UNION in[1]), To(UNION in[1]))
    BY <1>1, InputsApart
  <1>3. l \in 0 .. NumLevels - 1 /\ (l = 0 \/ l \in 1 .. NumLevels - 1)
    BY LevelAssumption
  <1>4. in[1] \subseteq AllFiles
    BY <1>2, <1>3, Levels
  <1>5. ASSUME NEW h \in Files(l) \ in[1] PROVE Newer(h, UNION in[1])
    <2>1. h \in AllFiles
      BY <1>3, <1>5, Levels
    <2>2. CASE l = 0
      <3> DEFINE U == UNION in[1]
      <3>1. /\ U \subseteq Entry /\ U # {} /\ Distinct(U)
            /\ h \subseteq Entry /\ h # {} /\ Distinct(h)
        BY <1>1, <1>2, <1>4, <2>1, RangeOk, FileOk
      <3>2. ~Touches(h, From(U), To(U))
        BY <1>2, <1>5, <2>2
      <3> HIDE DEF U
      <3>3. \A e \in h, d \in U : e.key # d.key
        BY <3>1, <3>2, Untouched
      <3>4. QED
        BY <3>3 DEF Newer, U
    <2>3. CASE l \in 1 .. NumLevels - 1
      <3>1. ASSUME NEW g \in in[1], NEW e \in h, NEW d \in g PROVE e.key # d.key
        <4>1. Apart(h, g)
          BY <1>1, <1>2, <1>5, <2>3 DEF ApartInv
        <4>2. e \in Entry /\ d \in Entry
          BY <1>1, <1>4, <2>1, FileOk
        <4>3. e.key \in Nat /\ d.key \in Nat
          BY <4>2, EntryFields
        <4>4. Before(e, d) \/ Before(d, e)
          BY <4>1 DEF Apart
        <4>5. e.key < d.key \/ d.key < e.key
          BY <4>2, <4>4, Order DEF Undivided, Divides
        <4>6. QED
          BY <4>3, <4>5
      <3>2. QED
        BY <3>1 DEF Newer
    <2>4. QED
      BY <1>3, <2>2, <2>3
  <1>6. QED
    BY <1>5

LEMMA PickNewest ==
  ASSUME Undivided, OrderInv, PickCompaction
  PROVE  NewestInv' /\ AboveInv'
  <1>1. BaseInv /\ ApartInv /\ NewestInv /\ AboveInv /\ FilesInv /\ TypeOK
    BY FilesOk DEF OrderInv, LevelInv, BaseInv
  <1>2. compaction = None /\ mem' = mem /\ imm' = imm
    BY <1>1, PickIs DEF memtables
  <1>3. PICK l \in 0 .. NumLevels - 2 : \E f \in Files(l) : \E in \in Inputs(l, Picked(l, f)) :
          \/ /\ in[2] = {} /\ \E g \in Files(l) : in[1] = {g}
             /\ Apply(in[1], l + 1, in[1])
             /\ UNCHANGED compaction
          \/ compaction' = Started(l, in, 0) /\ UNCHANGED version
    BY <1>1, PickIs
  <1>4. PICK f \in Files(l) : \E in \in Inputs(l, Picked(l, f)) :
          \/ /\ in[2] = {} /\ \E g \in Files(l) : in[1] = {g}
             /\ Apply(in[1], l + 1, in[1])
             /\ UNCHANGED compaction
          \/ compaction' = Started(l, in, 0) /\ UNCHANGED version
    BY <1>3
  <1>5. PICK in \in Inputs(l, Picked(l, f)) :
          \/ /\ in[2] = {} /\ \E g \in Files(l) : in[1] = {g}
             /\ Apply(in[1], l + 1, in[1])
             /\ UNCHANGED compaction
          \/ compaction' = Started(l, in, 0) /\ UNCHANGED version
    BY <1>4
  <1>6. \A h \in Files(l) \ in[1] : Newer(h, UNION in[1])
    BY InputsNewer
  <1>7. l \in 0 .. NumLevels - 1
    BY Levels
  <1>8. CASE /\ in[2] = {} /\ \E g \in Files(l) : in[1] = {g}
             /\ Apply(in[1], l + 1, in[1])
             /\ UNCHANGED compaction
    <2> DEFINE A == in[1]
    <2>1. A \subseteq Files(l) /\ Apply(A \cup {}, l + 1, A) /\ A \subseteq File
      <3>1. A \subseteq Files(l) /\ A \cup {} = A /\ Apply(A, l + 1, A)
        BY <1>8
      <3>2. QED
        BY <1>1, <1>7, <3>1, FilesAre
    <2>2. \A h \in Files(l) \ A : Newer(h, UNION A)
      BY <1>6
    <2> HIDE DEF A
    <2>3. {} \subseteq Files(l + 1) /\ UNION A \subseteq UNION (A \cup {})
      OBVIOUS
    <2>4. NewestInv'
      BY <1>1, <1>2, <2>1, <2>2, <2>3, ApplyNewest
    <2>5. QED
      BY <1>2, <1>8, <2>4 DEF AboveInv
  <1>9. CASE compaction' = Started(l, in, 0) /\ UNCHANGED version
    <2>1. Files(l)' = Files(l)
      BY <1>7, <1>9, SameFiles
    <2>2. NewestInv'
      <3>1. Newer(mem', imm') /\ \A g \in AllFiles : Newer(mem', g) /\ Newer(imm', g)
        BY <1>1, <1>2 DEF NewestInv
      <3>2. QED
        BY <1>1, <1>9, <3>1, NewestSame
    <2>3. compaction'.level = l /\ compaction'.in = in
      BY <1>9 DEF Started
    <2>4. AboveInv'
      BY <1>6, <2>1, <2>3 DEF AboveInv, Newer
    <2>5. QED
      BY <2>2, <2>4
  <1>10. QED
    BY <1>5, <1>8, <1>9

LEMMA OrderStep ==
  ASSUME NoRange, Undivided, OrderInv, [Next]_vars
  PROVE  OrderInv'
  <1>0. BaseInv /\ NewestInv /\ AboveInv
    BY DEF OrderInv, LevelInv
  <1>1. LevelInv'
    BY LevelStep DEF OrderInv
  <1>2. CASE UNCHANGED <<memtables, version, compaction>>
    BY <1>0, <1>1, <1>2, OtherNewest DEF OrderInv
  <1>3. CASE CompactMemTable
    BY <1>1, <1>3, FlushNewest DEF OrderInv
  <1>4. CASE PickCompaction
    BY <1>1, <1>4, PickNewest DEF OrderInv
  <1>5. CASE DoCompactionWork
    BY <1>1, <1>5, WorkNewest DEF OrderInv
  <1>6. ASSUME NEW lo \in Keys, NEW hi \in Keys, CompactRange(lo, hi)
        PROVE  UNCHANGED <<memtables, version, compaction>>
    BY <1>6 DEF CompactRange
  <1>7. ~ManualCompaction
    BY DEF ManualCompaction, OrderInv, LevelInv, ManualOff
  <1>8. ASSUME NEW k \in Keys, NEW del \in Deletions, Write(k, del)
        PROVE  OrderInv'
    BY <1>0, <1>1, <1>8, WriteNewest DEF OrderInv
  <1>9. ASSUME NEW s \in snapshots, ReleaseSnapshot(s)
        PROVE  UNCHANGED <<memtables, version, compaction>>
    BY <1>9 DEF ReleaseSnapshot
  <1>10. GetSnapshot \/ UNCHANGED vars => UNCHANGED <<memtables, version, compaction>>
    BY DEF GetSnapshot, vars
  <1>11. CASE SwitchMemtable
    BY <1>0, <1>1, <1>11, SwitchNewest DEF OrderInv
  <1>12. QED
    BY <1>2, <1>3, <1>4, <1>5, <1>6, <1>7, <1>8, <1>9, <1>10, <1>11 DEF Next

\* r is s, of k elements, followed by t, of n.
IsJoined(r, s, t, k, n) == /\ Len(r) = k + n
                           /\ \A i \in 1 .. k : r[i] = s[i]
                           /\ \A i \in 1 .. n : r[i + k] = t[i]

LEMMA Joined ==
  ASSUME NEW S, NEW s \in Seq(S), NEW t \in Seq(S)
  PROVE  s \o t \in Seq(S) /\ IsJoined(s \o t, s, t, Len(s), Len(t))
  <1> DEFINE k == Len(s)
             n == Len(t)
  <1>0. k \in Nat /\ n \in Nat
    OBVIOUS
  <1>1. /\ s \o t \in Seq(S)
        /\ Len(s \o t) = k + n
        /\ \A i \in 1 .. k + n : (s \o t)[i] = IF i <= k THEN s[i] ELSE t[i - k]
    BY ConcatProperties
  <1> HIDE DEF k, n
  <1>2. ASSUME NEW i \in 1 .. k PROVE (s \o t)[i] = s[i]
    BY <1>0, <1>1
  <1>3. ASSUME NEW i \in 1 .. n PROVE (s \o t)[i + k] = t[i]
    <2>1. i + k \in 1 .. k + n /\ ~(i + k <= k) /\ (i + k) - k = i
      BY <1>0
    <2>2. QED
      BY <1>1, <2>1
  <1>4. QED
    BY <1>1, <1>2, <1>3 DEF IsJoined, k, n

\* The places a read looks in, from the top.
LEMMA LayersAre ==
  ASSUME TypeOK
  PROVE  LET n == Len(level0) IN
         /\ n \in Nat /\ DOMAIN Layers = 1 .. n + NumLevels + 1
         /\ Layers[1] = mem /\ Layers[2] = imm
         /\ \A i \in 1 .. n : Layers[i + 2] = level0[n + 1 - i]
         /\ \A i \in 1 .. NumLevels - 1 : Layers[i + n + 2] = UNION deeper[i]
  <1> DEFINE n == Len(level0)
             top == <<mem, imm>>
             middle == Reverse(level0)
             bottom == [l \in 1 .. NumLevels - 1 |-> UNION deeper[l]]
             Place == SUBSET Entry
  <1>1. level0 \in Seq(File) /\ n \in Nat /\ NumLevels \in Nat /\ NumLevels > 1
    BY LevelAssumption DEF TypeOK
  <1>2. middle = [i \in 1 .. n |-> level0[n - i + 1]]
    BY DEF Reverse
  <1>3. \A i \in 1 .. n : n - i + 1 \in 1 .. n /\ n - i + 1 = n + 1 - i
    BY <1>1
  <1>4. \A i \in 1 .. n : level0[n - i + 1] \in Place
    BY <1>1, <1>3 DEF File
  <1>5. middle \in Seq(Place) /\ Len(middle) = n
    BY <1>1, <1>2, <1>4, IsASeq
  <1>6. bottom \in Seq(Place) /\ Len(bottom) = NumLevels - 1
    <2>1. \A l \in 1 .. NumLevels - 1 : UNION deeper[l] \in Place
      BY DEF TypeOK, File
    <2>2. NumLevels - 1 \in Nat
      BY <1>1
    <2>3. QED
      BY <2>1, <2>2, IsASeq
  <1>7. top \in Seq(Place) /\ Len(top) = 2 /\ top[1] = mem /\ top[2] = imm
    BY DEF TypeOK
  <1>8. Layers = (top \o middle) \o bottom
    BY DEF Layers
  <1>9. /\ \A i \in 1 .. n : middle[i] = level0[n + 1 - i]
        /\ \A i \in 1 .. NumLevels - 1 : bottom[i] = UNION deeper[i]
    BY <1>2, <1>3
  <1> HIDE DEF middle, bottom, top, n, Place
  <1> DEFINE upper == top \o middle
  <1>10. /\ upper \in Seq(Place) /\ Len(upper) = n + 2
         /\ upper[1] = mem /\ upper[2] = imm /\ \A i \in 1 .. n : upper[i + 2] = middle[i]
    <2>0. upper \in Seq(Place) /\ IsJoined(upper, top, middle, 2, n)
      <3>1. upper \in Seq(Place) /\ IsJoined(upper, top, middle, Len(top), Len(middle))
        BY <1>5, <1>7, Joined
      <3>2. QED
        BY <1>5, <1>7, <3>1
    <2>1. /\ Len(upper) = 2 + n
          /\ \A i \in 1 .. 2 : upper[i] = top[i]
          /\ \A i \in 1 .. n : upper[i + 2] = middle[i]
      BY <2>0 DEF IsJoined
    <2>2. 1 \in 1 .. 2 /\ 2 \in 1 .. 2 /\ 2 + n = n + 2
      BY <1>1
    <2> HIDE DEF upper
    <2>3. QED
      BY <1>7, <2>0, <2>1, <2>2
  <1> HIDE DEF upper
  <1>11. /\ Len(upper \o bottom) = n + NumLevels + 1
         /\ upper \o bottom \in Seq(Place)
         /\ \A i \in 1 .. n + 2 : (upper \o bottom)[i] = upper[i]
         /\ \A i \in 1 .. NumLevels - 1 : (upper \o bottom)[i + n + 2] = bottom[i]
    <2> DEFINE both == upper \o bottom
               b == NumLevels - 1
    <2>1. b \in Nat /\ n + 2 \in Nat /\ (n + 2) + b = n + NumLevels + 1 /\ Len(bottom) = b
          /\ \A i \in 1 .. b : i + (n + 2) = i + n + 2
      BY <1>1, <1>6
    <2> HIDE DEF b
    <2>3. both \in Seq(Place) /\ IsJoined(both, upper, bottom, n + 2, b)
      <3>1. both \in Seq(Place) /\ IsJoined(both, upper, bottom, Len(upper), Len(bottom))
        BY <1>6, <1>10, Joined
      <3>2. QED
        BY <1>10, <2>1, <3>1
    <2> HIDE DEF both
    <2>2. /\ Len(both) = (n + 2) + b
          /\ \A i \in 1 .. n + 2 : both[i] = upper[i]
          /\ \A i \in 1 .. b : both[i + (n + 2)] = bottom[i]
      BY <2>3 DEF IsJoined
    <2>4. QED
      BY <2>1, <2>2, <2>3 DEF both, b
  <1>12. Layers = upper \o bottom
    BY <1>8 DEF upper
  <1>13. DOMAIN Layers = 1 .. n + NumLevels + 1
    BY <1>11, <1>12
  <1>14. Layers[1] = mem /\ Layers[2] = imm
    BY <1>1, <1>10, <1>11, <1>12
  <1>15. \A i \in 1 .. n : Layers[i + 2] = level0[n + 1 - i]
    BY <1>1, <1>9, <1>10, <1>11, <1>12
  <1>16. \A i \in 1 .. NumLevels - 1 : Layers[i + n + 2] = UNION deeper[i]
    BY <1>9, <1>11, <1>12
  <1>17. QED
    BY <1>1, <1>13, <1>14, <1>15, <1>16 DEF n


LEMMA NewestMeansAbove ==
  ASSUME TypeOK, NewestInv
  PROVE  NewestAbove
  <1> DEFINE n == Len(level0)
             lay == Layers
             top == NumLevels - 1
  <1>1. /\ n \in Nat /\ DOMAIN lay = 1 .. n + NumLevels + 1
        /\ lay[1] = mem /\ lay[2] = imm
        /\ \A i \in 1 .. n : lay[i + 2] = level0[n + 1 - i]
        /\ \A i \in 1 .. NumLevels - 1 : lay[i + n + 2] = UNION deeper[i]
    BY LayersAre
  <1>2. NumLevels \in Nat /\ NumLevels > 1 /\ top \in Nat
    BY LevelAssumption
  <1>3. \A i \in 1 .. n : n + 1 - i \in DOMAIN level0
    BY <1>1 DEF TypeOK
  <1>4. \A i \in 1 .. n : level0[i] \in Files(0)
    BY <1>1, FilesAre DEF TypeOK, ToSet
  <1>5. \A l \in 1 .. top : Files(l) = deeper[l] /\ l \in 0 .. NumLevels - 1
    BY <1>2, FilesAre
  <1>6. \A l \in 0 .. NumLevels - 1 : \A f \in Files(l) : f \in AllFiles
    BY Levels
  <1> HIDE DEF n, lay, top
  <1>7. ASSUME NEW i \in DOMAIN lay
        PROVE  \/ i = 1 /\ lay[i] = mem
               \/ i = 2 /\ lay[i] = imm
               \/ \E a \in 1 .. n : i = a + 2 /\ lay[i] = level0[n + 1 - a]
               \/ \E a \in 1 .. top : i = a + n + 2 /\ lay[i] = UNION Files(a)
    <2>1. CASE i = 1 \/ i = 2
      BY <1>1, <2>1
    <2>2. CASE i \in 3 .. n + 2
      <3>1. i - 2 \in 1 .. n /\ i = (i - 2) + 2
        BY <1>1, <2>2
      <3>2. QED
        BY <1>1, <3>1
    <2>3. CASE i \in n + 3 .. n + NumLevels + 1
      <3>1. i - n - 2 \in 1 .. top /\ i = (i - n - 2) + n + 2
        BY <1>1, <1>2, <2>3 DEF top
      <3>2. QED
        BY <1>1, <1>5, <3>1 DEF top
    <2>4. i = 1 \/ i = 2 \/ i \in 3 .. n + 2 \/ i \in n + 3 .. n + NumLevels + 1
      BY <1>1, <1>2
    <2>5. QED
      BY <2>1, <2>2, <2>3, <2>4
  <1>8. ASSUME NEW i \in DOMAIN lay, NEW j \in DOMAIN lay, i < j
        PROVE  Newer(lay[i], lay[j])
    <2>1. i \in Nat /\ j \in Nat /\ i >= 1
      BY <1>1, <1>2
    <2>2. CASE i = 1 \/ i = 2
      <3>1. \A x \in AllFiles : Newer(mem, x) /\ Newer(imm, x)
        BY DEF NewestInv
      <3>2. Newer(lay[i], imm) \/ i = 2
        BY <1>1, <2>2 DEF NewestInv
      <3>3. lay[i] = mem \/ lay[i] = imm
        BY <1>1, <2>2
      <3>4. \A x \in AllFiles : Newer(lay[i], x)
        BY <3>1, <3>3
      <3>5. j # 1
        BY <1>8, <2>1
      <3>6. CASE j = 2
        BY <1>1, <1>8, <3>2, <3>6, <2>1
      <3>7. CASE \E a \in 1 .. n : lay[j] = level0[n + 1 - a]
        <4>1. PICK a \in 1 .. n : lay[j] = level0[n + 1 - a]
          BY <3>7
        <4>2. n + 1 - a \in 1 .. n
          BY <1>1
        <4>3. lay[j] \in Files(0) /\ 0 \in 0 .. NumLevels - 1
          BY <1>2, <1>4, <4>1, <4>2
        <4>4. QED
          BY <1>6, <3>4, <4>3
      <3>8. CASE \E a \in 1 .. top : lay[j] = UNION Files(a)
        <4>1. PICK a \in 1 .. top : lay[j] = UNION Files(a)
          BY <3>8
        <4>2. \A f \in Files(a) : Newer(lay[i], f)
          BY <1>5, <1>6, <3>4
        <4>3. QED
          BY <4>1, <4>2 DEF Newer
      <3>9. QED
        BY <1>7, <3>5, <3>6, <3>7, <3>8
    <2>3. CASE \E a \in 1 .. n : i = a + 2 /\ lay[i] = level0[n + 1 - a]
      <3>1. PICK a \in 1 .. n : i = a + 2 /\ lay[i] = level0[n + 1 - a]
        BY <2>3
      <3>2. n + 1 - a \in 1 .. n /\ n + 1 - a \in DOMAIN level0
        BY <1>1, <1>3
      <3>3. lay[i] \in Files(0)
        BY <1>4, <3>1, <3>2
      <3>4. j > 2
        BY <1>1, <1>8, <2>1, <3>1
      <3>5. CASE \E b \in 1 .. n : j = b + 2 /\ lay[j] = level0[n + 1 - b]
        <4>1. PICK b \in 1 .. n : j = b + 2 /\ lay[j] = level0[n + 1 - b]
          BY <3>5
        <4>2. n + 1 - b \in DOMAIN level0 /\ n + 1 - b < n + 1 - a
          BY <1>1, <1>3, <1>8, <3>1, <4>1
        <4>3. Newer(level0[n + 1 - a], level0[n + 1 - b])
          BY <3>2, <4>2 DEF NewestInv
        <4>4. QED
          BY <3>1, <4>1, <4>3
      <3>6. CASE \E b \in 1 .. top : lay[j] = UNION Files(b)
        <4>1. PICK b \in 1 .. top : lay[j] = UNION Files(b)
          BY <3>6
        <4>2. 0 \in 0 .. NumLevels - 1 /\ b \in 0 .. NumLevels - 1 /\ 0 < b
          BY <1>2, <1>5
        <4>3. \A f \in Files(b) : Newer(lay[i], f)
          BY <3>3, <4>2 DEF NewestInv
        <4>4. QED
          BY <4>1, <4>3 DEF Newer
      <3>7. QED
        BY <1>7, <3>4, <3>5, <3>6
    <2>4. CASE \E a \in 1 .. top : i = a + n + 2 /\ lay[i] = UNION Files(a)
      <3>1. PICK a \in 1 .. top : i = a + n + 2 /\ lay[i] = UNION Files(a)
        BY <2>4
      <3>2. \E b \in 1 .. top : j = b + n + 2 /\ lay[j] = UNION Files(b)
        <4>1. j > n + 2
          BY <1>1, <1>2, <1>8, <2>1, <3>1
        <4>2. \A b \in 1 .. n : j # b + 2
          BY <1>1, <2>1, <4>1
        <4>3. QED
          BY <1>1, <1>7, <4>1, <4>2
      <3>3. PICK b \in 1 .. top : j = b + n + 2 /\ lay[j] = UNION Files(b)
        BY <3>2
      <3>4. a < b
        BY <1>1, <1>2, <1>8, <3>1, <3>3
      <3>5. a \in 0 .. NumLevels - 1 /\ b \in 0 .. NumLevels - 1
        BY <1>5
      <3>6. \A f \in Files(a), g \in Files(b) : Newer(f, g)
        BY <3>4, <3>5 DEF NewestInv
      <3>7. QED
        BY <3>1, <3>3, <3>6 DEF Newer
    <2>5. QED
      BY <1>7, <2>2, <2>3, <2>4
  <1>9. QED
    BY <1>8 DEF NewestAbove, Newer, lay

\* What a read finds further up is newer than what is further down, also with a
\* memtable flushed past level 0 and compactions that take more of their level.
THEOREM NewestSafe ==
  ASSUME NoRange, Undivided
  PROVE  Spec => []NewestAbove
  <1>1. Init => OrderInv
    BY InitBase, ApartInit, NewestInit DEF LevelInv, OrderInv
  <1>2. OrderInv /\ [Next]_vars => OrderInv'
    BY OrderStep
  <1>3. OrderInv => NewestAbove
    BY NewestMeansAbove DEF OrderInv, LevelInv, BaseInv
  <1>4. QED
    BY <1>1, <1>2, <1>3, PTL DEF Spec

-----------------------------------------------------------------------------
(* What a read returns.                                                    *)

\* The entries a read of k may see under s, and the write it must then return: the
\* newest of them, if that is not a deletion.
Visible(k, s) == {e \in Entries : e.key = k /\ e.seq <= s}
NewestIn(e, S) == e \in S /\ \A d \in S : d.seq <= e.seq
IsAnswer(v, k, s) == \/ v = 0 /\ Visible(k, s) = {}
                     \/ \E e \in Entries : NewestIn(e, Visible(k, s)) /\ v = IF e.del THEN 0 ELSE e.seq

\* The places a read looks in, numbered as Candidates does.
At(p, e) == \/ p = 1 /\ e \in mem
            \/ p = 2 /\ e \in imm
            \/ \E i \in DOMAIN level0 : p = 3 + Len(level0) - i /\ e \in level0[i]
            \/ \E l \in 1 .. NumLevels - 1 : p = 3 + Len(level0) + l /\ e \in UNION Files(l)

HitOf(p, e) == [place |-> p, seq |-> e.seq, del |-> e.del]

\* FindFile finds the file that has the key, if there is one.
LEMMA FoundIs ==
  ASSUME OrderInv, Undivided, NEW l \in 1 .. NumLevels - 1, NEW s \in Nat,
         NEW f \in Files(l), NEW e \in f, e.seq <= s
  PROVE  f \in FoundIn(l, e.key, s)
  <1> DEFINE k == e.key
  <1>1. BaseInv /\ ApartInv /\ FilesInv /\ TypeOK
    BY FilesOk DEF OrderInv, LevelInv, BaseInv
  <1>2. l \in 0 .. NumLevels - 1 /\ Files(l) = deeper[l]
    BY <1>1, LevelAssumption, FilesAre
  <1>3. \A g \in Files(l) : g \in AllFiles /\ g \subseteq Entry /\ g # {} /\ Distinct(g)
    BY <1>1, <1>2, Levels, FileOk
  <1>4. \A g \in Files(l) : /\ Largest(g) \in g /\ Largest(g) \in Entry
                            /\ \A d \in g \ {Largest(g)} : Precedes(d, Largest(g))
    BY <1>3, Ordered
  <1>5. e \in Entry /\ k \in Nat /\ e.seq \in Nat
    BY <1>3, EntryFields
  <1>6. From(f) <= k /\ k <= To(f) /\ To(f) \in Nat
    BY <1>3, FileRange
  <1>7. ~Ends(f, k, s)
    <2>1. ASSUME To(f) = k PROVE Largest(f).seq <= e.seq
      <3>1. e = Largest(f) \/ Precedes(e, Largest(f))
        BY <1>4
      <3>2. Largest(f).key = k /\ Largest(f).seq \in Nat
        BY <1>4, <2>1, EntryFields DEF To
      <3>3. QED
        BY <1>5, <3>1, <3>2 DEF Precedes
    <2>2. Largest(f).seq \in Nat
      BY <1>4, EntryFields
    <2> HIDE DEF k
    <2>3. QED
      BY <1>5, <1>6, <2>1, <2>2 DEF Ends
  <1>8. ASSUME NEW g \in deeper[l] \ {f} PROVE Ends(g, k, s) \/ Precedes(Largest(f), Largest(g))
    <2>1. Largest(f) \in f /\ Largest(g) \in g /\ Largest(f) \in Entry /\ Largest(g) \in Entry
      BY <1>2, <1>4, <1>8
    <2>2. CASE \A x \in f, y \in g : Before(x, y)
      BY <2>1, <2>2, Order
    <2>3. CASE \A x \in f, y \in g : Before(y, x)
      <3>1. Largest(g).key < k
        BY <1>5, <2>1, <2>3, Order DEF Undivided, Divides
      <3>2. QED
        BY <3>1 DEF Ends, To
    <2>4. Apart(f, g)
      BY <1>1, <1>2, <1>8 DEF ApartInv
    <2>5. QED
      BY <2>2, <2>3, <2>4 DEF Apart
  <1>9. QED
    BY <1>2, <1>6, <1>7, <1>8 DEF FoundIn

LEMMA HitsAre ==
  ASSUME NEW p, NEW S, NEW k, NEW s, NEW c
  PROVE  c \in Hits(p, S, k, s) <=> \E e \in S : e.key = k /\ e.seq <= s /\ c = HitOf(p, e)
  BY DEF Hits, HitOf

LEMMA EntryAt ==
  ASSUME TypeOK, NEW e \in Entries
  PROVE  \E p \in Nat : At(p, e)
  <1>1. CASE e \in mem \/ e \in imm
    BY <1>1 DEF At
  <1>2. ASSUME NEW f \in AllFiles, e \in f PROVE \E p \in Nat : At(p, e)
    <2>1. level0 \in Seq(File) /\ Len(level0) \in Nat /\ DOMAIN level0 = 1 .. Len(level0)
      BY DEF TypeOK
    <2>2. PICK l \in 0 .. NumLevels - 1 : f \in Files(l)
      BY DEF AllFiles
    <2>3. CASE l = 0
      <3>1. PICK i \in DOMAIN level0 : f = level0[i]
        BY <2>2, <2>3 DEF Files, ToSet
      <3>2. 3 + Len(level0) - i \in Nat
        BY <2>1
      <3>3. QED
        BY <1>2, <3>1, <3>2 DEF At
    <2>4. CASE l \in 1 .. NumLevels - 1
      <3>1. 3 + Len(level0) + l \in Nat /\ e \in UNION Files(l)
        BY <1>2, <2>1, <2>2, <2>4
      <3>2. QED
        BY <2>4, <3>1 DEF At
    <2>5. QED
      BY <2>2, <2>3, <2>4, LevelAssumption
  <1>3. QED
    BY <1>1, <1>2 DEF Entries

LEMMA AtIs ==
  ASSUME TypeOK, NEW p, NEW e, At(p, e)
  PROVE  e \in Entries /\ p \in Nat /\ p < Len(level0) + NumLevels + 3
  <1>1. /\ level0 \in Seq(File) /\ Len(level0) \in Nat /\ DOMAIN level0 = 1 .. Len(level0)
        /\ NumLevels \in Nat /\ NumLevels > 1
    BY LevelAssumption DEF TypeOK
  <1>2. CASE p = 1 /\ e \in mem
    BY <1>1, <1>2 DEF Entries
  <1>3. CASE p = 2 /\ e \in imm
    BY <1>1, <1>3 DEF Entries
  <1>4. ASSUME NEW i \in DOMAIN level0, p = 3 + Len(level0) - i, e \in level0[i]
        PROVE  e \in Entries /\ p \in Nat /\ p < Len(level0) + NumLevels + 3
    <2>1. level0[i] \in Files(0)
      BY DEF Files, ToSet
    <2>2. level0[i] \in AllFiles
      BY <2>1, Levels
    <2>3. QED
      BY <1>1, <1>4, <2>2 DEF Entries
  <1>5. ASSUME NEW l \in 1 .. NumLevels - 1, p = 3 + Len(level0) + l, e \in UNION Files(l)
        PROVE  e \in Entries /\ p \in Nat /\ p < Len(level0) + NumLevels + 3
    <2>1. l \in 0 .. NumLevels - 1
      BY <1>1
    <2>2. Files(l) \subseteq AllFiles
      BY <2>1, Levels
    <2>3. QED
      BY <1>1, <1>5, <2>2 DEF Entries
  <1>6. QED
    BY <1>2, <1>3, <1>4, <1>5 DEF At

LEMMA CandidatesAre ==
  ASSUME OrderInv, Undivided, NEW k \in Keys, NEW s \in Nat
  PROVE  /\ NoHit \in Candidates(k, s)
         /\ \A c \in Candidates(k, s) :
              c = NoHit \/ \E e \in Visible(k, s) : \E p \in Nat : At(p, e) /\ c = HitOf(p, e)
         /\ \A e \in Visible(k, s) : \A p \in Nat : At(p, e) => HitOf(p, e) \in Candidates(k, s)
  <1> DEFINE n == Len(level0)
             C == Candidates(k, s)
  <1>1. TypeOK
    BY DEF OrderInv, LevelInv, BaseInv
  <1> DEFINE One == Hits(1, mem, k, s)
             Two == Hits(2, imm, k, s)
             First(i) == Hits(3 + n - i, level0[i], k, s)
             Other(l) == Hits(3 + n + l, UNION FoundIn(l, k, s), k, s)
             Firsts == {First(i) : i \in DOMAIN level0}
             Others == {Other(l) : l \in 1 .. NumLevels - 1}
  <1>2. C = One \cup Two \cup (UNION Firsts) \cup (UNION Others) \cup {NoHit}
    BY DEF Candidates
  <1>b. /\ \A x : x \in Firsts <=> \E i \in DOMAIN level0 : x = First(i)
        /\ \A y : y \in Others <=> \E l \in 1 .. NumLevels - 1 : y = Other(l)
    <2> HIDE DEF First, Other
    <2>1. QED
      OBVIOUS
  <1> HIDE DEF One, Two, First, Other, Firsts, Others
  <1>a. \A c : c \in C <=>
          \/ c \in One \/ c \in Two \/ c = NoHit
          \/ \E i \in DOMAIN level0 : c \in First(i)
          \/ \E l \in 1 .. NumLevels - 1 : c \in Other(l)
    <2> HIDE DEF C
    <2>1. \A c : c \in C <=>
            \/ c \in One \/ c \in Two \/ c = NoHit
            \/ \E x \in Firsts : c \in x
            \/ \E y \in Others : c \in y
      BY <1>2
    <2>2. QED
      BY <1>b, <2>1
  <1>3. \A l \in 1 .. NumLevels - 1 : Files(l) = deeper[l]
    BY <1>1, FilesAre
  <1> HIDE DEF C, n
  <1>4. ASSUME NEW p, NEW e, At(p, e), e.key = k, e.seq <= s
        PROVE  e \in Visible(k, s) /\ p \in Nat
    BY <1>1, <1>4, AtIs DEF Visible
  <1>5. ASSUME NEW c \in C, c # NoHit
        PROVE  \E e \in Visible(k, s) : \E p \in Nat : At(p, e) /\ c = HitOf(p, e)
    <2>1. CASE c \in Hits(1, mem, k, s)
      <3>1. PICK e \in mem : e.key = k /\ e.seq <= s /\ c = HitOf(1, e)
        BY <2>1, HitsAre
      <3>2. At(1, e)
        BY DEF At
      <3>3. QED
        BY <1>4, <3>1, <3>2
    <2>2. CASE c \in Hits(2, imm, k, s)
      <3>1. PICK e \in imm : e.key = k /\ e.seq <= s /\ c = HitOf(2, e)
        BY <2>2, HitsAre
      <3>2. At(2, e)
        BY DEF At
      <3>3. QED
        BY <1>4, <3>1, <3>2
    <2>3. ASSUME NEW i \in DOMAIN level0, c \in Hits(3 + n - i, level0[i], k, s)
          PROVE  \E e \in Visible(k, s) : \E p \in Nat : At(p, e) /\ c = HitOf(p, e)
      <3>1. PICK e \in level0[i] : e.key = k /\ e.seq <= s /\ c = HitOf(3 + n - i, e)
        BY <2>3, HitsAre
      <3>2. At(3 + n - i, e)
        BY DEF At, n
      <3>3. QED
        BY <1>4, <3>1, <3>2
    <2>4. ASSUME NEW l \in 1 .. NumLevels - 1, c \in Hits(3 + n + l, UNION FoundIn(l, k, s), k, s)
          PROVE  \E e \in Visible(k, s) : \E p \in Nat : At(p, e) /\ c = HitOf(p, e)
      <3>1. PICK e \in UNION FoundIn(l, k, s) : e.key = k /\ e.seq <= s /\ c = HitOf(3 + n + l, e)
        BY <2>4, HitsAre
      <3>2. e \in UNION Files(l)
        BY <1>3 DEF FoundIn
      <3>3. At(3 + n + l, e)
        BY <3>2 DEF At, n
      <3>4. QED
        BY <1>4, <3>1, <3>3
    <2>5. \/ c \in Hits(1, mem, k, s) \/ c \in Hits(2, imm, k, s)
          \/ \E i \in DOMAIN level0 : c \in Hits(3 + n - i, level0[i], k, s)
          \/ \E l \in 1 .. NumLevels - 1 : c \in Hits(3 + n + l, UNION FoundIn(l, k, s), k, s)
      <3>1. \/ c \in One \/ c \in Two
            \/ \E i \in DOMAIN level0 : c \in First(i)
            \/ \E l \in 1 .. NumLevels - 1 : c \in Other(l)
        BY <1>a, <1>5
      <3>2. QED
        BY <3>1 DEF One, Two, First, Other
    <2>6. QED
      BY <2>1, <2>2, <2>3, <2>4, <2>5
  <1>6. ASSUME NEW e \in Visible(k, s), NEW p \in Nat, At(p, e)
        PROVE  HitOf(p, e) \in C
    <2>1. e.key = k /\ e.seq <= s
      BY DEF Visible
    <2>2. CASE p = 1 /\ e \in mem
      <3>1. HitOf(p, e) \in One
        BY <2>1, <2>2, HitsAre DEF One
      <3>2. QED
        BY <1>a, <3>1
    <2>3. CASE p = 2 /\ e \in imm
      <3>1. HitOf(p, e) \in Two
        BY <2>1, <2>3, HitsAre DEF Two
      <3>2. QED
        BY <1>a, <3>1
    <2>4. ASSUME NEW i \in DOMAIN level0, p = 3 + n - i, e \in level0[i]
          PROVE  HitOf(p, e) \in C
      <3>1. HitOf(p, e) \in First(i)
        BY <2>1, <2>4, HitsAre DEF First
      <3>2. QED
        BY <1>a, <3>1
    <2>5. ASSUME NEW l \in 1 .. NumLevels - 1, p = 3 + n + l, e \in UNION Files(l)
          PROVE  HitOf(p, e) \in C
      <3>1. PICK f \in Files(l) : e \in f
        BY <2>5
      <3>2. f \in FoundIn(l, k, s)
        BY <2>1, <3>1, FoundIs
      <3>3. e \in UNION FoundIn(l, k, s)
        BY <3>1, <3>2
      <3>4. HitOf(p, e) \in Other(l)
        BY <2>1, <2>5, <3>3, HitsAre DEF Other
      <3>5. QED
        BY <1>a, <3>4
    <2>6. QED
      BY <1>6, <2>2, <2>3, <2>4, <2>5 DEF At, n
  <1>7. NoHit \in C
    BY <1>a
  <1>8. QED
    BY <1>5, <1>6, <1>7 DEF C

\* An entry of a key found further up is newer.
LEMMA AtNewer ==
  ASSUME TypeOK, NewestInv, NEW p, NEW e, At(p, e), NEW q, NEW d, At(q, d), p < q, e.key = d.key
  PROVE  e.seq > d.seq
  <1> DEFINE n == Len(level0)
  <1>1. /\ level0 \in Seq(File) /\ n \in Nat /\ DOMAIN level0 = 1 .. n
        /\ NumLevels \in Nat /\ NumLevels > 1
    BY LevelAssumption DEF TypeOK
  <1>2. \A i \in DOMAIN level0 : level0[i] \in Files(0) /\ level0[i] \in AllFiles
    <2>1. \A i \in DOMAIN level0 : level0[i] \in Files(0)
      BY DEF Files, ToSet
    <2>2. QED
      BY <2>1, Levels
  <1>3. \A l \in 1 .. NumLevels - 1 : Files(l) \subseteq AllFiles /\ l \in 0 .. NumLevels - 1
    BY <1>1, Levels
  <1>4. \/ d \in mem /\ q = 1
        \/ d \in imm /\ q = 2
        \/ q > 2 /\ \E g \in AllFiles : d \in g
    BY <1>1, <1>2, <1>3 DEF At
  <1>5. \/ e \in mem /\ p = 1
        \/ e \in imm /\ p = 2
        \/ p > 2 /\ \E i \in DOMAIN level0 : p = 3 + n - i /\ e \in level0[i]
        \/ p > 2 /\ \E l \in 1 .. NumLevels - 1 : p = 3 + n + l /\ e \in UNION Files(l)
    BY <1>1 DEF At
  <1>6. CASE e \in mem /\ p = 1
    BY <1>4, <1>6 DEF NewestInv, Newer
  <1>7. CASE e \in imm /\ p = 2
    BY <1>4, <1>7 DEF NewestInv, Newer
  <1>8. ASSUME p > 2
        PROVE  \/ \E j \in DOMAIN level0 : q = 3 + n - j /\ d \in level0[j]
               \/ \E m \in 1 .. NumLevels - 1 : q = 3 + n + m /\ d \in UNION Files(m)
    <2>1. p \in Nat /\ q \in Nat
      BY AtIs
    <2>2. q # 1 /\ q # 2
      BY <1>8, <2>1
    <2>3. QED
      BY <2>2 DEF At
  <1> HIDE DEF n
  <1>9. ASSUME p > 2, NEW i \in DOMAIN level0, p = 3 + n - i, e \in level0[i]
        PROVE  e.seq > d.seq
    <2>1. ASSUME NEW j \in DOMAIN level0, q = 3 + n - j, d \in level0[j]
          PROVE  e.seq > d.seq
      <3>1. j < i
        BY <1>1, <1>9, <2>1
      <3>2. QED
        BY <1>9, <2>1, <3>1 DEF NewestInv, Newer
    <2>2. ASSUME NEW m \in 1 .. NumLevels - 1, d \in UNION Files(m)
          PROVE  e.seq > d.seq
      <3>1. 0 \in 0 .. NumLevels - 1 /\ m \in 0 .. NumLevels - 1 /\ 0 < m
        BY <1>1
      <3>2. \A f \in Files(0), g \in Files(m) : Newer(f, g)
        BY <3>1 DEF NewestInv
      <3>3. QED
        BY <1>2, <1>9, <2>2, <3>2 DEF Newer
    <2>3. QED
      BY <1>8, <1>9, <2>1, <2>2
  <1>10. ASSUME p > 2, NEW l \in 1 .. NumLevels - 1, p = 3 + n + l, e \in UNION Files(l)
         PROVE  e.seq > d.seq
    <2>1. \A j \in DOMAIN level0 : q # 3 + n - j
      BY <1>1, <1>10
    <2>2. PICK m \in 1 .. NumLevels - 1 : q = 3 + n + m /\ d \in UNION Files(m)
      BY <1>8, <1>10, <2>1
    <2>3. l < m /\ l \in 0 .. NumLevels - 1 /\ m \in 0 .. NumLevels - 1
      BY <1>1, <1>10, <2>2
    <2>4. \A f \in Files(l), g \in Files(m) : Newer(f, g)
      BY <2>3 DEF NewestInv
    <2>5. QED
      BY <1>10, <2>2, <2>4 DEF Newer
  <1>11. QED
    BY <1>5, <1>6, <1>7, <1>9, <1>10

\* Get returns what it must.
LEMMA NewestExists ==
  ASSUME NEW S, S \subseteq Entry, S # {}
  PROVE  \E e \in S : NewestIn(e, S)
  <1> DEFINE D == {MaxWrites - e.seq : e \in S}
  <1>1. \A e \in S : e.seq \in Nat /\ e.seq <= MaxWrites
    BY EntryFields
  <1>2. PICK d \in D : \A c \in D : d <= c
    <2>1. D \subseteq Nat /\ D # {}
      BY <1>1, Bounds
    <2> HIDE DEF D
    <2>2. QED
      BY <2>1, LeastNatural
  <1>3. PICK e \in S : d = MaxWrites - e.seq
    OBVIOUS
  <1>4. ASSUME NEW x \in S PROVE x.seq <= e.seq
    <2>1. MaxWrites - e.seq <= MaxWrites - x.seq
      BY <1>2, <1>3
    <2>2. QED
      BY <1>1, <2>1, Bounds
  <1>5. QED
    BY <1>4 DEF NewestIn

LEMMA GetIs ==
  ASSUME OrderInv, Undivided, NEW k \in Keys, NEW s \in Nat
  PROVE  IsAnswer(Get(k, s), k, s)
  <1> DEFINE C == Candidates(k, s)
             V == Visible(k, s)
             Before1(c, S) == \A d \in S \ {c} : c.place < d.place \/ (c.place = d.place /\ c.seq > d.seq)
  <1>1. TypeOK /\ NumberInv /\ NewestInv
    BY DEF OrderInv, LevelInv, BaseInv
  <1>2. V \subseteq Entries /\ V \subseteq Entry /\ \A e \in V : e.key = k
    BY <1>1, EntriesOk DEF Visible
  <1>3. /\ NoHit \in C
        /\ \A c \in C : c = NoHit \/ \E e \in V : \E p \in Nat : At(p, e) /\ c = HitOf(p, e)
        /\ \A e \in V : \A p \in Nat : At(p, e) => HitOf(p, e) \in C
    BY CandidatesAre
  <1>4. NoHit.place = Len(level0) + NumLevels + 3 /\ NoHit.seq = 0 /\ NoHit.del = FALSE
    BY DEF NoHit
  <1>5. FirstHit(C) = CHOOSE c \in C : Before1(c, C)
    BY DEF FirstHit
  <1>6. Get(k, s) = IF FirstHit(C).del THEN 0 ELSE FirstHit(C).seq
    BY DEF Get
  <1> HIDE DEF C, V
  <1>7. CASE V = {}
    <2>1. C = {NoHit}
      BY <1>3, <1>7
    <2>2. FirstHit(C) = NoHit
      BY <1>5, <2>1
    <2>3. QED
      BY <1>4, <1>6, <1>7, <2>2 DEF IsAnswer, V
  <1>8. CASE V # {}
    <2>1. PICK e \in V : NewestIn(e, V)
      BY <1>2, <1>8, NewestExists
    <2>2. PICK p \in Nat : At(p, e)
      BY <1>1, <1>2, EntryAt
    <2> DEFINE c == HitOf(p, e)
    <2>3. c \in C /\ c.place = p /\ c.seq = e.seq /\ c.del = e.del
      BY <1>3, <2>2 DEF HitOf
    <2>4. p < NoHit.place
      BY <1>1, <1>4, <2>2, AtIs
    <2>5. \A x \in V : x.seq \in Nat
      BY <1>2, EntryFields
    <2> HIDE DEF c
    <2>6. ASSUME NEW d \in C \ {c}
          PROVE  /\ c.place < d.place \/ (c.place = d.place /\ c.seq > d.seq)
                 /\ ~(d.place < c.place \/ (d.place = c.place /\ d.seq > c.seq))
      <3>1. CASE d = NoHit
        <4>1. NoHit.place \in Nat
          BY <1>1, <1>4, LevelAssumption DEF TypeOK
        <4>2. QED
          BY <2>3, <2>4, <3>1, <4>1
      <3>2. CASE d # NoHit
        <4>1. PICK x \in V : \E q \in Nat : At(q, x) /\ d = HitOf(q, x)
          BY <1>3, <2>6, <3>2
        <4>2. PICK q \in Nat : At(q, x) /\ d = HitOf(q, x)
          BY <4>1
        <4>3. d.place = q /\ d.seq = x.seq
          BY <4>2 DEF HitOf
        <4>4. x.seq <= e.seq
          BY <2>1 DEF NewestIn
        <4>5. ASSUME q < p PROVE FALSE
          <5>1. x.seq > e.seq
            BY <1>1, <1>2, <2>2, <4>2, <4>5, AtNewer
          <5>2. QED
            BY <2>5, <4>4, <5>1
        <4>6. ASSUME q = p PROVE x.seq < e.seq
          <5>1. x # e
            BY <2>6, <4>2, <4>6 DEF c
          <5>2. x.seq # e.seq
            BY <1>1, <1>2, <5>1 DEF NumberInv, Numbered
          <5>3. QED
            BY <2>5, <4>4, <5>2
        <4>7. QED
          BY <2>3, <2>5, <4>3, <4>5, <4>6
      <3>3. QED
        BY <3>1, <3>2
    <2>7. Before1(c, C)
      BY <2>6
    <2>8. ASSUME NEW d \in C, Before1(d, C) PROVE d = c
      <3>1. ASSUME d # c
            PROVE  d.place < c.place \/ (d.place = c.place /\ d.seq > c.seq)
        BY <2>3, <2>8, <3>1
      <3>2. QED
        BY <2>6, <3>1
    <2> HIDE DEF Before1
    <2>9. FirstHit(C) = c
      BY <1>5, <2>3, <2>7, <2>8
    <2>10. Get(k, s) = IF e.del THEN 0 ELSE e.seq
      BY <1>6, <2>3, <2>9
    <2>11. QED
      BY <1>2, <2>1, <2>10 DEF IsAnswer, V
  <1>9. QED
    BY <1>7, <1>8

LEMMA AnswerOnce ==
  ASSUME TypeOK, NumberInv, NEW k, NEW s, NEW v, IsAnswer(v, k, s), NEW w, IsAnswer(w, k, s)
  PROVE  v = w /\ v \in 0 .. MaxWrites
  <1>1. \A e \in Entries : e \in Entry
    BY EntriesOk
  <1>2. CASE Visible(k, s) = {}
    BY <1>2, Bounds DEF IsAnswer, NewestIn
  <1>3. CASE Visible(k, s) # {}
    <2>1. PICK e \in Entries : NewestIn(e, Visible(k, s)) /\ v = IF e.del THEN 0 ELSE e.seq
      BY <1>3 DEF IsAnswer
    <2>2. PICK d \in Entries : NewestIn(d, Visible(k, s)) /\ w = IF d.del THEN 0 ELSE d.seq
      BY <1>3 DEF IsAnswer
    <2>3. e.seq <= d.seq /\ d.seq <= e.seq
      BY <2>1, <2>2 DEF NewestIn
    <2>4. e.seq \in Nat /\ d.seq \in Nat /\ e.seq <= MaxWrites
      BY <1>1, EntryFields
    <2>5. e = d
      BY <2>3, <2>4 DEF NumberInv, Numbered
    <2>6. QED
      BY <2>1, <2>2, <2>4, <2>5, Bounds
  <1>4. QED
    BY <1>2, <1>3

-----------------------------------------------------------------------------
(* No step but a write changes what a read returns.                        *)

\* A key that a compaction thinks has nothing further down has nothing there.
CoveredInv ==
  compaction # None =>
    \A j \in compaction.level + 2 .. NumLevels - 1 : \A f \in Files(j) : \A d \in f, e \in Merged :
      e.key = d.key => e.key \in compaction.covered

StoreInv == OrderInv /\ CoveredInv

LEMMA CoveredSame ==
  ASSUME BaseInv, CoveredInv, UNCHANGED <<version, compaction>>
  PROVE  CoveredInv'
  <1>1. \A l \in 0 .. NumLevels - 1 : Files(l)' = Files(l)
    BY SameFiles
  <1>2. Merged' = Merged
    BY DEF Merged, Taking
  <1>3. compaction # None => compaction.level \in Nat
    BY LevelAssumption DEF BaseInv, TypeOK
  <1>4. compaction # None => \A j \in compaction.level + 2 .. NumLevels - 1 : j \in 0 .. NumLevels - 1
    BY <1>3, LevelAssumption
  <1>5. QED
    BY <1>1, <1>2, <1>4 DEF CoveredInv

LEMMA PickCovered ==
  ASSUME OrderInv, PickCompaction
  PROVE  CoveredInv'
  <1>1. BaseInv /\ FilesInv /\ TypeOK
    BY FilesOk DEF OrderInv, LevelInv, BaseInv
  <1>2. CASE compaction' = None
    BY <1>2 DEF CoveredInv
  <1>3. ASSUME NEW l \in 0 .. NumLevels - 2, NEW in, compaction' = Started(l, in, 0), UNCHANGED version
        PROVE  CoveredInv'
    <2>1. compaction'.level = l /\ compaction'.covered = Covered(l)
      BY <1>3 DEF Started
    <2>2. ASSUME NEW j \in l + 2 .. NumLevels - 1, NEW f \in Files(j), NEW d \in f
          PROVE  d.key \in Covered(l)
      <3>1. j \in 0 .. NumLevels - 1 /\ j \in 1 .. NumLevels - 1
        BY <2>2, LevelAssumption
      <3>2. f \in deeper[j] /\ f \in AllFiles
        BY <1>1, <3>1, FilesAre, Levels
      <3>3. f \subseteq Entry /\ f # {} /\ Distinct(f) /\ d \in Entry
        BY <1>1, <3>2, FileOk
      <3>4. From(f) <= d.key /\ d.key <= To(f) /\ To(f) \in Nat
        BY <3>3, FileRange
      <3>5. d.key \in Nat /\ d.key \in Keys
        BY <3>3, EntryFields
      <3>6. Touches(f, d.key, d.key)
        BY <3>4, <3>5 DEF Touches
      <3>7. QED
        BY <3>2, <3>5, <3>6 DEF Covered
    <2>3. \A j \in l + 2 .. NumLevels - 1 : Files(j)' = Files(j)
      BY <1>3, SameFiles, LevelAssumption
    <2>4. QED
      BY <2>1, <2>2, <2>3 DEF CoveredInv
  <1>4. compaction = None
    BY <1>1, PickIs
  <1>5. QED
    BY <1>1, <1>2, <1>3, <1>4, PickIs

LEMMA FlushCovered ==
  ASSUME StoreInv, CompactMemTable
  PROVE  CoveredInv'
  <1>1. BaseInv /\ CoveredInv /\ TypeOK /\ ImmInv /\ CompInv
    BY DEF StoreInv, OrderInv, LevelInv, BaseInv
  <1>2. imm \in File
    BY <1>1, FlushIs
  <1>3. PICK l \in 0 .. NumLevels - 1 :
          /\ l \in PickLevel(imm)
          /\ Files(l)' = Files(l) \cup {imm}
          /\ \A j \in 0 .. NumLevels - 1 : j # l => Files(j)' = Files(j)
    BY <1>1, FlushIs
  <1>4. compaction' = compaction
    BY DEF CompactMemTable
  <1>5. Merged' = Merged
    BY <1>4 DEF Merged, Taking
  <1> DEFINE L == compaction.level
  <1>6. ASSUME compaction # None, NEW j \in L + 2 .. NumLevels - 1, NEW f \in Files(j)',
               NEW d \in f, NEW e \in Merged, e.key = d.key
        PROVE  e.key \in compaction.covered
    <2>1. L \in 0 .. NumLevels - 2 /\ L \in Nat /\ j \in 0 .. NumLevels - 1
      BY <1>1, <1>6, LevelAssumption DEF TypeOK
    <2>2. CASE f \in Files(j)
      BY <1>1, <1>6, <2>2 DEF CoveredInv
    <2>3. CASE f \notin Files(j)
      <3>1. j = l /\ f = imm
        BY <1>3, <1>6, <2>1, <2>3
      <3>2. PICK g \in Taking : e \in g
        BY DEF Merged
      <3>3. g \in Files(L) \/ g \in Files(L + 1)
        BY <1>1, <1>6 DEF CompInv, Taking
      <3>4. L \in 0 .. l /\ L + 1 \in 0 .. l /\ l # 0
        BY <1>6, <2>1, <3>1, LevelAssumption
      <3>5. /\ ~Touches(g, From(imm), To(imm))
            /\ g \subseteq Entry /\ g # {} /\ Distinct(g)
            /\ imm \subseteq Entry /\ imm # {} /\ Distinct(imm)
        BY <1>1, <1>2, <1>3, <3>3, <3>4, FlushFree
      <3>6. \A x \in g, y \in imm : x.key # y.key
        BY <3>5, Untouched
      <3>7. QED
        BY <1>6, <3>1, <3>2, <3>6
    <2>4. QED
      BY <2>2, <2>3
  <1>7. QED
    BY <1>4, <1>5, <1>6 DEF CoveredInv

LEMMA StoreStep ==
  ASSUME NoRange, Undivided, StoreInv, [Next]_vars
  PROVE  StoreInv'
  <1>0. BaseInv /\ CoveredInv
    BY DEF StoreInv, OrderInv, LevelInv
  <1>1. OrderInv'
    BY OrderStep DEF StoreInv
  <1>2. CASE UNCHANGED <<version, compaction>>
    BY <1>0, <1>1, <1>2, CoveredSame DEF StoreInv
  <1>3. CASE CompactMemTable
    BY <1>1, <1>3, FlushCovered DEF StoreInv
  <1>4. CASE PickCompaction
    BY <1>1, <1>4, PickCovered DEF StoreInv
  <1>5. CASE DoCompactionWork
    <2>1. compaction' = None
      BY <1>5 DEF DoCompactionWork
    <2>2. QED
      BY <1>1, <2>1 DEF StoreInv, CoveredInv
  <1>6. ASSUME NEW lo \in Keys, NEW hi \in Keys, CompactRange(lo, hi)
        PROVE  UNCHANGED <<version, compaction>>
    BY <1>6 DEF CompactRange
  <1>7. ~ManualCompaction
    BY DEF ManualCompaction, StoreInv, OrderInv, LevelInv, ManualOff
  <1>8. ASSUME NEW k \in Keys, NEW del \in Deletions, Write(k, del)
        PROVE  UNCHANGED <<version, compaction>>
    BY <1>8 DEF Write
  <1>9. ASSUME NEW s \in snapshots, ReleaseSnapshot(s)
        PROVE  UNCHANGED <<version, compaction>>
    BY <1>9 DEF ReleaseSnapshot
  <1>10. GetSnapshot \/ SwitchMemtable \/ UNCHANGED vars => UNCHANGED <<version, compaction>>
    BY DEF GetSnapshot, SwitchMemtable, vars
  <1>11. QED
    BY <1>2, <1>3, <1>4, <1>5, <1>6, <1>7, <1>8, <1>9, <1>10 DEF Next

\* What a compaction's end removes it dropped, and nothing of the like is elsewhere.
LEMMA WorkEntries ==
  ASSUME StoreInv, DoCompactionWork
  PROVE  /\ Entries' \subseteq Entries
         /\ \A e \in Entries \ Entries' : e \in Merged /\ Dropped(e, Merged)
         /\ \A e \in Entries' : \/ e \in mem \cup imm
                                \/ e \in Keeps
                                \/ \E j \in 0 .. NumLevels - 1 : \E h \in Files(j) \ Taking : e \in h
  <1>1. BaseInv
    BY DEF StoreInv, OrderInv, LevelInv
  <1>2. /\ compaction.level + 1 \in 1 .. NumLevels - 1
        /\ Merged \subseteq Entries /\ Keeps \subseteq Merged
        /\ UNCHANGED memtables
    BY <1>1, WorkIs
  <1>3. PICK new \in Outputs(Keeps) :
          /\ new \subseteq File /\ UNION new = Keeps
          /\ Apply(Taking, compaction.level + 1, new)
    BY <1>1, WorkIs
  <1>4. AllFiles' = (AllFiles \ Taking) \cup new
    <2>1. Edited(Taking, compaction.level + 1, new)
      BY <1>1, <1>2, <1>3, ApplyIs DEF BaseInv
    <2>2. QED
      BY <2>1 DEF Edited
  <1>5. mem' = mem /\ imm' = imm
    BY <1>2 DEF memtables
  <1>6. \A e : e \in Entries' <=> \/ e \in mem \cup imm \/ e \in Keeps
                                  \/ \E h \in AllFiles \ Taking : e \in h
    <2>1. \A e : e \in Entries' <=> \/ e \in mem \cup imm
                                    \/ \E h \in AllFiles' : e \in h
      BY <1>5 DEF Entries
    <2>2. \A e : e \in Keeps <=> \E h \in new : e \in h
      BY <1>3
    <2>3. QED
      BY <1>4, <2>1, <2>2
  <1>7. \A h \in AllFiles : \E j \in 0 .. NumLevels - 1 : h \in Files(j)
    BY DEF AllFiles
  <1>8. \A e : e \in Entries <=> e \in mem \cup imm \/ \E h \in AllFiles : e \in h
    BY DEF Entries
  <1>9. Entries' \subseteq Entries
    BY <1>2, <1>6, <1>8
  <1>10. ASSUME NEW e \in Entries \ Entries' PROVE e \in Merged /\ Dropped(e, Merged)
    <2>1. e \in Merged
      BY <1>6, <1>8, <1>10 DEF Merged
    <2>2. e \notin Keeps
      BY <1>6, <1>10
    <2>3. QED
      BY <2>1, <2>2 DEF Keeps
  <1>11. QED
    BY <1>6, <1>7, <1>9, <1>10

\* Nothing older of a key stays when a compaction drops its deletion as the last.
LEMMA NothingUnder ==
  ASSUME Undivided, StoreInv, DoCompactionWork,
         NEW e \in Merged, e.seq <= compaction.smallest, e.key \notin compaction.covered,
         NEW d \in Entries', d.key = e.key, d.seq < e.seq
  PROVE  FALSE
  <1> DEFINE L == compaction.level
  <1>1. /\ BaseInv /\ NewestInv /\ AboveInv /\ MergeInv /\ CoveredInv /\ CompInv /\ TypeOK
    BY DEF StoreInv, OrderInv, LevelInv, BaseInv
  <1>2. /\ compaction # None /\ L \in 0 .. NumLevels - 2 /\ L + 1 \in 1 .. NumLevels - 1
        /\ Merged \subseteq Entry /\ Taking \subseteq AllFiles /\ Keeps \subseteq Merged
    BY <1>1, WorkIs
  <1>3. PICK f \in Taking : e \in f
    BY DEF Merged
  <1>4. f \in AllFiles /\ (f \in compaction.in[1] \/ f \in compaction.in[2])
    BY <1>2, <1>3 DEF Taking
  <1>5. /\ compaction.in[1] \subseteq Files(L) /\ compaction.in[2] \subseteq Files(L + 1)
        /\ \A h \in Files(L) \ compaction.in[1] : Newer(h, UNION compaction.in[1])
        /\ \A g \in Files(L + 1) \ compaction.in[2] : Apart(g, Merged)
    BY <1>1, <1>2 DEF CompInv, AboveInv, MergeInv
  <1>6. L \in 0 .. NumLevels - 1 /\ L + 1 \in 0 .. NumLevels - 1 /\ L \in Nat
    BY <1>2, LevelAssumption
  <1>7. e \in Entry /\ e.seq \in Nat /\ e.key \in Nat
    BY <1>2, EntryFields
  <1>8. d \in Entries
    BY WorkEntries
  <1>9. d \in Entry /\ d.seq \in Nat /\ d.key \in Nat
    BY <1>1, <1>8, EntriesOk, EntryFields
  <1>10. ASSUME NEW h, e \in f, d \in h, Newer(h, f) PROVE FALSE
    <2>1. d.seq > e.seq
      BY <1>10 DEF Newer
    <2>2. QED
      BY <1>7, <1>9, <2>1
  <1>11. ASSUME d \in mem \cup imm PROVE FALSE
    <2>1. Newer(mem, f) /\ Newer(imm, f)
      BY <1>1, <1>4 DEF NewestInv
    <2>2. QED
      BY <1>3, <1>10, <1>11, <2>1
  <1>12. ASSUME d \in Keeps PROVE FALSE
    BY <1>7, <1>9, <1>12 DEF Keeps, Dropped
  <1>13. ASSUME NEW j \in 0 .. NumLevels - 1, NEW h \in Files(j) \ Taking, d \in h PROVE FALSE
    <2>1. h \notin compaction.in[1] /\ h \notin compaction.in[2]
      BY <1>13 DEF Taking
    <2>2. j \in Nat
      OBVIOUS
    <2> HIDE DEF L
    <2>3. CASE j < L
      <3>1. Newer(h, f)
        <4>1. j < L + 1
          BY <1>6, <2>2, <2>3
        <4>2. f \in Files(L) \/ f \in Files(L + 1)
          BY <1>4, <1>5
        <4>3. QED
          BY <1>1, <1>6, <1>13, <2>3, <4>1, <4>2 DEF NewestInv
      <3>2. QED
        BY <1>3, <1>10, <1>13, <3>1
    <2>4. CASE j = L
      <3>1. CASE f \in compaction.in[1]
        <4>1. Newer(h, UNION compaction.in[1])
          BY <1>5, <1>13, <2>1, <2>4
        <4>2. Newer(h, f)
          BY <3>1, <4>1 DEF Newer
        <4>3. QED
          BY <1>3, <1>10, <1>13, <4>2
      <3>2. CASE f \in compaction.in[2]
        <4>1. f \in Files(L + 1) /\ L < L + 1
          BY <1>5, <1>6, <3>2
        <4>2. Newer(h, f)
          BY <1>1, <1>6, <1>13, <2>4, <4>1 DEF NewestInv
        <4>3. QED
          BY <1>3, <1>10, <1>13, <4>2
      <3>3. QED
        BY <1>4, <3>1, <3>2
    <2>5. CASE j = L + 1
      <3>1. Apart(h, Merged)
        BY <1>5, <1>13, <2>1, <2>5
      <3>2. Before(d, e) \/ Before(e, d)
        BY <1>13, <3>1 DEF Apart
      <3>3. d.key < e.key \/ e.key < d.key
        BY <1>7, <1>9, <3>2, Order DEF Undivided, Divides
      <3>4. QED
        BY <1>7, <3>3
    <2>6. CASE j > L + 1
      <3>1. j \in L + 2 .. NumLevels - 1
        BY <1>6, <2>6
      <3>2. h \in Files(j)
        BY <1>13
      <3>3. QED
        BY <1>1, <1>2, <1>13, <3>1, <3>2 DEF CoveredInv, L
    <2>7. QED
      BY <1>6, <2>2, <2>3, <2>4, <2>5, <2>6
  <1>14. QED
    BY <1>11, <1>12, <1>13, WorkEntries

\* A compaction changes no answer under a snapshot that it takes account of.
LEMMA WorkAnswers ==
  ASSUME Undivided, StoreInv, DoCompactionWork, NEW k \in Keys, NEW s \in Nat,
         compaction.smallest <= s, NEW v, IsAnswer(v, k, s)
  PROVE  IsAnswer(v, k, s)'
  <1> DEFINE V == Visible(k, s)
             W == Visible(k, s)'
  <1>1. BaseInv /\ TypeOK
    BY DEF StoreInv, OrderInv, LevelInv, BaseInv
  <1>2. /\ compaction # None /\ Merged \subseteq Entries /\ Merged \subseteq Entry
        /\ compaction.smallest \in Nat
    BY <1>1, WorkIs DEF TypeOK
  <1>3. /\ Entries' \subseteq Entries
        /\ \A e \in Entries \ Entries' : e \in Merged /\ Dropped(e, Merged)
    BY WorkEntries
  <1>4. V = {e \in Entries : e.key = k /\ e.seq <= s} /\ W = {e \in Entries' : e.key = k /\ e.seq <= s}
    BY DEF Visible
  <1>5. IsAnswer(v, k, s)' <=> \/ v = 0 /\ W = {}
                               \/ \E e \in Entries' : NewestIn(e, W) /\ v = IF e.del THEN 0 ELSE e.seq
    BY DEF IsAnswer, NewestIn
  <1>6. \A e \in Entries : e \in Entry /\ e.seq \in Nat /\ e.key \in Nat
    BY <1>1, EntriesOk, EntryFields
  <1> HIDE DEF V, W
  <1>7. CASE v = 0 /\ V = {}
    <2>1. W = {}
      BY <1>3, <1>4, <1>7
    <2>2. QED
      BY <1>5, <1>7, <2>1
  <1>8. ASSUME NEW e \in Entries, NewestIn(e, V), v = IF e.del THEN 0 ELSE e.seq
        PROVE  IsAnswer(v, k, s)'
    <2>1. e \in V /\ e.key = k /\ e.seq <= s /\ \A d \in V : d.seq <= e.seq
      BY <1>4, <1>8 DEF NewestIn
    <2>2. CASE e \in Entries'
      <3>1. NewestIn(e, W)
        BY <1>3, <1>4, <2>1, <2>2 DEF NewestIn
      <3>2. QED
        BY <1>5, <1>8, <2>2, <3>1
    <2>3. CASE e \notin Entries'
      <3>1. e \in Merged /\ Dropped(e, Merged)
        BY <1>3, <1>8, <2>3
      <3>2. ASSUME NEW f \in Merged, f.key = e.key, f.seq > e.seq, f.seq <= compaction.smallest
            PROVE  FALSE
        <4>1. f \in Entries /\ f.seq \in Nat /\ e.seq \in Nat
          BY <1>2, <1>6
        <4>2. f.seq <= s
          BY <1>2, <3>2, <4>1
        <4>3. f \in V
          BY <1>4, <2>1, <3>2, <4>1, <4>2
        <4>4. f.seq <= e.seq
          BY <2>1, <4>3
        <4>5. QED
          BY <3>2, <4>1, <4>4
      <3>3. e.del /\ e.seq <= compaction.smallest /\ e.key \notin compaction.covered
        BY <3>1, <3>2 DEF Dropped
      <3>4. ASSUME NEW d \in W PROVE FALSE
        <4>1. d \in Entries' /\ d \in Entries /\ d.key = k /\ d \in V
          BY <1>3, <1>4
        <4>2. d.seq <= e.seq /\ d # e
          BY <2>1, <2>3, <4>1
        <4>3. d.seq # e.seq
          BY <1>1, <1>8, <4>1, <4>2 DEF BaseInv, NumberInv, Numbered
        <4>4. d.seq < e.seq
          BY <1>6, <1>8, <4>1, <4>2, <4>3
        <4>5. QED
          BY <2>1, <3>1, <3>3, <4>1, <4>4, NothingUnder
      <3>5. QED
        BY <1>5, <1>8, <3>3, <3>4
    <2>4. QED
      BY <2>2, <2>3
  <1>9. QED
    BY <1>7, <1>8 DEF IsAnswer, V

\* Get returns the answer, and there is only one.
GetsRight == \A k \in Keys, s \in Nat :
               /\ Get(k, s) \in 0 .. MaxWrites
               /\ IsAnswer(Get(k, s), k, s)
               /\ \A v : IsAnswer(v, k, s) => v = Get(k, s)

LEMMA GetRight ==
  ASSUME Undivided, OrderInv
  PROVE  GetsRight
  <1>1. TypeOK /\ NumberInv
    BY DEF OrderInv, LevelInv, BaseInv
  <1>2. ASSUME NEW k \in Keys, NEW s \in Nat
        PROVE  /\ Get(k, s) \in 0 .. MaxWrites
               /\ IsAnswer(Get(k, s), k, s)
               /\ \A v : IsAnswer(v, k, s) => v = Get(k, s)
    BY <1>1, GetIs, AnswerOnce
  <1>3. QED
    BY <1>2 DEF GetsRight

LEMMA SameAnswers ==
  ASSUME NEW k, NEW s, NEW v, IsAnswer(v, k, s), Visible(k, s)' = Visible(k, s)
  PROVE  IsAnswer(v, k, s)'
  <1> DEFINE V == Visible(k, s)
  <1>1. \A e \in V : e \in Entries
    BY DEF Visible
  <1>2. V' = V /\ \A e \in V' : e \in Entries'
    BY DEF Visible
  <1>3. CASE v = 0 /\ V = {}
    BY <1>2, <1>3 DEF IsAnswer
  <1>4. ASSUME NEW e \in V, NewestIn(e, V), v = IF e.del THEN 0 ELSE e.seq
        PROVE  IsAnswer(v, k, s)'
    <2>1. e \in Entries' /\ NewestIn(e, V')
      BY <1>2, <1>4 DEF NewestIn
    <2>2. QED
      BY <1>4, <2>1 DEF IsAnswer, NewestIn
  <1>5. (v = 0 /\ V = {}) \/ \E e \in V : NewestIn(e, V) /\ v = IF e.del THEN 0 ELSE e.seq
    BY DEF IsAnswer, NewestIn
  <1>6. QED
    BY <1>3, <1>4, <1>5

\* The steps of the background thread, and the user's but Write.
LEMMA QuietAnswers ==
  ASSUME NoRange, Undivided, StoreInv, [Next]_vars,
         ~\E j \in Keys, del \in Deletions : Write(j, del),
         NEW k \in Keys, NEW s \in Nat, s \in snapshots \/ s = lastSequence,
         NEW v, IsAnswer(v, k, s)
  PROVE  IsAnswer(v, k, s)'
  <1>1. BaseInv /\ TypeOK /\ SnapInv /\ ImmInv
    BY DEF StoreInv, OrderInv, LevelInv, BaseInv
  <1>2. ASSUME Entries' = Entries PROVE IsAnswer(v, k, s)'
    <2>1. Visible(k, s)' = Visible(k, s)
      BY <1>2 DEF Visible
    <2>2. QED
      BY <2>1, SameAnswers
  <1>3. CASE UNCHANGED <<memtables, version>>
    BY <1>2, <1>3, SameFiles DEF Entries, memtables
  <1>4. CASE SwitchMemtable
    <2>1. imm = {} /\ imm' = mem /\ mem' = {} /\ AllFiles' = AllFiles
      BY <1>1, <1>4, SameFiles DEF SwitchMemtable, ImmInv
    <2>2. QED
      BY <1>2, <2>1 DEF Entries
  <1>5. CASE CompactMemTable
    <2>1. mem' = mem /\ imm' = {} /\ AllFiles' = AllFiles \cup {imm}
      BY <1>1, <1>5, FlushIs DEF CompactMemTable
    <2>2. QED
      BY <1>2, <2>1 DEF Entries
  <1>6. CASE PickCompaction
    <2>1. mem' = mem /\ imm' = imm
      BY <1>1, <1>6, PickIs DEF memtables
    <2>2. AllFiles' = AllFiles
      <3>1. ASSUME NEW l \in 0 .. NumLevels - 2, NEW g \in Files(l), NEW in1, in1 = {g},
                   Apply(in1, l + 1, in1)
            PROVE  AllFiles' = AllFiles
        <4>1. l + 1 \in 1 .. NumLevels - 1 /\ l \in 0 .. NumLevels - 1
          BY LevelAssumption
        <4>2. in1 \subseteq File /\ in1 \subseteq AllFiles
          BY <1>1, <3>1, <4>1, FilesAre, Levels
        <4>3. AllFiles' = (AllFiles \ in1) \cup in1
          <5>1. Edited(in1, l + 1, in1)
            BY <1>1, <3>1, <4>1, <4>2, ApplyIs
          <5>2. QED
            BY <5>1 DEF Edited
        <4>4. QED
          BY <4>2, <4>3
      <3>2. QED
        BY <1>1, <1>6, <3>1, PickIs, SameFiles
    <2>3. QED
      BY <1>2, <2>1, <2>2 DEF Entries
  <1>7. CASE DoCompactionWork
    <2>1. compaction # None
      BY <1>7 DEF DoCompactionWork
    <2>2. compaction.smallest <= s
      BY <1>1, <2>1 DEF SnapInv
    <2>3. QED
      BY <1>7, <2>2, WorkAnswers
  <1>8. ASSUME NEW lo \in Keys, NEW hi \in Keys, CompactRange(lo, hi)
        PROVE  UNCHANGED <<memtables, version>>
    BY <1>8 DEF CompactRange
  <1>9. ~ManualCompaction
    BY DEF ManualCompaction, StoreInv, OrderInv, LevelInv, ManualOff
  <1>10. ASSUME NEW t \in snapshots, ReleaseSnapshot(t)
         PROVE  UNCHANGED <<memtables, version>>
    BY <1>10 DEF ReleaseSnapshot
  <1>11. GetSnapshot \/ UNCHANGED vars => UNCHANGED <<memtables, version>>
    BY DEF GetSnapshot, vars
  <1>12. QED
    BY <1>3, <1>4, <1>5, <1>6, <1>7, <1>8, <1>9, <1>10, <1>11 DEF Next

LEMMA WriteAnswers ==
  ASSUME BaseInv, NEW j \in Keys, NEW del \in Deletions, Write(j, del),
         NEW L \in Nat, L = lastSequence,
         NEW k \in Keys, NEW s \in Nat, NEW v
  PROVE  /\ IsAnswer(v, k, s) /\ s <= L => IsAnswer(v, k, s)'
         /\ IsAnswer(v, k, L) /\ k # j => IsAnswer(v, k, L + 1)'
  <1> DEFINE e == [key |-> j, seq |-> lastSequence + 1, del |-> del]
  <1>1. /\ mem' = mem \cup {e} /\ e.seq = L + 1 /\ e.key = j /\ imm' = imm
        /\ AllFiles' = AllFiles
    BY SameFiles DEF Write
  <1> HIDE DEF e
  <1>2. Entries' = Entries \cup {e}
    BY <1>1 DEF Entries
  <1>3. \A d \in Entries : d.seq <= L /\ d.seq \in Nat
    BY EntriesOk, EntryFields DEF BaseInv, NumberInv
  <1>4. ASSUME IsAnswer(v, k, s), s <= L PROVE IsAnswer(v, k, s)'
    <2>1. Visible(k, s)' = Visible(k, s)
      BY <1>1, <1>2, <1>4 DEF Visible
    <2>2. QED
      BY <1>4, <2>1, SameAnswers
  <1>5. ASSUME IsAnswer(v, k, L), k # j PROVE IsAnswer(v, k, L + 1)'
    <2>1. Visible(k, L) = Visible(k, L + 1)
      BY <1>3 DEF Visible
    <2>2. IsAnswer(v, k, L + 1)
      BY <1>5, <2>1 DEF IsAnswer
    <2>3. Visible(k, L + 1)' = Visible(k, L + 1)
      BY <1>1, <1>2, <1>5 DEF Visible
    <2>4. QED
      BY <2>2, <2>3, SameAnswers
  <1>6. QED
    BY <1>4, <1>5

-----------------------------------------------------------------------------
(* Refinement of KeyValueStore.                                            *)

LEMMA StoreInit ==
  ASSUME Undivided, Init
  PROVE  Store!Init
  <1>1. OrderInv
    BY InitBase, ApartInit, NewestInit DEF LevelInv, OrderInv
  <1>2. GetsRight
    BY <1>1, GetRight
  <1>3. lastSequence = 0 /\ snapshots = {}
    BY DEF Init
  <1>4. Entries = {}
    <2>1. \A e \in Entries : FALSE
      <3>1. \A e \in Entries : e.seq <= 0 /\ e.seq \in Nat /\ e.seq >= 1
        BY <1>1, <1>3, EntriesOk, EntryFields
           DEF OrderInv, LevelInv, BaseInv, NumberInv
      <3>2. QED
        BY <3>1
    <2>2. QED
      BY <2>1
  <1>5. ASSUME NEW k \in Keys PROVE Get(k, lastSequence) = 0
    <2>1. Visible(k, 0) = {}
      BY <1>4 DEF Visible
    <2>2. IsAnswer(0, k, 0)
      BY <2>1 DEF IsAnswer
    <2>3. Get(k, 0) = 0
      BY <1>2, <2>2 DEF GetsRight
    <2>4. QED
      BY <1>3, <2>3
  <1>6. [s \in snapshots |-> [k \in Keys |-> Get(k, s)]] = << >>
    BY <1>3
  <1>7. QED
    BY <1>5, <1>6 DEF Store!Init

\* What stays the same for every reader but of the newest state.
LEMMA ViewsKept ==
  ASSUME \A k \in Keys, s \in snapshots : Get(k, s)' = Get(k, s), snapshots' = snapshots
  PROVE  [s \in snapshots |-> [k \in Keys |-> Get(k, s)]]'
           = [s \in snapshots |-> [k \in Keys |-> Get(k, s)]]
  OBVIOUS

LEMMA ValueKept ==
  ASSUME NEW L, lastSequence = L, lastSequence' = L, \A k \in Keys : Get(k, L)' = Get(k, L)
  PROVE  [k \in Keys |-> Get(k, lastSequence)]' = [k \in Keys |-> Get(k, lastSequence)]
  OBVIOUS

LEMMA GetKept ==
  ASSUME GetsRight, GetsRight', NEW k \in Keys, NEW s \in Nat, NEW t \in Nat,
         \A v : IsAnswer(v, k, s) => IsAnswer(v, k, t)'
  PROVE  Get(k, t)' = Get(k, s)
  <1>1. PICK v : v = Get(k, s)
    OBVIOUS
  <1>2. IsAnswer(v, k, s)
    BY <1>1 DEF GetsRight
  <1>3. IsAnswer(v, k, t)'
    BY <1>2
  <1>4. v = Get(k, t)'
    BY <1>3 DEF GetsRight
  <1>5. QED
    BY <1>1, <1>4

\* How the store takes a step of the levels.
LEMMA WriteMaps ==
  ASSUME StoreInv, GetsRight, GetsRight', NEW j \in Keys, NEW del \in Deletions, Write(j, del)
  PROVE  Store!Write
  <1>1. BaseInv /\ SnapInv /\ TypeOK
    BY DEF StoreInv, OrderInv, LevelInv, BaseInv
  <1>2. PICK L \in Nat : L = lastSequence
    BY <1>1, Bounds DEF TypeOK
  <1>3. lastSequence' = L + 1 /\ snapshots' = snapshots
    BY <1>2 DEF Write
  <1>a. L + 1 \in Nat
    OBVIOUS
  <1>4. ASSUME NEW k \in Keys, NEW s \in snapshots PROVE Get(k, s)' = Get(k, s)
    <2>0. s \in 0 .. MaxWrites /\ s <= lastSequence
      BY <1>1 DEF TypeOK, SnapInv
    <2>1. s \in Nat /\ s <= L
      BY <1>2, <2>0, Bounds
    <2>2. \A v : IsAnswer(v, k, s) => IsAnswer(v, k, s)'
      BY <1>1, <1>2, <2>1, WriteAnswers
    <2>3. QED
      BY <2>1, <2>2, GetKept
  <1>5. ASSUME NEW k \in Keys, k # j PROVE Get(k, L + 1)' = Get(k, L)
    <2>1. \A v : IsAnswer(v, k, L) => IsAnswer(v, k, L + 1)'
      BY <1>1, <1>2, <1>5, WriteAnswers
    <2>2. QED
      BY <1>a, <2>1, GetKept
  <1>6. Get(j, L + 1)' \in 0 .. MaxWrites
    BY <1>a DEF GetsRight
  <1>7. [s \in snapshots |-> [k \in Keys |-> Get(k, s)]]'
          = [s \in snapshots |-> [k \in Keys |-> Get(k, s)]]
    BY <1>3, <1>4, ViewsKept
  <1> DEFINE val == [k \in Keys |-> Get(k, lastSequence)]
  <1>8. \A k \in Keys : val[k] = Get(k, L) /\ val'[k] = Get(k, L + 1)'
    BY <1>2, <1>3
  <1> HIDE DEF val
  <1>9. val'[j] \in 0 .. MaxWrites /\ \A i \in Keys \ {j} : val'[i] = val[i]
    BY <1>5, <1>6, <1>8
  <1>10. QED
    BY <1>7, <1>9 DEF Store!Write, val

LEMMA QuietMaps ==
  ASSUME NoRange, Undivided, StoreInv, GetsRight, GetsRight', [Next]_vars,
         ~\E j \in Keys, del \in Deletions : Write(j, del)
  PROVE  Store!Next \/ UNCHANGED Store!kvVars
  <1> DEFINE val == [k \in Keys |-> Get(k, lastSequence)]
             seen == [s \in snapshots |-> [k \in Keys |-> Get(k, s)]]
  <1>1. BaseInv /\ SnapInv /\ TypeOK
    BY DEF StoreInv, OrderInv, LevelInv, BaseInv
  <1>2. PICK L \in Nat : L = lastSequence
    BY <1>1, Bounds DEF TypeOK
  <1>3. lastSequence' = L
    BY <1>2 DEF Next, vars, GetSnapshot, ReleaseSnapshot, SwitchMemtable, CompactMemTable, PickCompaction,
                DoCompactionWork, CompactRange, ManualCompaction
  <1>4. ASSUME NEW k \in Keys, NEW s \in Nat, s \in snapshots \/ s = lastSequence
        PROVE  Get(k, s)' = Get(k, s)
    <2>1. \A v : IsAnswer(v, k, s) => IsAnswer(v, k, s)'
      BY <1>4, QuietAnswers
    <2>2. QED
      BY <2>1, GetKept
  <1>5. \A s \in snapshots : s \in Nat /\ s \in 0 .. MaxWrites
    BY <1>1, Bounds DEF TypeOK
  <1>6. val' = val
    <2>1. \A k \in Keys : Get(k, L)' = Get(k, L)
      BY <1>2, <1>4
    <2>2. QED
      BY <1>2, <1>3, <2>1, ValueKept
  <1>7. \A k \in Keys, s \in snapshots : Get(k, s)' = Get(k, s)
    BY <1>4, <1>5
  <1>8. ASSUME snapshots' = snapshots PROVE UNCHANGED Store!kvVars
    <2>1. seen' = seen
      BY <1>7, <1>8, ViewsKept
    <2>2. QED
      BY <1>6, <2>1 DEF Store!kvVars
  <1>9. DOMAIN seen = snapshots /\ DOMAIN seen' = snapshots'
    OBVIOUS
  <1>10. \A s \in snapshots : seen[s] = [k \in Keys |-> Get(k, s)]
    OBVIOUS
  <1>11. \A s \in snapshots' : seen'[s] = [k \in Keys |-> Get(k, s)']
    OBVIOUS
  <1>12. \A s \in snapshots \cap snapshots' : seen'[s] = seen[s]
    BY <1>7, <1>10, <1>11
  <1>13. CASE GetSnapshot
    <2>1. snapshots' = snapshots \cup {L}
      BY <1>2, <1>13 DEF GetSnapshot
    <2>2. CASE L \in snapshots
      BY <1>8, <2>1, <2>2
    <2>3. CASE L \notin snapshots
      <3>1. L \in 0 .. MaxWrites
        BY <1>1, <1>2 DEF TypeOK
      <3>2. seen'[L] = val
        <4>1. \A k \in Keys : Get(k, L)' = Get(k, L)
          BY <1>2, <1>4
        <4>2. val = [k \in Keys |-> Get(k, L)]
          BY <1>2
        <4>3. seen'[L] = [k \in Keys |-> Get(k, L)']
          BY <1>11, <2>1
        <4>4. QED
          BY <4>1, <4>2, <4>3
      <3> HIDE DEF seen, val
      <3>3. /\ L \in (0 .. MaxWrites) \ DOMAIN seen
            /\ DOMAIN seen' = DOMAIN seen \cup {L} /\ seen'[L] = val
            /\ \A t \in DOMAIN seen : seen'[t] = seen[t]
        BY <1>9, <1>12, <2>1, <2>3, <3>1, <3>2
      <3>4. Store!GetSnapshot
        BY <1>6, <3>3 DEF Store!GetSnapshot, seen, val
      <3>5. QED
        BY <3>4 DEF Store!Next
    <2>4. QED
      BY <2>2, <2>3
  <1>14. ASSUME NEW s \in snapshots, ReleaseSnapshot(s)
         PROVE  Store!Next
    <2>1. snapshots' = snapshots \ {s}
      BY <1>14 DEF ReleaseSnapshot
    <2> HIDE DEF seen, val
    <2>2. /\ s \in DOMAIN seen /\ DOMAIN seen' = DOMAIN seen \ {s}
          /\ \A t \in DOMAIN seen' : seen'[t] = seen[t]
      BY <1>9, <1>12, <2>1
    <2>3. Store!ReleaseSnapshot
      BY <1>6, <2>2 DEF Store!ReleaseSnapshot, seen, val
    <2>4. QED
      BY <2>3 DEF Store!Next
  <1>15. CASE ~GetSnapshot /\ ~\E s \in snapshots : ReleaseSnapshot(s)
    <2>1. snapshots' = snapshots
      BY <1>15 DEF Next, vars, SwitchMemtable, CompactMemTable, PickCompaction, DoCompactionWork,
                   CompactRange, ManualCompaction
    <2>2. QED
      BY <1>8, <2>1
  <1>16. QED
    BY <1>13, <1>14, <1>15

\* What a reader sees, now and under a snapshot, changes only when the user writes, takes
\* a snapshot or gives one back: flushes and compactions lose nothing that a snapshot can
\* see and bring nothing back.
THEOREM Refinement ==
  ASSUME NoRange, Undivided
  PROVE  Spec => Implements
  <1>1. Init => StoreInv
    <2>1. Init => OrderInv
      BY InitBase, ApartInit, NewestInit DEF LevelInv, OrderInv
    <2>2. Init => CoveredInv
      BY DEF Init, CoveredInv
    <2>3. QED
      BY <2>1, <2>2 DEF StoreInv
  <1>2. StoreInv /\ [Next]_vars => StoreInv'
    BY StoreStep
  <1>3. StoreInv => GetsRight
    BY GetRight DEF StoreInv
  <1>4. Init => Store!Init
    BY StoreInit
  <1>5. StoreInv /\ GetsRight /\ GetsRight' /\ [Next]_vars => [Store!Next]_(Store!kvVars)
    <2> SUFFICES ASSUME StoreInv, GetsRight, GetsRight', [Next]_vars
                 PROVE  Store!Next \/ UNCHANGED Store!kvVars
      OBVIOUS
    <2>1. ASSUME NEW j \in Keys, NEW del \in Deletions, Write(j, del)
          PROVE  Store!Next
      BY <2>1, WriteMaps DEF Store!Next
    <2>2. QED
      BY <2>1, QuietMaps
  <1>6. QED
    BY <1>1, <1>2, <1>3, <1>4, <1>5, PTL DEF Spec, Implements, Store!Spec
=============================================================================
