-------------------------- MODULE NandSkipBadProofs --------------------------
(***************************************************************************)
(* Proofs about the NAND commands that step over bad blocks, for every     *)
(* geometry of the chip, every set of bad blocks and every range: where an *)
(* image is written, what else is left alone, and what a read returns.     *)
(***************************************************************************)
EXTENDS NandSkipBad, FiniteSetTheorems, SequenceTheorems, WellFoundedInduction, TLAPS

-----------------------------------------------------------------------------
(* The inductive invariant.                                                   *)

Cells    == [img : 0..MaxCommands, page : Nat, ecc : BOOLEAN]
Commands == Reads \cup Writes

(* An offset, or the end of the chip for one past it. *)
InChip(o) == IF o < Size THEN o ELSE Size

(* The operators of NandSkipBad for a set B of bad blocks. *)
GoodIn(B, a, b)    == {q \in a..(b - 1) : BlockOf(q) \notin B}
StartIn(B, c)      == IF ~c.yaffs THEN c.off
                      ELSE IF GoodIn(B, c.off, Size) = {} THEN Size
                      ELSE NextBlock(Min(GoodIn(B, c.off, Size)))
IndexIn(B, c, q)   == Cardinality(GoodIn(B, StartIn(B, c), q))
TargetIn(B, c)     == {q \in GoodIn(B, StartIn(B, c), Size) : IndexIn(B, c, q) < c.len}
FitsIn(B, c)       == Cardinality(TargetIn(B, c)) = c.len

(* The loops' variables, with *length as nand_util.c leaves it until the end. *)
Looping ==
    pc # "idle" =>
        /\ cmd \in Commands /\ cmd.op = pc /\ result = "none" /\ length = cmd.len
        /\ left >= 1 /\ count >= 1
        /\ skip_fb => cmd.yaffs

(* The good pages behind the offset are as many as are done; while the first good
   block is to be skipped there is none. *)
Position ==
    pc # "idle" =>
        /\ skip_fb => /\ left = cmd.len /\ cmd.off <= offset
                      /\ GoodIn(bad, cmd.off, InChip(offset)) = {}
        /\ ~skip_fb => /\ StartIn(bad, cmd) <= offset
                       /\ Cardinality(GoodIn(bad, StartIn(bad, cmd), InChip(offset))) = cmd.len - left

(* Page q of memory m holds page IndexIn(B, c, q) of image n. *)
HoldsIn(m, B, c, q, n) == m[q].img = n /\ m[q].page = IndexIn(B, c, q)

(* A write: the pages done hold the image, the others are as they were. *)
Written ==
    pc = "write" /\ clean =>
        \A q \in TargetIn(bad, cmd) :
            IF IndexIn(bad, cmd, q) < cmd.len - left THEN HoldsIn(mem, bad, cmd, q, count)
            ELSE mem[q] = Erased

(* The buffer g holds n pages of the range of c, in order. *)
ReadIn(g, m, B, c, n) ==
    /\ Len(g) = n
    /\ \A i \in 1..n : \E q \in TargetIn(B, c) : IndexIn(B, c, q) = i - 1 /\ g[i] = m[q]

ReadSoFar == pc = "read" => ReadIn(got, mem, bad, cmd, cmd.len - left)
ReadDone  == pc = "idle" /\ cmd.op = "read" /\ result = "ok" /\ FitsIn(bad, cmd)
                 => ReadIn(got, mem, bad, cmd, cmd.len)

(* A write that has come back did what it reports. *)
WriteDone ==
    pc = "idle" /\ cmd.op = "write" /\ result \in {"ok", "error"} /\ clean /\ FitsIn(bad, cmd) =>
        \A q \in TargetIn(bad, cmd) : IndexIn(bad, cmd, q) < length => HoldsIn(mem, bad, cmd, q, count)

(* The image of the last plain write is where it was put. *)
Kept ==
    last # NoCommand =>
        /\ last \in Writes /\ ~last.yaffs
        /\ pc = "write" => cmd = last /\ clean
        /\ pc # "write" /\ FitsIn(bad, last) =>
               \E n \in 1..MaxCommands : \A q \in TargetIn(bad, last) : HoldsIn(mem, bad, last, q, n)

NandInv ==
    /\ TypeOK /\ got \in Seq(Cells)
    /\ Looping /\ Position /\ Written /\ ReadSoFar /\ ReadDone /\ WriteDone /\ Kept

-----------------------------------------------------------------------------
(* Blocks and pages.                                                          *)

LEMMA Geometry ==
    /\ EraseSize \in Nat \ {0} /\ NBlocks \in Nat \ {0}
    /\ Size \in Nat \ {0} /\ Beyond = Size + EraseSize /\ Beyond \in Nat
    /\ Size = EraseSize * NBlocks
  BY GeometryAssumption DEF Size, Beyond

LEMMA DivMod ==
    ASSUME NEW a \in Int, NEW w \in Nat \ {0}
    PROVE  a = w * (a \div w) + (a % w) /\ a % w \in 0..(w - 1) /\ a \div w \in Int
  OBVIOUS

(* A quotient is known by the interval it stands for. *)
LEMMA QuotientIs ==
    ASSUME NEW a \in Int, NEW w \in Nat \ {0}, NEW k \in Int, k * w <= a, a < (k + 1) * w
    PROVE  a \div w = k
  <1>1. PICK q, r : q = a \div w /\ r = a % w
    OBVIOUS
  <1>2. a = w * q + r /\ r \in 0..(w - 1) /\ q \in Int
    BY <1>1, DivMod
  <1>3. ~(q < k)
    <2>1. SUFFICES ASSUME q <= k - 1 PROVE FALSE
      BY <1>2
    <2>2. w * q <= w * (k - 1)
      BY <1>2, <2>1
    <2> QED BY <1>2, <2>2
  <1>4. ~(q > k)
    <2>1. SUFFICES ASSUME q >= k + 1 PROVE FALSE
      BY <1>2
    <2>2. w * q >= w * (k + 1)
      BY <1>2, <2>1
    <2> QED BY <1>2, <2>2
  <1> QED BY <1>1, <1>2, <1>3, <1>4

(* The block of an offset ends after it, and no later than the chip if the offset
   is in the chip. *)
LEMMA BlockEnd ==
    ASSUME NEW o \in Nat
    PROVE  /\ NextBlock(o) \in Nat /\ o < NextBlock(o) /\ BlockOf(o) \in Nat
           /\ \A q \in o..(NextBlock(o) - 1) : BlockOf(q) = BlockOf(o)
           /\ o < Size => NextBlock(o) <= Size /\ BlockOf(o) \in Blocks
           /\ o >= Size => NextBlock(o) >= Beyond
  <1>1. PICK k, w, r : k = BlockOf(o) /\ w = EraseSize /\ r = o % EraseSize
    OBVIOUS
  <1>2. w \in Nat \ {0} /\ o \in Int
    BY <1>1, Geometry
  <1>3. o = w * k + r /\ r \in 0..(w - 1) /\ k \in Int
    BY <1>1, <1>2, DivMod DEF BlockOf
  <1>4. k >= 0
    <2>1. SUFFICES ASSUME k <= -1 PROVE FALSE
      BY <1>3
    <2>2. w * k <= -w
      BY <1>2, <1>3, <2>1
    <2> QED BY <1>2, <1>3, <2>2
  <1>5. NextBlock(o) = (k + 1) * w /\ (k + 1) * w = w * k + w /\ k * w = w * k /\ w * k \in Int
    <2>1. NextBlock(o) = (k + 1) * w
      BY <1>1 DEF NextBlock
    <2> QED BY <1>2, <1>3, <2>1
  <1>6. NextBlock(o) \in Nat /\ o < NextBlock(o)
    BY <1>2, <1>3, <1>4, <1>5
  <1>7. ASSUME NEW q \in o..(NextBlock(o) - 1) PROVE BlockOf(q) = k
    <2>1. q \in Int /\ k * w <= q /\ q < (k + 1) * w
      BY <1>2, <1>3, <1>5, <1>6
    <2> QED BY <1>1, <1>2, <1>3, <2>1, QuotientIs DEF BlockOf
  <1>8. PICK N : N = NBlocks
    OBVIOUS
  <1>9. N \in Nat \ {0} /\ Size = w * N /\ Beyond = w * N + w /\ w * N \in Int
    BY <1>1, <1>8, Geometry
  <1>10. ASSUME o < Size PROVE NextBlock(o) <= Size /\ k \in Blocks
    <2>1. k < N
      <3>1. SUFFICES ASSUME k >= N PROVE FALSE
        BY <1>3, <1>9
      <3>2. w * k >= w * N
        BY <1>2, <1>3, <1>9, <3>1
      <3> QED BY <1>2, <1>3, <1>5, <1>9, <1>10, <3>2
    <2>2. w * (k + 1) <= w * N /\ w * (k + 1) = w * k + w
      BY <1>2, <1>3, <1>9, <2>1
    <2>3. NextBlock(o) <= Size
      BY <1>5, <1>9, <2>2
    <2> QED BY <1>3, <1>4, <1>8, <1>9, <2>1, <2>3 DEF Blocks
  <1>11. ASSUME o >= Size PROVE NextBlock(o) >= Beyond
    <2>1. k >= N
      <3>1. SUFFICES ASSUME k <= N - 1 PROVE FALSE
        BY <1>3, <1>9
      <3>2. w * k <= w * (N - 1) /\ w * (N - 1) = w * N - w
        BY <1>2, <1>3, <1>9, <3>1
      <3> QED BY <1>2, <1>3, <1>9, <1>11, <3>2
    <2>2. w * k >= w * N
      BY <1>2, <1>3, <1>9, <2>1
    <2> QED BY <1>2, <1>3, <1>5, <1>9, <2>2
  <1> QED BY <1>1, <1>3, <1>4, <1>6, <1>7, <1>10, <1>11

(* Good pages are counted piece by piece. *)
LEMMA GoodFinite ==
    ASSUME NEW B, NEW a \in Int, NEW b \in Int
    PROVE  IsFiniteSet(GoodIn(B, a, b)) /\ Cardinality(GoodIn(B, a, b)) \in Nat
  <1>1. IsFiniteSet(a..(b - 1))
    BY FS_Interval
  <1>2. GoodIn(B, a, b) \subseteq a..(b - 1)
    BY DEF GoodIn
  <1>3. IsFiniteSet(GoodIn(B, a, b))
    BY <1>1, <1>2, FS_Subset
  <1> QED BY <1>3, FS_CardinalityType

LEMMA GoodSplit ==
    ASSUME NEW B, NEW a \in Int, NEW b \in Int, NEW c \in Int, a <= b, b <= c
    PROVE  Cardinality(GoodIn(B, a, c)) = Cardinality(GoodIn(B, a, b)) + Cardinality(GoodIn(B, b, c))
  <1>1. GoodIn(B, a, c) = GoodIn(B, a, b) \cup GoodIn(B, b, c) /\ GoodIn(B, a, b) \cap GoodIn(B, b, c) = {}
    BY DEF GoodIn
  <1>2. IsFiniteSet(GoodIn(B, a, b)) /\ IsFiniteSet(GoodIn(B, b, c))
    BY GoodFinite
  <1>3. Cardinality(GoodIn(B, a, c)) = Cardinality(GoodIn(B, a, b)) + Cardinality(GoodIn(B, b, c)) - Cardinality({})
    BY <1>1, <1>2, FS_Union
  <1>4. Cardinality({}) = 0
    BY FS_EmptySet
  <1> QED BY <1>3, <1>4, GoodFinite

LEMMA GoodNone ==
    ASSUME NEW B, NEW a \in Int, NEW b \in Int, \A q \in a..(b - 1) : BlockOf(q) \in B
    PROVE  GoodIn(B, a, b) = {} /\ Cardinality(GoodIn(B, a, b)) = 0
  <1>1. GoodIn(B, a, b) = {}
    BY DEF GoodIn
  <1> QED BY <1>1, FS_EmptySet

LEMMA GoodAll ==
    ASSUME NEW B, NEW a \in Int, NEW b \in Int, a <= b, \A q \in a..(b - 1) : BlockOf(q) \notin B
    PROVE  GoodIn(B, a, b) = a..(b - 1) /\ Cardinality(GoodIn(B, a, b)) = b - a
  <1>1. GoodIn(B, a, b) = a..(b - 1)
    BY DEF GoodIn
  <1>2. Cardinality(a..(b - 1)) = IF a > b - 1 THEN 0 ELSE (b - 1) - a + 1
    BY FS_Interval
  <1> QED BY <1>1, <1>2

(* As many good pages as pages: all are good. *)
LEMMA GoodFull ==
    ASSUME NEW B, NEW a \in Int, NEW b \in Int, a <= b, Cardinality(GoodIn(B, a, b)) >= b - a
    PROVE  \A q \in a..(b - 1) : BlockOf(q) \notin B
  <1>1. IsFiniteSet(a..(b - 1)) /\ Cardinality(a..(b - 1)) = IF a > b - 1 THEN 0 ELSE (b - 1) - a + 1
    <2>1. b - 1 \in Int
      OBVIOUS
    <2> QED BY <2>1, FS_Interval, Zenon
  <1>2. Cardinality(a..(b - 1)) = b - a
    BY <1>1
  <1>3. GoodIn(B, a, b) \subseteq a..(b - 1)
    BY DEF GoodIn
  <1>4. GoodIn(B, a, b) = a..(b - 1)
    <2>1. Cardinality(GoodIn(B, a, b)) <= Cardinality(a..(b - 1))
      BY <1>1, <1>3, FS_Subset
    <2>2. Cardinality(GoodIn(B, a, b)) \in Nat
      BY GoodFinite
    <2>3. Cardinality(GoodIn(B, a, b)) = Cardinality(a..(b - 1))
      BY <1>2, <2>1, <2>2
    <2> QED BY <1>1, <1>3, <2>3, FS_Subset
  <1> QED BY <1>4 DEF GoodIn

(* A set of naturals that is not empty has a least element, its minimum. *)
LEMMA MinIsLeast ==
    ASSUME NEW T, T \subseteq Nat, T # {}
    PROVE  Min(T) \in T /\ \A y \in T : Min(T) <= y
  <1> DEFINE R == {ss \in Nat \X Nat : ss[1] < ss[2]}
  <1>1. IsWellFoundedOn(R, Nat)
    BY NatLessThanWellFounded DEF OpToRel
  <1> HIDE DEF R
  <1>2. PICK x \in T : \A y \in T : ~(<<y, x>> \in R)
    BY <1>1, WFMin
  <1>3. ASSUME NEW y \in T PROVE x <= y
    <2>1. SUFFICES ASSUME y < x PROVE <<y, x>> \in R
      BY <1>2
    <2> QED BY <2>1 DEF R
  <1> QED BY <1>3 DEF Min

LEMMA MinOfTwo ==
    ASSUME NEW x \in Int, NEW y \in Int
    PROVE  Min({x, y}) = IF x <= y THEN x ELSE y
  BY DEF Min

(* One more good page. *)
LEMMA GoodNext ==
    ASSUME NEW B, NEW a \in Int, NEW q \in Int, NEW b \in Int, a <= q, q < b, BlockOf(q) \notin B
    PROVE  Cardinality(GoodIn(B, a, q)) + 1 <= Cardinality(GoodIn(B, a, b))
  <1>1. q + 1 \in Int /\ q <= q + 1 /\ q + 1 <= b /\ a <= q + 1
    OBVIOUS
  <1>2. Cardinality(GoodIn(B, a, b)) = Cardinality(GoodIn(B, a, q + 1)) + Cardinality(GoodIn(B, q + 1, b))
    BY <1>1, GoodSplit
  <1>3. Cardinality(GoodIn(B, a, q + 1)) = Cardinality(GoodIn(B, a, q)) + Cardinality(GoodIn(B, q, q + 1))
    BY <1>1, GoodSplit
  <1>4. Cardinality(GoodIn(B, q, q + 1)) = 1
    <2>1. \A x \in q..((q + 1) - 1) : BlockOf(x) \notin B
      OBVIOUS
    <2>2. Cardinality(GoodIn(B, q, q + 1)) = (q + 1) - q
      BY <1>1, <2>1, GoodAll
    <2> QED BY <2>2
  <1>5. Cardinality(GoodIn(B, a, q)) \in Nat /\ Cardinality(GoodIn(B, q + 1, b)) \in Nat
    BY <1>1, GoodFinite
  <1> QED BY <1>2, <1>3, <1>4, <1>5

LEMMA GoodMore ==
    ASSUME NEW B, NEW a \in Int, NEW b \in Int, NEW c \in Int, a <= b, b <= c
    PROVE  Cardinality(GoodIn(B, a, b)) <= Cardinality(GoodIn(B, a, c))
  <1>1. Cardinality(GoodIn(B, a, c)) = Cardinality(GoodIn(B, a, b)) + Cardinality(GoodIn(B, b, c))
    BY GoodSplit
  <1>2. Cardinality(GoodIn(B, a, b)) \in Nat /\ Cardinality(GoodIn(B, b, c)) \in Nat
    BY GoodFinite
  <1> QED BY <1>1, <1>2

-----------------------------------------------------------------------------
(* Commands and where their images belong.                                    *)

LEMMA CommandFacts ==
    ASSUME NEW c \in Commands
    PROVE  /\ c.off \in 0..Size /\ c.off \in Nat /\ c.len \in Nat
           /\ c.yaffs \in BOOLEAN /\ c.aligned \in BOOLEAN
           /\ c \in Reads => c.op = "read" /\ ~c.yaffs /\ c.aligned
           /\ c \in Writes => c.op = "write"
           /\ c # NoCommand
  <1>1. CASE c \in Reads
    <2>1. PICK r \in Ranges :
             c = [op |-> "read", off |-> r.off, len |-> r.len, yaffs |-> FALSE, aligned |-> TRUE]
      BY <1>1 DEF Reads
    <2>2. c.op = "read" /\ c.off = r.off /\ c.len = r.len /\ c.yaffs = FALSE /\ c.aligned = TRUE
      BY <2>1
    <2>3. c \notin Writes /\ c # NoCommand
      BY <2>2 DEF Writes, NoCommand
    <2>4. c.off \in 0..Size /\ c.off \in Nat /\ c.len \in Nat
      BY <2>2, GeometryAssumption, Geometry
    <2> QED BY <2>2, <2>3, <2>4, Zenon
  <1>2. CASE c \in Writes
    <2>1. PICK r \in Ranges, y \in BOOLEAN, a \in BOOLEAN :
             c = [op |-> "write", off |-> r.off, len |-> r.len, yaffs |-> y, aligned |-> a]
      BY <1>2 DEF Writes
    <2>2. c.op = "write" /\ c.off = r.off /\ c.len = r.len /\ c.yaffs = y /\ c.aligned = a
      BY <2>1
    <2>3. c \notin Reads
      BY <2>2 DEF Reads
    <2> QED BY <2>2, <2>3, GeometryAssumption, Geometry DEF NoCommand
  <1> QED BY <1>1, <1>2 DEF Commands

LEMMA StartFacts ==
    ASSUME NEW B, NEW c \in Commands
    PROVE  StartIn(B, c) \in c.off..Size /\ StartIn(B, c) \in Nat
  <1>1. c.off \in 0..Size /\ c.off \in Nat /\ Size \in Nat
    BY CommandFacts, Geometry
  <1>2. CASE ~c.yaffs \/ GoodIn(B, c.off, Size) = {}
    BY <1>1, <1>2 DEF StartIn
  <1>3. CASE c.yaffs /\ GoodIn(B, c.off, Size) # {}
    <2>1. PICK m : m = Min(GoodIn(B, c.off, Size))
      OBVIOUS
    <2>2. GoodIn(B, c.off, Size) \subseteq Nat
      BY <1>1 DEF GoodIn
    <2>3. m \in GoodIn(B, c.off, Size)
      BY <1>3, <2>1, <2>2, MinIsLeast
    <2>4. m \in Nat /\ c.off <= m /\ m < Size
      BY <1>1, <2>3 DEF GoodIn
    <2>5. NextBlock(m) \in Nat /\ m < NextBlock(m) /\ NextBlock(m) <= Size
      BY <2>4, BlockEnd
    <2>6. StartIn(B, c) = NextBlock(m)
      BY <1>3, <2>1 DEF StartIn
    <2> QED BY <1>1, <2>4, <2>5, <2>6
  <1> QED BY <1>2, <1>3

LEMMA TargetIs ==
    ASSUME NEW B, NEW c \in Commands, NEW q
    PROVE  q \in TargetIn(B, c) <=> /\ q \in StartIn(B, c)..(Size - 1) /\ BlockOf(q) \notin B /\ IndexIn(B, c, q) < c.len
  BY DEF TargetIn, GoodIn

LEMMA TargetFacts ==
    ASSUME NEW B, NEW c \in Commands, NEW q \in TargetIn(B, c)
    PROVE  /\ q \in Nat /\ q \in Pages /\ StartIn(B, c) <= q /\ q < Size /\ BlockOf(q) \notin B
           /\ IndexIn(B, c, q) \in Nat /\ IndexIn(B, c, q) < c.len
  <1>1. StartIn(B, c) \in Nat /\ Size \in Nat
    BY StartFacts, Geometry
  <1>2. q \in StartIn(B, c)..(Size - 1) /\ BlockOf(q) \notin B /\ IndexIn(B, c, q) < c.len
    BY TargetIs
  <1>3. q \in Nat /\ q \in Pages /\ StartIn(B, c) <= q /\ q < Size
    BY <1>1, <1>2 DEF Pages
  <1>4. IndexIn(B, c, q) \in Nat
    BY <1>1, <1>3, GoodFinite DEF IndexIn
  <1> QED BY <1>2, <1>3, <1>4

(* A range with as many pages as the image, which fits: all are good, and the image
   belongs there page by page. *)
LEMMA AtOnceFacts ==
    ASSUME NEW c \in Commands, ~Outside(c), AtOnce(c), FitsIn(bad, c)
    PROVE  /\ c.off + c.len <= Size
           /\ \A q \in PagesFrom(c.off, c.len) :
                 q \in TargetIn(bad, c) /\ q \in Pages /\ BlockOf(q) \notin bad /\ IndexIn(bad, c, q) = q - c.off
           /\ \A q \in TargetIn(bad, c) : q \in PagesFrom(c.off, c.len)
  <1>1. c.off \in Nat /\ c.len \in Nat /\ c.off <= Size /\ Size \in Nat
    BY CommandFacts, Geometry
  <1>2. c.off + c.len <= Size
    <2>1. LenInclBad(c.off, c.len) = c.len /\ ~(c.off + LenInclBad(c.off, c.len) > Size)
      BY DEF AtOnce, Outside
    <2> QED BY <1>1, <2>1
  <1>3. CASE c.len = 0
    <2>1. PagesFrom(c.off, c.len) = {}
      BY <1>1, <1>3 DEF PagesFrom
    <2>2. TargetIn(bad, c) = {}
      BY <1>3, TargetFacts
    <2> QED BY <1>2, <2>1, <2>2
  <1>4. CASE c.len # 0
    <2>1. StartIn(bad, c) = c.off
      BY <1>4 DEF AtOnce, StartIn
    <2>2. Cardinality(GoodIn(bad, c.off, c.off + c.len)) >= c.len
      <3> DEFINE E == {e \in {b * EraseSize : b \in 1..(NBlocks + 1)} :
                          e > c.off /\ (Cardinality(GoodIn(bad, c.off, e)) >= c.len \/ e >= Size)}
      <3>1. E \subseteq Nat
        BY Geometry
      <3>2. E # {}
        <4>1. (NBlocks + 1) * EraseSize = Size + EraseSize /\ NBlocks + 1 \in 1..(NBlocks + 1)
          BY Geometry
        <4>2. (NBlocks + 1) * EraseSize > c.off /\ (NBlocks + 1) * EraseSize >= Size
          BY <1>1, <4>1, Geometry
        <4> QED BY <4>1, <4>2
      <3>3. LenInclBad(c.off, c.len) = Min(E) - c.off
        BY <1>4 DEF LenInclBad, Good, BadPage, GoodIn
      <3> HIDE DEF E
      <3>4. Min(E) \in E
        BY <3>1, <3>2, MinIsLeast
      <3>5. Min(E) = c.off + c.len
        <4>1. Min(E) \in Nat /\ Min(E) - c.off = c.len
          BY <3>1, <3>3, <3>4 DEF AtOnce
        <4> QED BY <1>1, <4>1
      <3>6. CASE Cardinality(GoodIn(bad, c.off, c.off + c.len)) >= c.len
        BY <3>6
      <3>7. CASE c.off + c.len >= Size
        <4>1. c.off + c.len = Size
          BY <1>1, <1>2, <3>7
        <4>2. TargetIn(bad, c) \subseteq GoodIn(bad, c.off, Size)
          BY <2>1 DEF TargetIn
        <4>good. IsFiniteSet(GoodIn(bad, c.off, Size)) /\ Cardinality(GoodIn(bad, c.off, Size)) \in Nat
          <5>1. c.off \in Int /\ Size \in Int
            BY <1>1
          <5> QED BY <5>1, GoodFinite, Zenon
        <4>3. Cardinality(TargetIn(bad, c)) <= Cardinality(GoodIn(bad, c.off, Size))
          BY <4>2, <4>good, FS_Subset
        <4>4. Cardinality(TargetIn(bad, c)) = c.len /\ Cardinality(GoodIn(bad, c.off, Size)) \in Nat
          BY <4>good DEF FitsIn
        <4> QED BY <1>1, <4>1, <4>3, <4>4
      <3> QED BY <3>4, <3>5, <3>6, <3>7 DEF E
    <2>3. c.off + c.len \in Int /\ c.off <= c.off + c.len /\ (c.off + c.len) - c.off = c.len
      BY <1>1
    <2>4. \A q \in c.off..((c.off + c.len) - 1) : BlockOf(q) \notin bad
      <3>1. Cardinality(GoodIn(bad, c.off, c.off + c.len)) >= (c.off + c.len) - c.off
        BY <2>2, <2>3
      <3> QED BY <1>1, <2>3, <3>1, GoodFull
    <2>5. ASSUME NEW q \in PagesFrom(c.off, c.len)
          PROVE  q \in TargetIn(bad, c) /\ q \in Pages /\ BlockOf(q) \notin bad /\ IndexIn(bad, c, q) = q - c.off
      <3>1. q \in c.off..((c.off + c.len) - 1) /\ q \in Int /\ q < Size /\ c.off <= q
            /\ q - c.off < c.len /\ q - c.off >= 0
        BY <1>1, <1>2 DEF PagesFrom
      <3>2. \A x \in c.off..(q - 1) : BlockOf(x) \notin bad
        BY <1>1, <2>4, <3>1
      <3>3. IndexIn(bad, c, q) = q - c.off
        BY <1>1, <2>1, <3>1, <3>2, GoodAll DEF IndexIn
      <3>4. BlockOf(q) \notin bad
        BY <2>4, <3>1
      <3>5. q \in Pages /\ q \in c.off..(Size - 1)
        BY <1>1, <3>1 DEF Pages
      <3>6. IndexIn(bad, c, q) < c.len
        BY <3>1, <3>3
      <3> QED BY <2>1, <3>3, <3>4, <3>5, <3>6, TargetIs
    <2>6. ASSUME NEW q \in TargetIn(bad, c) PROVE q \in PagesFrom(c.off, c.len)
      <3>1. q \in Nat /\ c.off <= q /\ IndexIn(bad, c, q) \in Nat /\ IndexIn(bad, c, q) < c.len
        BY <2>1, TargetFacts
      <3>2. SUFFICES ASSUME q >= c.off + c.len PROVE FALSE
        BY <1>1, <3>1 DEF PagesFrom
      <3>3. Cardinality(GoodIn(bad, c.off, c.off + c.len)) <= Cardinality(GoodIn(bad, c.off, q))
        BY <1>1, <2>3, <3>1, <3>2, GoodMore
      <3>4. IndexIn(bad, c, q) = Cardinality(GoodIn(bad, c.off, q))
        BY <2>1 DEF IndexIn
      <3>5. Cardinality(GoodIn(bad, c.off, c.off + c.len)) \in Nat
        <4>1. c.off \in Int
          BY <1>1
        <4> QED BY <2>3, <4>1, GoodFinite, Zenon
      <3> QED BY <1>1, <2>2, <3>1, <3>3, <3>4, <3>5
    <2> QED BY <1>2, <2>5, <2>6
  <1> QED BY <1>3, <1>4

-----------------------------------------------------------------------------
(* The loops.                                                                 *)

LEMMA LoopFacts ==
    ASSUME NandInv, pc # "idle"
    PROVE  /\ cmd \in Commands /\ cmd.off \in Nat /\ cmd.off <= Size /\ cmd.len \in Nat
           /\ offset \in Nat /\ left \in Nat /\ left >= 1 /\ left <= cmd.len
           /\ StartIn(bad, cmd) \in Nat /\ StartIn(bad, cmd) <= Size /\ cmd.off <= StartIn(bad, cmd)
           /\ length = cmd.len /\ pc = cmd.op /\ count \in 1..MaxCommands
  <1>1. cmd \in Commands /\ left >= 1 /\ length = cmd.len /\ pc = cmd.op /\ count >= 1
    BY DEF NandInv, Looping
  <1>2. cmd.off \in 0..Size /\ cmd.off \in Nat /\ cmd.len \in Nat /\ StartIn(bad, cmd) \in cmd.off..Size
        /\ StartIn(bad, cmd) \in Nat
    BY <1>1, CommandFacts, StartFacts
  <1>3. offset \in 0..Beyond /\ left \in 0..cmd.len /\ count \in 0..MaxCommands
    BY DEF NandInv, TypeOK
  <1> QED BY <1>1, <1>2, <1>3, Geometry, BoundAssumption

(* What one nand_write or nand_read of a loop is about: good pages, the next of
   the image. *)
LEMMA Aim ==
    ASSUME NandInv, pc # "idle", FALSE \in IsBad(offset), ~skip_fb, offset + Chunk <= Size
    PROVE  /\ Chunk \in 1..left /\ offset < Size
           /\ \A q \in PagesFrom(offset, Chunk) :
                 /\ q \in TargetIn(bad, cmd) /\ q \in Pages /\ BlockOf(q) \notin bad
                 /\ IndexIn(bad, cmd, q) = (cmd.len - left) + (q - offset)
           /\ \A q \in TargetIn(bad, cmd) :
                 q \in PagesFrom(offset, Chunk) \/ IndexIn(bad, cmd, q) < cmd.len - left
                                                \/ IndexIn(bad, cmd, q) >= (cmd.len - left) + Chunk
           /\ StartIn(bad, cmd) <= offset + Chunk
           /\ Cardinality(GoodIn(bad, StartIn(bad, cmd), offset + Chunk)) = (cmd.len - left) + Chunk
  <1>1. PICK o, k, S, n : o = offset /\ k = Chunk /\ S = StartIn(bad, cmd) /\ n = cmd.len - left
    OBVIOUS
  <1>2. /\ cmd \in Commands /\ o \in Nat /\ left \in Nat /\ left >= 1 /\ n \in Nat /\ S \in Nat
        /\ n + left = cmd.len /\ cmd.len \in Nat
    BY <1>1, LoopFacts
  <1>3. /\ NextBlock(o) \in Nat /\ o < NextBlock(o)
        /\ \A q \in o..(NextBlock(o) - 1) : BlockOf(q) = BlockOf(o)
    BY <1>2, BlockEnd
  <1>4. k \in 1..left /\ k \in Nat /\ o + k <= NextBlock(o)
    <2>1. NextBlock(o) - o \in Int /\ NextBlock(o) - o >= 1 /\ left \in Int
      BY <1>2, <1>3
    <2>2. k = IF left <= NextBlock(o) - o THEN left ELSE NextBlock(o) - o
      BY <1>1, <2>1, MinOfTwo DEF Chunk
    <2> QED BY <1>2, <1>3, <2>1, <2>2
  <1>5. o < Size /\ o + k <= Size /\ Size \in Nat
    BY <1>1, <1>2, <1>4, Geometry
  <1>6. BlockOf(o) \notin bad
    BY <1>1, <1>5 DEF IsBad, BadPage
  <1>7. S <= o /\ Cardinality(GoodIn(bad, S, o)) = n
    BY <1>1, <1>5 DEF NandInv, Position, InChip
  <1>8. \A q \in o..((o + k) - 1) : BlockOf(q) \notin bad /\ q \in Int /\ o <= q /\ q < o + k
    <2>1. \A q \in o..((o + k) - 1) : q \in o..(NextBlock(o) - 1)
      BY <1>2, <1>3, <1>4
    <2> QED BY <1>2, <1>3, <1>4, <1>6, <2>1 
  <1>9. ASSUME NEW b \in Int, o <= b, b <= o + k PROVE Cardinality(GoodIn(bad, S, b)) = n + (b - o)
    <2>1. \A q \in o..(b - 1) : BlockOf(q) \notin bad
      BY <1>2, <1>4, <1>8, <1>9
    <2>2. Cardinality(GoodIn(bad, o, b)) = b - o
      BY <1>2, <1>9, <2>1, GoodAll
    <2>3. Cardinality(GoodIn(bad, S, b)) = Cardinality(GoodIn(bad, S, o)) + Cardinality(GoodIn(bad, o, b))
      BY <1>2, <1>7, <1>9, GoodSplit
    <2> QED BY <1>7, <2>2, <2>3
  <1>10. ASSUME NEW q \in o..((o + k) - 1)
         PROVE  q \in TargetIn(bad, cmd) /\ q \in Pages /\ BlockOf(q) \notin bad /\ IndexIn(bad, cmd, q) = n + (q - o)
    <2>1. q \in Int /\ o <= q /\ q < o + k /\ BlockOf(q) \notin bad /\ q <= o + k
      BY <1>2, <1>4, <1>8
    <2>2. IndexIn(bad, cmd, q) = n + (q - o)
      BY <1>1, <1>9, <2>1 DEF IndexIn
    <2>3. IndexIn(bad, cmd, q) < cmd.len
      BY <1>2, <1>4, <2>1, <2>2
    <2>4. q \in S..(Size - 1) /\ q \in Pages
      BY <1>2, <1>4, <1>5, <1>7, <2>1 DEF Pages
    <2> QED BY <1>1, <1>2, <2>1, <2>2, <2>3, <2>4, TargetIs
  <1>11. ASSUME NEW q \in TargetIn(bad, cmd), q \notin o..((o + k) - 1)
         PROVE  IndexIn(bad, cmd, q) < n \/ IndexIn(bad, cmd, q) >= n + k
    <2>1. q \in Nat /\ S <= q /\ BlockOf(q) \notin bad /\ IndexIn(bad, cmd, q) \in Nat
      BY <1>1, <1>2, TargetFacts
    <2>2. IndexIn(bad, cmd, q) = Cardinality(GoodIn(bad, S, q))
      BY <1>1 DEF IndexIn
    <2>3. CASE q < o
      <3>1. Cardinality(GoodIn(bad, S, q)) + 1 <= n
        BY <1>2, <1>7, <2>1, <2>3, GoodNext
      <3> QED BY <1>2, <2>1, <2>2, <3>1
    <2>4. CASE q >= o + k
      <3>1. Cardinality(GoodIn(bad, S, o + k)) = n + ((o + k) - o) /\ o + k \in Int /\ S <= o + k
        BY <1>2, <1>4, <1>7, <1>9
      <3>2. Cardinality(GoodIn(bad, S, o + k)) <= Cardinality(GoodIn(bad, S, q))
        BY <1>2, <2>1, <2>4, <3>1, GoodMore
      <3> QED BY <1>2, <1>4, <2>1, <2>2, <3>1, <3>2
    <2> QED BY <1>2, <1>4, <1>11, <2>1, <2>3, <2>4
  <1>12. S <= o + k /\ Cardinality(GoodIn(bad, S, o + k)) = n + k
    <2>1. o + k \in Int /\ o <= o + k /\ o + k <= o + k /\ (o + k) - o = k
      BY <1>2, <1>4
    <2> QED BY <1>2, <1>4, <1>7, <1>9, <2>1
  <1>13. PagesFrom(offset, Chunk) = o..((o + k) - 1)
    BY <1>1, <1>2, <1>4 DEF PagesFrom
  <1> QED BY <1>1, <1>4, <1>5, <1>10, <1>11, <1>12, <1>13

(* Where the loops stand after they have skipped a block. *)
LEMMA SkipFacts ==
    ASSUME NandInv, pc # "idle", SkipBlock
    PROVE  /\ offset' \in 0..Beyond /\ offset <= offset'
           /\ offset < Size => offset' = NextBlock(offset) /\ offset' <= Size
           /\ offset >= Size => offset' = Beyond
  <1>1. offset \in Nat /\ offset <= Beyond
    BY Geometry DEF NandInv, TypeOK
  <1>2. /\ NextBlock(offset) \in Nat /\ offset < NextBlock(offset)
        /\ offset < Size => NextBlock(offset) <= Size
        /\ offset >= Size => NextBlock(offset) >= Beyond
    BY <1>1, BlockEnd
  <1>3. offset' = IF NextBlock(offset) <= Beyond THEN NextBlock(offset) ELSE Beyond
    BY <1>2, Geometry, MinOfTwo DEF SkipBlock
  <1> QED BY <1>1, <1>2, <1>3, Geometry

(* The rest of a bad block holds no good page. *)
LEMMA SkipBadCount ==
    ASSUME NandInv, pc # "idle", SkipBlock, TRUE \in IsBad(offset), NEW a \in Nat, a <= offset, a <= Size
    PROVE  /\ Cardinality(GoodIn(bad, a, InChip(offset'))) = Cardinality(GoodIn(bad, a, InChip(offset)))
           /\ GoodIn(bad, a, InChip(offset)) = {} => GoodIn(bad, a, InChip(offset')) = {}
  <1>1. PICK o, p : o = offset /\ p = offset'
    OBVIOUS
  <1>2. /\ o \in Nat /\ p \in Nat /\ Size \in Nat /\ o <= p
        /\ o < Size => p = NextBlock(o) /\ p <= Size
        /\ o >= Size => p = Beyond
    BY <1>1, LoopFacts, SkipFacts, Geometry
  <1>3. CASE o >= Size
    <2>1. InChip(o) = Size /\ InChip(p) = Size
      BY <1>2, <1>3, Geometry DEF InChip
    <2> QED BY <1>1, <2>1
  <1>4. CASE o < Size
    <2>1. InChip(o) = o /\ InChip(p) = p
      BY <1>2, <1>4 DEF InChip
    <2>2. \A q \in o..(p - 1) : BlockOf(q) = BlockOf(o)
      BY <1>2, <1>4, BlockEnd
    <2>3. BlockOf(o) \in bad
      BY <1>1, <1>4 DEF IsBad, BadPage
    <2>4. \A q \in o..(p - 1) : BlockOf(q) \in bad
      BY <2>2, <2>3
    <2>5. GoodIn(bad, o, p) = {} /\ Cardinality(GoodIn(bad, o, p)) = 0
      BY <1>2, <2>4, GoodNone
    <2>6. Cardinality(GoodIn(bad, a, p)) = Cardinality(GoodIn(bad, a, o)) + Cardinality(GoodIn(bad, o, p))
      BY <1>1, <1>2, GoodSplit
    <2>7. Cardinality(GoodIn(bad, a, o)) \in Nat
      <3>1. a \in Int /\ o \in Int
        BY <1>2
      <3> QED BY <3>1, GoodFinite, Zenon
    <2>8. GoodIn(bad, a, o) = {} => GoodIn(bad, a, p) = {}
      BY <1>1, <1>2, <2>5 DEF GoodIn
    <2> QED BY <1>1, <2>1, <2>5, <2>6, <2>7, <2>8
  <1> QED BY <1>2, <1>3, <1>4

-----------------------------------------------------------------------------
(* The steps of the loops.                                                    *)

(* A block is skipped: nothing but the offset, or skip_fb, changes. *)
LEMMA SkipStep ==
    ASSUME NandInv, SkipBadBlock \/ SkipFirstGood
    PROVE  NandInv'
  <1>1. /\ pc # "idle" /\ SkipBlock
        /\ UNCHANGED <<bad, mem, ops_mode, faults, pc, cmd, count, left, got, result, length, clean, last>>
    BY DEF SkipBadBlock, SkipFirstGood, Running, flash, history
  <1>2. offset' \in 0..Beyond /\ offset <= offset'
    BY <1>1, SkipFacts
  <1>3. skip_fb' \in BOOLEAN /\ (skip_fb' => skip_fb)
    <2>1. skip_fb' = skip_fb \/ skip_fb' = FALSE
      BY DEF SkipBadBlock, SkipFirstGood
    <2>2. skip_fb \in BOOLEAN
      BY DEF NandInv, TypeOK
    <2>3. CASE skip_fb' = skip_fb
      BY <2>2, <2>3
    <2>4. CASE skip_fb' = FALSE
      BY <2>4
    <2> QED BY <2>1, <2>3, <2>4
  <1>4. TypeOK' /\ (got \in Seq(Cells))'
    BY <1>1, <1>2, <1>3 DEF NandInv, TypeOK
  <1>5. Looping' /\ Written' /\ ReadSoFar' /\ ReadDone' /\ WriteDone' /\ Kept'
    BY <1>1, <1>3 DEF NandInv, Looping, Written, ReadSoFar, ReadDone, WriteDone, Kept
  <1>6. PICK c, o, p, S : c = cmd /\ o = offset /\ p = offset' /\ S = StartIn(bad, cmd)
    OBVIOUS
  <1>7. /\ c \in Commands /\ c.off \in Nat /\ c.off <= Size /\ o \in Nat /\ p \in Nat /\ o <= p
        /\ S \in Nat /\ S <= Size /\ Size \in Nat /\ left \in Nat /\ c.len \in Nat
    BY <1>1, <1>2, <1>6, LoopFacts, Geometry
  <1>8. Position'
    <2>1. CASE SkipBadBlock
      <3>1. TRUE \in IsBad(offset) /\ skip_fb' = skip_fb
        BY <2>1 DEF SkipBadBlock
      <3>2. CASE skip_fb
        <4>1. left = c.len /\ c.off <= o /\ GoodIn(bad, c.off, InChip(offset)) = {}
          BY <1>1, <1>6, <3>2 DEF NandInv, Position
        <4>2. GoodIn(bad, c.off, InChip(offset')) = {}
          BY <1>1, <1>6, <1>7, <3>1, <4>1, SkipBadCount
        <4>3. c.off <= offset'
          BY <1>6, <1>7, <4>1
        <4> QED BY <1>1, <1>6, <3>1, <3>2, <4>1, <4>2, <4>3 DEF Position, InChip
      <3>3. CASE ~skip_fb
        <4>1. S <= o /\ Cardinality(GoodIn(bad, S, InChip(offset))) = c.len - left
          BY <1>1, <1>6, <3>3 DEF NandInv, Position
        <4>2. Cardinality(GoodIn(bad, S, InChip(offset'))) = c.len - left
          BY <1>1, <1>6, <1>7, <3>1, <4>1, SkipBadCount
        <4>3. S <= offset'
          BY <1>6, <1>7, <4>1
        <4> QED BY <1>1, <1>6, <3>1, <3>3, <4>2, <4>3 DEF Position, InChip
      <3> QED BY <3>2, <3>3
    <2>2. CASE SkipFirstGood
      <3>1. FALSE \in IsBad(offset) /\ skip_fb /\ skip_fb' = FALSE
        BY <2>2 DEF SkipFirstGood
      <3>2. left = c.len /\ c.off <= o /\ GoodIn(bad, c.off, InChip(o)) = {} /\ c.yaffs
        BY <1>1, <1>6, <3>1 DEF NandInv, Position, Looping
      <3>3. S = InChip(p)
        <4>1. CASE o >= Size
          <5>1. InChip(o) = Size /\ InChip(p) = Size
            BY <1>7, <4>1 DEF InChip
          <5> QED BY <1>6, <3>2, <5>1 DEF StartIn
        <4>2. CASE o < Size
          <5>1. InChip(o) = o /\ BlockOf(o) \notin bad /\ p = NextBlock(o) /\ p <= Size
            BY <1>1, <1>6, <3>1, <4>2, SkipFacts DEF InChip, IsBad, BadPage
          <5>2. o \in GoodIn(bad, c.off, Size)
            BY <1>7, <3>2, <4>2, <5>1 DEF GoodIn
          <5>3. \A y \in GoodIn(bad, c.off, Size) : o <= y
            BY <1>7, <3>2, <5>1 DEF GoodIn
          <5>4. GoodIn(bad, c.off, Size) \subseteq Nat
            BY <1>7 DEF GoodIn
          <5>5. Min(GoodIn(bad, c.off, Size)) = o
            <6>1. PICK m : m = Min(GoodIn(bad, c.off, Size))
              OBVIOUS
            <6>2. m \in GoodIn(bad, c.off, Size) /\ m <= o
              BY <5>2, <5>4, <6>1, MinIsLeast
            <6>3. o <= m /\ m \in Nat
              BY <5>3, <5>4, <6>2
            <6> QED BY <1>7, <6>1, <6>2, <6>3
          <5>6. S = NextBlock(o)
            BY <1>6, <3>2, <5>2, <5>5 DEF StartIn
          <5> QED BY <1>7, <5>1, <5>6 DEF InChip
        <4> QED BY <1>7, <4>1, <4>2
      <3>4. Cardinality(GoodIn(bad, S, InChip(p))) = 0 /\ S <= p
        <4>1. \A q \in S..(InChip(p) - 1) : BlockOf(q) \in bad
          BY <1>7, <3>3
        <4>2. InChip(p) \in Int /\ S \in Int
          BY <1>7, <3>3
        <4>3. S <= p
          BY <1>7, <3>3 DEF InChip
        <4> QED BY <4>1, <4>2, <4>3, GoodNone
      <3>5. c.len - left = 0
        BY <1>7, <3>2
      <3> QED BY <1>1, <1>6, <3>1, <3>4, <3>5 DEF Position, InChip
    <2> QED BY <2>1, <2>2
  <1> QED BY <1>4, <1>5, <1>8 DEF NandInv

(* Past the end of the chip nothing is read or written. *)
LEMMA PastEndStep ==
    ASSUME NandInv, PastEnd
    PROVE  NandInv'
  <1>1. /\ pc # "idle" /\ pc' = "idle" /\ result' = "error" /\ length' = length - left
        /\ offset' = 0 /\ left' = 0 /\ skip_fb' = FALSE
        /\ last' = IF pc = "read" THEN last ELSE NoCommand
        /\ UNCHANGED <<bad, mem, ops_mode, faults, cmd, count, got, clean>>
    BY DEF PastEnd, Running, Ends, Locals, flash
  <1>2. /\ cmd.len \in Nat /\ left \in Nat /\ left <= cmd.len /\ length = cmd.len /\ cmd.op = pc
        /\ pc \in {"write", "read"}
    BY <1>1, LoopFacts DEF NandInv, TypeOK
  <1>3. TypeOK' /\ (got \in Seq(Cells))'
    <2>1. offset' \in 0..Beyond /\ left' \in 0..cmd'.len /\ length' \in 0..cmd'.len
      BY <1>1, <1>2, Geometry
    <2>2. skip_fb' \in BOOLEAN /\ last' \in Writes \cup {NoCommand}
      BY <1>1 DEF NandInv, TypeOK
    <2> QED BY <1>1, <2>1, <2>2 DEF NandInv, TypeOK
  <1>4. Looping' /\ Position' /\ Written' /\ ReadSoFar' /\ ReadDone'
    BY <1>1 DEF Looping, Position, Written, ReadSoFar, ReadDone
  <1>5. Kept'
    BY <1>1, <1>2 DEF NandInv, Kept
  <1>6. WriteDone'
    BY <1>1, <1>2 DEF NandInv, WriteDone, Written
  <1> QED BY <1>3, <1>4, <1>5, <1>6 DEF NandInv

(* Of the k pages from from on, done pages were programmed, with the image from its page j
   on, and no other page was changed. *)
NandWritten(from, k, j, done) ==
    /\ mem' \in [Pages -> Cells] /\ ops_mode' \in {"ECC", "RAW"} /\ faults' \in 0..MaxFaults
    /\ done <= k
    /\ \A q \in Pages : q \notin PagesFrom(from, k) => mem'[q] = mem[q]
    /\ \A q \in PagesFrom(from, done) : mem[q] = Erased /\ BlockOf(q) \notin bad =>
          mem'[q].img = count' /\ mem'[q].page = j + (q - from)

(* The memory P after done of the k pages from from on were programmed with the image of
   a command from its page j on. *)
Programmed(P, from, k, j, done) ==
    /\ P \in [Pages -> Cells]
    /\ \A q \in Pages : q \notin PagesFrom(from, done) => P[q] = mem[q]
    /\ \A q \in PagesFrom(from, done) :
          /\ q \in Pages /\ q \in PagesFrom(from, k) /\ q # from + done
          /\ mem[q] = Erased /\ BlockOf(q) \notin bad =>
                 P[q].img = count' /\ P[q].page = j + (q - from)

LEMMA ProgramFacts ==
    ASSUME TypeOK, NEW c, NEW from \in Nat, NEW k \in Nat, NEW j \in Nat, NEW done \in Nat,
           done <= k, from + k <= Size, count' \in 0..MaxCommands,
           NEW P, P = Program(c, PagesFrom(from, done), from, j)
    PROVE  Programmed(P, from, k, j, done)
  <1>1. mem \in [Pages -> Cells] /\ Size \in Nat
    BY Geometry DEF TypeOK, Cells
  <1>2. \A q \in PagesFrom(from, done) : q \in Nat /\ q \in Pages /\ q \in PagesFrom(from, k)
                                         /\ q - from \in Nat /\ q # from + done
    BY <1>1 DEF PagesFrom, Pages
  <1>3. Torn \in Cells
    BY BoundAssumption DEF Torn, Cells
  <1>4. ASSUME NEW q \in PagesFrom(from, done)
        PROVE  /\ Image(c, j + (q - from)) \in Cells
               /\ Image(c, j + (q - from)).img = count' /\ Image(c, j + (q - from)).page = j + (q - from)
    <2>1. j + (q - from) \in Nat
      BY <1>2
    <2>2. (~c.yaffs /\ ops_mode # "RAW") \in BOOLEAN
      OBVIOUS
    <2> QED BY <2>1, <2>2 DEF Image, Cells
  <1>5. P \in [Pages -> Cells]
    BY <1>1, <1>3, <1>4 DEF Program
  <1>6. /\ \A q \in Pages : q \notin PagesFrom(from, done) => P[q] = mem[q]
        /\ \A q \in PagesFrom(from, done) : mem[q] = Erased /\ BlockOf(q) \notin bad =>
              P[q].img = count' /\ P[q].page = j + (q - from)
    BY <1>2, <1>4 DEF Program, BadPage
  <1> QED BY <1>2, <1>5, <1>6 DEF Programmed

(* nand_write: the pages that it has done hold the image, if they were erased and
   good, and those outside its range are not touched. *)
LEMMA NandWriteFacts ==
    ASSUME TypeOK, NEW from \in Nat, NEW k \in Nat, NEW j \in Nat, NEW done \in Nat, from + k <= Size,
           NandWrite(from, k, j, done), count' \in 0..MaxCommands
    PROVE  NandWritten(from, k, j, done)
  <1>1. PICK c, P : c = cmd' /\ P = Program(c, PagesFrom(from, done), from, j)
    OBVIOUS
  <1>2. \/ done = k /\ mem' = P /\ UNCHANGED faults
        \/ /\ done < k /\ faults < MaxFaults /\ faults' = faults + 1
           /\ mem' = [P EXCEPT ![from + done] = Torn]
    BY <1>1 DEF NandWrite
  <1>3. ops_mode' \in {"ECC", "RAW"} /\ faults' \in 0..MaxFaults /\ done <= k
    BY <1>2, BoundAssumption DEF NandWrite, SetOpsMode, TypeOK
  <1>4. /\ P \in [Pages -> Cells]
        /\ \A q \in Pages : q \notin PagesFrom(from, done) => P[q] = mem[q]
        /\ \A q \in PagesFrom(from, done) :
              /\ q \in Pages /\ q \in PagesFrom(from, k) /\ q # from + done
              /\ mem[q] = Erased /\ BlockOf(q) \notin bad =>
                     P[q].img = count' /\ P[q].page = j + (q - from)
    <2>1. P = Program(c, PagesFrom(from, done), from, j) /\ done <= k
      BY <1>1, <1>3
    <2>2. Programmed(P, from, k, j, done)
      BY <2>1, ProgramFacts
    <2> QED BY <2>2 DEF Programmed
  <1>5. mem' \in [Pages -> Cells]
    <2>1. Torn \in Cells
      BY BoundAssumption DEF Torn, Cells
    <2> QED BY <1>2, <1>4, <2>1
  <1>6. ASSUME NEW q \in Pages, q \notin PagesFrom(from, k) PROVE mem'[q] = mem[q]
    <2>1. q \notin PagesFrom(from, done)
      BY <1>4, <1>6
    <2>2. done < k => q # from + done
      BY <1>6 DEF PagesFrom
    <2> QED BY <1>2, <1>4, <2>1, <2>2
  <1>7. \A q \in PagesFrom(from, done) : mem'[q] = P[q]
    BY <1>2, <1>4
  <1> QED BY <1>3, <1>4, <1>5, <1>6, <1>7 DEF NandWritten

(* A write that is cut off does not reach further. *)
LEMMA CutOffFacts ==
    ASSUME TypeOK, NEW c, NEW from \in Nat, NEW k \in Nat, NEW j \in Nat, from + k <= Size,
           CutOff(c, from, k, j), count' \in 0..MaxCommands
    PROVE  /\ mem' \in [Pages -> Cells]
           /\ \A q \in Pages : q \notin PagesFrom(from, k) => mem'[q] = mem[q]
  <1>0. PICK done \in 0..(k - 1) :
            LET programmed == Program(c, PagesFrom(from, done), from, j)
            IN mem' = programmed \/ mem' = [programmed EXCEPT ![from + done] = Torn]
    BY DEF CutOff
  <1>1. PICK P :
            /\ P = Program(c, PagesFrom(from, done), from, j)
            /\ mem' = P \/ mem' = [P EXCEPT ![from + done] = Torn]
    BY <1>0
  <1>2. done \in Nat /\ done < k /\ done <= k
    OBVIOUS
  <1>3. /\ P \in [Pages -> Cells]
        /\ \A q \in Pages : q \notin PagesFrom(from, done) => P[q] = mem[q]
        /\ \A q \in PagesFrom(from, done) : q \in PagesFrom(from, k)
    <2>1. P = Program(c, PagesFrom(from, done), from, j)
      BY <1>1
    <2>2. Programmed(P, from, k, j, done)
      BY <1>2, <2>1, ProgramFacts
    <2> QED BY <2>2 DEF Programmed
  <1>4. Torn \in Cells
    BY BoundAssumption DEF Torn, Cells
  <1>5. from + done \in PagesFrom(from, k)
    BY <1>2 DEF PagesFrom
  <1> QED BY <1>1, <1>3, <1>4, <1>5

(* A chunk is written: to pages of the image and no other. *)
LEMMA ChunkWritten ==
    ASSUME NandInv, NEW done \in 0..EraseSize, WriteChunk(done)
    PROVE  /\ mem' \in [Pages -> Cells] /\ ops_mode' \in {"ECC", "RAW"} /\ faults' \in 0..MaxFaults
           /\ done <= Chunk
           /\ \A q \in Pages : q \notin PagesFrom(offset, Chunk) => mem'[q] = mem[q]
           /\ done = Chunk /\ clean => \A q \in PagesFrom(offset, Chunk) : HoldsIn(mem', bad, cmd, q, count)
  <1>1. /\ pc # "idle" /\ pc = "write" /\ FALSE \in IsBad(offset) /\ ~skip_fb /\ offset + Chunk <= Size
        /\ NandWrite(offset, Chunk, cmd.len - left, done) /\ count' = count
    BY DEF WriteChunk, AtChunk, Running
  <1>2. /\ Chunk \in 1..left
        /\ \A q \in PagesFrom(offset, Chunk) :
              /\ q \in TargetIn(bad, cmd) /\ q \in Pages /\ BlockOf(q) \notin bad
              /\ IndexIn(bad, cmd, q) = (cmd.len - left) + (q - offset)
    BY <1>1, Aim
  <1>3. PICK k, j : k = Chunk /\ j = cmd.len - left
    OBVIOUS
  <1>4. offset \in Nat /\ k \in Nat /\ j \in Nat /\ done \in Nat /\ offset + k <= Size
        /\ count' \in 0..MaxCommands /\ NandWrite(offset, k, j, done) /\ TypeOK
    <2>1. offset \in Nat /\ left \in Nat /\ cmd.len \in Nat /\ left <= cmd.len /\ count \in 0..MaxCommands
      BY <1>1, LoopFacts DEF NandInv, TypeOK
    <2>2. k \in Nat /\ j \in Nat /\ done \in Nat
      BY <1>2, <1>3, <2>1, Geometry
    <2>3. offset + k <= Size /\ NandWrite(offset, k, j, done)
      BY <1>1, <1>3
    <2> QED BY <1>1, <2>1, <2>2, <2>3 DEF NandInv
  <1>5. /\ mem' \in [Pages -> Cells] /\ ops_mode' \in {"ECC", "RAW"} /\ faults' \in 0..MaxFaults
        /\ done <= k
        /\ \A q \in Pages : q \notin PagesFrom(offset, k) => mem'[q] = mem[q]
        /\ \A q \in PagesFrom(offset, done) : mem[q] = Erased /\ BlockOf(q) \notin bad =>
              mem'[q].img = count' /\ mem'[q].page = j + (q - offset)
    <2>1. PICK o : o = offset
      OBVIOUS
    <2>2. o \in Nat /\ o + k <= Size /\ NandWrite(o, k, j, done)
      BY <1>4, <2>1
    <2>3. /\ mem' \in [Pages -> Cells] /\ ops_mode' \in {"ECC", "RAW"} /\ faults' \in 0..MaxFaults
          /\ done <= k
          /\ \A q \in Pages : q \notin PagesFrom(o, k) => mem'[q] = mem[q]
          /\ \A q \in PagesFrom(o, done) : mem[q] = Erased /\ BlockOf(q) \notin bad =>
                mem'[q].img = count' /\ mem'[q].page = j + (q - o)
      <3>1. NandWritten(o, k, j, done)
        BY <1>4, <2>2, NandWriteFacts
      <3> QED BY <3>1 DEF NandWritten
    <2> QED BY <2>1, <2>3
  <1>6. ASSUME done = k, clean, NEW q \in PagesFrom(offset, k) PROVE HoldsIn(mem', bad, cmd, q, count)
    <2>1. q \in TargetIn(bad, cmd) /\ BlockOf(q) \notin bad /\ IndexIn(bad, cmd, q) = j + (q - offset)
      BY <1>2, <1>3, <1>6
    <2>2. IndexIn(bad, cmd, q) >= j
      BY <1>4, <1>6, <2>1 DEF PagesFrom
    <2>3. mem[q] = Erased
      <3>1. ~(IndexIn(bad, cmd, q) < cmd.len - left)
        <4>1. q - offset \in Int
          BY <1>4, <1>6 DEF PagesFrom
        <4> QED BY <1>3, <1>4, <2>1, <2>2, <4>1
      <3> QED BY <1>1, <1>6, <2>1, <3>1 DEF NandInv, Written
    <2> QED BY <1>1, <1>5, <1>6, <2>1, <2>3 DEF HoldsIn
  <1> QED BY <1>3, <1>5, <1>6

LEMMA WriteChunkStep ==
    ASSUME NandInv, NEW done \in 0..EraseSize, WriteChunk(done)
    PROVE  NandInv'
  <1>1. /\ pc # "idle" /\ pc = "write" /\ FALSE \in IsBad(offset) /\ ~skip_fb /\ offset + Chunk <= Size
        /\ UNCHANGED <<bad, got, clean, cmd, count>>
        /\ IF done = Chunk THEN Advance(Chunk) /\ UNCHANGED last
           ELSE Ends("error", length - left) /\ last' = NoCommand
    BY DEF WriteChunk, AtChunk, Running
  <1>2. PICK k, n, L, B, c : k = Chunk /\ n = cmd.len - left /\ L = cmd.len /\ B = bad /\ c = cmd
    OBVIOUS
  <1>3. /\ mem' \in [Pages -> Cells] /\ ops_mode' \in {"ECC", "RAW"} /\ faults' \in 0..MaxFaults
        /\ \A q \in Pages : q \notin PagesFrom(offset, k) => mem'[q] = mem[q]
        /\ done = k /\ clean => \A q \in PagesFrom(offset, k) : HoldsIn(mem', B, c, q, count)
    BY <1>2, ChunkWritten
  <1>4. /\ k \in 1..left /\ offset < Size
        /\ \A q \in PagesFrom(offset, k) : IndexIn(B, c, q) = n + (q - offset)
        /\ \A q \in TargetIn(B, c) :
              q \in PagesFrom(offset, k) \/ IndexIn(B, c, q) < n \/ IndexIn(B, c, q) >= n + k
        /\ StartIn(B, c) <= offset + k
        /\ Cardinality(GoodIn(B, StartIn(B, c), offset + k)) = n + k
    BY <1>1, <1>2, Aim
  <1>5. /\ c \in Commands /\ L \in Nat /\ offset \in Nat /\ left \in Nat /\ left <= L /\ n \in Nat
        /\ n + left = L /\ length = L /\ c.op = "write" /\ c.len = L /\ Size \in Nat /\ k \in Nat
        /\ count \in 1..MaxCommands /\ Size <= Beyond
    BY <1>1, <1>2, <1>4, LoopFacts, Geometry
  <1>6. \A q \in TargetIn(B, c) : q \in Pages /\ IndexIn(B, c, q) \in Nat /\ IndexIn(B, c, q) < L
    BY <1>5, TargetFacts
  <1>7. \A q \in PagesFrom(offset, k) : IndexIn(B, c, q) >= n /\ IndexIn(B, c, q) < n + k
    BY <1>4, <1>5 DEF PagesFrom
  <1>8. clean => \A q \in TargetIn(B, c) :
                    IF IndexIn(B, c, q) < n THEN HoldsIn(mem, B, c, q, count) ELSE mem[q] = Erased
    BY <1>1, <1>2 DEF NandInv, Written
  <1>9. clean => \A q \in TargetIn(B, c) : IndexIn(B, c, q) < n => HoldsIn(mem', B, c, q, count)
    <2>1. SUFFICES ASSUME clean, NEW q \in TargetIn(B, c), IndexIn(B, c, q) < n
                   PROVE  HoldsIn(mem', B, c, q, count)
      OBVIOUS
    <2>2. q \in Pages /\ q \notin PagesFrom(offset, k)
      BY <1>5, <1>6, <1>7, <2>1
    <2>3. mem'[q] = mem[q] /\ HoldsIn(mem, B, c, q, count)
      BY <1>3, <1>8, <2>1, <2>2
    <2> QED BY <2>3 DEF HoldsIn
  <1>10. got \in Seq(Cells) /\ Len(got) <= L /\ clean \in BOOLEAN /\ bad \subseteq Blocks
         /\ last \in Writes \cup {NoCommand}
    BY <1>2 DEF NandInv, TypeOK
  <1>11. CASE done # k
    <2>1. /\ pc' = "idle" /\ result' = "error" /\ length' = n /\ last' = NoCommand
          /\ offset' = 0 /\ left' = 0 /\ skip_fb' = FALSE
      BY <1>1, <1>2, <1>5, <1>11 DEF Ends, Locals
    <2>2. TypeOK' /\ (got \in Seq(Cells))'
      <3>1. offset' \in 0..Beyond /\ left' \in 0..cmd'.len /\ length' \in 0..cmd'.len
        BY <1>1, <1>2, <1>5, <2>1, Geometry
      <3>2. skip_fb' \in BOOLEAN
        BY <2>1
      <3> QED BY <1>1, <1>2, <1>3, <1>5, <1>10, <2>1, <3>1, <3>2 DEF TypeOK, NandInv, Cells
    <2>3. Looping' /\ Position' /\ Written' /\ ReadSoFar' /\ ReadDone' /\ Kept'
      BY <2>1 DEF Looping, Position, Written, ReadSoFar, ReadDone, Kept
    <2>4. WriteDone'
      BY <1>1, <1>2, <1>9, <2>1 DEF WriteDone
    <2> QED BY <2>2, <2>3, <2>4 DEF NandInv
  <1>12. CASE done = k /\ k = left
    <2>1. /\ pc' = "idle" /\ result' = "ok" /\ length' = L /\ last' = last
          /\ offset' = 0 /\ left' = 0 /\ skip_fb' = FALSE
      BY <1>1, <1>2, <1>5, <1>12 DEF Advance, Ends, Locals
    <2>2. TypeOK' /\ (got \in Seq(Cells))'
      <3>1. offset' \in 0..Beyond /\ left' \in 0..cmd'.len /\ length' \in 0..cmd'.len
        BY <1>1, <1>2, <1>5, <2>1, Geometry
      <3>2. skip_fb' \in BOOLEAN
        BY <2>1
      <3> QED BY <1>1, <1>2, <1>3, <1>5, <1>10, <2>1, <3>1, <3>2 DEF TypeOK, NandInv, Cells
    <2>3. Looping' /\ Position' /\ Written' /\ ReadSoFar' /\ ReadDone'
      BY <1>1, <1>2, <1>5, <2>1 DEF Looping, Position, Written, ReadSoFar, ReadDone
    <2>4. clean => \A q \in TargetIn(B, c) : HoldsIn(mem', B, c, q, count)
      <3>1. SUFFICES ASSUME clean, NEW q \in TargetIn(B, c) PROVE HoldsIn(mem', B, c, q, count)
        OBVIOUS
      <3>2. q \in PagesFrom(offset, k) \/ IndexIn(B, c, q) < n
        BY <1>4, <1>5, <1>6, <1>12
      <3> QED BY <1>3, <1>9, <1>12, <3>1, <3>2
    <2>5. WriteDone'
      BY <1>1, <1>2, <2>1, <2>4 DEF WriteDone
    <2>6. Kept'
      BY <1>1, <1>2, <1>5, <2>1, <2>4 DEF NandInv, Kept
    <2> QED BY <2>2, <2>3, <2>5, <2>6 DEF NandInv
  <1>13. CASE done = k /\ k # left
    <2>1. /\ left' = left - k /\ offset' = offset + k /\ last' = last
          /\ UNCHANGED <<pc, result, length, skip_fb>>
      BY <1>1, <1>2, <1>13 DEF Advance
    <2>2. left' \in Nat /\ left' >= 1 /\ left' <= L /\ L - left' = n + k /\ offset' \in Nat
          /\ offset' <= Size
      BY <1>1, <1>2, <1>4, <1>5, <1>13, <2>1
    <2>3. TypeOK' /\ (got \in Seq(Cells))'
      <3>1. offset' \in 0..Beyond /\ left' \in 0..cmd'.len /\ length' \in 0..cmd'.len
        BY <1>1, <1>2, <1>5, <2>1, <2>2, Geometry
      <3> QED BY <1>1, <1>2, <1>3, <1>5, <1>10, <2>1, <3>1 DEF TypeOK, NandInv, Cells
    <2>4. Looping' /\ ReadSoFar' /\ ReadDone' /\ WriteDone' /\ Kept'
      BY <1>1, <2>1, <2>2 DEF NandInv, Looping, ReadSoFar, ReadDone, WriteDone, Kept
    <2>5. Position'
      <3>1. InChip(offset') = offset + k
        BY <1>5, <2>1, <2>2 DEF InChip
      <3>2. StartIn(B, c) <= offset' /\ Cardinality(GoodIn(B, StartIn(B, c), InChip(offset'))) = L - left'
        BY <1>4, <2>1, <2>2, <3>1
      <3> QED BY <1>1, <1>2, <2>1, <3>2 DEF Position, InChip
    <2>6. Written'
      <3>1. SUFFICES ASSUME clean, NEW q \in TargetIn(B, c)
                     PROVE  IF IndexIn(B, c, q) < L - left' THEN HoldsIn(mem', B, c, q, count)
                            ELSE mem'[q] = Erased
        BY <1>1, <1>2 DEF Written
      <3>2. CASE q \in PagesFrom(offset, k)
        BY <1>3, <1>7, <1>13, <2>2, <3>1, <3>2
      <3>3. CASE q \notin PagesFrom(offset, k) /\ IndexIn(B, c, q) < n
        <4>1. HoldsIn(mem', B, c, q, count)
          BY <1>9, <3>1, <3>3
        <4>2. PICK x : x = IndexIn(B, c, q)
          OBVIOUS
        <4>3. x \in Nat /\ x < n
          BY <1>6, <3>1, <3>3, <4>2
        <4>4. x < L - left'
          <5>1. x < n + k
            BY <1>5, <4>3
          <5>2. L - left' = n + k
            BY <2>2
          <5> QED BY <5>1, <5>2
        <4> QED BY <4>1, <4>2, <4>4
      <3>4. CASE q \notin PagesFrom(offset, k) /\ IndexIn(B, c, q) >= n + k
        <4>1. PICK x : x = IndexIn(B, c, q)
          OBVIOUS
        <4>2. x \in Nat /\ x >= n + k
          BY <1>6, <3>1, <3>4, <4>1
        <4>3. ~(x < n) /\ ~(x < n + k)
          BY <1>5, <4>2
        <4>4. ~(IndexIn(B, c, q) < n) /\ ~(IndexIn(B, c, q) < L - left')
          <5>1. L - left' = n + k
            BY <2>2
          <5> QED BY <4>1, <4>3, <5>1
        <4>5. mem'[q] = mem[q]
          BY <1>3, <1>6, <3>1, <3>4
        <4> QED BY <1>8, <3>1, <4>4, <4>5
      <3> QED BY <1>4, <3>2, <3>3, <3>4
    <2> QED BY <2>3, <2>4, <2>5, <2>6 DEF NandInv
  <1> QED BY <1>11, <1>12, <1>13

(* nand_read returns the pages of its range. *)
LEMMA NandReadFacts ==
    ASSUME TypeOK, NEW from \in Nat, NEW k \in Nat, from + k <= Size
    PROVE  /\ NandRead(from, k) \in Seq(Cells) /\ Len(NandRead(from, k)) = k
           /\ \A i \in 1..k : /\ NandRead(from, k)[i] = mem[from + (i - 1)]
                              /\ from + (i - 1) \in PagesFrom(from, k)
  <1>1. mem \in [Pages -> Cells] /\ Size \in Nat
    BY Geometry DEF TypeOK, Cells
  <1>2. \A i \in 1..k : from + (i - 1) \in Pages /\ from + (i - 1) \in PagesFrom(from, k)
    BY <1>1 DEF Pages, PagesFrom
  <1>3. NandRead(from, k) = [i \in 1..k |-> mem[from + (i - 1)]]
    BY DEF NandRead
  <1>4. PICK f : f = NandRead(from, k)
    OBVIOUS
  <1>5. f \in [1..k -> Cells]
    BY <1>1, <1>2, <1>3, <1>4
  <1>6. f \in Seq(Cells)
    BY <1>5, SeqDef
  <1>7. Len(f) = k
    BY <1>5, <1>6, LenProperties
  <1> QED BY <1>2, <1>3, <1>4, <1>6, <1>7

LEMMA ReadChunkStep ==
    ASSUME NandInv, ReadChunk
    PROVE  NandInv'
  <1>1. /\ pc # "idle" /\ pc = "read" /\ FALSE \in IsBad(offset) /\ offset + Chunk <= Size
        /\ got' = got \o NandRead(offset, Chunk)
        /\ UNCHANGED <<bad, mem, ops_mode, faults, clean, last, cmd, count>>
        /\ IF ReadError(offset, Chunk) THEN Ends("error", length - left) ELSE Advance(Chunk)
    BY DEF ReadChunk, Running, flash, history
  <1>2. ~skip_fb
    <2>1. cmd \in Commands /\ cmd.op = "read" /\ (skip_fb => cmd.yaffs)
      BY <1>1 DEF NandInv, Looping
    <2>2. cmd \in Reads
      BY <2>1, CommandFacts DEF Commands
    <2> QED BY <2>1, <2>2, CommandFacts
  <1>3. PICK k, n, L, B, c, o : k = Chunk /\ n = cmd.len - left /\ L = cmd.len /\ B = bad /\ c = cmd /\ o = offset
    OBVIOUS
  <1>4. /\ k \in 1..left /\ o < Size /\ o + k <= Size
        /\ \A q \in PagesFrom(o, k) : q \in TargetIn(B, c) /\ IndexIn(B, c, q) = n + (q - o)
        /\ StartIn(B, c) <= o + k
        /\ Cardinality(GoodIn(B, StartIn(B, c), o + k)) = n + k
    BY <1>1, <1>2, <1>3, Aim
  <1>5. /\ c \in Commands /\ L \in Nat /\ o \in Nat /\ left \in Nat /\ left <= L /\ n \in Nat
        /\ n + left = L /\ length = L /\ c.op = "read" /\ c.len = L /\ Size \in Nat /\ k \in Nat
        /\ count \in 1..MaxCommands /\ Size <= Beyond /\ n + k <= L
    BY SMTT(30), <1>1, <1>3, <1>4, LoopFacts, Geometry
  <1>6. PICK g : g = NandRead(o, k)
    OBVIOUS
  <1>7. /\ g \in Seq(Cells) /\ Len(g) = k
        /\ \A i \in 1..k : g[i] = mem[o + (i - 1)] /\ o + (i - 1) \in PagesFrom(o, k)
    BY <1>4, <1>5, <1>6, NandReadFacts DEF NandInv
  <1>8. got \in Seq(Cells) /\ ReadIn(got, mem, B, c, n) /\ got' = got \o g
    BY <1>1, <1>3, <1>6 DEF NandInv, ReadSoFar
  <1>9. got' \in Seq(Cells) /\ Len(got') = n + k
    <2>1. Len(got) = n
      BY <1>8 DEF ReadIn
    <2>2. got \o g \in Seq(Cells) /\ Len(got \o g) = Len(got) + Len(g)
      BY <1>7, <1>8, ConcatProperties
    <2> QED BY <1>7, <1>8, <2>1, <2>2
  <1>10. ReadIn(got', mem, B, c, n + k)
    <2>1. SUFFICES ASSUME NEW i \in 1..(n + k)
                   PROVE  \E q \in TargetIn(B, c) : IndexIn(B, c, q) = i - 1 /\ got'[i] = mem[q]
      BY <1>9 DEF ReadIn
    <2>2. CASE i <= n
      <3>1. got'[i] = got[i] /\ i \in 1..n
        BY <1>5, <1>7, <1>8, <2>2 DEF ReadIn
      <3> QED BY <1>8, <3>1 DEF ReadIn
    <2>3. CASE i > n
      <3>1. PICK j : j = i - n
        OBVIOUS
      <3>2. j \in 1..k /\ i = n + j
        BY <1>5, <2>3, <3>1
      <3>3. got'[i] = g[j]
        BY SMTT(30), <1>5, <1>7, <1>8, <3>2 DEF ReadIn
      <3>4. PICK q : q = o + (j - 1)
        OBVIOUS
      <3>5. g[j] = mem[q] /\ q \in PagesFrom(o, k)
        BY <1>7, <3>2, <3>4
      <3>6. q \in TargetIn(B, c) /\ IndexIn(B, c, q) = n + (q - o)
        BY <1>4, <3>5
      <3>7. n + (q - o) = i - 1
        BY <1>5, <3>2, <3>4
      <3> QED BY <3>3, <3>5, <3>6, <3>7
    <2> QED BY <1>5, <2>2, <2>3
  <1>11. clean \in BOOLEAN /\ bad \subseteq Blocks /\ last \in Writes \cup {NoCommand}
    BY DEF NandInv, TypeOK
  <1>12. CASE k = left \/ ReadError(offset, Chunk)
    <2>1. /\ pc' = "idle" /\ result' \in {"ok", "error"} /\ length' \in {L, L - left}
          /\ offset' = 0 /\ left' = 0 /\ skip_fb' = FALSE /\ (result' = "ok" => k = left)
      BY <1>1, <1>3, <1>5, <1>12 DEF Advance, Ends, Locals
    <2>2. TypeOK' /\ (got \in Seq(Cells))'
      <3>1. offset' \in 0..Beyond /\ left' \in 0..cmd'.len /\ length' \in 0..cmd'.len /\ Len(got') <= cmd'.len
        <4>1. cmd' = c /\ cmd'.len = L
          BY <1>1, <1>3
        <4>2. L - left \in 0..L /\ L \in 0..L /\ 0 \in 0..L /\ 0 \in 0..Beyond
          BY <1>5, Geometry
        <4>3. Len(got') <= L
          BY <1>5, <1>9
        <4> QED BY <2>1, <4>1, <4>2, <4>3
      <3>2. skip_fb' \in BOOLEAN
        BY <2>1
      <3> QED BY <1>1, <1>9, <1>11, <2>1, <3>1, <3>2 DEF TypeOK, NandInv
    <2>3. Looping' /\ Position' /\ Written' /\ ReadSoFar'
      BY <2>1 DEF Looping, Position, Written, ReadSoFar
    <2>4. ReadDone'
      BY <1>1, <1>3, <1>5, <1>10, <2>1 DEF ReadDone
    <2>5. WriteDone' /\ Kept'
      BY <1>1, <1>3, <1>5, <2>1 DEF NandInv, WriteDone, Kept
    <2> QED BY <2>2, <2>3, <2>4, <2>5 DEF NandInv
  <1>13. CASE k # left /\ ~ReadError(offset, Chunk)
    <2>1. left' = left - k /\ offset' = offset + k /\ UNCHANGED <<pc, result, length, skip_fb>>
      BY <1>1, <1>3, <1>13 DEF Advance
    <2>2. left' \in Nat /\ left' >= 1 /\ left' <= L /\ L - left' = n + k /\ offset' \in Nat
          /\ offset' = o + k
      BY SMTT(30), <1>1, <1>3, <1>4, <1>5, <1>13, <2>1
    <2>3. TypeOK' /\ (got \in Seq(Cells))'
      <3>1. offset' \in 0..Beyond /\ left' \in 0..cmd'.len /\ length' \in 0..cmd'.len /\ Len(got') <= cmd'.len
        BY <1>1, <1>3, <1>4, <1>5, <1>9, <2>1, <2>2, Geometry
      <3> QED BY <1>1, <1>9, <1>11, <2>1, <3>1 DEF TypeOK, NandInv
    <2>4. Looping' /\ Written' /\ ReadDone' /\ WriteDone' /\ Kept'
      BY <1>1, <2>1, <2>2 DEF NandInv, Looping, Written, ReadDone, WriteDone, Kept
    <2>5. Position'
      <3>1. InChip(offset') = o + k
        BY <1>4, <1>5, <2>2 DEF InChip
      <3>2. StartIn(B, c) <= offset' /\ Cardinality(GoodIn(B, StartIn(B, c), InChip(offset'))) = L - left'
        BY <1>4, <2>2, <3>1
      <3> QED BY <1>1, <1>2, <1>3, <2>1, <3>2 DEF Position, InChip
    <2>6. ReadSoFar'
      <3>1. ReadIn(got', mem, B, c, L - left')
        BY <1>10, <2>2
      <3> QED BY <1>1, <1>3, <3>1 DEF ReadSoFar
    <2> QED BY <2>3, <2>4, <2>5, <2>6 DEF NandInv
  <1> QED BY <1>12, <1>13

-----------------------------------------------------------------------------
(* The commands.                                                              *)

LEMMA CommandBegins ==
    ASSUME NandInv, NEW c \in Commands, Command(c)
    PROVE  /\ pc = "idle" /\ cmd' = c /\ count' = count + 1 /\ count' \in 1..MaxCommands
           /\ clean' \in BOOLEAN
           /\ c.op # "read" /\ clean' => \A q \in TargetIn(bad, c) : mem[q] = Erased
  <1>1. pc = "idle" /\ cmd' = c /\ count' = count + 1 /\ count < MaxCommands
        /\ clean' = IF c.op = "read" THEN clean ELSE \A q \in Target(c) : mem[q] = Erased
    BY DEF Command
  <1>2. count \in 0..MaxCommands /\ clean \in BOOLEAN
    BY DEF NandInv, TypeOK
  <1>3. count' \in 1..MaxCommands
    BY <1>1, <1>2, BoundAssumption
  <1>4. Target(c) = TargetIn(bad, c)
    BY DEF Target, TargetIn, Index, IndexIn, Start, StartIn, Good, GoodIn, BadPage
  <1>5. (\A q \in Target(c) : mem[q] = Erased) \in BOOLEAN
    OBVIOUS
  <1>6. clean' \in BOOLEAN
    BY <1>1, <1>2, <1>5, Zenon
  <1> QED BY <1>1, <1>3, <1>4, <1>6

LEMMA RememberFacts ==
    ASSUME NandInv, NEW c \in Commands, NEW ok \in BOOLEAN, Remember(c, ok)
    PROVE  /\ last' \in Writes \cup {NoCommand}
           /\ c.op = "read" => last' = last
           /\ c.op # "read" => last' = NoCommand \/ (last' = c /\ c \in Writes /\ ok /\ clean' /\ ~c.yaffs)
           /\ c.op \in {"read", "write"}
  <1>1. c \in Reads => c.op = "read"
    BY CommandFacts
  <1>2. c \in Reads \/ c \in Writes
    BY DEF Commands
  <1>3. c \in Writes => c.op = "write"
    BY CommandFacts
  <1>4. last \in Writes \cup {NoCommand}
    BY DEF NandInv, TypeOK
  <1> QED BY <1>1, <1>2, <1>3, <1>4 DEF Remember

(* Back at the prompt, most of the invariant is about other states. *)
LEMMA AtThePrompt ==
    ASSUME pc' = "idle", TypeOK', got' \in Seq(Cells), ReadDone', WriteDone', Kept'
    PROVE  NandInv'
  BY DEF NandInv, Looping, Position, Written, ReadSoFar

(* What every command that ends at once leaves behind. *)
LEMMA EndedType ==
    ASSUME NandInv, NEW c \in Commands, Command(c), NEW ok \in BOOLEAN, Remember(c, ok),
           NEW r \in {"ok", "error", "rejected"}, NEW n \in 0..c.len, Ends(r, n),
           got' \in Seq(Cells), Len(got') <= c.len, bad' = bad, mem' \in [Pages -> Cells],
           ops_mode' \in {"ECC", "RAW"}, faults' \in 0..MaxFaults
    PROVE  TypeOK'
  <1>1. cmd' = c /\ count' \in 1..MaxCommands /\ clean' \in BOOLEAN
    BY CommandBegins
  <1>2. last' \in Writes \cup {NoCommand}
    BY RememberFacts
  <1>3. pc' = "idle" /\ result' = r /\ length' = n /\ offset' = 0 /\ left' = 0 /\ skip_fb' = FALSE
    BY DEF Ends, Locals
  <1>4. c.len \in Nat
    BY CommandFacts
  <1>5. offset' \in 0..Beyond /\ left' \in 0..c.len /\ count' \in 0..MaxCommands
    BY <1>1, <1>3, <1>4, Geometry, BoundAssumption
  <1>6. bad \subseteq Blocks
    BY DEF NandInv, TypeOK
  <1>7. skip_fb' \in BOOLEAN
    BY <1>3
  <1>8. c \in Reads \cup Writes
    BY DEF Commands
  <1>9. cmd' \in Reads \cup Writes \cup {Other(op) : op \in {"none", "erase", "scrub", "markbad", "reset"}}
    BY <1>1, <1>8
  <1> QED BY <1>1, <1>2, <1>3, <1>5, <1>6, <1>7, <1>9 DEF TypeOK, Cells

LEMMA EmptyBuffer == <<>> \in Seq(Cells) /\ Len(<<>>) = 0
  OBVIOUS

(* A command that is refused changes nothing. *)
LEMMA RejectedStep ==
    ASSUME NandInv, NEW c \in Commands, WriteUnaligned(c) \/ OutsideFlash(c)
    PROVE  NandInv'
  <1>1. PICK n : Ends("rejected", n) /\ n \in {0, c.len}
    BY DEF WriteUnaligned, OutsideFlash
  <1>2. /\ Command(c) /\ Remember(c, FALSE) /\ got' = <<>>
        /\ UNCHANGED <<bad, mem, ops_mode, faults>>
    BY DEF WriteUnaligned, OutsideFlash, flash
  <1>3. n \in 0..c.len /\ 0 <= c.len
    BY <1>1, CommandFacts
  <1>4. mem' \in [Pages -> Cells] /\ ops_mode' \in {"ECC", "RAW"} /\ faults' \in 0..MaxFaults
    BY <1>2 DEF NandInv, TypeOK, Cells
  <1>5. TypeOK'
    BY <1>1, <1>2, <1>3, <1>4, EmptyBuffer, EndedType
  <1>6. pc' = "idle" /\ result' = "rejected"
    BY <1>1 DEF Ends
  <1>7. ReadDone' /\ WriteDone'
    BY <1>6 DEF ReadDone, WriteDone
  <1>8. Kept'
    <2>1. pc = "idle" /\ (last' # NoCommand => last' = last)
      BY <1>2, CommandBegins, RememberFacts
    <2> QED BY <1>2, <1>6, <2>1 DEF NandInv, Kept
  <1> QED BY <1>2, <1>5, <1>6, <1>7, <1>8, AtThePrompt, EmptyBuffer

LEMMA AtOnceInside ==
    ASSUME NEW c \in Commands, ~Outside(c), AtOnce(c)
    PROVE  c.off \in Nat /\ c.len \in Nat /\ c.off + c.len <= Size
  <1>1. c.off \in Nat /\ c.len \in Nat /\ c.off <= Size /\ Size \in Nat
    BY CommandFacts, Geometry
  <1>2. LenInclBad(c.off, c.len) = c.len /\ ~(c.off + LenInclBad(c.off, c.len) > Size)
    BY DEF AtOnce, Outside
  <1> QED BY <1>1, <1>2

LEMMA WriteAtOnceStep ==
    ASSUME NandInv, NEW c \in Commands, NEW done \in 0..c.len, WriteAtOnce(c, done)
    PROVE  NandInv'
  <1>1. /\ Command(c) /\ c.op = "write" /\ ~Outside(c) /\ AtOnce(c)
        /\ NandWrite(c.off, c.len, 0, done)
        /\ Ends(IF done = c.len THEN "ok" ELSE "error", done) /\ Remember(c, done = c.len)
        /\ got' = <<>> /\ bad' = bad
    BY DEF WriteAtOnce
  <1>2. c.off \in Nat /\ c.len \in Nat /\ c.off + c.len <= Size
    BY <1>1, AtOnceInside
  <1>3. /\ pc = "idle" /\ cmd' = c /\ count' \in 1..MaxCommands /\ count' \in 0..MaxCommands
        /\ clean' => \A q \in TargetIn(bad, c) : mem[q] = Erased
    BY <1>1, CommandBegins
  <1>4. PICK B, o, k : B = bad /\ o = c.off /\ k = c.len
    OBVIOUS
  <1>5. /\ mem' \in [Pages -> Cells] /\ ops_mode' \in {"ECC", "RAW"} /\ faults' \in 0..MaxFaults
        /\ \A q \in PagesFrom(o, done) : mem[q] = Erased /\ BlockOf(q) \notin bad =>
              mem'[q].img = count' /\ mem'[q].page = 0 + (q - o)
    <2>1. o \in Nat /\ k \in Nat /\ done \in Nat /\ 0 \in Nat /\ o + k <= Size /\ NandWrite(o, k, 0, done) /\ TypeOK
      BY <1>1, <1>2, <1>4 DEF NandInv
    <2>2. NandWritten(o, k, 0, done)
      BY <1>3, <2>1, NandWriteFacts
    <2> QED BY <2>2 DEF NandWritten
  <1>6. PICK r : r = IF done = c.len THEN "ok" ELSE "error"
    OBVIOUS
  <1>7. r \in {"ok", "error", "rejected"} /\ Ends(r, done)
    BY <1>1, <1>6
  <1>8. TypeOK'
    <2>1. (done = c.len) \in BOOLEAN /\ Len(got') <= c.len /\ got' \in Seq(Cells)
      BY <1>1, <1>2, EmptyBuffer
    <2>2. PICK ok \in BOOLEAN : ok = (done = c.len)
      BY <2>1
    <2>3. Remember(c, ok)
      BY <1>1, <2>2
    <2> QED BY <1>1, <1>5, <1>7, <2>1, <2>3, EndedType
  <1>9. pc' = "idle" /\ result' = r /\ length' = done
    BY <1>7 DEF Ends
  <1>10. ReadDone'
    BY <1>1, <1>3 DEF ReadDone
  <1>11. ASSUME clean', FitsIn(B, c), NEW q \in TargetIn(B, c), IndexIn(B, c, q) < done
         PROVE  HoldsIn(mem', B, c, q, count')
    <2>1. q \in PagesFrom(o, k)
      BY <1>1, <1>4, <1>11, AtOnceFacts
    <2>2. BlockOf(q) \notin B /\ IndexIn(B, c, q) = q - o
      BY <1>1, <1>4, <1>11, <2>1, AtOnceFacts
    <2>3. q \in PagesFrom(o, done) /\ 0 + (q - o) = q - o
      BY <1>2, <1>4, <1>11, <2>1, <2>2 DEF PagesFrom
    <2>4. mem[q] = Erased
      BY <1>3, <1>4, <1>11
    <2> QED BY <1>4, <1>5, <2>2, <2>3, <2>4 DEF HoldsIn
  <1>12. WriteDone'
    BY <1>1, <1>3, <1>4, <1>9, <1>11 DEF WriteDone
  <1>13. Kept'
    <2>1. last' = NoCommand \/ (last' = c /\ c \in Writes /\ done = c.len /\ clean' /\ ~c.yaffs)
      <3>1. PICK ok \in BOOLEAN : ok = (done = c.len)
        OBVIOUS
      <3>2. Remember(c, ok) /\ c.op # "read"
        BY <1>1, <3>1
      <3> QED BY <3>1, <3>2, RememberFacts
    <2>2. CASE last' = NoCommand
      BY <2>2 DEF Kept
    <2>3. CASE last' = c /\ c \in Writes /\ done = c.len /\ clean' /\ ~c.yaffs
      <3>1. \A q \in TargetIn(B, c) : IndexIn(B, c, q) < done
        BY <2>3, TargetFacts
      <3>2. FitsIn(B, c) => \A q \in TargetIn(B, c) : HoldsIn(mem', B, c, q, count')
        BY <1>11, <2>3, <3>1
      <3> QED BY <1>1, <1>3, <1>4, <1>9, <2>3, <3>2 DEF Kept
    <2> QED BY <2>1, <2>2, <2>3
  <1> QED BY <1>1, <1>8, <1>9, <1>10, <1>12, <1>13, AtThePrompt, EmptyBuffer

LEMMA ReadAtOnceStep ==
    ASSUME NandInv, NEW c \in Commands, ReadAtOnce(c)
    PROVE  NandInv'
  <1>1. /\ Command(c) /\ c.op = "read" /\ ~Outside(c) /\ AtOnce(c)
        /\ got' = NandRead(c.off, c.len)
        /\ Ends(IF ReadError(c.off, c.len) THEN "error" ELSE "ok", c.len) /\ Remember(c, TRUE)
        /\ UNCHANGED <<bad, mem, ops_mode, faults>>
    BY DEF ReadAtOnce, flash
  <1>2. c.off \in Nat /\ c.len \in Nat /\ c.off + c.len <= Size
    BY <1>1, AtOnceInside
  <1>3. pc = "idle" /\ cmd' = c
    BY <1>1, CommandBegins
  <1>4. PICK B, o, k : B = bad /\ o = c.off /\ k = c.len
    OBVIOUS
  <1>5. /\ got' \in Seq(Cells) /\ Len(got') = k
        /\ \A i \in 1..k : got'[i] = mem[o + (i - 1)] /\ o + (i - 1) \in PagesFrom(o, k)
    <2>1. o \in Nat /\ k \in Nat /\ o + k <= Size /\ TypeOK /\ got' = NandRead(o, k)
      BY <1>1, <1>2, <1>4 DEF NandInv
    <2> QED BY <2>1, NandReadFacts
  <1>6. PICK r \in {"ok", "error", "rejected"} : Ends(r, c.len)
    BY <1>1
  <1>7. TypeOK'
    <2>1. mem' \in [Pages -> Cells] /\ ops_mode' \in {"ECC", "RAW"} /\ faults' \in 0..MaxFaults
      BY <1>1 DEF NandInv, TypeOK, Cells
    <2>2. c.len \in 0..c.len /\ Len(got') <= c.len
      BY <1>2, <1>4, <1>5
    <2> QED BY <1>1, <1>5, <1>6, <2>1, <2>2, EndedType
  <1>8. pc' = "idle"
    BY <1>6 DEF Ends
  <1>9. WriteDone'
    BY <1>1, <1>3 DEF WriteDone
  <1>10. Kept'
    <2>1. last' = last
      BY <1>1, RememberFacts
    <2> QED BY <1>1, <1>3, <1>8, <2>1 DEF NandInv, Kept
  <1>11. FitsIn(B, c) => ReadIn(got', mem, B, c, k)
    <2>1. SUFFICES ASSUME FitsIn(B, c), NEW i \in 1..k
                   PROVE  \E q \in TargetIn(B, c) : IndexIn(B, c, q) = i - 1 /\ got'[i] = mem[q]
      BY <1>5 DEF ReadIn
    <2>2. PICK q : q = o + (i - 1)
      OBVIOUS
    <2>3. q \in PagesFrom(o, k) /\ got'[i] = mem[q]
      BY <1>5, <2>2
    <2>4. q \in TargetIn(B, c) /\ IndexIn(B, c, q) = q - o
      BY <1>1, <1>4, <2>1, <2>3, AtOnceFacts
    <2>5. q - o = i - 1
      BY <1>2, <1>4, <2>2
    <2> QED BY <2>3, <2>4, <2>5
  <1>12. ReadDone'
    BY <1>1, <1>3, <1>4, <1>11 DEF ReadDone
  <1> QED BY <1>5, <1>7, <1>8, <1>9, <1>10, <1>12, AtThePrompt

(* A loop begins, at its offset and with nothing done. *)
LEMMA BeginLoopStep ==
    ASSUME NandInv, NEW c \in Commands, BeginLoop(c)
    PROVE  NandInv'
  <1>1. /\ Command(c) /\ ~AtOnce(c) /\ Remember(c, TRUE)
        /\ pc' = c.op /\ result' = "none" /\ length' = c.len
        /\ offset' = c.off /\ left' = c.len /\ skip_fb' = c.yaffs /\ got' = <<>>
        /\ UNCHANGED <<bad, mem, ops_mode, faults>>
    BY DEF BeginLoop, flash
  <1>2. /\ c.off \in 0..Size /\ c.off \in Nat /\ c.len \in Nat /\ c.yaffs \in BOOLEAN /\ Size \in Nat
    BY CommandFacts, Geometry
  <1>3. c.len >= 1
    BY <1>1, <1>2 DEF AtOnce, LenInclBad
  <1>4. /\ pc = "idle" /\ cmd' = c /\ count' \in 1..MaxCommands /\ clean' \in BOOLEAN
        /\ c.op # "read" /\ clean' => \A q \in TargetIn(bad, c) : mem[q] = Erased
    BY <1>1, CommandBegins
  <1>5. /\ last' \in Writes \cup {NoCommand} /\ c.op \in {"read", "write"}
        /\ c.op = "read" => last' = last
        /\ c.op # "read" => last' = NoCommand \/ (last' = c /\ c \in Writes /\ clean' /\ ~c.yaffs)
    BY <1>1, RememberFacts
  <1>6. PICK B : B = bad
    OBVIOUS
  <1>7. TypeOK' /\ (got \in Seq(Cells))'
    <2>1. offset' \in 0..Beyond
      <3>1. c.off \in 0..Beyond
        BY <1>2, Geometry
      <3> QED BY <1>1, <3>1
    <2>2. left' \in 0..cmd'.len /\ length' \in 0..cmd'.len /\ Len(got') <= cmd'.len
      <3>1. c.len \in 0..c.len /\ Len(<<>>) <= c.len
        BY <1>2, EmptyBuffer
      <3> QED BY <1>1, <1>4, <3>1
    <2>3. count' \in 0..MaxCommands
      BY <1>4, BoundAssumption
    <2>4. cmd' \in Reads \cup Writes
      BY <1>4 DEF Commands
    <2>5. skip_fb' \in BOOLEAN /\ pc' \in {"idle", "write", "read"}
      BY <1>1, <1>2, <1>5
    <2> QED BY <1>1, <1>4, <1>5, <2>1, <2>2, <2>3, <2>4, <2>5, EmptyBuffer DEF NandInv, TypeOK
  <1>8. Looping'
    BY <1>1, <1>3, <1>4 DEF Looping
  <1>9. \A q \in TargetIn(B, c) : IndexIn(B, c, q) \in Nat
    BY TargetFacts
  <1>10. c.len - left' = 0 /\ c.len - c.len = 0
    BY <1>1, <1>2
  <1>11. Position'
    <2>1. InChip(c.off) = c.off
      BY <1>2 DEF InChip
    <2>2. GoodIn(B, c.off, c.off) = {} /\ Cardinality(GoodIn(B, c.off, c.off)) = 0
      <3>1. \A q \in c.off..(c.off - 1) : BlockOf(q) \in B
        BY <1>2
      <3>2. c.off \in Int
        BY <1>2
      <3> QED BY <3>1, <3>2, GoodNone
    <2>3. CASE c.yaffs
      BY <1>1, <1>2, <1>4, <1>6, <2>1, <2>2, <2>3 DEF Position, InChip
    <2>4. CASE ~c.yaffs
      <3>1. StartIn(B, c) = c.off
        BY <2>4 DEF StartIn
      <3>2. /\ StartIn(B, c) <= offset'
            /\ Cardinality(GoodIn(B, StartIn(B, c), InChip(offset'))) = c.len - left'
        <4>1. InChip(offset') = c.off /\ c.off <= offset'
          BY <1>1, <1>2, <2>1
        <4> QED BY <1>10, <2>2, <3>1, <4>1
      <3> QED BY <1>1, <1>4, <1>6, <2>4, <3>2 DEF Position, InChip
    <2> QED BY <2>3, <2>4
  <1>12. Written'
    <2>1. SUFFICES ASSUME c.op = "write", clean', NEW q \in TargetIn(B, c)
                   PROVE  ~(IndexIn(B, c, q) < c.len - left') /\ mem[q] = Erased
      BY <1>1, <1>4, <1>6 DEF Written
    <2>2. mem[q] = Erased
      BY <1>4, <1>6, <2>1
    <2> QED BY <1>9, <1>10, <2>1, <2>2
  <1>13. ReadSoFar'
    <2>1. ReadIn(<<>>, mem, B, c, 0)
      BY EmptyBuffer DEF ReadIn
    <2> QED BY <1>1, <1>4, <1>6, <1>10, <2>1 DEF ReadSoFar
  <1>14. ReadDone' /\ WriteDone'
    BY <1>1 DEF ReadDone, WriteDone
  <1>15. Kept'
    BY <1>1, <1>4, <1>5 DEF NandInv, Kept
  <1> QED BY <1>7, <1>8, <1>11, <1>12, <1>13, <1>14, <1>15 DEF NandInv

(* The other commands and a reset end at the prompt with nothing read or written. *)
LEMMA OtherFacts ==
    ASSUME NEW op \in {"none", "erase", "scrub", "markbad", "reset"}
    PROVE  Other(op).op = op /\ Other(op).len = 0 /\ Other(op).op \notin {"read", "write"}
  BY DEF Other, NoCommand

LEMMA OtherType ==
    ASSUME NandInv, NEW op \in {"none", "erase", "scrub", "markbad", "reset"}, cmd' = Other(op),
           Ends("none", 0), got' = <<>>, bad' \subseteq Blocks, mem' \in [Pages -> Cells],
           ops_mode' \in {"ECC", "RAW"}, last' \in {last, NoCommand}, count' \in 0..MaxCommands,
           UNCHANGED <<faults, clean>>
    PROVE  TypeOK'
  <1>1. pc' = "idle" /\ result' = "none" /\ length' = 0 /\ offset' = 0 /\ left' = 0 /\ skip_fb' = FALSE
    BY DEF Ends, Locals
  <1>2. cmd'.len = 0
    BY OtherFacts
  <1>3. offset' \in 0..Beyond /\ left' \in 0..cmd'.len /\ length' \in 0..cmd'.len /\ Len(got') <= cmd'.len
    BY <1>1, <1>2, Geometry, EmptyBuffer
  <1>4. skip_fb' \in BOOLEAN
    BY <1>1
  <1> QED BY <1>1, <1>3, <1>4 DEF NandInv, TypeOK, Cells

LEMMA WipedType ==
    ASSUME NandInv, NEW blocks
    PROVE  Wiped(blocks) \in [Pages -> Cells]
  <1>1. mem \in [Pages -> Cells] /\ Erased \in Cells
    BY BoundAssumption DEF NandInv, TypeOK, Cells, Erased
  <1> QED BY <1>1 DEF Wiped

LEMMA PromptStep ==
    ASSUME NandInv,
           \/ \E r \in Erasures, cleanmarker \in BOOLEAN : Erase(r, cleanmarker) \/ Scrub(r, cleanmarker)
           \/ \E b \in Blocks : MarkBad(b)
    PROVE  NandInv'
  <1>1. PICK op \in {"erase", "scrub", "markbad"} : AtPrompt(op)
    BY DEF Erase, Scrub, MarkBad
  <1>2. /\ cmd' = Other(op) /\ Ends("none", 0) /\ got' = <<>> /\ last' = NoCommand
        /\ UNCHANGED <<count, faults, clean>>
    BY <1>1 DEF AtPrompt
  <1>3. bad' \subseteq Blocks /\ mem' \in [Pages -> Cells] /\ ops_mode' \in {"ECC", "RAW"}
    <2>1. bad \subseteq Blocks /\ mem \in [Pages -> Cells] /\ ops_mode \in {"ECC", "RAW"}
      BY DEF NandInv, TypeOK, Cells
    <2>2. CASE \E r \in Erasures, cleanmarker \in BOOLEAN : Erase(r, cleanmarker)
      BY <2>1, <2>2, WipedType DEF Erase
    <2>3. CASE \E r \in Erasures, cleanmarker \in BOOLEAN : Scrub(r, cleanmarker)
      BY <2>1, <2>3, WipedType DEF Scrub
    <2>4. CASE \E b \in Blocks : MarkBad(b)
      BY <2>1, <2>4 DEF MarkBad
    <2> QED BY <2>2, <2>3, <2>4
  <1>4. TypeOK'
    BY <1>2, <1>3, OtherType DEF NandInv, TypeOK
  <1>5. pc' = "idle" /\ cmd'.op \notin {"read", "write"}
    BY <1>2, OtherFacts DEF Ends
  <1>6. ReadDone' /\ WriteDone' /\ Kept'
    BY <1>2, <1>5 DEF ReadDone, WriteDone, Kept
  <1> QED BY <1>2, <1>4, <1>5, <1>6, AtThePrompt, EmptyBuffer

(* Where the loop writes is inside the chip. *)
LEMMA ChunkInside ==
    ASSUME NandInv, AtChunk
    PROVE  /\ pc # "idle" /\ FALSE \in IsBad(offset) /\ ~skip_fb /\ offset + Chunk <= Size
           /\ offset \in Nat /\ Chunk \in Nat /\ cmd.len - left \in Nat
  <1>1. pc # "idle" /\ FALSE \in IsBad(offset) /\ ~skip_fb /\ offset + Chunk <= Size
    BY DEF AtChunk
  <1>2. offset \in Nat /\ left \in Nat /\ cmd.len \in Nat /\ left <= cmd.len
    BY <1>1, LoopFacts DEF NandInv, TypeOK
  <1>3. Chunk \in 1..left
    BY <1>1, Aim
  <1>4. Chunk \in Nat /\ cmd.len - left \in Nat
    <2>1. PICK k, n : k = Chunk /\ n = cmd.len
      OBVIOUS
    <2>2. k \in Nat /\ n - left \in Nat
      BY <1>2, <1>3, <2>1
    <2> QED BY <2>1, <2>2
  <1> QED BY <1>1, <1>2, <1>4

(* What a write that is cut off leaves is of the right type, and the pages that it
   was not to write are as they were. *)
LEMMA ResetMemory ==
    ASSUME NandInv, Reset
    PROVE  /\ mem' \in [Pages -> Cells]
           /\ pc # "write" => mem' = mem
           /\ AtChunk => \A q \in Pages : q \notin PagesFrom(offset, Chunk) => mem'[q] = mem[q]
           /\ ~AtChunk => mem' = mem
  <1>1. CASE AtChunk
    <2>1. PICK c, o, k, j : c = cmd /\ o = offset /\ k = Chunk /\ j = cmd.len - left
      OBVIOUS
    <2>2. CutOff(c, o, k, j) /\ o \in Nat /\ k \in Nat /\ j \in Nat /\ o + k <= Size
      BY <1>1, <2>1, ChunkInside DEF Reset
    <2>3. TypeOK /\ count' \in 0..MaxCommands
      BY DEF Reset, NandInv, TypeOK
    <2>4. /\ mem' \in [Pages -> Cells]
          /\ \A q \in Pages : q \notin PagesFrom(o, k) => mem'[q] = mem[q]
      BY <2>2, <2>3, CutOffFacts
    <2>5. pc = "write"
      BY <1>1 DEF AtChunk
    <2> QED BY <1>1, <2>1, <2>4, <2>5
  <1>2. CASE ~AtChunk
    BY <1>2 DEF Reset, NandInv, TypeOK, Cells
  <1> QED BY <1>1, <1>2 DEF AtChunk

LEMMA ResetStep ==
    ASSUME NandInv, Reset
    PROVE  NandInv'
  <1>1. /\ cmd' = Other("reset") /\ Ends("none", 0) /\ got' = <<>> /\ ops_mode' = "ECC"
        /\ last' = IF pc = "write" THEN NoCommand ELSE last
        /\ UNCHANGED <<bad, count, faults, clean>>
    BY DEF Reset, Restart
  <1>2. mem' \in [Pages -> Cells] /\ (pc # "write" => mem' = mem)
    BY ResetMemory
  <1>3. bad \subseteq Blocks /\ count' \in 0..MaxCommands
    BY <1>1 DEF NandInv, TypeOK
  <1>4. TypeOK'
    BY <1>1, <1>2, <1>3, OtherType
  <1>5. pc' = "idle" /\ cmd'.op \notin {"read", "write"}
    BY <1>1, OtherFacts DEF Ends
  <1>6. ReadDone' /\ WriteDone'
    BY <1>5 DEF ReadDone, WriteDone
  <1>7. Kept'
    BY <1>1, <1>2, <1>5 DEF NandInv, Kept
  <1> QED BY <1>1, <1>4, <1>5, <1>6, <1>7, AtThePrompt, EmptyBuffer

(* A restart in the middle of a write that is done at once. *)
LEMMA WriteAtOnceResetStep ==
    ASSUME NandInv, NEW c \in Commands, WriteAtOnceReset(c)
    PROVE  NandInv'
  <1>1. /\ cmd' = Other("reset") /\ Ends("none", 0) /\ got' = <<>> /\ ops_mode' = "ECC"
        /\ last' = NoCommand /\ UNCHANGED <<bad, faults, clean>>
    BY DEF WriteAtOnceReset, Restart
  <1>2. PICK o, k : o = c.off /\ k = c.len
    OBVIOUS
  <1>3. CutOff(c, o, k, 0) /\ o \in Nat /\ k \in Nat /\ 0 \in Nat /\ o + k <= Size
    BY <1>2, AtOnceInside DEF WriteAtOnceReset
  <1>4. TypeOK /\ count' \in 0..MaxCommands /\ bad' \subseteq Blocks
    BY BoundAssumption DEF WriteAtOnceReset, NandInv, TypeOK
  <1>5. mem' \in [Pages -> Cells]
    BY <1>3, <1>4, CutOffFacts
  <1>6. TypeOK'
    BY <1>1, <1>4, <1>5, OtherType
  <1>7. pc' = "idle" /\ cmd'.op \notin {"read", "write"}
    BY <1>1, OtherFacts DEF Ends
  <1>8. ReadDone' /\ WriteDone' /\ Kept'
    BY <1>1, <1>7 DEF ReadDone, WriteDone, Kept
  <1> QED BY <1>1, <1>6, <1>7, <1>8, AtThePrompt, EmptyBuffer

-----------------------------------------------------------------------------
(* The invariant and what follows from it.                                    *)

LEMMA InitInv ==
    ASSUME Init
    PROVE  NandInv
  <1>1. /\ bad \in SUBSET Blocks /\ mem = [q \in Pages |-> Erased] /\ ops_mode = "ECC" /\ pc = "idle"
        /\ cmd = NoCommand /\ offset = 0 /\ left = 0 /\ skip_fb = FALSE /\ got = <<>> /\ result = "none"
        /\ length = 0 /\ count = 0 /\ faults = 0 /\ clean = FALSE /\ last = NoCommand
    BY DEF Init
  <1>2. mem \in [Pages -> Cells]
    <2>1. Erased \in Cells
      BY BoundAssumption DEF Erased, Cells
    <2> QED BY <1>1, <2>1
  <1>3. cmd = Other("none") /\ cmd.op = "none" /\ cmd.len = 0
    <2>1. NoCommand = Other("none")
      BY DEF NoCommand, Other
    <2> QED BY <1>1, <2>1, OtherFacts
  <1>4. cmd \in {Other(op) : op \in {"none", "erase", "scrub", "markbad", "reset"}}
    BY <1>3
  <1>5. offset \in 0..Beyond /\ left \in 0..cmd.len /\ length \in 0..cmd.len /\ Len(got) <= cmd.len
        /\ count \in 0..MaxCommands /\ faults \in 0..MaxFaults
    BY <1>1, <1>3, Geometry, BoundAssumption, EmptyBuffer
  <1>6. TypeOK
    BY <1>1, <1>2, <1>4, <1>5 DEF TypeOK, Cells
  <1> QED BY <1>1, <1>3, <1>6, EmptyBuffer
          DEF NandInv, Looping, Position, Written, ReadSoFar, ReadDone, WriteDone, Kept

LEMMA NextInv ==
    ASSUME NandInv, [Next]_vars
    PROVE  NandInv'
  <1>1. CASE \E c \in Reads \cup Writes :
                \/ WriteUnaligned(c) \/ OutsideFlash(c) \/ ReadAtOnce(c) \/ BeginLoop(c)
                \/ WriteAtOnceReset(c) \/ \E done \in 0..c.len : WriteAtOnce(c, done)
    <2>1. PICK c \in Commands :
                \/ WriteUnaligned(c) \/ OutsideFlash(c) \/ ReadAtOnce(c) \/ BeginLoop(c)
                \/ WriteAtOnceReset(c) \/ \E done \in 0..c.len : WriteAtOnce(c, done)
      BY <1>1 DEF Commands
    <2>2. CASE WriteUnaligned(c) \/ OutsideFlash(c)
      BY <2>2, RejectedStep
    <2>3. CASE ReadAtOnce(c)
      BY <2>3, ReadAtOnceStep
    <2>4. CASE BeginLoop(c)
      BY <2>4, BeginLoopStep
    <2>5. CASE \E done \in 0..c.len : WriteAtOnce(c, done)
      BY <2>5, WriteAtOnceStep
    <2>6. CASE WriteAtOnceReset(c)
      BY <2>6, WriteAtOnceResetStep
    <2> QED BY <2>1, <2>2, <2>3, <2>4, <2>5, <2>6
  <1>2. CASE Loop
    <2>1. CASE SkipBadBlock \/ SkipFirstGood
      BY <2>1, SkipStep
    <2>2. CASE PastEnd
      BY <2>2, PastEndStep
    <2>3. CASE ReadChunk
      BY <2>3, ReadChunkStep
    <2>4. CASE \E done \in 0..EraseSize : WriteChunk(done)
      BY <2>4, WriteChunkStep
    <2> QED BY <1>2, <2>1, <2>2, <2>3, <2>4 DEF Loop
  <1>3. CASE \/ \E r \in Erasures, cleanmarker \in BOOLEAN : Erase(r, cleanmarker) \/ Scrub(r, cleanmarker)
             \/ \E b \in Blocks : MarkBad(b)
    BY <1>3, PromptStep
  <1>4. CASE Reset
    BY <1>4, ResetStep
  <1>5. CASE UNCHANGED vars
    <2>1. UNCHANGED <<bad, mem, ops_mode, pc, cmd, offset, left, skip_fb, got, result, length, count,
                      faults, clean, last>>
      BY <1>5 DEF vars
    <2> QED BY <2>1 DEF NandInv, TypeOK, Looping, Position, Written, ReadSoFar, ReadDone, WriteDone, Kept
  <1> QED BY <1>1, <1>2, <1>3, <1>4, <1>5 DEF Next

(* The invariant of the loops of nand_write_skip_bad and nand_read_skip_bad and of what
   they leave behind holds for every geometry, set of bad blocks and failure. *)
THEOREM Invariant == Spec => []NandInv
  BY InitInv, NextInv, PTL DEF Spec

(* The operators of the specification are those of the proofs, for its bad blocks. *)
LEMMA Operators ==
    ASSUME NEW c
    PROVE  /\ Target(c) = TargetIn(bad, c) /\ (Fits(c) <=> FitsIn(bad, c))
           /\ \A q : Index(c, q) = IndexIn(bad, c, q)
  <1>1. \A a, b : Good(a, b) = GoodIn(bad, a, b)
    BY DEF Good, GoodIn, BadPage
  <1>2. Start(c) = StartIn(bad, c)
    BY <1>1 DEF Start, StartIn
  <1>3. \A q : Index(c, q) = IndexIn(bad, c, q)
    BY <1>1, <1>2 DEF Index, IndexIn
  <1>4. Target(c) = TargetIn(bad, c)
    BY <1>1, <1>2, <1>3 DEF Target, TargetIn
  <1> QED BY <1>3, <1>4 DEF Fits, FitsIn

(* The variables of the commands and their loops (cmd_nand.c, nand_util.c) keep
   their types: no length is more than what was asked for. *)
THEOREM TypeCorrect == Spec => []TypeOK
  <1>1. NandInv => TypeOK
    BY DEF NandInv
  <1> QED BY <1>1, Invariant, PTL

(* On every chip, with every set of bad blocks: the image of a write that fits is
   on the good pages from its offset on, in order, as far as the command reports,
   whatever page fails (nand_write_skip_bad, nand_write). *)
THEOREM AlwaysPlaced == Spec => []Placed
  <1>1. NandInv => Placed
    BY Operators DEF NandInv, WriteDone, HoldsIn, Placed
  <1> QED BY <1>1, Invariant, PTL

(* A read that succeeds returns the image that the last plain write put into the
   same range, also after a restart (nand_read_skip_bad, nand_read). *)
THEOREM AlwaysReadsBack == Spec => []ReadsBack
  <1>1. ASSUME NandInv, pc = "idle", cmd.op = "read", result = "ok", last # NoCommand, FitsIn(bad, cmd),
               cmd.off = last.off, cmd.len = last.len
        PROVE  /\ Len(got) = cmd.len
               /\ \A i, j \in 1..cmd.len : got[i].img = got[j].img /\ got[i].img # 0 /\ got[i].page = i - 1
    <2>1. cmd \in Reads /\ ~cmd.yaffs
      <3>1. cmd \in Reads \cup Writes
        BY <1>1, OtherFacts DEF NandInv, TypeOK
      <3>2. cmd \in Commands
        BY <3>1 DEF Commands
      <3> QED BY <1>1, <3>1, <3>2, CommandFacts
    <2>2. last \in Writes /\ ~last.yaffs
      BY <1>1 DEF NandInv, Kept
    <2>3. StartIn(bad, last) = StartIn(bad, cmd)
      BY <1>1, <2>1, <2>2 DEF StartIn
    <2>4. \A q : IndexIn(bad, last, q) = IndexIn(bad, cmd, q)
      BY <2>3 DEF IndexIn
    <2>5. TargetIn(bad, last) = TargetIn(bad, cmd)
      BY <1>1, <2>3, <2>4 DEF TargetIn
    <2>6. FitsIn(bad, last)
      BY <1>1, <2>5 DEF FitsIn
    <2>7. PICK n \in 1..MaxCommands : \A q \in TargetIn(bad, cmd) : HoldsIn(mem, bad, last, q, n)
      BY <1>1, <2>5, <2>6 DEF NandInv, Kept
    <2>8. ReadIn(got, mem, bad, cmd, cmd.len)
      BY <1>1 DEF NandInv, ReadDone
    <2>9. ASSUME NEW i \in 1..cmd.len PROVE got[i].img = n /\ got[i].page = i - 1
      <3>1. PICK q \in TargetIn(bad, cmd) : IndexIn(bad, cmd, q) = i - 1 /\ got[i] = mem[q]
        BY <2>8 DEF ReadIn
      <3> QED BY <2>4, <2>7, <3>1 DEF HoldsIn
    <2>10. n # 0
      BY <2>7
    <2> QED BY <2>8, <2>9, <2>10 DEF ReadIn
  <1>2. NandInv => ReadsBack
    BY <1>1, Operators DEF ReadsBack
  <1> QED BY <1>2, Invariant, PTL

(* The write of an image that fits changes no page that is not the image's: none in
   a bad block, none before it and none after it, at any step and whatever fails
   (nand_write_skip_bad), nor does a restart in the middle of its loop. *)
THEOREM AlwaysOnlyItsPages == Spec => OnlyItsPages
  <1>1. ASSUME NandInv, [Next]_vars, cmd'.op = "write", FitsIn(bad, cmd'),
               NEW q \in Pages, q \notin TargetIn(bad, cmd')
        PROVE  mem'[q] = mem[q]
    <2>1. SUFFICES ASSUME mem' # mem PROVE mem'[q] = mem[q]
      OBVIOUS
    <2>2. \A op \in {"none", "erase", "scrub", "markbad", "reset"} : cmd' # Other(op)
      BY <1>1, OtherFacts
    <2>3. CASE \E c \in Reads \cup Writes : \E done \in 0..c.len : WriteAtOnce(c, done)
      <3>1. PICK c \in Commands : \E done \in 0..c.len : WriteAtOnce(c, done)
        BY <2>3 DEF Commands
      <3>done. PICK done \in 0..c.len : WriteAtOnce(c, done)
        BY <3>1
      <3>2. /\ cmd' = c /\ ~Outside(c) /\ AtOnce(c) /\ NandWrite(c.off, c.len, 0, done)
            /\ count' \in 0..MaxCommands
        BY <1>1, <3>done, CommandBegins DEF WriteAtOnce
      <3>3. PICK o, k : o = c.off /\ k = c.len
        OBVIOUS
      <3>4. o \in Nat /\ k \in Nat /\ o + k <= Size /\ done \in Nat /\ NandWrite(o, k, 0, done) /\ 0 \in Nat
        BY <3>2, <3>3, <3>done, AtOnceInside
      <3>5. q \notin PagesFrom(o, k) => mem'[q] = mem[q]
        <4>1. TypeOK
          BY <1>1 DEF NandInv
        <4>2. NandWritten(o, k, 0, done)
          BY <3>2, <3>4, <4>1, NandWriteFacts
        <4> QED BY <1>1, <4>2 DEF NandWritten
      <3>6. q \notin PagesFrom(o, k)
        BY <1>1, <3>2, <3>3, AtOnceFacts
      <3> QED BY <3>5, <3>6
    <2>4. CASE \E done \in 0..EraseSize : WriteChunk(done)
      <3>1. PICK done \in 0..EraseSize : WriteChunk(done)
        BY <2>4
      <3>2. /\ pc # "idle" /\ FALSE \in IsBad(offset) /\ ~skip_fb /\ offset + Chunk <= Size /\ cmd' = cmd
        BY <3>1 DEF WriteChunk, AtChunk, Running
      <3>3. q \notin PagesFrom(offset, Chunk)
        BY <1>1, <3>2, Aim
      <3> QED BY <1>1, <3>1, <3>3, ChunkWritten
    <2>5. CASE \E c \in Reads \cup Writes :
                  WriteUnaligned(c) \/ OutsideFlash(c) \/ ReadAtOnce(c) \/ BeginLoop(c)
      BY <2>1, <2>5 DEF WriteUnaligned, OutsideFlash, ReadAtOnce, BeginLoop, flash
    <2>6. CASE SkipBadBlock \/ SkipFirstGood \/ PastEnd \/ ReadChunk
      BY <2>1, <2>6 DEF SkipBadBlock, SkipFirstGood, PastEnd, ReadChunk, flash
    <2>7. CASE \/ \E r \in Erasures, cleanmarker \in BOOLEAN : Erase(r, cleanmarker) \/ Scrub(r, cleanmarker)
               \/ \E b \in Blocks : MarkBad(b)
               \/ Reset \/ \E c \in Reads \cup Writes : WriteAtOnceReset(c)
      BY <2>2, <2>7 DEF Scrub, Erase, MarkBad, Reset, WriteAtOnceReset, Restart, AtPrompt
    <2>8. CASE UNCHANGED vars
      BY <2>1, <2>8 DEF vars
    <2> QED BY <1>1, <2>3, <2>4, <2>5, <2>6, <2>7, <2>8 DEF Next, Loop
  <1>2. ASSUME NandInv, [Next]_vars, pc = "write", cmd.op = "write", cmd' # cmd, FitsIn(bad, cmd),
               NEW q \in Pages, q \notin TargetIn(bad, cmd)
        PROVE  mem'[q] = mem[q]
    <2>1. Reset
      <3>1. \A c : ~(\/ WriteUnaligned(c) \/ OutsideFlash(c) \/ ReadAtOnce(c) \/ BeginLoop(c)
                     \/ WriteAtOnceReset(c) \/ \E done \in 0..c.len : WriteAtOnce(c, done))
        BY <1>2 DEF WriteUnaligned, OutsideFlash, ReadAtOnce, BeginLoop, WriteAtOnceReset, WriteAtOnce, Command
      <3>2. ~Loop /\ ~UNCHANGED vars
        BY <1>2 DEF Loop, SkipBadBlock, SkipFirstGood, PastEnd, ReadChunk, WriteChunk, Running, vars
      <3>3. \A op : ~AtPrompt(op)
        BY <1>2 DEF AtPrompt
      <3> QED BY <1>2, <3>1, <3>2, <3>3 DEF Next, Erase, Scrub, MarkBad
    <2>2. CASE AtChunk
      <3>1. q \notin PagesFrom(offset, Chunk)
        BY <1>2, <2>2, ChunkInside, Aim
      <3> QED BY <1>2, <2>1, <2>2, <3>1, ResetMemory
    <2> QED BY <1>2, <2>1, <2>2, ResetMemory
  <1>3. NandInv /\ [Next]_vars =>
            [\A c \in {cmd, cmd'} : c.op = "write" /\ (c = cmd' \/ pc = "write") /\ Fits(c)
                 => \A q \in Pages \ Target(c) : mem'[q] = mem[q]]_vars
    <2>1. ASSUME NandInv, [Next]_vars, NEW c, c \in {cmd, cmd'}, c.op = "write", c = cmd' \/ pc = "write",
                 Fits(c), NEW q \in Pages \ Target(c)
          PROVE  mem'[q] = mem[q]
      <3>1. FitsIn(bad, c) /\ Target(c) = TargetIn(bad, c)
        BY <2>1, Operators
      <3>2. CASE c = cmd'
        BY <1>1, <2>1, <3>1, <3>2
      <3>3. CASE c # cmd'
        BY <1>2, <2>1, <3>1, <3>3
      <3> QED BY <3>2, <3>3
    <2> QED BY <2>1
  <1> QED BY <1>3, Invariant, PTL DEF Spec, OnlyItsPages

=============================================================================
