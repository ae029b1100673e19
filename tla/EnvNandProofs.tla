--------------------------- MODULE EnvNandProofs ---------------------------
(***************************************************************************)
(* Proofs about EnvNand: its types, for every configuration, and, for a    *)
(* redundant copy on flash without faults and an environment that never    *)
(* overflows, that a power failure at any moment loses nothing and that    *)
(* saveenv implements the atomic register of EnvStore. Then, for the one   *)
(* copy that the board is built with and whatever faults the flash has,    *)
(* that no older environment comes back.                                   *)
(***************************************************************************)
EXTENDS EnvNand, FiniteSetTheorems, WellFoundedInduction, TLAPS

-----------------------------------------------------------------------------
(* The inductive invariant.                                                  *)

Fits(a) == Rank(a, RangeBlocks) >= EnvBlocks

(* Area v is in use and t is the other one, which saveenv overwrites. *)
Roles(v, t) == v = env_valid /\ t # v

(* The copy in use, whose serial number is fl unless no save can succeed. *)
InUse(v, t, fl) ==
    \/ ~CrcOK(v) /\ stored = DefaultEnv
    \/ /\ CrcOK(v)
       /\ Header(v).data = stored
       /\ Fits(t) => Header(v).flags = fl

(* A readable other copy is the predecessor of the one in use. *)
OtherOlder(v, t) ==
    CrcOK(t) => CrcOK(v) /\ Header(v).flags = FlagSucc(Header(t).flags)

(* saveenv has erased the good blocks before offset. *)
ErasedBefore(t) ==
    \A b \in Blocks : b < offset /\ Good(t, b) => flash[t][b] = Erased

(* writeenv has written the good blocks before offset, the rest is erased. *)
WrittenBefore(t) ==
    /\ amount = Rank(t, offset - 1)
    /\ amount > 0 => \E b \in Blocks : IsHeader(t, b)
    /\ \A b \in Blocks : b < offset /\ Good(t, b)
            => flash[t][b] = ChunkOf(RamImage, Rank(t, b))
    /\ \A b \in Blocks : b >= offset /\ Good(t, b) => flash[t][b] = Erased

(* flags has been incremented for the copy that is being written. *)
Saving(v, t) == /\ attempt = data
                /\ \E fl \in Flags : flags = FlagSucc(fl) /\ InUse(v, t, fl)

CopyInv(v, t) ==
    /\ pc = "prompt" => InUse(v, t, flags) /\ OtherOlder(v, t)
    /\ pc = "erase" => /\ Saving(v, t) /\ OtherOlder(v, t) /\ ErasedBefore(t)
                       /\ amount = 0
    /\ pc = "write" => Saving(v, t) /\ WrittenBefore(t)

(* Without power, only what the next boot will find matters. *)
Bootable ==
    /\ BootData \in {stored, attempt}
    /\ CrcOK(1) /\ CrcOK(2) =>
            \/ Header(1).flags = FlagSucc(Header(2).flags)
            \/ Header(2).flags = FlagSucc(Header(1).flags)

IInv ==
    /\ TypeOK
    /\ crc = data
    /\ pc = "off" => Bootable
    /\ \A v, t \in Areas : Roles(v, t) => CopyInv(v, t)

-----------------------------------------------------------------------------
(* Types.                                                                    *)

(* What any step of the RAM environment does to its types. *)
LEMMA SetEnvType ==
    ASSUME RamTypeOK, NEW n \in Names, SetEnv(n)
    PROVE  RamTypeOK'
<1>1. \A v \in Vals \cup {NoVal} : SetEnvRejected(n, v) => RamTypeOK'
  BY DEF RamTypeOK, SetEnvRejected
<1>2. SetEnvDelete(n) => RamTypeOK'
  BY DEF RamTypeOK, SetEnvDelete, Delete, EnvCrcUpdate, Envs
<1>3. \A v \in Vals : EarlyMirror(n, v) \in Envs /\ LateMirror(n, v) \in Envs
  BY DEF RamTypeOK, EarlyMirror, LateMirror, Envs
<1>4. \A v \in Vals : SetEnvOverflow(n, v) => RamTypeOK'
  BY <1>3 DEF RamTypeOK, SetEnvOverflow, Delete, Envs
<1>5. \A v \in Vals : SetEnvStore(n, v) => RamTypeOK'
  BY <1>3 DEF RamTypeOK, SetEnvStore, EnvCrcUpdate, Envs
<1> QED
  BY <1>1, <1>2, <1>4, <1>5 DEF SetEnv

LEMMA NullTypes ==
    /\ Erased \in Contents
    /\ Torn \in Contents
BY DefaultAssumption, FlagAssumption
   DEF Erased, Torn, Contents, NullImage, Images, Flags

LEMMA ChunkType ==
    ASSUME NEW img \in Images, NEW i \in Nat
    PROVE  ChunkOf(img, i) \in Contents
BY FlagAssumption DEF ChunkOf, Contents, Images, Flags

LEMMA AreaTypes ==
    /\ BootArea \in {0, 1, 2}
    /\ BootArea # 0 => CrcOK(BootArea)
<1>1. \A f1, f2 : NewerArea(f1, f2) \in {1, 2}
  BY DEF NewerArea
<1> QED
  BY <1>1, FaultAssumption DEF BootArea

(* The header that a readable area starts with. *)
LEMMA HeaderType ==
    ASSUME TypeOK, NEW a \in Areas, CrcOK(a)
    PROVE  /\ HeaderBlock(a) \in Blocks
           /\ IsHeader(a, HeaderBlock(a))
           /\ Header(a) \in Images
<1>1. HeaderBlock(a) \in Blocks /\ IsHeader(a, HeaderBlock(a))
  BY DEF HeaderBlock, CrcOK
<1>2. flash[a][HeaderBlock(a)] \in Contents
  BY <1>1 DEF TypeOK
<1> QED
  BY <1>1, <1>2 DEF Header, Contents

LEMMA BootTypes ==
    ASSUME TypeOK
    PROVE  BootData \in Envs /\ BootFlags \in Flags
<1>1. CASE BootArea = 0
  BY <1>1, DefaultAssumption, FlagAssumption DEF BootData, BootFlags, Flags
<1>2. CASE BootArea # 0
  <2>1. Header(BootArea) \in Images
    BY <1>2, AreaTypes, HeaderType DEF Areas
  <2> QED
    BY <1>2, <2>1 DEF BootData, BootFlags, Images
<1> QED
  BY <1>1, <1>2

(* Writing one block keeps the type of the flash. *)
LEMMA SetBlockType ==
    ASSUME TypeOK, NEW a \in Areas, NEW b \in Blocks, NEW c \in Contents,
           SetBlock(a, b, c)
    PROVE  flash' \in [Areas -> [Blocks -> Contents]]
BY DEF TypeOK, SetBlock

LEMMA TargetType == TypeOK => Target \in Areas
BY DEF Target, Areas

(* Every step of EnvNand keeps the types. *)
LEMMA TypeStep ==
    ASSUME TypeOK, [Next]_vars
    PROVE  TypeOK'
<1> USE GeometryAssumption
<1>t. Target \in Areas
  BY TargetType
<1>1. CASE PowerOn
  <2>1. BootMirror(BootData) \in Envs
    BY BootTypes, DefaultAssumption DEF BootMirror, Envs
  <2>2. RamTypeOK'
    BY <1>1, <2>1, BootTypes DEF PowerOn, LoadEnv, RamTypeOK
  <2>3. env_valid' \in Areas
    BY <1>1, AreaTypes DEF PowerOn, Areas
  <2> QED
    BY <1>1, <2>2, <2>3, BootTypes DEF PowerOn, TypeOK
<1>2. CASE SetEnvAtPrompt
  <2>1. RamTypeOK'
    BY <1>2, SetEnvType DEF SetEnvAtPrompt, TypeOK
  <2> QED
    BY <1>2, <2>1 DEF SetEnvAtPrompt, nandVars, TypeOK
<1>3. CASE SaveEnvStart
  <2>1. FlagsNext \in Flags
    BY FlagAssumption DEF FlagsNext, FlagSucc, Flags, TypeOK
  <2> QED
    BY <1>3, <2>1 DEF SaveEnvStart, TypeOK, RamTypeOK, ramVars
<1>4. CASE EraseSkip
  BY <1>4 DEF EraseSkip, TypeOK, RamTypeOK, ramVars, Blocks
<1>5. CASE EraseBlock
  <2>1. flash' \in [Areas -> [Blocks -> Contents]]
    BY <1>5, <1>t, NullTypes, SetBlockType DEF EraseBlock
  <2> QED
    BY <1>5, <2>1 DEF EraseBlock, TypeOK, RamTypeOK, ramVars, Blocks
<1>6. CASE EraseFails
  <2>1. flash[Target][offset] \in Contents
    BY <1>6, <1>t DEF EraseFails, TypeOK
  <2>2. flash' \in [Areas -> [Blocks -> Contents]]
    BY <1>6, <2>1, <1>t, NullTypes, SetBlockType DEF EraseFails
  <2> QED
    BY <1>6, <2>2 DEF EraseFails, TypeOK, RamTypeOK, ramVars, Blocks
<1>7. CASE EraseDone
  BY <1>7 DEF EraseDone, TypeOK, RamTypeOK, ramVars
<1>8. CASE WriteSkip
  BY <1>8 DEF WriteSkip, WriteLoop, TypeOK, RamTypeOK, ramVars, Blocks
<1>9. CASE WriteBlock
  <2>1. RamImage \in Images
    BY DEF TypeOK, RamTypeOK, RamImage, Images
  <2>2. ChunkOf(RamImage, amount + 1) \in Contents
    BY <2>1, ChunkType DEF TypeOK
  <2>3. flash[Target][offset] \in Contents
    BY <1>9, <1>t DEF WriteBlock, WriteLoop, TypeOK
  <2>4. Program(flash[Target][offset], ChunkOf(RamImage, amount + 1)) \in Contents
    BY <2>2, <2>3, NullTypes DEF Program
  <2>5. flash' \in [Areas -> [Blocks -> Contents]]
    BY <1>9, <2>4, <1>t, SetBlockType DEF WriteBlock, WriteLoop
  <2> QED
    BY <1>9, <2>5 DEF WriteBlock, WriteLoop, TypeOK, RamTypeOK, ramVars, Blocks
<1>10. CASE WriteFails
  <2>1. flash' \in [Areas -> [Blocks -> Contents]]
    BY <1>10, <1>t, NullTypes, SetBlockType DEF WriteFails, WriteLoop
  <2> QED
    BY <1>10, <2>1 DEF WriteFails, TypeOK, RamTypeOK, ramVars
<1>11. CASE WriteShort
  BY <1>11 DEF WriteShort, TypeOK, RamTypeOK, ramVars
<1>12. CASE SaveEnvDone
  BY <1>12, <1>t DEF SaveEnvDone, TypeOK, RamTypeOK, ramVars
<1>13. CASE PowerFail
  <2>1. flash' \in [Areas -> [Blocks -> Contents]]
    BY <1>13, <1>t, NullTypes, SetBlockType DEF PowerFail, TypeOK
  <2> QED
    BY <1>13, <2>1 DEF PowerFail, TypeOK, RamTypeOK, ramVars
<1>14. CASE MarkBad
  BY <1>14 DEF MarkBad, AreasInUse, Areas, TypeOK, RamTypeOK, ramVars
<1>15. CASE UNCHANGED vars
  BY <1>15 DEF vars, TypeOK, RamTypeOK
<1> QED
  BY <1>1, <1>2, <1>3, <1>4, <1>5, <1>6, <1>7, <1>8, <1>9, <1>10, <1>11,
     <1>12, <1>13, <1>14, <1>15 DEF Next

(* The type invariant of EnvNand, for every flash geometry, set of faults and
   environment: in particular flags stays in its range, amount never exceeds
   the environment and the flash only ever holds whole chunks, erased or torn
   blocks.                                                                   *)
THEOREM TypeCorrect == Spec => []TypeOK
<1>1. Init => TypeOK
  <2> SUFFICES ASSUME Init PROVE TypeOK
    OBVIOUS
  <2>1. RamTypeOK
    BY DefaultAssumption, KindAssumption
       DEF Init, RamInit, RamTypeOK, BootMirror, Envs
  <2>2. flash \in [Areas -> [Blocks -> Contents]]
    BY NullTypes DEF Init
  <2> QED
    BY <2>1, <2>2, GeometryAssumption, FlagAssumption, DefaultAssumption,
       FactoryBadAssumption
       DEF Init, TypeOK, Areas, Flags
<1>2. TypeOK /\ [Next]_vars => TypeOK'
  BY TypeStep
<1> QED
  BY <1>1, <1>2, PTL DEF Spec

-----------------------------------------------------------------------------
(* Counting good blocks.                                                     *)

LEMMA RankFinite ==
    ASSUME NEW a, NEW b \in Nat
    PROVE  IsFiniteSet({c \in 1..b : Good(a, c)}) /\ Rank(a, b) \in Nat
<1>1. IsFiniteSet(1..b)
  BY FS_Interval
<1>2. IsFiniteSet({c \in 1..b : Good(a, c)})
  BY <1>1, FS_Subset
<1> QED
  BY <1>2, FS_CardinalityType DEF Rank

LEMMA RankZero == ASSUME NEW a PROVE Rank(a, 0) = 0
<1>1. {c \in 1..0 : Good(a, c)} = {}
  OBVIOUS
<1> QED
  BY <1>1, FS_EmptySet DEF Rank

LEMMA RankMono ==
    ASSUME NEW a, NEW b \in Nat, NEW c \in Nat, b <= c
    PROVE  Rank(a, b) <= Rank(a, c)
<1>1. {d \in 1..b : Good(a, d)} \subseteq {d \in 1..c : Good(a, d)}
  OBVIOUS
<1> QED
  BY <1>1, RankFinite, FS_Subset DEF Rank

LEMMA RankStep ==
    ASSUME NEW a, NEW b \in Nat
    PROVE  Rank(a, b + 1) = IF Good(a, b + 1) THEN Rank(a, b) + 1 ELSE Rank(a, b)
<1> DEFINE S == {c \in 1..b : Good(a, c)}
           T == {c \in 1..(b + 1) : Good(a, c)}
<1>1. IsFiniteSet(S)
  BY RankFinite
<1>2. CASE Good(a, b + 1)
  <2>1. T = S \cup {b + 1}
    BY <1>2
  <2>2. b + 1 \notin S
    OBVIOUS
  <2>3. Cardinality(T) = Cardinality(S) + 1
    BY <1>1, <2>1, <2>2, FS_AddElement
  <2> QED
    BY <1>2, <2>3 DEF Rank
<1>3. CASE ~Good(a, b + 1)
  <2>1. T = S
    BY <1>3
  <2> QED
    BY <1>3, <2>1 DEF Rank
<1> QED
  BY <1>2, <1>3

(* A good block comes after every block before it. *)
LEMMA RankStrict ==
    ASSUME NEW a, NEW b \in Nat, NEW c \in Nat, b < c, Good(a, c)
    PROVE  Rank(a, b) < Rank(a, c)
<1>1. c - 1 \in Nat /\ b <= c - 1 /\ (c - 1) + 1 = c
  OBVIOUS
<1>2. Rank(a, c) = Rank(a, c - 1) + 1
  BY <1>1, RankStep
<1>3. Rank(a, b) <= Rank(a, c - 1)
  BY <1>1, RankMono
<1>4. Rank(a, b) \in Nat /\ Rank(a, c - 1) \in Nat
  BY <1>1, RankFinite
<1> QED
  BY <1>2, <1>3, <1>4

-----------------------------------------------------------------------------
(* What a step that does not mark blocks bad leaves alone.                   *)

LEMMA SameBlocks ==
    ASSUME bad' = bad, NEW a
    PROVE  /\ \A b : Good(a, b)' = Good(a, b) /\ Rank(a, b)' = Rank(a, b)
           /\ \A b : IsHeader(a, b)' = IsHeader(a, b)
           /\ HeaderBlock(a)' = HeaderBlock(a)
           /\ Fits(a)' = Fits(a)
<1>1. \A b : Good(a, b)' = Good(a, b)
  BY DEF Good
<1>2. \A b : Rank(a, b)' = Rank(a, b)
  BY <1>1 DEF Rank
<1>3. \A b : IsHeader(a, b)' = IsHeader(a, b)
  BY <1>1, <1>2 DEF IsHeader
<1>4. HeaderBlock(a)' = HeaderBlock(a)
  BY <1>3 DEF HeaderBlock
<1> QED
  BY <1>1, <1>2, <1>3, <1>4 DEF Fits

LEMMA SameArea ==
    ASSUME bad' = bad, NEW a, flash'[a] = flash[a]
    PROVE  CrcOK(a)' = CrcOK(a) /\ Header(a)' = Header(a)
<1>1. Header(a)' = Header(a)
  BY SameBlocks DEF Header
<1>2. \A img : Holds(a, img)' = Holds(a, img)
  BY SameBlocks DEF Holds
<1> QED
  BY <1>1, <1>2, SameBlocks DEF CrcOK

LEMMA ChunkParts ==
    /\ \A img, i : ChunkOf(img, i).st = "chunk"
    /\ \A img : ChunkOf(img, 1).img = img
BY DEF ChunkOf

(* A readable area has a chunk in each of its first EnvBlocks good blocks. *)
LEMMA ReadableChunks ==
    ASSUME NEW a, CrcOK(a), NEW b \in Blocks, Good(a, b), Rank(a, b) <= EnvBlocks
    PROVE  flash[a][b].st = "chunk"
BY ChunkParts DEF CrcOK, Holds

(* Erasing or tearing a good block cannot make an area readable. *)
LEMMA SpoilBlock ==
    ASSUME TypeOK, TypeOK', bad' = bad, NEW a \in Areas, NEW b \in Blocks, Good(a, b),
           NEW c \in {Erased, Torn}, SetBlock(a, b, c), CrcOK(a)'
    PROVE  /\ CrcOK(a) /\ Header(a)' = Header(a)
           /\ ~(Rank(a, b) <= EnvBlocks)
<1> USE GeometryAssumption
<1>1. flash'[a][b] = c /\ \A d \in Blocks \ {b} : flash'[a][d] = flash[a][d]
  BY DEF SetBlock, TypeOK
<1>2. c.st # "chunk"
  BY DEF Erased, Torn
<1>3. ~(Rank(a, b) <= EnvBlocks)
  <2>1. Holds(a, Header(a))'
    BY DEF CrcOK
  <2>2. Good(a, b) /\ Rank(a, b) <= EnvBlocks
            => \E img : flash'[a][b] = ChunkOf(img, Rank(a, b))
    BY <2>1, SameBlocks DEF Holds
  <2> QED
    BY <1>1, <1>2, <2>2, ChunkParts
<1>4. \E d \in Blocks : IsHeader(a, d)
  BY SameBlocks DEF CrcOK
<1>5. HeaderBlock(a) \in Blocks /\ IsHeader(a, HeaderBlock(a))
  BY <1>4 DEF HeaderBlock
<1>6. HeaderBlock(a) # b
  BY <1>3, <1>5 DEF IsHeader
<1>7. Header(a)' = Header(a)
  BY <1>1, <1>5, <1>6, SameBlocks DEF Header
<1>8. Holds(a, Header(a))
  BY <1>1, <1>3, <1>7, SameBlocks DEF CrcOK, Holds
<1> QED
  BY <1>3, <1>4, <1>7, <1>8 DEF CrcOK

-----------------------------------------------------------------------------
(* Which copy the next boot finds.                                           *)

(* The environment never fills up, whatever setenv is given. *)
EnvFits == \A d \in Envs, n \in Names, v \in Vals : ~TooLong(d, n, v)

(* The serial check finds the successor. *)
LEMMA SerialCheck ==
    ASSUME NEW f \in Flags
    PROVE  NewerArea(FlagSucc(f), f) = 1 /\ NewerArea(f, FlagSucc(f)) = 2
BY FlagAssumption, Zenon, SMT DEF NewerArea, FlagSucc, Flags

LEMMA BootsNewest ==
    ASSUME TypeOK, Redundant, NEW v \in Areas, NEW t \in Areas, v # t, CrcOK(v),
           CrcOK(t) => Header(v).flags = FlagSucc(Header(t).flags)
    PROVE  BootArea = v /\ BootData = Header(v).data /\ BootFlags = Header(v).flags
<1>1. BootArea = v
  <2>1. CASE CrcOK(t)
    <3>1. Header(t).flags \in Flags
      BY <2>1, HeaderType DEF Images
    <3> QED
      BY <2>1, <3>1, SerialCheck DEF BootArea, Areas
  <2>2. CASE ~CrcOK(t)
    BY <2>2 DEF BootArea, Areas
  <2> QED
    BY <2>1, <2>2
<1> QED
  BY <1>1 DEF BootData, BootFlags, Areas

LEMMA BootsDefault ==
    ASSUME Redundant, ~CrcOK(1), ~CrcOK(2)
    PROVE  BootArea = 0 /\ BootData = DefaultEnv
BY DEF BootArea, BootData

(* At the prompt, and while the other copy is erased, the last save is safe. *)
LEMMA BootsStored ==
    ASSUME TypeOK, Redundant, NEW v \in Areas, NEW t \in Areas, v # t,
           NEW fl, InUse(v, t, fl), OtherOlder(v, t)
    PROVE  BootData = stored /\ Bootable
<1>1. Areas = {1, 2}
  BY DEF Areas
<1>2. CASE CrcOK(v)
  <2>1. BootData = stored
    BY <1>2, BootsNewest DEF InUse, OtherOlder
  <2> QED
    BY <1>1, <2>1 DEF Bootable, OtherOlder
<1>3. CASE ~CrcOK(v)
  <2>1. ~CrcOK(1) /\ ~CrcOK(2)
    BY <1>1, <1>3 DEF OtherOlder
  <2> QED
    BY <1>3, <2>1, BootsDefault DEF InUse, Bootable
<1> QED
  BY <1>2, <1>3

StoredIsSafe ==
    \A v, t \in Areas :
        /\ TypeOK /\ Redundant /\ v # t
        /\ \E fl \in Flags : InUse(v, t, fl)
        /\ OtherOlder(v, t)
        => BootData = stored /\ Bootable

(* The same after a step. *)
LEMMA BootsStoredNext == StoredIsSafe'
<1>1. StoredIsSafe
  BY BootsStored DEF StoredIsSafe
<1> QED
  BY <1>1, PTL

(* While the other copy is written, its header can only be the new one. *)
LEMMA WrittenHeader ==
    ASSUME TypeOK, NEW t \in Areas, WrittenBefore(t), CrcOK(t)
    PROVE  Header(t) = RamImage
<1> DEFINE h == HeaderBlock(t)
<1>2. h \in Blocks /\ Good(t, h) /\ Rank(t, h) = 1
  BY HeaderType DEF IsHeader
<1>3. flash[t][h].st = "chunk"
  BY <1>2, ReadableChunks, GeometryAssumption
<1>4. h < offset
  <2>1. flash[t][h] # Erased
    BY <1>3 DEF Erased
  <2>2. h \in Int /\ offset \in Int
    BY <1>2 DEF Blocks, TypeOK
  <2> QED
    BY <1>2, <2>1, <2>2 DEF WrittenBefore
<1>5. flash[t][h] = ChunkOf(RamImage, 1)
  BY <1>2, <1>4 DEF WrittenBefore
<1> QED
  BY <1>5, ChunkParts DEF Header

LEMMA BootsWritten ==
    ASSUME TypeOK, Redundant, NEW v \in Areas, NEW t \in Areas, v # t,
           Saving(v, t), WrittenBefore(t)
    PROVE  /\ BootData = IF CrcOK(t) THEN attempt ELSE stored
           /\ Bootable
<1>1. Areas = {1, 2}
  BY DEF Areas
<1>2. PICK fl \in Flags : flags = FlagSucc(fl) /\ InUse(v, t, fl)
  BY DEF Saving
<1>3. CASE CrcOK(t)
  <2>1. Header(t).data = data /\ Header(t).flags = FlagSucc(fl)
    BY <1>2, <1>3, WrittenHeader DEF RamImage
  <2>2. Fits(t)
    BY <1>3 DEF CrcOK, Holds, Fits
  <2>3. CrcOK(v) => Header(t).flags = FlagSucc(Header(v).flags)
    BY <1>2, <2>1, <2>2 DEF InUse
  <2>4. BootData = attempt
    BY <1>3, <2>1, <2>3, BootsNewest DEF Saving
  <2> QED
    BY <1>1, <1>3, <2>3, <2>4 DEF Bootable
<1>4. CASE ~CrcOK(t)
  <2>1. BootData = stored
    <3>1. CASE CrcOK(v)
      BY <1>2, <1>4, <3>1, BootsNewest DEF InUse
    <3>2. CASE ~CrcOK(v)
      BY <1>1, <1>2, <1>4, <3>2, BootsDefault DEF InUse
    <3> QED
      BY <3>1, <3>2
  <2> QED
    BY <1>1, <1>4, <2>1 DEF Bootable
<1> QED
  BY <1>3, <1>4

WrittenIsSafe ==
    \A v, t \in Areas :
        /\ TypeOK /\ Redundant /\ v # t
        /\ Saving(v, t) /\ WrittenBefore(t)
        => BootData \in {stored, attempt}

(* The same after a step. *)
LEMMA BootsWrittenNext == WrittenIsSafe'
<1>1. WrittenIsSafe
  BY BootsWritten DEF WrittenIsSafe
<1> QED
  BY <1>1, PTL

(* So a boot at any moment finds the last save or the one in progress. *)
LEMMA AlwaysBootable ==
    ASSUME IInv, Redundant
    PROVE  Bootable
<1>1. PICK v \in Areas, t \in Areas : Roles(v, t)
  BY DEF Areas, Roles, IInv, TypeOK
<1>2. CopyInv(v, t) /\ v # t /\ TypeOK
  BY <1>1 DEF IInv, Roles
<1>3. CASE pc = "off"
  BY <1>3 DEF IInv
<1>4. CASE pc = "prompt"
  BY <1>2, <1>4, BootsStored DEF CopyInv
<1>5. CASE pc = "erase"
  BY <1>2, <1>5, BootsStored DEF CopyInv, Saving
<1>6. CASE pc = "write"
  BY <1>2, <1>6, BootsWritten DEF CopyInv
<1> QED
  BY <1>2, <1>3, <1>4, <1>5, <1>6 DEF TypeOK

-----------------------------------------------------------------------------
(* The invariant is inductive.                                               *)

(* A step that leaves area v alone keeps what is known of the copy in use. *)
LEMMA KeepInUse ==
    ASSUME bad' = bad, NEW v, NEW t, NEW fl, flash'[v] = flash[v],
           stored' = stored, InUse(v, t, fl)
    PROVE  InUse(v, t, fl)'
BY SameArea, SameBlocks DEF InUse

LEMMA KeepSaving ==
    ASSUME bad' = bad, NEW v, NEW t, flash'[v] = flash[v], stored' = stored,
           attempt' = attempt, data' = data, flags' = flags, Saving(v, t)
    PROVE  Saving(v, t)'
BY KeepInUse DEF Saving

(* SetBlock leaves the other area alone. *)
LEMMA OtherArea ==
    ASSUME TypeOK, NEW v \in Areas, NEW t \in Areas, v # t, NEW b \in Blocks, NEW c,
           SetBlock(t, b, c)
    PROVE  /\ flash'[v] = flash[v]
           /\ flash'[t][b] = c
           /\ \A d \in Blocks \ {b} : flash'[t][d] = flash[t][d]
BY DEF SetBlock, TypeOK

(* Spoiling a block of the other area keeps it older than the one in use. *)
LEMMA KeepOlder ==
    ASSUME TypeOK, TypeOK', bad' = bad, NEW v \in Areas, NEW t \in Areas, v # t,
           NEW b \in Blocks, Good(t, b), NEW c \in {Erased, Torn}, SetBlock(t, b, c),
           OtherOlder(v, t)
    PROVE  OtherOlder(v, t)'
<1>1. flash'[v] = flash[v]
  BY OtherArea
<1>2. CrcOK(t)' => CrcOK(t) /\ Header(t)' = Header(t)
  BY SpoilBlock
<1>3. CrcOK(v)' = CrcOK(v) /\ Header(v)' = Header(v)
  BY <1>1, SameArea
<1> QED
  BY <1>2, <1>3 DEF OtherOlder

LEMMA TargetIsOther ==
    ASSUME Redundant, NEW v \in Areas, NEW t \in Areas, Roles(v, t)
    PROVE  Target = t
BY DEF Target, Areas, Roles

(* env_crc_update has always been called when the environment fits. *)
LEMMA CrcStep ==
    ASSUME EnvFits, TypeOK, crc = data, [Next]_vars
    PROVE  crc' = data'
<1>1. CASE PowerOn
  BY <1>1 DEF PowerOn, LoadEnv
<1>2. CASE SetEnvAtPrompt
  <2>1. PICK n \in Names : SetEnv(n)
    BY <1>2 DEF SetEnvAtPrompt
  <2>2. \A v \in Vals : ~SetEnvOverflow(n, v)
    BY DEF SetEnvOverflow, Overflows, EnvFits, TypeOK, RamTypeOK
  <2> QED
    BY <2>1, <2>2
       DEF SetEnv, SetEnvRejected, SetEnvDelete, SetEnvStore, EnvCrcUpdate
<1>3. CASE UNCHANGED ramVars
  BY <1>3 DEF ramVars
<1> QED
  BY <1>1, <1>2, <1>3
     DEF Next, SaveEnvStart, EraseSkip, EraseBlock, EraseFails, EraseDone, WriteSkip,
         WriteBlock, WriteFails, WriteShort, SaveEnvDone, PowerFail, MarkBad, vars,
         ramVars

(* PowerOn: the area that was found newest is in use. *)
LEMMA PowerOnStep ==
    ASSUME Redundant, IInv, TypeOK', PowerOn, NEW v \in Areas, NEW t \in Areas,
           Roles(v, t)'
    PROVE  CopyInv(v, t)'
<1> USE DEF Areas
<1>1. TypeOK /\ Bootable
  BY DEF IInv, PowerOn
<1>2. flash' = flash /\ bad' = bad
  BY DEF PowerOn
<1>3. \A a : CrcOK(a)' = CrcOK(a) /\ Header(a)' = Header(a)
  BY <1>2, SameArea
<1>4. CASE BootArea = 0
  <2>1. ~CrcOK(1) /\ ~CrcOK(2)
    <3>1. CASE CrcOK(1) /\ CrcOK(2)
      BY <1>4, <3>1 DEF BootArea, NewerArea
    <3> QED
      BY <1>4, <3>1 DEF BootArea
  <2>2. stored' = DefaultEnv
    BY <1>4 DEF PowerOn, BootData
  <2> QED
    BY <1>3, <2>1, <2>2 DEF CopyInv, InUse, OtherOlder, PowerOn
<1>5. CASE BootArea # 0
  <2>1. v = BootArea /\ t # v /\ CrcOK(v)
    BY <1>5, AreaTypes DEF PowerOn, Roles
  <2>2. stored' = Header(v).data /\ flags' = Header(v).flags
    BY <1>5, <2>1 DEF PowerOn, BootData, BootFlags
  <2>3. CrcOK(t) => Header(v).flags = FlagSucc(Header(t).flags)
    <3> SUFFICES ASSUME CrcOK(t), Header(v).flags # FlagSucc(Header(t).flags)
                 PROVE  FALSE
      OBVIOUS
    <3>1. Header(t).flags = FlagSucc(Header(v).flags)
      BY <1>1, <2>1 DEF Bootable
    <3>2. BootArea = t
      BY <1>1, <2>1, <3>1, BootsNewest
    <3> QED
      BY <2>1, <3>2
  <2> QED
    BY <1>3, <2>1, <2>2, <2>3 DEF CopyInv, InUse, OtherOlder, PowerOn
<1> QED
  BY <1>4, <1>5

(* EraseBlock and EraseSkip: the erased prefix grows by one block. *)
LEMMA EraseStep ==
    ASSUME Redundant, TypeOK, TypeOK', EraseBlock \/ EraseSkip,
           NEW v \in Areas, NEW t \in Areas, Roles(v, t), CopyInv(v, t)
    PROVE  CopyInv(v, t)'
<1>0. /\ pc = "erase" /\ pc' = pc /\ offset \in Blocks /\ offset' = offset + 1
      /\ bad' = bad /\ Target = t /\ v # t /\ stored' = stored /\ attempt' = attempt
      /\ data' = data /\ flags' = flags /\ amount' = 0
  BY TargetIsOther DEF CopyInv, EraseBlock, EraseSkip, ramVars, Roles
<1>1. Saving(v, t) /\ OtherOlder(v, t) /\ ErasedBefore(t)
  BY <1>0 DEF CopyInv
<1>2. CASE EraseBlock
  <2>1. SetBlock(t, offset, Erased) /\ Good(t, offset)
    BY <1>0, <1>2 DEF EraseBlock
  <2>2. Saving(v, t)'
    BY <1>0, <1>1, <2>1, OtherArea, KeepSaving
  <2>3. OtherOlder(v, t)'
    BY <1>0, <1>1, <2>1, KeepOlder
  <2>4. ErasedBefore(t)'
    <3>1. \A b \in Blocks : b < offset' => b < offset \/ b = offset
      BY <1>0, GeometryAssumption DEF Blocks
    <3>2. flash'[t][offset] = Erased
      BY <1>0, <2>1, OtherArea
    <3>3. \A b \in Blocks : b # offset => flash'[t][b] = flash[t][b]
      BY <1>0, <2>1, OtherArea
    <3> QED
      BY <1>1, <1>0, <3>1, <3>2, <3>3, SameBlocks DEF ErasedBefore
  <2> QED
    BY <1>0, <2>2, <2>3, <2>4 DEF CopyInv
<1>3. CASE EraseSkip
  <2>1. flash' = flash /\ ~Good(t, offset)
    BY <1>0, <1>3 DEF EraseSkip
  <2>2. Saving(v, t)'
    BY <1>0, <1>1, <2>1, KeepSaving
  <2>3. OtherOlder(v, t)'
    BY <1>0, <1>1, <2>1, SameArea DEF OtherOlder
  <2>4. ErasedBefore(t)'
    <3>1. \A b \in Blocks : b < offset' => b < offset \/ b = offset
      BY <1>0, GeometryAssumption DEF Blocks
    <3> QED
      BY <1>0, <1>1, <2>1, <3>1, SameBlocks DEF ErasedBefore
  <2> QED
    BY <1>0, <2>2, <2>3, <2>4 DEF CopyInv
<1> QED
  BY <1>2, <1>3

(* EraseDone: all good blocks are erased. *)
LEMMA EraseDoneStep ==
    ASSUME Redundant, TypeOK, TypeOK', EraseDone,
           NEW v \in Areas, NEW t \in Areas, Roles(v, t), CopyInv(v, t)
    PROVE  CopyInv(v, t)'
<1>0. /\ pc = "erase" /\ pc' = "write" /\ offset \notin Blocks /\ offset' = 1
      /\ bad' = bad /\ stored' = stored /\ attempt' = attempt /\ flash' = flash
      /\ data' = data /\ flags' = flags /\ amount' = 0
  BY DEF EraseDone, ramVars, CopyInv
<1>1. Saving(v, t) /\ ErasedBefore(t)
  BY <1>0 DEF CopyInv
<1>2. Saving(v, t)'
  BY <1>0, <1>1, KeepSaving
<1>3. \A b \in Blocks : Good(t, b) => flash[t][b] = Erased
  BY <1>0, <1>1, GeometryAssumption DEF ErasedBefore, TypeOK, Blocks
<1>4. amount' = Rank(t, offset' - 1)
  BY <1>0, RankZero
<1>5. WrittenBefore(t)'
  BY <1>0, <1>3, <1>4, SameBlocks DEF WrittenBefore, Blocks
<1> QED
  BY <1>0, <1>2, <1>5 DEF CopyInv

(* WriteBlock and WriteSkip: the written prefix grows by one block. *)
LEMMA WriteSkipStep ==
    ASSUME Redundant, TypeOK, TypeOK', WriteSkip,
           NEW v \in Areas, NEW t \in Areas, Roles(v, t), CopyInv(v, t)
    PROVE  CopyInv(v, t)'
<1>0. /\ pc = "write" /\ pc' = pc /\ offset \in Blocks /\ offset' = offset + 1
      /\ bad' = bad /\ Target = t /\ v # t /\ stored' = stored /\ attempt' = attempt
      /\ data' = data /\ flags' = flags /\ crc' = crc /\ amount' = amount
      /\ flash' = flash /\ ~Good(t, offset)
  BY TargetIsOther DEF WriteSkip, WriteLoop, ramVars, Roles
<1>1. Saving(v, t) /\ WrittenBefore(t)
  BY <1>0 DEF CopyInv
<1>2. Saving(v, t)'
  BY <1>0, <1>1, KeepSaving
<1>3. /\ offset - 1 \in Nat /\ (offset - 1) + 1 = offset /\ offset' - 1 = offset
      /\ \A b \in Blocks : b < offset' => b < offset \/ b = offset
      /\ \A b \in Blocks : b >= offset' => b >= offset
  BY <1>0, GeometryAssumption DEF Blocks
<1>4. Rank(t, offset) = Rank(t, offset - 1)
  BY <1>0, <1>3, RankStep
<1>5. RamImage' = RamImage
  BY <1>0 DEF RamImage
<1>6. WrittenBefore(t)'
  BY <1>0, <1>1, <1>3, <1>4, <1>5, SameBlocks DEF WrittenBefore
<1> QED
  BY <1>0, <1>2, <1>6 DEF CopyInv

LEMMA WriteBlockStep ==
    ASSUME Redundant, TypeOK, TypeOK', WriteBlock,
           NEW v \in Areas, NEW t \in Areas, Roles(v, t), CopyInv(v, t)
    PROVE  CopyInv(v, t)'
<1>0. /\ pc = "write" /\ pc' = pc /\ offset \in Blocks /\ offset' = offset + 1
      /\ bad' = bad /\ Target = t /\ v # t /\ stored' = stored /\ attempt' = attempt
      /\ data' = data /\ flags' = flags /\ crc' = crc /\ amount' = amount + 1
      /\ Good(t, offset)
      /\ SetBlock(t, offset, Program(flash[t][offset], ChunkOf(RamImage, amount + 1)))
  BY TargetIsOther DEF WriteBlock, WriteLoop, ramVars, Roles
<1>1. Saving(v, t) /\ WrittenBefore(t)
  BY <1>0 DEF CopyInv
<1>2. Saving(v, t)'
  BY <1>0, <1>1, OtherArea, KeepSaving
<1>3. /\ offset - 1 \in Nat /\ (offset - 1) + 1 = offset /\ offset' - 1 = offset
      /\ \A b \in Blocks : b < offset' => b < offset \/ b = offset
      /\ \A b \in Blocks : b >= offset' => b >= offset /\ b # offset
      /\ \A b \in Blocks : b < offset => b # offset
      /\ offset >= offset
  BY <1>0, GeometryAssumption DEF Blocks
<1>4. Rank(t, offset) = amount + 1
  BY <1>0, <1>1, <1>3, RankStep DEF WrittenBefore
<1>5. RamImage' = RamImage
  BY <1>0 DEF RamImage
<1>6. flash[t][offset] = Erased
  BY <1>0, <1>1, <1>3 DEF WrittenBefore
<1>7. /\ flash'[t][offset] = ChunkOf(RamImage, Rank(t, offset))
      /\ \A b \in Blocks : b # offset => flash'[t][b] = flash[t][b]
  BY <1>0, <1>4, <1>6, OtherArea DEF Program
<1>8. \E b \in Blocks : IsHeader(t, b)
  <2>1. CASE amount > 0
    BY <1>1, <2>1 DEF WrittenBefore
  <2>2. CASE ~(amount > 0)
    <3>1. amount = 0
      BY <2>2, GeometryAssumption DEF TypeOK
    <3> QED
      BY <1>0, <1>4, <3>1 DEF IsHeader
  <2> QED
    BY <2>1, <2>2
<1>9. WrittenBefore(t)'
  <2>1. amount' = Rank(t, offset' - 1)
    BY <1>0, <1>3, <1>4
  <2>2. \A b \in Blocks : b < offset' /\ Good(t, b)
            => flash'[t][b] = ChunkOf(RamImage, Rank(t, b))
    BY <1>1, <1>3, <1>7 DEF WrittenBefore
  <2>3. \A b \in Blocks : b >= offset' /\ Good(t, b) => flash'[t][b] = Erased
    BY <1>1, <1>3, <1>7 DEF WrittenBefore
  <2> QED
    BY <1>0, <1>5, <1>8, <2>1, <2>2, <2>3, SameBlocks DEF WrittenBefore
<1> QED
  BY <1>0, <1>2, <1>9 DEF CopyInv

(* writeenv fails: the area has too few good blocks and never was readable. *)
LEMMA WriteShortStep ==
    ASSUME Redundant, TypeOK, TypeOK', WriteShort,
           NEW v \in Areas, NEW t \in Areas, Roles(v, t), CopyInv(v, t)
    PROVE  CopyInv(v, t)'
<1>0. /\ pc = "write" /\ pc' = "prompt" /\ offset \notin Blocks /\ amount < EnvBlocks
      /\ bad' = bad /\ stored' = stored /\ flash' = flash
  BY DEF WriteShort
<1>1. Saving(v, t) /\ WrittenBefore(t)
  BY <1>0 DEF CopyInv
<1>2. offset - 1 = RangeBlocks
  BY <1>0, GeometryAssumption DEF TypeOK, Blocks
<1>3. ~Fits(t)
  BY <1>0, <1>1, <1>2, GeometryAssumption DEF WrittenBefore, Fits, TypeOK
<1>4. ~CrcOK(t)
  BY <1>3 DEF CrcOK, Holds, Fits
<1>5. CrcOK(t)' = CrcOK(t) /\ CrcOK(v)' = CrcOK(v) /\ Header(v)' = Header(v)
  BY <1>0, SameArea
<1>6. Fits(t)' = Fits(t)
  BY <1>0, SameBlocks
<1>7. InUse(v, t, flags)' /\ OtherOlder(v, t)'
  BY <1>0, <1>1, <1>3, <1>4, <1>5, <1>6 DEF Saving, InUse, OtherOlder
<1> QED
  BY <1>0, <1>7 DEF CopyInv

(* Once amount is EnvBlocks the area holds the whole image. *)
LEMMA WholeImage ==
    ASSUME TypeOK, crc = data, NEW t \in Areas, WrittenBefore(t), amount = EnvBlocks
    PROVE  CrcOK(t) /\ Header(t) = RamImage
<1> USE GeometryAssumption
<1>1. /\ offset - 1 \in Nat /\ offset - 1 <= RangeBlocks
      /\ \A b \in Blocks : b \in Nat /\ (b < offset \/ offset - 1 < b)
  BY DEF TypeOK, Blocks
<1>2. \E b \in Blocks : IsHeader(t, b)
  BY DEF WrittenBefore
<1>3. Rank(t, RangeBlocks) >= EnvBlocks
  <2>1. Rank(t, offset - 1) <= Rank(t, RangeBlocks)
    BY <1>1, RankMono
  <2> QED
    BY <2>1, RankFinite DEF WrittenBefore
<1>4. \A b \in Blocks : Good(t, b) /\ Rank(t, b) <= EnvBlocks => b < offset
  <2> SUFFICES ASSUME NEW b \in Blocks, Good(t, b), Rank(t, b) <= EnvBlocks, ~(b < offset)
               PROVE  FALSE
    OBVIOUS
  <2>1. Rank(t, offset - 1) < Rank(t, b)
    BY <1>1, RankStrict
  <2>2. Rank(t, b) \in Nat /\ Rank(t, offset - 1) = EnvBlocks
    BY <1>1, RankFinite DEF WrittenBefore
  <2> QED
    BY <2>1, <2>2
<1>5. Holds(t, RamImage)
  BY <1>3, <1>4 DEF Holds, WrittenBefore
<1>6. Header(t) = RamImage
  <2>1. HeaderBlock(t) \in Blocks /\ IsHeader(t, HeaderBlock(t))
    BY <1>2 DEF HeaderBlock
  <2>2. flash[t][HeaderBlock(t)] = ChunkOf(RamImage, 1)
    BY <1>5, <2>1 DEF Holds, IsHeader
  <2> QED
    BY <2>2, ChunkParts DEF Header
<1> QED
  BY <1>2, <1>5, <1>6 DEF CrcOK, RamImage

(* SaveEnvDone: the roles of the areas change. *)
LEMMA SaveDoneStep ==
    ASSUME Redundant, IInv, TypeOK', SaveEnvDone, NEW v \in Areas, NEW t \in Areas,
           Roles(t, v)'
    PROVE  CopyInv(t, v)'
<1>0. /\ pc = "write" /\ pc' = "prompt" /\ amount = EnvBlocks /\ env_valid' = Target
      /\ bad' = bad /\ stored' = attempt /\ flash' = flash /\ flags' = flags
      /\ TypeOK /\ crc = data
  BY DEF SaveEnvDone, IInv
<1>1. Roles(v, t) /\ CopyInv(v, t)
  BY <1>0 DEF Roles, IInv, Target, Areas, TypeOK
<1>2. Saving(v, t) /\ WrittenBefore(t)
  BY <1>0, <1>1 DEF CopyInv
<1>3. PICK fl \in Flags : flags = FlagSucc(fl) /\ InUse(v, t, fl)
  BY <1>2 DEF Saving
<1>4. CrcOK(t) /\ Header(t) = RamImage
  BY <1>0, <1>2, WholeImage
<1>5. Header(t).data = attempt /\ Header(t).flags = flags
  BY <1>2, <1>4 DEF RamImage, Saving
<1>6. Fits(t)
  BY <1>4 DEF CrcOK, Holds, Fits
<1>7. CrcOK(v) => Header(t).flags = FlagSucc(Header(v).flags)
  BY <1>3, <1>5, <1>6 DEF InUse
<1>8. /\ CrcOK(t)' = CrcOK(t) /\ CrcOK(v)' = CrcOK(v)
      /\ Header(v)' = Header(v) /\ Header(t)' = Header(t)
  BY <1>0, SameArea
<1>9. InUse(t, v, flags)' /\ OtherOlder(t, v)'
  BY <1>0, <1>4, <1>5, <1>7, <1>8 DEF InUse, OtherOlder
<1> QED
  BY <1>0, <1>9 DEF CopyInv

(* Until its last block is written, the other area is unreadable. *)
LEMMA UnreadableYet ==
    ASSUME TypeOK, NEW t \in Areas, WrittenBefore(t), amount < EnvBlocks,
           offset \in Blocks, Good(t, offset)
    PROVE  ~CrcOK(t)
<1>1. offset - 1 \in Nat /\ (offset - 1) + 1 = offset /\ offset >= offset
  BY GeometryAssumption DEF Blocks
<1>2. Rank(t, offset) = amount + 1
  BY <1>1, RankStep DEF WrittenBefore
<1>3. Rank(t, offset) <= EnvBlocks
  BY <1>2, GeometryAssumption DEF TypeOK
<1>4. flash[t][offset] = Erased
  BY <1>1 DEF WrittenBefore
<1> QED
  BY <1>3, <1>4, ReadableChunks DEF Erased

(* PowerFail: a block torn in mid-save changes nothing that the boot looks at. *)
LEMMA PowerFailStep ==
    ASSUME Redundant, IInv, TypeOK', PowerFail
    PROVE  BootData' = BootData /\ Bootable'
<1>0. TypeOK /\ Bootable /\ bad' = bad /\ stored' = stored /\ attempt' = attempt
  BY AlwaysBootable DEF IInv, PowerFail
<1>1. CASE UNCHANGED flash
  <2>1. \A a : CrcOK(a)' = CrcOK(a) /\ Header(a)' = Header(a)
    BY <1>0, <1>1, SameArea
  <2>2. BootArea' = BootArea
    BY <2>1 DEF BootArea
  <2>3. BootData' = BootData
    BY <2>1, <2>2 DEF BootData
  <2> QED
    BY <1>0, <2>1, <2>3 DEF Bootable
<1>2. CASE ~UNCHANGED flash
  <2>1. PICK v \in Areas, t \in Areas : Roles(v, t)
    BY <1>0 DEF Areas, Roles, TypeOK
  <2>2. /\ v # t /\ CopyInv(v, t) /\ offset \in Blocks /\ Good(t, offset)
        /\ SetBlock(t, offset, Torn)
        /\ pc = "erase" \/ (pc = "write" /\ amount < EnvBlocks)
    BY <1>2, <2>1, TargetIsOther DEF IInv, PowerFail, Roles
  <2>3. flash'[v] = flash[v]
    BY <1>0, <2>2, OtherArea
  <2>4. \A fl : InUse(v, t, fl) => InUse(v, t, fl)'
    BY <1>0, <2>3, KeepInUse
  <2>5. PICK fl \in Flags : InUse(v, t, fl)
    BY <2>2 DEF CopyInv, Saving
  <2>6. OtherOlder(v, t) /\ BootData = stored
    <3>1. CASE pc = "erase"
      <4>1. OtherOlder(v, t)
        BY <2>2, <3>1 DEF CopyInv
      <4> QED
        BY <1>0, <2>2, <2>5, <4>1, BootsStored
    <3>2. CASE pc = "write" /\ amount < EnvBlocks
      <4>1. Saving(v, t) /\ WrittenBefore(t)
        BY <2>2, <3>2 DEF CopyInv
      <4>6. ~CrcOK(t)
        BY <1>0, <2>2, <3>2, <4>1, UnreadableYet
      <4>7. BootData = stored
        BY <1>0, <2>2, <4>1, <4>6, BootsWritten
      <4> QED
        BY <4>6, <4>7 DEF OtherOlder
    <3> QED
      BY <2>2, <3>1, <3>2
  <2>7. OtherOlder(v, t)'
    BY <1>0, <2>2, <2>6, KeepOlder
  <2>8. (BootData = stored /\ Bootable)'
    <3>1. InUse(v, t, fl)'
      BY <2>4, <2>5
    <3> QED
      BY <2>2, <2>7, <3>1, BootsStoredNext DEF StoredIsSafe
  <2> QED
    BY <1>0, <2>6, <2>8
<1> QED
  BY <1>1, <1>2

(* setenv and the start of saveenv do not touch the flash. *)
LEMMA PromptStep ==
    ASSUME Redundant, TypeOK, SetEnvAtPrompt \/ SaveEnvStart,
           NEW v \in Areas, NEW t \in Areas, v # t, CopyInv(v, t)
    PROVE  CopyInv(v, t)'
<1>0. /\ pc = "prompt" /\ flash' = flash /\ bad' = bad /\ stored' = stored
      /\ flags \in Flags
  BY DEF SetEnvAtPrompt, SaveEnvStart, nandVars, TypeOK
<1>1. InUse(v, t, flags) /\ OtherOlder(v, t)
  BY <1>0 DEF CopyInv
<1>2. \A fl : InUse(v, t, fl) => InUse(v, t, fl)'
  BY <1>0, KeepInUse
<1>3. OtherOlder(v, t)'
  BY <1>0, <1>1, SameArea DEF OtherOlder
<1>4. CASE SetEnvAtPrompt
  <2>1. pc' = "prompt" /\ flags' = flags
    BY <1>0, <1>4 DEF SetEnvAtPrompt, nandVars
  <2>2. InUse(v, t, flags)'
    BY <1>0, <1>1, <2>1, SameArea, SameBlocks DEF InUse
  <2> QED
    BY <1>3, <2>1, <2>2 DEF CopyInv
<1>5. CASE SaveEnvStart
  <2>1. /\ pc' = "erase" /\ flags' = FlagSucc(flags) /\ attempt' = data' /\ offset' = 1
        /\ amount' = 0
    BY <1>5 DEF SaveEnvStart, FlagsNext, ramVars
  <2>2. Saving(v, t)'
    BY <1>0, <1>1, <1>2, <2>1 DEF Saving
  <2>3. ErasedBefore(t)'
    BY <2>1, GeometryAssumption DEF ErasedBefore, Blocks
  <2> QED
    BY <1>3, <2>1, <2>2, <2>3 DEF CopyInv
<1> QED
  BY <1>4, <1>5

(* Every step keeps the invariant. *)
LEMMA InvStep ==
    ASSUME Redundant, Faults = {}, EnvFits, IInv, [Next]_vars
    PROVE  IInv'
<1>1. TypeOK' /\ crc' = data' /\ TypeOK
  BY TypeStep, CrcStep DEF IInv
<1>2. pc' = "off" => Bootable'
  <2> SUFFICES ASSUME pc' = "off" PROVE Bootable'
    OBVIOUS
  <2>1. CASE PowerFail
    BY <1>1, <2>1, PowerFailStep
  <2>2. CASE UNCHANGED vars
    <3>1. pc = "off" /\ flash' = flash /\ bad' = bad /\ stored' = stored /\ attempt' = attempt
      BY <2>2 DEF vars
    <3>2. \A a : CrcOK(a)' = CrcOK(a) /\ Header(a)' = Header(a)
      BY <3>1, SameArea
    <3>3. BootData' = BootData
      BY <3>2 DEF BootData, BootArea
    <3> QED
      BY <3>1, <3>2, <3>3 DEF IInv, Bootable
  <2> QED
    BY <2>1, <2>2
       DEF Next, PowerOn, SetEnvAtPrompt, nandVars, SaveEnvStart, EraseSkip, EraseBlock,
           EraseFails, EraseDone, WriteSkip, WriteBlock, WriteLoop, WriteFails, WriteShort,
           SaveEnvDone, MarkBad
<1>3. ASSUME NEW v \in Areas, NEW t \in Areas, Roles(v, t)'
      PROVE  CopyInv(v, t)'
  <2>0. v # t
    BY <1>3 DEF Roles
  <2>1. CASE PowerOn
    BY <1>1, <1>3, <2>1, PowerOnStep
  <2>2. CASE SaveEnvDone
    BY <1>1, <1>3, <2>2, SaveDoneStep
  <2>3. CASE PowerFail
    BY <2>3 DEF PowerFail, CopyInv
  <2>4. CASE EraseFails \/ WriteFails \/ MarkBad
    BY <2>4 DEF EraseFails, WriteFails, MarkBad
  <2>5. ASSUME env_valid' = env_valid
        PROVE  Roles(v, t) /\ CopyInv(v, t)
    BY <1>3, <2>5 DEF Roles, IInv
  <2>6. CASE SetEnvAtPrompt \/ SaveEnvStart
    <3>1. env_valid' = env_valid
      BY <2>6 DEF SetEnvAtPrompt, SaveEnvStart, nandVars
    <3> QED
      BY <1>1, <2>0, <2>5, <2>6, <3>1, PromptStep
  <2>7. CASE EraseBlock \/ EraseSkip
    <3>1. env_valid' = env_valid
      BY <2>7 DEF EraseBlock, EraseSkip
    <3> QED
      BY <1>1, <2>5, <2>7, <3>1, EraseStep
  <2>8. CASE EraseDone
    <3>1. env_valid' = env_valid
      BY <2>8 DEF EraseDone
    <3> QED
      BY <1>1, <2>5, <2>8, <3>1, EraseDoneStep
  <2>9. CASE WriteSkip
    <3>1. env_valid' = env_valid
      BY <2>9 DEF WriteSkip
    <3> QED
      BY <1>1, <2>5, <2>9, <3>1, WriteSkipStep
  <2>10. CASE WriteBlock
    <3>1. env_valid' = env_valid
      BY <2>10 DEF WriteBlock
    <3> QED
      BY <1>1, <2>5, <2>10, <3>1, WriteBlockStep
  <2>11. CASE WriteShort
    <3>1. env_valid' = env_valid
      BY <2>11 DEF WriteShort
    <3> QED
      BY <1>1, <2>5, <2>11, <3>1, WriteShortStep
  <2>12. CASE UNCHANGED vars
    <3>1. /\ env_valid' = env_valid /\ flash' = flash /\ bad' = bad /\ pc' = pc
          /\ stored' = stored /\ attempt' = attempt /\ flags' = flags /\ data' = data
          /\ crc' = crc /\ offset' = offset /\ amount' = amount
      BY <2>12 DEF vars
    <3>2. CopyInv(v, t)
      BY <2>5, <3>1
    <3>3. \A fl : InUse(v, t, fl) => InUse(v, t, fl)'
      BY <3>1, KeepInUse
    <3>4. OtherOlder(v, t) => OtherOlder(v, t)'
      BY <3>1, SameArea DEF OtherOlder
    <3>5. ErasedBefore(t) => ErasedBefore(t)'
      BY <3>1, SameBlocks DEF ErasedBefore
    <3>6. WrittenBefore(t) => WrittenBefore(t)'
      BY <3>1, SameBlocks DEF WrittenBefore, RamImage
    <3>7. Saving(v, t) => Saving(v, t)'
      BY <3>1, <3>3 DEF Saving
    <3>8. InUse(v, t, flags) => InUse(v, t, flags)'
      BY <3>1, SameArea, SameBlocks DEF InUse
    <3> QED
      BY <3>1, <3>2, <3>4, <3>5, <3>6, <3>7, <3>8 DEF CopyInv
  <2> QED
    BY <2>1, <2>2, <2>3, <2>4, <2>6, <2>7, <2>8, <2>9, <2>10, <2>11, <2>12 DEF Next
<1> QED
  BY <1>1, <1>2, <1>3 DEF IInv

LEMMA InvInit ==
    ASSUME Redundant, Init, TypeOK
    PROVE  IInv /\ BootData = DefaultEnv
<1>1. \A a \in Areas : ~CrcOK(a)
  <2> SUFFICES ASSUME NEW a \in Areas, CrcOK(a) PROVE FALSE
    OBVIOUS
  <2>1. HeaderBlock(a) \in Blocks /\ Good(a, HeaderBlock(a)) /\ Rank(a, HeaderBlock(a)) = 1
    BY HeaderType DEF IsHeader
  <2>2. flash[a][HeaderBlock(a)].st = "chunk"
    BY <2>1, ReadableChunks, GeometryAssumption
  <2>3. flash[a][HeaderBlock(a)] = Erased
    BY <2>1 DEF Init
  <2> QED
    BY <2>2, <2>3 DEF Erased
<1>2. BootData = DefaultEnv
  BY <1>1, BootsDefault DEF Areas
<1>3. Bootable
  BY <1>1, <1>2 DEF Bootable, Init, Areas
<1> QED
  BY <1>2, <1>3 DEF IInv, Init, RamInit, CopyInv

(* The invariant holds of every behaviour of a board with a redundant copy, flash
   without faults and an environment that does not overflow.                 *)
THEOREM Invariance ==
    ASSUME Redundant, Faults = {}, EnvFits
    PROVE  Spec => []IInv
<1>1. Init /\ TypeOK => IInv
  BY InvInit
<1>2. IInv /\ [Next]_vars => IInv'
  BY InvStep
<1> QED
  BY <1>1, <1>2, TypeCorrect, PTL DEF Spec

(* README, CONFIG_ENV_OFFSET_REDUND, proved: with a redundant copy, on flash
   without faults and with an environment that does not overflow, a power failure
   at any instant of saveenv leaves the last saved or the new environment.    *)
THEOREM BackupSafe ==
    ASSUME Redundant, Faults = {}, EnvFits
    PROVE  Spec => []BackupSurvives
<1>1. IInv => BackupSurvives
  BY AlwaysBootable DEF Bootable, BackupSurvives
<1> QED
  BY <1>1, Invariance, PTL

(* The usage of saveenv, proved under the same assumptions: what a saveenv that
   returned 0 was given is what the next boot finds, however often the serial
   number has wrapped around since.                                          *)
THEOREM SaveLasts ==
    ASSUME Redundant, Faults = {}, EnvFits
    PROVE  Spec => []SaveSticks
<1>1. ASSUME IInv, pc = "prompt" PROVE BootData = stored
  <2>1. PICK v \in Areas, t \in Areas : Roles(v, t)
    BY <1>1 DEF Areas, Roles, IInv, TypeOK
  <2>2. CopyInv(v, t) /\ v # t /\ TypeOK
    BY <1>1, <2>1 DEF IInv, Roles
  <2> QED
    BY <1>1, <2>2, BootsStored DEF CopyInv
<1>2. IInv => SaveSticks
  BY <1>1 DEF SaveSticks
<1> QED
  BY <1>2, Invariance, PTL

-----------------------------------------------------------------------------
(* saveenv implements the atomic register of EnvStore.                       *)

LEMMA SameBoot ==
    ASSUME flash' = flash, bad' = bad
    PROVE  BootData' = BootData
<1>1. \A a : CrcOK(a)' = CrcOK(a) /\ Header(a)' = Header(a)
  BY SameArea
<1> QED
  BY <1>1 DEF BootData, BootArea

(* A step of EnvNand is a step of EnvStore or leaves its variables alone. *)
LEMMA StoreStep ==
    ASSUME Redundant, Faults = {}, EnvFits, IInv, IInv', [Next]_vars
    PROVE  [Store!StoreNext]_(Store!storeVars)
<1> USE DEF Store!StoreNext, Store!storeVars
<1>0. TypeOK /\ TypeOK'
  BY DEF IInv
<1>1. CASE PowerOn
  <2>1. BootData' = BootData /\ data' = BootData /\ pc = "off" /\ pc' = "prompt"
    BY <1>1, SameBoot DEF PowerOn, LoadEnv
  <2> QED
    BY <2>1 DEF Store!Boot
<1>2. CASE SetEnvAtPrompt
  <2>1. BootData' = BootData /\ data' \in Envs /\ pc = "prompt" /\ pc' = "prompt"
    BY <1>0, <1>2, SameBoot DEF SetEnvAtPrompt, nandVars, TypeOK, RamTypeOK
  <2> QED
    BY <2>1 DEF Store!Edit
<1>3. CASE PowerFail
  <2>1. BootData' = BootData /\ data' = data /\ pc # "off" /\ pc' = "off"
    BY <1>0, <1>3, PowerFailStep DEF PowerFail, ramVars
  <2> QED
    BY <2>1 DEF Store!LosePower
<1>4. CASE SaveEnvStart \/ EraseSkip \/ EraseDone \/ WriteSkip \/ WriteShort \/ SaveEnvDone
           \/ UNCHANGED vars
  <2>1. flash' = flash /\ bad' = bad /\ data' = data /\ (pc # "off")' = (pc # "off")
    BY <1>4 DEF SaveEnvStart, EraseSkip, EraseDone, WriteSkip, WriteLoop, WriteShort,
                SaveEnvDone, vars, ramVars
  <2>2. BootData' = BootData
    BY <2>1, SameBoot
  <2> QED
    BY <2>1, <2>2
<1>5. ASSUME EraseBlock \/ WriteBlock
      PROVE  \E v, t \in Areas : /\ Roles(v, t) /\ Roles(v, t)' /\ v # t
                                /\ CopyInv(v, t) /\ CopyInv(v, t)'
  <2>1. env_valid' = env_valid
    BY <1>5 DEF EraseBlock, WriteBlock
  <2>2. PICK v \in Areas, t \in Areas : Roles(v, t)
    BY <1>0 DEF Areas, Roles, TypeOK
  <2> QED
    BY <2>1, <2>2 DEF Roles, IInv
<1>6. CASE EraseBlock
  <2>1. PICK v \in Areas, t \in Areas : v # t /\ CopyInv(v, t) /\ CopyInv(v, t)'
    BY <1>5, <1>6
  <2>2. pc = "erase" /\ pc' = "erase" /\ stored' = stored /\ data' = data
    BY <1>6 DEF EraseBlock, ramVars
  <2>3. BootData = stored
    BY <1>0, <2>1, <2>2, BootsStored DEF CopyInv, Saving
  <2>4. BootData' = stored'
    BY <1>0, <2>1, <2>2, BootsStoredNext DEF CopyInv, Saving, StoredIsSafe
  <2> QED
    BY <2>2, <2>3, <2>4
<1>7. CASE WriteBlock
  <2>1. PICK v \in Areas, t \in Areas :
                v # t /\ Roles(v, t) /\ CopyInv(v, t) /\ CopyInv(v, t)'
    BY <1>5, <1>7
  <2>2. /\ pc = "write" /\ pc' = "write" /\ stored' = stored /\ data' = data
        /\ attempt' = attempt /\ amount < EnvBlocks /\ offset \in Blocks /\ Good(t, offset)
    BY <1>7, <2>1, TargetIsOther DEF WriteBlock, WriteLoop, ramVars
  <2>3. Saving(v, t) /\ WrittenBefore(t) /\ attempt = data
    BY <2>1, <2>2 DEF CopyInv, Saving
  <2>4. BootData = stored
    BY <1>0, <2>1, <2>2, <2>3, UnreadableYet, BootsWritten
  <2>5. BootData' \in {stored', attempt'}
    BY <1>0, <2>1, <2>2, BootsWrittenNext DEF CopyInv, WrittenIsSafe
  <2>6. BootData' = BootData \/ BootData' = data
    BY <2>2, <2>3, <2>4, <2>5
  <2> QED
    BY <2>2, <2>6 DEF Store!Save
<1> QED
  BY <1>1, <1>2, <1>3, <1>4, <1>6, <1>7 DEF Next, EraseFails, WriteFails, MarkBad

(* saveenv, which erases and programs a copy block by block under power failures,
   implements the register that is replaced atomically.                      *)
THEOREM StoreRefined ==
    ASSUME Redundant, Faults = {}, EnvFits
    PROVE  Spec => AtomicStore
<1>1. Init /\ TypeOK => Store!StoreInit
  BY InvInit DEF Store!StoreInit, Init, RamInit
<1>2. IInv /\ IInv' /\ [Next]_vars => [Store!StoreNext]_(Store!storeVars)
  BY StoreStep
<1> QED
  BY <1>1, <1>2, Invariance, TypeCorrect, PTL DEF Spec, AtomicStore, Store!StoreSpec

-----------------------------------------------------------------------------
(* One copy, and flash with every kind of fault. A block that is not erased is *)
(* torn by a write, but a block whose erase failed keeps its chunk, and a       *)
(* block that is marked bad moves the others up: the invariant says why these  *)
(* leftovers never make up an environment again.                               *)

(* A chunk is where it was written, or nearer to the front than it belongs. *)
Aligned ==
    \A b \in Blocks : Good(1, b) /\ flash[1][b].st = "chunk" => Rank(1, b) <= flash[1][b].idx

(* writeenv has been at the good blocks before offset. *)
Overwritten ==
    /\ amount = Rank(1, offset - 1)
    /\ \A b \in Blocks : b < offset /\ Good(1, b) /\ flash[1][b].st = "chunk"
            => flash[1][b].img.data = attempt

SingleInv ==
    /\ TypeOK
    /\ Aligned
    /\ pc = "prompt" => attempt = stored
    /\ pc \in {"erase", "write"} => attempt = data
    /\ pc = "erase" => amount = 0
    /\ pc = "write" => Overwritten
    /\ CrcOK(1) => Header(1).data \in {stored, attempt}

LEMMA ChunkData ==
    ASSUME NEW img, NEW i
    PROVE  ChunkOf(img, i).st = "chunk" /\ ChunkOf(img, i).idx = i /\ ChunkOf(img, i).img.data = img.data
BY DEF ChunkOf

(* The first block up to which there are n good ones is the n-th good one. *)
LEMMA NthGood ==
    ASSUME NEW n \in Nat \ {0}, n <= Rank(1, RangeBlocks)
    PROVE  \E b \in Blocks : Good(1, b) /\ Rank(1, b) = n
<1> DEFINE T == {b \in Nat : b <= RangeBlocks /\ Rank(1, b) >= n}
           R == {ss \in Nat \X Nat : ss[1] < ss[2]}
<1>1. T # {} /\ T \subseteq Nat
  BY GeometryAssumption
<1>2. IsWellFoundedOn(R, Nat)
  BY NatLessThanWellFounded DEF OpToRel
<1> HIDE DEF T, R
<1>3. PICK b \in T : \A c \in T : ~(<<c, b>> \in R)
  BY <1>1, <1>2, WFMin
<1>4. b \in Nat /\ b <= RangeBlocks /\ Rank(1, b) >= n
  BY <1>3 DEF T
<1>5. b # 0
  BY <1>4, RankZero
<1>6. b - 1 \in Nat /\ (b - 1) + 1 = b /\ b \in Blocks
  BY <1>4, <1>5, GeometryAssumption DEF Blocks
<1>7. Rank(1, b - 1) \in Nat
  BY <1>6, RankFinite
<1>8. Rank(1, b - 1) < n
  <2>1. b - 1 \notin T
    <3>1. <<b - 1, b>> \in R
      BY <1>4, <1>6 DEF R
    <3> QED
      BY <1>3, <3>1
  <2> QED
    BY <1>4, <1>6, <1>7, <2>1, GeometryAssumption DEF T
<1>9. Rank(1, b) = IF Good(1, b) THEN Rank(1, b - 1) + 1 ELSE Rank(1, b - 1)
  BY <1>6, RankStep
<1> QED
  BY <1>4, <1>6, <1>7, <1>8, <1>9

HasNthGood ==
    EnvBlocks <= Rank(1, RangeBlocks) => \E b \in Blocks : Good(1, b) /\ Rank(1, b) = EnvBlocks

(* The same after a step, for the last block of an environment. *)
LEMMA NthGoodNext == HasNthGood'
<1>1. HasNthGood
  BY NthGood, GeometryAssumption DEF HasNthGood
<1> QED
  BY <1>1, PTL

(* Changing one good block: an area that is readable then either was so, with the
   same header, or has the new contents as a chunk of its image.              *)
LEMMA OneBlock ==
    ASSUME TypeOK, bad' = bad, NEW b \in Blocks, Good(1, b), NEW c, SetBlock(1, b, c), CrcOK(1)'
    PROVE  \/ CrcOK(1) /\ Header(1)' = Header(1) /\ ~(Rank(1, b) <= EnvBlocks)
           \/ c.st = "chunk" /\ Header(1)'.data = c.img.data
<1> USE GeometryAssumption
<1>1. flash'[1][b] = c /\ \A d \in Blocks \ {b} : flash'[1][d] = flash[1][d]
  BY DEF SetBlock, TypeOK, Areas
<1>2. Holds(1, Header(1))' /\ \E d \in Blocks : IsHeader(1, d)
  BY SameBlocks DEF CrcOK
<1>3. CASE Rank(1, b) <= EnvBlocks
  <2>1. flash'[1][b] = ChunkOf(Header(1)', Rank(1, b))
    BY <1>2, <1>3, SameBlocks DEF Holds
  <2> QED
    BY <1>1, <2>1, ChunkData
<1>4. CASE ~(Rank(1, b) <= EnvBlocks)
  <2>1. HeaderBlock(1) \in Blocks /\ IsHeader(1, HeaderBlock(1))
    BY <1>2 DEF HeaderBlock
  <2>2. HeaderBlock(1) # b
    BY <1>4, <2>1 DEF IsHeader
  <2>3. Header(1)' = Header(1)
    BY <1>1, <2>1, <2>2, SameBlocks DEF Header
  <2>4. Holds(1, Header(1))
    BY <1>1, <1>2, <1>4, <2>3, SameBlocks DEF Holds
  <2> QED
    BY <1>2, <1>4, <2>3, <2>4 DEF CrcOK
<1> QED
  BY <1>3, <1>4

(* The block that writeenv is at is the next one of the image. *)
LEMMA NextRank ==
    ASSUME TypeOK, offset \in Blocks, Good(1, offset), amount = Rank(1, offset - 1)
    PROVE  Rank(1, offset) = amount + 1 /\ Rank(1, (offset + 1) - 1) = amount + 1
<1>1. offset - 1 \in Nat /\ (offset - 1) + 1 = offset /\ (offset + 1) - 1 = offset
  BY GeometryAssumption DEF Blocks
<1> QED
  BY <1>1, RankStep

(* A block marked bad. *)
LEMMA MarkedRank ==
    ASSUME NEW c \in Blocks, Good(1, c), bad' = bad \cup {<<1, c>>}, NEW b \in Nat
    PROVE  /\ Good(1, b)' <=> Good(1, b) /\ b # c
           /\ b < c => Rank(1, b)' = Rank(1, b)
           /\ b >= c => Rank(1, b)' = Rank(1, b) - 1
<1>1. \A d : Good(1, d)' <=> Good(1, d) /\ d # c
  BY DEF Good
<1> DEFINE S == {d \in 1..b : Good(1, d)}
<1>2. {d \in 1..b : Good(1, d)'} = S \ {c}
  BY <1>1
<1>3. IsFiniteSet(S)
  BY RankFinite
<1>4. ASSUME b < c PROVE Rank(1, b)' = Rank(1, b)
  <2>1. c \notin S
    BY <1>4 DEF Blocks
  <2>2. S \ {c} = S
    BY <2>1
  <2> QED
    BY <1>2, <2>2 DEF Rank
<1>5. ASSUME b >= c PROVE Rank(1, b)' = Rank(1, b) - 1
  <2>1. c \in S
    BY <1>5, GeometryAssumption DEF Blocks
  <2>2. Cardinality(S \ {c}) = Cardinality(S) - 1
    BY <1>3, <2>1, FS_RemoveElement
  <2> QED
    BY <1>2, <2>2 DEF Rank
<1> QED
  BY <1>1, <1>4, <1>5

(* Marking a block bad cannot make the area readable. *)
LEMMA MarkBadReads ==
    ASSUME TypeOK, Aligned, NEW c \in Blocks, bad' = bad \cup {<<1, c>>}, flash' = flash, CrcOK(1)'
    PROVE  CrcOK(1) /\ Header(1)' = Header(1)
<1> USE GeometryAssumption
<1>1. CASE ~Good(1, c)
  <2>1. bad' = bad
    BY <1>1 DEF Good
  <2> QED
    BY <2>1, SameArea
<1>2. CASE Good(1, c)
  <2>0. Blocks \subseteq Nat /\ EnvBlocks \in Nat \ {0} /\ RangeBlocks \in Nat
    BY DEF Blocks
  <2>1. Holds(1, Header(1))' /\ \E d \in Blocks : IsHeader(1, d)'
    BY DEF CrcOK
  <2>2. \A b \in Nat : Rank(1, b) \in Nat
    BY RankFinite
  <2>3. Rank(1, c) > EnvBlocks
    <3>1. SUFFICES ASSUME Rank(1, c) <= EnvBlocks PROVE FALSE
      BY <2>0, <2>2
    <3>2. EnvBlocks <= Rank(1, RangeBlocks)'
      BY <2>1 DEF Holds
    <3>3. PICK b \in Blocks : Good(1, b)' /\ Rank(1, b)' = EnvBlocks
      BY <3>2, NthGoodNext DEF HasNthGood
    <3>4. b \in Nat /\ Good(1, b) /\ b # c
      BY <1>2, <2>0, <3>3, MarkedRank
    <3>5. CASE b < c
      <4>1. Rank(1, b) = EnvBlocks
        BY <1>2, <3>3, <3>4, <3>5, MarkedRank
      <4>2. Rank(1, b) < Rank(1, c)
        BY <1>2, <2>0, <3>4, <3>5, RankStrict
      <4> QED
        BY <2>0, <2>2, <3>1, <4>1, <4>2
    <3>6. CASE b > c
      <4>1. Rank(1, b)' = Rank(1, b) - 1
        BY <1>2, <2>0, <3>4, <3>6, MarkedRank
      <4>2. flash[1][b] = ChunkOf(Header(1)', EnvBlocks)
        BY <2>1, <3>3 DEF Holds
      <4>3. flash[1][b].st = "chunk" /\ flash[1][b].idx = EnvBlocks
        BY <4>2, ChunkData
      <4>4. Rank(1, b) <= EnvBlocks
        BY <3>4, <4>3 DEF Aligned
      <4> QED
        BY <2>0, <2>2, <3>3, <3>4, <4>1, <4>4
    <3> QED
      BY <2>0, <3>4, <3>5, <3>6
  <2>4. ASSUME NEW b \in Blocks
        PROVE  /\ Good(1, b)' /\ Rank(1, b)' <= EnvBlocks <=> Good(1, b) /\ Rank(1, b) <= EnvBlocks
               /\ Good(1, b) /\ Rank(1, b) <= EnvBlocks => Rank(1, b)' = Rank(1, b)
    <3>1. b \in Nat /\ c \in Nat /\ Rank(1, b) \in Nat /\ Rank(1, c) \in Nat
      BY <2>0, <2>2
    <3>2. CASE b < c
      BY <1>2, <3>1, <3>2, MarkedRank
    <3>3. CASE b = c
      BY <1>2, <2>0, <2>3, <3>1, <3>3, MarkedRank
    <3>4. CASE b > c
      <4>1. Rank(1, b)' = Rank(1, b) - 1
        BY <1>2, <3>1, <3>4, MarkedRank
      <4>2. Good(1, b) => Rank(1, c) < Rank(1, b)
        BY <3>1, <3>4, RankStrict
      <4>3. Good(1, b)' <=> Good(1, b)
        BY <1>2, <3>1, <3>4, MarkedRank
      <4> QED
        BY <2>0, <2>3, <3>1, <4>1, <4>2, <4>3
    <3> QED
      BY <3>1, <3>2, <3>3, <3>4
  <2>5. \A b \in Blocks : IsHeader(1, b)' <=> IsHeader(1, b)
    <3>1. SUFFICES ASSUME NEW b \in Blocks PROVE IsHeader(1, b)' <=> IsHeader(1, b)
      OBVIOUS
    <3>2. 1 <= EnvBlocks
      BY <2>0
    <3> QED
      BY <2>4, <3>1, <3>2 DEF IsHeader
  <2>6. HeaderBlock(1)' = HeaderBlock(1)
    BY <2>5 DEF HeaderBlock
  <2>7. Header(1)' = Header(1)
    BY <2>6 DEF Header
  <2>8. Rank(1, RangeBlocks) >= EnvBlocks
    <3>1. Rank(1, RangeBlocks)' >= EnvBlocks
      BY <2>1 DEF Holds
    <3>2. Rank(1, RangeBlocks)' = Rank(1, RangeBlocks) \/ Rank(1, RangeBlocks)' = Rank(1, RangeBlocks) - 1
      BY <1>2, <2>0, MarkedRank
    <3> QED
      BY <2>0, <2>2, <3>1, <3>2
  <2>9. Holds(1, Header(1))
    BY <2>1, <2>4, <2>7, <2>8 DEF Holds
  <2> QED
    BY <2>1, <2>5, <2>7, <2>9 DEF CrcOK
<1> QED
  BY <1>1, <1>2

LEMMA SingleSame ==
    ASSUME bad' = bad, flash' = flash, SingleInv
    PROVE  Aligned' /\ CrcOK(1)' = CrcOK(1) /\ Header(1)' = Header(1)
<1>1. Aligned'
  BY SameBlocks DEF SingleInv, Aligned
<1> QED
  BY <1>1, SameArea

(* A good block of the area is erased or torn: leftovers stay leftovers. *)
LEMMA SingleSpoil ==
    ASSUME SingleInv, bad' = bad, offset \in Blocks, Good(1, offset),
           NEW c \in {Erased, Torn}, SetBlock(1, offset, c)
    PROVE  /\ Aligned'
           /\ CrcOK(1)' => CrcOK(1) /\ Header(1)' = Header(1) /\ ~(Rank(1, offset) <= EnvBlocks)
<1>1. TypeOK /\ c.st # "chunk"
  BY DEF SingleInv, Erased, Torn
<1>2. flash'[1][offset] = c /\ \A d \in Blocks \ {offset} : flash'[1][d] = flash[1][d]
  BY <1>1 DEF SetBlock, TypeOK, Areas
<1>3. Aligned'
  <2>1. SUFFICES ASSUME NEW b \in Blocks, Good(1, b)', flash'[1][b].st = "chunk"
                 PROVE  Rank(1, b)' <= flash'[1][b].idx
    BY DEF Aligned
  <2>2. b # offset
    BY <1>1, <1>2, <2>1
  <2> QED
    BY <1>2, <2>1, <2>2, SameBlocks DEF SingleInv, Aligned
<1> QED
  BY <1>1, <1>3, OneBlock

LEMMA SinglePrompt ==
    ASSUME ~Redundant, SingleInv, TypeOK', PowerOn \/ SetEnvAtPrompt \/ SaveEnvStart
    PROVE  SingleInv'
<1>1. bad' = bad /\ flash' = flash
  BY DEF PowerOn, SetEnvAtPrompt, SaveEnvStart, nandVars
<1>2. Aligned' /\ CrcOK(1)' = CrcOK(1) /\ Header(1)' = Header(1)
  BY <1>1, SingleSame
<1>3. CASE PowerOn
  <2>1. CrcOK(1) => BootData = Header(1).data
    BY DEF BootData, BootArea
  <2>2. pc' = "prompt" /\ stored' = BootData /\ attempt' = BootData
    BY <1>3 DEF PowerOn
  <2> QED
    BY <1>2, <2>1, <2>2 DEF SingleInv
<1>4. CASE SetEnvAtPrompt
  BY <1>2, <1>4 DEF SetEnvAtPrompt, nandVars, SingleInv
<1>5. CASE SaveEnvStart
  BY <1>2, <1>5 DEF SaveEnvStart, SingleInv, ramVars
<1> QED
  BY <1>3, <1>4, <1>5

LEMMA SingleErase ==
    ASSUME ~Redundant, SingleInv, TypeOK', EraseSkip \/ EraseBlock \/ EraseFails \/ EraseDone
    PROVE  SingleInv'
<1>1. Target = 1
  BY DEF Target
<1>2. /\ pc = "erase" /\ bad' = bad /\ amount' = amount /\ amount = 0 /\ attempt = data
      /\ UNCHANGED <<stored, attempt, data>>
  BY DEF EraseSkip, EraseBlock, EraseFails, EraseDone, ramVars, SingleInv
<1>3. Aligned' /\ (CrcOK(1)' => CrcOK(1) /\ Header(1)' = Header(1))
  <2>1. CASE flash' = flash
    BY <1>2, <2>1, SingleSame
  <2>2. ASSUME flash' # flash
        PROVE  \E c \in {Erased, Torn} : offset \in Blocks /\ Good(1, offset) /\ SetBlock(1, offset, c)
    <3>1. CASE EraseBlock
      BY <1>1, <3>1 DEF EraseBlock
    <3>2. CASE EraseFails
      <4>1. PICK c \in {flash[1][offset], Torn} : SetBlock(1, offset, c) /\ offset \in Blocks /\ Good(1, offset)
        BY <1>1, <3>2 DEF EraseFails
      <4>2. c = flash[1][offset] => flash' = flash
        BY <4>1 DEF SetBlock, SingleInv, TypeOK, Areas
      <4> QED
        BY <2>2, <4>1, <4>2
    <3> QED
      BY <2>2, <3>1, <3>2 DEF EraseSkip, EraseDone
  <2> QED
    BY <1>2, <2>1, <2>2, SingleSpoil
<1>4. pc' = "erase" \/ (pc' = "write" /\ offset' = 1)
  BY <1>2 DEF EraseSkip, EraseBlock, EraseFails, EraseDone
<1>5. pc' = "write" => Overwritten'
  <2>1. SUFFICES ASSUME offset' = 1 PROVE Overwritten'
    BY <1>4
  <2>2. Rank(1, 0)' = 0
    BY <1>2, SameBlocks, RankZero
  <2>3. offset' - 1 = 0 /\ \A b \in Blocks : ~(b < offset')
    BY <2>1 DEF Blocks
  <2> QED
    BY <1>2, <2>2, <2>3 DEF Overwritten
<1> QED
  BY <1>2, <1>3, <1>4, <1>5 DEF SingleInv

LEMMA SingleWriteSkip ==
    ASSUME ~Redundant, SingleInv, TypeOK', WriteSkip
    PROVE  SingleInv'
<1>1. /\ pc = "write" /\ offset \in Blocks /\ ~Good(1, offset) /\ offset' = offset + 1
      /\ UNCHANGED <<flash, bad, pc, amount, stored, attempt, data>>
  BY DEF WriteSkip, WriteLoop, ramVars, Target
<1>2. Aligned' /\ CrcOK(1)' = CrcOK(1) /\ Header(1)' = Header(1)
  BY <1>1, SingleSame
<1>3. Overwritten'
  <2>1. offset \in Nat /\ offset - 1 \in Nat /\ (offset - 1) + 1 = offset /\ offset' - 1 = offset
    BY <1>1, GeometryAssumption DEF Blocks
  <2>2. Rank(1, offset) = Rank(1, offset - 1)
    BY <1>1, <2>1, RankStep
  <2>3. \A b \in Blocks : b < offset' /\ Good(1, b) => b < offset
    BY <1>1, <2>1 DEF Blocks
  <2>4. \A b : Rank(1, b)' = Rank(1, b) /\ Good(1, b)' = Good(1, b)
    BY <1>1, SameBlocks
  <2>5. amount' = Rank(1, offset)
    BY <1>1, <2>2 DEF SingleInv, Overwritten
  <2>6. PICK p : p = offset
    OBVIOUS
  <2>7. Rank(1, p)' = Rank(1, p) /\ offset' - 1 = p
    BY <2>1, <2>4, <2>6
  <2>8. amount' = Rank(1, offset - 1)'
    BY <2>5, <2>6, <2>7
  <2> QED
    BY <1>1, <2>3, <2>4, <2>8 DEF SingleInv, Overwritten
<1> QED
  BY <1>1, <1>2, <1>3 DEF SingleInv

LEMMA SingleWriteBlock ==
    ASSUME ~Redundant, SingleInv, TypeOK', WriteBlock
    PROVE  SingleInv'
<1>1. Target = 1
  BY DEF Target
<1>2. /\ pc = "write" /\ offset \in Blocks /\ Good(1, offset) /\ offset' = offset + 1
      /\ amount < EnvBlocks /\ amount' = amount + 1
      /\ UNCHANGED <<bad, pc, stored, attempt, data>>
      /\ SetBlock(1, offset, Program(flash[1][offset], ChunkOf(RamImage, amount + 1)))
  BY <1>1 DEF WriteBlock, WriteLoop, ramVars
<1>3. TypeOK /\ attempt = data /\ amount \in Nat /\ amount = Rank(1, offset - 1)
  BY <1>2 DEF SingleInv, TypeOK, Overwritten
<1>4. Rank(1, offset) = amount + 1 /\ Rank(1, (offset + 1) - 1) = amount + 1 /\ amount + 1 <= EnvBlocks
  BY <1>2, <1>3, NextRank, GeometryAssumption
<1>5. PICK c : c = Program(flash[1][offset], ChunkOf(RamImage, amount + 1))
  OBVIOUS
<1>6. c.st = "chunk" => c.idx = amount + 1 /\ c.img.data = attempt
  <2>1. Torn.st # "chunk" /\ RamImage.data = data
    BY DEF Torn, RamImage
  <2>2. c = Torn \/ c = ChunkOf(RamImage, amount + 1)
    BY <1>5 DEF Program
  <2> QED
    BY <1>3, <2>1, <2>2, ChunkData
<1>7. flash'[1][offset] = c /\ \A d \in Blocks \ {offset} : flash'[1][d] = flash[1][d]
  BY <1>2, <1>3, <1>5 DEF SetBlock, TypeOK, Areas
<1>8. \A b : Rank(1, b)' = Rank(1, b) /\ Good(1, b)' = Good(1, b)
  BY <1>2, SameBlocks
<1>9. Aligned'
  <2>1. SUFFICES ASSUME NEW b \in Blocks, Good(1, b), flash'[1][b].st = "chunk"
                 PROVE  Rank(1, b) <= flash'[1][b].idx
    BY <1>8 DEF Aligned
  <2>2. CASE b = offset
    BY <1>3, <1>4, <1>6, <1>7, <2>1, <2>2
  <2>3. CASE b # offset
    BY <1>7, <2>1, <2>3 DEF SingleInv, Aligned
  <2> QED
    BY <2>2, <2>3
<1>10. CrcOK(1)' => Header(1)'.data \in {stored, attempt}
  <2>1. SUFFICES ASSUME CrcOK(1)' PROVE Header(1)'.data \in {stored, attempt}
    OBVIOUS
  <2>2. SetBlock(1, offset, c)
    BY <1>2, <1>5
  <2>3. c.st = "chunk" /\ Header(1)'.data = c.img.data
    BY <1>2, <1>3, <1>4, <2>1, <2>2, OneBlock
  <2> QED
    BY <1>6, <2>3
<1>11. Overwritten'
  <2>1. offset \in Nat /\ (offset + 1) - 1 = offset
    BY <1>2 DEF Blocks
  <2>2. PICK p : p = offset
    OBVIOUS
  <2>3. Rank(1, p)' = Rank(1, p) /\ offset' - 1 = p /\ Rank(1, p) = amount + 1
    BY <1>2, <1>4, <1>8, <2>1, <2>2
  <2>4. amount' = Rank(1, offset - 1)'
    BY <1>2, <2>3
  <2>5. ASSUME NEW b \in Blocks, b < offset', Good(1, b), flash'[1][b].st = "chunk"
        PROVE  flash'[1][b].img.data = attempt
    <3>1. CASE b = offset
      BY <1>6, <1>7, <2>5, <3>1
    <3>2. CASE b # offset
      <4>1. b < offset
        BY <1>2, <2>1, <2>5, <3>2 DEF Blocks
      <4> QED
        BY <1>2, <1>7, <2>5, <3>2, <4>1 DEF SingleInv, Overwritten
    <3> QED
      BY <3>1, <3>2
  <2> QED
    BY <1>2, <1>8, <2>4, <2>5 DEF Overwritten
<1> QED
  BY <1>2, <1>3, <1>9, <1>10, <1>11 DEF SingleInv

LEMMA SingleWriteEnds ==
    ASSUME ~Redundant, SingleInv, TypeOK', WriteFails \/ WriteShort \/ SaveEnvDone
    PROVE  SingleInv'
<1> USE GeometryAssumption
<1>1. pc = "write" /\ pc' = "prompt" /\ bad' = bad /\ Overwritten /\ TypeOK
  BY DEF WriteFails, WriteLoop, WriteShort, SaveEnvDone, SingleInv
<1>2. CASE WriteFails
  <2>1. /\ offset \in Blocks /\ Good(1, offset) /\ SetBlock(1, offset, Torn) /\ amount < EnvBlocks
        /\ attempt' = stored /\ stored' = stored
    BY <1>2 DEF WriteFails, WriteLoop, Target
  <2>2. Rank(1, offset) <= EnvBlocks
    <3>1. Rank(1, offset) = amount + 1
      BY <1>1, <2>1, NextRank DEF Overwritten
    <3> QED
      BY <1>1, <2>1, <3>1 DEF TypeOK
  <2>3. Aligned' /\ ~CrcOK(1)'
    BY <1>1, <2>1, <2>2, SingleSpoil
  <2> QED
    BY <1>1, <2>1, <2>3 DEF SingleInv
<1>3. CASE WriteShort
  <2>1. /\ offset \notin Blocks /\ amount < EnvBlocks /\ flash' = flash
        /\ attempt' = stored /\ stored' = stored
    BY <1>3 DEF WriteShort
  <2>2. offset - 1 = RangeBlocks
    BY <1>1, <2>1 DEF TypeOK, Blocks
  <2>3. ~CrcOK(1)
    <3>1. Rank(1, RangeBlocks) = amount
      BY <1>1, <2>2 DEF Overwritten
    <3> QED
      BY <1>1, <2>1, <3>1 DEF CrcOK, Holds, TypeOK
  <2>4. Aligned' /\ ~CrcOK(1)'
    BY <1>1, <2>1, <2>3, SingleSame
  <2> QED
    BY <1>1, <2>1, <2>4 DEF SingleInv
<1>4. CASE SaveEnvDone
  <2>1. amount = EnvBlocks /\ flash' = flash /\ attempt' = attempt /\ stored' = attempt
    BY <1>4 DEF SaveEnvDone
  <2>2. Aligned' /\ CrcOK(1)' = CrcOK(1) /\ Header(1)' = Header(1)
    BY <1>1, <2>1, SingleSame
  <2>3. ASSUME CrcOK(1) PROVE Header(1).data = attempt
    <3>1. PICK h : h = HeaderBlock(1)
      OBVIOUS
    <3>2. h \in Blocks /\ IsHeader(1, h) /\ h \in Nat
      BY <1>1, <2>3, <3>1, HeaderType DEF Areas, Blocks
    <3>3. Good(1, h) /\ Rank(1, h) = 1
      BY <3>2 DEF IsHeader
    <3>4. h < offset
      <4>1. SUFFICES ASSUME h >= offset PROVE FALSE
        BY <1>1, <3>2 DEF TypeOK
      <4>2. offset - 1 \in Nat /\ offset - 1 < h
        BY <1>1, <3>2, <4>1 DEF TypeOK
      <4>3. Rank(1, offset - 1) < Rank(1, h)
        BY <3>2, <3>3, <4>2, RankStrict
      <4> QED
        BY <1>1, <2>1, <3>3, <4>3 DEF Overwritten
    <3>5. flash[1][h].st = "chunk"
      BY <2>3, <3>2, <3>3, ReadableChunks
    <3>6. flash[1][h].img.data = attempt
      BY <1>1, <3>2, <3>3, <3>4, <3>5 DEF Overwritten
    <3> QED
      BY <3>1, <3>6 DEF Header
  <2> QED
    BY <1>1, <2>1, <2>2, <2>3 DEF SingleInv
<1> QED
  BY <1>2, <1>3, <1>4

LEMMA SinglePowerFail ==
    ASSUME ~Redundant, SingleInv, TypeOK', PowerFail
    PROVE  SingleInv'
<1>1. /\ pc' = "off" /\ UNCHANGED <<bad, stored, attempt>>
      /\ \/ flash' = flash
         \/ offset \in Blocks /\ Good(1, offset) /\ SetBlock(1, offset, Torn)
  BY DEF PowerFail, Target
<1>2. Aligned' /\ (CrcOK(1)' => CrcOK(1) /\ Header(1)' = Header(1))
  BY <1>1, SingleSame, SingleSpoil
<1> QED
  BY <1>1, <1>2 DEF SingleInv

LEMMA SingleMarkBad ==
    ASSUME ~Redundant, SingleInv, TypeOK', MarkBad
    PROVE  SingleInv'
<1>1. PICK c \in Blocks : bad' = bad \cup {<<1, c>>}
  BY DEF MarkBad, AreasInUse
<1>2. pc = "prompt" /\ UNCHANGED <<flash, pc, stored, attempt>>
  BY DEF MarkBad
<1>3. CrcOK(1)' => CrcOK(1) /\ Header(1)' = Header(1)
  BY <1>1, <1>2, MarkBadReads DEF SingleInv
<1>4. Aligned'
  <2>1. CASE ~Good(1, c)
    <3>1. bad' = bad
      BY <1>1, <2>1 DEF Good
    <3> QED
      BY <1>2, <3>1, SingleSame
  <2>2. CASE Good(1, c)
    <3>1. SUFFICES ASSUME NEW b \in Blocks, Good(1, b)', flash[1][b].st = "chunk"
                   PROVE  Rank(1, b)' <= flash[1][b].idx
      BY <1>2 DEF Aligned
    <3>2. b \in Nat /\ c \in Nat /\ Rank(1, b) \in Nat
      <4>1. b \in Nat /\ c \in Nat
        BY GeometryAssumption DEF Blocks
      <4> QED
        BY <4>1, RankFinite
    <3>3. Good(1, b) /\ (Rank(1, b)' = Rank(1, b) \/ Rank(1, b)' = Rank(1, b) - 1)
      BY <1>1, <2>2, <3>1, <3>2, MarkedRank
    <3>4. Rank(1, b) <= flash[1][b].idx /\ flash[1][b].idx \in Nat
      BY <3>1, <3>3 DEF SingleInv, Aligned, TypeOK, Contents, Areas
    <3> QED
      BY <3>2, <3>3, <3>4
  <2> QED
    BY <2>1, <2>2
<1> QED
  BY <1>2, <1>3, <1>4 DEF SingleInv

LEMMA SingleStep ==
    ASSUME ~Redundant, SingleInv, [Next]_vars
    PROVE  SingleInv'
<1>1. TypeOK'
  BY TypeStep DEF SingleInv
<1>2. CASE UNCHANGED vars
  <2>1. UNCHANGED <<flash, bad, pc, offset, amount, stored, attempt, data>>
    BY <1>2 DEF vars
  <2>2. Aligned' /\ CrcOK(1)' = CrcOK(1) /\ Header(1)' = Header(1)
    BY <2>1, SingleSame
  <2>3. Overwritten' = Overwritten
    BY <2>1, SameBlocks DEF Overwritten
  <2> QED
    BY <1>1, <2>1, <2>2, <2>3 DEF SingleInv
<1> QED
  BY <1>1, <1>2, SinglePrompt, SingleErase, SingleWriteSkip, SingleWriteBlock, SingleWriteEnds,
     SinglePowerFail, SingleMarkBad DEF Next

(* With one copy, for every geometry, every set of bad blocks and every combination
   of failing erases, failing writes, blocks marked bad and power failures: the
   environment that env_relocate finds is the one saved last, the one being saved or
   the default one, never an older one and never a mixture (env_nand.c). *)
THEOREM NeverResurrected ==
    ASSUME ~Redundant
    PROVE  Spec => []NoResurrection
<1>1. Init /\ TypeOK => SingleInv
  <2>1. SUFFICES ASSUME Init, TypeOK PROVE SingleInv
    OBVIOUS
  <2>2. \A b \in Blocks : flash[1][b].st = "erased"
    BY <2>1 DEF Init, Erased, Areas
  <2>3. ~CrcOK(1)
    <3>1. SUFFICES ASSUME CrcOK(1) PROVE FALSE
      OBVIOUS
    <3>2. PICK b \in Blocks : IsHeader(1, b)
      BY <3>1 DEF CrcOK
    <3>3. flash[1][b].st = "chunk"
      BY <3>1, <3>2, ReadableChunks, GeometryAssumption DEF IsHeader
    <3> QED
      BY <2>2, <3>3
  <2> QED
    BY <2>1, <2>2, <2>3 DEF SingleInv, Aligned, Init
<1>2. SingleInv /\ [Next]_vars => SingleInv'
  BY SingleStep
<1>3. SingleInv => NoResurrection
  BY DEF SingleInv, NoResurrection, BootData, BootArea
<1> QED
  BY <1>1, <1>2, <1>3, TypeCorrect, PTL DEF Spec

=============================================================================
