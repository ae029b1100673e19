----------------------------- MODULE NandSkipBad -----------------------------
(***************************************************************************)
(* The NAND commands "nand read", "write", "write.yaffs", "erase", "scrub" *)
(* and "markbad" (common/cmd_nand.c) on the utilities that step over bad   *)
(* blocks (drivers/mtd/nand/nand_util.c) and on nand_write and nand_read   *)
(* (nand_base.c), with programming faults and resets.                      *)
(*                                                                         *)
(* Addresses and lengths count pages. Command number n writes image n,     *)
(* freshly loaded: page i of it is [img |-> n, page |-> i].                *)
(***************************************************************************)
EXTENDS Integers, Sequences, FiniteSets, FiniteSetsExt

CONSTANTS
    EraseSize,      \* pages of a block
    NBlocks,        \* blocks of the chip
    Ranges,         \* the [off, len] that commands name
    Erasures,       \* the [off, len] that are erased
    MaxCommands,    \* bound: write and read commands
    MaxFaults       \* bound: pages that fail to program

Size   == EraseSize * NBlocks
Beyond == Size + EraseSize      \* bound: where an offset past the end stays
Blocks == 0..(NBlocks - 1)
Pages  == 0..(Size - 1)

ASSUME GeometryAssumption ==
    /\ EraseSize \in Nat \ {0} /\ NBlocks \in Nat \ {0}
    /\ \A r \in Ranges : r.off \in 0..Size /\ r.len \in Nat
    /\ \A r \in Erasures : r.off \in 0..Size /\ r.len \in Nat
ASSUME BoundAssumption == MaxCommands \in Nat /\ MaxFaults \in Nat

Erased == [img |-> 0, page |-> 0, ecc |-> TRUE]
Torn   == [img |-> 0, page |-> 0, ecc |-> FALSE]

VARIABLES
    bad,            \* the blocks that are marked bad
    mem,            \* mem[q]: what page q of the chip holds
    ops_mode,       \* chip->ops.mode: "RAW" for MTD_OOB_RAW, "ECC" for the others
    pc,             \* "idle" at the prompt, or the loop that runs
    cmd,            \* the command that runs, or ran last
    offset,
    left,           \* left_to_write, left_to_read
    skip_fb,        \* nand->skip_fb
    got,            \* the buffer of a read
    result,         \* how the command ended; "none" as yet
    length,         \* *length: the bytes that the command reports
    count,          \* reads and writes so far: the number of the image
    faults,         \* faults so far
    clean,          \* history: the pages of the last write were erased before
    last            \* history: the last plain write, if it succeeded and is untouched

vars == <<bad, mem, ops_mode, pc, cmd, offset, left, skip_fb, got, result, length,
          count, faults, clean, last>>
flash   == <<bad, mem, ops_mode, faults>>
history == <<clean, last>>

NoCommand == [op |-> "none", off |-> 0, len |-> 0, yaffs |-> FALSE, aligned |-> TRUE]
Other(op) == [NoCommand EXCEPT !.op = op]

BlockOf(q)      == q \div EraseSize
BadPage(q)      == BlockOf(q) \in bad
PagesFrom(o, n) == o..(o + n - 1)
Good(a, b)      == {q \in a..(b - 1) : ~BadPage(q)}

(* nand_block_isbad: beyond the end it is an error, which counts as bad; at the
   end it is whatever follows the table of bad blocks. *)
IsBad(o) == IF o < Size THEN {BadPage(o)} ELSE IF o = Size THEN BOOLEAN ELSE {TRUE}

LenCountingBad(o, n) ==
    IF n = 0 THEN 0
    ELSE Min({e \in {b * EraseSize : b \in 1..(NBlocks + 1)} :
                e > o /\ (e - o >= n \/ e >= Size)}) - o

(* get_len_incl_bad: up to the end of the block in which enough good pages are
   found, or of the chip. *)
LenInclBad(o, n) ==
    IF n = 0 THEN 0
    ELSE Min({e \in {b * EraseSize : b \in 1..(NBlocks + 1)} :
                e > o /\ (Cardinality(Good(o, e)) >= n \/ e >= Size)}) - o

-----------------------------------------------------------------------------
(* Where an image belongs: on the first good pages from its offset on, with  *)
(* yaffs after the first good block.                                         *)

NextBlock(o) == (BlockOf(o) + 1) * EraseSize

Start(c) == IF ~c.yaffs THEN c.off
            ELSE IF Good(c.off, Size) = {} THEN Size
            ELSE NextBlock(Min(Good(c.off, Size)))

Index(c, q) == Cardinality(Good(Start(c), q))
Target(c)   == {q \in Good(Start(c), Size) : Index(c, q) < c.len}
Fits(c)     == Cardinality(Target(c)) = c.len

-----------------------------------------------------------------------------
(* nand_write and nand_read, which do not look at bad blocks.                *)

(* Page i of the image that c writes; raw mode writes no ecc, yaffs brings its own. *)
Image(c, i) == [img |-> count', page |-> i, ecc |-> ~c.yaffs /\ ops_mode # "RAW"]

(* Programming a page that is not erased, or that is bad, leaves garbage. *)
Program(c, pages, from, i) ==
    [q \in Pages |-> IF q \notin pages THEN mem[q]
                     ELSE IF mem[q] = Erased /\ ~BadPage(q) THEN Image(c, i + q - from) ELSE Torn]

(* "opsmode = chip->ops.mode; chip->ops.mode = MTD_OOB_RAW", and no way back. *)
SetOpsMode(k) == ops_mode' = IF cmd'.yaffs /\ k > 0 THEN "RAW" ELSE ops_mode

(* The k pages from there on are programmed with the image from page i on, or
   the one after the first done of them fails. *)
NandWrite(from, k, i, done) ==
    /\ SetOpsMode(k)
    /\ \/ /\ done = k
          /\ mem' = Program(cmd', PagesFrom(from, k), from, i)
          /\ UNCHANGED faults
       \/ /\ done < k /\ faults < MaxFaults
          /\ mem' = [Program(cmd', PagesFrom(from, done), from, i) EXCEPT ![from + done] = Torn]
          /\ faults' = faults + 1

(* The same, cut off by a restart: after the first pages, or in the middle of the next. *)
CutOff(c, from, k, i) ==
    \E done \in 0..(k - 1) :
       LET programmed == Program(c, PagesFrom(from, done), from, i)
       IN mem' = programmed \/ mem' = [programmed EXCEPT ![from + done] = Torn]

NandRead(from, k) == [j \in 1..k |-> mem[from + j - 1]]

(* Raw reads check nothing; otherwise a page without ecc, or torn, is an error. *)
ReadError(from, k) == ops_mode # "RAW" /\ \E q \in PagesFrom(from, k) : ~mem[q].ecc

-----------------------------------------------------------------------------
(* nand_write_skip_bad and nand_read_skip_bad up to their loops.             *)

Outside(c) == c.off + LenInclBad(c.off, c.len) > Size
AtOnce(c)  == LenInclBad(c.off, c.len) = c.len /\ (c.yaffs => c.len = 0)

Command(c) ==
    /\ pc = "idle" /\ count < MaxCommands
    /\ cmd' = c /\ count' = count + 1
    /\ clean' = IF c.op = "read" THEN clean ELSE \A q \in Target(c) : mem[q] = Erased

(* History: a plain write that has done well so far, in place of the last one. *)
Remember(c, ok) ==
    last' = IF c.op = "read" THEN last
            ELSE IF ok /\ clean' /\ ~c.yaffs THEN c ELSE NoCommand

(* The loop's locals are gone; do_nand clears skip_fb. *)
Locals == offset' = 0 /\ left' = 0 /\ skip_fb' = FALSE
Ends(r, n) == pc' = "idle" /\ result' = r /\ length' = n /\ Locals

Restart == cmd' = Other("reset") /\ Ends("none", 0) /\ got' = <<>> /\ ops_mode' = "ECC"

(* "Attempt to write non page aligned data": for yaffs of the length only, as an
   offset inside a page does not matter where whole blocks are skipped first. *)
WriteUnaligned(c) ==
    /\ Command(c) /\ c.op = "write" /\ ~c.aligned
    /\ Ends("rejected", IF c.yaffs THEN 0 ELSE c.len) /\ Remember(c, FALSE)
    /\ got' = <<>> /\ UNCHANGED flash

(* "Attempt to write outside the flash area", and the same for a read. *)
OutsideFlash(c) ==
    /\ Command(c) /\ c.aligned /\ Outside(c)
    /\ Ends("rejected", c.len) /\ Remember(c, FALSE)
    /\ got' = <<>> /\ UNCHANGED flash

(* The range has as many pages as the image: one nand_write does it all. *)
WriteAtOnce(c, done) ==
    /\ Command(c) /\ c.op = "write" /\ c.aligned /\ ~Outside(c) /\ AtOnce(c)
    /\ NandWrite(c.off, c.len, 0, done)
    /\ Ends(IF done = c.len THEN "ok" ELSE "error", done) /\ Remember(c, done = c.len)
    /\ got' = <<>> /\ UNCHANGED bad

WriteAtOnceReset(c) ==
    /\ pc = "idle" /\ count < MaxCommands /\ count' = count + 1
    /\ c.op = "write" /\ c.aligned /\ ~Outside(c) /\ AtOnce(c)
    /\ CutOff(c, c.off, c.len, 0)
    /\ Restart /\ last' = NoCommand
    /\ UNCHANGED <<bad, faults, clean>>

ReadAtOnce(c) ==
    /\ Command(c) /\ c.op = "read" /\ ~Outside(c) /\ AtOnce(c)
    /\ got' = NandRead(c.off, c.len)
    /\ Ends(IF ReadError(c.off, c.len) THEN "error" ELSE "ok", c.len) /\ Remember(c, TRUE)
    /\ UNCHANGED flash

BeginLoop(c) ==
    /\ Command(c) /\ c.aligned /\ ~Outside(c) /\ ~AtOnce(c)
    /\ pc' = c.op /\ result' = "none" /\ length' = c.len /\ Remember(c, TRUE)
    /\ offset' = c.off /\ left' = c.len /\ skip_fb' = c.yaffs
    /\ got' = <<>> /\ UNCHANGED flash

-----------------------------------------------------------------------------
(* Their loops: while (left > 0).                                            *)

Running == pc # "idle" /\ UNCHANGED <<cmd, count>>

(* Past the end there is nothing but bad blocks; the offset stays at a bound. *)
SkipBlock == offset' = Min({NextBlock(offset), Beyond})

SkipBadBlockHere ==
    /\ Running /\ left > 0 /\ offset < Size /\ TRUE \in IsBad(offset)
    /\ offset' = offset /\ left' = left
    /\ UNCHANGED <<flash, pc, skip_fb, got, result, length, history>>

SkipBadBlock ==
    /\ Running /\ left > 0 /\ TRUE \in IsBad(offset)
    /\ SkipBlock
    /\ UNCHANGED <<flash, pc, left, skip_fb, got, result, length, history>>

(* "Skip the first good block" *)
SkipFirstGood ==
    /\ Running /\ left > 0 /\ FALSE \in IsBad(offset) /\ skip_fb
    /\ skip_fb' = FALSE /\ SkipBlock
    /\ UNCHANGED <<flash, pc, left, got, result, length, history>>

ChunkWholeBlock == NextBlock(offset) - offset

Chunk == Min({left, NextBlock(offset) - offset})

(* nand_write and nand_read refuse what is beyond the end. *)
PastEnd ==
    /\ Running /\ left > 0 /\ FALSE \in IsBad(offset) /\ ~skip_fb /\ offset + Chunk > Size
    /\ Ends("error", length - left)
    /\ last' = IF pc = "read" THEN last ELSE NoCommand
    /\ UNCHANGED <<flash, got, clean>>

Advance(k) ==
    IF k = left THEN Ends("ok", length)
    ELSE /\ left' = left - k /\ offset' = offset + k
         /\ UNCHANGED <<pc, result, length, skip_fb>>

(* The loop has come to a place that it writes to. *)
AtChunk == pc = "write" /\ FALSE \in IsBad(offset) /\ ~skip_fb /\ offset + Chunk <= Size

WriteChunkFullLength(done) ==
    /\ Running /\ AtChunk
    /\ NandWrite(offset, Chunk, cmd.len - left, done)
    /\ IF done = Chunk THEN Advance(Chunk) /\ UNCHANGED last
       ELSE Ends("error", length) /\ last' = NoCommand
    /\ UNCHANGED <<bad, got, clean>>

WriteChunk(done) ==
    /\ Running /\ AtChunk
    /\ NandWrite(offset, Chunk, cmd.len - left, done)
    /\ IF done = Chunk THEN Advance(Chunk) /\ UNCHANGED last
       ELSE Ends("error", length - left) /\ last' = NoCommand
    /\ UNCHANGED <<bad, got, clean>>

ReadChunkAnyBlock ==
    /\ Running /\ pc = "read" /\ offset + Chunk <= Size
    /\ got' = got \o NandRead(offset, Chunk)
    /\ IF ReadError(offset, Chunk) THEN Ends("error", length - left)
       ELSE Advance(Chunk)
    /\ UNCHANGED <<flash, history>>

ReadChunk ==
    /\ Running /\ pc = "read" /\ FALSE \in IsBad(offset) /\ offset + Chunk <= Size
    /\ got' = got \o NandRead(offset, Chunk)
    /\ IF ReadError(offset, Chunk) THEN Ends("error", length - left)
       ELSE Advance(Chunk)
    /\ UNCHANGED <<flash, history>>

-----------------------------------------------------------------------------
(* The other commands, and the reset button.                                 *)

AtPrompt(op) ==
    /\ pc = "idle" /\ cmd' = Other(op) /\ Ends("none", 0) /\ got' = <<>>
    /\ last' = NoCommand /\ UNCHANGED <<count, faults, clean>>

(* The blocks at which the loop of nand_erase_opts stops; it ends at the chip's. *)
InRange(r) == {b \in Blocks : /\ b * EraseSize >= r.off
                              /\ b * EraseSize < r.off + Max({r.len, EraseSize})}

Wiped(blocks) == [q \in Pages |-> IF BlockOf(q) \in blocks THEN Erased ELSE mem[q]]

(* "nand erase": the good blocks of an aligned range; "erase clean" also writes
   markers through chip->ops, in MTD_OOB_AUTO mode. *)
Erase(r, cleanmarker) ==
    LET blocks == InRange(r) \ bad
    IN /\ AtPrompt("erase")
       /\ r.off % EraseSize = 0
       /\ mem' = Wiped(blocks)
       /\ ops_mode' = IF cleanmarker /\ blocks # {} THEN "ECC" ELSE ops_mode
       /\ UNCHANGED bad

(* "nand scrub": bad blocks too, which are then no longer marked. *)
Scrub(r, cleanmarker) ==
    /\ AtPrompt("scrub")
    /\ r.off % EraseSize = 0
    /\ mem' = Wiped(InRange(r)) /\ bad' = bad \ InRange(r)
    /\ ops_mode' = IF cleanmarker /\ InRange(r) # {} THEN "ECC" ELSE ops_mode

MarkBad(b) ==
    /\ AtPrompt("markbad")
    /\ bad' = bad \cup {b}
    /\ UNCHANGED <<mem, ops_mode>>

(* A restart at any time; the loop may be cut off in the middle of a write. *)
Reset ==
    /\ UNCHANGED <<bad, count, faults, clean>>
    /\ Restart
    /\ IF AtChunk THEN CutOff(cmd, offset, Chunk, cmd.len - left) ELSE UNCHANGED mem
    /\ last' = IF pc = "write" THEN NoCommand ELSE last

-----------------------------------------------------------------------------
Init ==
    /\ bad \in SUBSET Blocks /\ mem = [q \in Pages |-> Erased]
    /\ ops_mode = "ECC" /\ pc = "idle" /\ cmd = NoCommand
    /\ offset = 0 /\ left = 0 /\ skip_fb = FALSE /\ got = <<>>
    /\ result = "none" /\ length = 0 /\ count = 0 /\ faults = 0
    /\ clean = FALSE /\ last = NoCommand

Reads  == {[op |-> "read", off |-> r.off, len |-> r.len, yaffs |-> FALSE, aligned |-> TRUE] :
             r \in Ranges}
Writes == {[op |-> "write", off |-> r.off, len |-> r.len, yaffs |-> y, aligned |-> a] :
             r \in Ranges, y \in BOOLEAN, a \in BOOLEAN}

Loop == SkipBadBlock \/ SkipFirstGood \/ PastEnd \/ ReadChunk
        \/ \E done \in 0..EraseSize : WriteChunk(done)

Next ==
    \/ \E c \in Reads \cup Writes :
          \/ WriteUnaligned(c) \/ OutsideFlash(c) \/ ReadAtOnce(c) \/ BeginLoop(c)
          \/ WriteAtOnceReset(c) \/ \E done \in 0..c.len : WriteAtOnce(c, done)
    \/ Loop
    \/ \E r \in Erasures, cleanmarker \in BOOLEAN : Erase(r, cleanmarker) \/ Scrub(r, cleanmarker)
    \/ \E b \in Blocks : MarkBad(b)
    \/ Reset

Spec == Init /\ [][Next]_vars

(* The loops run on by themselves. *)
FairSpec == Spec /\ WF_vars(Loop)

-----------------------------------------------------------------------------
TypeOK ==
    /\ bad \subseteq Blocks
    /\ mem \in [Pages -> [img : 0..MaxCommands, page : Nat, ecc : BOOLEAN]]
    /\ ops_mode \in {"ECC", "RAW"}
    /\ pc \in {"idle", "write", "read"}
    /\ cmd \in Reads \cup Writes \cup {Other(op) : op \in {"none", "erase", "scrub", "markbad", "reset"}}
    /\ offset \in 0..Beyond /\ left \in 0..cmd.len /\ skip_fb \in BOOLEAN
    /\ Len(got) <= cmd.len
    /\ result \in {"none", "ok", "error", "rejected"} /\ length \in 0..cmd.len
    /\ count \in 0..MaxCommands /\ faults \in 0..MaxFaults
    /\ clean \in BOOLEAN /\ last \in Writes \cup {NoCommand}

(* An image that fits is on the good pages from its offset on, in order and as
   far as the command reports, also when a page failed (nand_write_skip_bad). *)
Placed ==
    pc = "idle" /\ cmd.op = "write" /\ result \in {"ok", "error"} /\ clean /\ Fits(cmd) =>
        \A q \in Target(cmd) : Index(cmd, q) < length =>
            mem[q].img = count /\ mem[q].page = Index(cmd, q)

(* A read that succeeds returns the image that was written to the same range,
   bad blocks skipped alike (nand_read_skip_bad), after a restart too. *)
ReadsBack ==
    pc = "idle" /\ cmd.op = "read" /\ result = "ok" /\ last # NoCommand /\ Fits(cmd)
        /\ cmd.off = last.off /\ cmd.len = last.len =>
            /\ Len(got) = cmd.len
            /\ \A i, j \in 1..cmd.len : got[i].img = got[j].img /\ got[i].img # 0 /\ got[i].page = i - 1

(* The write of an image that fits changes the pages of that image and no other
   one: no bad block, none before and none after it, also when the loop is cut off
   by a restart (nand_write_skip_bad). *)
OnlyItsPages ==
    [][\A c \in {cmd, cmd'} : c.op = "write" /\ (c = cmd' \/ pc = "write") /\ Fits(c)
           => \A q \in Pages \ Target(c) : mem'[q] = mem[q]]_vars

(* A command whose image fits comes back to the prompt (the loops of
   nand_write_skip_bad and nand_read_skip_bad, which skip without a limit). *)
CommandEnds == (pc # "idle" /\ Fits(cmd)) ~> (pc = "idle")

(* doc/README.nand: "Blocks that are marked bad are skipped." *)
BadBlocksSkipped ==
    [][cmd'.op = "write" => \A q \in Pages : BadPage(q) => mem'[q] = mem[q]]_vars

(* What a plain "nand write" wrote can be read: nand_base.c: "NAND write with ECC". *)
ReadableLater ==
    pc = "idle" /\ cmd.op = "read" /\ last # NoCommand /\ Fits(cmd)
        /\ cmd.off = last.off /\ cmd.len = last.len => result = "ok"

=============================================================================
