------------------------------ MODULE EnvNand ------------------------------
(***************************************************************************)
(* The environment in NAND flash (common/env_nand.c): saveenv, which       *)
(* erases and writes block by block and can be cut short by a power        *)
(* failure, and env_relocate, which picks the copy to use at power on.     *)
(*                                                                         *)
(* An environment image occupies EnvBlocks erase blocks of an area of      *)
(* RangeBlocks; bad blocks are skipped.  A block holds one chunk of an     *)
(* image, is erased, or is torn (its contents are no chunk).  Different    *)
(* environments are taken to differ in every chunk.                        *)
(***************************************************************************)
EXTENDS EnvVars, FiniteSets

CONSTANTS
    Redundant,      \* CONFIG_ENV_OFFSET_REDUND is defined
    EnvBlocks,      \* CONFIG_ENV_SIZE  / erase size
    RangeBlocks,    \* CONFIG_ENV_RANGE / erase size
    FlagMod,        \* number of values of env_ptr->flags (256)
    FactoryBad,     \* the blocks that may be bad when the board is new
    Faults          \* the flash faults that can happen

FaultKinds == {"erase", "write", "markbad"}

ASSUME GeometryAssumption ==
    /\ EnvBlocks \in Nat \ {0}
    /\ RangeBlocks \in Nat
    /\ EnvBlocks <= RangeBlocks
ASSUME FlagAssumption == FlagMod \in Nat /\ FlagMod > 2
ASSUME FaultAssumption == Faults \subseteq FaultKinds /\ Redundant \in BOOLEAN

Areas  == {1, 2}                \* CONFIG_ENV_OFFSET, CONFIG_ENV_OFFSET_REDUND
Blocks == 1..RangeBlocks
Flags  == 0..(FlagMod - 1)
Images == [data : Envs, crc : Envs, flags : Flags]

ASSUME FactoryBadAssumption == FactoryBad \subseteq Areas \X Blocks

VARIABLES
    flash,       \* flash[a][b]: contents of block b of area a
    bad,         \* the blocks marked bad, as <<a, b>>
    flags,       \* env_ptr->flags
    env_valid,   \* gd->env_valid
    pc,          \* "off", "prompt", or the loop of saveenv that is running
    offset,      \* that loop's block
    amount,      \* amount_saved, in blocks
    stored,      \* history: the last environment known to be in flash
    attempt      \* history: the environment that a saveenv is writing

nandVars == <<flash, bad, flags, env_valid, pc, offset, amount, stored, attempt>>
vars == <<data, crc, mirror, envChanged, NetOurIP,
          flash, bad, flags, env_valid, pc, offset, amount, stored, attempt>>

NullImage == [data |-> DefaultEnv, crc |-> DefaultEnv, flags |-> 0]
Erased == [st |-> "erased", idx |-> 0, img |-> NullImage]
Torn   == [st |-> "torn",   idx |-> 0, img |-> NullImage]

(* Chunk i of an image: the header, crc and flags, is in the first one. *)
ChunkOf(img, i) ==
    [st  |-> "chunk", idx |-> i,
     img |-> IF i = 1 THEN img
             ELSE [data |-> img.data, crc |-> img.data, flags |-> 0]]

Contents == [st : {"erased", "torn", "chunk"}, idx : Nat, img : Images]

-----------------------------------------------------------------------------
(* Reading: readenv and env_relocate_spec.                                   *)

Good(a, b) == <<a, b>> \notin bad                       \* ~nand_block_isbad
Rank(a, b) == Cardinality({c \in 1..b : Good(a, c)})

(* The first block that readenv reads of area a. *)
IsHeader(a, b) == Good(a, b) /\ Rank(a, b) = 1
HeaderBlock(a) == CHOOSE b \in Blocks : IsHeader(a, b)
Header(a) == flash[a][HeaderBlock(a)].img

(* readenv loads exactly the chunks of img, in order, from the good blocks. *)
Holds(a, img) ==
    /\ Rank(a, RangeBlocks) >= EnvBlocks
    /\ \A b \in Blocks : Good(a, b) /\ Rank(a, b) <= EnvBlocks
                            => flash[a][b] = ChunkOf(img, Rank(a, b))

CrcOKHeaderOnly(a) == /\ \E b \in Blocks : IsHeader(a, b)
                      /\ Rank(a, RangeBlocks) >= EnvBlocks
                      /\ Header(a).crc = Header(a).data

(* crc32(0, data, ENV_SIZE) == crc for what readenv loads from area a. *)
CrcOK(a) == /\ \E b \in Blocks : IsHeader(a, b)
            /\ Holds(a, Header(a))
            /\ Header(a).crc = Header(a).data

NewerAreaNoWrap(f1, f2) == IF f1 > f2 THEN 1 ELSE IF f2 > f1 THEN 2 ELSE 1

(* The serial check of env_relocate_spec when both copies are good. *)
NewerArea(f1, f2) ==
    CASE f1 = FlagMod - 1 /\ f2 = 0 -> 2
      [] f2 = FlagMod - 1 /\ f1 = 0 -> 1
      [] OTHER -> IF f1 > f2 THEN 1 ELSE IF f2 > f1 THEN 2 ELSE 1

(* The area that env_relocate_spec uses; 0 stands for use_default(). *)
BootArea ==
    IF ~Redundant THEN (IF CrcOK(1) THEN 1 ELSE 0)
    ELSE IF CrcOK(1) /\ CrcOK(2) THEN NewerArea(Header(1).flags, Header(2).flags)
    ELSE IF CrcOK(1) THEN 1
    ELSE IF CrcOK(2) THEN 2 ELSE 0

BootData  == IF BootArea = 0 THEN DefaultEnv ELSE Header(BootArea).data
BootFlags == IF BootArea = 0 THEN FlagMod - 1 ELSE Header(BootArea).flags

-----------------------------------------------------------------------------

(* board_init_r: env_init marks the environment valid, env_relocate reads the
   flash and set_default_env falls back to the compiled-in environment.      *)
PowerOn ==
    /\ pc = "off"
    /\ LoadEnv(BootData)
    /\ flags' = BootFlags
    /\ env_valid' = IF BootArea = 0 THEN 1 ELSE BootArea
    /\ pc' = "prompt"
    /\ stored' = BootData
    /\ attempt' = BootData
    /\ UNCHANGED <<flash, bad, offset, amount>>

SetEnvAtPrompt ==
    /\ pc = "prompt"
    /\ \E n \in Names : SetEnv(n)
    /\ UNCHANGED nandVars

TargetInUse == IF Redundant THEN env_valid ELSE 1

(* The copy that saveenv overwrites: with a redundant copy, the other one. *)
Target == IF Redundant /\ env_valid = 1 THEN 2 ELSE 1

(* env_ptr->flags++ on an unsigned char. *)
FlagSucc(f) == IF f = FlagMod - 1 THEN 0 ELSE f + 1
FlagsNext == IF Redundant THEN FlagSucc(flags) ELSE flags

(* saveenv up to its call of nand_erase_opts. *)
SaveEnvStart ==
    /\ pc = "prompt"
    /\ flags' = FlagsNext
    /\ pc' = "erase"
    /\ offset' = 1
    /\ amount' = 0
    /\ attempt' = data
    /\ UNCHANGED <<flash, bad, env_valid, stored>>
    /\ UNCHANGED ramVars

SetBlock(a, b, c) == flash' = [flash EXCEPT ![a][b] = c]

(* One round of the loop of nand_erase_opts: bad blocks are skipped, and so
   is a block whose erase fails; the function then still returns 0.          *)
EraseSkip ==
    /\ pc = "erase" /\ offset \in Blocks
    /\ ~Good(Target, offset)
    /\ offset' = offset + 1
    /\ UNCHANGED <<flash, bad, flags, env_valid, pc, amount, stored, attempt>>
    /\ UNCHANGED ramVars

EraseBlock ==
    /\ pc = "erase" /\ offset \in Blocks
    /\ Good(Target, offset)
    /\ SetBlock(Target, offset, Erased)
    /\ offset' = offset + 1
    /\ UNCHANGED <<bad, flags, env_valid, pc, amount, stored, attempt>>
    /\ UNCHANGED ramVars

EraseFails ==
    /\ "erase" \in Faults
    /\ pc = "erase" /\ offset \in Blocks
    /\ Good(Target, offset)
    /\ \E c \in {flash[Target][offset], Torn} : SetBlock(Target, offset, c)
    /\ offset' = offset + 1
    /\ UNCHANGED <<bad, flags, env_valid, pc, amount, stored, attempt>>
    /\ UNCHANGED ramVars

EraseDone ==
    /\ pc = "erase" /\ offset \notin Blocks
    /\ pc' = "write"
    /\ offset' = 1
    /\ UNCHANGED <<flash, bad, flags, env_valid, amount, stored, attempt>>
    /\ UNCHANGED ramVars

RamImage == [data |-> data, crc |-> crc, flags |-> flags]

(* Programming only clears bits: a block that was not erased ends up torn. *)
Program(old, new) == IF old = Erased \/ old = new THEN new ELSE Torn

WriteLoopUnbounded == pc = "write" /\ offset \in Blocks

(* One round of the loop of writeenv. *)
WriteLoop == pc = "write" /\ amount < EnvBlocks /\ offset \in Blocks

WriteSkip ==
    /\ WriteLoop
    /\ ~Good(Target, offset)
    /\ offset' = offset + 1
    /\ UNCHANGED <<flash, bad, flags, env_valid, pc, amount, stored, attempt>>
    /\ UNCHANGED ramVars

WriteBlock ==
    /\ WriteLoop
    /\ Good(Target, offset)
    /\ SetBlock(Target, offset,
                Program(flash[Target][offset], ChunkOf(RamImage, amount + 1)))
    /\ offset' = offset + 1
    /\ amount' = amount + 1
    /\ UNCHANGED <<bad, flags, env_valid, pc, stored, attempt>>
    /\ UNCHANGED ramVars

(* saveenv returns 1, "FAILED!": nand_write reported an error, or the area
   has too few good blocks.                                                  *)
WriteFails ==
    /\ "write" \in Faults
    /\ WriteLoop
    /\ Good(Target, offset)
    /\ SetBlock(Target, offset, Torn)
    /\ pc' = "prompt"
    /\ attempt' = stored
    /\ UNCHANGED <<bad, flags, env_valid, offset, amount, stored>>
    /\ UNCHANGED ramVars

WriteShort ==
    /\ pc = "write" /\ amount < EnvBlocks /\ offset \notin Blocks
    /\ pc' = "prompt"
    /\ attempt' = stored
    /\ UNCHANGED <<flash, bad, flags, env_valid, offset, amount, stored>>
    /\ UNCHANGED ramVars

(* saveenv returns 0, "done". *)
SaveEnvDone ==
    /\ pc = "write" /\ amount = EnvBlocks
    /\ env_valid' = IF Redundant THEN Target ELSE env_valid
    /\ pc' = "prompt"
    /\ stored' = attempt
    /\ UNCHANGED <<flash, bad, flags, offset, amount, attempt>>
    /\ UNCHANGED ramVars

(* Power is lost; a block that is being erased or programmed may be torn. *)
PowerFail ==
    /\ pc # "off"
    /\ \/ UNCHANGED flash
       \/ /\ pc \in {"erase", "write"} /\ offset \in Blocks
          /\ pc = "write" => amount < EnvBlocks
          /\ Good(Target, offset)
          /\ SetBlock(Target, offset, Torn)
    /\ pc' = "off"
    /\ UNCHANGED <<bad, flags, env_valid, offset, amount, stored, attempt>>
    /\ UNCHANGED ramVars

AreasInUse == IF Redundant THEN Areas ELSE {1}

(* "nand markbad" at the prompt, of a block of an environment. *)
MarkBad ==
    /\ "markbad" \in Faults
    /\ pc = "prompt"
    /\ \E a \in AreasInUse, b \in Blocks : bad' = bad \cup {<<a, b>>}
    /\ UNCHANGED <<flash, flags, env_valid, pc, offset, amount, stored, attempt>>
    /\ UNCHANGED ramVars

Init ==
    /\ RamInit(DefaultEnv)
    /\ flash = [a \in Areas |-> [b \in Blocks |-> Erased]]
    /\ bad \in SUBSET FactoryBad
    /\ flags = 0
    /\ env_valid = 1
    /\ pc = "off"
    /\ offset = 1
    /\ amount = 0
    /\ stored = DefaultEnv
    /\ attempt = DefaultEnv

Next ==
    \/ PowerOn \/ SetEnvAtPrompt \/ SaveEnvStart
    \/ EraseSkip \/ EraseBlock \/ EraseFails \/ EraseDone
    \/ WriteSkip \/ WriteBlock \/ WriteFails \/ WriteShort \/ SaveEnvDone
    \/ PowerFail \/ MarkBad

Spec == Init /\ [][Next]_vars

-----------------------------------------------------------------------------

TypeOK ==
    /\ RamTypeOK
    /\ flash \in [Areas -> [Blocks -> Contents]]
    /\ bad \subseteq Areas \X Blocks
    /\ flags \in Flags
    /\ env_valid \in Areas
    /\ pc \in {"off", "prompt", "erase", "write"}
    /\ offset \in 1..(RangeBlocks + 1)
    /\ amount \in 0..EnvBlocks
    /\ stored \in Envs
    /\ attempt \in Envs

(* README, CONFIG_ENV_OFFSET_REDUND: "there is a valid backup copy in case
   there is a power failure during a saveenv operation".  Whatever instant the
   power fails at, the next env_relocate finds the environment saved last or,
   once saveenv has written it, the one being saved; never the default one in
   place of a saved one.                                                     *)
BackupSurvives == BootData \in {stored, attempt}

(* cmd_nvedit.c, usage of saveenv: "save environment variables to persistent
   storage".  At the prompt, env_relocate would find the environment that the
   last saveenv that returned 0 was given.                                   *)
SaveSticks == pc = "prompt" => BootData = stored

(* With one copy, whatever fails, env_relocate finds the environment saved
   last, the one being saved or the default one: never an older one, and never
   a mixture of two.                                                         *)
NoResurrection == BootData \in {stored, attempt, DefaultEnv}

(* saveenv with a redundant copy implements an atomic, persistent register. *)
Store == INSTANCE EnvStore WITH
            Contents <- Envs, Default <- DefaultEnv,
            store <- BootData, ram <- data, on <- (pc # "off")

AtomicStore == Store!StoreSpec

=============================================================================
