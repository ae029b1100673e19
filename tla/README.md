# A TLA+ development of U-Boot 2009.11 for the JZ2440

The repository is U-Boot 2009.11 ported to the JZ2440 / my2440 board: a Samsung
S3C2440 with one NAND chip, a DM9000 Ethernet controller and a serial console
(`include/configs/my2440.h`). All paths below are relative to
`src/u-boot-2009.11/`.

U-Boot runs on one CPU without threads. What makes it hard to test is what happens
*around* its single loop: the power can fail between two flash blocks; packets are
late, lost, repeated and out of order; timers expire in the same round as the packet
they were waiting for; and a command leaves global variables behind that the next
command reads. This development models the parts where those things meet: the
environment and its copy in flash, the NAND commands that work around bad blocks, the
network main loop over the Ethernet devices, the TFTP, BOOTP, DHCP and RARP clients, the
reassembly of IP packets, and the timer that all waits are built on.

## 1. Inventory

| Part | State it keeps | Operations | Correct when |
|---|---|---|---|
| Environment in RAM (`common/cmd_nvedit.c`, `common/env_common.c`) | variables, CRC, settings derived from variables (`bi_ip_addr`, `load_addr`, baud rate, consoles), `env_id` | `setenv`, boot, `netboot_update_env` | settings and CRC follow the variables |
| Environment in NAND (`common/env_nand.c`) | two areas of blocks, bad blocks, `env_ptr->flags`, `gd->env_valid` | `saveenv`, `env_relocate_spec` | a boot finds what the last `saveenv` stored, at whatever instant power fails |
| Network loop (`net/net.c`) | `NetState`, the one packet handler and the one timeout handler, ARP wait, retry counters | `NetLoop`, `NetStartAgain`, `ArpTimeoutCheck`, `PingStart` | commands return; a wait ends; packets go to the running command |
| Ethernet devices (`net/eth.c`) | ring of devices, current one, which are running, `ethact` | `eth_init`, `eth_halt`, `eth_try_another`, `eth_set_current` | at most one device runs, none at the prompt |
| TFTP client (`net/tftp.c`) | state, ports, block counters, wrap offset, timeouts, loaded memory | `TftpStart`, `TftpHandler`, `TftpSend`, `TftpTimeout` | "done" means the file is in memory |
| DM9000 (`drivers/net/dm9000x.c`) | receive ring, chip registers | `init`, `send`, `recv`, `halt` | all packets of a round are handed on |
| NAND commands and helpers (`drivers/mtd/nand/nand_util.c`, `common/cmd_nand.c`) | the flash, `skip_fb`, `rw_oob` | erase, scrub, skip-bad read and write, `markbad` | an image is on its good pages and nowhere else, and is read back |
| NAND core, bad block table (`nand_base.c`, `nand_bbt.c`) | chip commands, `chip->ops`, table of bad blocks | `nand_write`, `nand_read` | what was written with ECC is read with ECC |
| BOOTP, DHCP, RARP (`net/bootp.c`, `net/rarp.c`) | transaction number, DHCP state, tries, addresses | one handler and one timeout each | the address is one that was granted; late answers are told apart |
| IP reassembly (`__NetDefragment`) | hole list in one buffer | one fragment | a datagram is delivered whole or not at all |
| Timer (`cpu/arm920t/s3c24x0/timer.c`) | `timestamp`, `lastdec` | `get_timer`, `udelay` | the time told is the time passed; waits are long enough and end |
| NFS, SNTP, DNS, boot of images, `lmb`, serial loaders, autoboot, USB download, shell, file systems | per command | | see section 8 |

How they interact. The environment and the network loop share variables:
`NetInitLoop` copies `ipaddr` into `NetOurIP` when `env_id` has moved, and
`netboot_update_env` writes back what a network boot has learnt. The network loop and
the protocols share the two function pointers `packetHandler` and `timeHandler`, the
timer behind the second one, and `NetState`; `NetStartAgain` is called from packet
handlers, from both timers and from the loop, moves the loop to the next device and
re-enters the protocol. `saveenv` runs over `nand_erase_opts` and `nand_write` block
by block; the NAND commands run over the same functions and share `chip->ops` with them.
Everything is called from the prompt, so a command starts with whatever
globals the former one left.

## 2. Modules

| Module | Models | Used by |
|---|---|---|
| `EnvVars` | environment in RAM: `_do_setenv` with all its ways out, CRC, derived settings | `EnvNet`, `EnvNand` |
| `EnvNet` | the environment with the network commands (`netboot_common`, `NetInitLoop`, the answers, `netboot_update_env`) | `MCEnvNet`, `EnvNetProofs` |
| `EnvStore` | abstract specification: a persistent register that is replaced atomically | instanced by `EnvNand` |
| `EnvNand` | `saveenv` block by block, `env_relocate_spec`, power failures, flash faults | `MCEnv`, `EnvNandProofs` |
| `NetLoop` | `NetLoop`, `NetStartAgain`, ARP, ping, the device ring | `MCNetLoop`, `NetLoopProofs` |
| `Tftp` | the TFTP client in the loop on one device, a lock-step server, the network | `MCTftp`, `TftpProofs` |
| `Bootp` | the BOOTP, DHCP and RARP clients, servers that compete, the network | `MCBootp`, `BootpProofs` |
| `IpDefrag` | `__NetDefragment` | `MCIpDefrag`, `IpDefragProofs` |
| `NandSkipBad` | the NAND commands over bad blocks, `nand_write` and `nand_read` | `MCNandSkipBad`, `NandSkipBadProofs` |
| `Timer` | the counter, `get_ticks`, the delays and the timeout of `NetLoop` | `MCTimer`, `TimerProofs` |
| `EnvNandProofs`, `EnvNetProofs`, `NetLoopProofs`, `TftpProofs`, `BootpProofs`, `IpDefragProofs`, `NandSkipBadProofs`, `TimerProofs` | theorems | |
| `MCEnv`, `MCEnvNet`, `MCNetLoop`, `MCTftp`, `MCBootp`, `MCIpDefrag`, `MCNandSkipBad`, `MCTimer` | constants for TLC | the configurations |

### EnvVars and EnvNet

`data` is `env_ptr->data` as a function from names to values, `crc` is
`env_ptr->crc`, `mirror` the settings that a variable governs. A variable is of one
of the kinds that `_do_setenv` treats differently: `plain`, `late` (`ipaddr`,
`loadaddr`, `bootfile`: the setting is switched after the new definition is in place),
`console` (cannot be deleted, must name a device, switched first) and `baudrate`
(checked and switched first when it is already defined). A value's text is a member
of `Vals` with a length; the environment has room for `EnvLimit`. `SetEnvRejected`,
`SetEnvDelete`, `SetEnvOverflow` and `SetEnvStore` are the four ways out of
`_do_setenv`; an overflow has already deleted the old definition and leaves the CRC
as it was. `envChanged` is `env_id # env_changed_id`, which is all that is observed of
those counters. The CRC is idealised: it *is* the contents it was computed over.

`EnvNet` adds the network commands as the environment sees them, step by step.
`NetbootCommon` presets `load_addr` from the environment and takes `load_addr` and `BootFile`
from the arguments; `NandLoadImage` stands for the commands that load from NAND and make their
address the default. `NetLoopWith`, `NetLoopBootp` and `NetLoopNoEther` are the top of
`NetLoop`: `NetInitLoop` copies the address if the environment has changed, a zero address ends
the command, BOOTP, DHCP and RARP clear it, and a device without an ethernet address waits for
another start (`NetStartAgain`). Answers come while the command runs: `BootpReply` sets the
address, `BootFile` and the variable `bootfile`; `RarpReply` sets the address in *any* command,
as `NetReceive` does. `NetbootSucceeds` then sets several variables in order (each of which may
overflow), `NetLoopReturns` none. Two history variables say what a property may not claim:
`astray`, that BOOTP has cleared the address or an answer has set it since it was read, until a
network boot succeeds or the environment is read again; and `given`, the settings that an
argument has changed since their variable.

### EnvNand

An image takes `EnvBlocks` good blocks of an area of `RangeBlocks`; a block is erased,
torn, or holds a chunk, the first of which holds the header (CRC and flags). `pc` is
where `saveenv` is, and each round of its two loops (`nand_erase_opts`, `writeenv`) is
one action, so `PowerFail` can come between any two blocks or tear the one that is
being worked on. `CrcOK(a)` is `readenv` followed by the comparison of the CRC,
`NewerArea` the serial check, `BootData` what the next boot uses. `flags` wraps at
`FlagMod` (256 in the code). `stored` and `attempt` are history variables. The faults
(`erase`, `write`, `markbad`) are switched on by the constant `Faults`: a failed erase
is reported on the console and otherwise ignored by `nand_erase_opts`; a failed write
makes `saveenv` return 1.

The board is built with one copy (`Redundant = FALSE`); the repository also has the
code for a redundant one, which is what `README` promises power-fail safety for.

### NetLoop

`pc` follows `NetLoop`: `start` (the top of the restart, `net_check_prereq` and the
protocol's start), `rx` (`eth_rx` and `ctrlc`), `arp` (`ArpTimeoutCheck`), `timer` (the
timeout handler) and `switch`. `timeAge` and `arpAge` count ticks of five seconds since
the timers were set, so ten seconds are `WaitTicks = 2`; `RxDone(dt)` lets 0 or 1 tick
pass per round. A handler is named after whoever set it. A protocol is what it asks of
the loop; `TFTP` and `PING` are the two shapes there are: one that sets its timer anew
and may call `NetStartAgain`, and one that gives up after a single wait.
`EthInit` is the whole of `eth_init`, its rotation through devices that do not start
included; `NetStartAgain` is split into giving up and going on. `InitOutcomes` says
which devices can start in a call, `Mac` which have an address. `netretry` is a variable
of the environment that `SetNetretry` may change between two commands.

### Tftp

The file is bytes `0..FileLen-1`, memory is a function from offsets to bytes, so a
block that is stored in the wrong place is seen. `RxOack`, `RxError`, `RxNotBlockOne`,
`RxSameBlock`, `RxBlock` and `RxIgnored` are the ways through `TftpHandler`;
`SeqSize` stands for the 2^16 block numbers and `UlongSize` for the width of the offset.
The server and the network are outside the repository: a server that follows RFC 1350 in
lock step and may open a second session for a repeated request, and a set of packets in
flight. With `Keep = {TRUE}` a packet is never used up, which covers every delay,
reordering, repetition and loss at once, retransmissions of the server included. Block
numbers wrap, so a packet that outlives a whole round of numbers is indistinguishable from
a new one. Without `OutliveWrap` it is gone by then (`StillInFlight`): from the block on with
which the numbers begin anew, every earlier block of the session is gone when the server sends
the next, the direct predecessor included, a copy of which is finding 1. Each block that is
stored sets the timer anew, which is part of the fairness (section 3).

### Bootp

`Request` is `BootpRequest` or `RarpRequest`, `Timeout` the two timeouts, `DhcpSelect` and
`DhcpBind` are the two states of `DhcpHandler` that act, `BootpHandler` and `RarpReply` the
other two handlers. The transaction number is derived from the time in milliseconds, and two
requests are seconds apart: it is the number of the request. Of what an answer brings, the
address, the server and the gateway are kept. `Gateways` are the servers that name a gateway
(option 3); an answer without it leaves `NetOurGatewayIP` as it was, and at the start of a
command it stays or is read again from an environment that has none. The options of a BOOTP
reply are processed by `DhcpHandler` too. The servers are external and follow their RFCs; a DHCP server leases an address when it is asked for its own offer, may refuse, and
takes the address back when a later request goes to another server. The network is a set of
packets that only grows. `pc = "loading"` is the network loop after the address is found:
TFTP has its own handler by then, but `NetReceive` handles RARP whatever runs.

### IpDefrag

The buffer is seen twice, as bytes that belong to a packet and as descriptors in units of
`Unit` (8) bytes; writing the one destroys the other, as in the union the code makes of it.
The ways through `__NetDefragment` are actions: `TooFar`, `NothingToFill`, `FillHole`,
`ShortenHole`, `MoveHole`, `SplitHole`, and `ReadsData` where the walk along the list reads
what is not a descriptor, after which anything may happen. Where the hole behind a fragment
begins at the end of the buffer, its descriptor goes behind it (`net.c:1247`, `1259`), and
nothing is known of the reassembly afterwards: `PastBuffer` sets `confused`, and the model stops.
The list is walked with a recursive
function. `got` is what has come for the packet, whether or not the code made use of it.
`FirstFirst` and `LateCopies` are what an instance assumes of the order of
arrival. The board does not set `CONFIG_IP_DEFRAG`.

### NandSkipBad

Pages hold an image's number, a page number and whether their ECC is right. `Command` to
`BeginLoop` are the ways through `nand_write_skip_bad` and `nand_read_skip_bad` up to their
loops, `SkipBadBlock`, `SkipFirstGood` and the chunks one round each, so that a `Reset` comes
between any two, or in the middle of a chunk, after any of its pages or in one (`CutOff`);
`WriteAtOnceReset` is the same for the write without a loop. `NandWrite` is `nand_write`, with the mode that it leaves in
`chip->ops.mode`, and may fail at each page. `Target` and `Index` are the reference: the
first good pages from the offset on, counted.

### Timer

`Tick` is the hardware: `Load` down to 0 and again, `Load + 1` ticks, of which the code
counts `Load`. While a wait runs the counter is read at least once in `MaxGap` ticks, less
than a period; the loops of `udelay` and `NetLoop` do that as long as no handler takes ten
milliseconds. The ratios 1000 and 100 and the 32 bits are constants, so that a wrap comes
within a few waits. `elapsed`, `reloads`, `stamp` and `wrapped` are history variables.

## 3. Runs

| Run | Configuration | Shows |
|---|---|---|
| `env_redund` | two areas of 3 blocks, images of 2, each subset of 3 blocks bad, serial numbers modulo 3 | `BackupSurvives`, `SaveSticks`, and `AtomicStore`: `saveenv` with a redundant copy implements `EnvStore` |
| `env_single` | one copy, all faults | `NoResurrection`: a boot finds the last, the new or the default environment, never an older one or a mixture |
| `env_vars` | six variables of all kinds (`ipaddr`, `loadaddr`, `bootfile`, `serverip`, `stdout`, `baudrate`), two values, one too long for the rest to fit, commands with and without arguments, answers with and without a file | `MirrorsFollow`, `StaleCrcOnlyDrops`, and `AddressCurrent`: the address of the network loop is the one of the environment unless BOOTP has cleared it or an answer has set it since |
| `tftp_safe` | 2 attempts, 2 sessions, with and without block size option, 3 block numbers, every packet repeatable, for `Terminates` a stored block only finitely often | `FileIntact`, `AckedStored`, `Terminates` |
| `net` | 2 devices, any of which may fail to start at any call and one of which has no address, `netretry` unset or a number | `OnlyCurrentActive`, `HaltedAtPrompt`, `OwnHandlers`, `StartsAgain`, `Returns` |
| `defrag` | 3 packets, one of seven fragments of which some overlap, one of two, one too long with a fragment that ends where the buffer does; last fragments of a unit or more; any order after the first fragment, copies at any time | `ReturnsWhole`, `ReturnedWhenAllCame`, `HolesExact` |
| `nand_skip` | 3 blocks of 2 pages, any of them bad, 2 commands, one page fault, resets, also in the middle of a write | `Placed`, `ReadsBack`, `OnlyItsPages`, `CommandEnds` |
| `bootp` | 2 DHCP servers, one of which answers RARP and names a gateway while the other names none, a BOOTP server with a gateway, 3 requests, 2 tries each | `AddressGranted`, `OneLease`: of several servers that offer an address for one DISCOVER at most one leases it, `GatewayFollows`, `WaitEnds` |
| `timer` | periods of 5 ticks, timestamps modulo 64 that start at 0 or shortly before the wrap, two waits | `TimeTold`, `DelayLongEnough`, `TimeoutNotEarly`, `WaitsEnd` |
| `tftp_wrap_dup` | one device, one session, one repeat, a network that keeps the order | violation of `FileIntact`, finding 1 |
| `nand_ecc` | as `nand_skip` | violation of `ReadableLater`, finding 2 |
| `timer_short` | as `timer` | violation of `WaitsAtLeast`, finding 3 |

`TypeOK` is checked in one passing run of each module (of `EnvVars` as a part of that of
`EnvNand`, in `env_redund`).

**Bounds.** Environment: one variable with two values and the default one is enough to
tell "old", "new" and "default" apart, and the flash is what `env_redund` explores;
three serial numbers are the fewest for which "successor" is not symmetric, and the
proofs cover 256; three blocks with two needed allow a bad block before, in and after
the image and an area that is too short. TFTP: a file of five bytes in blocks of two and
three has a first, a middle and a short last block and wraps the three block numbers; two
attempts and two sessions are the fewest in which an old session can disturb a new one.
Network loop: two devices are the fewest that rotate; three tries let a command go round
all devices and wait once. `RetryConfig` (`CONFIG_NET_RETRY_COUNT`, 20 on this board) is 3,
which keeps the order of the timers: a ping gives up before its ARP request does. 1 behaves
differently (section 5). Reassembly: the fragments cut the long packet such that the list has up
to three holes and each place in it, and each way to meet a hole, occurs; the code excludes
a fragment that overlaps two holes. NAND: three
blocks put a bad one before, in and after an image of up to all pages, and two commands are a
write and a read, or two writes on top of each other; more of them add nothing, since a
command keeps only `bad`, `mem` and `ops_mode`. BOOTP: three requests are two of one start and
one of the next, or one and two, so answers of the former start and of the former try are both
late; of the servers, two that lease are the fewest that compete. Timer: 64 is more than
twice the longest wait, as 2^32 is; two waits, the second of which starts with the counter
anywhere.

**Fairness.** `NetLoop` polls in a loop that nothing blocks, so each of its steps is
weakly fair. Time passes: `RxDone(1)` is strongly fair, since rounds that take no
noticeable time cannot go on for ever. Nothing is assumed of packets there, of ctrl-c or
of the user. In `Tftp` the switch and `startAgainTimeout` are weakly fair for the same reason.
`TftpTimeout` alone is not: `TftpHandler` calls `NetSetTimeout` for every block it stores
(`tftp.c:410`), so what is fair is `TftpTimeout \/ StoresBlock`, the timer expires *or* a block
is stored. With packets that are never used up that is too little for `Terminates`: a network
that repeats two blocks alternately for ever keeps the transfer alive for ever
(`tftp_endless.cfg`, section 5). `tftp_safe` therefore adds the one assumption on the network
that the liveness needs, `FiniteCopies`: from some point on no block comes that the client
stores. It restricts no safety property: every finite behaviour can go on that way. The server
is not fair. In `Bootp` the timeout is, alone: the one answer that sets the timer anew
and leaves the client waiting, the offer it selects (`bootp.c:893`), is taken once a request. In
`NandSkipBad` and `Timer` the loops go round (and the clock runs): nothing interrupts them.
`Returns` and `Terminates` need a bounded `netretry`; with the default of retrying for ever
a command may wait for ever, as documented.

**Deadlock** is checked except in the runs of `Tftp` and `Bootp`, where ports and requests are
bounded and the model stops when they are used up; this stands for no state of the program.

## 4. Proofs

`tlapm` checks these for every value of the constants that the named assumptions allow.

* `EnvNandProofs!TypeCorrect`: `Spec => []TypeOK`, for every geometry, number of serial
  numbers and set of faults. The work is in showing that the header that
  `env_relocate_spec` picks is an image.
* `EnvNandProofs!BackupSafe` and `!StoreRefined`: with `Redundant`, `Faults = {}` and
  `EnvFits` (no environment overflows), `Spec => []BackupSurvives` and `Spec =>
  AtomicStore`, for every number of blocks, every set of bad blocks and every
  `FlagMod > 2`.
  `BackupSurvives` is not inductive: it says nothing of the copy that is not in use, of
  the serial numbers, or of how far `saveenv` has come. The inductive invariant `IInv`
  adds that: the CRC matches the variables; at the prompt the copy in use is the last
  saved one and a readable other copy is its *predecessor* (`OtherOlder`), so the
  serial check cannot prefer it; while erasing, the good blocks before `offset` are
  erased; while writing, they hold the chunks of the new image in order and the rest is
  erased (`WrittenBefore`), so that the copy becomes readable only with its last
  chunk and then as the successor of the one in use. `Rank`, the number of good blocks
  up to a block, carries the argument over the bad ones (`RankStep`, `RankStrict`).
  Refinement follows from the same invariant: the only step at which `BootData` changes
  is the last `WriteBlock`, which is `Save`.
* `NetLoopProofs!TypeCorrect`, `!OneDevice`: `Spec => []OnlyCurrentActive` for every
  number of devices, whichever fail to start and whichever have addresses. It rests on
  `eth_init` always ending at a device of the ring and on `eth_halt` coming before
  every move.
* `NetLoopProofs!PromptHalted`: `Spec => []HaltedAtPrompt`, for a command that found a
  device with an address. `NETLOOP_FAIL` returns without `eth_halt`, so what has to be shown
  is that whoever set it had halted the device and nothing starts it again before the switch.
  `HaltInv` adds that a loop in state FAIL has no running device and that its tries are
  used up or its ping has timed out (`GivenUp`). Without the condition the theorem is false
  (`net_no_mac.cfg`, section 5).
* `NetLoopProofs!HandlersOwned`: `Spec => []OwnHandlers`. Its invariant follows the two
  function pointers through `NetStartAgain`, which sets both, and the loop, which clears the
  timer before it calls it.
* `EnvNandProofs!SaveLasts`: `Spec => []SaveSticks` from the same `IInv` and the same
  assumptions as `BackupSafe`.
* `EnvNandProofs!NeverResurrected`: `Spec => []NoResurrection` for one copy, which is how the
  board is built, and every combination of failing erases, failing writes, blocks that are
  marked bad and power failures. A failed erase leaves a chunk of an older environment where it
  was, and a block marked bad moves all later ones up, so what has to be shown is that such
  leftovers never line up again. `SingleInv` says why: a chunk is never further back than the
  block it belongs to (`Aligned`), and marking a block bad only moves it further to the front;
  and behind `offset` there are only chunks of the new environment (`Overwritten`). A readable
  copy has each chunk exactly at its place, so the last chunk is one that was just written.
* `EnvNetProofs!MirrorsAlwaysFollow`, `!StaleCrcAlwaysOnlyDrops`, `!AddressAlwaysCurrent`: the
  three invariants of `env_vars`, for every set of variables, every size of the environment,
  every argument of a command, every answer and every list of variables that
  `netboot_update_env` sets. `MirrorsAlwaysFollow` claims nothing of a setting that an argument
  has changed since its variable, and `AddressAlwaysCurrent` nothing of an address that is astray;
  what has to be shown is that each of these ends as soon as the variable is set or read again. That function is a loop over the list,
  a recursive function in the model; `RunTo` is its run up to an element, and `Consistent` holds
  after each.
* `BootpProofs!TypeCorrect`, `!Granted`, `!GatewayOfServer`, `!NeverTwoLeases`, for any number
  of servers, requests and tries; `!Granted` and `!GatewayOfServer` for one protocol at a time
  (`~Mixed`). `AddressGranted` says
  nothing of the packets in flight. The invariant (`TypeInv`, `AddressInv`) adds that no
  request is newer than `BootpID`, so that no server is told to give up the lease of the
  current transaction; that an ACK with the current number is backed by a lease of its server
  for exactly that transaction (`AckBacked`); and that a bound client has such a lease
  (`Bound`). `GatewayOfServer` is about servers that name a gateway: its client has it from the
  ACK that also brought the address. `NeverTwoLeases` needs no `~Mixed`. `LeaseInv` says
  that there is one DHCP request for a transaction at most (`OneRequest`), none while an offer for
  it is still being waited for (`NotYet`), and that a lease was asked for by name.
* `TimerProofs!TypeCorrect`, `!ToldTime`: `Spec => []TimeTold`, for every reload value and
  every width of `unsigned long` that is more than two periods. `TimeTold` speaks of the
  instants at which the counter has just been read; `TimeInv` adds what holds between them:
  the counter is `gap` ticks below `lastdec`, or a period above that if it has started over
  (`Pending`), which can have happened once at most because `MaxGap <= Load`, and the timestamp
  lags by those ticks. The lemmas before it are the arithmetic modulo `UlongSize`.
* `TimerProofs!DelaysLongEnough`, `!TimeoutsNotEarly`: a delay of `udelay` or `udelay_masked`
  that ends has lasted as long as it computed, and a timeout does not come early, for every
  frequency and every width, as long as the timestamp does not wrap during the wait
  (`wrapped`). From `TimeInv`, with the timestamp counted from the start of the wait, and that
  division is monotone. `Kilo > 2` and positive arguments are what the code has (1000, and
  every call in the tree).
* `TftpProofs!TypeCorrect` for every value of the constants; `!AcksAlwaysStored` and
  `!FileAlwaysIntact` under `ToldApart`: ports are fresh, and the file ends within one round of
  block numbers for both block sizes, or with the block at which they begin anew if no earlier
  block is then in flight (its predecessor included). That is the hypothesis that `tftp_wrap_dup` shows to be needed: with
  a further round a repeated block 0 puts the rest of the file in the wrong place. `FileInv` says
  that a server has sent block `n` only after the bytes before it were stored
  (`SentAfterStored`), because the acknowledgement in flight stands for them; that the client has
  the block size of its session from the first answer on (`Unheard`, `Heard`), although two
  sessions with different sizes may answer one request; and that no byte is ever out of place
  (`MemRight`).
* `NandSkipBadProofs!TypeCorrect`, `!AlwaysPlaced`, `!AlwaysReadsBack` and the action property
  `!AlwaysOnlyItsPages`, for every geometry, every set of bad blocks and every range, with page
  faults and resets, also in the middle of a write: `AlwaysOnlyItsPages` covers what a reset cuts
  off in the loop. `NandInv` counts: the good pages between the start of the range and `offset`
  are those that are done (`Position`), the pages done hold the image and the others are still
  erased (`Written`), the buffer of a read holds the pages in order (`ReadSoFar`), and the image
  of the last plain write stays where it is (`Kept`). `Index` is a cardinality, and the lemmas
  before are how it grows over good and bad blocks.
* `IpDefragProofs!TypeCorrect`: `Spec => []TypeOK` for all fragments that a sender may cut: the
  walk along the list stays in the buffer and every descriptor is written inside it, up to the
  first that would go behind its end. That case is a step of the model (`PastBuffer`), after
  which it stops: the theorem claims nothing of what the code does from there on.
* `IpDefragProofs!ListOfHoles`, `!WholePackets`, `!AllThatCameReturned`: the three invariants of
  `defrag` for packets and fragments of every size, in every order and with any number of
  copies, under `Sent`: the first fragment of a packet comes first, identifiers
  differ, of two fragments of a packet the one that begins later does not end earlier (they
  may overlap), and no fragment leaves less than a unit to the end. Three of these are the cases
  of section 5 (`defrag_order`, `defrag_senders`, `defrag_short`), in which the properties
  fail; the other is what keeps a fragment from overlapping two holes, of which the code fills the
  first only. The instance of `defrag` satisfies `Sent`. `HolesExact` is not inductive: it says
  neither that the list is in order, where the walk relies on it, nor what data is in the
  buffer. `DefragInv` names the set `L` of the units that hold a descriptor. They are linked in
  order (`Linked`); the holes at them are exactly what is missing of `got`, each has room for its
  descriptor, and a byte that has come lies between any two (`Exact`); what has come
  has come in whole fragments (`Came`), and is in the buffer (`Open`). The walk then stops at the
  one hole that has something of the fragment (`FindHoleIs`, `OneHole`), or there is none
  (`NothingMissing`); what is left of it is again exact whichever of the four cases applies
  (`FilledExact`), the list is linked through what is left (`LinkedRemoved`, `LinkedMoved`,
  `LinkedSplit`), no descriptor of it is overwritten by the data and no data by a descriptor
  (`HolesKept`, `DataKept`). When no hole is left, all has come (`NoHoleLeft`).

Induction over data. The library's induction theorems take a predicate as a parameter, which
the provers cannot instantiate. Where a proof needs induction it is derived for sets from the
well-foundedness of `<` (`LeastElement`, `IntervalInduction` in `EnvNetProofs`), and the
existence of a recursive function over an interval from that (`RunExists`, and `WalkExists` in
`IpDefragProofs`).

Only model-checked: liveness under fairness (`StartsAgain`, `Returns`, `Terminates`,
`CommandEnds`, `WaitEnds`, `WaitsEnd`), which is beyond this prover.

## 5. Where code and documents disagree

Shown by the runs that end in a violation:

1. `tftp_wrap_dup`: `TftpHandler` counts a wrap-around for each block 0 before it sees
   that the block is a repeat (`net/tftp.c:353`); the rest of the file goes to the wrong
   place and the load ends with "done".
2. `nand_ecc`: `nand write.yaffs` leaves `chip->ops.mode` at `MTD_OOB_RAW`
   (`nand_base.c:2044`; the saved `opsmode` is never put back). Plain writes from then on
   have no ECC, and cannot be read after the next reset.
3. `timer_short`: `udelay` divides by 1000 first (`timer.c:115`), so the 25 microseconds of
   the DM9000 driver ("Wait at least 20 us") and the 100 of `do_sleep` are no wait at all.

Further configurations, which are not among the runs, reproduce others with the
same modules; each ends with the violation of the property it names:

* `env_overflow.cfg` (`MCEnv`, `SaveSticks`): `_do_setenv` deletes the old definition before
  it looks for room and returns on overflow without `env_crc_update()`
  (`common/cmd_nvedit.c:336`). A later `saveenv` stores the stale CRC, says "done", and the
  next boot uses the default environment.
* `env_address.cfg` (`MCEnvNet`, `AddressKnown`): `NetLoop(BOOTP)` clears `NetOurIP`; if it
  fails, `NetInitLoop` does not reread the environment unless a `setenv` came in between, and
  the next `ping` stops with "`ipaddr' not set" (`net/net.c:1728`) although it is set.
* `env_bootfile.cfg` (`MCEnvNet`, `BootFileFollows`): the file name of one command stays in
  `BootFile` for the next, although `bootfile` is set to another (`common/cmd_net.c:181`);
  `load_addr` is preset from its variable, `BootFile` is not.
* `tftp_endless.cfg` (`MCTftp`, `Terminates`): two blocks of a session that the network repeats
  alternately for ever are both stored and both set the timer anew (`net/tftp.c:410`), so
  `netretry` bounds nothing.
* `net_once.cfg` (`MCNetLoop`, `OnceTriesAll`): `netretry=once` fails after one interface;
  `README:3106` says after all.
* `defrag_order.cfg` (`MCIpDefrag`, `ReturnsWhole`): the last fragment of a packet comes
  before the first. `prev_hole` 0 means "none" but is also the index of the first hole, so
  the last hole looks like the only one and the packet is returned with the first one open
  (`net/net.c:1225`).
* `defrag_edge.cfg` (`MCIpDefrag`, `NeverConfused`): a fragment that ends where the buffer does
  and has more behind it passes the check of `net/net.c:1176`, and the descriptor of the hole
  behind it is written after the end of `pkt_buff` (`net/net.c:1247`, `1259`).
* `defrag_late.cfg` (`MCIpDefrag`, `NeverConfused`): a copy of a fragment after the packet is
  complete is looked up in a list that the packet's data has overwritten.
* `defrag_short.cfg` (`MCIpDefrag`, `ReturnedWhenAllCame`): a last fragment shorter than 8
  bytes that comes in order does not reach beyond the unit its hole starts at in whole units,
  is taken for a copy ("dup fragment?", `net/net.c:1206`) and dropped, every time it is sent:
  the packet is never returned.
* `defrag_senders.cfg` (`MCIpDefrag`, `ReturnsWhole`): two senders with the same `ip_id` are
  mixed, since nothing but the identifier is compared.
* `nand_fit.cfg` (`MCNandSkipBad`, `BadBlocksSkipped`): where the pages up to the end of the
  chip are exactly as many as the image, but some are bad, the image is written at once, bad
  blocks included; `doc/README.nand:71` says that they are skipped.
* `bootp_leftover.cfg` (`MCBootp`, `NoOtherGateway`): DHCP takes the address of a server that
  names no gateway, and goes on with the gateway of an offer that it had from another server and
  did not take (`net/bootp.c:703`; nothing clears `NetOurGatewayIP`). With `Clients = {"BOOTP"}`
  the same property fails for another reason: BOOTP sets the gateway only when there is none
  yet (`net/bootp.c:163`), on purpose, so the one of a former answer stays.
* `bootp_mixed.cfg` (`MCBootp`, `AddressGranted`): a late reply to a former RARP replaces the
  address that DHCP has been granted, while a file is loaded (`net/net.c:1511`).
* `timer_wrap.cfg` (`MCTimer`, `NeverEarly`): where the timestamp wraps, `get_timer` jumps
  back and a timeout of the network loop expires at once.
* `env_failed_save.cfg` (`MCEnv`, `SaveSticks`): a failed `saveenv` leaves `flags`
  incremented, and two copies can end up two apart across the wrap from 255 to 0, where
  the older one wins.
* `env_erase_fault.cfg` (`MCEnv`, `SaveSticks`): `nand_erase_opts` returns 0 after an
  erase that failed, and `saveenv` says "done" over an unreadable copy.
* `env_mirrors.cfg` (`MCEnvNet`, `MirrorsCleared`): deleting `ipaddr` leaves the
  address in `bi_ip_addr`.
* `net_ping_race.cfg` (`MCNetLoop`, `PingVerdict`): a reply that arrives in the round in
  which the timer expires is overruled by `PingTimeout`.
* `net_arp_storm.cfg` (`MCNetLoop`, `StartsAgain`): with `CONFIG_NET_RETRY_COUNT` 1, as
  on one other board, the pending ARP request restarts the ten seconds in every round.
* `net_no_mac.cfg` (`MCNetLoop`, `HaltedAfterAny`): when no device has an address
  `NetStartAgain` fails after it has started the device.

## 6. Assumptions

* The CRC is ideal: no two contents share one. Different environments differ in every
  chunk of their image.
* A block being erased or programmed when power fails ends up as before, done, or torn;
  torn contents are never a chunk.
* `FreshPorts`: `TftpOurPort`, which is derived from the timer, does not repeat between
  the attempts of `tftp_safe`. If it does, packets of the former
  attempt are taken for those of the new one.
* The TFTP server is a correct lock-step server and sends the same file every time.
* No earlier block of a TFTP session is in flight when the server sends the one with which the
  block numbers begin anew, or a later one, not even the block before it (`OutliveWrap`). That is
  more than that a packet does not outlive a round: a repeat of the block numbered 0 that comes
  one block late is finding 1.
* For `Terminates`, the network repeats blocks that the client stores only finitely often
  (`FiniteCopies`).
* Transaction numbers of BOOTP and DHCP do not repeat; servers follow their RFCs.
* A fragment's offset and length are as a sender cuts them: multiples of 8 but for the end.
  What is neither preceded nor followed by another is no fragment and does not get here
  (`NetDefragment`).
* Programming a page that is not erased leaves garbage that its ECC shows.
* The counter is polled at least once in a period of 10 ms while a wait runs.
* `NetLoop` and `Tftp` are built with `CONFIG_NET_MULTI`; at least one device is
  registered.

## 7. Plan

In this order:

1. `Lmb`: `lmb_add`, `lmb_reserve` and `lmb_alloc`, regions sorted and disjoint.
2. `XModem`: the serial loader with its retries and repeated blocks.
3. `NetLoop` with the state of `Tftp` as its protocol, showing that the abstract one here
   allows every behaviour of the detailed one.

## 8. Not modelled

`lmb` and the serial loaders: planned, above. NFS is not configured. SNTP and DNS are one
request, one answer and one timeout each, but not quite the pattern of the protocols that are
modelled: `SntpTimeout` (`net/sntp.c:43-48`) and `DnsTimeout` (`net/dns.c:97-101`) set
`NETLOOP_FAIL` without `eth_halt`, which `PingTimeout` and `NetStartAgain` have done by then. So
`HaltedAtPrompt` does not extend to them: after such a timeout the device is left running until
the next network command.
Neither command is configured for this board. The DM9000's registers and the NAND controller
are hardware I/O; only what the loop, `saveenv` and the NAND commands rely on is in the
models. Of the NAND commands, `dump`, `.oob` and the partition tables are left out. The
shell, image formats, USB download, YAFFS, UBI, JFFS2 and MMC are parsing, vendored code or
I/O without the behaviours this development is about. Other boards and CPUs, which are most
of the source tree, are not built for this one.
