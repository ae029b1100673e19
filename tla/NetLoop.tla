------------------------------ MODULE NetLoop ------------------------------
(***************************************************************************)
(* The network main loop (NetLoop and NetStartAgain, net/net.c) over the   *)
(* ring of Ethernet devices (net/eth.c, CONFIG_NET_MULTI): the two single  *)
(* handlers that every protocol shares, ARP resolution with its own timer, *)
(* the rotation through the devices, "netretry" and "ethrotate".           *)
(*                                                                         *)
(* A protocol is what it asks of the loop: TFTP and PING, with packets     *)
(* chosen by the environment. Time passes in ticks between the reception   *)
(* of packets and the look at the timers.                                  *)
(***************************************************************************)
EXTENDS Integers, FiniteSets

CONSTANTS
    N,              \* number of registered devices
    Mac,            \* the devices that have an Ethernet address
    InitOutcomes,   \* the sets of devices whose init() can succeed in an eth_init
    Protocols,      \* a subset of {"TFTP", "PING"}
    NetretryValues, \* of "unset", "yes", "no", "once" and "number", those that are set
    NetretryNumber, \* the number, for "number"
    Rotate,         \* "ethrotate" is not "no"
    RetryConfig,    \* CONFIG_NET_RETRY_COUNT
    ArpTicks,       \* ARP_TIMEOUT and the TFTP TIMEOUT
    WaitTicks,      \* the ten seconds of PING and of NetStartAgain
    MaxBlocks       \* bound: the blocks that a TFTP transfer receives

Devices == 1..N

ASSUME DeviceAssumption ==
    /\ N \in Nat \ {0}
    /\ Mac \subseteq Devices
    /\ InitOutcomes \subseteq SUBSET Devices
ASSUME RetryAssumption ==
    /\ Protocols \subseteq {"TFTP", "PING"}
    /\ NetretryValues \subseteq {"unset", "yes", "no", "once", "number"}
    /\ NetretryNumber \in Nat
    /\ Rotate \in BOOLEAN
    /\ RetryConfig \in Nat \ {0}
ASSUME TickAssumption ==
    /\ ArpTicks \in Nat \ {0} /\ WaitTicks \in Nat \ {0} /\ ArpTicks <= WaitTicks
    /\ MaxBlocks \in Nat

VARIABLES
    pc,                 \* "prompt", or where NetLoop is
    protocol,
    NetState,
    NetTryCount,
    NetRestarted,
    NetRestartWrap,
    NetDevExists,
    result,             \* how the last command ended
    packetHandler,      \* "none", a protocol, or "startAgain"
    timeHandler,        \* likewise
    timeAge,            \* ticks since timeStart
    NetArpWait,         \* NetArpWaitPacketMAC: "none", "server" or "ping"
    NetArpWaitTry,
    arpAge,             \* ticks since NetArpWaitTimerStart
    NetServerEther,     \* whether the server's address is known
    TftpTimeoutCount,
    blocks,             \* blocks received in this transfer
    eth_current,
    ethact,             \* the variable "ethact": a device, or 0 for none
    netretry,           \* the variable "netretry"
    first_failed,       \* 0 for NULL
    active,             \* the devices in ETH_STATE_ACTIVE
    tried,              \* history: the devices that this command has used
    replied             \* history: this command has received its answer

loopVars  == <<protocol, NetRestarted, NetDevExists, netretry>>
arpVars   == <<NetArpWait, NetArpWaitTry, arpAge>>
timerVars == <<timeHandler, timeAge>>
tftpVars  == <<NetServerEther, TftpTimeoutCount, blocks>>
againVars == <<NetTryCount, NetRestartWrap, packetHandler, eth_current, ethact,
               first_failed, active>>
histVars  == <<tried, replied>>
vars == <<pc, protocol, NetState, NetTryCount, NetRestarted, NetRestartWrap, NetDevExists,
          result, packetHandler, timeHandler, timeAge, NetArpWait, NetArpWaitTry, arpAge,
          NetServerEther, TftpTimeoutCount, blocks, eth_current, ethact, first_failed,
          active, netretry, tried, replied>>

-----------------------------------------------------------------------------
(* The device ring.                                                          *)

(* The k-th device after d. *)
After(d, k) == ((d - 1 + k) % N) + 1

(* eth_init from device c: the number of calls of eth_try_another(0) before an
   init succeeds, N when none does, which leads back to c.                   *)
InitSteps(c, good) ==
    IF ~Rotate THEN 0
    ELSE CHOOSE k \in 0..N :
           /\ k = N \/ After(c, k) \in good
           /\ \A j \in 0..(k - 1) : After(c, j) \notin good

(* eth_init: where it ends, whether a device was started, and whether one of its
   calls of eth_try_another came by the device ff and set NetRestartWrap.    *)
EthInit(c, ff, good) ==
    LET k == InitSteps(c, good)
    IN [cur |-> After(c, k), ok |-> After(c, k) \in good, moved |-> k > 0,
        wrap |-> \E j \in 1..k : After(c, j) = ff]

(* eth_halt *)
Halted == active \ {eth_current}

StartedBeside(init, halted) == IF init.ok THEN active \cup {init.cur} ELSE active

Started(init, halted) == IF init.ok THEN halted \cup {init.cur} ELSE halted

-----------------------------------------------------------------------------
(* NetStartAgain                                                             *)

RetryForever == netretry \in {"unset", "yes"}

Retrycnt == CASE netretry = "number" -> NetretryNumber
              [] netretry = "once"   -> 1
              [] OTHER               -> 0

SetHandlersNoTimer(p) == packetHandler' = p /\ timeHandler' = "none" /\ timeAge' = 0

SetHandlersTimerOnly(p) == timeHandler' = p /\ timeAge' = 0 /\ UNCHANGED packetHandler

(* NetSetTimeout and NetSetHandler *)
SetHandlers(p) == packetHandler' = p /\ timeHandler' = p /\ timeAge' = 0

TryNotCounted == NetTryCount

(* NetTryCount++; the count is only kept when it is used. *)
TryCounted == IF RetryForever THEN NetTryCount ELSE NetTryCount + 1

NetStartAgainGivesUp(th) ==
    /\ ~RetryForever /\ NetTryCount >= Retrycnt
    /\ active' = Halted
    /\ NetState' = "FAIL"
    /\ timeHandler' = th
    /\ UNCHANGED <<timeAge, NetTryCount, NetRestartWrap, packetHandler, eth_current, ethact,
                   first_failed>>

(* The device whose return ends the round of devices. *)
FirstFailed == IF Rotate /\ ~NetRestarted THEN eth_current ELSE first_failed

(* eth_try_another(!NetRestarted), eth_init, and then the wait of ten seconds
   when all devices have had their turn, or the restart on the next one. th is
   timeHandler at the call.                                                  *)
NetStartAgainGoesOn(th) ==
    /\ RetryForever \/ NetTryCount < Retrycnt
    /\ NetTryCount' = TryCounted
    /\ NetRestartWrap' = FALSE
    /\ first_failed' = FirstFailed
    /\ \E good \in InitOutcomes :
         LET next == IF Rotate THEN After(eth_current, 1) ELSE eth_current
             init == EthInit(next, FirstFailed, good)
             wrap == NetRestartWrap \/ (Rotate /\ next = FirstFailed) \/ init.wrap
         IN /\ eth_current' = init.cur
            /\ active' = Started(init, Halted)
            /\ ethact' = IF Rotate THEN init.cur ELSE ethact
            /\ IF wrap /\ NetDevExists
               THEN SetHandlers("startAgain") /\ UNCHANGED NetState
               ELSE /\ NetState' = IF wrap THEN "FAIL" ELSE "RESTART"
                    /\ timeHandler' = th
                    /\ UNCHANGED <<timeAge, packetHandler>>

NetStartAgain(th) == NetStartAgainGivesUp(th) \/ NetStartAgainGoesOn(th)

-----------------------------------------------------------------------------
(* The commands. They begin with eth_halt, eth_set_current and eth_init.     *)

NetLoopCommand(p) ==
    LET cur == IF ethact \in Devices THEN ethact ELSE eth_current
    IN /\ pc = "prompt"
       /\ protocol' = p
       /\ NetRestarted' = FALSE /\ NetDevExists' = FALSE
       /\ NetArpWait' = "none"
       /\ NetTryCount' = 1
       /\ NetState' = "CONTINUE"
       /\ tried' = {} /\ replied' = FALSE
       /\ \E good \in InitOutcomes :
            LET init == EthInit(cur, first_failed, good)
            IN /\ eth_current' = init.cur
               /\ ethact' = init.cur
               /\ NetRestartWrap' = (NetRestartWrap \/ init.wrap)
               /\ active' = Started(init, Halted) \ (IF init.ok THEN {} ELSE {init.cur})
               /\ pc' = IF init.ok THEN "start" ELSE "prompt"
               /\ result' = IF init.ok THEN "running" ELSE "ERROR"
       /\ UNCHANGED <<packetHandler, timerVars, NetArpWaitTry, arpAge, tftpVars, first_failed,
                      netretry>>

(* "setenv ethact", possibly to a name that no device has. *)
SetEthact(d) ==
    /\ pc = "prompt"
    /\ ethact' = d
    /\ UNCHANGED <<pc, loopVars, NetState, NetTryCount, NetRestartWrap, result, packetHandler,
                   timerVars, arpVars, tftpVars, eth_current, first_failed, active, histVars>>

(* "setenv netretry" *)
SetNetretry(v) ==
    /\ pc = "prompt"
    /\ netretry' = v
    /\ UNCHANGED <<pc, protocol, NetRestarted, NetDevExists, NetState, result, timerVars,
                   arpVars, tftpVars, againVars, histVars>>

Return(r) == pc' = "prompt" /\ result' = r

(* net_check_prereq: an address is missing. *)
Unconfigured ==
    /\ pc = "start"
    /\ active' = Halted
    /\ Return("ERROR")
    /\ UNCHANGED <<loopVars, NetState, NetTryCount, NetRestartWrap, packetHandler, timerVars,
                   arpVars, tftpVars, eth_current, ethact, first_failed, histVars>>

(* net_check_prereq: this device has no Ethernet address. *)
NoMac ==
    /\ pc = "start" /\ eth_current \notin Mac
    /\ NetStartAgain(timeHandler)
    /\ pc' = "rx"
    /\ UNCHANGED <<loopVars, result, arpVars, tftpVars, histVars>>

(* ArpRequest for a packet that has to wait for the address. *)
WaitForArp(what) == NetArpWait' = what /\ NetArpWaitTry' = 1 /\ arpAge' = 0

(* PingSend: the echo request always waits for an address. *)
PingSend == WaitForArp("ping")

(* TftpStart or PingStart: set the handlers and send, which takes ARP first. *)
Begin ==
    /\ pc = "start" /\ eth_current \in Mac
    /\ NetDevExists' = TRUE
    /\ tried' = tried \cup {eth_current}
    /\ SetHandlers(protocol)
    /\ IF protocol = "TFTP"
       THEN /\ NetServerEther' = FALSE /\ TftpTimeoutCount' = 0 /\ blocks' = 0
            /\ WaitForArp("server")
       ELSE PingSend /\ UNCHANGED tftpVars
    /\ pc' = "rx"
    /\ UNCHANGED <<protocol, NetRestarted, netretry, NetState, NetTryCount, NetRestartWrap,
                   result, eth_current, ethact, first_failed, active, replied>>

-----------------------------------------------------------------------------
(* eth_rx hands on all packets that the device has.                          *)

RxArpReply ==
    /\ pc = "rx" /\ NetArpWait # "none"
    /\ NetServerEther' = (NetServerEther \/ NetArpWait = "server")
    /\ NetArpWait' = "none"
    /\ UNCHANGED <<pc, loopVars, NetState, result, timerVars, NetArpWaitTry, arpAge,
                   TftpTimeoutCount, blocks, againVars, histVars>>

(* PingHandler *)
RxPing ==
    /\ pc = "rx" /\ packetHandler = "PING"
    /\ NetState' = "SUCCESS"
    /\ replied' = TRUE
    /\ UNCHANGED <<pc, loopVars, result, timerVars, arpVars, tftpVars, againVars, tried>>

(* NetSendUDPPacket to the server. *)
SendUDP == IF NetServerEther THEN UNCHANGED arpVars ELSE WaitForArp("server")

(* TftpHandler: a block to acknowledge, the last one perhaps. *)
RxTftpBlock(last) ==
    /\ pc = "rx" /\ packetHandler = "TFTP"
    /\ blocks < MaxBlocks
    /\ blocks' = blocks + 1
    /\ timeHandler' = "TFTP" /\ timeAge' = 0
    /\ SendUDP
    /\ NetState' = IF last THEN "SUCCESS" ELSE NetState
    /\ replied' = (replied \/ last)
    /\ UNCHANGED <<pc, loopVars, result, NetServerEther, TftpTimeoutCount, againVars, tried>>

(* TftpHandler: an error, or a first block that is not block 1. *)
RxTftpError ==
    /\ pc = "rx" /\ packetHandler = "TFTP"
    /\ NetStartAgain(timeHandler)
    /\ UNCHANGED <<pc, loopVars, result, arpVars, tftpVars, histVars>>

Min(a, b) == IF a < b THEN a ELSE b

(* The device has no more packets; dt ticks have passed since the last look. *)
RxDone(dt) ==
    /\ pc = "rx"
    /\ pc' = "arp"
    /\ timeAge' = Min(timeAge + dt, WaitTicks)
    /\ arpAge' = Min(arpAge + dt, WaitTicks)
    /\ UNCHANGED <<loopVars, NetState, result, timeHandler, NetArpWait, NetArpWaitTry,
                   tftpVars, againVars, histVars>>

(* ctrlc() *)
Abort ==
    /\ pc = "rx"
    /\ active' = Halted
    /\ Return("ABORT")
    /\ UNCHANGED <<loopVars, NetState, NetTryCount, NetRestartWrap, packetHandler, timerVars,
                   arpVars, tftpVars, eth_current, ethact, first_failed, histVars>>

-----------------------------------------------------------------------------
(* ArpTimeoutCheck                                                           *)

ArpExpired == NetArpWait # "none" /\ arpAge >= ArpTicks

ArpNothing ==
    /\ pc = "arp" /\ ~ArpExpired
    /\ pc' = "timer"
    /\ UNCHANGED <<loopVars, NetState, result, timerVars, arpVars, tftpVars, againVars, histVars>>

ArpRetryUnbounded ==
    /\ pc = "arp" /\ ArpExpired
    /\ NetArpWaitTry' = NetArpWaitTry + 1
    /\ arpAge' = 0
    /\ pc' = "timer"
    /\ UNCHANGED <<loopVars, NetState, result, timerVars, NetArpWait, tftpVars, againVars, histVars>>

ArpRetry ==
    /\ pc = "arp" /\ ArpExpired
    /\ NetArpWaitTry + 1 < RetryConfig
    /\ NetArpWaitTry' = NetArpWaitTry + 1
    /\ arpAge' = 0
    /\ pc' = "timer"
    /\ UNCHANGED <<loopVars, NetState, result, timerVars, NetArpWait, tftpVars, againVars, histVars>>

(* "ARP Retry count exceeded; starting again": the request stays pending and its
   timer is not set anew.                                                    *)
ArpExceeded ==
    /\ pc = "arp" /\ ArpExpired
    /\ NetArpWaitTry + 1 >= RetryConfig
    /\ NetArpWaitTry' = 0
    /\ NetStartAgain(timeHandler)
    /\ pc' = "timer"
    /\ UNCHANGED <<loopVars, result, NetArpWait, arpAge, tftpVars, histVars>>

-----------------------------------------------------------------------------
(* The timeout handler, which is removed before it is called.                *)

TimeDelta == IF timeHandler = "TFTP" THEN ArpTicks ELSE WaitTicks

TimerExpired == timeHandler # "none" /\ timeAge >= TimeDelta

TimerNothing ==
    /\ pc = "timer" /\ ~TimerExpired
    /\ pc' = "switch"
    /\ UNCHANGED <<loopVars, NetState, result, timerVars, arpVars, tftpVars, againVars, histVars>>

startAgainTimeout ==
    /\ pc = "timer" /\ TimerExpired /\ timeHandler = "startAgain"
    /\ timeHandler' = "none"
    /\ NetState' = "RESTART"
    /\ pc' = "switch"
    /\ UNCHANGED <<loopVars, result, timeAge, arpVars, tftpVars, againVars, histVars>>

PingTimeoutNotHalted ==
    /\ pc = "timer" /\ TimerExpired /\ timeHandler = "PING"
    /\ timeHandler' = "none"
    /\ NetState' = "FAIL"
    /\ pc' = "switch"
    /\ UNCHANGED <<loopVars, result, timeAge, arpVars, tftpVars, againVars, histVars>>

PingTimeout ==
    /\ pc = "timer" /\ TimerExpired /\ timeHandler = "PING"
    /\ timeHandler' = "none"
    /\ active' = Halted
    /\ NetState' = "FAIL"
    /\ pc' = "switch"
    /\ UNCHANGED <<loopVars, result, timeAge, arpVars, tftpVars, NetTryCount, NetRestartWrap,
                   packetHandler, eth_current, ethact, first_failed, histVars>>

TftpTimeoutResend ==
    /\ pc = "timer" /\ TimerExpired /\ timeHandler = "TFTP"
    /\ TftpTimeoutCount + 1 <= 2 * RetryConfig
    /\ TftpTimeoutCount' = TftpTimeoutCount + 1
    /\ timeHandler' = "TFTP" /\ timeAge' = 0
    /\ SendUDP
    /\ pc' = "switch"
    /\ UNCHANGED <<loopVars, NetState, result, NetServerEther, blocks, againVars, histVars>>

TftpTimeoutExceeded ==
    /\ pc = "timer" /\ TimerExpired /\ timeHandler = "TFTP"
    /\ TftpTimeoutCount + 1 > 2 * RetryConfig
    /\ TftpTimeoutCount' = TftpTimeoutCount + 1
    /\ NetStartAgain("none")
    /\ pc' = "switch"
    /\ UNCHANGED <<loopVars, result, arpVars, NetServerEther, blocks, histVars>>

-----------------------------------------------------------------------------
(* The switch on NetState at the end of each round.                          *)

LoopAgain ==
    /\ pc = "switch" /\ NetState = "CONTINUE"
    /\ pc' = "rx"
    /\ UNCHANGED <<loopVars, NetState, result, timerVars, arpVars, tftpVars, againVars, histVars>>

LoopRestart ==
    /\ pc = "switch" /\ NetState = "RESTART"
    /\ NetRestarted' = TRUE
    /\ NetState' = "CONTINUE"
    /\ pc' = "start"
    /\ UNCHANGED <<protocol, NetDevExists, netretry, result, timerVars, arpVars, tftpVars, againVars, histVars>>

LoopSuccess ==
    /\ pc = "switch" /\ NetState = "SUCCESS"
    /\ active' = Halted
    /\ Return("SUCCESS")
    /\ UNCHANGED <<loopVars, NetState, NetTryCount, NetRestartWrap, packetHandler, timerVars,
                   arpVars, tftpVars, eth_current, ethact, first_failed, histVars>>

LoopFail ==
    /\ pc = "switch" /\ NetState = "FAIL"
    /\ Return("FAIL")
    /\ UNCHANGED <<loopVars, NetState, timerVars, arpVars, tftpVars, againVars, histVars>>

-----------------------------------------------------------------------------

(* After eth_initialize: the first device, or the one "ethprime" names, is current. *)
Init ==
    /\ pc = "prompt"
    /\ protocol = "PING"
    /\ NetState = "CONTINUE"
    /\ NetTryCount = 0
    /\ NetRestarted = FALSE /\ NetRestartWrap = FALSE /\ NetDevExists = FALSE
    /\ result = "none"
    /\ packetHandler = "none"
    /\ timeHandler = "none" /\ timeAge = 0
    /\ NetArpWait = "none" /\ NetArpWaitTry = 0 /\ arpAge = 0
    /\ NetServerEther = FALSE /\ TftpTimeoutCount = 0 /\ blocks = 0
    /\ eth_current \in Devices
    /\ ethact = eth_current
    /\ first_failed = 0
    /\ active = {}
    /\ netretry \in NetretryValues
    /\ tried = {} /\ replied = FALSE

Command == \/ \E p \in Protocols : NetLoopCommand(p)
           \/ \E d \in {0} \cup Devices : SetEthact(d)
           \/ \E v \in NetretryValues : SetNetretry(v)

Starting == Unconfigured \/ NoMac \/ Begin

Receiving == RxArpReply \/ RxPing \/ (\E last \in BOOLEAN : RxTftpBlock(last)) \/ RxTftpError

Polling == (\E dt \in {0, 1} : RxDone(dt)) \/ Abort

Timers == \/ ArpNothing \/ ArpRetry \/ ArpExceeded
          \/ TimerNothing \/ startAgainTimeout \/ PingTimeout
          \/ TftpTimeoutResend \/ TftpTimeoutExceeded

Switch == LoopAgain \/ LoopRestart \/ LoopSuccess \/ LoopFail

Next == Command \/ Starting \/ Receiving \/ Polling \/ Timers \/ Switch

Spec == Init /\ [][Next]_vars

(* The loop keeps turning and time keeps passing; packets come or do not. *)
FairSpec ==
    /\ Spec
    /\ WF_vars(Starting) /\ WF_vars(Timers) /\ WF_vars(Switch)
    /\ WF_vars(RxDone(0) \/ RxDone(1))
    /\ SF_vars(RxDone(1))

-----------------------------------------------------------------------------

Handlers == {"none", "TFTP", "PING", "startAgain"}

TypeOK ==
    /\ pc \in {"prompt", "start", "rx", "arp", "timer", "switch"}
    /\ protocol \in {"TFTP", "PING"}
    /\ NetState \in {"CONTINUE", "RESTART", "SUCCESS", "FAIL"}
    /\ NetTryCount \in Nat
    /\ NetRestarted \in BOOLEAN /\ NetRestartWrap \in BOOLEAN /\ NetDevExists \in BOOLEAN
    /\ result \in {"none", "running", "SUCCESS", "FAIL", "ABORT", "ERROR"}
    /\ packetHandler \in Handlers /\ timeHandler \in Handlers
    /\ timeAge \in 0..WaitTicks /\ arpAge \in 0..WaitTicks
    /\ NetArpWait \in {"none", "server", "ping"}
    /\ NetArpWaitTry \in 0..RetryConfig
    /\ NetServerEther \in BOOLEAN
    /\ TftpTimeoutCount \in Nat
    /\ blocks \in 0..MaxBlocks
    /\ eth_current \in Devices /\ ethact \in 0..N /\ first_failed \in 0..N
    /\ netretry \in NetretryValues
    /\ active \subseteq Devices /\ tried \subseteq Devices
    /\ replied \in BOOLEAN

(* eth.c and doc/README.drivers.eth, "eth_init ... eth_halt": however the devices
   are rotated, fail to start or are chosen with "ethact", no device but the
   current one is left running.                                              *)
OnlyCurrentActive == active \subseteq {eth_current}

(* doc/README.drivers.eth, the call graph of "some net operation", which ends in
   eth_halt(): at the prompt no device is running and receiving into memory,
   once the command has found a device that has an address.                  *)
HaltedAtPrompt == (pc = "prompt" /\ NetDevExists) => active = {}

(* The same without the condition: a command that finds no device with an address
   fails with the last one running.                                          *)
HaltedAfterAny == pc = "prompt" => active = {}

(* net.c, "THE" handlers: once a protocol has begun, packets and timeouts go to the
   handlers of the running command, never to those a former command left.    *)
OwnHandlers ==
    (pc \in {"rx", "arp", "timer"} /\ NetDevExists)
        => /\ packetHandler \in {protocol, "startAgain"}
           /\ timeHandler \in {protocol, "startAgain", "none"}

(* README, "netretry": with "once" a network operation fails when all the
   available network interfaces are tried once without success.              *)
OnceTriesAll ==
    (netretry = "once" /\ pc = "prompt" /\ result = "FAIL") => tried = Devices

(* net.c, PingTimeout: "we did not get the reply" is said of a ping that got none. *)
PingVerdict == (pc = "prompt" /\ protocol = "PING" /\ replied) => result # "FAIL"

(* net.c, "starting again": after the wait of NetStartAgain the protocol does start
   again, unless NetLoop returns. With "netretry" unset nothing else ends the wait. *)
StartsAgain ==
    (packetHandler = "startAgain" /\ pc \notin {"prompt", "start"}) ~> (pc \in {"prompt", "start"})

(* README, CONFIG_NET_RETRY_COUNT and "netretry": with a bounded number of tries
   every network command returns to the prompt, whatever packets are lost.   *)
Returns == (pc # "prompt" /\ ~RetryForever) ~> (pc = "prompt")

=============================================================================
