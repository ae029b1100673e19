--------------------------- MODULE NetLoopProofs ---------------------------
(***************************************************************************)
(* Proofs about NetLoop, for every number of devices, every "netretry" and *)
(* every outcome of the devices' init: its types, that only the current    *)
(* device runs, that none is left running at the prompt once a device with *)
(* an address was found, and that the handlers are the running command's.  *)
(***************************************************************************)
EXTENDS NetLoop, TLAPS, WellFoundedInduction

-----------------------------------------------------------------------------
(* The ring.                                                                 *)

(* Walking along the ring stays on it. *)
LEMMA AfterDevice ==
    ASSUME NEW d \in Devices, NEW k \in Nat
    PROVE  After(d, k) \in Devices
<1>1. N \in Nat /\ N > 0
    BY DeviceAssumption
<1>2. d - 1 + k \in Int
    BY <1>1 DEF Devices
<1>3. (d - 1 + k) % N \in 0..(N - 1)
    BY <1>1, <1>2
<1> QED
    BY <1>1, <1>3 DEF After, Devices

(* A non-empty set of naturals has a least element. *)
LEMMA LeastNatural ==
    ASSUME NEW T, T \subseteq Nat, T # {}
    PROVE  \E x \in T : \A y \in T : x <= y
<1>1. PICK x \in T : \A y \in T : ~ (<<y, x>> \in OpToRel(<, Nat))
    <2> HIDE DEF OpToRel
    <2> QED BY NatLessThanWellFounded, WFMin
<1>2. ASSUME NEW y \in T PROVE x <= y
    <2>1. y \in Nat /\ x \in Nat
        OBVIOUS
    <2>2. ~ (y < x)
        BY <1>1, <2>1 DEF OpToRel
    <2> QED BY <2>1, <2>2
<1> QED BY <1>2

(* eth_init takes a definite number of steps around the ring. *)
LEMMA InitStepsNat ==
    ASSUME NEW c, NEW good
    PROVE  InitSteps(c, good) \in Nat
<1>1. N \in Nat
    BY DeviceAssumption
<1>2. CASE ~Rotate
    BY <1>2 DEF InitSteps
<1>3. CASE Rotate
    <2> DEFINE T == {k \in 0..N : k = N \/ After(c, k) \in good}
    <2>1. N \in T /\ T \subseteq Nat
        BY <1>1
    <2>2. PICK k \in T : \A y \in T : k <= y
        <3> HIDE DEF T
        <3> QED BY <2>1, LeastNatural
    <2>3. ASSUME NEW j \in 0..(k - 1) PROVE After(c, j) \notin good
        <3>1. j \in 0..N /\ j < k
            BY <1>1, <2>2
        <3> QED BY <2>2, <3>1
    <2>4. \E i \in 0..N : /\ i = N \/ After(c, i) \in good
                          /\ \A j \in 0..(i - 1) : After(c, j) \notin good
        BY <2>2, <2>3
    <2>5. InitSteps(c, good) \in 0..N
        BY <1>3, <2>4 DEF InitSteps
    <2> QED BY <1>1, <2>5
<1> QED BY <1>2, <1>3

(* eth_init ends at a device. *)
LEMMA InitDevice ==
    ASSUME NEW c \in Devices, NEW ff, NEW good
    PROVE  /\ EthInit(c, ff, good).cur \in Devices
           /\ EthInit(c, ff, good).wrap \in BOOLEAN
           /\ EthInit(c, ff, good).ok \in BOOLEAN
BY InitStepsNat, AfterDevice DEF EthInit

-----------------------------------------------------------------------------
(* Types.                                                                    *)

(* The variables that NetStartAgain sets keep their types. *)
LEMMA StartAgainType ==
    ASSUME TypeOK, NEW th \in Handlers, NetStartAgain(th)
    PROVE  /\ NetState' \in {"CONTINUE", "RESTART", "SUCCESS", "FAIL"}
           /\ NetTryCount' \in Nat
           /\ NetRestartWrap' \in BOOLEAN
           /\ packetHandler' \in Handlers /\ timeHandler' \in Handlers
           /\ timeAge' \in 0..WaitTicks
           /\ eth_current' \in Devices /\ ethact' \in 0..N /\ first_failed' \in 0..N
           /\ active' \subseteq Devices
<1>1. N \in Nat /\ WaitTicks \in Nat
    BY DeviceAssumption, TickAssumption
<1>2. CASE NetStartAgainGivesUp(th)
    BY <1>2 DEF NetStartAgainGivesUp, TypeOK, Halted
<1>3. CASE NetStartAgainGoesOn(th)
    <2> DEFINE next == IF Rotate THEN After(eth_current, 1) ELSE eth_current
    <2>1. next \in Devices
        BY AfterDevice DEF TypeOK
    <2>2. FirstFailed \in 0..N
        BY <1>1 DEF FirstFailed, TypeOK, Devices
    <2>3. PICK good \in InitOutcomes :
             LET init == EthInit(next, FirstFailed, good)
                 wrap == NetRestartWrap \/ (Rotate /\ next = FirstFailed) \/ init.wrap
             IN /\ eth_current' = init.cur
                /\ active' = Started(init, Halted)
                /\ ethact' = IF Rotate THEN init.cur ELSE ethact
                /\ IF wrap /\ NetDevExists
                   THEN SetHandlers("startAgain") /\ UNCHANGED NetState
                   ELSE /\ NetState' = IF wrap THEN "FAIL" ELSE "RESTART"
                        /\ timeHandler' = th
                        /\ UNCHANGED <<timeAge, packetHandler>>
        BY <1>3 DEF NetStartAgainGoesOn
    <2> DEFINE init == EthInit(next, FirstFailed, good)
    <2> HIDE DEF next
    <2>4. init.cur \in Devices
        BY <2>1, InitDevice
    <2> HIDE DEF init
    <2>5. eth_current' = init.cur /\ active' = Started(init, Halted)
          /\ ethact' = IF Rotate THEN init.cur ELSE ethact
        BY <2>3 DEF init
    <2>6. eth_current' \in Devices /\ ethact' \in 0..N
        BY <1>1, <2>4, <2>5 DEF TypeOK, Devices
    <2>7. active' \subseteq Devices
        BY <2>4, <2>5 DEF Started, Halted, TypeOK
    <2>8. /\ NetState' \in {"CONTINUE", "RESTART", "SUCCESS", "FAIL"}
          /\ packetHandler' \in Handlers /\ timeHandler' \in Handlers
          /\ timeAge' \in 0..WaitTicks
        BY <1>1, <2>3 DEF SetHandlers, TypeOK, Handlers
    <2>9. NetTryCount' = TryCounted /\ NetRestartWrap' = FALSE /\ first_failed' = FirstFailed
        BY <1>3 DEF NetStartAgainGoesOn
    <2>10. TryCounted \in Nat
        BY DEF TryCounted, TypeOK
    <2> QED BY <2>2, <2>6, <2>7, <2>8, <2>9, <2>10
<1> QED BY <1>2, <1>3 DEF NetStartAgain

(* The steps of the commands and of the switch, which set the handlers or halt a
   device themselves, and the steps that go through NetStartAgain.           *)
LEMMA CommandType ==
    ASSUME TypeOK, NEW p \in Protocols, NetLoopCommand(p)
    PROVE  TypeOK'
<1> DEFINE cur == IF ethact \in Devices THEN ethact ELSE eth_current
<1>1. N \in Nat /\ p \in {"TFTP", "PING"}
    BY DeviceAssumption, RetryAssumption
<1>2. cur \in Devices
    BY DEF TypeOK
<1>3. PICK good \in InitOutcomes :
         LET init == EthInit(cur, first_failed, good)
         IN /\ eth_current' = init.cur
            /\ ethact' = init.cur
            /\ NetRestartWrap' = (NetRestartWrap \/ init.wrap)
            /\ active' = Started(init, Halted) \ (IF init.ok THEN {} ELSE {init.cur})
            /\ pc' = IF init.ok THEN "start" ELSE "prompt"
            /\ result' = IF init.ok THEN "running" ELSE "ERROR"
    BY DEF NetLoopCommand
<1> DEFINE init == EthInit(cur, first_failed, good)
<1> HIDE DEF cur
<1>4. init.cur \in Devices
    BY <1>2, InitDevice
<1> HIDE DEF init
<1>5. eth_current' = init.cur /\ ethact' = init.cur
    BY <1>3 DEF init
<1>6. eth_current' \in Devices /\ ethact' \in 0..N
    BY <1>1, <1>4, <1>5 DEF Devices
<1>7. active' \subseteq Devices
    BY <1>3, <1>4 DEF Started, Halted, TypeOK, init
<1>8. /\ NetRestartWrap' \in BOOLEAN
      /\ pc' \in {"start", "prompt"} /\ result' \in {"running", "ERROR"}
    BY <1>3
<1> QED
    BY <1>1, <1>6, <1>7, <1>8 DEF NetLoopCommand, TypeOK, timerVars, tftpVars

(* The devices keep running or are halted, the rest is set to constants. *)
LEMMA PlainType ==
    ASSUME TypeOK,
           \/ \E d \in {0} \cup Devices : SetEthact(d)
           \/ \E v \in NetretryValues : SetNetretry(v)
           \/ Unconfigured \/ Begin \/ Abort
           \/ LoopAgain \/ LoopRestart \/ LoopSuccess \/ LoopFail
    PROVE  TypeOK'
<1> USE DEF TypeOK, loopVars, arpVars, timerVars, tftpVars, againVars, histVars
<1>1. N \in Nat /\ WaitTicks \in Nat /\ RetryConfig \in Nat \ {0} /\ MaxBlocks \in Nat
    BY DeviceAssumption, RetryAssumption, TickAssumption
<1>2. ASSUME NEW d \in {0} \cup Devices, SetEthact(d) PROVE TypeOK'
    BY <1>1, <1>2 DEF SetEthact, Devices
<1>10. ASSUME NEW v \in NetretryValues, SetNetretry(v) PROVE TypeOK'
    BY <1>10 DEF SetNetretry
<1>3. CASE Unconfigured
    BY <1>3 DEF Unconfigured, Return, Halted
<1>4. CASE Begin
    <2>1. /\ timeAge' \in 0..WaitTicks /\ arpAge' \in 0..WaitTicks
          /\ NetArpWaitTry' \in 0..RetryConfig
          /\ TftpTimeoutCount' \in Nat /\ blocks' \in 0..MaxBlocks
        BY <1>1, <1>4 DEF Begin, SetHandlers, WaitForArp, PingSend
    <2>2. NetDevExists' \in BOOLEAN /\ NetServerEther' \in BOOLEAN
        BY <1>4, Zenon DEF Begin
    <2>3. /\ packetHandler' \in Handlers /\ timeHandler' \in Handlers
          /\ NetArpWait' \in {"none", "server", "ping"}
        BY <1>4 DEF Begin, SetHandlers, WaitForArp, PingSend, Handlers
    <2> QED BY <1>4, <2>1, <2>2, <2>3 DEF Begin
<1>5. CASE Abort
    BY <1>5 DEF Abort, Return, Halted
<1>6. CASE LoopAgain
    BY <1>6 DEF LoopAgain
<1>7. CASE LoopRestart
    BY <1>7 DEF LoopRestart
<1>8. CASE LoopSuccess
    BY <1>8 DEF LoopSuccess, Return, Halted
<1>9. CASE LoopFail
    BY <1>9 DEF LoopFail, Return
<1> QED BY <1>2, <1>3, <1>4, <1>5, <1>6, <1>7, <1>8, <1>9, <1>10

(* Packets and timers that do not start again. *)
LEMMA EventType ==
    ASSUME TypeOK,
           \/ RxArpReply \/ RxPing \/ (\E last \in BOOLEAN : RxTftpBlock(last))
           \/ (\E dt \in {0, 1} : RxDone(dt))
           \/ ArpNothing \/ ArpRetry \/ TimerNothing \/ startAgainTimeout \/ PingTimeout
           \/ TftpTimeoutResend
    PROVE  TypeOK'
<1> USE DEF TypeOK, loopVars, arpVars, timerVars, tftpVars, againVars, histVars
<1>1. N \in Nat /\ WaitTicks \in Nat /\ RetryConfig \in Nat \ {0} /\ MaxBlocks \in Nat
    BY DeviceAssumption, RetryAssumption, TickAssumption
<1>2. CASE RxArpReply
    BY <1>2 DEF RxArpReply
<1>3. CASE RxPing
    BY <1>3 DEF RxPing
<1>4. ASSUME NEW last \in BOOLEAN, RxTftpBlock(last) PROVE TypeOK'
    BY <1>1, <1>4 DEF RxTftpBlock, SendUDP, WaitForArp, Handlers
<1>5. ASSUME NEW dt \in {0, 1}, RxDone(dt) PROVE TypeOK'
    <2>1. timeAge' \in 0..WaitTicks /\ arpAge' \in 0..WaitTicks
        BY <1>1, <1>5 DEF RxDone, Min
    <2> QED BY <1>5, <2>1 DEF RxDone
<1>6. CASE ArpNothing
    BY <1>6 DEF ArpNothing
<1>7. CASE ArpRetry
    BY <1>1, <1>7 DEF ArpRetry
<1>8. CASE TimerNothing
    BY <1>8 DEF TimerNothing
<1>9. CASE startAgainTimeout
    BY <1>9 DEF startAgainTimeout, Handlers
<1>10. CASE PingTimeout
    BY <1>10 DEF PingTimeout, Halted, Handlers
<1>11. CASE TftpTimeoutResend
    BY <1>1, <1>11 DEF TftpTimeoutResend, SendUDP, WaitForArp, Handlers
<1> QED BY <1>2, <1>3, <1>4, <1>5, <1>6, <1>7, <1>8, <1>9, <1>10, <1>11

(* The four callers of NetStartAgain. *)
LEMMA AgainType ==
    ASSUME TypeOK, NoMac \/ RxTftpError \/ ArpExceeded \/ TftpTimeoutExceeded
    PROVE  TypeOK'
<1> USE DEF loopVars, arpVars, tftpVars, histVars
<1>1. RetryConfig \in Nat \ {0}
    BY RetryAssumption
<1>2. timeHandler \in Handlers /\ "none" \in Handlers
    BY DEF TypeOK, Handlers
<1>3. CASE NoMac
    BY <1>2, <1>3, StartAgainType DEF NoMac, TypeOK
<1>4. CASE RxTftpError
    BY <1>2, <1>4, StartAgainType DEF RxTftpError, TypeOK
<1>5. CASE ArpExceeded
    BY <1>1, <1>2, <1>5, StartAgainType DEF ArpExceeded, TypeOK
<1>6. CASE TftpTimeoutExceeded
    BY <1>2, <1>6, StartAgainType DEF TftpTimeoutExceeded, TypeOK
<1> QED BY <1>3, <1>4, <1>5, <1>6

(* Every state of NetLoop is well-typed: the retry counter of ARP stays within
   CONFIG_NET_RETRY_COUNT and the current device is always one of the ring.  *)
THEOREM TypeCorrect == Spec => []TypeOK
<1>1. Init => TypeOK
    <2>1. N \in Nat /\ WaitTicks \in Nat /\ RetryConfig \in Nat /\ MaxBlocks \in Nat
        BY DeviceAssumption, RetryAssumption, TickAssumption
    <2>2. Init => /\ eth_current \in Devices /\ ethact \in 0..N /\ first_failed \in 0..N
                  /\ timeAge \in 0..WaitTicks /\ arpAge \in 0..WaitTicks
                  /\ NetArpWaitTry \in 0..RetryConfig /\ blocks \in 0..MaxBlocks
                  /\ NetTryCount \in Nat /\ TftpTimeoutCount \in Nat
        BY <2>1 DEF Init, Devices
    <2> QED BY <2>2, Zenon DEF Init, TypeOK, Handlers
<1>2. ASSUME TypeOK, [Next]_vars PROVE TypeOK'
    <2>1. CASE UNCHANGED vars
        BY <1>2, <2>1 DEF TypeOK, vars
    <2>2. CASE Next
        BY <1>2, <2>2, CommandType, PlainType, EventType, AgainType
        DEF Next, Command, Starting, Receiving, Polling, Timers, Switch
    <2> QED BY <1>2, <2>1, <2>2
<1> QED BY <1>1, <1>2, PTL DEF Spec

-----------------------------------------------------------------------------
(* One device at a time.                                                     *)

(* NetStartAgain halts the device before it moves on. Once it has given up nothing
   runs; as long as a device was usable, giving up is the only way it fails.  *)
LEMMA StartAgainActive ==
    ASSUME OnlyCurrentActive, NEW th, NetStartAgain(th)
    PROVE  /\ OnlyCurrentActive'
           /\ NetStartAgainGivesUp(th) => active' = {}
           /\ NetStartAgainGoesOn(th) /\ NetDevExists => NetState' \in {NetState, "RESTART"}
<1>1. Halted = {}
    BY DEF OnlyCurrentActive, Halted
<1>2. NetStartAgainGivesUp(th) => active' = {}
    BY <1>1 DEF NetStartAgainGivesUp
<1>3. NetStartAgainGoesOn(th) => active' \subseteq {eth_current'}
    <2>1. NetStartAgainGoesOn(th) =>
             \E init : eth_current' = init.cur /\ active' = Started(init, Halted)
        BY DEF NetStartAgainGoesOn
    <2> QED BY <1>1, <2>1 DEF Started
<1>4. NetStartAgainGoesOn(th) /\ NetDevExists => NetState' \in {NetState, "RESTART"}
    BY DEF NetStartAgainGoesOn
<1> QED BY <1>2, <1>3, <1>4 DEF NetStartAgain, OnlyCurrentActive

(* A command begins with a halted device and starts at most one. *)
LEMMA CommandActive ==
    ASSUME OnlyCurrentActive, NEW p, NetLoopCommand(p)
    PROVE  OnlyCurrentActive' /\ (pc' = "prompt" => active' = {})
<1>1. Halted = {}
    BY DEF OnlyCurrentActive, Halted
<1>2. PICK good \in InitOutcomes :
         LET init == EthInit(IF ethact \in Devices THEN ethact ELSE eth_current,
                             first_failed, good)
         IN /\ eth_current' = init.cur
            /\ active' = Started(init, Halted) \ (IF init.ok THEN {} ELSE {init.cur})
            /\ pc' = IF init.ok THEN "start" ELSE "prompt"
    BY DEF NetLoopCommand
<1> DEFINE init == EthInit(IF ethact \in Devices THEN ethact ELSE eth_current,
                           first_failed, good)
<1>3. /\ eth_current' = init.cur
      /\ active' = Started(init, Halted) \ (IF init.ok THEN {} ELSE {init.cur})
      /\ pc' = IF init.ok THEN "start" ELSE "prompt"
    BY <1>2
<1> HIDE DEF init
<1> QED BY <1>1, <1>3 DEF Started, OnlyCurrentActive

(* The steps that neither halt nor start a device. *)
Quiet ==
    \/ (\E d \in {0} \cup Devices : SetEthact(d))
    \/ (\E v \in NetretryValues : SetNetretry(v)) \/ Begin
    \/ RxArpReply \/ RxPing \/ (\E last \in BOOLEAN : RxTftpBlock(last))
    \/ (\E dt \in {0, 1} : RxDone(dt))
    \/ ArpNothing \/ ArpRetry \/ TimerNothing \/ startAgainTimeout \/ TftpTimeoutResend
    \/ LoopAgain \/ LoopRestart \/ LoopFail

(* Their effect on the devices. *)
LEMMA QuietActive ==
    ASSUME Quiet
    PROVE  UNCHANGED <<active, eth_current>>
BY DEF Quiet, SetEthact, SetNetretry, Begin, RxArpReply, RxPing, RxTftpBlock, RxDone, ArpNothing, ArpRetry,
       TimerNothing, startAgainTimeout, TftpTimeoutResend, LoopAgain, LoopRestart, LoopFail,
       againVars

(* The steps that halt the current device and leave it current. *)
Halting == Unconfigured \/ Abort \/ PingTimeout \/ LoopSuccess

(* After them nothing runs. *)
LEMMA HaltingActive ==
    ASSUME OnlyCurrentActive, Halting
    PROVE  active' = {} /\ eth_current' = eth_current
<1>1. Halted = {}
    BY DEF OnlyCurrentActive, Halted
<1> QED
    BY <1>1 DEF Halting, Unconfigured, Abort, PingTimeout, LoopSuccess

(* The callers of NetStartAgain. *)
Again == NoMac \/ RxTftpError \/ ArpExceeded \/ TftpTimeoutExceeded

(* They do call it. *)
LEMMA AgainSteps ==
    ASSUME Again
    PROVE  \E th : NetStartAgain(th)
BY DEF Again, NoMac, RxTftpError, ArpExceeded, TftpTimeoutExceeded

(* These are all the steps. *)
LEMMA NextSplit ==
    Next => (\E p \in Protocols : NetLoopCommand(p)) \/ Quiet \/ Halting \/ Again
BY DEF Next, Command, Starting, Receiving, Polling, Timers, Switch, Quiet, Halting, Again

(* OnlyCurrentActive for any number of devices, whichever of them fail to start:
   eth_halt always precedes a change of eth_current.                         *)
THEOREM OneDevice == Spec => []OnlyCurrentActive
<1>1. Init => OnlyCurrentActive
    BY DEF Init, OnlyCurrentActive
<1>2. ASSUME OnlyCurrentActive, [Next]_vars PROVE OnlyCurrentActive'
    <2>1. CASE UNCHANGED vars
        BY <1>2, <2>1 DEF vars, OnlyCurrentActive
    <2>2. ASSUME NEW p \in Protocols, NetLoopCommand(p) PROVE OnlyCurrentActive'
        BY <1>2, <2>2, CommandActive
    <2>3. CASE Quiet
        BY <1>2, <2>3, QuietActive DEF OnlyCurrentActive
    <2>4. CASE Halting
        BY <1>2, <2>4, HaltingActive DEF OnlyCurrentActive
    <2>5. CASE Again
        BY <1>2, <2>5, AgainSteps, StartAgainActive
    <2> QED BY <1>2, <2>1, <2>2, <2>3, <2>4, <2>5, NextSplit
<1> QED BY <1>1, <1>2, PTL DEF Spec

-----------------------------------------------------------------------------
(* Nothing runs at the prompt, once a device that has an address was found. The
   switch returns on NETLOOP_FAIL without eth_halt, so whoever sets it must have
   halted the device, and nobody may start a device after that: a second call of
   NetStartAgain in the same round finds the tries still used up.            *)

GivenUp == ~RetryForever /\ NetTryCount >= Retrycnt

HaltInv ==
    /\ TypeOK
    /\ OnlyCurrentActive
    /\ HaltedAtPrompt
    /\ pc = "start" => NetState = "CONTINUE"
    /\ NetDevExists /\ pc \in {"rx", "arp", "timer", "switch"} /\ NetState = "FAIL" => active = {}
    /\ NetDevExists /\ pc \in {"rx", "arp", "timer"} /\ NetState = "FAIL" => GivenUp

(* HaltInv of a step that calls NetStartAgain. *)
LEMMA AgainHalts ==
    ASSUME HaltInv, NEW th, NetStartAgain(th),
           pc \in {"start", "rx", "arp", "timer"}, pc' \in {"rx", "timer", "switch"},
           UNCHANGED <<NetDevExists, netretry>>, TypeOK'
    PROVE  HaltInv'
<1>1. OnlyCurrentActive'
    BY StartAgainActive DEF HaltInv
<1>2. NetDevExists /\ NetState' = "FAIL" => active' = {} /\ GivenUp'
    <2>1. CASE NetStartAgainGivesUp(th)
        BY <2>1, StartAgainActive
        DEF HaltInv, NetStartAgainGivesUp, GivenUp, RetryForever, Retrycnt
    <2>2. CASE NetStartAgainGoesOn(th) /\ NetDevExists
        <3>1. ~GivenUp
            BY <2>2, RetryAssumption
            DEF NetStartAgainGoesOn, GivenUp, HaltInv, TypeOK, Retrycnt
        <3>2. NetState # "FAIL"
            BY <2>2, <3>1 DEF HaltInv
        <3>3. NetState' \in {NetState, "RESTART"}
            BY <2>2, StartAgainActive DEF HaltInv
        <3> QED BY <3>2, <3>3
    <2> QED BY <2>1, <2>2 DEF NetStartAgain
<1> QED BY <1>1, <1>2 DEF HaltInv, HaltedAtPrompt

(* HaltInv of the steps that leave the devices alone. *)
LEMMA QuietHalts ==
    ASSUME HaltInv, Quiet, TypeOK'
    PROVE  HaltInv'
<1>1. active' = active /\ eth_current' = eth_current
    BY QuietActive
<1>2. OnlyCurrentActive'
    BY <1>1 DEF HaltInv, OnlyCurrentActive
<1> USE DEF HaltInv, HaltedAtPrompt, GivenUp, RetryForever, Retrycnt, loopVars, againVars
<1>3. ASSUME NEW d \in {0} \cup Devices, SetEthact(d) PROVE HaltInv'
    BY <1>1, <1>2, <1>3 DEF SetEthact
<1>17. ASSUME NEW v \in NetretryValues, SetNetretry(v) PROVE HaltInv'
    BY <1>1, <1>2, <1>17 DEF SetNetretry
<1>4. CASE Begin
    BY <1>1, <1>2, <1>4 DEF Begin
<1>5. CASE RxArpReply
    BY <1>1, <1>2, <1>5 DEF RxArpReply
<1>6. CASE RxPing
    BY <1>1, <1>2, <1>6 DEF RxPing
<1>7. ASSUME NEW last \in BOOLEAN, RxTftpBlock(last) PROVE HaltInv'
    BY <1>1, <1>2, <1>7 DEF RxTftpBlock
<1>8. ASSUME NEW dt \in {0, 1}, RxDone(dt) PROVE HaltInv'
    BY <1>1, <1>2, <1>8 DEF RxDone
<1>9. CASE ArpNothing
    BY <1>1, <1>2, <1>9 DEF ArpNothing
<1>10. CASE ArpRetry
    BY <1>1, <1>2, <1>10 DEF ArpRetry
<1>11. CASE TimerNothing
    BY <1>1, <1>2, <1>11 DEF TimerNothing
<1>12. CASE startAgainTimeout
    BY <1>1, <1>2, <1>12 DEF startAgainTimeout
<1>13. CASE TftpTimeoutResend
    BY <1>1, <1>2, <1>13 DEF TftpTimeoutResend
<1>14. CASE LoopAgain
    BY <1>1, <1>2, <1>14 DEF LoopAgain
<1>15. CASE LoopRestart
    BY <1>1, <1>2, <1>15 DEF LoopRestart
<1>16. CASE LoopFail
    BY <1>1, <1>2, <1>16 DEF LoopFail, Return
<1> QED
    BY <1>3, <1>4, <1>5, <1>6, <1>7, <1>8, <1>9, <1>10, <1>11, <1>12, <1>13, <1>14, <1>15,
       <1>16, <1>17 DEF Quiet

(* HaltedAtPrompt for any number of devices, whichever of them have an address,
   whichever fail to start and whatever "netretry" and "ethrotate" say.      *)
THEOREM PromptHalted == Spec => []HaltedAtPrompt
<1>1. Init /\ TypeOK => HaltInv
    BY DEF Init, HaltInv, OnlyCurrentActive, HaltedAtPrompt
<1>2. ASSUME HaltInv, TypeOK', [Next]_vars PROVE HaltInv'
    <2>1. CASE UNCHANGED vars
        BY <1>2, <2>1
        DEF vars, HaltInv, OnlyCurrentActive, HaltedAtPrompt, GivenUp, RetryForever, Retrycnt
    <2>2. ASSUME NEW p \in Protocols, NetLoopCommand(p) PROVE HaltInv'
        <3>1. NetState' = "CONTINUE" /\ pc' \in {"start", "prompt"}
            BY <2>2 DEF NetLoopCommand
        <3>2. OnlyCurrentActive' /\ (pc' = "prompt" => active' = {})
            BY <1>2, <2>2, CommandActive DEF HaltInv
        <3> QED BY <1>2, <3>1, <3>2 DEF HaltInv, HaltedAtPrompt
    <2>3. CASE Quiet
        BY <1>2, <2>3, QuietHalts
    <2>4. CASE Halting
        <3>1. active' = {} /\ eth_current' = eth_current
            BY <1>2, <2>4, HaltingActive DEF HaltInv
        <3>2. pc' \in {"prompt", "switch"}
            BY <2>4 DEF Halting, Unconfigured, Abort, PingTimeout, LoopSuccess, Return
        <3> QED
            BY <1>2, <3>1, <3>2 DEF HaltInv, OnlyCurrentActive, HaltedAtPrompt
    <2>5. CASE Again
        BY <1>2, <2>5, AgainHalts
        DEF Again, NoMac, RxTftpError, ArpExceeded, TftpTimeoutExceeded, loopVars
    <2> QED BY <1>2, <2>1, <2>2, <2>3, <2>4, <2>5, NextSplit
<1>3. HaltInv => HaltedAtPrompt
    BY DEF HaltInv
<1> QED BY <1>1, <1>2, <1>3, TypeCorrect, PTL DEF Spec

-----------------------------------------------------------------------------
(* The handlers. Begin sets both, NetStartAgain only ever puts its own wait in
   their place, and a new command clears NetDevExists before it can return.  *)

HandlerInv ==
    NetDevExists => /\ packetHandler \in {protocol, "startAgain"}
                    /\ timeHandler \in {protocol, "startAgain", "none"}

(* NetStartAgain keeps or replaces them. *)
LEMMA AgainHandlers ==
    ASSUME NEW th, NetStartAgain(th)
    PROVE  /\ packetHandler' \in {packetHandler, "startAgain"}
           /\ timeHandler' \in {th, "startAgain"}
BY DEF NetStartAgain, NetStartAgainGivesUp, NetStartAgainGoesOn, SetHandlers

(* OwnHandlers for every configuration: no packet or timeout of a command that has
   begun reaches the protocol of an earlier one.                             *)
THEOREM HandlersOwned == Spec => []OwnHandlers
<1>1. Init => HandlerInv
    BY DEF Init, HandlerInv
<1>2. ASSUME HandlerInv, TypeOK, [Next]_vars PROVE HandlerInv'
    <2> USE DEF HandlerInv, loopVars, againVars, timerVars
    <2>1. CASE UNCHANGED vars
        BY <1>2, <2>1 DEF vars
    <2>2. ASSUME NEW p \in Protocols, NetLoopCommand(p) PROVE HandlerInv'
        BY <2>2 DEF NetLoopCommand
    <2>3. CASE Begin
        BY <2>3 DEF Begin, SetHandlers
    <2>4. CASE \/ \E d \in {0} \cup Devices : SetEthact(d)
               \/ \E v \in NetretryValues : SetNetretry(v)
               \/ Unconfigured \/ Abort
        BY <1>2, <2>4 DEF SetEthact, SetNetretry, Unconfigured, Abort
    <2>5. CASE RxArpReply \/ RxPing \/ (\E dt \in {0, 1} : RxDone(dt))
        BY <1>2, <2>5 DEF RxArpReply, RxPing, RxDone
    <2>6. ASSUME NEW last \in BOOLEAN, RxTftpBlock(last) PROVE HandlerInv'
        BY <1>2, <2>6 DEF RxTftpBlock, TypeOK
    <2>7. CASE ArpNothing \/ ArpRetry \/ TimerNothing
        BY <1>2, <2>7 DEF ArpNothing, ArpRetry, TimerNothing
    <2>8. CASE startAgainTimeout \/ PingTimeout \/ TftpTimeoutResend
        BY <1>2, <2>8 DEF startAgainTimeout, PingTimeout, TftpTimeoutResend
    <2>9. CASE LoopAgain \/ LoopRestart \/ LoopSuccess \/ LoopFail
        BY <1>2, <2>9 DEF LoopAgain, LoopRestart, LoopSuccess, LoopFail
    <2>10. CASE Again
        BY <1>2, <2>10, AgainHandlers
        DEF Again, NoMac, RxTftpError, ArpExceeded, TftpTimeoutExceeded
    <2> QED
        BY <1>2, <2>1, <2>2, <2>3, <2>4, <2>5, <2>6, <2>7, <2>8, <2>9, <2>10
        DEF Next, Command, Starting, Receiving, Polling, Timers, Switch, Again
<1>3. HandlerInv => OwnHandlers
    BY DEF HandlerInv, OwnHandlers
<1> QED BY <1>1, <1>2, <1>3, TypeCorrect, PTL DEF Spec

=============================================================================
