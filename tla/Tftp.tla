-------------------------------- MODULE Tftp --------------------------------
(***************************************************************************)
(* The TFTP client (net/tftp.c) that loads a file into memory, run by      *)
(* NetLoop (net/net.c) on one Ethernet device, against a lock-step server  *)
(* over a network that may delay, reorder, lose and duplicate packets.     *)
(*                                                                         *)
(* The file is the bytes 0..FileLen-1; a memory cell holds i + 1 when it   *)
(* holds byte i of the file, and 0 when it has not been written.           *)
(***************************************************************************)
EXTENDS Integers, FiniteSets

CONSTANTS
    FileLen,        \* length of the file on the server
    DefaultBlk,     \* TFTP_BLOCK_SIZE
    OptionBlk,      \* the block size that the server grants
    SeqSize,        \* TFTP_SEQUENCE_SIZE
    UlongSize,      \* 2^32, the offsets that an unsigned long can hold
    MemSize,        \* bound: cells of memory that are tracked
    OurPorts,       \* the ports that TftpStart can choose
    ServerPorts,    \* the ports that the server can use for a session
    WellKnown,      \* WELL_KNOWN_PORT
    Options,        \* whether the server may answer with an OACK, with DATA
    RetryCount,     \* the number in "netretry"
    TimeoutCount,   \* TIMEOUT_COUNT
    FreshPorts,     \* TftpStart does not choose a port twice
    Keep,           \* {FALSE}: a packet is delivered at most once
    OutliveWrap     \* copies of a block are still in flight after a wrap-around

ASSUME SizeAssumption ==
    /\ FileLen \in Nat /\ MemSize \in Nat /\ FileLen <= MemSize
    /\ DefaultBlk \in Nat \ {0} /\ OptionBlk \in Nat \ {0}
    /\ SeqSize \in Nat \ {0, 1} /\ UlongSize \in Nat \ {0}
ASSUME PortAssumption ==
    /\ WellKnown \notin ServerPorts
    /\ OurPorts \cap (ServerPorts \cup {WellKnown}) = {}
ASSUME BoundAssumption ==
    /\ RetryCount \in Nat /\ TimeoutCount \in Nat
    /\ Options \subseteq BOOLEAN /\ Keep \subseteq BOOLEAN
    /\ FreshPorts \in BOOLEAN /\ OutliveWrap \in BOOLEAN

VARIABLES
    TftpState,             \* "RRQ", "OACK" or "DATA"
    TftpServerPort,
    TftpOurPort,
    TftpBlock,
    TftpLastBlock,
    TftpBlockWrapOffset,
    TftpBlkSize,
    TftpTimeoutCount,
    NetBootFileXferSize,
    mem,                   \* the memory at load_addr
    NetState,              \* "CONTINUE", "RESTART", "SUCCESS", "FAIL"
    NetTryCount,
    handler,               \* packetHandler and timeHandler: "tftp" or "startAgain"
    ticked,                \* NetLoop is between its timeout check and its switch
    result,                \* "idle", "running", or how NetLoop returned
    usedPorts,             \* history: the ports chosen so far
    net,                   \* the packets in flight
    srv                    \* srv[p]: the server's session on port p

clientVars == <<TftpState, TftpServerPort, TftpOurPort, TftpBlock, TftpLastBlock,
                TftpBlockWrapOffset, TftpBlkSize, TftpTimeoutCount>>
loopVars   == <<NetState, NetTryCount, handler, ticked, result>>
fileVars   == <<NetBootFileXferSize, mem>>
vars == <<TftpState, TftpServerPort, TftpOurPort, TftpBlock, TftpLastBlock,
          TftpBlockWrapOffset, TftpBlkSize, TftpTimeoutCount, NetBootFileXferSize, mem,
          NetState, NetTryCount, handler, ticked, result, usedPorts, net, srv>>

Ports == OurPorts \cup ServerPorts \cup {WellKnown}

Msg(t, src, dst, num, off, len) ==
    [type |-> t, src |-> src, dst |-> dst, num |-> num, off |-> off, len |-> len]

Messages == [type : {"RRQ", "OACK", "DATA", "ACK", "ERROR"}, src : Ports, dst : Ports,
             num : 0..(SeqSize - 1), off : Nat, len : Nat]

-----------------------------------------------------------------------------
(* The server, a lock-step RFC 1350 one, and the network.                    *)

NoSession == [client |-> WellKnown, blk |-> DefaultBlk, sent |-> 0]

NumBlocks(blk) == FileLen \div blk + 1

(* Block n of the file as sent from port p to client c; the OACK is block 0 of
   a session with options.                                                   *)
DataMsg(p, c, blk, n) ==
    LET off == (n - 1) * blk
    IN Msg("DATA", p, c, n % SeqSize, off, IF FileLen - off < blk THEN FileLen - off ELSE blk)

Answer(p, s) == IF s.sent = 0 THEN Msg("OACK", p, s.client, 0, 0, s.blk)
                              ELSE DataMsg(p, s.client, s.blk, s.sent)

(* The packets in flight after m has been delivered. One that is kept comes again,
   as a copy that the network made or the server sent; one that never comes is lost. *)
After(m) == {IF k THEN net ELSE net \ {m} : k \in Keep}

(* Those of flight that are left when port p sends block n of its file.  Without
   OutliveWrap, from the block on with which the numbers begin anew, no earlier
   block of the session is left, its predecessor included: the client would take
   a copy of any of them for a block of the new round.                       *)
StillInFlight(flight, p, n) ==
    IF OutliveWrap \/ n < SeqSize THEN flight ELSE {m \in flight : m.src # p}

SrvRequest(p, opt) ==
    /\ srv[p] = NoSession
    /\ \E m \in net :
         /\ m.type = "RRQ"
         /\ srv' = [srv EXCEPT ![p] =
                       [client |-> m.src,
                        blk    |-> IF opt THEN OptionBlk ELSE DefaultBlk,
                        sent   |-> IF opt THEN 0 ELSE 1]]
         /\ \E rest \in After(m) : net' = rest \cup {Answer(p, srv'[p])}
    /\ UNCHANGED <<clientVars, loopVars, fileVars, usedPorts>>

SrvRefuse(p) ==
    /\ srv[p] = NoSession
    /\ \E m \in net :
         /\ m.type = "RRQ"
         /\ \E rest \in After(m) : net' = rest \cup {Msg("ERROR", p, m.src, 0, 0, 0)}
    /\ UNCHANGED <<clientVars, loopVars, fileVars, usedPorts, srv>>

SrvAck(p) ==
    /\ srv[p] # NoSession
    /\ srv[p].sent < NumBlocks(srv[p].blk)
    /\ \E m \in net :
         /\ m.type = "ACK" /\ m.dst = p /\ m.src = srv[p].client
         /\ m.num = srv[p].sent % SeqSize
         /\ srv' = [srv EXCEPT ![p].sent = srv[p].sent + 1]
         /\ \E rest \in After(m) :
              net' = StillInFlight(rest, p, srv[p].sent + 1) \cup {Answer(p, srv'[p])}
    /\ UNCHANGED <<clientVars, loopVars, fileVars, usedPorts>>

-----------------------------------------------------------------------------
(* What the client sends in its new state: TftpSend. NetStartAgain has halted the
   device when it gives up, and nothing leaves it then.                      *)

TftpPacket(state, port, our, block) ==
    IF state = "RRQ" THEN Msg("RRQ", our, port, 0, 0, 0)
                     ELSE Msg("ACK", our, port, block % SeqSize, 0, 0)

Sent(m) == IF NetState = "FAIL" THEN {} ELSE {m}

NetStartAgainSameHandler ==
    IF NetTryCount >= RetryCount
    THEN NetState' = "FAIL" /\ UNCHANGED <<NetTryCount, handler>>
    ELSE NetTryCount' = NetTryCount + 1 /\ UNCHANGED <<NetState, handler>>

NetStartAgainUncounted ==
    IF NetTryCount >= RetryCount
    THEN NetState' = "FAIL" /\ UNCHANGED <<NetTryCount, handler>>
    ELSE handler' = "startAgain" /\ UNCHANGED <<NetState, NetTryCount>>

(* NetStartAgain with one device: try again in ten seconds, ignoring packets
   until then, unless the tries are used up.                                 *)
NetStartAgain ==
    IF NetTryCount >= RetryCount
    THEN NetState' = "FAIL" /\ UNCHANGED <<NetTryCount, handler>>
    ELSE NetTryCount' = NetTryCount + 1 /\ handler' = "startAgain" /\ UNCHANGED NetState

(* TftpStart, after which NetLoop clears NetBootFileXferSize. *)
TftpStart ==
    /\ \E port \in OurPorts :
         /\ FreshPorts => port \notin usedPorts
         /\ TftpOurPort' = port
         /\ usedPorts' = usedPorts \cup {port}
    /\ TftpState' = "RRQ"
    /\ TftpServerPort' = WellKnown
    /\ TftpBlock' = 0
    /\ TftpBlkSize' = DefaultBlk
    /\ TftpTimeoutCount' = 0
    /\ NetBootFileXferSize' = 0
    /\ NetState' = "CONTINUE"
    /\ handler' = "tftp"
    /\ ticked' = FALSE
    /\ net' = net \cup {TftpPacket("RRQ", WellKnown, TftpOurPort', 0)}
    /\ UNCHANGED <<TftpLastBlock, TftpBlockWrapOffset, mem, srv>>

(* The command "tftpboot", the first or a later one, while there are ports for all
   its tries.                                                                *)
NetLoopTftp ==
    /\ result # "running"
    /\ FreshPorts => Cardinality(OurPorts \ usedPorts) >= RetryCount
    /\ result' = "running"
    /\ NetTryCount' = 1
    /\ TftpStart

(* NetLoop gets m from the device before it looks at its timers. *)
Receives(m) == result = "running" /\ ~ticked /\ m \in net

AcceptsAnyDest(m) == handler = "tftp" /\ (TftpState = "RRQ" \/ m.src = TftpServerPort)

(* Packets that TftpHandler looks at. *)
Accepts(m) ==
    /\ handler = "tftp"
    /\ m.dst = TftpOurPort
    /\ TftpState = "RRQ" \/ m.src = TftpServerPort

(* startAgainHandler, and the early returns of TftpHandler. *)
RxIgnored(m) ==
    /\ Receives(m)
    /\ m.dst \in OurPorts
    /\ ~Accepts(m)
    /\ net' \in After(m)
    /\ UNCHANGED <<clientVars, loopVars, fileVars, usedPorts, srv>>

RxOack(m) ==
    /\ Receives(m) /\ Accepts(m)
    /\ m.type = "OACK"
    /\ TftpState' = "OACK"
    /\ TftpServerPort' = m.src
    /\ TftpBlkSize' = m.len
    /\ \E rest \in After(m) :
         net' = rest \cup Sent(TftpPacket("OACK", m.src, TftpOurPort, TftpBlock))
    /\ UNCHANGED <<TftpOurPort, TftpBlock, TftpLastBlock, TftpBlockWrapOffset,
                   TftpTimeoutCount, loopVars, fileVars, usedPorts, srv>>

RxError(m) ==
    /\ Receives(m) /\ Accepts(m)
    /\ m.type = "ERROR"
    /\ NetStartAgain
    /\ net' \in After(m)
    /\ UNCHANGED <<clientVars, fileVars, ticked, result, usedPorts, srv>>

FirstBlock == TftpState \in {"RRQ", "OACK"}

WrapOffsetKept(m) == TftpBlockWrapOffset

(* A block 0 stands for a wrap-around of the sequence number. *)
WrapOffset(m) ==
    IF m.num = 0 THEN (TftpBlockWrapOffset + TftpBlkSize * SeqSize) % UlongSize
                 ELSE TftpBlockWrapOffset

(* "First block is not block 1": start again. *)
RxNotBlockOne(m) ==
    /\ Receives(m) /\ Accepts(m)
    /\ m.type = "DATA"
    /\ FirstBlock /\ m.num # 1
    /\ TftpBlock' = m.num
    /\ TftpState' = "DATA"
    /\ TftpServerPort' = m.src
    /\ TftpLastBlock' = 0
    /\ TftpBlockWrapOffset' = 0
    /\ NetStartAgain
    /\ net' \in After(m)
    /\ UNCHANGED <<TftpOurPort, TftpBlkSize, TftpTimeoutCount, fileVars, ticked, result,
                   usedPorts, srv>>

(* "Same block again; ignore it." *)
RxSameBlock(m) ==
    /\ Receives(m) /\ Accepts(m)
    /\ m.type = "DATA"
    /\ ~FirstBlock /\ m.num = TftpLastBlock
    /\ TftpBlock' = m.num
    /\ TftpBlockWrapOffset' = WrapOffset(m)
    /\ net' \in After(m)
    /\ UNCHANGED <<TftpState, TftpServerPort, TftpOurPort, TftpLastBlock, TftpBlkSize,
                   TftpTimeoutCount, loopVars, fileVars, usedPorts, srv>>

StoreOffsetByLast(block, wrap) == TftpLastBlock * TftpBlkSize + wrap

(* store_block(block - 1, ...) *)
StoreOffset(block, wrap) == (block - 1) * TftpBlkSize + wrap

(* store_block: copy len bytes of m to offset off. *)
StoreBlock(m, off) ==
    /\ mem' = [i \in DOMAIN mem |-> IF off <= i /\ i < off + m.len
                                    THEN m.off + (i - off) + 1 ELSE mem[i]]
    /\ NetBootFileXferSize' = IF NetBootFileXferSize < off + m.len
                              THEN off + m.len ELSE NetBootFileXferSize

(* Any other block is stored where its number says and acknowledged; a short
   one is the last.  The timer is set anew (NetSetTimeout), whichever block of
   the session it is: see Fairness.                                          *)
RxBlock(m) ==
    /\ Receives(m) /\ Accepts(m)
    /\ m.type = "DATA"
    /\ IF FirstBlock THEN m.num = 1 ELSE m.num # TftpLastBlock
    /\ TftpBlock' = m.num
    /\ TftpLastBlock' = m.num
    /\ TftpState' = "DATA"
    /\ TftpServerPort' = m.src
    /\ TftpBlockWrapOffset' = IF FirstBlock THEN 0 ELSE WrapOffset(m)
    /\ StoreBlock(m, StoreOffset(m.num, TftpBlockWrapOffset'))
    /\ \E rest \in After(m) :
         net' = rest \cup Sent(TftpPacket("DATA", m.src, TftpOurPort, m.num))
    /\ NetState' = IF m.len < TftpBlkSize THEN "SUCCESS" ELSE NetState
    /\ UNCHANGED <<TftpOurPort, TftpBlkSize, TftpTimeoutCount, NetTryCount, handler, ticked,
                   result, usedPorts, srv>>

(* TftpTimeout, called by NetLoop. *)
TftpTimeout ==
    /\ result = "running" /\ ~ticked /\ handler = "tftp"
    /\ ticked' = TRUE
    /\ TftpTimeoutCount' = TftpTimeoutCount + 1
    /\ IF TftpTimeoutCount + 1 > TimeoutCount
       THEN NetStartAgain /\ UNCHANGED net
       ELSE /\ net' = net \cup Sent(TftpPacket(TftpState, TftpServerPort, TftpOurPort, TftpBlock))
            /\ UNCHANGED <<NetState, NetTryCount, handler>>
    /\ UNCHANGED <<TftpState, TftpServerPort, TftpOurPort, TftpBlock, TftpLastBlock,
                   TftpBlockWrapOffset, TftpBlkSize, fileVars, result, usedPorts, srv>>

startAgainTimeout ==
    /\ result = "running" /\ ~ticked /\ handler = "startAgain"
    /\ ticked' = TRUE
    /\ NetState' = "RESTART"
    /\ UNCHANGED <<clientVars, fileVars, NetTryCount, handler, result, usedPorts, net, srv>>

(* The switch at the end of a round of NetLoop. *)
LoopAgain ==
    /\ result = "running" /\ ticked /\ NetState = "CONTINUE"
    /\ ticked' = FALSE
    /\ UNCHANGED <<clientVars, fileVars, NetState, NetTryCount, handler, result, usedPorts,
                   net, srv>>

LoopRestart ==
    /\ result = "running" /\ NetState = "RESTART"
    /\ TftpStart
    /\ UNCHANGED <<NetTryCount, result>>

LoopReturn ==
    /\ result = "running" /\ NetState \in {"SUCCESS", "FAIL"}
    /\ result' = NetState
    /\ UNCHANGED <<clientVars, fileVars, NetState, NetTryCount, handler, ticked, usedPorts,
                   net, srv>>

(* ctrl-c is looked for between the packets and the timers. *)
Abort ==
    /\ result = "running" /\ ~ticked
    /\ result' = "FAIL"
    /\ UNCHANGED <<clientVars, fileVars, NetState, NetTryCount, handler, ticked, usedPorts,
                   net, srv>>

-----------------------------------------------------------------------------

Init ==
    /\ TftpState = "RRQ"
    /\ TftpServerPort = WellKnown
    /\ TftpOurPort = WellKnown
    /\ TftpBlock = 0
    /\ TftpLastBlock = 0
    /\ TftpBlockWrapOffset = 0
    /\ TftpBlkSize = DefaultBlk
    /\ TftpTimeoutCount = 0
    /\ NetBootFileXferSize = 0
    /\ mem = [i \in 0..(MemSize - 1) |-> 0]
    /\ NetState = "CONTINUE"
    /\ NetTryCount = 1
    /\ handler = "tftp"
    /\ ticked = FALSE
    /\ result = "idle"
    /\ usedPorts = {}
    /\ net = {}
    /\ srv = [p \in ServerPorts |-> NoSession]

Client ==
    \/ NetLoopTftp
    \/ \E m \in net : RxIgnored(m) \/ RxOack(m) \/ RxError(m) \/ RxNotBlockOne(m)
                      \/ RxSameBlock(m) \/ RxBlock(m)
    \/ TftpTimeout \/ startAgainTimeout
    \/ LoopAgain \/ LoopRestart \/ LoopReturn \/ Abort

Server ==
    \/ \E p \in ServerPorts : \E opt \in Options : SrvRequest(p, opt)
    \/ \E p \in ServerPorts : SrvRefuse(p) \/ SrvAck(p)

Next == Client \/ Server

Spec == Init /\ [][Next]_vars

StoresBlock == \E m \in net : RxBlock(m)

(* NetLoop keeps running: its timers expire, and it acts on the state that its
   handlers leave behind.  Each block that is stored sets the timer of TftpTimeout
   anew, so either it expires or another block has come before.  Nothing is assumed
   of the server, and of the network only what a run adds.                   *)
Fairness ==
    /\ WF_vars(TftpTimeout \/ StoresBlock)
    /\ WF_vars(startAgainTimeout)
    /\ WF_vars(LoopAgain)
    /\ WF_vars(LoopRestart)
    /\ WF_vars(LoopReturn)

FairSpec == Spec /\ Fairness

(* The network does not repeat for ever blocks that the client takes for new ones. *)
FiniteCopies == <>[][~StoresBlock]_vars

FiniteSpec == FairSpec /\ FiniteCopies

-----------------------------------------------------------------------------

TypeOK ==
    /\ TftpState \in {"RRQ", "OACK", "DATA"}
    /\ TftpServerPort \in ServerPorts \cup {WellKnown}
    /\ TftpOurPort \in OurPorts \cup {WellKnown}
    /\ TftpBlock \in 0..(SeqSize - 1)
    /\ TftpLastBlock \in 0..(SeqSize - 1)
    /\ TftpBlockWrapOffset \in 0..(UlongSize - 1)
    /\ TftpBlkSize \in {DefaultBlk, OptionBlk}
    /\ TftpTimeoutCount \in 0..(TimeoutCount + 1)
    /\ NetBootFileXferSize \in Nat
    /\ mem \in [0..(MemSize - 1) -> 0..FileLen]
    /\ NetState \in {"CONTINUE", "RESTART", "SUCCESS", "FAIL"}
    /\ NetTryCount \in Nat
    /\ handler \in {"tftp", "startAgain"}
    /\ ticked \in BOOLEAN
    /\ result \in {"idle", "running", "SUCCESS", "FAIL"}
    /\ usedPorts \subseteq OurPorts
    /\ net \subseteq Messages
    /\ srv \in [ServerPorts -> [client : Ports, blk : {DefaultBlk, OptionBlk}, sent : Nat]]

(* tftp.c, "We received the whole thing": when the transfer is declared done, the
   memory holds the file and NetBootFileXferSize is its length, whatever the
   network did and however often the transfer was started again.             *)
FileIntact ==
    NetState = "SUCCESS" =>
        /\ NetBootFileXferSize = FileLen
        /\ \A i \in 0..(FileLen - 1) : mem[i] = i + 1

(* tftp.c, "Acknowledge the block just received": an acknowledgement that is on
   its way to a session stands for that block and all before it being in memory,
   although blocks may be overwritten by late copies and by other attempts.   *)
AckedStored ==
    \A m \in net : \A p \in ServerPorts :
        m.type = "ACK" /\ m.dst = p /\ m.src = srv[p].client =>
            \A i \in 0..(FileLen - 1) : i < m.num * srv[p].blk => mem[i] = i + 1

(* A transfer ends: NetLoop(TFTP) returns when "netretry" bounds the tries and the
   network repeats blocks only finitely often, since TftpTimeoutCount is not reset
   by progress and each try ends with it.                                     *)
Terminates == (result = "running") ~> (result # "running")

=============================================================================
