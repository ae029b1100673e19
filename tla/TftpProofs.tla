----------------------------- MODULE TftpProofs -----------------------------
(***************************************************************************)
(* Proofs about the TFTP client: its types for every file, block size,     *)
(* number of sequence numbers and network; and, where the blocks of the    *)
(* file can be told apart by their numbers and attempts by their ports,    *)
(* that what is acknowledged is in memory and that a load that succeeds is *)
(* the file.                                                               *)
(***************************************************************************)
EXTENDS Tftp, TLAPS

-----------------------------------------------------------------------------
(* The packets in flight, the sessions and the client's own.                 *)

DataOK(m) ==
    m.type = "DATA" =>
        /\ m.src \in ServerPorts /\ m.dst \in usedPorts /\ m.dst = srv[m.src].client
        /\ \E n \in 1..srv[m.src].sent : m = DataMsg(m.src, m.dst, srv[m.src].blk, n)

OackOK(m) ==
    m.type = "OACK" =>
        /\ m.src \in ServerPorts /\ m.dst \in usedPorts /\ m.dst = srv[m.src].client
        /\ m.len = srv[m.src].blk

AckOK(m) ==
    m.type = "ACK" => m.dst \in ServerPorts /\ m.src \in usedPorts /\ m.src = srv[m.dst].client

RrqOK(m) == m.type = "RRQ" => m.src \in usedPorts

(* Every packet of the server's belongs to the session on its port, and every
   acknowledgement is one of the client that opened the session. *)
NetInv == \A m \in net : DataOK(m) /\ OackOK(m) /\ AckOK(m) /\ RrqOK(m)

SessionInv ==
    \A p \in ServerPorts : /\ srv[p].sent <= NumBlocks(srv[p].blk)
                           /\ srv[p] = NoSession \/ srv[p].client \in usedPorts

(* The client that has heard from a server talks to its own session. *)
ClientInv ==
    /\ result = "running" => TftpOurPort \in usedPorts
    /\ TftpState # "RRQ" => /\ TftpServerPort \in ServerPorts /\ TftpOurPort \in usedPorts
                            /\ srv[TftpServerPort].client = TftpOurPort

(* The timeouts are used up at most once in an attempt. *)
CountInv ==
    TftpTimeoutCount > TimeoutCount =>
        handler = "startAgain" \/ (ticked /\ NetState # "CONTINUE")

TypeInv == TypeOK /\ NetInv /\ SessionInv /\ ClientInv /\ CountInv

-----------------------------------------------------------------------------
(* What is in memory.                                                         *)

(* A file that ends before the numbers begin anew, or with the block that does,
   when none of the blocks before is then still in flight. *)
OneRound(b) ==
    \/ NumBlocks(b) < SeqSize
    \/ NumBlocks(b) = SeqSize /\ ~OutliveWrap /\ b * SeqSize < UlongSize

(* The numbers tell the blocks of the file apart, the ports the attempts. *)
ToldApart == OneRound(DefaultBlk) /\ OneRound(OptionBlk) /\ FreshPorts

Stored(k) == \A i \in 0..(FileLen - 1) : i < k => mem[i] = i + 1

(* No byte is ever stored out of its place. *)
MemRight == \A i \in 0..(MemSize - 1) : mem[i] \in {0, i + 1}

(* The server has sent a block only after all before it were stored. *)
SentAfterStored == \A p \in ServerPorts : srv[p].sent >= 1 => Stored((srv[p].sent - 1) * srv[p].blk)

(* When the numbers begin anew, only the block that does is in flight. *)
OthersGone == \A m \in net : m.type = "DATA" /\ srv[m.src].sent >= SeqSize => m.num = 0

(* Before it hears from a server the client has the default block size, and has
   acknowledged no option. *)
Unheard ==
    TftpState = "RRQ" =>
        /\ TftpBlkSize = DefaultBlk /\ TftpBlock = 0
        /\ \A m \in net : m.type = "ACK" => m.src # TftpOurPort
        /\ \A p \in ServerPorts : srv[p].client = TftpOurPort =>
                                      srv[p].blk = DefaultBlk \/ srv[p].sent = 0

(* Then it has the session's, and what it would acknowledge is stored. *)
Heard ==
    /\ TftpState # "RRQ" => TftpBlkSize = srv[TftpServerPort].blk
    /\ TftpState = "DATA" =>
           /\ Stored(TftpLastBlock * TftpBlkSize)
           /\ TftpBlockWrapOffset = 0 \/ (TftpLastBlock = 0 /\ srv[TftpServerPort].sent = SeqSize)
    /\ TftpState # "RRQ" /\ handler = "tftp" /\ NetState # "FAIL" => Stored(TftpBlock * TftpBlkSize)

FileInv ==
    /\ MemRight /\ SentAfterStored /\ OthersGone /\ Unheard /\ Heard /\ AckedStored
    /\ NetBootFileXferSize <= FileLen /\ FileIntact

-----------------------------------------------------------------------------
(* Packets.                                                                   *)

LEMMA Sizes ==
    /\ FileLen \in Nat /\ MemSize \in Nat /\ FileLen <= MemSize
    /\ DefaultBlk \in Nat \ {0} /\ OptionBlk \in Nat \ {0}
    /\ SeqSize \in Nat \ {0, 1} /\ UlongSize \in Nat \ {0}
  BY SizeAssumption

LEMMA DivMod ==
    ASSUME NEW a \in Int, NEW w \in Nat \ {0}
    PROVE  a = w * (a \div w) + (a % w) /\ a % w \in 0..(w - 1) /\ a \div w \in Int
  OBVIOUS

(* A block of the file begins in it or at its end. *)
LEMMA BlockInFile ==
    ASSUME NEW b \in Nat \ {0}, NEW n \in 1..NumBlocks(b)
    PROVE  (n - 1) * b \in 0..FileLen /\ n \in Nat /\ NumBlocks(b) \in Int
  <1> DEFINE q == FileLen \div b
  <1>1. FileLen = b * q + (FileLen % b) /\ FileLen % b \in 0..(b - 1) /\ q \in Int /\ FileLen \in Nat
    <2>1. FileLen \in Nat /\ FileLen \in Int
      BY Sizes
    <2> QED BY <2>1, DivMod, Zenon
  <1>2. n - 1 \in 0..q
    BY <1>1 DEF NumBlocks
  <1> HIDE DEF q
  <1>3. (n - 1) * b <= q * b /\ (n - 1) * b \in Nat /\ q * b = b * q /\ q * b \in Int
    BY <1>1, <1>2
  <1>4. NumBlocks(b) \in Int
    BY <1>1 DEF NumBlocks, q
  <1> QED BY <1>1, <1>2, <1>3, <1>4

(* The fields of a packet, and its type. *)
LEMMA MsgFields ==
    ASSUME NEW t, NEW src, NEW dst, NEW num, NEW off, NEW len
    PROVE  LET m == Msg(t, src, dst, num, off, len)
           IN /\ m.type = t /\ m.src = src /\ m.dst = dst
              /\ m.num = num /\ m.off = off /\ m.len = len
  BY DEF Msg

LEMMA MsgType ==
    ASSUME NEW t \in {"RRQ", "OACK", "DATA", "ACK", "ERROR"}, NEW src \in Ports, NEW dst \in Ports,
           NEW num \in 0..(SeqSize - 1), NEW off \in Nat, NEW len \in Nat
    PROVE  Msg(t, src, dst, num, off, len) \in Messages
  BY DEF Msg, Messages

LEMMA DataFacts ==
    ASSUME NEW p \in Ports, NEW c \in Ports, NEW b \in Nat \ {0}, NEW n \in 1..NumBlocks(b),
           NEW m, m = DataMsg(p, c, b, n)
    PROVE  /\ m \in Messages /\ m.type = "DATA" /\ m.src = p /\ m.dst = c /\ m.num = n % SeqSize
           /\ m.off = (n - 1) * b /\ m.off \in Nat /\ m.len \in 0..b
           /\ m.off + m.len <= FileLen /\ (m.len < b => m.off + m.len = FileLen)
  <1> DEFINE o == (n - 1) * b
             l == IF FileLen - o < b THEN FileLen - o ELSE b
  <1>1. o \in 0..FileLen /\ n \in Nat /\ FileLen \in Nat
    BY BlockInFile, Sizes
  <1>2. n % SeqSize \in 0..(SeqSize - 1)
    BY <1>1, Sizes
  <1>3. m = Msg("DATA", p, c, n % SeqSize, o, l)
    BY DEF DataMsg
  <1> HIDE DEF o
  <1>4. l \in 0..b /\ l \in Nat /\ o + l <= FileLen /\ (l < b => o + l = FileLen)
    BY <1>1
  <1> HIDE DEF l
  <1>5. m.type = "DATA" /\ m.src = p /\ m.dst = c /\ m.num = n % SeqSize /\ m.off = o /\ m.len = l
    BY <1>3 DEF Msg
  <1>6. m \in Messages
    BY <1>1, <1>2, <1>3, <1>4, MsgType
  <1> QED BY <1>1, <1>4, <1>5, <1>6 DEF o

(* What the client sends. *)
LEMMA PacketFacts ==
    ASSUME NEW state, NEW port \in Ports, NEW our \in Ports, NEW block \in Nat,
           NEW m, m = TftpPacket(state, port, our, block)
    PROVE  /\ m \in Messages /\ m.type \in {"RRQ", "ACK"} /\ m.src = our /\ m.dst = port
           /\ (m.type = "ACK") <=> (state # "RRQ")
           /\ m.type = "ACK" => m.num = block % SeqSize
  <1>1. block % SeqSize \in 0..(SeqSize - 1) /\ 0 \in 0..(SeqSize - 1)
    BY Sizes
  <1>2. CASE state = "RRQ"
    BY <1>1, <1>2, MsgType DEF TftpPacket, Msg
  <1>3. CASE state # "RRQ"
    BY <1>1, <1>3, MsgType DEF TftpPacket, Msg
  <1> QED BY <1>2, <1>3

LEMMA AfterLess ==
    ASSUME NEW m, NEW rest \in After(m)
    PROVE  rest \subseteq net
  BY DEF After

LEMMA StillLess ==
    ASSUME NEW flight, NEW p, NEW n
    PROVE  StillInFlight(flight, p, n) \subseteq flight
  BY DEF StillInFlight

(* Packets that were in order stay in order while the sessions go on. *)
LEMMA OldPackets ==
    ASSUME TypeOK, NetInv, NEW m \in net, usedPorts \subseteq usedPorts',
           \A p \in ServerPorts : srv[p].client \in usedPorts =>
               /\ srv'[p].client = srv[p].client /\ srv'[p].blk = srv[p].blk
               /\ srv'[p].sent \in Nat /\ srv[p].sent <= srv'[p].sent
    PROVE  DataOK(m)' /\ OackOK(m)' /\ AckOK(m)' /\ RrqOK(m)'
  <1>1. DataOK(m) /\ OackOK(m) /\ AckOK(m) /\ RrqOK(m)
    BY DEF NetInv
  <1>2. CASE m.type = "DATA"
    <2>1. /\ m.src \in ServerPorts /\ m.dst \in usedPorts /\ m.dst = srv[m.src].client
      BY <1>1, <1>2 DEF DataOK
    <2>2. PICK n \in 1..srv[m.src].sent : m = DataMsg(m.src, m.dst, srv[m.src].blk, n)
      BY <1>1, <1>2 DEF DataOK
    <2>3. srv[m.src].sent \in Nat /\ srv'[m.src].sent \in Nat /\ srv[m.src].sent <= srv'[m.src].sent
      BY <2>1 DEF TypeOK
    <2>4. n \in 1..srv'[m.src].sent
      BY <2>3
    <2>5. srv'[m.src].blk = srv[m.src].blk /\ srv'[m.src].client = srv[m.src].client
      BY <2>1
    <2> QED BY <1>2, <2>1, <2>2, <2>4, <2>5 DEF DataOK, OackOK, AckOK, RrqOK
  <1>3. CASE m.type # "DATA"
    BY <1>1, <1>3 DEF DataOK, OackOK, AckOK, RrqOK
  <1> QED BY <1>2, <1>3

-----------------------------------------------------------------------------
(* Every step keeps the types and the order of the packets.                   *)

LEMMA PortTypes ==
    /\ ServerPorts \subseteq Ports /\ OurPorts \subseteq Ports /\ WellKnown \in Ports
    /\ WellKnown \notin OurPorts
  BY PortAssumption DEF Ports

(* A step in which packets are received and at most one is sent, and no session
   changes. *)
LEMMA ClientNet ==
    ASSUME TypeOK, NetInv, UNCHANGED srv, usedPorts \subseteq usedPorts', NEW new,
           net' \subseteq net \cup {new},
           new \in net' \ net => /\ new \in Messages /\ new.type \in {"RRQ", "ACK"}
                                 /\ AckOK(new)' /\ RrqOK(new)'
    PROVE  NetInv' /\ net' \subseteq Messages
  <1>1. \A m \in net : DataOK(m)' /\ OackOK(m)' /\ AckOK(m)' /\ RrqOK(m)'
    <2>1. \A p \in ServerPorts : srv[p].client \in usedPorts =>
               /\ srv'[p].client = srv[p].client /\ srv'[p].blk = srv[p].blk
               /\ srv'[p].sent \in Nat /\ srv[p].sent <= srv'[p].sent
      BY DEF TypeOK
    <2> QED BY <2>1, OldPackets
  <1>2. new \in net' \ net => DataOK(new)' /\ OackOK(new)'
    BY DEF DataOK, OackOK
  <1>3. ASSUME NEW m \in net' PROVE DataOK(m)' /\ OackOK(m)' /\ AckOK(m)' /\ RrqOK(m)'
    BY <1>1, <1>2
  <1>4. net' \subseteq Messages
    BY DEF TypeOK
  <1> QED BY <1>3, <1>4 DEF NetInv

(* The server's steps. *)
LEMMA SrvRequestType ==
    ASSUME TypeInv, NEW p \in ServerPorts, NEW opt \in BOOLEAN, SrvRequest(p, opt)
    PROVE  TypeInv'
  <1> USE DEF TypeInv
  <1> DEFINE b == IF opt THEN OptionBlk ELSE DefaultBlk
             n == IF opt THEN 0 ELSE 1
  <1>1. PICK m \in net : /\ m.type = "RRQ"
                         /\ srv' = [srv EXCEPT ![p] = [client |-> m.src, blk |-> b, sent |-> n]]
                         /\ \E rest \in After(m) : net' = rest \cup {Answer(p, srv'[p])}
    BY DEF SrvRequest
  <1>2. m.src \in usedPorts /\ usedPorts \subseteq OurPorts /\ m.src \in Ports /\ p \in Ports
    BY <1>1, PortTypes DEF NetInv, RrqOK, TypeOK
  <1>3. b \in {DefaultBlk, OptionBlk} /\ b \in Nat \ {0} /\ n \in 0..1
    BY Sizes
  <1>4. /\ srv'[p] = [client |-> m.src, blk |-> b, sent |-> n]
        /\ \A q \in ServerPorts : q # p => srv'[q] = srv[q]
    BY <1>1 DEF TypeOK
  <1>5. srv' \in [ServerPorts -> [client : Ports, blk : {DefaultBlk, OptionBlk}, sent : Nat]]
    BY <1>1, <1>2, <1>3 DEF TypeOK
  <1>6. /\ UNCHANGED <<clientVars, loopVars, fileVars>> /\ usedPorts' = usedPorts
    BY DEF SrvRequest
  <1>7. srv[p] = NoSession /\ srv[p].client \notin usedPorts
    BY PortTypes DEF SrvRequest, NoSession, TypeOK
  <1>8. NumBlocks(b) \in Int /\ n <= NumBlocks(b) /\ 1 \in 1..NumBlocks(b)
    <2>1. FileLen \in Int /\ FileLen \in Nat
      BY Sizes
    <2>2. FileLen = b * (FileLen \div b) + (FileLen % b) /\ FileLen % b \in 0..(b - 1)
          /\ FileLen \div b \in Int
      BY <1>3, <2>1, DivMod, Zenon
    <2> DEFINE q == FileLen \div b
    <2> HIDE DEF q, b
    <2>3. q >= 0
      <3>1. SUFFICES ASSUME q <= -1 PROVE FALSE
        BY <2>2 DEF q
      <3>2. b * q <= -b
        BY <1>3, <2>2, <3>1 DEF q
      <3> QED BY <1>3, <2>1, <2>2, <3>2 DEF q
    <2> QED BY <1>3, <2>2, <2>3 DEF q, NumBlocks
  <1>answer. PICK a : a = Answer(p, srv'[p])
    OBVIOUS
  <1>9. a \in Messages /\ DataOK(a)' /\ OackOK(a)' /\ AckOK(a)' /\ RrqOK(a)'
    <2>1. CASE opt
      <3>1. a = Msg("OACK", p, m.src, 0, 0, OptionBlk)
        BY <1>4, <1>answer, <2>1 DEF Answer
      <3>2. a \in Messages
        BY <1>2, <3>1, Sizes, MsgType
      <3>3. a.type = "OACK" /\ a.src = p /\ a.dst = m.src /\ a.len = OptionBlk
        BY <3>1 DEF Msg
      <3> QED BY <1>2, <1>4, <1>6, <2>1, <3>2, <3>3 DEF DataOK, OackOK, AckOK, RrqOK
    <2>2. CASE ~opt
      <3>1. a = DataMsg(p, m.src, DefaultBlk, 1)
        BY <1>4, <1>answer, <2>2 DEF Answer
      <3>2. DefaultBlk \in Nat \ {0} /\ 1 \in 1..NumBlocks(DefaultBlk)
        BY <1>8, <2>2, Sizes
      <3>3. a \in Messages /\ a.type = "DATA" /\ a.src = p /\ a.dst = m.src
        BY <1>2, <3>1, <3>2, DataFacts
      <3>4. srv'[p].sent = 1 /\ srv'[p].blk = DefaultBlk /\ srv'[p].client = m.src
        BY <1>4, <2>2
      <3>5. 1 \in 1..srv'[p].sent
        BY <3>4
      <3> QED BY <1>2, <1>6, <3>1, <3>3, <3>4, <3>5 DEF DataOK, OackOK, AckOK, RrqOK
    <2> QED BY <2>1, <2>2
  <1>10. NetInv' /\ net' \subseteq Messages
    <2>1. \A q \in ServerPorts : srv[q].client \in usedPorts =>
               /\ srv'[q].client = srv[q].client /\ srv'[q].blk = srv[q].blk
               /\ srv'[q].sent \in Nat /\ srv[q].sent <= srv'[q].sent
      BY <1>4, <1>7 DEF TypeOK
    <2>2. \A x \in net : DataOK(x)' /\ OackOK(x)' /\ AckOK(x)' /\ RrqOK(x)'
      BY <1>6, <2>1, OldPackets
    <2>3. net' \subseteq net \cup {a}
      BY <1>1, <1>answer, AfterLess
    <2>4. net' \subseteq Messages
      BY <1>9, <2>3 DEF TypeOK
    <2> QED BY <1>9, <2>2, <2>3, <2>4 DEF NetInv
  <1>11. TypeOK'
    BY <1>5, <1>6, <1>10 DEF TypeOK, clientVars, loopVars, fileVars
  <1>12. SessionInv'
    BY <1>2, <1>4, <1>6, <1>8 DEF SessionInv
  <1>13. ClientInv' /\ CountInv'
    <2>1. TftpState # "RRQ" => TftpServerPort # p
      BY <1>7 DEF ClientInv
    <2> QED BY <1>4, <1>6, <2>1 DEF ClientInv, CountInv, clientVars, loopVars
  <1> QED BY <1>10, <1>11, <1>12, <1>13

LEMMA SrvRefuseType ==
    ASSUME TypeInv, NEW p \in ServerPorts, SrvRefuse(p)
    PROVE  TypeInv'
  <1> USE DEF TypeInv
  <1>1. PICK m \in net : /\ m.type = "RRQ"
                         /\ \E rest \in After(m) : net' = rest \cup {Msg("ERROR", p, m.src, 0, 0, 0)}
    BY DEF SrvRefuse
  <1> DEFINE a == Msg("ERROR", p, m.src, 0, 0, 0)
  <1>2. UNCHANGED <<clientVars, loopVars, fileVars, usedPorts, srv>>
    BY DEF SrvRefuse
  <1>3. a \in Messages /\ a.type = "ERROR"
    <2>1. m.src \in Ports /\ p \in Ports
      BY PortTypes DEF TypeOK, Messages
    <2> QED BY <2>1, Sizes, MsgType DEF Msg
  <1>4. net' \subseteq net \cup {a}
    BY <1>1, AfterLess
  <1> HIDE DEF a
  <1>5. \A x \in net : DataOK(x)' /\ OackOK(x)' /\ AckOK(x)' /\ RrqOK(x)'
    BY <1>2 DEF NetInv, DataOK, OackOK, AckOK, RrqOK
  <1>6. NetInv' /\ net' \subseteq Messages
    BY <1>3, <1>4, <1>5 DEF NetInv, TypeOK, DataOK, OackOK, AckOK, RrqOK
  <1>7. TypeOK'
    BY <1>2, <1>6 DEF TypeOK, clientVars, loopVars, fileVars
  <1> QED BY <1>2, <1>6, <1>7 DEF SessionInv, ClientInv, CountInv, clientVars, loopVars

LEMMA SrvAckType ==
    ASSUME TypeInv, NEW p \in ServerPorts, SrvAck(p)
    PROVE  TypeInv'
  <1> USE DEF TypeInv
  <1>0. PICK b, n, c : b = srv[p].blk /\ n = srv[p].sent /\ c = srv[p].client
    OBVIOUS
  <1>1. PICK m \in net : /\ m.type = "ACK" /\ m.dst = p /\ m.src = c
                         /\ srv' = [srv EXCEPT ![p].sent = n + 1]
                         /\ \E rest \in After(m) :
                              net' = StillInFlight(rest, p, n + 1) \cup {Answer(p, srv'[p])}
    BY <1>0 DEF SrvAck
  <1>2. /\ b \in {DefaultBlk, OptionBlk} /\ b \in Nat \ {0} /\ n \in Nat /\ p \in Ports
        /\ c \in Ports
    BY <1>0, Sizes, PortTypes DEF TypeOK
  <1>3. c \in usedPorts
    BY <1>0, <1>1 DEF NetInv, AckOK
  <1>4. n < NumBlocks(b) /\ n + 1 \in 1..NumBlocks(b) /\ NumBlocks(b) \in Int
    <2>1. n < NumBlocks(b)
      BY <1>0 DEF SrvAck
    <2>2. NumBlocks(b) \in Int
      BY <1>2, Sizes DEF NumBlocks
    <2> QED BY <1>2, <2>1, <2>2
  <1>5. /\ srv'[p] = [client |-> c, blk |-> b, sent |-> n + 1]
        /\ \A q \in ServerPorts : q # p => srv'[q] = srv[q]
        /\ srv' \in [ServerPorts -> [client : Ports, blk : {DefaultBlk, OptionBlk}, sent : Nat]]
    BY <1>0, <1>1, <1>2 DEF TypeOK
  <1>6. UNCHANGED <<clientVars, loopVars, fileVars, usedPorts>>
    BY DEF SrvAck
  <1>answer. PICK a : a = Answer(p, srv'[p])
    OBVIOUS
  <1>7. a = DataMsg(p, c, b, n + 1)
    BY <1>2, <1>5, <1>answer DEF Answer
  <1>8. a \in Messages /\ a.type = "DATA" /\ a.src = p /\ a.dst = c
    BY <1>2, <1>4, <1>7, DataFacts
  <1>9. DataOK(a)' /\ OackOK(a)' /\ AckOK(a)' /\ RrqOK(a)'
    <2>1. n + 1 \in 1..srv'[p].sent
      BY <1>2, <1>5
    <2> QED BY <1>3, <1>5, <1>6, <1>7, <1>8, <2>1 DEF DataOK, OackOK, AckOK, RrqOK
  <1>10. NetInv' /\ net' \subseteq Messages
    <2>1. \A q \in ServerPorts : srv[q].client \in usedPorts =>
               /\ srv'[q].client = srv[q].client /\ srv'[q].blk = srv[q].blk
               /\ srv'[q].sent \in Nat /\ srv[q].sent <= srv'[q].sent
      BY SMTT(30), <1>0, <1>2, <1>5 DEF TypeOK
    <2>2. \A x \in net : DataOK(x)' /\ OackOK(x)' /\ AckOK(x)' /\ RrqOK(x)'
      BY <1>6, <2>1, OldPackets
    <2>3. net' \subseteq net \cup {a}
      BY <1>1, <1>answer, AfterLess, StillLess
    <2>4. net' \subseteq Messages
      BY <1>8, <2>3 DEF TypeOK
    <2> QED BY <1>9, <2>2, <2>3, <2>4 DEF NetInv
  <1>11. TypeOK'
    BY <1>5, <1>6, <1>10 DEF TypeOK, clientVars, loopVars, fileVars
  <1>12. SessionInv'
    BY <1>2, <1>3, <1>4, <1>5, <1>6 DEF SessionInv
  <1>13. ClientInv' /\ CountInv'
    BY <1>0, <1>5, <1>6 DEF ClientInv, CountInv, clientVars, loopVars
  <1> QED BY <1>10, <1>11, <1>12, <1>13

(* What a block in flight is. *)
LEMMA DataIn ==
    ASSUME TypeInv, NEW m \in net, m.type = "DATA"
    PROVE  /\ m.src \in ServerPorts /\ m.dst \in usedPorts /\ m.dst = srv[m.src].client
           /\ srv[m.src].blk \in {DefaultBlk, OptionBlk} /\ srv[m.src].blk \in Nat \ {0}
           /\ m.num \in 0..(SeqSize - 1) /\ m.num \in Nat /\ m.off \in Nat /\ m.len \in Nat
           /\ m.off + m.len <= FileLen /\ m.len <= srv[m.src].blk
           /\ m.len < srv[m.src].blk => m.off + m.len = FileLen
           /\ \E n \in 1..srv[m.src].sent : /\ m.num = n % SeqSize /\ m.off = (n - 1) * srv[m.src].blk
                                            /\ n \in 1..NumBlocks(srv[m.src].blk)
  <1> USE DEF TypeInv
  <1>1. m.src \in ServerPorts /\ m.dst \in usedPorts /\ m.dst = srv[m.src].client
    BY DEF NetInv, DataOK
  <1>2. PICK n \in 1..srv[m.src].sent : m = DataMsg(m.src, m.dst, srv[m.src].blk, n)
    BY DEF NetInv, DataOK
  <1>3. PICK p, c, b : p = m.src /\ c = m.dst /\ b = srv[m.src].blk
    OBVIOUS
  <1>4. p \in Ports /\ c \in Ports /\ b \in {DefaultBlk, OptionBlk} /\ b \in Nat \ {0}
    BY <1>1, <1>3, PortTypes, Sizes DEF TypeOK
  <1>5. n \in 1..NumBlocks(b)
    <2>1. srv[m.src].sent <= NumBlocks(b) /\ srv[m.src].sent \in Nat
      BY <1>1, <1>3 DEF SessionInv, TypeOK
    <2>2. NumBlocks(b) \in Int
      BY <1>4, Sizes DEF NumBlocks
    <2> QED BY <2>1, <2>2
  <1>6. m = DataMsg(p, c, b, n)
    BY <1>2, <1>3
  <1>7. /\ m \in Messages /\ m.num = n % SeqSize
        /\ m.off = (n - 1) * b /\ m.off \in Nat /\ m.len \in 0..b
        /\ m.off + m.len <= FileLen /\ (m.len < b => m.off + m.len = FileLen)
    BY <1>4, <1>5, <1>6, DataFacts
  <1>8. m.num \in 0..(SeqSize - 1) /\ m.num \in Nat
    BY <1>7, Sizes DEF Messages
  <1>9. m.len \in Nat /\ m.len <= b
    BY <1>4, <1>7
  <1> QED BY <1>1, <1>3, <1>4, <1>5, <1>7, <1>8, <1>9

(* The steps of the client: an attempt begins. *)
LEMMA StartType ==
    ASSUME TypeInv, TftpStart, NetTryCount' \in Nat, result' \in {"idle", "running", "SUCCESS", "FAIL"}
    PROVE  TypeInv'
  <1> USE DEF TypeInv
  <1>1. PICK port \in OurPorts : TftpOurPort' = port /\ usedPorts' = usedPorts \cup {port}
    BY DEF TftpStart
  <1>2. PICK new : new = TftpPacket("RRQ", WellKnown, port, 0)
    OBVIOUS
  <1>3. net' = net \cup {new} /\ UNCHANGED srv
    BY <1>1, <1>2 DEF TftpStart
  <1>4. new \in Messages /\ new.type = "RRQ" /\ new.src = port
    <2>1. port \in Ports /\ WellKnown \in Ports /\ 0 \in Nat
      BY PortTypes
    <2> QED BY <1>2, <2>1, PacketFacts
  <1>5. NetInv' /\ net' \subseteq Messages
    <2>1. AckOK(new)' /\ RrqOK(new)'
      BY <1>1, <1>4 DEF AckOK, RrqOK
    <2>2. usedPorts \subseteq usedPorts' /\ net' \subseteq net \cup {new} /\ new.type \in {"RRQ", "ACK"}
      BY <1>1, <1>3, <1>4
    <2> QED BY <1>3, <1>4, <2>1, <2>2, ClientNet
  <1>6. TypeOK'
    <2>1. 0 \in 0..(SeqSize - 1) /\ 0 \in 0..(TimeoutCount + 1)
      BY Sizes, BoundAssumption
    <2> QED BY <1>1, <1>3, <1>5, <2>1 DEF TypeOK, TftpStart
  <1>7. SessionInv'
    BY <1>1, <1>3 DEF SessionInv
  <1>8. ClientInv' /\ CountInv'
    BY <1>1, BoundAssumption DEF ClientInv, CountInv, TftpStart
  <1> QED BY <1>5, <1>6, <1>7, <1>8

LEMMA NetLoopTftpType ==
    ASSUME TypeInv, NetLoopTftp
    PROVE  TypeInv'
  BY StartType DEF NetLoopTftp

LEMMA LoopRestartType ==
    ASSUME TypeInv, LoopRestart
    PROVE  TypeInv'
  BY StartType DEF LoopRestart, TypeInv, TypeOK

(* A packet is taken and nothing of the client's, or its loop alone, changes. *)
LEMMA TakenType ==
    ASSUME TypeInv, NEW m, net' \in After(m), UNCHANGED <<usedPorts, srv>>
    PROVE  NetInv' /\ net' \subseteq Messages /\ SessionInv'
  <1> USE DEF TypeInv
  <1>1. net' \subseteq net
    BY AfterLess
  <1>2. NetInv'
    BY <1>1 DEF NetInv, DataOK, OackOK, AckOK, RrqOK
  <1> QED BY <1>1, <1>2 DEF TypeOK, SessionInv

LEMMA RxIgnoredType ==
    ASSUME TypeInv, NEW m \in net, RxIgnored(m)
    PROVE  TypeInv'
  <1>1. NetInv' /\ net' \subseteq Messages /\ SessionInv'
    BY TakenType DEF RxIgnored
  <1> QED BY <1>1 DEF TypeInv, RxIgnored, TypeOK, ClientInv, CountInv, clientVars, loopVars, fileVars

LEMMA StartAgainType ==
    ASSUME TypeOK, NetStartAgain
    PROVE  /\ NetState' \in {"CONTINUE", "RESTART", "SUCCESS", "FAIL"} /\ NetTryCount' \in Nat
           /\ handler' \in {"tftp", "startAgain"}
           /\ handler' = "startAgain" \/ (handler' = handler /\ NetState' = "FAIL")
  BY DEF NetStartAgain, TypeOK

LEMMA RxErrorType ==
    ASSUME TypeInv, NEW m \in net, RxError(m)
    PROVE  TypeInv'
  <1> USE DEF TypeInv
  <1>1. NetInv' /\ net' \subseteq Messages /\ SessionInv'
    BY TakenType DEF RxError
  <1>2. NetStartAgain /\ UNCHANGED <<clientVars, fileVars, ticked, result, usedPorts, srv>>
    BY DEF RxError
  <1>3. TypeOK'
    BY <1>1, <1>2, StartAgainType DEF TypeOK, clientVars, fileVars
  <1>4. ClientInv'
    BY <1>2 DEF ClientInv, clientVars
  <1>5. CountInv'
    BY <1>2, StartAgainType DEF CountInv, clientVars
  <1> QED BY <1>1, <1>3, <1>4, <1>5

LEMMA RxOackType ==
    ASSUME TypeInv, NEW m \in net, RxOack(m)
    PROVE  TypeInv'
  <1> USE DEF TypeInv
  <1>1. /\ m.src \in ServerPorts /\ m.dst \in usedPorts /\ m.dst = srv[m.src].client
        /\ m.len = srv[m.src].blk /\ m.len \in {DefaultBlk, OptionBlk} /\ m.dst = TftpOurPort
    BY DEF RxOack, Accepts, NetInv, OackOK, TypeOK
  <1>2. PICK new : new = TftpPacket("OACK", m.src, TftpOurPort, TftpBlock)
    OBVIOUS
  <1>3. net' \subseteq net \cup {new} /\ UNCHANGED <<srv, usedPorts>>
    BY <1>2, AfterLess DEF RxOack, Sent
  <1>4. new \in Messages /\ new.type = "ACK" /\ new.src = TftpOurPort /\ new.dst = m.src
    <2>1. m.src \in Ports /\ TftpOurPort \in Ports /\ TftpBlock \in Nat
      BY <1>1, Sizes, PortTypes DEF TypeOK
    <2> QED BY <1>2, <2>1, PacketFacts
  <1>5. NetInv' /\ net' \subseteq Messages
    <2>1. AckOK(new)' /\ RrqOK(new)'
      BY <1>1, <1>3, <1>4 DEF AckOK, RrqOK
    <2> QED BY <1>3, <1>4, <2>1, ClientNet
  <1>6. TypeOK'
    BY <1>1, <1>5 DEF RxOack, TypeOK, loopVars, fileVars
  <1>7. SessionInv'
    BY <1>3 DEF SessionInv
  <1>8. ClientInv' /\ CountInv'
    BY <1>1 DEF RxOack, ClientInv, CountInv, loopVars
  <1> QED BY <1>5, <1>6, <1>7, <1>8

LEMMA RxNotBlockOneType ==
    ASSUME TypeInv, NEW m \in net, RxNotBlockOne(m)
    PROVE  TypeInv'
  <1> USE DEF TypeInv
  <1>1. NetInv' /\ net' \subseteq Messages /\ SessionInv'
    BY TakenType DEF RxNotBlockOne
  <1>2. /\ m.src \in ServerPorts /\ m.dst \in usedPorts /\ m.dst = srv[m.src].client
        /\ m.num \in 0..(SeqSize - 1) /\ m.dst = TftpOurPort
    BY DataIn DEF RxNotBlockOne, Accepts
  <1>3. NetStartAgain
    BY DEF RxNotBlockOne
  <1>4. TypeOK'
    <2>1. 0 \in 0..(SeqSize - 1) /\ 0 \in 0..(UlongSize - 1)
      BY Sizes
    <2> QED BY <1>1, <1>2, <1>3, <2>1, StartAgainType DEF TypeOK, RxNotBlockOne, fileVars
  <1>5. ClientInv'
    BY <1>2 DEF ClientInv, RxNotBlockOne
  <1>6. CountInv'
    BY <1>3, StartAgainType DEF CountInv, RxNotBlockOne
  <1> QED BY <1>1, <1>4, <1>5, <1>6

LEMMA WrapType ==
    ASSUME TypeOK, NEW m
    PROVE  WrapOffset(m) \in 0..(UlongSize - 1)
  <1>1. TftpBlkSize \in Nat /\ SeqSize \in Nat /\ TftpBlockWrapOffset \in Nat
    BY Sizes DEF TypeOK
  <1>2. PICK k : k = TftpBlockWrapOffset + TftpBlkSize * SeqSize /\ k \in Int
    BY <1>1
  <1>3. k % UlongSize \in 0..(UlongSize - 1)
    BY <1>2, Sizes, DivMod, Zenon
  <1> QED BY <1>2, <1>3 DEF WrapOffset, TypeOK

LEMMA RxSameBlockType ==
    ASSUME TypeInv, NEW m \in net, RxSameBlock(m)
    PROVE  TypeInv'
  <1> USE DEF TypeInv
  <1>1. NetInv' /\ net' \subseteq Messages /\ SessionInv'
    BY TakenType DEF RxSameBlock
  <1>2. m.num \in 0..(SeqSize - 1)
    BY DataIn DEF RxSameBlock
  <1>3. TypeOK'
    BY <1>1, <1>2, WrapType DEF TypeOK, RxSameBlock, loopVars, fileVars
  <1> QED BY <1>1, <1>3 DEF ClientInv, CountInv, RxSameBlock, loopVars

(* What is copied is bytes of the file. *)
LEMMA StoreType ==
    ASSUME TypeInv, NEW m \in net, m.type = "DATA", NEW off \in Int, StoreBlock(m, off)
    PROVE  mem' \in [0..(MemSize - 1) -> 0..FileLen] /\ NetBootFileXferSize' \in Nat
  <1>1. m.off \in Nat /\ m.len \in Nat /\ m.off + m.len <= FileLen /\ FileLen \in Nat /\ MemSize \in Nat
    BY DataIn, Sizes
  <1>2. mem \in [0..(MemSize - 1) -> 0..FileLen] /\ NetBootFileXferSize \in Nat
    BY DEF TypeInv, TypeOK
  <1>3. ASSUME NEW i \in 0..(MemSize - 1), off <= i, i < off + m.len
        PROVE  m.off + (i - off) + 1 \in 0..FileLen
    BY <1>1, <1>3
  <1>4. mem' = [i \in 0..(MemSize - 1) |-> IF off <= i /\ i < off + m.len
                                           THEN m.off + (i - off) + 1 ELSE mem[i]]
    BY <1>2 DEF StoreBlock
  <1>5. mem' \in [0..(MemSize - 1) -> 0..FileLen]
    BY <1>2, <1>3, <1>4
  <1>6. NetBootFileXferSize' \in Nat
    BY <1>1, <1>2 DEF StoreBlock
  <1> QED BY <1>5, <1>6

LEMMA RxBlockType ==
    ASSUME TypeInv, NEW m \in net, RxBlock(m)
    PROVE  TypeInv'
  <1> USE DEF TypeInv
  <1>1. /\ m.src \in ServerPorts /\ m.dst \in usedPorts /\ m.dst = srv[m.src].client
        /\ m.num \in 0..(SeqSize - 1) /\ m.num \in Nat /\ m.dst = TftpOurPort /\ m.type = "DATA"
    BY DataIn DEF RxBlock, Accepts
  <1>2. TftpBlockWrapOffset' \in 0..(UlongSize - 1)
    BY WrapType, Sizes DEF RxBlock
  <1>3. PICK off : off = StoreOffset(m.num, TftpBlockWrapOffset')
    OBVIOUS
  <1>4. off \in Int
    BY <1>1, <1>2, <1>3, Sizes DEF StoreOffset, TypeOK
  <1>5. mem' \in [0..(MemSize - 1) -> 0..FileLen] /\ NetBootFileXferSize' \in Nat
    BY <1>1, <1>3, <1>4, StoreType DEF RxBlock
  <1>6. PICK new : new = TftpPacket("DATA", m.src, TftpOurPort, m.num)
    OBVIOUS
  <1>7. net' \subseteq net \cup {new} /\ UNCHANGED <<srv, usedPorts>>
    BY <1>6, AfterLess DEF RxBlock, Sent
  <1>8. new \in Messages /\ new.type = "ACK" /\ new.src = TftpOurPort /\ new.dst = m.src
    <2>1. m.src \in Ports /\ TftpOurPort \in Ports
      BY <1>1, PortTypes DEF TypeOK
    <2> QED BY <1>1, <1>6, <2>1, PacketFacts
  <1>9. NetInv' /\ net' \subseteq Messages
    <2>1. AckOK(new)' /\ RrqOK(new)'
      BY <1>1, <1>7, <1>8 DEF AckOK, RrqOK
    <2> QED BY <1>7, <1>8, <2>1, ClientNet
  <1>10. TypeOK'
    BY <1>1, <1>2, <1>5, <1>9 DEF RxBlock, TypeOK
  <1>11. SessionInv'
    BY <1>7 DEF SessionInv
  <1>12. ClientInv'
    BY <1>1 DEF RxBlock, ClientInv
  <1>13. CountInv'
    BY DEF RxBlock, CountInv, Receives, TypeOK
  <1> QED BY <1>9, <1>10, <1>11, <1>12, <1>13

LEMMA TftpTimeoutType ==
    ASSUME TypeInv, TftpTimeout
    PROVE  TypeInv'
  <1> USE DEF TypeInv
  <1>1. PICK new : new = TftpPacket(TftpState, TftpServerPort, TftpOurPort, TftpBlock)
    OBVIOUS
  <1>2. net' \subseteq net \cup {new} /\ UNCHANGED <<srv, usedPorts>>
    BY <1>1 DEF TftpTimeout, Sent
  <1>3. /\ new \in Messages /\ new.type \in {"RRQ", "ACK"} /\ new.src = TftpOurPort
        /\ new.dst = TftpServerPort /\ ((new.type = "ACK") <=> (TftpState # "RRQ"))
    <2>1. TftpServerPort \in Ports /\ TftpOurPort \in Ports /\ TftpBlock \in Nat
      BY Sizes, PortTypes DEF TypeOK
    <2> QED BY <1>1, <2>1, PacketFacts
  <1>4. NetInv' /\ net' \subseteq Messages
    <2>1. AckOK(new)' /\ RrqOK(new)'
      BY <1>2, <1>3 DEF AckOK, RrqOK, ClientInv, TftpTimeout
    <2> QED BY <1>2, <1>3, <2>1, ClientNet
  <1>5. TftpTimeoutCount \in 0..TimeoutCount /\ TftpTimeoutCount' = TftpTimeoutCount + 1
    BY BoundAssumption DEF TftpTimeout, CountInv, TypeOK
  <1>6. TftpTimeoutCount' \in 0..(TimeoutCount + 1)
    BY <1>5, BoundAssumption
  <1>7. \/ /\ TftpTimeoutCount + 1 > TimeoutCount /\ NetStartAgain
        \/ /\ ~(TftpTimeoutCount + 1 > TimeoutCount) /\ UNCHANGED <<NetState, NetTryCount, handler>>
    BY DEF TftpTimeout
  <1>8. TypeOK'
    BY <1>4, <1>6, <1>7, StartAgainType DEF TypeOK, TftpTimeout, fileVars
  <1>9. SessionInv' /\ ClientInv'
    BY <1>2 DEF SessionInv, ClientInv, TftpTimeout
  <1>10. CountInv'
    BY <1>5, <1>7, StartAgainType DEF CountInv, TftpTimeout
  <1> QED BY <1>4, <1>8, <1>9, <1>10

(* The steps that only the loop takes. *)
LEMMA LoopType ==
    ASSUME TypeInv, startAgainTimeout \/ LoopAgain \/ LoopReturn \/ Abort \/ UNCHANGED vars
    PROVE  TypeInv'
  <1> USE DEF TypeInv
  <1>1. UNCHANGED <<clientVars, fileVars, usedPorts, net, srv>>
    BY DEF startAgainTimeout, LoopAgain, LoopReturn, Abort, vars, clientVars, fileVars
  <1>2. NetInv' /\ SessionInv'
    BY <1>1 DEF NetInv, DataOK, OackOK, AckOK, RrqOK, SessionInv
  <1>3. /\ NetState' \in {"CONTINUE", "RESTART", "SUCCESS", "FAIL"} /\ NetTryCount' = NetTryCount
        /\ handler' = handler /\ ticked' \in BOOLEAN
        /\ result' \in {"idle", "running", "SUCCESS", "FAIL"}
    BY DEF startAgainTimeout, LoopAgain, LoopReturn, Abort, vars, TypeOK
  <1>4. TypeOK'
    BY <1>1, <1>3 DEF TypeOK, clientVars, fileVars
  <1>5. ClientInv'
    BY <1>1 DEF ClientInv, clientVars, startAgainTimeout, LoopAgain, LoopReturn, Abort, vars
  <1>6. CountInv'
    BY <1>1 DEF CountInv, clientVars, startAgainTimeout, LoopAgain, LoopReturn, Abort, vars
  <1> QED BY <1>2, <1>4, <1>5, <1>6

LEMMA InitType ==
    ASSUME Init
    PROVE  TypeInv
  <1>1. TypeOK
    <2>1. 0 \in 0..(SeqSize - 1) /\ 0 \in 0..(UlongSize - 1) /\ 0 \in 0..(TimeoutCount + 1)
          /\ 0 \in 0..FileLen
      BY Sizes, BoundAssumption
    <2>2. NoSession \in [client : Ports, blk : {DefaultBlk, OptionBlk}, sent : Nat]
      BY PortTypes DEF NoSession
    <2> QED BY <2>1, <2>2 DEF Init, TypeOK
  <1>2. \A p \in ServerPorts : srv[p] = NoSession
    BY DEF Init
  <1>3. 0 <= NumBlocks(DefaultBlk)
    <2>1. FileLen \in Nat /\ FileLen \in Int /\ DefaultBlk \in Nat \ {0}
      BY Sizes
    <2> QED BY <2>1 DEF NumBlocks
  <1>4. SessionInv
    BY <1>2, <1>3 DEF SessionInv, NoSession
  <1> QED BY <1>1, <1>4, BoundAssumption DEF Init, TypeInv, NetInv, ClientInv, CountInv

LEMMA StepType ==
    ASSUME TypeInv, [Next]_vars
    PROVE  TypeInv'
  <1>1. CASE Client
    BY <1>1, NetLoopTftpType, RxIgnoredType, RxOackType, RxErrorType, RxNotBlockOneType,
       RxSameBlockType, RxBlockType, TftpTimeoutType, LoopRestartType, LoopType DEF Client
  <1>2. CASE Server
    BY <1>2, SrvRequestType, SrvRefuseType, SrvAckType, BoundAssumption DEF Server
  <1>3. CASE UNCHANGED vars
    BY <1>3, LoopType
  <1> QED BY <1>1, <1>2, <1>3 DEF Next

LEMMA TypeInvariant == Spec => []TypeInv
  <1>1. Init => TypeInv
    BY InitType
  <1>2. TypeInv /\ [Next]_vars => TypeInv'
    BY StepType
  <1> QED BY <1>1, <1>2, PTL DEF Spec

(* The client's variables keep their types, for every file, block size, number of
   sequence numbers and network: tftp.c stores only bytes of the file, never counts
   its timeouts past TIMEOUT_COUNT + 1 in an attempt, and has always the block size
   of a request or of a session of its own. *)
THEOREM TypeCorrect == Spec => []TypeOK
  <1>1. TypeInv => TypeOK
    BY DEF TypeInv
  <1> QED BY <1>1, TypeInvariant, PTL

-----------------------------------------------------------------------------
(* Every step keeps the file.                                                 *)

(* What is stored stays stored. *)
Grows == \A i \in 0..(FileLen - 1) : mem[i] = i + 1 => mem'[i] = i + 1

LEMMA StoredGrows ==
    ASSUME Grows, NEW k, Stored(k)
    PROVE  Stored(k)'
  BY DEF Grows, Stored

LEMMA StoredLess ==
    ASSUME NEW k \in Int, NEW l \in Int, l <= k, Stored(k)
    PROVE  Stored(l)
  <1>1. FileLen \in Nat
    BY Sizes
  <1> QED BY <1>1 DEF Stored

LEMMA RoundSize ==
    ASSUME ToldApart, NEW b \in {DefaultBlk, OptionBlk}
    PROVE  /\ NumBlocks(b) \in Int /\ NumBlocks(b) <= SeqSize
           /\ NumBlocks(b) = SeqSize => ~OutliveWrap /\ b * SeqSize < UlongSize
  <1>1. b \in Nat \ {0} /\ FileLen \in Nat /\ SeqSize \in Nat
    BY Sizes
  <1>2. NumBlocks(b) \in Int
    BY <1>1 DEF NumBlocks
  <1>3. OneRound(b)
    BY DEF ToldApart
  <1> QED BY <1>1, <1>2, <1>3 DEF OneRound

(* A block is where its number says, or the one at which the numbers begin anew, and
   the server has sent it. *)
LEMMA BlockNumber ==
    ASSUME ToldApart, TypeInv, NEW m \in net, m.type = "DATA"
    PROVE  \E n \in 1..srv[m.src].sent :
               /\ n \in 1..SeqSize /\ m.off = (n - 1) * srv[m.src].blk
               /\ srv[m.src].sent \in Nat /\ srv[m.src].sent <= SeqSize
               /\ n < SeqSize => m.num = n
               /\ n = SeqSize => m.num = 0 /\ srv[m.src].blk * SeqSize < UlongSize
  <1>1. /\ m.src \in ServerPorts /\ srv[m.src].blk \in {DefaultBlk, OptionBlk}
    BY DataIn
  <1>2. PICK n \in 1..srv[m.src].sent : /\ m.num = n % SeqSize /\ m.off = (n - 1) * srv[m.src].blk
                                        /\ n \in 1..NumBlocks(srv[m.src].blk)
    BY DataIn
  <1>3. PICK N : N = NumBlocks(srv[m.src].blk)
    OBVIOUS
  <1>4. /\ N <= SeqSize /\ N \in Int
        /\ N = SeqSize => srv[m.src].blk * SeqSize < UlongSize
    BY <1>1, <1>3, RoundSize
  <1>5. srv[m.src].sent \in Nat /\ srv[m.src].sent <= N
    BY <1>1, <1>3 DEF TypeInv, TypeOK, SessionInv
  <1>6. n \in 1..SeqSize /\ srv[m.src].sent <= SeqSize /\ (n = SeqSize => N = SeqSize)
    BY <1>2, <1>3, <1>4, <1>5, Sizes
  <1>7. n < SeqSize => n % SeqSize = n
    BY <1>6, Sizes
  <1>8. SeqSize % SeqSize = 0
    BY Sizes
  <1>9. n = SeqSize => m.num = 0 /\ srv[m.src].blk * SeqSize < UlongSize
    BY <1>2, <1>4, <1>6, <1>8
  <1> QED BY <1>2, <1>5, <1>6, <1>7, <1>9

(* The block size with which the client takes a block is the session's. *)
LEMMA BlockSize ==
    ASSUME ToldApart, TypeInv, FileInv, NEW m \in net, m.type = "DATA", Accepts(m)
    PROVE  TftpBlkSize = srv[m.src].blk
  <1>1. m.src \in ServerPorts /\ srv[m.src].client = TftpOurPort
    BY DataIn DEF Accepts
  <1>2. srv[m.src].sent # 0
    BY BlockNumber
  <1>3. CASE TftpState = "RRQ"
    BY <1>1, <1>2, <1>3 DEF FileInv, Unheard
  <1>4. CASE TftpState # "RRQ"
    BY <1>4 DEF FileInv, Heard, Accepts
  <1> QED BY <1>3, <1>4

(* An acknowledgement that is sent stands for what is stored. *)
LEMMA AckedStep ==
    ASSUME AckedStored, UNCHANGED srv, Grows, NEW new, net' \subseteq net \cup {new},
           new \in net' /\ new.type = "ACK" => Stored(new.num * srv[new.dst].blk)'
    PROVE  AckedStored'
  <1>1. SUFFICES ASSUME NEW m \in net', NEW p \in ServerPorts,
                        m.type = "ACK", m.dst = p, m.src = srv'[p].client
                 PROVE  \A i \in 0..(FileLen - 1) : i < m.num * srv'[p].blk => mem'[i] = i + 1
    BY DEF AckedStored
  <1>2. CASE m \in net
    BY <1>1, <1>2 DEF AckedStored, Grows
  <1>3. CASE m = new
    BY <1>1, <1>3 DEF Stored
  <1> QED BY <1>2, <1>3

LEMMA MemKept ==
    ASSUME UNCHANGED mem
    PROVE  Grows
  BY DEF Grows

(* A step that leaves the memory, the sessions and what the client would
   acknowledge alone. *)
LEMMA QuietFile ==
    ASSUME TypeInv, FileInv, UNCHANGED <<clientVars, fileVars, srv>>, net' \subseteq net,
           NetState' = "SUCCESS" => NetState = "SUCCESS",
           handler' = "tftp" /\ NetState' # "FAIL" => handler = "tftp" /\ NetState # "FAIL"
    PROVE  FileInv'
  <1>1. UNCHANGED <<mem, NetBootFileXferSize, TftpState, TftpBlkSize, TftpBlock, TftpLastBlock,
                    TftpOurPort, TftpServerPort, TftpBlockWrapOffset>> /\ srv' = srv
    BY DEF clientVars, fileVars
  <1>2. MemRight' /\ SentAfterStored' /\ OthersGone' /\ Unheard'
    BY <1>1 DEF FileInv, MemRight, SentAfterStored, OthersGone, Unheard, Stored
  <1>3. Heard'
    BY <1>1 DEF FileInv, Heard, Stored
  <1>4. AckedStored'
    BY <1>1 DEF FileInv, AckedStored
  <1> QED BY <1>1, <1>2, <1>3, <1>4 DEF FileInv, FileIntact

(* A session begins: no acknowledgement can be on its way to it. *)
LEMMA SrvRequestFile ==
    ASSUME ToldApart, TypeInv, FileInv, NEW p \in ServerPorts, NEW opt \in BOOLEAN, SrvRequest(p, opt)
    PROVE  FileInv'
  <1>1. PICK m \in net :
           /\ srv' = [srv EXCEPT ![p] = [client |-> m.src, blk |-> IF opt THEN OptionBlk ELSE DefaultBlk,
                                         sent |-> IF opt THEN 0 ELSE 1]]
           /\ \E rest \in After(m) : net' = rest \cup {Answer(p, srv'[p])}
    BY DEF SrvRequest
  <1>2. PICK a : a = Answer(p, srv'[p])
    OBVIOUS
  <1>3. net' \subseteq net \cup {a} /\ a.type \in {"OACK", "DATA"}
    BY <1>1, <1>2, AfterLess DEF Answer, DataMsg, Msg
  <1>4. /\ srv'[p].sent = IF opt THEN 0 ELSE 1
        /\ srv'[p].blk = IF opt THEN OptionBlk ELSE DefaultBlk
        /\ \A q \in ServerPorts : q # p => srv'[q] = srv[q]
    BY <1>1 DEF TypeInv, TypeOK
  <1>5. UNCHANGED <<mem, NetBootFileXferSize, TftpState, TftpBlkSize, TftpBlock, TftpLastBlock,
                    TftpOurPort, TftpServerPort, TftpBlockWrapOffset, handler, NetState>>
    BY DEF SrvRequest, clientVars, fileVars, loopVars
  <1>6. srv[p].client \notin usedPorts
    BY PortTypes DEF SrvRequest, NoSession, TypeInv, TypeOK
  <1>7. SentAfterStored'
    <2>1. SUFFICES ASSUME NEW q \in ServerPorts, srv'[q].sent >= 1
                   PROVE  \A i \in 0..(FileLen - 1) :
                              i < (srv'[q].sent - 1) * srv'[q].blk => mem'[i] = i + 1
      BY DEF SentAfterStored, Stored
    <2>2. CASE q # p
      BY <1>4, <1>5, <2>1, <2>2 DEF FileInv, SentAfterStored, Stored
    <2>3. CASE q = p
      <3>1. ~opt /\ (srv'[q].sent - 1) * srv'[q].blk = 0
        BY <1>4, <2>1, <2>3, Sizes
      <3>2. FileLen \in Nat
        BY Sizes
      <3> QED BY <3>1, <3>2 DEF Stored
    <2> QED BY <2>2, <2>3
  <1>8. Unheard'
    BY <1>3, <1>4, <1>5 DEF FileInv, Unheard
  <1>9. Heard'
    <2>1. TftpState # "RRQ" => TftpServerPort \in ServerPorts /\ TftpServerPort # p
      BY <1>6 DEF TypeInv, ClientInv
    <2>2. TftpState # "RRQ" => srv'[TftpServerPort] = srv[TftpServerPort]
      BY <1>4, <2>1
    <2> QED BY <1>5, <2>2 DEF FileInv, Heard, Stored
  <1>10. AckedStored'
    <2>1. SUFFICES ASSUME NEW x \in net', NEW q \in ServerPorts,
                          x.type = "ACK", x.dst = q, x.src = srv'[q].client
                   PROVE  \A i \in 0..(FileLen - 1) : i < x.num * srv'[q].blk => mem'[i] = i + 1
      BY DEF AckedStored
    <2>2. x \in net
      BY <1>3, <2>1
    <2>3. x.src \in usedPorts /\ x.src = srv[q].client
      BY <2>1, <2>2 DEF TypeInv, NetInv, AckOK
    <2>4. q # p
      BY <1>6, <2>3
    <2> QED BY <1>4, <1>5, <2>1, <2>2, <2>4 DEF FileInv, AckedStored
  <1>11. OthersGone'
    <2>1. SUFFICES ASSUME NEW x \in net', x.type = "DATA", srv'[x.src].sent >= SeqSize PROVE x.num = 0
      BY DEF OthersGone
    <2>2. x.src # p
      BY <1>4, <2>1, Sizes
    <2>3. x \in net
      BY <1>1, <1>2, <1>3, <2>2 DEF Answer, DataMsg, Msg
    <2>4. x.src \in ServerPorts
      BY <2>1, <2>3, DataIn
    <2> QED BY <1>4, <2>1, <2>2, <2>3, <2>4 DEF FileInv, OthersGone
  <1> QED BY <1>5, <1>7, <1>8, <1>9, <1>10, <1>11 DEF FileInv, MemRight, FileIntact

LEMMA SrvRefuseFile ==
    ASSUME ToldApart, TypeInv, FileInv, NEW p \in ServerPorts, SrvRefuse(p)
    PROVE  FileInv'
  <1>1. PICK m \in net : \E rest \in After(m) : net' = rest \cup {Msg("ERROR", p, m.src, 0, 0, 0)}
    BY DEF SrvRefuse
  <1>2. PICK a : a = Msg("ERROR", p, m.src, 0, 0, 0)
    OBVIOUS
  <1>3. net' \subseteq net \cup {a} /\ a.type = "ERROR"
    BY <1>1, <1>2, AfterLess DEF Msg
  <1>4. UNCHANGED <<mem, NetBootFileXferSize, TftpState, TftpBlkSize, TftpBlock, TftpLastBlock, srv,
                    TftpOurPort, TftpServerPort, TftpBlockWrapOffset, handler, NetState>>
    BY DEF SrvRefuse, clientVars, fileVars, loopVars
  <1>5. Unheard' /\ SentAfterStored' /\ OthersGone' /\ Heard'
    BY <1>3, <1>4 DEF FileInv, Unheard, SentAfterStored, OthersGone, Heard, Stored
  <1>6. AckedStored'
    BY <1>3, <1>4, AckedStep, MemKept DEF FileInv
  <1> QED BY <1>4, <1>5, <1>6 DEF FileInv, MemRight, FileIntact

(* The server sends its next block: the acknowledgement says that those before it
   are stored. *)
LEMMA SrvAckFile ==
    ASSUME ToldApart, TypeInv, FileInv, NEW p \in ServerPorts, SrvAck(p)
    PROVE  FileInv'
  <1>1. PICK b, n, c : b = srv[p].blk /\ n = srv[p].sent /\ c = srv[p].client
    OBVIOUS
  <1>2. PICK m \in net : /\ m.type = "ACK" /\ m.dst = p /\ m.src = c /\ m.num = n % SeqSize
                         /\ srv' = [srv EXCEPT ![p].sent = n + 1]
                         /\ \E rest \in After(m) :
                              net' = StillInFlight(rest, p, n + 1) \cup {Answer(p, srv'[p])}
    BY <1>1 DEF SrvAck
  <1>3. PICK a : a = Answer(p, srv'[p])
    OBVIOUS
  <1>4. net' \subseteq net \cup {a} /\ a.type \in {"OACK", "DATA"}
    BY <1>2, <1>3, AfterLess, StillLess DEF Answer, DataMsg, Msg
  <1>5. b \in {DefaultBlk, OptionBlk} /\ b \in Nat \ {0} /\ n \in Nat
    BY <1>1, Sizes DEF TypeInv, TypeOK
  <1>6. /\ srv'[p].sent = n + 1 /\ srv'[p].blk = b /\ srv'[p].client = c
        /\ \A q \in ServerPorts : q # p => srv'[q] = srv[q]
    BY <1>1, <1>2, <1>5 DEF TypeInv, TypeOK
  <1>7. \A q \in ServerPorts : srv'[q].blk = srv[q].blk /\ srv'[q].client = srv[q].client
    BY <1>1, <1>6
  <1>8. UNCHANGED <<mem, NetBootFileXferSize, TftpState, TftpBlkSize, TftpBlock, TftpLastBlock,
                    TftpOurPort, TftpServerPort, TftpBlockWrapOffset, handler, NetState>>
    BY DEF SrvAck, clientVars, fileVars, loopVars
  <1>fits. n \in 0..(SeqSize - 1) /\ (n + 1 >= SeqSize => n + 1 = SeqSize /\ ~OutliveWrap)
    <2>1. n < NumBlocks(b)
      BY <1>1 DEF SrvAck
    <2>2. NumBlocks(b) \in Int /\ NumBlocks(b) <= SeqSize /\ (NumBlocks(b) = SeqSize => ~OutliveWrap)
      BY <1>5, RoundSize
    <2> QED BY <1>5, <2>1, <2>2, Sizes
  <1>9. m.num = n
    BY <1>2, <1>fits, Sizes
  <1>10. Stored(n * b)
    BY <1>1, <1>2, <1>9 DEF FileInv, AckedStored, Stored
  <1>11. SentAfterStored'
    <2>1. SUFFICES ASSUME NEW q \in ServerPorts, srv'[q].sent >= 1
                   PROVE  \A i \in 0..(FileLen - 1) :
                              i < (srv'[q].sent - 1) * srv'[q].blk => mem'[i] = i + 1
      BY DEF SentAfterStored, Stored
    <2>2. CASE q # p
      BY <1>6, <1>8, <2>1, <2>2 DEF FileInv, SentAfterStored, Stored
    <2>3. CASE q = p
      <3>1. (srv'[q].sent - 1) * srv'[q].blk = n * b
        BY <1>5, <1>6, <2>3
      <3>2. Stored(n * b)'
        BY <1>8, <1>10 DEF Stored
      <3> QED BY <3>1, <3>2 DEF Stored
    <2> QED BY <2>2, <2>3
  <1>12. Unheard'
    <2>1. TftpState = "RRQ" => c # TftpOurPort
      BY <1>2 DEF FileInv, Unheard
    <2> QED BY <1>1, <1>4, <1>6, <1>8, <2>1 DEF FileInv, Unheard
  <1>13. Heard'
    <2>1. TftpState # "RRQ" => TftpServerPort \in ServerPorts
      BY DEF TypeInv, ClientInv
    <2>2. n # SeqSize
      BY <1>fits, Sizes
    <2>3. TftpState # "RRQ" /\ srv[TftpServerPort].sent = SeqSize => srv'[TftpServerPort].sent = SeqSize
      BY <1>1, <1>6, <2>1, <2>2
    <2> QED BY <1>7, <1>8, <2>1, <2>3 DEF FileInv, Heard, Stored
  <1>14. AckedStored'
    BY <1>4, <1>7, <1>8 DEF FileInv, AckedStored
  <1>15. OthersGone'
    <2>1. SUFFICES ASSUME NEW x \in net', x.type = "DATA", srv'[x.src].sent >= SeqSize PROVE x.num = 0
      BY DEF OthersGone
    <2>2. CASE x.src # p
      <3>1. x \in net
        BY <1>2, <1>3, <1>4, <2>2 DEF Answer, DataMsg, Msg
      <3>2. x.src \in ServerPorts
        BY <2>1, <3>1, DataIn
      <3> QED BY <1>6, <2>1, <2>2, <3>1, <3>2 DEF FileInv, OthersGone
    <2>3. CASE x.src = p
      <3>1. n + 1 = SeqSize /\ ~OutliveWrap /\ ~(n + 1 < SeqSize)
        BY <1>5, <1>6, <1>fits, <2>1, <2>3, Sizes
      <3>2. x = a
        BY <1>2, <1>3, <2>3, <3>1 DEF StillInFlight
      <3>3. a.num = (n + 1) % SeqSize
        BY <1>3, <1>5, <1>6 DEF Answer, DataMsg, Msg
      <3>4. SeqSize % SeqSize = 0
        BY Sizes
      <3> QED BY <3>1, <3>2, <3>3, <3>4
    <2> QED BY <2>2, <2>3
  <1> QED BY <1>8, <1>11, <1>12, <1>13, <1>14, <1>15 DEF FileInv, MemRight, FileIntact

(* An attempt begins on a port from which nothing was ever sent. *)
LEMMA StartFile ==
    ASSUME ToldApart, TypeInv, FileInv, TftpStart
    PROVE  FileInv'
  <1>1. PICK port \in OurPorts : port \notin usedPorts /\ TftpOurPort' = port
    BY DEF TftpStart, ToldApart
  <1>2. PICK new : new = TftpPacket("RRQ", WellKnown, port, 0)
    OBVIOUS
  <1>3. net' = net \cup {new} /\ new.type = "RRQ"
    BY <1>1, <1>2 DEF TftpStart, TftpPacket, Msg
  <1>4. UNCHANGED <<mem, srv>> /\ TftpState' = "RRQ"
    BY DEF TftpStart
  <1>5. SentAfterStored' /\ OthersGone' /\ MemRight'
    BY <1>3, <1>4 DEF FileInv, SentAfterStored, OthersGone, MemRight, Stored
  <1>6. Unheard'
    <2>1. \A m \in net : m.type = "ACK" => m.src # port
      BY <1>1 DEF TypeInv, NetInv, AckOK
    <2>2. \A p \in ServerPorts : srv[p].client # port
      BY <1>1, PortTypes DEF TypeInv, SessionInv, NoSession
    <2> QED BY <1>1, <1>3, <1>4, <2>1, <2>2 DEF Unheard, TftpStart
  <1>7. Heard'
    BY <1>4 DEF Heard
  <1>8. AckedStored'
    BY <1>3, <1>4, AckedStep, MemKept DEF FileInv
  <1>9. NetBootFileXferSize' <= FileLen /\ FileIntact'
    BY Sizes DEF TftpStart, FileIntact
  <1> QED BY <1>5, <1>6, <1>7, <1>8, <1>9 DEF FileInv

LEMMA RxOackFile ==
    ASSUME ToldApart, TypeInv, FileInv, NEW m \in net, RxOack(m)
    PROVE  FileInv'
  <1>1. m.src \in ServerPorts /\ m.len = srv[m.src].blk /\ m.len \in Nat
    BY DEF RxOack, TypeInv, NetInv, OackOK, TypeOK, Messages
  <1>2. PICK new : new = TftpPacket("OACK", m.src, TftpOurPort, TftpBlock)
    OBVIOUS
  <1>3. net' \subseteq net \cup {new} /\ (NetState = "FAIL" => net' \subseteq net)
    BY <1>2, AfterLess DEF RxOack, Sent
  <1>4. /\ UNCHANGED <<mem, srv, NetBootFileXferSize, handler, NetState, TftpBlock>>
        /\ TftpState' = "OACK" /\ TftpBlkSize' = m.len /\ TftpServerPort' = m.src
    BY DEF RxOack, loopVars, fileVars
  <1>5. NetState # "FAIL" => Stored(TftpBlock * m.len)
    <2>1. CASE TftpState = "RRQ"
      <3>1. TftpBlock * m.len = 0
        BY <1>1, <2>1 DEF FileInv, Unheard
      <3>2. FileLen \in Nat
        BY Sizes
      <3> QED BY <3>1, <3>2 DEF Stored
    <2>2. CASE TftpState # "RRQ"
      BY <1>1, <2>2 DEF FileInv, Heard, RxOack, Accepts
    <2> QED BY <2>1, <2>2
  <1>6. SentAfterStored' /\ MemRight' /\ Unheard'
    BY <1>4 DEF FileInv, SentAfterStored, MemRight, Stored, Unheard
  <1>7. Heard'
    BY <1>1, <1>4, <1>5 DEF Heard, Stored
  <1>8. OthersGone'
    <2>1. new.type = "ACK"
      BY <1>2 DEF TftpPacket, Msg
    <2> QED BY <1>3, <1>4, <2>1 DEF FileInv, OthersGone
  <1>9. AckedStored'
    <2>1. m.src \in Ports /\ TftpOurPort \in Ports /\ TftpBlock \in Nat /\ TftpBlock \in 0..(SeqSize - 1)
      BY <1>1, Sizes, PortTypes DEF TypeInv, TypeOK
    <2>2. new.dst = m.src /\ new.num = TftpBlock % SeqSize
      BY <1>2, <2>1, PacketFacts
    <2>3. new.num = TftpBlock
      BY <2>1, <2>2, Sizes
    <2>4. CASE NetState # "FAIL"
      <3>1. Stored(new.num * srv[new.dst].blk)'
        BY <1>1, <1>4, <1>5, <2>2, <2>3, <2>4 DEF Stored
      <3> QED BY <1>3, <1>4, <3>1, AckedStep, MemKept DEF FileInv
    <2>5. CASE NetState = "FAIL"
      BY <1>3, <1>4, <2>5 DEF FileInv, AckedStored
    <2> QED BY <2>4, <2>5
  <1> QED BY <1>4, <1>6, <1>7, <1>8, <1>9 DEF FileInv, FileIntact

(* "First block is not block 1": nothing is acknowledged until the next attempt. *)
LEMMA RxNotBlockOneFile ==
    ASSUME ToldApart, TypeInv, FileInv, NEW m \in net, RxNotBlockOne(m)
    PROVE  FileInv'
  <1>1. TftpBlkSize = srv[m.src].blk /\ TftpBlkSize \in Nat
    BY BlockSize, Sizes DEF RxNotBlockOne, TypeInv, TypeOK
  <1>2. net' \subseteq net
    BY AfterLess DEF RxNotBlockOne
  <1>3. /\ UNCHANGED <<mem, srv, NetBootFileXferSize, TftpBlkSize>>
        /\ TftpState' = "DATA" /\ TftpServerPort' = m.src
        /\ TftpLastBlock' = 0 /\ TftpBlockWrapOffset' = 0
    BY DEF RxNotBlockOne, fileVars
  <1>4. /\ handler' = "tftp" => NetState' = "FAIL"
        /\ NetState' = "SUCCESS" => NetState = "SUCCESS"
    BY DEF RxNotBlockOne, NetStartAgain
  <1>5. Heard'
    <2>1. 0 * TftpBlkSize = 0 /\ FileLen \in Nat
      BY <1>1, Sizes
    <2>2. Stored(0)'
      BY <2>1 DEF Stored
    <2> QED BY <1>1, <1>3, <1>4, <2>1, <2>2 DEF Heard
  <1>6. SentAfterStored' /\ OthersGone' /\ MemRight' /\ Unheard'
    BY <1>2, <1>3 DEF FileInv, SentAfterStored, OthersGone, MemRight, Stored, Unheard
  <1>7. AckedStored'
    BY <1>2, <1>3 DEF FileInv, AckedStored
  <1> QED BY <1>3, <1>4, <1>5, <1>6, <1>7 DEF FileInv, FileIntact

LEMMA RxSameBlockFile ==
    ASSUME ToldApart, TypeInv, FileInv, NEW m \in net, RxSameBlock(m)
    PROVE  FileInv'
  <1>1. TftpState = "DATA" /\ m.num = TftpLastBlock /\ m.src = TftpServerPort
    BY DEF RxSameBlock, FirstBlock, Accepts, TypeInv, TypeOK
  <1>2. m.num = 0 => srv[m.src].sent = SeqSize
    <2>1. PICK n \in 1..srv[m.src].sent :
               /\ n \in 1..SeqSize /\ srv[m.src].sent \in Nat /\ srv[m.src].sent <= SeqSize
               /\ n < SeqSize => m.num = n
      BY BlockNumber DEF RxSameBlock
    <2> QED BY <2>1, Sizes
  <1>3. /\ UNCHANGED <<mem, srv, NetBootFileXferSize, TftpBlkSize, TftpState, TftpServerPort,
                       TftpLastBlock, handler, NetState>>
        /\ TftpBlock' = TftpLastBlock
        /\ m.num # 0 => TftpBlockWrapOffset' = TftpBlockWrapOffset
    BY <1>1 DEF RxSameBlock, fileVars, loopVars, WrapOffset
  <1>4. net' \subseteq net
    BY AfterLess DEF RxSameBlock
  <1>5. Heard'
    BY <1>1, <1>2, <1>3 DEF FileInv, Heard, Stored
  <1>6. SentAfterStored' /\ OthersGone' /\ MemRight' /\ Unheard'
    BY <1>1, <1>3, <1>4 DEF FileInv, SentAfterStored, OthersGone, MemRight, Stored, Unheard
  <1>7. AckedStored'
    BY <1>3, <1>4 DEF FileInv, AckedStored
  <1> QED BY <1>3, <1>5, <1>6, <1>7 DEF FileInv, FileIntact

(* The copy of a block to its own place. *)
LEMMA StoreRight ==
    ASSUME TypeInv, FileInv, NEW m \in net, m.type = "DATA", NEW off, off = m.off, StoreBlock(m, off)
    PROVE  /\ Grows /\ MemRight'
           /\ \A i \in 0..(FileLen - 1) : off <= i /\ i < off + m.len => mem'[i] = i + 1
           /\ NetBootFileXferSize' <= FileLen /\ NetBootFileXferSize <= NetBootFileXferSize'
           /\ off + m.len = FileLen => NetBootFileXferSize' = FileLen
  <1>1. m.off \in Nat /\ m.len \in Nat /\ m.off + m.len <= FileLen /\ FileLen \in Nat /\ MemSize \in Nat
        /\ FileLen <= MemSize
    BY DataIn, Sizes
  <1>2. mem \in [0..(MemSize - 1) -> 0..FileLen] /\ NetBootFileXferSize \in Nat
        /\ NetBootFileXferSize <= FileLen
    BY DEF TypeInv, TypeOK, FileInv
  <1>3. mem' = [i \in 0..(MemSize - 1) |-> IF off <= i /\ i < off + m.len
                                           THEN m.off + (i - off) + 1 ELSE mem[i]]
    BY <1>2 DEF StoreBlock
  <1>4. \A i \in 0..(MemSize - 1) : mem'[i] = IF off <= i /\ i < off + m.len THEN i + 1 ELSE mem[i]
    BY <1>1, <1>3
  <1>5. \A i \in 0..(FileLen - 1) : i \in 0..(MemSize - 1)
    BY <1>1
  <1>6. Grows
    BY <1>4, <1>5 DEF Grows
  <1>7. MemRight'
    BY <1>4 DEF FileInv, MemRight
  <1>8. \A i \in 0..(FileLen - 1) : off <= i /\ i < off + m.len => mem'[i] = i + 1
    BY <1>4, <1>5
  <1>9. /\ NetBootFileXferSize' <= FileLen /\ NetBootFileXferSize <= NetBootFileXferSize'
        /\ off + m.len = FileLen => NetBootFileXferSize' = FileLen
    BY <1>1, <1>2 DEF StoreBlock
  <1> QED BY <1>6, <1>7, <1>8, <1>9

(* A block that came in order: with those before it, it is stored. Its place is the
   same by its number and, when the numbers begin anew, by the wrap offset. *)
LEMMA RxBlockFile ==
    ASSUME ToldApart, TypeInv, FileInv, NEW m \in net, RxBlock(m)
    PROVE  FileInv'
  <1>1. PICK b, s : b = srv[m.src].blk /\ s = srv[m.src].sent
    OBVIOUS
  <1>0. PICK n \in 1..s : /\ n \in 1..SeqSize /\ m.off = (n - 1) * b /\ s \in Nat /\ s <= SeqSize
                          /\ n < SeqSize => m.num = n
                          /\ n = SeqSize => m.num = 0 /\ b * SeqSize < UlongSize
    BY <1>1, BlockNumber DEF RxBlock
  <1>2. /\ m.type = "DATA" /\ Accepts(m) /\ m.src \in ServerPorts /\ TftpBlkSize = b /\ b \in Nat \ {0}
        /\ m.off + m.len <= FileLen
        /\ m.off \in Nat /\ m.len \in Nat /\ m.len <= b
        /\ m.len < b => m.off + m.len = FileLen
        /\ m.num \in 0..(SeqSize - 1) /\ m.num \in Nat
    BY <1>1, DataIn, BlockSize DEF RxBlock
  <1>3. /\ UNCHANGED <<srv, TftpBlkSize, handler>>
        /\ TftpState' = "DATA" /\ TftpServerPort' = m.src
        /\ TftpLastBlock' = m.num /\ TftpBlock' = m.num
        /\ NetState' = IF m.len < b THEN "SUCCESS" ELSE NetState
    BY <1>2 DEF RxBlock
  <1>4. TftpBlockWrapOffset' = IF n = SeqSize THEN b * SeqSize ELSE 0
    <2>1. (m.num = 0) <=> (n = SeqSize)
      BY <1>0, Sizes
    <2>2. CASE FirstBlock
      <3>1. m.num = 1 /\ TftpBlockWrapOffset' = 0
        BY <2>2 DEF RxBlock
      <3> QED BY <2>1, <3>1
    <2>3. CASE ~FirstBlock
      <3>1. TftpBlockWrapOffset = 0
        <4>1. SUFFICES ASSUME TftpBlockWrapOffset # 0 PROVE FALSE
          OBVIOUS
        <4>2. TftpLastBlock = 0 /\ srv[m.src].sent = SeqSize
          BY <1>2, <2>3, <4>1 DEF FileInv, Heard, FirstBlock, TypeInv, TypeOK, Accepts
        <4>3. m.num = 0
          BY <1>2, <4>2, Sizes DEF FileInv, OthersGone
        <4> QED BY <2>3, <4>2, <4>3 DEF RxBlock
      <3>2. TftpBlockWrapOffset' = IF m.num = 0 THEN (0 + b * SeqSize) % UlongSize ELSE 0
        BY <1>2, <2>3, <3>1 DEF RxBlock, WrapOffset
      <3>3. n = SeqSize => (0 + b * SeqSize) % UlongSize = b * SeqSize
        <4>1. PICK k : k = b * SeqSize
          OBVIOUS
        <4>2. k \in Nat
          BY <1>2, <4>1, Sizes
        <4>3. n = SeqSize => k < UlongSize
          BY <1>0, <4>1
        <4>4. n = SeqSize => k % UlongSize = k /\ 0 + k = k
          BY <4>2, <4>3, Sizes
        <4> QED BY <4>1, <4>4
      <3> QED BY <2>1, <3>2, <3>3
    <2> QED BY <2>2, <2>3
  <1>5. StoreBlock(m, m.off)
    <2>1. PICK w : w = TftpBlockWrapOffset'
      OBVIOUS
    <2>2. CASE n = SeqSize
      <3>1. m.num = 0 /\ w = b * SeqSize
        BY <1>0, <1>4, <2>1, <2>2
      <3>2. (0 - 1) * b + b * SeqSize = (SeqSize - 1) * b
        BY <1>2, Sizes
      <3>3. StoreOffset(m.num, w) = m.off
        BY <1>0, <1>2, <2>2, <3>1, <3>2 DEF StoreOffset
      <3> QED BY <2>1, <3>3 DEF RxBlock
    <2>3. CASE n # SeqSize
      <3>1. m.num = n /\ w = 0
        BY <1>0, <1>4, <2>1, <2>3, Sizes
      <3>2. StoreOffset(m.num, w) = m.off
        BY <1>0, <1>2, <3>1 DEF StoreOffset
      <3> QED BY <2>1, <3>2 DEF RxBlock
    <2> QED BY <2>2, <2>3
  <1>6. /\ Grows /\ MemRight'
        /\ \A i \in 0..(FileLen - 1) : m.off <= i /\ i < m.off + m.len => mem'[i] = i + 1
        /\ NetBootFileXferSize' <= FileLen /\ NetBootFileXferSize <= NetBootFileXferSize'
        /\ m.off + m.len = FileLen => NetBootFileXferSize' = FileLen
    BY <1>2, <1>5, StoreRight
  <1>7. Stored(n * b)'
    <2>1. Stored((n - 1) * b)
      <3>1. s >= 1 /\ Stored((s - 1) * b)
        BY <1>0, <1>1, <1>2 DEF FileInv, SentAfterStored
      <3>2. (n - 1) * b <= (s - 1) * b /\ (n - 1) * b \in Int /\ (s - 1) * b \in Int
        BY <1>0, <1>2
      <3> QED BY <3>1, <3>2, StoredLess
    <2>2. Stored((n - 1) * b)'
      BY <1>6, <2>1, StoredGrows
    <2>3. n * b = m.off + b /\ FileLen \in Nat
      BY <1>0, <1>2, Sizes
    <2>4. SUFFICES ASSUME NEW i \in 0..(FileLen - 1), i < n * b PROVE mem'[i] = i + 1
      BY DEF Stored
    <2>5. CASE i < m.off
      BY <1>0, <1>2, <2>2, <2>5 DEF Stored
    <2>6. CASE m.off <= i
      BY <1>2, <1>6, <2>3, <2>4, <2>6
    <2> QED BY <1>2, <2>5, <2>6
  <1>acked. Stored(m.num * b)'
    <2>1. CASE n = SeqSize
      <3>1. m.num * b = 0 /\ FileLen \in Nat
        BY <1>0, <1>2, <2>1, Sizes
      <3> QED BY <3>1 DEF Stored
    <2>2. CASE n # SeqSize
      <3>1. m.num = n
        BY <1>0, <2>2, Sizes
      <3> QED BY <1>7, <3>1 DEF Stored
    <2> QED BY <2>1, <2>2
  <1>8. SentAfterStored'
    BY <1>3, <1>6 DEF FileInv, SentAfterStored, Stored, Grows
  <1>9. Unheard'
    BY <1>3 DEF Unheard
  <1>10. Heard'
    <2>1. n = SeqSize => m.num = 0 /\ s = SeqSize
      BY <1>0, Sizes
    <2> QED BY <1>1, <1>2, <1>3, <1>4, <1>acked, <2>1 DEF Heard, Stored
  <1>11. AckedStored' /\ OthersGone'
    <2>1. PICK new : new = TftpPacket("DATA", m.src, TftpOurPort, m.num)
      OBVIOUS
    <2>2. net' \subseteq net \cup {new}
      BY <2>1, AfterLess DEF RxBlock, Sent
    <2>3. m.src \in Ports /\ TftpOurPort \in Ports
      BY <1>2, PortTypes DEF TypeInv, TypeOK
    <2>4. new.type = "ACK" /\ new.dst = m.src /\ new.num = m.num % SeqSize
      BY <1>2, <2>1, <2>3, PacketFacts
    <2>5. new.num = m.num
      BY <1>2, <2>4, Sizes
    <2>6. Stored(new.num * srv[new.dst].blk)'
      BY <1>1, <1>3, <1>acked, <2>4, <2>5 DEF Stored
    <2>7. OthersGone'
      BY <1>3, <2>2, <2>4 DEF FileInv, OthersGone
    <2> QED BY <1>3, <1>6, <2>2, <2>6, <2>7, AckedStep DEF FileInv
  <1>12. FileIntact'
    <2>1. CASE m.len < b
      <3>1. FileLen <= n * b /\ FileLen \in Nat /\ n * b \in Int
        BY <1>0, <1>2, <2>1, Sizes
      <3>2. \A i \in 0..(FileLen - 1) : mem'[i] = i + 1
        BY <1>7, <3>1 DEF Stored
      <3> QED BY <1>2, <1>6, <2>1, <3>2 DEF FileIntact
    <2>2. CASE ~(m.len < b)
      <3>1. SUFFICES ASSUME NetState' = "SUCCESS"
                     PROVE  NetBootFileXferSize' = FileLen /\ \A i \in 0..(FileLen - 1) : mem'[i] = i + 1
        BY DEF FileIntact
      <3>2. NetBootFileXferSize = FileLen /\ \A i \in 0..(FileLen - 1) : mem[i] = i + 1
        BY <1>3, <2>2, <3>1 DEF FileInv, FileIntact
      <3>3. NetBootFileXferSize' \in Nat
        BY <1>2, <1>5, StoreType
      <3> QED BY <1>6, <3>2, <3>3, Sizes DEF Grows
    <2> QED BY <2>1, <2>2
  <1> QED BY <1>6, <1>8, <1>9, <1>10, <1>11, <1>12 DEF FileInv

(* What is sent again is the request or the acknowledgement of what is stored. *)
LEMMA TftpTimeoutFile ==
    ASSUME ToldApart, TypeInv, FileInv, TftpTimeout
    PROVE  FileInv'
  <1>1. PICK new : new = TftpPacket(TftpState, TftpServerPort, TftpOurPort, TftpBlock)
    OBVIOUS
  <1>2. net' \subseteq net \cup {new} /\ (NetState = "FAIL" => net' \subseteq net)
    BY <1>1 DEF TftpTimeout, Sent
  <1>3. UNCHANGED <<mem, srv, NetBootFileXferSize, TftpBlkSize, TftpState, TftpServerPort, TftpOurPort,
                    TftpLastBlock, TftpBlock, TftpBlockWrapOffset>> /\ handler = "tftp"
    BY DEF TftpTimeout, fileVars
  <1>4. /\ NetState' = "SUCCESS" => NetState = "SUCCESS"
        /\ handler' = "tftp" /\ NetState' # "FAIL" => NetState # "FAIL"
    BY DEF TftpTimeout, NetStartAgain
  <1>5. /\ (new.type = "ACK") <=> (TftpState # "RRQ")
        /\ new.dst = TftpServerPort /\ (new.type = "ACK" => new.num = TftpBlock)
    <2>1. TftpServerPort \in Ports /\ TftpOurPort \in Ports /\ TftpBlock \in Nat /\ TftpBlock \in 0..(SeqSize - 1)
      BY Sizes, PortTypes DEF TypeInv, TypeOK
    <2>2. /\ (new.type = "ACK") <=> (TftpState # "RRQ")
          /\ new.dst = TftpServerPort /\ (new.type = "ACK" => new.num = TftpBlock % SeqSize)
      BY <1>1, <2>1, PacketFacts
    <2>3. TftpBlock % SeqSize = TftpBlock
      BY <2>1, Sizes
    <2> QED BY <2>2, <2>3
  <1>6. SentAfterStored' /\ OthersGone' /\ MemRight'
    <2>1. new.type # "DATA"
      BY <1>1 DEF TftpPacket, Msg
    <2> QED BY <1>2, <1>3, <2>1 DEF FileInv, SentAfterStored, OthersGone, MemRight, Stored
  <1>7. Unheard'
    BY <1>2, <1>3, <1>5 DEF FileInv, Unheard
  <1>8. Heard'
    BY <1>3, <1>4 DEF FileInv, Heard, Stored
  <1>9. AckedStored'
    <2>1. CASE NetState = "FAIL"
      BY <1>2, <1>3, <2>1 DEF FileInv, AckedStored
    <2>2. CASE NetState # "FAIL"
      <3>1. new.type = "ACK" => Stored(new.num * srv[new.dst].blk)'
        BY <1>3, <1>5, <2>2 DEF FileInv, Heard, Stored
      <3> QED BY <1>2, <1>3, <3>1, AckedStep, MemKept DEF FileInv
    <2> QED BY <2>1, <2>2
  <1> QED BY <1>3, <1>4, <1>6, <1>7, <1>8, <1>9 DEF FileInv, FileIntact

(* The other steps. *)
LEMMA QuietSteps ==
    ASSUME ToldApart, TypeInv, FileInv,
           \/ \E m \in net : RxIgnored(m) \/ RxError(m)
           \/ startAgainTimeout \/ LoopAgain \/ LoopReturn \/ Abort \/ UNCHANGED vars
    PROVE  FileInv'
  <1>1. CASE \E m \in net : RxIgnored(m)
    BY <1>1, AfterLess, QuietFile DEF RxIgnored, loopVars
  <1>2. CASE \E m \in net : RxError(m)
    BY <1>2, AfterLess, QuietFile DEF RxError, NetStartAgain
  <1>3. CASE startAgainTimeout
    BY <1>3, QuietFile DEF startAgainTimeout
  <1>4. CASE LoopAgain \/ LoopReturn \/ Abort
    BY <1>4, QuietFile DEF LoopAgain, LoopReturn, Abort
  <1>5. CASE UNCHANGED vars
    BY <1>5, QuietFile DEF vars, clientVars, fileVars
  <1> QED BY <1>1, <1>2, <1>3, <1>4, <1>5

LEMMA InitFile ==
    ASSUME Init
    PROVE  FileInv
  <1>1. \A p \in ServerPorts : srv[p].sent = 0 /\ srv[p].blk = DefaultBlk
    BY DEF Init, NoSession
  <1>2. SentAfterStored /\ OthersGone /\ Unheard /\ Heard /\ AckedStored
    BY <1>1 DEF Init, SentAfterStored, OthersGone, Unheard, Heard, AckedStored
  <1>3. MemRight /\ NetBootFileXferSize <= FileLen /\ FileIntact
    BY Sizes DEF Init, MemRight, FileIntact
  <1> QED BY <1>2, <1>3 DEF FileInv

LEMMA StepFile ==
    ASSUME ToldApart, TypeInv, FileInv, [Next]_vars
    PROVE  FileInv'
  <1>1. CASE Client
    BY <1>1, StartFile, RxOackFile, RxNotBlockOneFile, RxSameBlockFile, RxBlockFile,
       TftpTimeoutFile, QuietSteps DEF Client, NetLoopTftp, LoopRestart
  <1>2. CASE Server
    BY <1>2, SrvRequestFile, SrvRefuseFile, SrvAckFile, BoundAssumption DEF Server
  <1>3. CASE UNCHANGED vars
    BY <1>3, QuietSteps
  <1> QED BY <1>1, <1>2, <1>3 DEF Next

LEMMA FileInvariant ==
    ASSUME ToldApart
    PROVE  Spec => []FileInv
  <1>1. Init => FileInv
    BY InitFile
  <1>2. TypeInv /\ FileInv /\ [Next]_vars => FileInv'
    BY StepFile
  <1> QED BY <1>1, <1>2, TypeInvariant, PTL DEF Spec

(* tftp.c acknowledges what it has stored: where no block number is used twice for a
   file and no port for two attempts, an acknowledgement on its way to a session
   stands for the bytes up to its block being in memory, for every file, block size
   and number of tries, and whatever the network delays, repeats or loses. *)
THEOREM AcksAlwaysStored ==
    ASSUME ToldApart
    PROVE  Spec => []AckedStored
  <1>1. FileInv => AckedStored
    BY DEF FileInv
  <1> QED BY <1>1, FileInvariant, PTL

(* Then "We received the whole thing" is true: a load that NetLoop is about to
   declare a success has left the whole file in memory, and its length. *)
THEOREM FileAlwaysIntact ==
    ASSUME ToldApart
    PROVE  Spec => []FileIntact
  <1>1. FileInv => FileIntact
    BY DEF FileInv
  <1> QED BY <1>1, FileInvariant, PTL

=============================================================================
