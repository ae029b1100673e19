---------------------------- MODULE BootpProofs -----------------------------
(***************************************************************************)
(* Proofs about Bootp, for every set of servers and any number of requests: *)
(* its types, that no two servers lease an address for one transaction,    *)
(* and, while one protocol is used throughout, that DHCP ends with an      *)
(* address that is leased to it, and with the gateway of the server that   *)
(* leases it if that server names one.                                     *)
(***************************************************************************)
EXTENDS Bootp, TLAPS

-----------------------------------------------------------------------------
(* The inductive invariant of the types: a wait has requests left for all its
   tries, and packets are what their senders make them. *)

TriesLeft == pc = "waiting" => Try >= 1 /\ requests + (TIMEOUT_COUNT - Try) <= MaxRequests

PacketOK(p) ==
    /\ p.id \in 1..requests
    /\ p.type \in {"reply", "offer", "ack", "nak", "rarpreply"} =>
            p.server \in Servers /\ p.addr \in Addrs \cup {NoAddr}
    /\ p.type \in {"offer", "ack", "nak"} => p.server \in DhcpServers
    /\ p.type = "ack" => p.addr = Addr(p.server, p.id)
    /\ p.type = "rarpreply" => p.server \in RarpServers /\ p.addr = Addr(p.server, 0)
    /\ p.type = "request" => p.id <= BootpID

TypeInv ==
    /\ TypeOK
    /\ BootpID <= requests
    /\ TriesLeft
    /\ \A p \in packets : PacketOK(p)

LEMMA TypeInvInit == Init => TypeInv
  BY CountAssumption DEF Init, TypeInv, TypeOK, TriesLeft, NoAddr, NoLease, Ids

LEMMA AddrType == ASSUME NEW s \in Servers, NEW id \in Ids \cup {0} PROVE Addr(s, id) \in Addrs
  BY DEF Addr, Addrs

(* A new packet that is as it should be leaves the others as they were. *)
LEMMA TypeInvAnswer ==
    ASSUME TypeInv, NEW q, PacketOK(q), Answer(q),
           offered' \in [Servers -> SUBSET Ids],
           lease' \in [Servers -> [addr : Addrs \cup {NoAddr}, id : Ids \cup {0}]]
    PROVE  TypeInv'
  <1>1. TypeOK'
    BY DEF TypeInv, TypeOK, Answer, Send, config, PacketOK
  <1>2. (\A p \in packets : PacketOK(p))'
    BY DEF TypeInv, TypeOK, Answer, Send, PacketOK
  <1>3. TriesLeft' /\ (BootpID <= requests)'
    BY DEF TypeInv, Answer, TriesLeft
  <1> QED BY <1>1, <1>2, <1>3 DEF TypeInv

(* One more request, if the bound allows one. *)
LEMMA TypeInvRequest ==
    ASSUME TypeInv, NEW c \in Clients, NEW try \in 1..TIMEOUT_COUNT, Request(c, try),
           requests + 1 + (TIMEOUT_COUNT - try) <= MaxRequests,
           client' = c, pc' = "waiting", NetOurIP' \in {NetOurIP, NoAddr},
           NetOurGatewayIP' \in {NetOurGatewayIP, NoServer},
           UNCHANGED <<NetDHCPServerIP, servers>>
    PROVE  TypeInv'
  <1>1. requests' \in 1..MaxRequests /\ requests' = requests + 1
    BY CountAssumption DEF TypeInv, TypeOK, Request
  <1>2. BootpID' \in Ids \cup {0} /\ BootpID' <= requests' /\ BootpID <= BootpID'
    BY <1>1, CountAssumption DEF TypeInv, TypeOK, Request, Ids
  <1>3. ASSUME NEW p \in packets' PROVE PacketOK(p)'
    <2>1. CASE p \in packets
      BY <2>1, <1>1, <1>2, CountAssumption DEF TypeInv, TypeOK, PacketOK, Ids
    <2>2. CASE p = Packet(RequestType(c), requests', NoServer, NoAddr)
      BY <2>2, <1>1, ServerAssumption, CountAssumption DEF PacketOK, Packet, RequestType
    <2> QED BY <2>1, <2>2 DEF Request, Send
  <1>4. TypeOK'
    <2>1. (Try \in 0..TIMEOUT_COUNT)' /\ (requests \in 0..MaxRequests)'
      BY <1>1, CountAssumption DEF Request
    <2>2. (dhcp_state \in {"INIT", "SELECTING", "REQUESTING", "BOUND"})'
      BY DEF TypeInv, TypeOK, Request
    <2>3. (\A p \in packets : p.id \in 1..requests)'
      BY <1>3 DEF PacketOK
    <2> QED BY <1>2, <2>1, <2>2, <2>3 DEF TypeInv, TypeOK, servers
  <1>5. TriesLeft'
    BY <1>1, CountAssumption DEF TriesLeft, Request
  <1> QED BY <1>2, <1>3, <1>4, <1>5 DEF TypeInv

LEMMA TypeInvStart ==
    ASSUME TypeInv, NEW c \in Clients, NetLoopStart(c)
    PROVE  TypeInv'
  <1>1. 1 \in 1..TIMEOUT_COUNT /\ requests + 1 + (TIMEOUT_COUNT - 1) <= MaxRequests
    BY CountAssumption DEF NetLoopStart, TypeInv, TypeOK
  <1> QED BY <1>1, TypeInvRequest DEF NetLoopStart

LEMMA TypeInvTimeout ==
    ASSUME TypeInv, Timeout
    PROVE  TypeInv'
  <1>1. CASE Try >= TIMEOUT_COUNT
    BY <1>1 DEF Timeout, TypeInv, TypeOK, TriesLeft, PacketOK, config, servers
  <1>2. CASE ~(Try >= TIMEOUT_COUNT)
    <2>1. Try + 1 \in 1..TIMEOUT_COUNT /\ requests + 1 + (TIMEOUT_COUNT - (Try + 1)) <= MaxRequests
      BY <1>2, CountAssumption DEF Timeout, TypeInv, TypeOK, TriesLeft
    <2>2. client \in Clients /\ client' = client /\ pc' = "waiting" /\ NetOurIP' \in {NetOurIP, NoAddr}
          /\ NetOurGatewayIP' \in {NetOurGatewayIP, NoServer}
          /\ UNCHANGED <<NetDHCPServerIP, servers>> /\ Request(client, Try + 1)
      BY <1>2 DEF Timeout, TypeInv, TypeOK, config
    <2> QED BY <2>1, <2>2, TypeInvRequest
  <1> QED BY <1>1, <1>2

(* What a handler does when the answer has the type that the packets have. *)
LEMMA TypeInvReceive ==
    ASSUME TypeInv, Receive
    PROVE  TypeInv'
  <1> PICK p \in packets : BootpHandler(p) \/ DhcpSelect(p) \/ DhcpBind(p) \/ RarpReply(p)
    BY DEF Receive
  <1>1. PacketOK(p) /\ p.id \in 1..requests
    BY DEF TypeInv, PacketOK
  <1>2. CASE BootpHandler(p)
    <2>1. p.server \in Servers /\ p.addr \in Addrs \cup {NoAddr}
      BY <1>1, <1>2 DEF BootpHandler, BootpCheckPkt, PacketOK
    <2>2. NetOurGatewayIP' \in Servers \cup {NoServer} /\ NetOurIP' \in Addrs \cup {NoAddr}
      BY <1>2, <2>1 DEF BootpHandler, BootpVendorProcess, TypeInv, TypeOK
    <2>3. pc' \in {"success", "loading"} /\ BootpID' = BootpID /\ requests' = requests /\ packets' = packets
      BY <1>2 DEF BootpHandler, Finish
    <2>4. (\A r \in packets : PacketOK(r))' /\ TriesLeft' /\ (BootpID <= requests)'
      BY <2>3 DEF TypeInv, PacketOK, TriesLeft
    <2>5. TypeOK'
      BY <1>2, <2>2, <2>3 DEF BootpHandler, TypeInv, TypeOK, servers
    <2> QED BY <2>4, <2>5 DEF TypeInv
  <1>3. CASE DhcpSelect(p)
    <2> PICK srv : srv = NetDHCPServerIP'
      OBVIOUS
    <2> DEFINE q == Packet("request", p.id, srv, p.addr)
    <2>1. NetDHCPServerIP' \in DhcpServers \cup {NoServer} /\ NetOurGatewayIP' \in Servers \cup {NoServer}
      BY <1>1, <1>3 DEF DhcpSelect, DhcpOptionsProcess, ServerOption, BootpCheckPkt, PacketOK, TypeInv, TypeOK
    <2>2. PacketOK(q)'
      BY <1>1, <1>3 DEF DhcpSelect, BootpCheckPkt, PacketOK, Packet, TypeInv, TypeOK
    <2>3. (\A r \in packets : PacketOK(r))'
      <3>1. ASSUME NEW r \in packets' PROVE r \in packets \/ r = q
        BY <1>3 DEF DhcpSelect, Send
      <3>2. ASSUME NEW r \in packets PROVE PacketOK(r)'
        BY <1>3 DEF DhcpSelect, TypeInv, PacketOK
      <3> QED BY <2>2, <3>1, <3>2
    <2>4. TriesLeft' /\ (BootpID <= requests)'
      BY <1>3 DEF DhcpSelect, TypeInv, TriesLeft
    <2>5. (\A r \in packets : r.id \in 1..requests)'
      BY <2>3 DEF PacketOK
    <2>6. TypeOK'
      BY <1>3, <2>1, <2>5 DEF DhcpSelect, TypeInv, TypeOK, servers
    <2> QED BY <2>3, <2>4, <2>6 DEF TypeInv
  <1>4. CASE DhcpBind(p)
    <2>1. p.server \in DhcpServers /\ p.addr \in Addrs \cup {NoAddr}
      BY <1>1, <1>4 DEF DhcpBind, PacketOK
    <2> QED BY <1>4, <2>1 DEF DhcpBind, DhcpOptionsProcess, ServerOption, Finish, TypeInv, TypeOK, TriesLeft,
                              PacketOK, Servers, servers
  <1>5. CASE RarpReply(p)
    <2>1. p.addr \in Addrs \cup {NoAddr}
      BY <1>1, <1>5 DEF RarpReply, PacketOK
    <2> QED BY <1>5, <2>1 DEF RarpReply, Finish, TypeInv, TypeOK, TriesLeft, PacketOK, servers
  <1> QED BY <1>2, <1>3, <1>4, <1>5

LEMMA TypeInvServe ==
    ASSUME TypeInv, Serve
    PROVE  TypeInv'
  <1> PICK s \in Servers, p \in packets :
            \/ SrvReply(s, p) \/ SrvOffer(s, p) \/ SrvAck(s, p) \/ SrvNak(s, p)
            \/ SrvRelease(s, p) \/ SrvRarp(s, p)
    BY DEF Serve
  <1>1. PacketOK(p) /\ p.id \in 1..requests /\ p.id \in Ids
    BY CountAssumption DEF TypeInv, TypeOK, PacketOK, Ids
  <1>2. Addr(s, 0) \in Addrs /\ Addr(s, p.id) \in Addrs
    BY <1>1, AddrType
  <1> USE DEF TypeInv, TypeOK
  <1>3. CASE SrvReply(s, p)
    <2>1. PacketOK(Packet("reply", p.id, s, Addr(s, 0)))
      BY <1>1, <1>2 DEF PacketOK, Packet
    <2> QED BY <1>3, <2>1, TypeInvAnswer DEF SrvReply, servers
  <1>4. CASE SrvOffer(s, p)
    <2>1. PacketOK(Packet("offer", p.id, s, Addr(s, p.id)))
      BY <1>1, <1>2, <1>4 DEF PacketOK, Packet, SrvOffer
    <2>2. offered' \in [Servers -> SUBSET Ids]
      BY <1>1, <1>4 DEF SrvOffer
    <2> QED BY <1>4, <2>1, <2>2, TypeInvAnswer DEF SrvOffer
  <1>5. CASE SrvAck(s, p)
    <2>1. p.addr = Addr(s, p.id)
      BY <1>5 DEF SrvAck, Acceptable
    <2>2. PacketOK(Packet("ack", p.id, s, p.addr))
      BY <1>1, <1>2, <1>5, <2>1 DEF PacketOK, Packet, SrvAck
    <2>3. lease' \in [Servers -> [addr : Addrs \cup {NoAddr}, id : Ids \cup {0}]]
      BY <1>1, <1>2, <1>5, <2>1 DEF SrvAck
    <2> QED BY <1>5, <2>2, <2>3, TypeInvAnswer DEF SrvAck
  <1>6. CASE SrvNak(s, p)
    <2>1. PacketOK(Packet("nak", p.id, s, NoAddr))
      BY <1>1, <1>6 DEF PacketOK, Packet, SrvNak
    <2>2. offered' \in [Servers -> SUBSET Ids]
      BY <1>6 DEF SrvNak
    <2> QED BY <1>6, <2>1, <2>2, TypeInvAnswer DEF SrvNak
  <1>7. CASE SrvRelease(s, p)
    <2>1. NoLease \in [addr : Addrs \cup {NoAddr}, id : Ids \cup {0}]
      BY DEF NoLease
    <2> QED BY <1>7, <2>1 DEF SrvRelease, config, TriesLeft, PacketOK
  <1>8. CASE SrvRarp(s, p)
    <2>1. PacketOK(Packet("rarpreply", p.id, s, Addr(s, 0)))
      BY <1>1, <1>2, <1>8 DEF PacketOK, Packet, SrvRarp
    <2> QED BY <1>8, <2>1, TypeInvAnswer DEF SrvRarp, servers
  <1> QED BY <1>3, <1>4, <1>5, <1>6, <1>7, <1>8

LEMMA TypeInvNext == TypeInv /\ [Next]_vars => TypeInv'
  <1> SUFFICES ASSUME TypeInv, [Next]_vars PROVE TypeInv'
    OBVIOUS
  <1>1. CASE Start
    BY <1>1, TypeInvStart DEF Start
  <1>2. CASE Timeout
    BY <1>2, TypeInvTimeout
  <1>3. CASE Receive
    BY <1>3, TypeInvReceive
  <1>4. CASE Serve
    BY <1>4, TypeInvServe
  <1>5. CASE UNCHANGED vars
    BY <1>5 DEF vars, TypeInv, TypeOK, TriesLeft, PacketOK
  <1> QED BY <1>1, <1>2, <1>3, <1>4, <1>5 DEF Next

LEMMA TypeInvariance == Spec => []TypeInv
  BY TypeInvInit, TypeInvNext, PTL DEF Spec

(* The variables of the address clients (net/bootp.c, net/rarp.c) stay within
   their types; no more than TIMEOUT_COUNT requests are sent for one command. *)
THEOREM TypeCorrect == Spec => []TypeOK
  <1>1. TypeInv => TypeOK
    BY DEF TypeInv
  <1> QED BY <1>1, TypeInvariance, PTL

-----------------------------------------------------------------------------
(* The inductive invariant of the address: an acknowledgement of the current
   transaction is backed by a lease, which only a later transaction could end;
   RARP answers are there only if RARP is the protocol. *)

AckBacked(p) ==
    p.type = "ack" /\ p.id = BootpID =>
        lease[p.server].addr = p.addr /\ lease[p.server].id = p.id

LeaseShape == \A s \in Servers : lease[s] # NoLease => lease[s].addr = Addr(s, lease[s].id)

Bound ==
    Configured /\ client = "DHCP" =>
        /\ NetDHCPServerIP \in DhcpServers
        /\ lease[NetDHCPServerIP].addr = NetOurIP
        /\ lease[NetDHCPServerIP].id = BootpID
        /\ BootpID # 0
        /\ NetOurIP.server \in Gateways => NetOurGatewayIP = NetOurIP.server

RarpOnly(p) == p.type \in {"rarp", "rarpreply"} => client = "RARP"

AddressInv ==
    /\ \A p \in packets : AckBacked(p) /\ RarpOnly(p)
    /\ LeaseShape /\ Bound

LEMMA AddressInvInit == Init => AddressInv
  BY DEF Init, AddressInv, LeaseShape, Bound, Configured

LEMMA DhcpIsServer == DhcpServers \subseteq Servers
  BY DEF Servers

(* A new transaction: no acknowledgement has its identifier yet. *)
LEMMA AddressInvRequest ==
    ASSUME TypeInv, AddressInv, NEW c \in Clients, NEW try, Request(c, try),
           client' = c, c = client, pc' = "waiting", UNCHANGED <<offered, lease>>
    PROVE  AddressInv'
  <1>1. requests' = requests + 1 /\ requests \in Nat
    BY DEF Request, TypeInv, TypeOK
  <1>2. ASSUME NEW p \in packets' PROVE (AckBacked(p) /\ RarpOnly(p))'
    <2>1. CASE p \in packets
      <3>1. p.id \in 1..requests /\ AckBacked(p) /\ RarpOnly(p)
        BY <2>1 DEF TypeInv, PacketOK, AddressInv
      <3>2. p.id = BootpID' => BootpID' = BootpID
        BY <3>1, <1>1 DEF Request
      <3> QED BY <3>1, <3>2 DEF AckBacked, RarpOnly
    <2>2. CASE p = Packet(RequestType(c), requests', NoServer, NoAddr)
      BY <2>2, ServerAssumption DEF Packet, RequestType, AckBacked, RarpOnly
    <2> QED BY <2>1, <2>2 DEF Request, Send
  <1>3. LeaseShape' /\ Bound'
    BY DEF AddressInv, LeaseShape, Bound, Configured
  <1> QED BY <1>2, <1>3 DEF AddressInv

(* A packet that is neither an acknowledgement nor about RARP. *)
LEMMA AddressInvAnswer ==
    ASSUME AddressInv, NEW q, Answer(q), UNCHANGED lease,
           q.type # "ack", RarpOnly(q)
    PROVE  AddressInv'
  <1>1. (\A p \in packets : AckBacked(p) /\ RarpOnly(p))'
    BY DEF AddressInv, Answer, Send, AckBacked, RarpOnly
  <1>2. LeaseShape' /\ Bound'
    BY DEF AddressInv, Answer, LeaseShape, Bound, Configured, config
  <1> QED BY <1>1, <1>2 DEF AddressInv

LEMMA AddressInvAck ==
    ASSUME TypeInv, AddressInv, NEW s \in Servers, NEW p \in packets, SrvAck(s, p)
    PROVE  AddressInv'
  <1>1. /\ s \in DhcpServers /\ p.id \in 1..requests /\ p.id <= BootpID /\ p.addr = Addr(s, p.id)
        /\ p.id >= lease[s].id /\ lease[s].id \in Nat /\ BootpID \in Nat
    BY CountAssumption DEF SrvAck, Acceptable, TypeInv, TypeOK, PacketOK, Ids
  <1>2. /\ lease'[s].addr = Addr(s, p.id) /\ lease'[s].id = p.id
        /\ \A t \in Servers : t # s => lease'[t] = lease[t]
    BY <1>1 DEF SrvAck, TypeInv, TypeOK
  (* A lease of the current transaction can only be given once more. *)
  <1>3. lease[s].id = BootpID /\ BootpID # 0 => lease'[s].addr = lease[s].addr /\ lease'[s].id = lease[s].id
    <2>1. lease[s].id # 0 => lease[s].addr = Addr(s, lease[s].id)
      BY DEF AddressInv, LeaseShape, NoLease
    <2> QED BY <1>1, <1>2, <2>1
  <1>4. UNCHANGED <<client, pc, BootpID, config>>
    BY DEF SrvAck, Answer
  <1>5. ASSUME NEW q \in packets' PROVE (AckBacked(q) /\ RarpOnly(q))'
    <2>1. CASE q \in packets
      <3>1. AckBacked(q) /\ RarpOnly(q) /\ PacketOK(q)
        BY <2>1 DEF AddressInv, TypeInv
      <3>2. q.type = "ack" => q.server \in Servers /\ q.id # 0
        BY <3>1 DEF PacketOK
      <3> QED BY <1>2, <1>3, <1>4, <3>1, <3>2 DEF AckBacked, RarpOnly
    <2>2. CASE q = Packet("ack", p.id, s, p.addr)
      BY <2>2, <1>1, <1>2 DEF Packet, AckBacked, RarpOnly
    <2> QED BY <2>1, <2>2 DEF SrvAck, Answer, Send
  <1>6. LeaseShape'
    BY <1>2 DEF AddressInv, LeaseShape
  <1>7. Bound'
    BY <1>2, <1>3, <1>4, DhcpIsServer DEF AddressInv, Bound, Configured, config
  <1> QED BY <1>5, <1>6, <1>7 DEF AddressInv

LEMMA AddressInvRelease ==
    ASSUME TypeInv, AddressInv, NEW s \in Servers, NEW p \in packets, SrvRelease(s, p)
    PROVE  AddressInv'
  <1>1. lease[s].id < p.id /\ p.id <= BootpID /\ lease[s].id # BootpID
    <2>1. lease[s].id < p.id /\ p.id <= BootpID
      BY DEF SrvRelease, TypeInv, PacketOK
    <2>2. lease[s].id \in Int /\ p.id \in Int /\ BootpID \in Int
      BY CountAssumption DEF TypeInv, TypeOK, PacketOK, Ids
    <2> QED BY <2>1, <2>2
  <1>2. lease'[s] = NoLease /\ \A t \in Servers : t # s => lease'[t] = lease[t]
    BY DEF SrvRelease, TypeInv, TypeOK
  <1>3. UNCHANGED <<client, pc, BootpID, config, packets>>
    BY DEF SrvRelease
  <1>4. ASSUME NEW q \in packets' PROVE (AckBacked(q) /\ RarpOnly(q))'
    <2>1. AckBacked(q) /\ RarpOnly(q) /\ (q.type = "ack" => q.server \in Servers)
      BY <1>3 DEF AddressInv, TypeInv, PacketOK
    <2> QED BY <1>1, <1>2, <1>3, <2>1 DEF AckBacked, RarpOnly
  <1>5. LeaseShape'
    BY <1>2 DEF AddressInv, LeaseShape
  <1>6. Bound'
    BY <1>1, <1>2, <1>3, DhcpIsServer DEF AddressInv, Bound, Configured, config
  <1> QED BY <1>4, <1>5, <1>6 DEF AddressInv

LEMMA AddressInvReceive ==
    ASSUME TypeInv, AddressInv, Receive
    PROVE  AddressInv'
  <1> PICK p \in packets : BootpHandler(p) \/ DhcpSelect(p) \/ DhcpBind(p) \/ RarpReply(p)
    BY DEF Receive
  <1>1. PacketOK(p) /\ AckBacked(p) /\ RarpOnly(p)
    BY DEF TypeInv, AddressInv
  <1>2. CASE BootpHandler(p)
    BY <1>2 DEF BootpHandler, AddressInv, AckBacked, RarpOnly, LeaseShape, Bound,
                Configured, servers
  <1>3. CASE DhcpSelect(p)
    <2>1. UNCHANGED <<client, pc, BootpID, lease>> /\ pc = "waiting"
      BY <1>3 DEF DhcpSelect, servers
    <2>2. ASSUME NEW q \in packets' PROVE q \in packets \/ q.type = "request"
      BY <1>3 DEF DhcpSelect, Send, Packet
    <2>3. (\A q \in packets : AckBacked(q) /\ RarpOnly(q))'
      BY <2>1, <2>2 DEF AddressInv, AckBacked, RarpOnly
    <2> QED BY <2>1, <2>3 DEF AddressInv, LeaseShape, Bound, Configured
  <1>4. CASE DhcpBind(p)
    <2>1. /\ p.server \in DhcpServers /\ p.addr = Addr(p.server, p.id) /\ p.id # 0
          /\ lease[p.server].addr = p.addr /\ lease[p.server].id = BootpID
          /\ p.id = BootpID
      BY <1>1, <1>4 DEF DhcpBind, BootpCheckPkt, PacketOK, AckBacked
    <2>2. /\ NetDHCPServerIP' = p.server /\ NetOurIP' = p.addr
          /\ p.server \in Gateways => NetOurGatewayIP' = p.server
          /\ UNCHANGED <<client, BootpID, packets, lease>> /\ client = "DHCP"
      BY <1>4 DEF DhcpBind, DhcpOptionsProcess, ServerOption, HasGateway, servers
    <2>3. Bound'
      BY <2>1, <2>2 DEF Bound, Addr
    <2> QED BY <2>2, <2>3 DEF AddressInv, AckBacked, RarpOnly, LeaseShape
  <1>5. CASE RarpReply(p)
    <2>1. client = "RARP"
      BY <1>1, <1>5 DEF RarpReply, RarpOnly
    <2>2. UNCHANGED <<client, BootpID, packets, lease>>
      BY <1>5 DEF RarpReply, servers
    <2> QED BY <2>1, <2>2 DEF AddressInv, AckBacked, RarpOnly, LeaseShape, Bound
  <1> QED BY <1>2, <1>3, <1>4, <1>5

LEMMA AddressInvNext ==
    ASSUME ~Mixed, TypeInv, AddressInv, [Next]_vars
    PROVE  AddressInv'
  <1>1. CASE Start
    BY <1>1, AddressInvRequest DEF Start, NetLoopStart, servers
  <1>2. CASE Timeout
    <2>1. CASE Try >= TIMEOUT_COUNT
      BY <1>2, <2>1 DEF Timeout, AddressInv, AckBacked, RarpOnly, LeaseShape, Bound,
                        Configured, config, servers
    <2>2. CASE ~(Try >= TIMEOUT_COUNT)
      BY <1>2, <2>2, AddressInvRequest DEF Timeout, servers, TypeInv, TypeOK
    <2> QED BY <2>1, <2>2
  <1>3. CASE Receive
    BY <1>3, AddressInvReceive
  <1>4. CASE Serve
    <2> PICK s \in Servers, p \in packets :
            \/ SrvReply(s, p) \/ SrvOffer(s, p) \/ SrvAck(s, p) \/ SrvNak(s, p)
            \/ SrvRelease(s, p) \/ SrvRarp(s, p)
      BY <1>4 DEF Serve
    <2>1. CASE SrvReply(s, p)
      BY <2>1, AddressInvAnswer DEF SrvReply, servers, Packet, RarpOnly
    <2>2. CASE SrvOffer(s, p)
      BY <2>2, AddressInvAnswer DEF SrvOffer, Packet, RarpOnly
    <2>3. CASE SrvAck(s, p)
      BY <2>3, AddressInvAck
    <2>4. CASE SrvNak(s, p)
      BY <2>4, AddressInvAnswer DEF SrvNak, Packet, RarpOnly
    <2>5. CASE SrvRelease(s, p)
      BY <2>5, AddressInvRelease
    <2>6. CASE SrvRarp(s, p)
      <3>1. client = "RARP"
        BY <2>6 DEF SrvRarp, AddressInv, RarpOnly
      <3> QED BY <2>6, <3>1, AddressInvAnswer DEF SrvRarp, servers, Packet, RarpOnly
    <2> QED BY <2>1, <2>2, <2>3, <2>4, <2>5, <2>6
  <1>5. CASE UNCHANGED vars
    BY <1>5 DEF vars, AddressInv, AckBacked, RarpOnly, LeaseShape, Bound, Configured
  <1> QED BY <1>1, <1>2, <1>3, <1>4, <1>5 DEF Next

LEMMA AddressInvariance == ASSUME ~Mixed PROVE Spec => [](TypeInv /\ AddressInv)
  <1>1. Init => TypeInv /\ AddressInv
    BY TypeInvInit, AddressInvInit
  <1>2. TypeInv /\ AddressInv /\ [Next]_vars => (TypeInv /\ AddressInv)'
    BY TypeInvNext, AddressInvNext
  <1> QED BY <1>1, <1>2, PTL DEF Spec

(* While one protocol is used throughout, DHCP ends with an address that the
   server it is bound to has leased to it (DhcpHandler, BootpCheckPkt), for any
   number of servers and requests. *)
THEOREM Granted == ASSUME ~Mixed PROVE Spec => []AddressGranted
  <1>1. AddressInv => AddressGranted
    BY DEF AddressInv, Bound, AddressGranted
  <1> QED BY <1>1, AddressInvariance, PTL

(* The gateway is then that server's, if it names one, whatever gateway the
   environment, an earlier command or another server's offer had brought
   (DhcpOptionsProcess). *)
THEOREM GatewayOfServer == ASSUME ~Mixed PROVE Spec => []GatewayFollows
  <1>1. AddressInv => GatewayFollows
    BY DEF AddressInv, Bound, GatewayFollows
  <1> QED BY <1>1, AddressInvariance, PTL

-----------------------------------------------------------------------------
(* The inductive invariant of the leases, whatever protocols are used: requests
   for an offer are made once in a transaction, by the choice that ends SELECTING. *)

Requested(id, s) == \E p \in packets : p.type = "request" /\ p.id = id /\ p.server = s

OneRequest ==
    \A p, q \in packets :
        p.type = "request" /\ q.type = "request" /\ p.id = q.id => p.server = q.server

NotYet ==
    dhcp_state = "SELECTING" => \A p \in packets : p.type = "request" => p.id # BootpID

LeaseInv ==
    /\ OneRequest /\ NotYet
    /\ \A s \in DhcpServers : lease[s] # NoLease => Requested(lease[s].id, s)

LEMMA LeaseInvInit == Init => LeaseInv
  BY DhcpIsServer DEF Init, LeaseInv, OneRequest, NotYet

(* Any other packet. *)
LEMMA LeaseInvSend ==
    ASSUME LeaseInv, NEW q, q.type # "request", Send(q),
           NotYet', UNCHANGED lease
    PROVE  LeaseInv'
  BY DEF LeaseInv, OneRequest, Requested, Send

(* A new transaction: nothing has been requested in it, as its number is new;
   RARP begins none. *)
LEMMA LeaseInvRequest ==
    ASSUME TypeInv, LeaseInv, NEW c \in Clients, NEW try, Request(c, try), UNCHANGED lease
    PROVE  LeaseInv'
  <1> DEFINE q == Packet(RequestType(c), requests', NoServer, NoAddr)
  <1>1. q.type # "request" /\ Send(q)
    BY ServerAssumption DEF Packet, RequestType, Request
  <1>2. \A p \in packets : p.type = "request" => p.id <= BootpID /\ p.id \in Nat
    BY DEF TypeInv, PacketOK
  <1>3. BootpID <= requests /\ BootpID \in Nat /\ requests \in Nat
    BY CountAssumption DEF TypeInv, TypeOK, Ids
  <1>4. NotYet'
    <2>1. CASE c = "RARP"
      <3>1. UNCHANGED <<dhcp_state, BootpID>>
        BY <2>1 DEF Request
      <3> QED BY <1>1, <3>1 DEF LeaseInv, NotYet, Send
    <2>2. CASE c # "RARP"
      <3>1. BootpID' = requests + 1
        BY <2>2 DEF Request
      <3>2. \A p \in packets : p.type = "request" => p.id # BootpID'
        BY <1>2, <1>3, <3>1
      <3> QED BY <1>1, <3>2 DEF NotYet, Send
    <2> QED BY <2>1, <2>2
  <1> QED BY <1>1, <1>4, LeaseInvSend

LEMMA LeaseInvReceive ==
    ASSUME TypeInv, LeaseInv, Receive
    PROVE  LeaseInv'
  <1> PICK p \in packets : BootpHandler(p) \/ DhcpSelect(p) \/ DhcpBind(p) \/ RarpReply(p)
    BY DEF Receive
  <1>1. CASE BootpHandler(p)
    BY <1>1 DEF BootpHandler, LeaseInv, OneRequest, NotYet, Requested, servers
  <1>2. CASE DhcpSelect(p)
    <2> PICK srv : srv = NetDHCPServerIP'
      OBVIOUS
    <2> DEFINE q == Packet("request", p.id, srv, p.addr)
    <2>1. packets' = packets \cup {q} /\ UNCHANGED lease /\ dhcp_state' = "REQUESTING"
      BY <1>2 DEF DhcpSelect, Send, servers
    <2>2. q.type = "request" /\ q.id = BootpID /\ q.server = srv
      BY <1>2 DEF DhcpSelect, BootpCheckPkt, Packet
    <2>3. \A r \in packets : r.type = "request" => r.id # BootpID
      BY <1>2 DEF DhcpSelect, LeaseInv, NotYet
    <2>4. OneRequest'
      BY <2>1, <2>2, <2>3 DEF LeaseInv, OneRequest
    <2>5. \A id, s : Requested(id, s) => Requested(id, s)'
      BY <2>1 DEF Requested
    <2> QED BY <2>1, <2>4, <2>5 DEF LeaseInv, NotYet
  <1>3. CASE DhcpBind(p)
    BY <1>3 DEF DhcpBind, LeaseInv, OneRequest, NotYet, Requested, servers
  <1>4. CASE RarpReply(p)
    BY <1>4 DEF RarpReply, LeaseInv, OneRequest, NotYet, Requested, servers
  <1> QED BY <1>1, <1>2, <1>3, <1>4

LEMMA LeaseInvServe ==
    ASSUME TypeInv, LeaseInv, Serve
    PROVE  LeaseInv'
  <1> PICK s \in Servers, p \in packets :
            \/ SrvReply(s, p) \/ SrvOffer(s, p) \/ SrvAck(s, p) \/ SrvNak(s, p)
            \/ SrvRelease(s, p) \/ SrvRarp(s, p)
    BY DEF Serve
  <1>1. ASSUME NEW q, Answer(q), q.type # "request" PROVE NotYet'
    BY <1>1 DEF Answer, Send, LeaseInv, NotYet
  <1>2. CASE SrvReply(s, p)
    BY <1>1, <1>2, LeaseInvSend DEF SrvReply, Answer, Packet, servers
  <1>3. CASE SrvOffer(s, p)
    BY <1>1, <1>3, LeaseInvSend DEF SrvOffer, Answer, Packet
  <1>4. CASE SrvNak(s, p)
    BY <1>1, <1>4, LeaseInvSend DEF SrvNak, Answer, Packet
  <1>5. CASE SrvRarp(s, p)
    BY <1>1, <1>5, LeaseInvSend DEF SrvRarp, Answer, Packet, servers
  <1>6. CASE SrvAck(s, p)
    <2> DEFINE q == Packet("ack", p.id, s, p.addr)
    <2>1. Answer(q) /\ q.type # "request" /\ packets' = packets \cup {q}
      BY <1>6 DEF SrvAck, Answer, Send, Packet
    <2>2. \A id, t : Requested(id, t) => Requested(id, t)'
      BY <2>1 DEF Requested
    <2>3. Requested(p.id, s)
      BY <1>6 DEF SrvAck, Acceptable, Requested
    <2>4. ASSUME NEW t \in DhcpServers PROVE (lease[t] # NoLease => Requested(lease[t].id, t))'
      <3>1. lease' = [lease EXCEPT ![s] = [addr |-> p.addr, id |-> p.id]]
        BY <1>6 DEF SrvAck
      <3>2. CASE t = s
        <4>1. lease'[t].id = p.id
          BY <3>1, <3>2 DEF TypeInv, TypeOK
        <4> QED BY <2>2, <2>3, <3>2, <4>1
      <3>3. CASE t # s
        <4>1. lease'[t] = lease[t]
          BY <3>1, <3>3, DhcpIsServer DEF TypeInv, TypeOK
        <4> QED BY <2>2, <4>1 DEF LeaseInv
      <3> QED BY <3>2, <3>3
    <2>5. OneRequest'
      BY <2>1 DEF LeaseInv, OneRequest
    <2> QED BY <1>1, <2>1, <2>4, <2>5 DEF LeaseInv
  <1>7. CASE SrvRelease(s, p)
    <2>1. lease' = [lease EXCEPT ![s] = NoLease] /\ UNCHANGED <<packets, dhcp_state, BootpID>>
      BY <1>7 DEF SrvRelease
    <2> QED BY <2>1, DhcpIsServer DEF LeaseInv, OneRequest, NotYet, Requested, TypeInv, TypeOK
  <1> QED BY <1>2, <1>3, <1>4, <1>5, <1>6, <1>7

LEMMA LeaseInvNext ==
    ASSUME TypeInv, LeaseInv, [Next]_vars
    PROVE  LeaseInv'
  <1>1. CASE Start
    BY <1>1, LeaseInvRequest DEF Start, NetLoopStart, servers
  <1>2. CASE Timeout
    <2>1. CASE Try >= TIMEOUT_COUNT
      BY <1>2, <2>1 DEF Timeout, LeaseInv, OneRequest, NotYet, Requested, servers
    <2>2. CASE ~(Try >= TIMEOUT_COUNT)
      BY <1>2, <2>2, LeaseInvRequest DEF Timeout, servers, TypeInv, TypeOK
    <2> QED BY <2>1, <2>2
  <1>3. CASE Receive
    BY <1>3, LeaseInvReceive
  <1>4. CASE Serve
    BY <1>4, LeaseInvServe
  <1>5. CASE UNCHANGED vars
    BY <1>5 DEF vars, LeaseInv, OneRequest, NotYet, Requested
  <1> QED BY <1>1, <1>2, <1>3, <1>4, <1>5 DEF Next

(* However many servers offer an address for a DISCOVER, and however late, no more
   than one leases its own for it, since the client chooses once (DhcpHandler in
   SELECTING). *)
THEOREM NeverTwoLeases == Spec => []OneLease
  <1>1. Init => TypeInv /\ LeaseInv
    BY TypeInvInit, LeaseInvInit
  <1>2. TypeInv /\ LeaseInv /\ [Next]_vars => (TypeInv /\ LeaseInv)'
    BY TypeInvNext, LeaseInvNext
  <1>3. TypeInv /\ LeaseInv => OneLease
    <2> SUFFICES ASSUME TypeInv, LeaseInv, NEW s \in DhcpServers, NEW t \in DhcpServers,
                        lease[s] # NoLease, lease[t].id = lease[s].id
                 PROVE  s = t
      BY DEF OneLease
    <2>1. Requested(lease[s].id, s)
      BY DEF LeaseInv
    <2>2. lease[t] # NoLease
      BY <2>1, CountAssumption DEF Requested, TypeInv, PacketOK, NoLease
    <2>3. Requested(lease[s].id, t)
      BY <2>2 DEF LeaseInv
    <2> QED BY <2>1, <2>3 DEF LeaseInv, OneRequest, Requested
  <1> QED BY <1>1, <1>2, <1>3, PTL DEF Spec

=============================================================================
