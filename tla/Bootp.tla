------------------------------- MODULE Bootp --------------------------------
(***************************************************************************)
(* How the boot loader gets its address: BOOTP and DHCP (net/bootp.c) and  *)
(* RARP (net/rarp.c, NetReceive), with servers that compete. Which of BOOTP *)
(* and DHCP is there is a matter of the build; the board has BOOTP.        *)
(*                                                                         *)
(* The network keeps every packet: it may deliver it late, more than once, *)
(* out of order or never. Packets that are malformed, or for other ports,  *)
(* which BootpCheckPkt drops, are left out. Identifier BootpID, the time   *)
(* of the request, is the number of the request: between two of them pass  *)
(* seconds.                                                                *)
(***************************************************************************)
EXTENDS Integers

CONSTANTS
    Clients,        \* the protocols that are used: "BOOTP", "DHCP", "RARP"
    Mixed,          \* one after the other; else always the same one
    DhcpServers,    \* servers that speak DHCP (and BOOTP)
    BootpServers,   \* servers that know BOOTP only
    RarpServers,    \* servers that answer RARP
    Gateways,       \* servers that name a gateway (option 3)
    NoServer,       \* the address 0.0.0.0
    TIMEOUT_COUNT,
    MaxRequests     \* bound: requests that are sent

Servers == DhcpServers \cup BootpServers \cup RarpServers
Ids     == 1..MaxRequests

ASSUME ServerAssumption ==
    /\ NoServer \notin Servers
    /\ DhcpServers \cap BootpServers = {} /\ Gateways \subseteq Servers
    /\ Clients \subseteq {"BOOTP", "DHCP", "RARP"} /\ Mixed \in BOOLEAN
ASSUME CountAssumption == TIMEOUT_COUNT \in Nat \ {0} /\ MaxRequests \in Nat

(* An address that a server gives: the one it has for this client in its table,
   or a fresh one for this transaction. *)
NoAddr      == [server |-> NoServer, id |-> 0]
Addr(s, id) == [server |-> s, id |-> id]
Addrs       == [server : Servers, id : Ids \cup {0}]

VARIABLES
    client,         \* protocol: the command that runs, or ran last
    pc,             \* "prompt", "waiting" for an answer, "success" or "loading"
    dhcp_state,     \* INIT, SELECTING, REQUESTING or BOUND
    Try,            \* BootpTry, RarpTry
    BootpID,
    NetOurIP,
    NetDHCPServerIP,
    NetOurGatewayIP,    \* the gateway that is used, by the server that names it
    requests,       \* requests so far: the time
    packets,        \* everything that was ever sent
    offered,        \* external, offered[s]: the transactions that s has made an offer for
    lease           \* external, lease[s]: the address that s has given us, and when

vars == <<client, pc, dhcp_state, Try, BootpID, NetOurIP, NetDHCPServerIP, NetOurGatewayIP,
          requests, packets, offered, lease>>
servers == <<offered, lease>>
config  == <<NetOurIP, NetDHCPServerIP, NetOurGatewayIP>>

Packet(t, id, s, a) == [type |-> t, id |-> id, server |-> s, addr |-> a]
NoLease == [addr |-> NoAddr, id |-> 0]

-----------------------------------------------------------------------------
(* The client's requests.                                                    *)

Send(p) == packets' = packets \cup {p}

RequestType(c) == CASE c = "BOOTP" -> "bootrequest" [] c = "DHCP" -> "discover" [] c = "RARP" -> "rarp"

(* BootpRequest, DhcpRequest and RarpRequest, the try'th of this start. *)
Request(c, try) ==
    /\ requests' = requests + 1 /\ Try' = try
    /\ BootpID' = IF c = "RARP" THEN BootpID ELSE requests'
    /\ dhcp_state' = IF c = "DHCP" THEN "SELECTING" ELSE dhcp_state
    /\ Send(Packet(RequestType(c), requests', NoServer, NoAddr))

(* NetLoop, on a command or for a restart: "BootpTry = 0; NetOurIP = 0". The
   gateway stays, or is read again from "gatewayip" if the environment has changed
   (NetInitLoop), where netboot_update_env has saved it or there is none. *)
NetLoopStart(c) ==
    /\ pc # "waiting" /\ requests + TIMEOUT_COUNT <= MaxRequests
    /\ client' = c /\ pc' = "waiting"
    /\ NetOurIP' = NoAddr
    /\ NetOurGatewayIP' \in {NetOurGatewayIP, NoServer}
    /\ Request(c, 1)
    /\ UNCHANGED <<NetDHCPServerIP, servers>>

TimeoutOneMore ==
    /\ pc = "waiting"
    /\ IF Try > TIMEOUT_COUNT
       THEN /\ pc' = "prompt"
            /\ UNCHANGED <<dhcp_state, Try, BootpID, requests, packets>>
       ELSE Request(client, Try + 1) /\ UNCHANGED pc
    /\ UNCHANGED <<client, config, servers>>

TimeoutNotAgain ==
    /\ pc = "waiting" /\ Try < TIMEOUT_COUNT
    /\ Request(client, Try + 1)
    /\ UNCHANGED <<client, pc, config, servers>>

(* BootpTimeout and RarpTimeout; NetStartAgain ends this start of NetLoop. *)
Timeout ==
    /\ pc = "waiting"
    /\ IF Try >= TIMEOUT_COUNT
       THEN /\ pc' = "prompt"
            /\ UNCHANGED <<dhcp_state, Try, BootpID, requests, packets>>
       ELSE Request(client, Try + 1) /\ UNCHANGED pc
    /\ UNCHANGED <<client, config, servers>>

-----------------------------------------------------------------------------
(* The answers.                                                              *)

CheckAnyId(p) == p.type \in {"reply", "offer", "ack", "nak"}

(* BootpCheckPkt *)
BootpCheckPkt(p) == p.type \in {"reply", "offer", "ack", "nak"} /\ p.id = BootpID

(* "autoload": do not load the file, or TftpStart and NfsStart, with handlers
   of their own. *)
Finish == pc' \in {"success", "loading"}

(* Option 3; a server leaves it out, and refusals have none. *)
HasGateway(p) == p.server \in Gateways /\ p.type # "nak"

(* BootpVendorFieldProcess: the gateway is set only if there is none yet. *)
BootpVendorProcess(p) ==
    NetOurGatewayIP' = IF HasGateway(p) /\ NetOurGatewayIP = NoServer THEN p.server
                                                                     ELSE NetOurGatewayIP

BootpHandler(p) ==
    /\ pc = "waiting" /\ client = "BOOTP" /\ BootpCheckPkt(p)
    /\ NetOurIP' = p.addr
    /\ BootpVendorProcess(p)
    /\ Finish
    /\ UNCHANGED <<client, dhcp_state, Try, BootpID, NetDHCPServerIP, requests,
                   packets, servers>>

ServerOption(p) == NetDHCPServerIP' = IF p.type = "reply" THEN NetDHCPServerIP ELSE p.server

DhcpOptionsOnce(p) == ServerOption(p) /\ BootpVendorProcess(p)

(* DhcpOptionsProcess: an option that is there replaces what was known, also one
   of a plain BOOTP reply, which names no DHCP server; one that is missing leaves
   it. *)
DhcpOptionsProcess(p) ==
    /\ ServerOption(p)
    /\ NetOurGatewayIP' = IF HasGateway(p) THEN p.server ELSE NetOurGatewayIP

DhcpSelectAny(p) ==
    /\ pc = "waiting" /\ client = "DHCP" /\ BootpCheckPkt(p)
    /\ dhcp_state = "SELECTING" \/ p.type = "offer"
    /\ dhcp_state' = "REQUESTING"
    /\ DhcpOptionsProcess(p)
    /\ Send(Packet("request", p.id, NetDHCPServerIP', p.addr))
    /\ UNCHANGED <<client, pc, Try, BootpID, NetOurIP, requests, servers>>

(* DhcpHandler in SELECTING: whatever comes is taken for an offer. The request
   goes to the server of the options, of an earlier offer if there are none. *)
DhcpSelect(p) ==
    /\ pc = "waiting" /\ client = "DHCP" /\ dhcp_state = "SELECTING" /\ BootpCheckPkt(p)
    /\ dhcp_state' = "REQUESTING"
    /\ DhcpOptionsProcess(p)
    /\ Send(Packet("request", p.id, NetDHCPServerIP', p.addr))
    /\ UNCHANGED <<client, pc, Try, BootpID, NetOurIP, requests, servers>>

(* DhcpHandler in REQUESTING: everything but an ACK is dropped, a NAK too. *)
DhcpBind(p) ==
    /\ pc = "waiting" /\ client = "DHCP" /\ dhcp_state = "REQUESTING" /\ BootpCheckPkt(p)
    /\ p.type = "ack"
    /\ DhcpOptionsProcess(p)
    /\ NetOurIP' = p.addr
    /\ dhcp_state' = "BOUND"
    /\ Finish
    /\ UNCHANGED <<client, Try, BootpID, requests, packets, servers>>

(* NetReceive of a RARP reply, while the network loop runs, whatever its
   protocol; the handlers of the others ignore the call that RarpHandler waits for. *)
RarpReply(p) ==
    /\ pc \in {"waiting", "loading"} /\ p.type = "rarpreply"
    /\ NetOurIP' = p.addr
    /\ IF pc = "waiting" /\ client = "RARP" THEN Finish ELSE UNCHANGED pc
    /\ UNCHANGED <<client, dhcp_state, Try, BootpID, NetDHCPServerIP, NetOurGatewayIP,
                   requests, packets, servers>>

-----------------------------------------------------------------------------
(* The servers (external): as RFC 951, RFC 2131 and RFC 903 have them.       *)

Answer(p) ==
    /\ Send(p)
    /\ UNCHANGED <<client, pc, dhcp_state, Try, BootpID, config, requests>>

(* A BOOTP server, and a DHCP server asked with BOOTP, has an address in its table. *)
SrvReply(s, p) ==
    /\ \/ s \in DhcpServers /\ p.type = "bootrequest"
       \/ s \in BootpServers /\ p.type \in {"bootrequest", "discover"}
    /\ Answer(Packet("reply", p.id, s, Addr(s, 0)))
    /\ UNCHANGED servers

SrvOffer(s, p) ==
    /\ s \in DhcpServers /\ p.type = "discover" /\ p.id \notin offered[s]
    /\ offered' = [offered EXCEPT ![s] = @ \cup {p.id}]
    /\ Answer(Packet("offer", p.id, s, Addr(s, p.id)))
    /\ UNCHANGED lease

(* A request for its offer, which no later request has made void. *)
Acceptable(s, p) == p.server = s /\ p.id \in offered[s] /\ p.addr = Addr(s, p.id) /\ p.id >= lease[s].id

SrvAck(s, p) ==
    /\ s \in DhcpServers /\ p.type = "request" /\ Acceptable(s, p)
    /\ lease' = [lease EXCEPT ![s] = [addr |-> p.addr, id |-> p.id]]
    /\ Answer(Packet("ack", p.id, s, p.addr))
    /\ UNCHANGED offered

(* It may also refuse, and has to when it has made no such offer. *)
SrvNak(s, p) ==
    /\ s \in DhcpServers /\ p.type = "request" /\ p.server = s
    /\ lease[s].id < p.id
    /\ offered' = [offered EXCEPT ![s] = @ \ {p.id}]
    /\ Answer(Packet("nak", p.id, s, NoAddr))
    /\ UNCHANGED lease

(* A later request that goes to another server gives the address up. *)
SrvRelease(s, p) ==
    /\ s \in DhcpServers /\ p.type = "request" /\ p.server # s
    /\ lease[s] # NoLease /\ lease[s].id < p.id
    /\ lease' = [lease EXCEPT ![s] = NoLease]
    /\ UNCHANGED <<client, pc, dhcp_state, Try, BootpID, config, requests, packets, offered>>

SrvRarp(s, p) ==
    /\ s \in RarpServers /\ p.type = "rarp"
    /\ Answer(Packet("rarpreply", p.id, s, Addr(s, 0)))
    /\ UNCHANGED servers

-----------------------------------------------------------------------------
Init ==
    /\ client \in Clients /\ pc = "prompt" /\ dhcp_state = "INIT"
    /\ Try = 0 /\ BootpID = 0
    /\ NetOurIP = NoAddr /\ NetDHCPServerIP = NoServer /\ NetOurGatewayIP = NoServer
    /\ requests = 0 /\ packets = {}
    /\ offered = [s \in Servers |-> {}] /\ lease = [s \in Servers |-> NoLease]

Receive == \E p \in packets : BootpHandler(p) \/ DhcpSelect(p) \/ DhcpBind(p) \/ RarpReply(p)

Serve == \E s \in Servers, p \in packets :
            \/ SrvReply(s, p) \/ SrvOffer(s, p) \/ SrvAck(s, p) \/ SrvNak(s, p)
            \/ SrvRelease(s, p) \/ SrvRarp(s, p)

Start == \E c \in Clients : (Mixed \/ c = client) /\ NetLoopStart(c)

Next == Start \/ Timeout \/ Receive \/ Serve

Spec == Init /\ [][Next]_vars

(* The timer expires if nothing else ends the waiting. *)
FairSpec == Spec /\ WF_vars(Timeout)

-----------------------------------------------------------------------------
TypeOK ==
    /\ client \in Clients /\ pc \in {"prompt", "waiting", "success", "loading"}
    /\ dhcp_state \in {"INIT", "SELECTING", "REQUESTING", "BOUND"}
    /\ Try \in 0..TIMEOUT_COUNT /\ BootpID \in Ids \cup {0}
    /\ NetOurIP \in Addrs \cup {NoAddr}
    /\ NetDHCPServerIP \in DhcpServers \cup {NoServer}
    /\ NetOurGatewayIP \in Servers \cup {NoServer}
    /\ requests \in 0..MaxRequests
    /\ \A p \in packets : p.id \in 1..requests
    /\ offered \in [Servers -> SUBSET Ids]
    /\ lease \in [Servers -> [addr : Addrs \cup {NoAddr}, id : Ids \cup {0}]]

Configured == pc \in {"success", "loading"}

(* DHCP ends with an address that the server it is bound to has leased to it and
   has not been told to give up: late answers to earlier requests, answers of
   other servers and refused requests do not confuse it (DhcpHandler). *)
AddressGranted ==
    Configured /\ client = "DHCP" => lease[NetDHCPServerIP].addr = NetOurIP

(* Several servers offer an address for one DISCOVER, and late offers come after
   the choice: no more than one of them ever leases its own for it (DhcpHandler). *)
OneLease ==
    \A s, t \in DhcpServers : lease[s] # NoLease /\ lease[t].id = lease[s].id => s = t

(* If the server that the address is from names a gateway, it is the one that is
   used: not one of an offer that was not taken, of an earlier command or of the
   environment (DhcpOptionsProcess). *)
GatewayFollows ==
    Configured /\ client = "DHCP" /\ NetOurIP.server \in Gateways
        => NetOurGatewayIP = NetOurIP.server

(* Stronger: no other server's gateway is used, be it that the address is from a
   server that names none (DhcpOptionsProcess) or that there was one before
   (BootpVendorFieldProcess). *)
NoOtherGateway ==
    Configured /\ client # "RARP" => NetOurGatewayIP \in {NetOurIP.server, NoServer}

(* The wait for an answer ends, whether or not somebody answers (BootpTimeout,
   RarpTimeout). *)
WaitEnds == (pc = "waiting") ~> (pc # "waiting")

=============================================================================
