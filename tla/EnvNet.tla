------------------------------- MODULE EnvNet -------------------------------
(***************************************************************************)
(* The environment and the network commands: netboot_common                *)
(* (common/cmd_net.c) takes load_addr and BootFile from the environment    *)
(* and from its arguments, NetInitLoop (net/net.c) copies "ipaddr" into    *)
(* NetOurIP when the environment has changed, answers from the network     *)
(* change NetOurIP and BootFile while the command runs, and                *)
(* netboot_update_env writes back what a successful NetLoop has learnt.    *)
(*                                                                         *)
(* proto is "BOOTP" for the protocols that begin by clearing NetOurIP      *)
(* (BOOTP, DHCP, RARP), "TFTP" for those that load with the address there  *)
(* is (TFTP, NFS), and "PING" for those that load nothing (PING, SNTP,     *)
(* CDP).                                                                   *)
(***************************************************************************)
EXTENDS EnvVars, Sequences

CONSTANTS
    NetNames,       \* the variables that a network boot sets at its end, in order
    LoadAddr,       \* the variable named "loadaddr"
    BootFile        \* the variable named "bootfile"

ASSUME NetNamesAssumption ==
    /\ NetNames \in Seq(Names)
    /\ \A i \in DOMAIN NetNames : Kind[NetNames[i]] = "plain" \/ NetNames[i] = IpAddr
    /\ \E i \in DOMAIN NetNames : NetNames[i] = IpAddr
ASSUME SettingsAssumption ==
    /\ LoadAddr \in Names /\ Kind[LoadAddr] = "late" /\ LoadAddr # IpAddr
    /\ BootFile \in Names /\ Kind[BootFile] = "late" /\ BootFile # IpAddr

VARIABLES
    loop,       \* where the command interpreter or NetLoop is
    proto,      \* the protocol of the network command
    astray,     \* history: NetOurIP was cleared, or an answer set it, since it was read
    given       \* history: settings that an argument has changed since their variable

netVars == <<data, crc, mirror, envChanged, NetOurIP, loop, proto, astray, given>>

(* What the network commands add to the environment's types. *)
NetTypeOK ==
    /\ RamTypeOK
    /\ loop \in {"prompt", "start", "asking", "loading"}
    /\ proto \in {"PING", "TFTP", "BOOTP"}
    /\ astray \in BOOLEAN
    /\ given \subseteq {LoadAddr, BootFile}

-----------------------------------------------------------------------------

(* setenv at the prompt. *)
SetEnvCommand(n) ==
    /\ loop = "prompt"
    /\ SetEnv(n)
    /\ given' = IF data'[n] = NoVal THEN given ELSE given \ {n}
    /\ UNCHANGED <<loop, proto, astray>>

(* "nboot" and the like: a command that loads an image makes the address of the
   image the default load address.                                           *)
NandLoadImage(addr) ==
    /\ loop = "prompt"
    /\ mirror' = [mirror EXCEPT ![LoadAddr] = addr]
    /\ given' = given \cup {LoadAddr}
    /\ UNCHANGED <<data, crc, envChanged, NetOurIP, loop, proto, astray>>

(* A setting of a command: its argument, if there is one, or else old. *)
Argument(arg, old) == IF arg = NoVal THEN old ELSE arg

(* load_addr as netboot_common presets it. *)
PresetAddrMissing == mirror[LoadAddr]
PresetAddr == Argument(data[LoadAddr], mirror[LoadAddr])

(* netboot_common up to NetLoop, with the arguments addr and file (NoVal: not
   given).                                                                   *)
NetbootCommon(p, addr, file) ==
    /\ loop = "prompt"
    /\ loop' = "start"
    /\ proto' = p
    /\ mirror' = [mirror EXCEPT ![LoadAddr] = Argument(addr, PresetAddr),
                                ![BootFile] = Argument(file, mirror[BootFile])]
    /\ given' = (given \ (IF data[LoadAddr] = NoVal THEN {} ELSE {LoadAddr}))
                \cup (IF addr = NoVal THEN {} ELSE {LoadAddr})
                \cup (IF file = NoVal THEN {} ELSE {BootFile})
    /\ UNCHANGED <<data, crc, envChanged, NetOurIP, astray>>

(* do_ping. *)
Ping ==
    /\ loop = "prompt"
    /\ loop' = "start"
    /\ proto' = "PING"
    /\ UNCHANGED <<data, crc, mirror, envChanged, NetOurIP, astray, given>>

-----------------------------------------------------------------------------

(* NetInitLoop: the addresses are reread only if the environment changed. *)
InitLoopIP == IF envChanged THEN mirror[IpAddr] ELSE NetOurIP

(* NetLoop from its restart label on.  net_check_prereq refuses a zero NetOurIP
   with "*** ERROR: `ipaddr' not set"; without an ethernet address it waits for
   another start ("start"), and NetOurIP has been read but not cleared.      *)
NetLoopWith ==
    /\ loop = "start"
    /\ proto # "BOOTP"
    /\ NetOurIP' = InitLoopIP
    /\ astray' = (astray /\ ~envChanged)
    /\ envChanged' = FALSE
    /\ loop' = IF InitLoopIP = NoVal THEN "prompt" ELSE "loading"
    /\ UNCHANGED <<data, crc, mirror, proto, given>>

NetLoopNoEther ==
    /\ loop = "start"
    /\ proto = "BOOTP" \/ InitLoopIP # NoVal
    /\ NetOurIP' = InitLoopIP
    /\ astray' = (astray /\ ~envChanged)
    /\ envChanged' = FALSE
    /\ UNCHANGED <<data, crc, mirror, loop, proto, given>>

NetLoopBootp ==
    /\ loop = "start"
    /\ proto = "BOOTP"
    /\ NetOurIP' = NoVal
    /\ astray' = TRUE
    /\ envChanged' = FALSE
    /\ loop' = "asking"
    /\ UNCHANGED <<data, crc, mirror, proto, given>>

(* NetStartAgain and the timeout after it: NETLOOP_RESTART. *)
NetStartAgain ==
    /\ loop \in {"asking", "loading"}
    /\ loop' = "start"
    /\ UNCHANGED <<data, crc, mirror, envChanged, NetOurIP, proto, astray, given>>

(* A RARP reply is taken whatever the command that runs, in the wait before
   another start too; only the RARP command goes on to load because of it.   *)
RarpReply(v) ==
    /\ loop # "prompt"
    /\ NetOurIP' = v
    /\ astray' = TRUE
    /\ loop' \in {loop} \cup (IF loop = "asking" THEN {"loading"} ELSE {})
    /\ UNCHANGED <<data, crc, mirror, envChanged, proto, given>>

(* One setenv of a network command: e is the environment in RAM. *)
SetOne(e, n, v) ==
    IF v = NoVal THEN e
    ELSE IF TooLong(e.data, n, v) THEN [e EXCEPT !.data = Delete(e.data, n)]
    ELSE LET d == [e.data EXCEPT ![n] = v]
         IN [data |-> d, crc |-> d,
             mirror |-> IF Kind[n] = "late" THEN [e.mirror EXCEPT ![n] = v] ELSE e.mirror]

RamEnv == [data |-> data, crc |-> crc, mirror |-> mirror]

BecomesEnv(e) == data' = e.data /\ crc' = e.crc /\ mirror' = e.mirror

(* BootpCopyNetParams: the address v of a BOOTP reply or DHCP ACK and its file,
   if it names one.  BootFile, whoever set it, becomes the variable.         *)
BootpReply(v, file) ==
    LET f == Argument(file, mirror[BootFile])
        e == [RamEnv EXCEPT !.mirror = [mirror EXCEPT ![BootFile] = f]]
    IN  /\ loop = "asking"
        /\ loop' = "loading"
        /\ NetOurIP' = v
        /\ astray' = TRUE
        /\ BecomesEnv(SetOne(e, BootFile, f))
        /\ envChanged' = (envChanged \/ f # NoVal)
        /\ given' = IF f = NoVal THEN given ELSE given \ {BootFile}
        /\ UNCHANGED proto

-----------------------------------------------------------------------------

(* The environment after all the setenv of a network boot, in order. *)
UpdatedEnv(e, got) ==
    LET after[k \in 0..Len(NetNames)] ==
          IF k = 0 THEN e ELSE SetOne(after[k - 1], NetNames[k], got[NetNames[k]])
    IN after[Len(NetNames)]

(* What NetLoop can know at its end; NoVal stands for zero or empty, which is
   not written ("filesize" and "fileaddr" when no file was loaded).          *)
Learnt == [{NetNames[i] : i \in DOMAIN NetNames} -> Vals \cup {NoVal}]

(* NETLOOP_SUCCESS of a network boot and netboot_update_env after it. *)
NetbootSucceeds(got) ==
    /\ loop = "loading"
    /\ proto # "PING"
    /\ got[IpAddr] = NetOurIP
    /\ loop' = "prompt"
    /\ BecomesEnv(UpdatedEnv(RamEnv, got))
    /\ envChanged' = (envChanged \/ \E n \in DOMAIN got : got[n] # NoVal)
    /\ astray' = (astray /\ NetOurIP = NoVal)
    /\ UNCHANGED <<NetOurIP, proto, given>>

(* NetLoop returns and the environment is not updated: the end of a PING, and
   every failure (no device, no server, ctrl-c, retries used up).            *)
NetLoopReturns ==
    /\ loop # "prompt"
    /\ loop' = "prompt"
    /\ UNCHANGED <<data, crc, mirror, envChanged, NetOurIP, proto, astray, given>>

(* The environment and the network commands, between two resets. *)
RamNext ==
    \/ \E n \in Names : SetEnvCommand(n)
    \/ \E v \in Vals : NandLoadImage(v)
    \/ \E p \in {"TFTP", "BOOTP"}, addr, file \in Vals \cup {NoVal} : NetbootCommon(p, addr, file)
    \/ Ping
    \/ NetLoopWith
    \/ NetLoopNoEther
    \/ NetLoopBootp
    \/ NetStartAgain
    \/ \E v \in Vals \cup {NoVal} : RarpReply(v)
    \/ \E v, file \in Vals \cup {NoVal} : BootpReply(v, file)
    \/ \E got \in Learnt : NetbootSucceeds(got)
    \/ NetLoopReturns

NetInit ==
    /\ RamInit(DefaultEnv)
    /\ loop = "prompt"
    /\ proto = "PING"
    /\ astray = FALSE
    /\ given = {}

RamSpec == NetInit /\ [][RamNext]_netVars

-----------------------------------------------------------------------------

(* cmd_nvedit.c: "Some variables should be updated when the corresponding entry
   in the environment is changed".  While such a variable is defined, the
   setting it governs (bi_ip_addr, load_addr, BootFile) has its value, after
   any sequence of setenv, overflows, network boots and answers, unless the
   argument of a command has changed the setting since.                      *)
MirrorsFollow ==
    \A n \in Names : Kind[n] = "late" /\ data[n] # NoVal /\ n \notin given => mirror[n] = data[n]

(* net.c, NetInitLoop, "update only when the environment has changed": a network
   command works with the address "ipaddr" last had, however many setenv, network
   boots and failures came before, unless BOOTP cleared the address or an answer
   set it and no successful network boot or change of the environment followed. *)
AddressCurrent == ~envChanged /\ ~astray => NetOurIP = mirror[IpAddr]

(* net.c, "*** ERROR: `ipaddr' not set": between two network commands, when the
   next one will not reread the environment, there is an address if "ipaddr" is
   defined.                                                                  *)
AddressKnown == loop = "prompt" /\ ~envChanged /\ data[IpAddr] # NoVal => NetOurIP # NoVal

(* cmd_nvedit.c, the same comment, without regard to arguments: a command's file
   name argument is not that of the commands after it.                       *)
BootFileFollows == loop = "prompt" /\ data[BootFile] # NoVal => mirror[BootFile] = data[BootFile]

=============================================================================
