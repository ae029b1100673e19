------------------------------ MODULE EnvVars ------------------------------
(***************************************************************************)
(* The environment in RAM (common/cmd_nvedit.c, common/env_common.c): the  *)
(* variables, the CRC kept beside them, the settings that some variables   *)
(* mirror, and the state by which the network loop follows the            *)
(* environment (module EnvNet).                                            *)
(*                                                                         *)
(* A variable's text is abstracted to a member of Vals, its length to      *)
(* ValLen[v].  A CRC is idealised: it is the contents it was computed      *)
(* over, so it matches exactly those contents.                             *)
(***************************************************************************)
EXTENDS Naturals, FiniteSetsExt

CONSTANTS
    Names,          \* the environment variables
    Kind,           \* Kind[n]: what setting variable n, if any, governs
    Vals,           \* the values a variable can have
    NoVal,          \* "not defined"; also the address 0.0.0.0
    ValLen,         \* ValLen[v]: bytes taken by "name=v\0"
    EnvLimit,       \* ENV_SIZE less the final \0
    Devices,        \* the values console_assign accepts
    BaudrateTable,  \* CONFIG_SYS_BAUDRATE_TABLE
    DefaultEnv,     \* default_environment
    IpAddr          \* the variable named "ipaddr"

Kinds == {"plain", "late", "console", "baudrate"}
Envs == [Names -> Vals \cup {NoVal}]

ASSUME NoValAssumption == NoVal \notin Vals
ASSUME KindAssumption == Kind \in [Names -> Kinds] /\ IpAddr \in Names
                         /\ Kind[IpAddr] = "late"
ASSUME DefaultAssumption == DefaultEnv \in Envs
ASSUME LimitAssumption == EnvLimit \in Nat /\ ValLen \in [Vals -> Nat]

VARIABLES
    data,         \* env_ptr->data
    crc,          \* env_ptr->crc
    mirror,       \* mirror[n]: bd->bi_ip_addr, load_addr, BootFile, gd->baudrate, stdio_devices[]
    envChanged,   \* env_id # env_changed_id: NetInitLoop will reread the environment
    NetOurIP      \* the network loop's copy of the IP address

ramVars == <<data, crc, mirror, envChanged, NetOurIP>>

RamTypeOK ==
    /\ data \in Envs
    /\ crc \in Envs
    /\ mirror \in Envs
    /\ envChanged \in BOOLEAN
    /\ NetOurIP \in Vals \cup {NoVal}

-----------------------------------------------------------------------------

(* Bytes that the definitions of d occupy. *)
Used(d) == MapThenSumSet(LAMBDA n : ValLen[d[n]], {n \in Names : d[n] # NoVal})

Delete(d, n) == [d EXCEPT ![n] = NoVal]

(* What board_init_r derives from the relocated environment.  init_baudrate
   runs before env_relocate, when env_init has pointed gd->env_addr at the
   default environment, and console_init_r starts on the serial device.     *)
BootMirror(d) ==
    [n \in Names |-> CASE Kind[n] = "late"     -> d[n]
                       [] Kind[n] = "baudrate" -> DefaultEnv[n]
                       [] OTHER                -> NoVal]

EnvCrcUpdateMissing == UNCHANGED crc
EnvCrcUpdate == crc' = data'

(* The early returns of _do_setenv: a console variable cannot be deleted and
   must name a device, an existing "baudrate" only takes a supported value.  *)
Rejected(n, v) ==
    \/ Kind[n] = "console" /\ v \notin Devices
    \/ Kind[n] = "baudrate" /\ data[n] # NoVal /\ v \notin BaudrateTable

(* Settings that _do_setenv switches before it looks for room. *)
EarlyMirror(n, v) ==
    IF Kind[n] = "console" \/ (Kind[n] = "baudrate" /\ data[n] # NoVal)
    THEN [mirror EXCEPT ![n] = v] ELSE mirror

(* Settings that are switched once the new definition is in place. *)
LateMirror(n, v) ==
    IF Kind[n] = "late" THEN [mirror EXCEPT ![n] = v] ELSE EarlyMirror(n, v)

TooLong(d, n, v) == Used(Delete(d, n)) + ValLen[v] > EnvLimit
Overflows(n, v) == TooLong(data, n, v)

(* _do_setenv, one disjunct per way out.  env_id is incremented first, on
   every path (it is a counter: only its difference from env_changed_id is
   observed).                                                               *)
SetEnvRejected(n, v) ==
    /\ Rejected(n, v)
    /\ envChanged' = TRUE
    /\ UNCHANGED <<data, crc, mirror, NetOurIP>>

SetEnvDelete(n) ==
    /\ ~Rejected(n, NoVal)
    /\ envChanged' = TRUE
    /\ data' = Delete(data, n)
    /\ EnvCrcUpdate
    /\ UNCHANGED <<mirror, NetOurIP>>

SetEnvOverflow(n, v) ==
    /\ ~Rejected(n, v)
    /\ Overflows(n, v)
    /\ envChanged' = TRUE
    /\ data' = Delete(data, n)
    /\ mirror' = EarlyMirror(n, v)
    /\ UNCHANGED <<crc, NetOurIP>>

SetEnvStoreUnnoticed(n, v) ==
    /\ ~Rejected(n, v)
    /\ ~Overflows(n, v)
    /\ data' = [data EXCEPT ![n] = v]
    /\ EnvCrcUpdate
    /\ mirror' = LateMirror(n, v)
    /\ UNCHANGED <<envChanged, NetOurIP>>

SetEnvStore(n, v) ==
    /\ ~Rejected(n, v)
    /\ ~Overflows(n, v)
    /\ envChanged' = TRUE
    /\ data' = [data EXCEPT ![n] = v]
    /\ EnvCrcUpdate
    /\ mirror' = LateMirror(n, v)
    /\ UNCHANGED NetOurIP

SetEnv(n) ==
    \/ \E v \in Vals \cup {NoVal} : SetEnvRejected(n, v)
    \/ SetEnvDelete(n)
    \/ \E v \in Vals : SetEnvOverflow(n, v) \/ SetEnvStore(n, v)

-----------------------------------------------------------------------------

LoadEnvDefault(d) ==
    /\ data' = DefaultEnv
    /\ crc' = DefaultEnv
    /\ mirror' = BootMirror(d)
    /\ envChanged' = TRUE
    /\ NetOurIP' = NoVal

(* Power on with environment d (its CRC good) relocated into RAM. *)
LoadEnv(d) ==
    /\ data' = d
    /\ crc' = d
    /\ mirror' = BootMirror(d)
    /\ envChanged' = TRUE          \* env_id = 1, env_changed_id = 0
    /\ NetOurIP' = NoVal           \* .bss

RamInit(d) ==
    /\ data = d
    /\ crc = d
    /\ mirror = BootMirror(d)
    /\ envChanged = TRUE
    /\ NetOurIP = NoVal

-----------------------------------------------------------------------------

(* When an overflow leaves the CRC stale, the contents that the CRC stands for
   differ from the environment only by definitions that were dropped: no value
   in RAM is one that the CRC has not seen.                                   *)
StaleCrcOnlyDrops == \A n \in Names : data[n] \in {crc[n], NoVal}

(* cmd_nvedit.c, "Some variables should be updated when the corresponding entry
   in the environment is changed", of deletions too: a setting whose variable
   is not defined is cleared.                                                 *)
MirrorsCleared ==
    \A n \in Names : Kind[n] = "late" /\ data[n] = NoVal => mirror[n] = NoVal

=============================================================================
