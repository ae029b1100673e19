---------------------------- MODULE EnvNetProofs ----------------------------
(***************************************************************************)
(* Proofs about the environment in RAM and the network commands: its       *)
(* mirrors, its CRC and the network loop's address, for every set of       *)
(* variables, every size of the environment and every list of the          *)
(* variables that netboot_update_env sets.                                 *)
(*                                                                         *)
(* netboot_update_env is a recursive function over that list. What it does *)
(* is proved by induction: the induction theorems of the library have a    *)
(* predicate for a parameter, so induction over an interval is derived     *)
(* here for sets, from the least element of a set of naturals.             *)
(***************************************************************************)
EXTENDS EnvNet, WellFoundedInduction, TLAPS

-----------------------------------------------------------------------------
(* Induction over an interval.                                                *)

(* A set of naturals that is not empty has a least element. *)
LEMMA LeastElement ==
    ASSUME NEW T, T \subseteq Nat, T # {}
    PROVE  \E x \in T : \A y \in T : x <= y
  <1> DEFINE R == {ss \in Nat \X Nat : ss[1] < ss[2]}
  <1>1. IsWellFoundedOn(R, Nat)
    BY NatLessThanWellFounded DEF OpToRel
  <1> HIDE DEF R
  <1>2. PICK x \in T : \A y \in T : ~(<<y, x>> \in R)
    BY <1>1, WFMin
  <1>3. ASSUME NEW y \in T PROVE x <= y
    <2>1. SUFFICES ASSUME y < x PROVE <<y, x>> \in R
      BY <1>2
    <2> QED BY <2>1 DEF R
  <1> QED BY <1>3

(* What holds of 0 and goes over from k to k + 1 holds as far as it does so. *)
LEMMA IntervalInduction ==
    ASSUME NEW S, NEW n \in Nat, 0 \in S, \A k \in 0..(n - 1) : k \in S => k + 1 \in S
    PROVE  \A k \in 0..n : k \in S
  <1> SUFFICES ASSUME NEW k \in 0..n, k \notin S PROVE FALSE
    OBVIOUS
  <1> DEFINE T == {i \in 0..n : i \notin S}
  <1>1. T \subseteq Nat /\ T # {}
    OBVIOUS
  <1>2. PICK m \in T : \A y \in T : m <= y
    <2> HIDE DEF T
    <2> QED BY <1>1, LeastElement
  <1>3. m # 0 /\ m - 1 \in 0..(n - 1) /\ m - 1 \notin T
    BY <1>2
  <1> QED BY <1>3

-----------------------------------------------------------------------------
(* netboot_update_env.                                                        *)

(* The environments in RAM, with their CRC and their mirrors. *)
RamEnvs == [data : Envs, crc : Envs, mirror : Envs]

(* What an environment e keeps: StaleCrcOnlyDrops and, but for the settings in G,
   MirrorsFollow of e. *)
Consistent(e, G) ==
    /\ e \in RamEnvs
    /\ \A n \in Names : Kind[n] = "late" /\ e.data[n] # NoVal /\ n \notin G
                          => e.mirror[n] = e.data[n]
    /\ \A n \in Names : e.data[n] \in {e.crc[n], NoVal}

(* One setenv keeps it, whether or not there is room, and brings the setting of
   its variable in step. *)
LEMMA SetOneConsistent ==
    ASSUME NEW e, NEW G, Consistent(e, G), NEW n \in Names, NEW v \in Vals \cup {NoVal}
    PROVE  /\ Consistent(SetOne(e, n, v), G)
           /\ v # NoVal => Consistent(SetOne(e, n, v), G \ {n})
  <1>1. CASE v = NoVal
    BY <1>1 DEF SetOne
  <1>2. CASE v # NoVal /\ TooLong(e.data, n, v)
    BY <1>2 DEF SetOne, Consistent, RamEnvs, Envs, Delete
  <1>3. CASE v # NoVal /\ ~TooLong(e.data, n, v)
    BY <1>3 DEF SetOne, Consistent, RamEnvs, Envs
  <1> QED BY <1>1, <1>2, <1>3

(* A function after is the run of netboot_update_env over the first m names. *)
RunTo(after, m, e, got) ==
    after = [k \in 0..m |->
               IF k = 0 THEN e ELSE SetOne(after[k - 1], NetNames[k], got[NetNames[k]])]

LEMMA RunExists ==
    ASSUME NEW e, NEW got
    PROVE  \E after : RunTo(after, Len(NetNames), e, got)
  <1> DEFINE S == {m \in Nat : \E after : RunTo(after, m, e, got)}
  <1>1. Len(NetNames) \in Nat
    BY NetNamesAssumption
  <1>2. 0 \in S
    <2>1. RunTo([k \in 0..0 |-> e], 0, e, got)
      BY DEF RunTo
    <2> QED BY <2>1
  <1>3. ASSUME NEW m \in Nat, m \in S PROVE m + 1 \in S
    <2>1. PICK f : RunTo(f, m, e, got)
      BY <1>3
    <2> DEFINE g == [k \in 0..(m + 1) |->
                       IF k = m + 1 THEN SetOne(f[m], NetNames[m + 1], got[NetNames[m + 1]]) ELSE f[k]]
               h == [k \in 0..(m + 1) |->
                       IF k = 0 THEN e ELSE SetOne(g[k - 1], NetNames[k], got[NetNames[k]])]
    <2>2. ASSUME NEW k \in 0..(m + 1) PROVE g[k] = h[k]
      <3>1. CASE k = 0
        BY <2>1, <3>1 DEF RunTo
      <3>2. CASE k \in 1..m
        <4>1. g[k] = f[k] /\ g[k - 1] = f[k - 1] /\ k \in 0..m /\ k # 0
          BY <3>2
        <4>2. f[k] = SetOne(f[k - 1], NetNames[k], got[NetNames[k]])
          BY <2>1, <4>1 DEF RunTo
        <4> QED BY <4>1, <4>2
      <3>3. CASE k = m + 1
        <4>1. g[k - 1] = f[m] /\ k # 0
          BY <3>3
        <4> QED BY <4>1, <3>3
      <3> QED BY <3>1, <3>2, <3>3
    <2>3. g = h
      BY <2>2
    <2>4. RunTo(g, m + 1, e, got)
      BY <2>3 DEF RunTo
    <2> QED BY <2>4
  <1>4. \A k \in 0..(Len(NetNames) - 1) : k \in S => k + 1 \in S
    <2> HIDE DEF S
    <2> QED BY <1>1, <1>3
  <1>5. \A k \in 0..Len(NetNames) : k \in S
    <2> HIDE DEF S
    <2> QED BY <1>1, <1>2, <1>4, IntervalInduction
  <1> QED BY <1>1, <1>5

(* UpdatedEnv is the end of that run. *)
LEMMA UpdatedEnvRun ==
    ASSUME NEW e, NEW got
    PROVE  \E after : /\ RunTo(after, Len(NetNames), e, got)
                      /\ UpdatedEnv(e, got) = after[Len(NetNames)]
  <1> DEFINE n == Len(NetNames)
             after == CHOOSE f : f = [k \in 0..n |->
                        IF k = 0 THEN e ELSE SetOne(f[k - 1], NetNames[k], got[NetNames[k]])]
  <1>1. RunTo(after, n, e, got)
    <2> PICK f : RunTo(f, n, e, got)
      BY RunExists
    <2>1. f = [k \in 0..n |->
                 IF k = 0 THEN e ELSE SetOne(f[k - 1], NetNames[k], got[NetNames[k]])]
      BY DEF RunTo
    <2>2. after = [k \in 0..n |->
                     IF k = 0 THEN e ELSE SetOne(after[k - 1], NetNames[k], got[NetNames[k]])]
      BY <2>1, Zenon
    <2> QED BY <2>2 DEF RunTo
  <1>2. UpdatedEnv(e, got) = after[n]
    BY DEF UpdatedEnv
  <1> HIDE DEF after
  <1> QED BY <1>1, <1>2

(* All of netboot_update_env keeps it, at whichever name the room runs out. *)
LEMMA UpdatedEnvConsistent ==
    ASSUME NEW e, NEW G, Consistent(e, G), NEW got \in Learnt
    PROVE  Consistent(UpdatedEnv(e, got), G)
  <1> DEFINE n == Len(NetNames)
  <1> PICK after : RunTo(after, n, e, got) /\ UpdatedEnv(e, got) = after[n]
    BY UpdatedEnvRun
  <1> DEFINE S == {k \in 0..n : Consistent(after[k], G)}
  <1>1. n \in Nat /\ \A k \in 1..n : NetNames[k] \in Names /\ got[NetNames[k]] \in Vals \cup {NoVal}
    BY NetNamesAssumption DEF Learnt
  <1>2. 0 \in S
    BY <1>1 DEF RunTo
  <1>3. ASSUME NEW k \in 0..(n - 1), k \in S PROVE k + 1 \in S
    <2>1. k + 1 \in 0..n /\ k + 1 # 0 /\ k + 1 \in 1..n /\ (k + 1) - 1 = k
      BY <1>1
    <2>2. after[k + 1] = SetOne(after[k], NetNames[k + 1], got[NetNames[k + 1]])
      BY <2>1 DEF RunTo
    <2>3. Consistent(SetOne(after[k], NetNames[k + 1], got[NetNames[k + 1]]), G)
      BY <1>1, <1>3, <2>1, SetOneConsistent
    <2>4. Consistent(after[k + 1], G)
      BY <2>2, <2>3
    <2> QED BY <2>1, <2>4
  <1>4. \A k \in 0..n : k \in S
    <2> HIDE DEF S
    <2> QED BY <1>1, <1>2, <1>3, IntervalInduction
  <1> QED BY <1>1, <1>4

(* With nothing to write, netboot_update_env changes nothing. *)
LEMMA UpdatedEnvNothing ==
    ASSUME NEW e, NEW got \in Learnt, \A n \in DOMAIN got : got[n] = NoVal
    PROVE  UpdatedEnv(e, got) = e
  <1> DEFINE n == Len(NetNames)
  <1> PICK after : RunTo(after, n, e, got) /\ UpdatedEnv(e, got) = after[n]
    BY UpdatedEnvRun
  <1> DEFINE S == {k \in 0..n : after[k] = e}
  <1>1. n \in Nat /\ \A k \in 1..n : got[NetNames[k]] = NoVal
    BY NetNamesAssumption DEF Learnt
  <1>2. 0 \in S
    BY <1>1 DEF RunTo
  <1>3. ASSUME NEW k \in 0..(n - 1), k \in S PROVE k + 1 \in S
    <2>1. k + 1 \in 0..n /\ k + 1 # 0 /\ k + 1 \in 1..n /\ (k + 1) - 1 = k
      BY <1>1
    <2>2. after[k + 1] = SetOne(after[k], NetNames[k + 1], got[NetNames[k + 1]])
      BY <2>1 DEF RunTo
    <2>3. after[k + 1] = e
      BY <1>1, <1>3, <2>1, <2>2 DEF SetOne
    <2> QED BY <2>1, <2>3
  <1>4. \A k \in 0..n : k \in S
    <2> HIDE DEF S
    <2> QED BY <1>1, <1>2, <1>3, IntervalInduction
  <1> QED BY <1>1, <1>4

-----------------------------------------------------------------------------
(* Every step.                                                                *)

(* The inductive invariant: the types, the environment and its address. *)
RamInv == NetTypeOK /\ Consistent(RamEnv, given) /\ AddressCurrent

LEMMA ConsistentMeans ==
    Consistent(RamEnv, given) <=> /\ data \in Envs /\ crc \in Envs /\ mirror \in Envs
                                  /\ MirrorsFollow /\ StaleCrcOnlyDrops
  BY DEF Consistent, RamEnv, RamEnvs, MirrorsFollow, StaleCrcOnlyDrops

LEMMA ConsistentMeansNext ==
    Consistent(RamEnv, given)' <=> /\ data' \in Envs /\ crc' \in Envs /\ mirror' \in Envs
                                   /\ MirrorsFollow' /\ StaleCrcOnlyDrops'
  BY DEF Consistent, RamEnv, RamEnvs, MirrorsFollow, StaleCrcOnlyDrops

(* setenv, by whichever way out. *)
LEMMA SetEnvStep ==
    ASSUME RamInv, NEW n \in Names, SetEnvCommand(n)
    PROVE  RamInv'
  <1>0. RamTypeOK /\ MirrorsFollow /\ StaleCrcOnlyDrops
    BY ConsistentMeans DEF RamInv, NetTypeOK
  <1>1. SetEnv(n) /\ given' = (IF data'[n] = NoVal THEN given ELSE given \ {n})
    BY DEF SetEnvCommand
  <1>2. RamTypeOK' /\ MirrorsFollow' /\ StaleCrcOnlyDrops' /\ envChanged' = TRUE
    <2> USE DEF RamTypeOK, Envs
    <2>1. CASE \E v \in Vals \cup {NoVal} : SetEnvRejected(n, v)
      <3>1. Kind[n] # "late"
        BY <2>1 DEF SetEnvRejected, Rejected
      <3> QED BY <1>0, <1>1, <2>1, <3>1 DEF SetEnvRejected, MirrorsFollow, StaleCrcOnlyDrops
    <2>2. CASE SetEnvDelete(n)
      <3>1. RamTypeOK' /\ StaleCrcOnlyDrops' /\ envChanged' = TRUE
        BY <1>0, <2>2 DEF SetEnvDelete, Delete, EnvCrcUpdate, StaleCrcOnlyDrops
      <3>2. given' = given
        BY <1>0, <1>1, <2>2 DEF SetEnvDelete, Delete
      <3>3. MirrorsFollow'
        BY <1>0, <2>2, <3>2 DEF SetEnvDelete, Delete, MirrorsFollow
      <3> QED BY <3>1, <3>3
    <2>3. CASE \E v \in Vals : SetEnvOverflow(n, v)
      <3> PICK v \in Vals : SetEnvOverflow(n, v)
        BY <2>3
      <3>1. RamTypeOK' /\ StaleCrcOnlyDrops' /\ envChanged' = TRUE
        BY <1>0 DEF SetEnvOverflow, Delete, EarlyMirror, StaleCrcOnlyDrops
      <3>2. given' = given
        BY <1>0, <1>1 DEF SetEnvOverflow, Delete
      <3>3. MirrorsFollow'
        BY <1>0, <3>2 DEF SetEnvOverflow, Delete, EarlyMirror, MirrorsFollow
      <3> QED BY <3>1, <3>3
    <2>4. CASE \E v \in Vals : SetEnvStore(n, v)
      <3> PICK v \in Vals : SetEnvStore(n, v)
        BY <2>4
      <3>1. RamTypeOK' /\ StaleCrcOnlyDrops' /\ envChanged' = TRUE
        BY <1>0 DEF SetEnvStore, EnvCrcUpdate, EarlyMirror, LateMirror, StaleCrcOnlyDrops
      <3>2. given \ {n} \subseteq given'
        BY <1>1
      <3>3. MirrorsFollow'
        BY <1>0, <3>2 DEF SetEnvStore, EarlyMirror, LateMirror, MirrorsFollow
      <3> QED BY <3>1, <3>3
    <2> QED BY <1>1, <2>1, <2>2, <2>3, <2>4 DEF SetEnv
  <1>3. NetTypeOK'
    BY <1>1, <1>2 DEF RamInv, NetTypeOK, SetEnvCommand
  <1>4. Consistent(RamEnv, given)' /\ AddressCurrent'
    BY <1>2, ConsistentMeansNext DEF AddressCurrent, RamTypeOK
  <1> QED BY <1>3, <1>4 DEF RamInv

(* The arguments of a command: the settings they change are given. *)
LEMMA ArgumentStep ==
    ASSUME RamInv,
           \/ \E v \in Vals : NandLoadImage(v)
           \/ \E p \in {"TFTP", "BOOTP"}, addr, file \in Vals \cup {NoVal} :
                 NetbootCommon(p, addr, file)
           \/ Ping
    PROVE  RamInv'
  <1>0. NetTypeOK /\ MirrorsFollow /\ StaleCrcOnlyDrops /\ AddressCurrent
    BY ConsistentMeans DEF RamInv
  <1>1. CASE \E v \in Vals : NandLoadImage(v)
    <2> PICK v \in Vals : NandLoadImage(v)
      BY <1>1
    <2>1. NetTypeOK' /\ StaleCrcOnlyDrops'
      BY <1>0, SettingsAssumption DEF NandLoadImage, NetTypeOK, RamTypeOK, Envs, StaleCrcOnlyDrops
    <2>2. MirrorsFollow' /\ AddressCurrent'
      BY <1>0, SettingsAssumption, KindAssumption
      DEF NandLoadImage, NetTypeOK, RamTypeOK, Envs, MirrorsFollow, AddressCurrent
    <2> QED BY <2>1, <2>2, ConsistentMeansNext DEF RamInv, NetTypeOK, RamTypeOK
  <1>2. CASE \E p \in {"TFTP", "BOOTP"}, addr, file \in Vals \cup {NoVal} :
               NetbootCommon(p, addr, file)
    <2> PICK p \in {"TFTP", "BOOTP"}, addr \in Vals \cup {NoVal}, file \in Vals \cup {NoVal} :
               NetbootCommon(p, addr, file)
      BY <1>2
    <2> DEFINE a == Argument(addr, PresetAddr)
               f == Argument(file, mirror[BootFile])
    <2>0. a \in Vals \cup {NoVal} /\ f \in Vals \cup {NoVal}
      BY <1>0, SettingsAssumption DEF Argument, PresetAddr, NetTypeOK, RamTypeOK, Envs
    <2>1. mirror' = [mirror EXCEPT ![LoadAddr] = a, ![BootFile] = f]
      BY DEF NetbootCommon
    <2>2. (LoadAddr \notin given' /\ data[LoadAddr] # NoVal) => a = data[LoadAddr]
      BY DEF NetbootCommon, Argument, PresetAddr
    <2>3. BootFile \notin given' /\ BootFile # LoadAddr => BootFile \notin given /\ f = mirror[BootFile]
      BY DEF NetbootCommon, Argument
    <2>4. BootFile = LoadAddr /\ LoadAddr \notin given' => addr = NoVal /\ file = NoVal
      BY DEF NetbootCommon
    <2>5. given \ {LoadAddr, BootFile} \subseteq given' /\ given' \subseteq {LoadAddr, BootFile}
      BY <1>0 DEF NetbootCommon, NetTypeOK
    <2>6. UNCHANGED <<data, crc, envChanged, NetOurIP, astray>> /\ loop' = "start" /\ proto' = p
      BY DEF NetbootCommon
    <2> HIDE DEF a, f
    <2>7. NetTypeOK' /\ StaleCrcOnlyDrops'
      BY <1>0, <2>0, <2>1, <2>5, <2>6 DEF NetTypeOK, RamTypeOK, Envs, StaleCrcOnlyDrops
    <2>8. MirrorsFollow'
      BY <1>0, <2>0, <2>1, <2>2, <2>3, <2>5, <2>6, SettingsAssumption
      DEF NetTypeOK, RamTypeOK, Envs, MirrorsFollow
    <2>9. AddressCurrent'
      BY <1>0, <2>1, <2>6, SettingsAssumption, KindAssumption
      DEF NetTypeOK, RamTypeOK, Envs, AddressCurrent
    <2> QED BY <2>7, <2>8, <2>9, ConsistentMeansNext DEF RamInv, NetTypeOK, RamTypeOK
  <1>3. CASE Ping
    BY <1>3 DEF Ping, RamInv, NetTypeOK, RamTypeOK, RamEnv, AddressCurrent
  <1> QED BY <1>1, <1>2, <1>3

(* A step of NetLoop that leaves the environment alone. *)
LEMMA NetLoopStep ==
    ASSUME RamInv,
           \/ NetLoopWith \/ NetLoopNoEther \/ NetLoopBootp \/ NetStartAgain
           \/ \E v \in Vals \cup {NoVal} : RarpReply(v)
           \/ NetLoopReturns
    PROVE  RamInv'
  <1>0. NetTypeOK /\ AddressCurrent /\ Consistent(RamEnv, given)
        /\ InitLoopIP \in Vals \cup {NoVal}
    BY KindAssumption DEF RamInv, NetTypeOK, RamTypeOK, Envs, InitLoopIP
  <1>1. UNCHANGED <<data, crc, mirror, given>>
    BY DEF NetLoopWith, NetLoopNoEther, NetLoopBootp, NetStartAgain, RarpReply, NetLoopReturns
  <1>2. NetTypeOK'
    BY <1>0 DEF NetTypeOK, RamTypeOK, NetLoopWith, NetLoopNoEther, NetLoopBootp, NetStartAgain,
       RarpReply, NetLoopReturns
  <1>3. AddressCurrent'
    BY <1>0 DEF AddressCurrent, InitLoopIP, NetLoopWith, NetLoopNoEther, NetLoopBootp,
       NetStartAgain, RarpReply, NetLoopReturns
  <1> QED BY <1>0, <1>1, <1>2, <1>3 DEF RamInv, RamEnv

(* The answer to BOOTP: BootFile and its variable change together. *)
LEMMA BootpReplyStep ==
    ASSUME RamInv, NEW v \in Vals \cup {NoVal}, NEW file \in Vals \cup {NoVal},
           BootpReply(v, file)
    PROVE  RamInv'
  <1> DEFINE f == Argument(file, mirror[BootFile])
             e == [RamEnv EXCEPT !.mirror = [mirror EXCEPT ![BootFile] = f]]
             s == SetOne(e, BootFile, f)
  <1>0. NetTypeOK /\ Consistent(RamEnv, given) /\ BootFile \in Names
    BY SettingsAssumption DEF RamInv
  <1>1. f \in Vals \cup {NoVal}
    BY <1>0 DEF Argument, NetTypeOK, RamTypeOK, Envs
  <1>2. BecomesEnv(s) /\ given' = (IF f = NoVal THEN given ELSE given \ {BootFile})
        /\ NetOurIP' = v /\ astray' = TRUE /\ loop' = "loading" /\ proto' = proto
        /\ envChanged' \in BOOLEAN
    BY DEF BootpReply
  <1>3. CASE f = NoVal
    <2>1. mirror[BootFile] = NoVal
      BY <1>3 DEF Argument
    <2>2. e = [data |-> data, crc |-> crc, mirror |-> mirror]
      BY <1>0, <1>3, <2>1 DEF RamEnv, NetTypeOK, RamTypeOK, Envs
    <2>3. s = e
      BY <1>3 DEF SetOne
    <2> HIDE DEF e, s, f
    <2>4. UNCHANGED <<data, crc, mirror>>
      BY <1>2, <2>2, <2>3 DEF BecomesEnv
    <2>5. NetTypeOK'
      BY <1>0, <1>2, <2>4 DEF NetTypeOK, RamTypeOK
    <2>6. Consistent(RamEnv, given)' /\ AddressCurrent'
      BY <1>0, <1>2, <1>3, <2>4 DEF RamEnv, AddressCurrent
    <2> QED BY <2>5, <2>6 DEF RamInv
  <1>4. CASE f # NoVal
    <2>1. Consistent(e, given \cup {BootFile})
      BY <1>0, <1>1 DEF Consistent, RamEnv, RamEnvs, NetTypeOK, RamTypeOK, Envs
    <2> HIDE DEF e, f
    <2>2. Consistent(s, (given \cup {BootFile}) \ {BootFile})
      BY <1>0, <1>1, <1>4, <2>1, SetOneConsistent
    <2> HIDE DEF s
    <2>3. data' = s.data /\ crc' = s.crc /\ mirror' = s.mirror
      BY <1>2 DEF BecomesEnv
    <2>4. Consistent(RamEnv, given)'
      BY <1>2, <1>4, <2>2, <2>3 DEF Consistent, RamEnv, RamEnvs
    <2>5. NetTypeOK'
      BY <1>0, <1>2, <1>4, <2>2, <2>3 DEF NetTypeOK, RamTypeOK, Consistent, RamEnvs
    <2>6. AddressCurrent'
      BY <1>2 DEF AddressCurrent
    <2> QED BY <2>4, <2>5, <2>6 DEF RamInv
  <1> QED BY <1>3, <1>4

(* A network boot that succeeds, and netboot_update_env after it. *)
LEMMA UpdateEnvStep ==
    ASSUME RamInv, NEW got \in Learnt, NetbootSucceeds(got)
    PROVE  RamInv'
  <1> DEFINE e == UpdatedEnv(RamEnv, got)
  <1>1. Consistent(e, given)
    BY UpdatedEnvConsistent DEF RamInv
  <1>2. data' = e.data /\ crc' = e.crc /\ mirror' = e.mirror
        /\ UNCHANGED <<NetOurIP, proto, given>> /\ loop' = "prompt"
        /\ astray' = (astray /\ NetOurIP = NoVal) /\ got[IpAddr] = NetOurIP
        /\ envChanged' = (envChanged \/ \E n \in DOMAIN got : got[n] # NoVal)
    BY DEF NetbootSucceeds, BecomesEnv
  <1>3. IpAddr \in DOMAIN got
    BY NetNamesAssumption DEF Learnt
  <1>4. ~envChanged' => ~envChanged /\ NetOurIP = NoVal /\ \A n \in DOMAIN got : got[n] = NoVal
    BY <1>2, <1>3
  <1> HIDE DEF e
  <1>5. NetTypeOK'
    BY <1>1, <1>2 DEF RamInv, Consistent, RamEnvs, NetTypeOK, RamTypeOK
  <1>6. Consistent(RamEnv, given)'
    BY <1>1, <1>2 DEF Consistent, RamEnvs, RamEnv
  <1>7. AddressCurrent'
    <2> SUFFICES ASSUME ~envChanged', ~astray' PROVE NetOurIP' = mirror'[IpAddr]
      BY DEF AddressCurrent
    <2>1. e = RamEnv
      BY <1>4, UpdatedEnvNothing DEF e
    <2>2. mirror' = mirror
      BY <1>2, <2>1 DEF RamEnv
    <2>3. ~envChanged /\ ~astray
      BY <1>2, <1>4
    <2> QED BY <1>2, <2>2, <2>3 DEF RamInv, AddressCurrent
  <1> QED BY <1>5, <1>6, <1>7 DEF RamInv

LEMMA RamStep ==
    ASSUME RamInv, [RamNext]_netVars
    PROVE  RamInv'
  <1>1. CASE \E n \in Names : SetEnvCommand(n)
    BY <1>1, SetEnvStep
  <1>2. CASE \/ \E v \in Vals : NandLoadImage(v)
             \/ \E p \in {"TFTP", "BOOTP"}, addr, file \in Vals \cup {NoVal} :
                   NetbootCommon(p, addr, file)
             \/ Ping
    BY <1>2, ArgumentStep
  <1>3. CASE \/ NetLoopWith \/ NetLoopNoEther \/ NetLoopBootp \/ NetStartAgain
             \/ \E v \in Vals \cup {NoVal} : RarpReply(v)
             \/ NetLoopReturns
    BY <1>3, NetLoopStep
  <1>4. CASE \E v, file \in Vals \cup {NoVal} : BootpReply(v, file)
    BY <1>4, BootpReplyStep
  <1>5. CASE \E got \in Learnt : NetbootSucceeds(got)
    BY <1>5, UpdateEnvStep
  <1>6. CASE UNCHANGED netVars
    BY <1>6 DEF netVars, RamInv, NetTypeOK, RamTypeOK, RamEnv, AddressCurrent
  <1> QED BY <1>1, <1>2, <1>3, <1>4, <1>5, <1>6 DEF RamNext

LEMMA RamInvariant == RamSpec => []RamInv
  <1>1. NetInit => RamInv
    <2> SUFFICES ASSUME NetInit PROVE RamInv
      OBVIOUS
    <2>1. BootMirror(DefaultEnv) \in Envs
      BY DefaultAssumption, KindAssumption DEF BootMirror, Envs
    <2>2. NetTypeOK
      BY <2>1, DefaultAssumption DEF NetInit, RamInit, NetTypeOK, RamTypeOK, Envs
    <2>3. MirrorsFollow /\ StaleCrcOnlyDrops /\ AddressCurrent
      BY <2>1, DefaultAssumption DEF NetInit, RamInit, MirrorsFollow, StaleCrcOnlyDrops,
         AddressCurrent, BootMirror, Envs
    <2> QED BY <2>2, <2>3, ConsistentMeans DEF RamInv, NetTypeOK, RamTypeOK
  <1> QED BY <1>1, RamStep, PTL DEF RamSpec

(* Whatever was set, deleted, overflowed, given as an argument or learnt from the
   network, the settings that follow variables (bi_ip_addr, load_addr, BootFile) have
   the values of the variables that are defined, unless an argument has changed the
   setting since. *)
THEOREM MirrorsAlwaysFollow == RamSpec => []MirrorsFollow
  <1>1. RamInv => MirrorsFollow
    BY ConsistentMeans DEF RamInv
  <1> QED BY <1>1, RamInvariant, PTL

(* A stale CRC differs from the environment only by definitions that an overflow
   dropped: no value in RAM is one that the CRC has not seen. *)
THEOREM StaleCrcAlwaysOnlyDrops == RamSpec => []StaleCrcOnlyDrops
  <1>1. RamInv => StaleCrcOnlyDrops
    BY ConsistentMeans DEF RamInv
  <1> QED BY <1>1, RamInvariant, PTL

(* The network loop's address is that of "ipaddr" whenever the environment has been
   reread, unless it was cleared for BOOTP or an answer (BOOTP, DHCP, or a RARP reply
   during any command) set it, and no network boot has succeeded since. *)
THEOREM AddressAlwaysCurrent == RamSpec => []AddressCurrent
  <1>1. RamInv => AddressCurrent
    BY DEF RamInv
  <1> QED BY <1>1, RamInvariant, PTL

=============================================================================
