---------------------------- MODULE TimerProofs -----------------------------
(* The types of Timer and that the time it tells is right, for every reload   *)
(* value, every width of unsigned long and every polling distance below a     *)
(* period.                                                                    *)
EXTENDS Timer, TLAPS

-----------------------------------------------------------------------------
(* Division and remainder.                                                    *)

(* A number is its quotient times the divisor and its remainder. *)
LEMMA DivMod ==
    ASSUME NEW a \in Int, NEW w \in Nat \ {0}
    PROVE  a = w * (a \div w) + (a % w) /\ a % w \in 0..(w - 1) /\ a \div w \in Int
  OBVIOUS

(* Quotient and remainder are unique. *)
LEMMA Unique ==
    ASSUME NEW w \in Nat \ {0}, NEW q \in Int, NEW k \in Int,
           NEW x \in 0..(w - 1), NEW y \in 0..(w - 1), w * q + x = w * k + y
    PROVE  q = k /\ x = y
  <1>1. w * (q - k) = y - x
    BY SMT
  <1>2. CASE q > k
    <2>1. q - k >= 1
      BY <1>2
    <2>2. w * (q - k) >= w
      BY <2>1
    <2> QED BY <2>2, <1>1
  <1>3. CASE q < k
    <2>1. k - q >= 1
      BY <1>3
    <2>2. w * (k - q) >= w
      BY <2>1
    <2>3. w * (k - q) = x - y
      BY SMT
    <2> QED BY <2>2, <2>3
  <1> QED BY <1>2, <1>3

(* A multiple of the divisor leaves the remainder alone. *)
LEMMA ModShift ==
    ASSUME NEW w \in Nat \ {0}, NEW a \in Int, NEW k \in Int
    PROVE  (a + w * k) % w = a % w
  <1> DEFINE b == a + w * k
  <1>1. w * k \in Int /\ b \in Int
    OBVIOUS
  <1>2. a = w * (a \div w) + (a % w) /\ b = w * (b \div w) + (b % w)
    BY <1>1, DivMod
  <1>3. /\ a \div w \in Int /\ b \div w \in Int
        /\ a % w \in 0..(w - 1) /\ b % w \in 0..(w - 1)
    BY <1>1, DivMod
  <1> HIDE DEF b
  <1>4. w * (b \div w) + (b % w) = w * (a \div w + k) + (a % w)
    <2>1. w * (a \div w + k) = w * (a \div w) + w * k
      BY <1>3
    <2> QED BY <2>1, <1>2, <1>3 DEF b
  <1>5. a \div w + k \in Int
    BY <1>3
  <1>6. b % w = a % w
    BY <1>3, <1>4, <1>5, Unique
  <1> QED BY <1>6 DEF b

(* A sum may be reduced before or after adding. *)
LEMMA UlongAdd ==
    ASSUME NEW a \in Int, NEW b \in Int
    PROVE  Ulong(Ulong(a) + b) = Ulong(a + b)
  <1> DEFINE w == UlongSize
             q == a \div w
  <1>1. w \in Nat \ {0}
    BY TimerAssumption
  <1>2. a = w * q + (a % w) /\ a % w \in 0..(w - 1) /\ q \in Int
    BY <1>1, DivMod
  <1> HIDE DEF w, q
  <1>3. (a + b) + w * (-q) = (a % w) + b
    <2>1. w * (-q) = -(w * q) /\ w * q \in Int
      BY <1>1, <1>2
    <2> QED BY <2>1, <1>2
  <1>4. a + b \in Int /\ -q \in Int
    BY <1>2
  <1>5. ((a + b) + w * (-q)) % w = (a + b) % w
    BY <1>1, <1>4, ModShift, Zenon
  <1> QED BY <1>3, <1>5 DEF w, Ulong

(* And before or after subtracting. *)
LEMMA UlongSub ==
    ASSUME NEW a \in Int, NEW b \in Int
    PROVE  Ulong(-Ulong(a) + b) = Ulong(-a + b)
  <1> DEFINE w == UlongSize
             q == a \div w
  <1>1. w \in Nat \ {0}
    BY TimerAssumption
  <1>2. a = w * q + (a % w) /\ a % w \in 0..(w - 1) /\ q \in Int
    BY <1>1, DivMod
  <1> HIDE DEF w, q
  <1>3. (-a + b) + w * q = -(a % w) + b
    <2>1. w * q \in Int
      BY <1>1, <1>2
    <2> QED BY <2>1, <1>2
  <1>4. -a + b \in Int
    OBVIOUS
  <1>5. ((-a + b) + w * q) % w = (-a + b) % w
    BY <1>1, <1>2, <1>4, ModShift, Zenon
  <1> QED BY <1>3, <1>5 DEF w, Ulong

(* Equal remainders stay equal when the same is added. *)
LEMMA UlongSame ==
    ASSUME NEW a \in Int, NEW b \in Int, NEW c \in Int, Ulong(a) = Ulong(b)
    PROVE  Ulong(a + c) = Ulong(b + c)
  <1>1. Ulong(Ulong(a) + c) = Ulong(a + c)
    BY UlongAdd, Zenon
  <1>2. Ulong(Ulong(b) + c) = Ulong(b + c)
    BY UlongAdd, Zenon
  <1> QED BY <1>1, <1>2, Zenon

(* What an unsigned long holds, and what a division leaves of it. *)
LEMMA UlongType ==
    ASSUME NEW a \in Int
    PROVE  Ulong(a) \in 0..(UlongSize - 1)
  BY TimerAssumption, DivMod DEF Ulong

LEMMA Quotient ==
    ASSUME NEW a \in Nat, NEW k \in Nat \ {0}
    PROVE  a \div k \in 0..a
  <1>1. a = k * (a \div k) + (a % k) /\ a % k \in 0..(k - 1) /\ a \div k \in Int
    BY DivMod
  <1> DEFINE q == a \div k
  <1>2. q >= 0
    <2>1. SUFFICES ASSUME q <= -1 PROVE FALSE
      BY <1>1
    <2>2. k * q <= -k
      BY <1>1, <2>1
    <2> QED BY <1>1, <2>2
  <1>3. k * q >= q
    BY <1>1, <1>2
  <1> QED BY <1>1, <1>2, <1>3

(* timer_clk is a number. *)
LEMMA TicksType == TicksPerSec \in Nat \ {0} /\ TicksPerMsec \in Nat \ {0}
  <1>1. TicksPerSec \in Nat \ {0}
    BY TimerAssumption DEF TicksPerSec
  <1>2. TicksPerSec \div Kilo \in 0..TicksPerSec
    BY <1>1, TimerAssumption, Quotient
  <1> QED BY <1>1, <1>2, TimerAssumption DEF TicksPerMsec

-----------------------------------------------------------------------------
(* Types.                                                                     *)

(* What the waits compute is an unsigned long. *)
LEMMA Computed ==
    ASSUME NEW u \in Nat
    PROVE  MsecTicks(u) \in 0..(UlongSize - 1) /\ ShortTicks(u) \in 0..(UlongSize - 1)
  <1>1. Kilo \in Nat \ {0} /\ Kilo * Kilo \in Nat \ {0}
    BY TimerAssumption
  <1>2. u \div Kilo \in Nat
    BY <1>1, Quotient
  <1>3. (u \div Kilo) * TicksPerSec \in Int /\ u * TicksPerSec \in Int
    BY <1>2, TicksType
  <1> DEFINE a == Ulong((u \div Kilo) * TicksPerSec)
             b == Ulong(u * TicksPerSec)
  <1>4. a \in 0..(UlongSize - 1) /\ b \in 0..(UlongSize - 1)
    BY <1>3, UlongType
  <1> HIDE DEF a, b
  <1>5. a \div Kilo \in 0..a /\ b \div (Kilo * Kilo) \in 0..b
    BY <1>1, <1>4, TimerAssumption, Quotient
  <1>6. a \div Kilo \in 0..(UlongSize - 1) /\ b \div (Kilo * Kilo) \in 0..(UlongSize - 1)
    BY <1>4, <1>5, TimerAssumption
  <1> QED BY <1>6 DEF a, b, MsecTicks, ShortTicks

(* get_ticks keeps the types of what it assigns. *)
LEMMA GetTicksTypes ==
    ASSUME TypeOK, get_ticks
    PROVE  /\ timestamp' \in 0..(UlongSize - 1) /\ lastdec' \in 0..Load
           /\ gap' = 0 /\ counter' \in 0..Load
           /\ get_timer_masked(timestamp') \in 0..(UlongSize - 1)
  <1>1. NewStamp(counter) \in Int
    BY TimerAssumption DEF TypeOK, NewStamp
  <1>2. timestamp' \in 0..(UlongSize - 1)
    BY <1>1, UlongType DEF get_ticks
  <1>3. timestamp' \div TicksPerMsec \in 0..timestamp'
    <2>1. timestamp' \in Nat
      BY <1>2, TimerAssumption
    <2> QED BY <2>1, TicksType, Quotient, Zenon
  <1>4. get_timer_masked(timestamp') \in 0..(UlongSize - 1)
    BY <1>2, <1>3, TimerAssumption DEF get_timer_masked
  <1> QED BY <1>2, <1>4 DEF TypeOK, get_ticks

(* Every step keeps the types. *)
LEMMA TypeStep ==
    ASSUME TypeOK, [Next]_vars
    PROVE  TypeOK'
  <1> USE TimerAssumption, WaitAssumption
  <1>1. CASE Tick
    <2>2. counter' \in 0..Load
      BY <1>1 DEF Tick, TypeOK
    <2>3. gap' \in 0..MaxGap /\ elapsed' \in 0..MaxElapsed /\ reloads' \in 0..elapsed'
      BY <1>1 DEF Tick, TypeOK
    <2> QED BY <1>1, <2>2, <2>3 DEF Tick, TypeOK, wait
  <1>2. CASE reset_timer
    BY <1>2 DEF reset_timer, TypeOK, wait
  <1>3. CASE Loops
    <2>1. PICK op \in {"udelay", "udelay_masked", "timeout"} :
            Poll(op) /\ pc' \in {pc, "idle"}
      BY <1>3 DEF Loops, UdelayLoop, UdelayMaskedLoop, NetLoopCheck, GoOnWhile
    <2>2. get_ticks
      BY <2>1 DEF Poll
    <2>3. wrapped' \in BOOLEAN
      BY <2>1, Zenon DEF Poll, TypeOK
    <2> QED BY <2>1, <2>2, <2>3, GetTicksTypes DEF Poll, TypeOK
  <1>4. ASSUME NEW op \in {"udelay", "udelay_masked", "timeout"}, NEW u \in Usecs \cup {0},
               Begin(op, u),
               start' \in 0..(UlongSize - 1), tmo' \in 0..(UlongSize - 1) \cup Deltas
        PROVE  TypeOK'
    <2>1. get_ticks
      BY <1>4 DEF Begin
    <2>2. waits' \in 0..MaxWaits
      BY <1>4 DEF Begin, TypeOK
    <2>3. elapsed' \in 0..MaxElapsed /\ reloads' \in 0..elapsed' /\ gap' \in 0..MaxGap
      BY <1>4, <2>1, GetTicksTypes DEF Begin
    <2>4. wrapped' \in BOOLEAN
      BY <1>4, Zenon DEF Begin
    <2>5. /\ counter' \in 0..Load /\ lastdec' \in 0..Load
          /\ timestamp' \in 0..(UlongSize - 1) /\ stamp' \in 0..(UlongSize - 1)
      BY <1>4, <2>1, GetTicksTypes DEF Begin
    <2>6. pc' \in {"idle", "udelay", "udelay_masked", "timeout"} /\ usec' \in Usecs \cup {0}
      BY <1>4 DEF Begin
    <2> QED BY <1>4, <2>2, <2>3, <2>4, <2>5, <2>6, Zenon DEF TypeOK
  <1>5. ASSUME NEW u \in Usecs, udelay(u) \/ udelay_masked(u)
        PROVE  TypeOK'
    <2>1. PICK op \in {"udelay", "udelay_masked"} : Begin(op, u)
      BY <1>5 DEF udelay, udelay_masked
    <2>2. timestamp' \in 0..(UlongSize - 1)
      BY <2>1, GetTicksTypes DEF Begin
    <2>3. tmo' \in 0..(UlongSize - 1)
      BY <1>5, Computed DEF udelay, udelay_masked
    <2>4. Ulong(timestamp' + tmo') \in 0..(UlongSize - 1)
      BY <2>2, <2>3, UlongType
    <2>5. start' \in 0..(UlongSize - 1)
      BY <1>5, <2>2, <2>4 DEF udelay, udelay_masked
    <2> QED BY <1>4, <2>1, <2>3, <2>5
  <1>6. ASSUME NEW ms \in Deltas, NetSetTimeout(ms)
        PROVE  TypeOK'
    <2>1. Begin("timeout", 0) /\ tmo' \in Deltas
      BY <1>6 DEF NetSetTimeout
    <2>2. start' \in 0..(UlongSize - 1)
      BY <1>6, <2>1, GetTicksTypes DEF NetSetTimeout, Begin
    <2> QED BY <1>4, <2>1, <2>2
  <1>7. CASE UNCHANGED vars
    BY <1>7 DEF vars, TypeOK
  <1> QED BY <1>1, <1>2, <1>3, <1>5, <1>6, <1>7 DEF Next

(* Every state of the timer and of its waits is well-typed (timer.c). *)
THEOREM TypeCorrect == Spec => []TypeOK
  <1>1. Init => TypeOK
    <2> SUFFICES ASSUME Init PROVE TypeOK
      OBVIOUS
    <2>1. wrapped \in BOOLEAN
      BY Zenon DEF Init
    <2>2. /\ counter \in 0..Load /\ lastdec \in 0..Load
          /\ timestamp \in 0..(UlongSize - 1) /\ stamp \in 0..(UlongSize - 1)
      BY TimerAssumption DEF Init
    <2>3. /\ gap \in 0..MaxGap /\ waits \in 0..MaxWaits /\ start \in 0..(UlongSize - 1)
          /\ tmo \in 0..(UlongSize - 1)
          /\ elapsed \in 0..MaxElapsed /\ reloads \in 0..elapsed
      BY TimerAssumption, WaitAssumption DEF Init
    <2>4. pc \in {"idle", "udelay", "udelay_masked", "timeout"} /\ usec \in Usecs \cup {0}
      BY DEF Init
    <2> QED BY <2>1, <2>2, <2>3, <2>4, Zenon DEF TypeOK
  <1> QED BY <1>1, TypeStep, PTL DEF Spec

-----------------------------------------------------------------------------
(* The time that is told.                                                     *)

(* While a wait runs: the counter has started over at most once since it was
   read, the timestamp is behind by the ticks since then, and it has advanced
   by exactly the ticks that were counted unless it has wrapped. *)
Pending == IF gap <= lastdec THEN 0 ELSE 1
Counted == elapsed - reloads - gap + Pending
TimeInv ==
    pc # "idle" =>
        /\ counter = lastdec - gap + Pending * (Load + 1)
        /\ Counted \in Nat
        /\ Ulong(timestamp - stamp) = Ulong(Counted)
        /\ ~wrapped => timestamp - stamp = Counted

(* What reading the counter adds to the timestamp, however it has moved. *)
LEMMA ReadAdds ==
    ASSUME TypeOK, TimeInv, pc # "idle"
    PROVE  NewStamp(counter) = timestamp + gap - Pending
  BY TimerAssumption, WaitAssumption DEF TypeOK, TimeInv, Pending, NewStamp

(* A tick keeps the invariant: counter and elapsed move together, and where the
   counter starts over the tick is counted as a reload. *)
LEMMA TickTold ==
    ASSUME TypeOK, TimeInv, Tick, pc # "idle"
    PROVE  TimeInv'
  <1> USE TimerAssumption, WaitAssumption
  <1>1. /\ elapsed \in Int /\ reloads \in Int /\ gap \in 0..MaxGap /\ lastdec \in 0..Load
        /\ MaxGap \in 1..Load /\ Pending \in {0, 1} /\ Load \in Nat /\ counter \in 0..Load
    BY DEF TypeOK, Pending
  <1>2. /\ lastdec' = lastdec /\ gap' = gap + 1 /\ gap < MaxGap /\ elapsed' = elapsed + 1
        /\ timestamp' = timestamp /\ stamp' = stamp /\ pc' = pc
    BY DEF Tick, wait
  <1>3. wrapped' = wrapped
    BY Zenon DEF Tick
  <1>4. CASE counter = 0
    <2>1. gap = lastdec /\ Pending = 0
      BY <1>1, <1>4 DEF TimeInv, Pending
    <2>2. Pending' = 1
      BY <1>1, <1>2, <2>1 DEF Pending
    <2>3. counter' = lastdec' - gap' + Pending' * (Load + 1)
      BY <1>1, <1>2, <1>4, <2>1, <2>2 DEF Tick
    <2>4. reloads' = reloads + 1
      BY <1>4 DEF Tick
    <2>5. Counted' = Counted
      BY <1>1, <1>2, <2>1, <2>2, <2>4 DEF Counted
    <2> QED BY <1>2, <1>3, <2>3, <2>5, Zenon DEF TimeInv
  <1>5. CASE counter # 0
    <2>1. gap + 1 <= lastdec \/ gap > lastdec
      BY <1>1, <1>5 DEF TimeInv, Pending
    <2>2. Pending' = Pending
      BY <1>1, <1>2, <2>1 DEF Pending
    <2>3. counter' = lastdec' - gap' + Pending' * (Load + 1)
      BY <1>1, <1>2, <1>5, <2>2 DEF Tick, TimeInv
    <2>4. reloads' = reloads
      BY <1>5 DEF Tick
    <2>5. Counted' = Counted
      BY <1>1, <1>2, <2>2, <2>4 DEF Counted
    <2> QED BY <1>2, <1>3, <2>3, <2>5, Zenon DEF TimeInv
  <1> QED BY <1>4, <1>5

(* A sum that is smaller than one of its parts has been reduced. *)
LEMMA NoCarry ==
    ASSUME NEW t \in 0..(UlongSize - 1), NEW d \in 0..(UlongSize - 1), ~(Ulong(t + d) < t)
    PROVE  Ulong(t + d) = t + d
  <1>1. UlongSize \in Nat \ {0}
    BY TimerAssumption
  <1>2. CASE t + d < UlongSize
    BY <1>1, <1>2 DEF Ulong
  <1>3. CASE t + d >= UlongSize
    <2>1. t + d - UlongSize \in 0..(UlongSize - 1) /\ t + d - UlongSize < t
      BY <1>1, <1>3
    <2>2. (t + d) = UlongSize * 1 + (t + d - UlongSize)
      BY <1>1
    <2>3. /\ (t + d) % UlongSize \in 0..(UlongSize - 1) /\ (t + d) \div UlongSize \in Int
          /\ t + d = UlongSize * ((t + d) \div UlongSize) + ((t + d) % UlongSize)
      <3>1. t + d \in Int
        BY <1>1
      <3> QED BY <1>1, <3>1, DivMod, Zenon
    <2>4. (t + d) % UlongSize = t + d - UlongSize
      BY <1>1, <2>1, <2>2, <2>3, Unique
    <2> QED BY <2>1, <2>4 DEF Ulong
  <1> QED BY <1>1, <1>2, <1>3

(* Reading the counter brings the timestamp up to date. *)
LEMMA PollTold ==
    ASSUME TypeOK, TimeInv, NEW op, Poll(op), op # "idle"
    PROVE  /\ TimeInv' /\ gap' = 0 /\ Pending' = 0
           /\ Counted' = elapsed' - reloads' /\ Counted' \in Nat
           /\ Ulong(timestamp' - stamp') = Ulong(Counted')
           /\ ~wrapped' => timestamp' - stamp' = Counted'
  <1> USE TimerAssumption, WaitAssumption
  <1>1. /\ elapsed \in Int /\ reloads \in Int /\ gap \in 0..Load /\ lastdec \in 0..Load /\ Load \in Nat
        /\ Pending \in {0, 1} /\ counter \in 0..Load /\ timestamp \in 0..(UlongSize - 1) /\ stamp \in Int
        /\ Pending <= gap
    BY DEF TypeOK, Pending
  <1>2. /\ pc # "idle" /\ gap' = 0 /\ lastdec' = counter /\ counter' = counter
        /\ timestamp' = Ulong(timestamp + gap - Pending)
        /\ elapsed' = elapsed /\ reloads' = reloads /\ stamp' = stamp
    BY ReadAdds DEF Poll, get_ticks
  <1>3. Pending' = 0
    BY <1>1, <1>2 DEF Pending
  <1> DEFINE e == Counted
             d == gap - Pending
             t == timestamp + gap - Pending
  <1>4. /\ e \in Nat /\ t \in Int /\ Ulong(t) \in Int /\ d \in 0..(UlongSize - 1) /\ t = timestamp + d
        /\ Counted' = e + d /\ Counted' = elapsed' - reloads' /\ Counted' \in Nat
    <2>1. e \in Nat
      BY <1>2 DEF TimeInv
    <2>2. t \in Int /\ d \in 0..(UlongSize - 1) /\ t = timestamp + d
      BY <1>1
    <2>3. Counted' = e + d /\ Counted' = elapsed' - reloads'
      BY <1>1, <1>2, <1>3 DEF Counted
    <2> QED BY <2>1, <2>2, <2>3, UlongType
  <1>5. Ulong(Ulong(t) + (-stamp)) = Ulong(t + (-stamp))
    BY <1>1, <1>4, UlongAdd
  <1>6. Ulong((timestamp - stamp) + d) = Ulong(e + d)
    <2>1. timestamp - stamp \in Int /\ d \in Int
      BY <1>1
    <2>2. Ulong(timestamp - stamp) = Ulong(e)
      BY <1>2 DEF TimeInv
    <2> QED BY <1>4, <2>1, <2>2, UlongSame
  <1>7. /\ timestamp' - stamp' = Ulong(t) + (-stamp)
        /\ t + (-stamp) = (timestamp - stamp) + d
    BY <1>1, <1>2, <1>3, <1>4
  <1>8. Ulong(timestamp' - stamp') = Ulong(Counted')
    BY <1>4, <1>5, <1>6, <1>7
  <1>9. counter' = lastdec' - gap' + Pending' * (Load + 1)
    BY <1>1, <1>2, <1>3
  <1>10. ASSUME ~wrapped' PROVE timestamp' - stamp' = Counted'
    <2>1. ~wrapped /\ ~(timestamp' < timestamp)
      BY <1>10, Zenon DEF Poll
    <2>2. timestamp - stamp = e
      BY <1>2, <2>1, Zenon DEF TimeInv
    <2>3. Ulong(timestamp + d) = timestamp + d
      <3>1. ~(Ulong(timestamp + d) < timestamp)
        BY <1>2, <1>4, <2>1
      <3> HIDE DEF d
      <3> QED BY <1>1, <1>4, <3>1, NoCarry
    <2> QED BY <1>1, <1>2, <1>4, <2>2, <2>3
  <1> QED BY <1>2, <1>3, <1>4, <1>8, <1>9, <1>10, Zenon DEF TimeInv

(* Arithmetic of a wait that has just begun. *)
LEMMA NothingYet ==
    ASSUME NEW t \in Int, NEW c \in Int, NEW l \in Int
    PROVE  t - t = 0 /\ 0 - 0 - 0 + 0 = 0 /\ c = c - 0 + 0 * (l + 1)
  OBVIOUS

(* A wait begins with the counter read. *)
LEMMA BeginTold ==
    ASSUME TypeOK, \E op, u : Begin(op, u)
    PROVE  TimeInv'
  <1>1. get_ticks
    BY Zenon DEF Begin
  <1>2. /\ timestamp' \in 0..(UlongSize - 1) /\ counter' \in 0..Load
        /\ lastdec' = counter' /\ gap' = 0
    BY <1>1, GetTicksTypes DEF get_ticks
  <1>3. timestamp' \in Int /\ counter' \in Int /\ Load \in Int
    BY <1>2, TimerAssumption
  <1>4. Pending' = 0
    BY <1>2, TimerAssumption DEF Pending
  <1>5. stamp' = timestamp' /\ elapsed' = 0 /\ reloads' = 0
    BY Zenon DEF Begin
  <1>6. timestamp' - timestamp' = 0 /\ 0 - 0 - 0 + 0 = 0 /\ counter' = counter' - 0 + 0 * (Load + 1)
    BY <1>3, NothingYet, Zenon
  <1>7. Counted' = 0 /\ 0 \in Nat
    BY <1>2, <1>4, <1>5, <1>6, Zenon DEF Counted
  <1> QED BY <1>2, <1>4, <1>5, <1>6, <1>7, Zenon DEF TimeInv

(* Every step keeps the invariant. *)
LEMMA TimeStep ==
    ASSUME TypeOK, TimeInv, [Next]_vars
    PROVE  TimeInv'
  <1>1. CASE Tick
    <2>1. pc = "idle" => pc' = "idle"
      BY <1>1 DEF Tick, wait
    <2> QED BY <1>1, <2>1, TickTold DEF TimeInv
  <1>2. CASE reset_timer
    BY <1>2 DEF reset_timer, wait, TimeInv
  <1>3. CASE Loops
    <2>1. PICK op \in {"udelay", "udelay_masked", "timeout"} : Poll(op)
      BY <1>3 DEF Loops, UdelayLoop, UdelayMaskedLoop, NetLoopCheck
    <2> QED BY <2>1, PollTold
  <1>4. CASE \E u \in Usecs : udelay(u) \/ udelay_masked(u)
    <2>1. PICK u \in Usecs : udelay(u) \/ udelay_masked(u)
      BY <1>4
    <2>2. Begin("udelay", u) \/ Begin("udelay_masked", u)
      BY <2>1, Zenon DEF udelay, udelay_masked
    <2> QED BY <2>2, BeginTold, Zenon
  <1>5. CASE \E ms \in Deltas : NetSetTimeout(ms)
    <2>1. Begin("timeout", 0)
      BY <1>5, Zenon DEF NetSetTimeout
    <2> QED BY <2>1, BeginTold, Zenon
  <1>6. CASE UNCHANGED vars
    BY <1>6 DEF vars, TimeInv, Pending, Counted
  <1> QED BY <1>1, <1>2, <1>3, <1>4, <1>5, <1>6 DEF Next

(* Where the counter is read at least once in a period, get_ticks tells the time
   but for one tick in each period, whatever the width of the timestamp and
   however often it wraps. *)
THEOREM ToldTime == Spec => []TimeTold
  <1>1. Init => TimeInv
    BY DEF Init, TimeInv
  <1>2. TypeOK /\ TimeInv => TimeTold
    <2> SUFFICES ASSUME TypeOK, TimeInv, pc # "idle", gap = 0
                 PROVE  Ulong(timestamp - stamp) = Ulong(elapsed - reloads)
      BY DEF TimeTold
    <2>1. Pending = 0 /\ elapsed \in Int /\ reloads \in Int
      BY TimerAssumption DEF Pending, TypeOK
    <2>2. Counted = elapsed - reloads
      BY <2>1 DEF Counted
    <2> QED BY <2>2 DEF TimeInv
  <1> QED BY <1>1, <1>2, TimeStep, TypeCorrect, PTL DEF Spec

-----------------------------------------------------------------------------
(* The waits.                                                                 *)

(* A reduced number is not larger than it was. *)
LEMMA UlongAtMost ==
    ASSUME NEW n \in Nat
    PROVE  Ulong(n) <= n
  <1> DEFINE w == UlongSize
             q == n \div w
  <1>1. w \in Nat \ {0} /\ q \in Nat
    BY TimerAssumption, Quotient
  <1>2. n = w * q + (n % w)
    BY <1>1, DivMod
  <1>3. w * q \in Nat /\ n % w \in Int
    BY <1>1
  <1> HIDE DEF q, w
  <1> QED BY <1>2, <1>3 DEF Ulong, w

(* A third of what an unsigned long holds is positive as a signed long. *)
LEMMA LessThanHalf ==
    ASSUME NEW a \in 0..(UlongSize - 1), NEW k \in Nat, k >= 3
    PROVE  a \div k \in 0..((UlongSize \div 2) - 1)
  <1> DEFINE q == a \div k
             h == UlongSize \div 2
  <1>1. /\ UlongSize \in Nat /\ UlongSize >= 4
    BY TimerAssumption
  <1>2. UlongSize = 2 * h + (UlongSize % 2) /\ UlongSize % 2 \in 0..1 /\ h \in Int
    BY <1>1, DivMod
  <1>3. a = k * q + (a % k) /\ a % k \in 0..(k - 1) /\ q \in Nat
    <2>1. a \in Nat /\ a \in Int /\ k \in Nat \ {0}
      BY <1>1
    <2>2. a \div k \in 0..a
      BY <2>1, Quotient, Zenon
    <2>3. a = k * (a \div k) + (a % k) /\ a % k \in 0..(k - 1)
      BY <2>1, DivMod, Zenon
    <2> QED BY <2>1, <2>2, <2>3
  <1> HIDE DEF q, h
  <1>4. k * q >= 3 * q
    BY <1>3
  <1>5. k * q <= a
    BY <1>3
  <1>6. 3 * q <= 2 * h
    BY <1>1, <1>2, <1>3, <1>4, <1>5
  <1>7. q \in 0..(h - 1)
    BY <1>1, <1>2, <1>3, <1>6
  <1> QED BY <1>7 DEF q, h

(* What a delay asks for is positive as a signed long. *)
LEMMA TicksPositive ==
    ASSUME NEW u \in Nat
    PROVE  /\ MsecTicks(u) \in 0..((UlongSize \div 2) - 1)
           /\ ShortTicks(u) \in 0..((UlongSize \div 2) - 1)
  <1>1. Kilo \in Nat /\ Kilo >= 3 /\ Kilo * Kilo \in Nat /\ Kilo * Kilo >= 3
    <2>1. Kilo \in Nat /\ Kilo >= 3
      BY TimerAssumption
    <2>2. Kilo * Kilo >= 3 * Kilo
      BY <2>1
    <2> QED BY <2>1, <2>2
  <1>2. u \div Kilo \in Nat
    BY TimerAssumption, Quotient
  <1>3. (u \div Kilo) * TicksPerSec \in Int /\ u * TicksPerSec \in Int
    BY <1>2, TicksType
  <1> DEFINE a == Ulong((u \div Kilo) * TicksPerSec)
             b == Ulong(u * TicksPerSec)
  <1>4. a \in 0..(UlongSize - 1) /\ b \in 0..(UlongSize - 1)
    BY <1>3, UlongType
  <1> HIDE DEF a, b
  <1>5. /\ a \div Kilo \in 0..((UlongSize \div 2) - 1)
        /\ b \div (Kilo * Kilo) \in 0..((UlongSize \div 2) - 1)
    BY <1>1, <1>4, LessThanHalf
  <1> QED BY <1>5 DEF a, b, MsecTicks, ShortTicks

(* Milliseconds apart are at least so many ticks apart. *)
LEMMA MsecApart ==
    ASSUME NEW k \in Nat \ {0}, NEW t \in Nat, NEW s \in Nat, NEW n \in Nat, t >= s
    PROVE  /\ (t \div k) - (s \div k) \in Nat
           /\ (t \div k) - (s \div k) > n => t - s > n * k
  <1> DEFINE a == t \div k
             b == s \div k
  <1>1. /\ t = k * a + (t % k) /\ t % k \in 0..(k - 1) /\ a \in Int
        /\ s = k * b + (s % k) /\ s % k \in 0..(k - 1) /\ b \in Int
    BY DivMod
  <1> HIDE DEF a, b
  <1>2. k * a \in Int /\ k * b \in Int /\ k * (a - b) = k * a - k * b /\ k * (a - b) \in Int
    BY <1>1
  <1>3. k * (a - b) > -k
    BY <1>1, <1>2
  <1>4. a - b \in Nat
    <2>1. SUFFICES ASSUME a - b <= -1 PROVE FALSE
      BY <1>1
    <2>2. k * (a - b) <= -k
      BY <1>1, <2>1
    <2> QED BY <1>2, <1>3, <2>2
  <1>5. ASSUME a - b > n PROVE t - s > n * k
    <2>1. a - b >= n + 1
      BY <1>1, <1>5
    <2>2. k * (a - b) >= k * (n + 1)
      BY <1>1, <2>1
    <2>3. k * (n + 1) = n * k + k /\ n * k \in Int
      OBVIOUS
    <2> QED BY <1>1, <1>2, <2>2, <2>3
  <1> QED BY <1>4, <1>5 DEF a, b

(* Where the time left until s + d is negative as a signed long, more than d ticks
   have been counted since s. *)
LEMMA NegativeMeansOver ==
    ASSUME NEW t \in Int, NEW s \in Int, NEW d \in 0..((UlongSize \div 2) - 1), NEW c \in Nat,
           Ulong(t - s) = Ulong(c), ~(Ulong(Ulong(s + d) - t) < UlongSize \div 2)
    PROVE  c > d
  <1> DEFINE h == UlongSize \div 2
  <1>1. h \in 0..UlongSize /\ UlongSize \in Nat
    BY TimerAssumption, Quotient
  <1>2. d \in Int /\ d \in 0..(h - 1) /\ s + d \in Int /\ -t \in Int /\ t - s \in Int
    BY <1>1
  <1>3. Ulong(Ulong(s + d) + (-t)) = Ulong((s + d) + (-t))
    BY <1>2, UlongAdd
  <1>4. Ulong(s + d) \in Int /\ Ulong(s + d) + (-t) = Ulong(s + d) - t
        /\ (s + d) + (-t) = -(t - s) + d
    BY <1>2, UlongType
  <1>5. Ulong(-Ulong(t - s) + d) = Ulong(-(t - s) + d) /\ Ulong(-Ulong(c) + d) = Ulong(-c + d)
    BY <1>2, UlongSub
  <1>6. Ulong(Ulong(s + d) - t) = Ulong(-c + d)
    BY <1>3, <1>4, <1>5
  <1>7. SUFFICES ASSUME c <= d PROVE FALSE
    BY <1>2
  <1>8. -c + d \in 0..(h - 1) /\ -c + d < UlongSize
    BY <1>1, <1>2, <1>7
  <1>9. Ulong(-c + d) = -c + d
    BY <1>1, <1>8, TimerAssumption DEF Ulong
  <1> QED BY <1>1, <1>6, <1>8, <1>9

(* Where more than n milliseconds are between two timestamps, so are their ticks. *)
LEMMA MsecMeansTicks ==
    ASSUME NEW t \in Nat, NEW s \in Nat, NEW c \in Nat, t - s = c, NEW n \in Nat,
           ~(Ulong((t \div TicksPerMsec) - (s \div TicksPerMsec)) <= n)
    PROVE  c > n * TicksPerMsec
  <1> DEFINE m == TicksPerMsec
             x == (t \div m) - (s \div m)
  <1>1. m \in Nat \ {0} /\ t >= s
    BY TicksType
  <1> HIDE DEF m
  <1>2. x \in Nat /\ (x > n => t - s > n * m)
    BY <1>1, MsecApart
  <1>3. ~(Ulong(x) <= n)
    BY DEF m
  <1> HIDE DEF x
  <1>4. Ulong(x) <= x /\ Ulong(x) \in Int
    BY <1>2, UlongAtMost, UlongType
  <1>5. x > n
    BY <1>2, <1>3, <1>4
  <1> QED BY <1>2, <1>5 DEF m

LEMMA CountedAtMost ==
    ASSUME NEW e \in Nat, NEW r \in Nat, NEW d \in Int, e - r > d
    PROVE  e > d /\ e >= d
  OBVIOUS

(* What a wait that runs has set out with, and what one that has ended was. *)
SetOut ==
    /\ pc = "udelay" => start = stamp /\ usec # 0
    /\ pc = "udelay_masked" => /\ start = Ulong(stamp + tmo) /\ usec # 0
                               /\ tmo \in 0..((UlongSize \div 2) - 1)
    /\ pc = "timeout" => /\ start = stamp \div TicksPerMsec /\ usec = 0
                         /\ tmo \in Nat
WaitInv == SetOut /\ DelayLongEnough /\ TimeoutNotEarly

(* udelay ends when the ticks that were counted are as many as it asked for. *)
LEMMA UdelayLongEnough ==
    ASSUME TypeOK, TimeInv, WaitInv, UdelayLoop
    PROVE  WaitInv'
  <1>1. /\ Poll("udelay") /\ pc = "udelay" /\ start = stamp /\ usec # 0
        /\ usec' = usec /\ start' = start /\ tmo' = tmo /\ stamp' = stamp
    BY DEF UdelayLoop, Poll, WaitInv, SetOut
  <1>2. CASE pc' = pc
    BY <1>1, <1>2 DEF WaitInv, SetOut, DelayLongEnough, TimeoutNotEarly
  <1>3. CASE pc' # pc
    <2>1. pc' = "idle" /\ ~(Ulong(timestamp' - start) < tmo)
      BY <1>3 DEF UdelayLoop, GoOnWhile
    <2>2. Ulong(Counted') <= Counted'
      BY <1>1, PollTold, UlongAtMost
    <2>3. /\ Ulong(timestamp' - start) = Ulong(Counted') /\ Counted' = elapsed' - reloads'
          /\ Counted' \in Nat /\ elapsed' \in Nat /\ reloads' \in Nat /\ tmo \in Nat
      <3>1. elapsed' \in Nat /\ reloads' \in Nat /\ tmo \in Nat
        BY <1>1, TimerAssumption, WaitAssumption DEF TypeOK, Poll
      <3>2. stamp' = start
        BY <1>1
      <3> QED BY <1>1, <3>1, <3>2, PollTold, Zenon
    <2>4. Ulong(Counted') \in Int
      BY <2>3, UlongType
    <2>5. elapsed' >= tmo'
      BY <1>1, <2>1, <2>2, <2>3, <2>4
    <2> QED BY <1>1, <2>1, <2>5 DEF WaitInv, SetOut, DelayLongEnough, TimeoutNotEarly
  <1> QED BY <1>2, <1>3

(* udelay_masked ends when the time left, as a signed long, is negative. *)
LEMMA UdelayMaskedLongEnough ==
    ASSUME TypeOK, TimeInv, WaitInv, UdelayMaskedLoop
    PROVE  WaitInv'
  <1>1. /\ Poll("udelay_masked") /\ pc = "udelay_masked" /\ start = Ulong(stamp + tmo) /\ usec # 0
        /\ tmo \in 0..((UlongSize \div 2) - 1)
        /\ usec' = usec /\ start' = start /\ tmo' = tmo /\ stamp' = stamp
    BY DEF UdelayMaskedLoop, Poll, WaitInv, SetOut
  <1>2. CASE pc' = pc
    BY <1>1, <1>2 DEF WaitInv, SetOut, DelayLongEnough, TimeoutNotEarly
  <1>3. CASE pc' # pc
    <2>1. pc' = "idle" /\ ~(Ulong(Ulong(stamp + tmo) - timestamp') < UlongSize \div 2)
      BY <1>1, <1>3, Zenon DEF UdelayMaskedLoop, GoOnWhile
    <2>2. Counted' \in Nat /\ Ulong(timestamp' - stamp) = Ulong(Counted')
      BY <1>1, PollTold, Zenon
    <2>3. /\ elapsed' \in Nat /\ reloads' \in Nat /\ stamp \in Int /\ timestamp' \in Int
          /\ tmo \in Int
      <3>1. timestamp' \in 0..(UlongSize - 1)
        BY <1>1, GetTicksTypes DEF Poll
      <3> QED BY <1>1, <3>1, TimerAssumption, WaitAssumption DEF TypeOK, Poll
    <2>4. Counted' > tmo
      BY <1>1, <2>1, <2>2, <2>3, NegativeMeansOver, Zenon
    <2>5. elapsed' - reloads' > tmo
      BY <1>1, <2>4, PollTold, Zenon
    <2>6. elapsed' >= tmo'
      BY <1>1, <2>3, <2>5, CountedAtMost, Zenon
    <2> QED BY <1>1, <2>1, <2>6 DEF WaitInv, SetOut, DelayLongEnough, TimeoutNotEarly
  <1> QED BY <1>2, <1>3

(* A timeout that expires without a wrap of the timestamp is over by its milliseconds. *)
LEMMA TimeoutExpires ==
    ASSUME TypeOK, TimeInv, WaitInv, NetLoopCheck
    PROVE  WaitInv'
  <1>1. /\ Poll("timeout") /\ pc = "timeout" /\ start = stamp \div TicksPerMsec /\ usec = 0
        /\ tmo \in Nat
        /\ usec' = usec /\ start' = start /\ tmo' = tmo /\ stamp' = stamp
    BY DEF NetLoopCheck, Poll, WaitInv, SetOut
  <1>2. CASE pc' = pc
    BY <1>1, <1>2 DEF WaitInv, SetOut, DelayLongEnough, TimeoutNotEarly
  <1>3. CASE pc' # pc
    <2>1. /\ pc' = "idle"
          /\ ~(Ulong((timestamp' \div TicksPerMsec) - (stamp \div TicksPerMsec)) <= tmo)
      BY <1>1, <1>3, Zenon DEF NetLoopCheck, GoOnWhile, get_timer_masked
    <2>2. ASSUME ~wrapped' PROVE elapsed' > tmo' * TicksPerMsec
      <3>1. Counted' \in Nat /\ timestamp' - stamp = Counted' /\ Counted' = elapsed' - reloads'
        BY <1>1, <2>2, PollTold, Zenon
      <3>2. /\ elapsed' \in Nat /\ reloads' \in Nat /\ stamp \in Nat /\ timestamp' \in Nat
        <4>1. timestamp' \in 0..(UlongSize - 1)
          BY <1>1, GetTicksTypes DEF Poll
        <4> QED BY <1>1, <4>1, TimerAssumption, WaitAssumption DEF TypeOK, Poll
      <3>3. Counted' > tmo * TicksPerMsec
        BY <1>1, <2>1, <3>1, <3>2, MsecMeansTicks, Zenon
      <3>4. tmo * TicksPerMsec \in Int
        BY <1>1, TicksType
      <3>5. elapsed' - reloads' > tmo * TicksPerMsec
        BY <3>1, <3>3, Zenon
      <3> QED BY <1>1, <3>2, <3>4, <3>5, CountedAtMost, Zenon
    <2>3. usec' = 0 /\ ~(usec' > 0)
      BY <1>1
    <2>4. TimeoutNotEarly'
      BY <2>2, Zenon DEF TimeoutNotEarly
    <2> QED BY <2>1, <2>3, <2>4 DEF WaitInv, SetOut, DelayLongEnough
  <1> QED BY <1>2, <1>3

(* How a wait sets out. *)
LEMMA WaitSetsOut ==
    ASSUME TypeOK,
           \/ \E u \in Usecs : udelay(u) \/ udelay_masked(u)
           \/ \E ms \in Deltas : NetSetTimeout(ms)
    PROVE  WaitInv'
  <1>1. ASSUME NEW u \in Usecs, udelay(u) PROVE WaitInv'
    <2>1. Begin("udelay", u) /\ start' = timestamp'
      BY <1>1, Zenon DEF udelay
    <2>2. pc' = "udelay" /\ usec' = u /\ stamp' = timestamp'
      BY <2>1, Zenon DEF Begin
    <2>3. u # 0
      BY WaitAssumption
    <2> QED BY <2>1, <2>2, <2>3 DEF WaitInv, SetOut, DelayLongEnough, TimeoutNotEarly
  <1>2. ASSUME NEW u \in Usecs, udelay_masked(u) PROVE WaitInv'
    <2>1. /\ Begin("udelay_masked", u) /\ start' = Ulong(timestamp' + tmo')
          /\ tmo' \in {MsecTicks(u), ShortTicks(u)}
      BY <1>2 DEF udelay_masked
    <2>2. pc' = "udelay_masked" /\ usec' = u /\ stamp' = timestamp'
      BY <2>1, Zenon DEF Begin
    <2>3. u # 0 /\ u \in Nat
      BY WaitAssumption
    <2>4. tmo' \in 0..((UlongSize \div 2) - 1)
      BY <2>1, <2>3, TicksPositive
    <2> QED BY <2>1, <2>2, <2>3, <2>4 DEF WaitInv, SetOut, DelayLongEnough, TimeoutNotEarly
  <1>3. ASSUME NEW ms \in Deltas, NetSetTimeout(ms) PROVE WaitInv'
    <2>1. Begin("timeout", 0) /\ start' = timestamp' \div TicksPerMsec /\ tmo' = ms
      BY <1>3, Zenon DEF NetSetTimeout, get_timer_masked
    <2>2. pc' = "timeout" /\ usec' = 0 /\ stamp' = timestamp'
      BY <2>1, Zenon DEF Begin
    <2>3. ms \in Nat
      BY WaitAssumption
    <2> QED BY <2>1, <2>2, <2>3 DEF WaitInv, SetOut, DelayLongEnough, TimeoutNotEarly
  <1> QED BY <1>1, <1>2, <1>3

(* Every step keeps it. *)
LEMMA WaitStep ==
    ASSUME TypeOK, TimeInv, WaitInv, [Next]_vars
    PROVE  WaitInv'
  <1>1. CASE Tick
    <2>1. /\ pc' = pc /\ usec' = usec /\ start' = start /\ tmo' = tmo /\ stamp' = stamp
          /\ waits' = waits
      BY <1>1 DEF Tick, wait
    <2>2. pc = "idle" => elapsed' = elapsed
      BY <1>1 DEF Tick
    <2>3. wrapped' = wrapped
      BY <1>1, Zenon DEF Tick
    <2>4. SetOut' /\ DelayLongEnough'
      BY <2>1, <2>2 DEF WaitInv, SetOut, DelayLongEnough
    <2>5. TimeoutNotEarly'
      BY <2>1, <2>2, <2>3, Zenon DEF WaitInv, TimeoutNotEarly
    <2> QED BY <2>4, <2>5 DEF WaitInv
  <1>2. CASE reset_timer
    <2>1. SetOut' /\ DelayLongEnough'
      BY <1>2 DEF reset_timer, wait, WaitInv, SetOut, DelayLongEnough
    <2>2. TimeoutNotEarly'
      BY <1>2, Zenon DEF reset_timer, wait, WaitInv, TimeoutNotEarly
    <2> QED BY <2>1, <2>2 DEF WaitInv
  <1>3. CASE Loops
    BY <1>3, UdelayLongEnough, UdelayMaskedLongEnough, TimeoutExpires DEF Loops
  <1>4. CASE \E u \in Usecs : udelay(u) \/ udelay_masked(u)
    BY <1>4, WaitSetsOut
  <1>5. CASE \E ms \in Deltas : NetSetTimeout(ms)
    BY <1>5, WaitSetsOut
  <1>6. CASE UNCHANGED vars
    <2>1. SetOut' /\ DelayLongEnough'
      BY <1>6 DEF vars, WaitInv, SetOut, DelayLongEnough
    <2>2. TimeoutNotEarly'
      BY <1>6, Zenon DEF vars, WaitInv, TimeoutNotEarly
    <2> QED BY <2>1, <2>2 DEF WaitInv
  <1> QED BY <1>1, <1>2, <1>3, <1>4, <1>5, <1>6 DEF Next

LEMMA WaitInvariant == Spec => [](TypeOK /\ TimeInv /\ WaitInv)
  <1>1. Init => TimeInv /\ WaitInv
    BY DEF Init, TimeInv, WaitInv, SetOut, DelayLongEnough, TimeoutNotEarly
  <1> QED BY <1>1, TimeStep, WaitStep, TypeCorrect, PTL DEF Spec

(* A delay of whole milliseconds that the arithmetic can hold is never cut short, at
   whatever timestamp it begins and however often the counter starts over. *)
THEOREM DelaysLongEnough == Spec => []DelayLongEnough
  <1>1. WaitInv => DelayLongEnough
    BY DEF WaitInv
  <1> QED BY <1>1, WaitInvariant, PTL

(* A timeout of the network loop does not expire early unless the timestamp wraps. *)
THEOREM TimeoutsNotEarly == Spec => []TimeoutNotEarly
  <1>1. WaitInv => TimeoutNotEarly
    BY DEF WaitInv
  <1> QED BY <1>1, WaitInvariant, PTL

=============================================================================
