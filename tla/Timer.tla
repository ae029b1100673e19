-------------------------------- MODULE Timer --------------------------------
(***************************************************************************)
(* The time of the S3C2440 (cpu/arm920t/s3c24x0/timer.c): a hardware       *)
(* counter that counts down from timer_load_val and starts over, read by   *)
(* polling, and the waits that are built on it: udelay, udelay_masked and  *)
(* the timeouts of NetSetTimeout and NetLoop (net/net.c).                  *)
(*                                                                         *)
(* The code has 1000 milliseconds to the second, 1000 microseconds to the  *)
(* millisecond (both Kilo here), 100 periods to the second and an unsigned *)
(* long of 2^32.                                                           *)
(***************************************************************************)
EXTENDS Integers

CONSTANTS
    Load,           \* timer_load_val, TCNTB4
    Periods,        \* periods in a second, 100
    Kilo,           \* 1000
    UlongSize,      \* 2^32
    Usecs,          \* the arguments of udelay and udelay_masked
    Deltas,         \* the timeouts of NetSetTimeout, in milliseconds; 0 sets none
    Stamps,         \* timestamp when the waits begin
    MaxGap,         \* the counter is read at least once in so many ticks
    MaxWaits,       \* bound: waits, one after the other
    MaxElapsed      \* bound: ticks for which a wait is followed

TicksPerSec  == Load * Periods                  \* timer_clk
TicksPerMsec == TicksPerSec \div Kilo           \* timer_clk / CONFIG_SYS_HZ
Ulong(n)     == n % UlongSize

ASSUME TimerAssumption ==
    /\ Load \in Nat \ {0} /\ Periods \in Nat \ {0} /\ Kilo \in Nat \ {0, 1, 2}
    /\ UlongSize \in Nat \ {0} /\ UlongSize > 2 * (Load + 1) /\ TicksPerMsec > 0
    /\ Stamps \subseteq 0..(UlongSize - 1)
ASSUME WaitAssumption ==
    /\ Usecs \subseteq Nat \ {0} /\ Deltas \subseteq Nat \ {0}
    /\ MaxGap \in 1..Load /\ MaxWaits \in Nat /\ MaxElapsed \in Nat

VARIABLES
    counter,        \* TCNTO4
    timestamp,
    lastdec,
    pc,             \* "idle", or the wait that runs
    usec,           \* its argument; 0 for a timeout
    start,          \* start of udelay, endtime of udelay_masked, timeStart of NetSetTimeout
    tmo,            \* tmo, timeDelta
    gap,            \* ticks since the counter was last read
    waits,          \* waits so far
    elapsed,        \* history: ticks since the wait began
    reloads,        \* history: how often the counter has started over since
    stamp,          \* history: timestamp when it began
    wrapped         \* history: timestamp has wrapped since

vars == <<counter, timestamp, lastdec, pc, usec, start, tmo, gap, waits, elapsed, reloads,
          stamp, wrapped>>
wait == <<pc, usec, start, tmo, waits>>

-----------------------------------------------------------------------------
(* The hardware; while a wait runs the counter is polled often enough.       *)

Tick ==
    /\ pc # "idle" => gap < MaxGap /\ elapsed < MaxElapsed
    /\ counter' = IF counter = 0 THEN Load ELSE counter - 1
    /\ IF pc = "idle" THEN UNCHANGED <<gap, elapsed, reloads>>
       ELSE /\ gap' = gap + 1 /\ elapsed' = elapsed + 1
            /\ reloads' = IF counter = 0 THEN reloads + 1 ELSE reloads
    /\ UNCHANGED <<timestamp, lastdec, wait, stamp, wrapped>>

-----------------------------------------------------------------------------
(* get_ticks, get_timer                                                      *)

StampNoReload(now) == timestamp + lastdec - now

(* What get_ticks adds up to: "normal mode", or "we have an overflow". *)
NewStamp(now) ==
    IF lastdec >= now THEN timestamp + lastdec - now ELSE timestamp + lastdec + Load - now

get_ticks ==
    /\ timestamp' = Ulong(NewStamp(counter))
    /\ lastdec' = counter
    /\ gap' = 0
    /\ UNCHANGED counter

get_timer_masked(ticks) == ticks \div TicksPerMsec

reset_timer ==
    /\ pc = "idle"
    /\ timestamp' = 0 /\ lastdec' = counter
    /\ UNCHANGED <<counter, wait, gap, elapsed, reloads, stamp, wrapped>>

-----------------------------------------------------------------------------
(* The waits: how they begin, with a call of get_ticks, and one round of each. *)

Begin(op, u) ==
    /\ pc = "idle" /\ waits < MaxWaits
    /\ get_ticks
    /\ pc' = op /\ usec' = u /\ waits' = waits + 1
    /\ elapsed' = 0 /\ reloads' = 0 /\ stamp' = timestamp' /\ wrapped' = FALSE

Poll(op) ==
    /\ pc = op
    /\ get_ticks
    /\ wrapped' = (wrapped \/ timestamp' < timestamp)
    /\ UNCHANGED <<usec, start, tmo, waits, elapsed, reloads, stamp>>

GoOnWhile(condition) == pc' = IF condition THEN pc ELSE "idle"

MsecTicks(u)  == Ulong((u \div Kilo) * TicksPerSec) \div Kilo
ShortTicks(u) == Ulong(u * TicksPerSec) \div (Kilo * Kilo)

(* udelay: "tmo = usec / 1000", whole milliseconds. *)
udelay(u) == Begin("udelay", u) /\ start' = timestamp' /\ tmo' = MsecTicks(u)

UdelayCompares == Poll("udelay") /\ GoOnWhile(timestamp' < Ulong(start + tmo))

UdelayLoop == Poll("udelay") /\ GoOnWhile(Ulong(timestamp' - start) < tmo)

udelay_masked(u) ==
    /\ Begin("udelay_masked", u)
    /\ tmo' = IF u >= Kilo THEN MsecTicks(u) ELSE ShortTicks(u)
    /\ start' = Ulong(timestamp' + tmo')

UdelayMaskedUnsigned == Poll("udelay_masked") /\ GoOnWhile(Ulong(start - timestamp') >= 0)

(* "diff >= 0" of a signed long *)
UdelayMaskedLoop ==
    Poll("udelay_masked") /\ GoOnWhile(Ulong(start - timestamp') < UlongSize \div 2)

NetSetTimeout(ms) ==
    /\ Begin("timeout", 0)
    /\ start' = get_timer_masked(timestamp') /\ tmo' = ms

NetLoopExpired == Poll("timeout") /\ GoOnWhile(Ulong(get_timer_masked(timestamp') - start) < tmo)

(* "(get_timer(0) - timeStart) > timeDelta" *)
NetLoopCheck == Poll("timeout") /\ GoOnWhile(Ulong(get_timer_masked(timestamp') - start) <= tmo)

-----------------------------------------------------------------------------
InitFullCount ==
    /\ counter = Load /\ lastdec = UlongSize - 1 /\ timestamp \in Stamps
    /\ pc = "idle" /\ usec = 0 /\ start = 0 /\ tmo = 0 /\ gap = 0 /\ waits = 0
    /\ elapsed = 0 /\ reloads = 0 /\ stamp = timestamp /\ wrapped = FALSE

(* timer_init, and any time after it. *)
Init ==
    /\ counter = Load /\ lastdec = Load /\ timestamp \in Stamps
    /\ pc = "idle" /\ usec = 0 /\ start = 0 /\ tmo = 0 /\ gap = 0 /\ waits = 0
    /\ elapsed = 0 /\ reloads = 0 /\ stamp = timestamp /\ wrapped = FALSE

Loops == UdelayLoop \/ UdelayMaskedLoop \/ NetLoopCheck

Next ==
    \/ Tick \/ reset_timer \/ Loops
    \/ \E u \in Usecs : udelay(u) \/ udelay_masked(u)
    \/ \E ms \in Deltas : NetSetTimeout(ms)

Spec == Init /\ [][Next]_vars

(* The clock runs and the loops go round. *)
FairSpec == Spec /\ WF_vars(Tick) /\ WF_vars(Loops)

-----------------------------------------------------------------------------
TypeOK ==
    /\ counter \in 0..Load /\ lastdec \in 0..Load
    /\ timestamp \in 0..(UlongSize - 1) /\ stamp \in 0..(UlongSize - 1)
    /\ pc \in {"idle", "udelay", "udelay_masked", "timeout"}
    /\ usec \in Usecs \cup {0} /\ start \in 0..(UlongSize - 1) /\ tmo \in 0..(UlongSize - 1) \cup Deltas
    /\ gap \in 0..MaxGap /\ waits \in 0..MaxWaits
    /\ elapsed \in 0..MaxElapsed /\ reloads \in 0..elapsed /\ wrapped \in BOOLEAN

(* Where the counter has been read, the time is right but for one tick in each
   period, which the hardware takes to start over and the code does not count
   (get_ticks). *)
TimeTold ==
    pc # "idle" /\ gap = 0 => Ulong(timestamp - stamp) = Ulong(elapsed - reloads)

(* A delay of whole milliseconds that the arithmetic can hold is never cut short,
   not even where the timestamp wraps (udelay, udelay_masked). *)
Asked(u) == (u * TicksPerSec) \div (Kilo * Kilo)
DelayLongEnough ==
    pc = "idle" /\ waits > 0 /\ tmo = Asked(usec) /\ usec > 0 => elapsed >= tmo

(* A timeout of the network loop does not expire early, as long as the timestamp
   does not wrap (NetLoop). *)
TimeoutNotEarly ==
    pc = "idle" /\ waits > 0 /\ usec = 0 /\ ~wrapped => elapsed > tmo * TicksPerMsec

(* Every wait ends: a delay of nothing, too, and one across the wrap (udelay,
   udelay_masked, NetLoop). *)
WaitsEnd == (pc # "idle") ~> (pc = "idle")

(* drivers/net/dm9000x.c: "udelay(25); Wait at least 20 us": a delay lasts, but
   for a fifth of it. *)
WaitsAtLeast ==
    pc = "idle" /\ waits > 0 /\ usec > 0 => 5 * elapsed >= 4 * Asked(usec)

(* A timeout does not expire early, ever. *)
NeverEarly ==
    pc = "idle" /\ waits > 0 /\ usec = 0 => elapsed > tmo * TicksPerMsec

=============================================================================
