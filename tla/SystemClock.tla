---------------------------- MODULE SystemClock -----------------------------
(***************************************************************************)
(* The clock of timer.c: a count of milliseconds and the same time split    *)
(* into fields, both advanced by timer_handler, which runs with interrupts  *)
(* disabled.  get_system_time copies the fields with memcpy, one byte after *)
(* the other from the lowest address, and may be interrupted in between.    *)
(* The thread modelled does that, or polls for a deadline with time_after   *)
(* and time_before.                                                         *)
(*                                                                         *)
(* The limits 1000, 60, 60 and 24 of the fields, the values of a byte and   *)
(* the range of the counter are constants, so that small ones carry and     *)
(* wrap within a few ticks.                                                 *)
(***************************************************************************)
EXTENDS Integers, Sequences, Null

CONSTANTS
  Limits,   \* of milliseconds, seconds, minutes and hours
  Byte,     \* the values of a byte; milliseconds take two
  Days,     \* bound: the days modelled
  Half,     \* half the range of monotonic_ms, 2^63 of its 64 bits
  Delays,   \* bound: how far ahead deadlines are set
  PIT_DIVISOR,  \* the input frequency of the timer chip,
  Frequencies   \* and the frequencies it is asked for

VARIABLES
  monotonic_ms,
  time,      \* kernel->current_time: milliseconds, seconds, minutes, hours, days
  elapsed,   \* the ticks since boot
  copy,      \* the bytes get_system_time has copied, or NULL outside of it,
  since,     \* and the time when it was called
  deadline,  \* the deadline waited for, or NULL,
  left       \* and the ticks left until then, negative once it has passed

clockVars == <<monotonic_ms, time, elapsed, copy, since, deadline, left>>

Modulus == 2 * Half

\* What the theorems assume of the constants: limits that can be reached,
\* deadlines less than half the range ahead, and frequencies whose divisor the
\* 16 bits of the chip can hold.
ClockConstants ==
  /\ Limits \in [1 .. 4 -> Nat \ {0}]
  /\ Byte \in Nat \ {0} /\ Half \in Nat \ {0} /\ Days \in Nat
  /\ Delays \subseteq 0 .. Half - 1
  /\ PIT_DIVISOR \in Nat
  /\ \A f \in Frequencies : f \in Nat \ {0} /\ PIT_DIVISOR \div f + 1 < 65536

ASSUME ClockAssumption == ClockConstants

-----------------------------------------------------------------------------
(* Faulty variants of definitions below, named by what is wrong with them.  *)

carries_late(t, i)     == t[i] + 1 \leq Limits[i]
plain_comparison(a, b) == b < a
highest_first == <<6, 5, 4, 3, 2, 1>>

-----------------------------------------------------------------------------
\* init_system_clock.
ClockInit ==
  /\ monotonic_ms = 0
  /\ time = <<0, 0, 0, 0, 0>>
  /\ elapsed = 0
  /\ copy = NULL /\ since = 0
  /\ deadline = NULL /\ left = 0

\* pit_set_frequency: the divisor, rounded, of which the chip gets 16 bits.
pit_set_frequency(f) ==
  (PIT_DIVISOR \div f + (IF PIT_DIVISOR % f > f \div 2 THEN 1 ELSE 0)) % 65536

\* The field i of the time t does not reach its limit.
Below(t, i) == t[i] + 1 < Limits[i]

\* The increments, resets and early returns of timer_handler.
Advanced(t) ==
  LET carry == { i \in 1 .. 4 : \A j \in 1 .. i : ~Below(t, j) }   \* the fields that return to 0
  IN [i \in 1 .. 5 |-> IF i \in carry THEN 0
                       ELSE IF \A j \in 1 .. i - 1 : j \in carry THEN t[i] + 1 ELSE t[i]]

timer_handler ==
  /\ time[5] < Days
  /\ monotonic_ms' = (monotonic_ms + 1) % Modulus
  /\ time' = Advanced(time)
  /\ elapsed' = elapsed + 1
  /\ left' = IF deadline = NULL THEN 0 ELSE left - 1
  /\ UNCHANGED <<copy, since, deadline>>

\* The bytes of struct system_time that ever differ from 0: two of the
\* milliseconds, one of each other field.
TimeBytes(t) == <<t[1] % Byte, t[1] \div Byte, t[2], t[3], t[4], t[5]>>

\* memcpy starts at the lowest address.
Order == <<1, 2, 3, 4, 5, 6>>

get_system_time ==
  /\ copy = NULL /\ deadline = NULL
  /\ copy' = <<>> /\ since' = elapsed
  /\ UNCHANGED <<monotonic_ms, time, elapsed, deadline, left>>

CopyByte ==
  /\ copy # NULL /\ Len(copy) < 6
  /\ copy' = Append(copy, TimeBytes(time)[Order[Len(copy) + 1]])
  /\ UNCHANGED <<monotonic_ms, time, elapsed, since, deadline, left>>

ReadDone ==
  /\ copy # NULL /\ Len(copy) = 6
  /\ copy' = NULL
  /\ UNCHANGED <<monotonic_ms, time, elapsed, since, deadline, left>>

uptime_ms == monotonic_ms

\* The thread waits until d ticks from now have passed.
SetDeadline(d) ==
  /\ deadline = NULL /\ copy = NULL
  /\ deadline' = (uptime_ms + d) % Modulus /\ left' = d
  /\ UNCHANGED <<monotonic_ms, time, elapsed, copy, since>>

EndWait ==
  /\ deadline # NULL /\ left < 0
  /\ deadline' = NULL /\ left' = 0
  /\ UNCHANGED <<monotonic_ms, time, elapsed, copy, since>>

\* (int64_t)(x) < 0 of the difference of two counts.
Negative(x) == (x % Modulus) >= Half

time_after(a, b) == Negative(b - a)

time_before(a, b) == Negative(a - b)

ClockNext == timer_handler \/ get_system_time \/ CopyByte \/ ReadDone \/ EndWait
        \/ \E d \in Delays : SetDeadline(d)

ClockSpec == ClockInit /\ [][ClockNext]_clockVars

-----------------------------------------------------------------------------
Weight == [i \in 1 .. 5 |->
  IF i = 1 THEN 1 ELSE IF i = 2 THEN Limits[1] ELSE IF i = 3 THEN Limits[1] * Limits[2]
  ELSE IF i = 4 THEN Limits[1] * Limits[2] * Limits[3]
  ELSE Limits[1] * Limits[2] * Limits[3] * Limits[4]]

\* A time in ticks.
Ticks(t) == t[1] + Weight[2] * t[2] + Weight[3] * t[3] + Weight[4] * t[4] + Weight[5] * t[5]

\* The fields are the number of ticks since boot, through every carry of
\* timer_handler, and each stays below its limit; and the ticks have the period
\* asked for, to the nearest cycle of the chip.
FieldsExact ==
  /\ Ticks(time) = elapsed
  /\ \A i \in 1 .. 4 : time[i] < Limits[i]
  /\ \A f \in Frequencies :
       LET error == f * pit_set_frequency(f) - PIT_DIVISOR IN 2 * error \in -f .. f

\* The time the bytes copied stand for.
Read(c) ==
  LET b == [i \in 1 .. 6 |-> c[CHOOSE k \in 1 .. 6 : Order[k] = i]]
  IN <<b[1] + Byte * b[2], b[3], b[4], b[5], b[6]>>

\* A copy interrupted by any number of ticks, carries included, is never behind
\* the moment get_system_time was called; and it is exact if no tick struck.
ReadNotBehind ==
  copy # NULL /\ Len(copy) = 6 =>
    /\ Ticks(Read(copy)) >= since
    /\ elapsed = since => Ticks(Read(copy)) = since

\* time_after and time_before order the time and a deadline as long as they are
\* less than half the range apart, also when the counter wraps in between.
DeadlineExact ==
  deadline # NULL /\ left > -Half =>
    /\ time_after(uptime_ms, deadline) = (left < 0)
    /\ time_before(uptime_ms, deadline) = (left > 0)

-----------------------------------------------------------------------------
(* The inductive invariant behind the theorems of MachineProofs.            *)

ClockTypes ==
  /\ monotonic_ms \in 0 .. Modulus - 1
  /\ time \in [1 .. 5 -> Nat]
  /\ elapsed \in Nat /\ since \in 0 .. elapsed
  /\ left \in Int

FieldsSound == Ticks(time) = elapsed /\ \A i \in 1 .. 4 : time[i] < Limits[i]

\* What the n bytes copied would come to if the rest were copied now: it never decreases,
\* because a tick that lowers a field raises a later one.
Hybrid(c, n, t) ==
  LET b == [i \in 1 .. 6 |-> IF i \leq n THEN c[i] ELSE TimeBytes(t)[i]]
  IN b[1] + Byte * b[2] + Weight[2] * b[3] + Weight[3] * b[4] + Weight[4] * b[5] + Weight[5] * b[6]

CopySound ==
  copy # NULL =>
    /\ copy \in Seq(Nat) /\ Len(copy) \leq 6
    /\ Hybrid(copy, Len(copy), time) >= since
    /\ elapsed = since => Hybrid(copy, Len(copy), time) = since

\* The deadline is the ticks left away from now, some wraps of the counter aside.
DeadlineSound ==
  deadline # NULL =>
    /\ deadline \in 0 .. Modulus - 1 /\ left < Half
    /\ \E k \in Int : monotonic_ms + left = deadline + Modulus * k

ClockInv == ClockTypes /\ FieldsSound /\ CopySound /\ DeadlineSound
=============================================================================
