------------------------------- MODULE SoftTimer -------------------------------
(***************************************************************************)
(* The software timers of components/drivers/sdk_soft_timer.c, which the   *)
(* protothreads poll: operators on a timer record and the system tick, a   *)
(* counter of W values that wraps around (W = 2^32 in the code).           *)
(***************************************************************************)
EXTENDS Integers

CONSTANT W

ASSUME WIsEven == W \in Nat \ {0} /\ W % 2 = 0

Ticks == 0 .. W - 1

\* A timer nobody has set: all fields zero.
UnsetTimer == [start |-> 0, timeout_ms |-> 0, isstop |-> FALSE]

Timer(timeouts) == [start : Ticks, timeout_ms : timeouts, isstop : BOOLEAN]

swtimer_set(now, timeout) ==
  [start |-> now, timeout_ms |-> timeout, isstop |-> FALSE]

swtimer_stop(t) == [t EXCEPT !.start = 0, !.isstop = TRUE]

\* (int)(clock_time() - t->start): the difference as a signed number.
Elapsed(t, now) ==
  LET d == (now - t.start) % W IN IF d < W \div 2 THEN d ELSE d - W

\* Mutant: the deadline is compared as if the clock never wrapped.
ExpiredByDeadline(t, now) ==
  /\ ~t.isstop
  /\ t.start # 0
  /\ now >= t.start + t.timeout_ms

\* start = 0 stands for a timer that is not running, and is also what the
\* system tick reads once every W ticks.
swtimer_expired(t, now) ==
  /\ ~t.isstop
  /\ t.start # 0
  /\ Elapsed(t, now) >= t.timeout_ms
================================================================================
