--------------------------------- MODULE OsNone ---------------------------------
(***************************************************************************)
(* The semaphores of the port for bare metal (sdk_os_port_none.c), which   *)
(* wait by being polled: operators on a semaphore and the system tick.  A  *)
(* take returns the status and the semaphore.                              *)
(***************************************************************************)
EXTENDS SoftTimer

CONSTANT Int16Max   \* INT16_MAX

ASSUME Int16MaxIsPositive == Int16Max \in Nat \ {0}

\* A semaphore whose timer nobody has set.
NoSem == [value |-> 0, state |-> "START", timer |-> UnsetTimer]

sdk_os_sem_init(sem, count) == [sem EXCEPT !.value = count, !.state = "START"]

sdk_os_sem_release(sem) == IF sem.value < Int16Max THEN [sem EXCEPT !.value = @ + 1] ELSE sem

\* For timeout > 0.  The expiry of the timer is reported one poll later, and
\* not at all when the semaphore is released in between.
sdk_os_sem_take(sem, timeout, now) ==
  IF sem.value > 0
    THEN [status |-> "OK", sem |-> [sem EXCEPT !.value = @ - 1, !.state = "START"]]
  ELSE IF sem.state = "START"
    THEN [status |-> "BUSY",
          sem |-> [sem EXCEPT !.timer = swtimer_set(now, timeout), !.state = "WAITING"]]
  ELSE IF sem.state = "WAITING"
    THEN [status |-> "BUSY",
          sem |-> IF swtimer_expired(sem.timer, now) THEN [sem EXCEPT !.state = "TIMEOUT"] ELSE sem]
  ELSE [status |-> "TIMEOUT", sem |-> [sem EXCEPT !.state = "START"]]
================================================================================
