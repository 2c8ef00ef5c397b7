----------------------------- MODULE SchedPromise -----------------------------
(***************************************************************************)
(* What app_scheduler promises: a bounded first-in first-out queue.  Every *)
(* event that is accepted is executed once, in the order of acceptance,    *)
(* with its own handler and its own data; at most Capacity events wait.    *)
(***************************************************************************)
EXTENDS Naturals, Sequences

CONSTANTS Capacity, Event

VARIABLES
  queue,     \* accepted events not yet taken, oldest first
  running,   \* <<event>> from when it is taken until its handler has its data
  executed   \* the calls made: what each handler was given

vars == <<queue, running, executed>>

Init ==
  /\ queue = <<>>
  /\ running = <<>>
  /\ executed = <<>>

Accept(e) ==
  /\ Len(queue) < Capacity
  /\ queue' = Append(queue, e)
  /\ UNCHANGED <<running, executed>>

Take ==
  /\ queue # <<>>
  /\ running = <<>>
  /\ running' = <<Head(queue)>>
  /\ queue' = Tail(queue)
  /\ UNCHANGED executed

Execute ==
  /\ running # <<>>
  /\ executed' = executed \o running
  /\ running' = <<>>
  /\ UNCHANGED queue

Next ==
  \/ \E e \in Event : Accept(e)
  \/ Take
  \/ Execute

Spec == Init /\ [][Next]_vars
================================================================================
