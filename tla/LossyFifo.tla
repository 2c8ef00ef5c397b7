------------------------------- MODULE LossyFifo -------------------------------
(***************************************************************************)
(* What the receive rings of the SDK promise: a queue of at most Capacity  *)
(* bytes that, when it is full, either forgets its oldest byte for a new   *)
(* one or refuses the new one, and that a reader empties from the front.   *)
(***************************************************************************)
EXTENDS Naturals, Sequences

CONSTANTS Capacity, Bytes

VARIABLES
  queue,   \* the bytes held, oldest first
  taken    \* the bytes the reader got, in order

Init == queue = <<>> /\ taken = <<>>

Receive(b) ==
  /\ queue' = IF Len(queue) < Capacity THEN Append(queue, b) ELSE Append(Tail(queue), b)
  /\ UNCHANGED taken

Take ==
  /\ queue # <<>>
  /\ queue' = Tail(queue)
  /\ taken' = Append(taken, Head(queue))

Next == (\E b \in Bytes : Receive(b)) \/ Take

Spec == Init /\ [][Next]_<<queue, taken>>
================================================================================
