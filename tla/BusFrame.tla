-------------------------------- MODULE BusFrame --------------------------------
(***************************************************************************)
(* The frames of the register bus (components/apbus/apbus_backend_uart.c): *)
(* BC CB  len_lo len_hi  ids  body  checksum.  The five bytes of ids,      *)
(* function and index are one element here, and so are the two bytes of    *)
(* the checksum; a byte carries its value and, for the check, the frame    *)
(* and the position it was sent at.                                        *)
(***************************************************************************)
EXTENDS Integers, Sequences

\* ids and checksum: what the 7 fixed bytes after the length amount to here.
Fixed == 2

BC == 188
CB == 203

FrameLen(n) == 4 + n + Fixed

\* Frame f with n elements of body, whose length field arrives as len; ok: it
\* was not damaged on the line.
Frame(f, n, len, ok) ==
  [k \in 1 .. FrameLen(n) |->
    [value |-> CASE k = 1 -> BC [] k = 2 -> CB [] k = 3 -> len [] k = 4 -> 0 [] OTHER -> 1,
     frame |-> f, pos |-> k, ok |-> ok]]

Noise(v) == [value |-> v, frame |-> 0, pos |-> 0, ok |-> FALSE]
=================================================================================
