------------------------------ MODULE RingBuffer -------------------------------
(***************************************************************************)
(* The general ring buffer (sdk_ringbuffer.c).  Unlike the receive rings   *)
(* of the drivers it uses every slot, and tells a full ring from an empty  *)
(* one by is_full alone.  An interrupt puts bytes, one way or the other;   *)
(* the main loop gets them.  The ring itself masks nothing: rb_masked says *)
(* whether the caller keeps the interrupt out of sdk_ringbuffer_getchar,   *)
(* whose accesses to the ring are steps of their own.                      *)
(***************************************************************************)
EXTENDS Integers, Sequences

CONSTANTS
  BufSize,    \* bufsz
  RbBytes     \* bound: bytes that are put

ASSUME BufSizeIsPositive == BufSize \in Nat \ {0} /\ RbBytes \in Nat

VARIABLES
  rb_masked,  \* the caller of getchar masks the interrupt that puts
  rb,         \* struct sdk_ringbuffer
  rb_sent,    \* how many bytes were to be put: they are numbered
  rb_pc,      \* where getchar is
  rb_get,     \* get_index as getchar loaded it
  rb_taken,   \* the bytes got, in order
  rb_raced    \* history: a byte was stored into the slot getchar was about to read

rb_vars == <<rb_masked, rb, rb_sent, rb_pc, rb_get, rb_taken, rb_raced>>

sdk_ringbuffer_init ==
  [buf |-> [k \in 0 .. BufSize - 1 |-> 0], get_index |-> 0, put_index |-> 0, is_full |-> FALSE]

RingBufferInit ==
  /\ rb_masked \in BOOLEAN
  /\ rb = sdk_ringbuffer_init
  /\ rb_sent = 0
  /\ rb_pc = "idle"
  /\ rb_get = 0
  /\ rb_taken = <<>>
  /\ rb_raced = FALSE

--------------------------------------------------------------------------------
(* The operations of the interrupt, each one atomic                        *)

Following(index) == (index + 1) % BufSize

\* What putchar and putchar_force share: store the byte and set is_full.
Store(r, ch) ==
  LET put == Following(r.put_index)
  IN  [r EXCEPT !.buf[r.put_index] = ch, !.put_index = put,
                !.is_full = @ \/ put = r.get_index]

\* Mutant: a full ring is not left as it is.
PutcharOverwrites(r, ch) == Store(r, ch)

\* A full ring is left as it is.
sdk_ringbuffer_putchar(r, ch) == IF r.is_full THEN r ELSE Store(r, ch)

sdk_ringbuffer_putchar_force(r, ch) ==
  Store(IF r.is_full THEN [r EXCEPT !.get_index = Following(@)] ELSE r, ch)

\* sdk_ringbuffer_put and put_force are one of these per byte; put stops at the
\* first byte that is refused.
RbPut ==
  /\ rb_masked => rb_pc = "idle"
  /\ rb_sent < RbBytes
  /\ rb_sent' = rb_sent + 1
  /\ rb' \in {sdk_ringbuffer_putchar(rb, rb_sent + 1),
              sdk_ringbuffer_putchar_force(rb, rb_sent + 1)}
  /\ rb_raced' = (rb_raced \/ (rb_pc = "read" /\ rb.put_index = rb_get /\ rb' # rb))
  /\ UNCHANGED <<rb_masked, rb_pc, rb_get, rb_taken>>

--------------------------------------------------------------------------------
(* sdk_ringbuffer_getchar                                                  *)

rb_shared == <<rb_masked, rb, rb_sent, rb_raced>>

\* !rb->is_full, the first half of the test for an empty ring.
TestIsFull ==
  /\ rb_pc = "idle"
  /\ rb_pc' = IF rb.is_full THEN "load" ELSE "compare"
  /\ UNCHANGED <<rb_shared, rb_get, rb_taken>>

\* The second half: return 0 when the indices are equal.
CompareRbIndices ==
  /\ rb_pc = "compare"
  /\ rb_pc' = IF rb.get_index = rb.put_index THEN "idle" ELSE "load"
  /\ UNCHANGED <<rb_shared, rb_get, rb_taken>>

\* *ch = rb->buf_ptr[rb->get_index]: first the index is loaded, then the slot read.
LoadRbSlotIndex ==
  /\ rb_pc = "load"
  /\ rb_get' = rb.get_index
  /\ rb_pc' = "read"
  /\ UNCHANGED <<rb_shared, rb_taken>>

ReadSlot ==
  /\ rb_pc = "read"
  /\ rb_taken' = Append(rb_taken, rb.buf[rb_get])
  /\ rb_pc' = "advance"
  /\ UNCHANGED <<rb_shared, rb_get>>

\* get_index + 1 loads the index again; a compiler that knows ch to point nowhere
\* into the ring may use the one it has.
LoadRbGetIndex ==
  /\ rb_pc = "advance"
  /\ rb_get' \in {rb_get, rb.get_index}
  /\ rb_pc' = "store"
  /\ UNCHANGED <<rb_shared, rb_taken>>

StoreRbGetIndex ==
  /\ rb_pc = "store"
  /\ rb' = [rb EXCEPT !.get_index = Following(rb_get)]
  /\ rb_pc' = "clear"
  /\ UNCHANGED <<rb_masked, rb_sent, rb_get, rb_taken, rb_raced>>

\* Mutant: is_full stays as it is.
KeepRbIsFull ==
  /\ rb_pc = "clear"
  /\ rb_pc' = "idle"
  /\ UNCHANGED <<rb_shared, rb_get, rb_taken>>

ClearRbIsFull ==
  /\ rb_pc = "clear"
  /\ rb' = [rb EXCEPT !.is_full = FALSE]
  /\ rb_pc' = "idle"
  /\ UNCHANGED <<rb_masked, rb_sent, rb_get, rb_taken, rb_raced>>

\* sdk_ringbuffer_get is one of these per byte, until the ring is empty.
sdk_ringbuffer_getchar ==
  \/ TestIsFull
  \/ CompareRbIndices
  \/ LoadRbSlotIndex
  \/ ReadSlot
  \/ LoadRbGetIndex
  \/ StoreRbGetIndex
  \/ ClearRbIsFull

RingBufferNext == RbPut \/ sdk_ringbuffer_getchar

RingBufferSpec == RingBufferInit /\ [][RingBufferNext]_rb_vars

--------------------------------------------------------------------------------
(* Properties                                                              *)

sdk_ringbuffer_data_len(r) ==
  IF r.is_full THEN BufSize
  ELSE IF r.put_index >= r.get_index THEN r.put_index - r.get_index
  ELSE BufSize - (r.get_index - r.put_index)

RbContents(r) ==
  [i \in 1 .. sdk_ringbuffer_data_len(r) |-> r.buf[(r.get_index + i - 1) % BufSize]]

\* Whatever is interrupted, and whichever way bytes are put: a byte that is got
\* was put, and up to the first race bytes are got in order and none twice.  (A
\* put between the store of get_index and is_full = false makes the full ring
\* look empty: that loses bytes without a mask, but keeps their order.  A forced
\* put between the load of get_index and the read of the slot does not: the
\* newest byte is got in place of the oldest, and once more when its turn comes.)
RbTakesInOrder ==
  /\ \A i \in 1 .. Len(rb_taken) : rb_taken[i] \in 1 .. rb_sent
  /\ rb_masked => ~rb_raced
  /\ ~rb_raced => \A i, j \in 1 .. Len(rb_taken) : i < j => rb_taken[i] < rb_taken[j]

\* When the caller masks the interrupt the ring is a queue of BufSize bytes that
\* forgets its oldest byte, or refuses the new one, only when it is full.
RbPromise ==
  INSTANCE LossyFifo WITH
    Capacity <- BufSize, Bytes <- 1 .. RbBytes,
    taken <- IF rb_masked THEN rb_taken ELSE <<>>,
    queue <- IF ~rb_masked THEN <<>>
             ELSE IF rb_pc \in {"advance", "store"} THEN Tail(RbContents(rb))
             ELSE IF rb_pc = "clear" THEN RbContents([rb EXCEPT !.is_full = FALSE])
             ELSE RbContents(rb)

RbIsFifo == RbPromise!Spec
================================================================================
