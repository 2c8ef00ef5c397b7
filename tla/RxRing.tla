-------------------------------- MODULE RxRing ---------------------------------
(***************************************************************************)
(* The receive ring of the UART driver (components/drivers/sdk_uart.c),    *)
(* which the CAN driver and the BLE backend of unibus have a copy of.      *)
(* An interrupt (on Zephyr, the Bluetooth thread) stores bytes; the main   *)
(* loop reads them.  sdk_uart_read masks interrupts while it is between    *)
(* the two indices, unless the UART receives by DMA; ble_read never does.  *)
(*                                                                         *)
(* The writer preempts the reader and runs to its end.  The reader's       *)
(* accesses to the indices, the flag and the slot are steps of their own.  *)
(* The bytes are numbered in the order they arrive in.                     *)
(***************************************************************************)
EXTENDS Integers, Sequences

CONSTANTS
  FifoLen,   \* SDK_UART_RX_FIFO_LEN
  RxBytes    \* bound: bytes that arrive

ASSUME FifoLenIsPositive == FifoLen \in Nat \ {0, 1} /\ RxBytes \in Nat

VARIABLES
  masked,    \* the reader keeps the writer out: use_dma_rx # 1
  rx_fifo,   \* buffer, put_index, get_index, is_full
  rx_sent,   \* how many bytes arrived
  rx_pc,     \* where the reader is in the body of its loop
  rx_ch,     \* its local ch
  rx_get,    \* get_index as it loaded it
  rx_taken,  \* the bytes it took, in order
  rx_raced   \* history: a byte was stored into the slot it was about to read

rx_vars == <<masked, rx_fifo, rx_sent, rx_pc, rx_ch, rx_get, rx_taken, rx_raced>>

RxRingInit ==
  /\ masked \in BOOLEAN
  /\ rx_fifo = [buffer |-> [k \in 0 .. FifoLen - 1 |-> 0],
                put_index |-> 0, get_index |-> 0, is_full |-> FALSE]
  /\ rx_sent = 0
  /\ rx_pc = "idle"
  /\ rx_ch = 0
  /\ rx_get = 0
  /\ rx_taken = <<>>
  /\ rx_raced = FALSE

--------------------------------------------------------------------------------
(* The writer                                                              *)

Wrapped(index) == IF index >= FifoLen THEN 0 ELSE index

\* The body of sdk_uart_rx_isr's loop.
Put(f, ch) ==
  LET put  == Wrapped(f.put_index + 1)
      over == put = f.get_index
  IN  [buffer |-> [f.buffer EXCEPT ![f.put_index] = ch],
       put_index |-> put,
       get_index |-> IF over THEN Wrapped(f.get_index + 1) ELSE f.get_index,
       is_full |-> f.is_full \/ over]

\* The same text once more, for drivers that have the byte, and for BLE.
sdk_uart_rx_getc(f, ch) == Put(f, ch)
ble_getc(f, ch) == Put(f, ch)

\* Mutant: a reader that masks interrupts is interrupted all the same.
AnyTime == TRUE

\* sdk_hw_interrupt_disable in the reader.
WriterMayRun == masked => rx_pc = "idle"

ByteReceived ==
  /\ WriterMayRun
  /\ rx_sent < RxBytes
  /\ rx_sent' = rx_sent + 1
  /\ \/ masked /\ rx_fifo' = Put(rx_fifo, rx_sent + 1)
     \/ masked /\ rx_fifo' = sdk_uart_rx_getc(rx_fifo, rx_sent + 1)
     \/ ~masked /\ rx_fifo' = ble_getc(rx_fifo, rx_sent + 1)
  /\ rx_raced' = (rx_raced \/ (rx_pc = "read" /\ rx_fifo.put_index = rx_get))
  /\ UNCHANGED <<masked, rx_pc, rx_ch, rx_get, rx_taken>>

--------------------------------------------------------------------------------
(* The reader, one turn of its loop                                        *)

rx_shared == <<masked, rx_fifo, rx_sent, rx_raced>>

\* The first half of the test for "there's no data".
CompareIndices ==
  /\ rx_pc = "idle"
  /\ rx_pc' = IF rx_fifo.get_index = rx_fifo.put_index THEN "equal" ELSE "load"
  /\ UNCHANGED <<rx_shared, rx_ch, rx_get, rx_taken>>

\* The second half: no data, or a full ring.
CompareIsFull ==
  /\ rx_pc = "equal"
  /\ rx_pc' = IF rx_fifo.is_full THEN "load" ELSE "idle"
  /\ UNCHANGED <<rx_shared, rx_ch, rx_get, rx_taken>>

\* ch = buffer[get_index]: first the index is loaded, then the slot is read.
LoadSlotIndex ==
  /\ rx_pc = "load"
  /\ rx_get' = rx_fifo.get_index
  /\ rx_pc' = "read"
  /\ UNCHANGED <<rx_shared, rx_ch, rx_taken>>

LoadChar ==
  /\ rx_pc = "read"
  /\ rx_ch' = rx_fifo.buffer[rx_get]
  /\ rx_pc' = "advance"
  /\ UNCHANGED <<rx_shared, rx_get, rx_taken>>

\* get_index += 1 loads the index again; a compiler may use the one it has, for
\* it is not volatile.
LoadGetIndex ==
  /\ rx_pc = "advance"
  /\ rx_get' \in {rx_get, rx_fifo.get_index}
  /\ rx_pc' = "store"
  /\ UNCHANGED <<rx_shared, rx_ch, rx_taken>>

\* The byte counts as taken from here on.
StoreGetIndex ==
  /\ rx_pc = "store"
  /\ rx_fifo' = [rx_fifo EXCEPT !.get_index = rx_get + 1]
  /\ rx_taken' = Append(rx_taken, rx_ch)
  /\ rx_pc' = "wrap"
  /\ UNCHANGED <<masked, rx_sent, rx_ch, rx_get, rx_raced>>

WrapGetIndex ==
  /\ rx_pc = "wrap"
  /\ rx_fifo' = [rx_fifo EXCEPT !.get_index = Wrapped(@)]
  /\ rx_pc' = "clear"
  /\ UNCHANGED <<masked, rx_sent, rx_ch, rx_get, rx_taken, rx_raced>>

\* Mutant: is_full stays as it is.
KeepIsFull ==
  /\ rx_pc = "clear"
  /\ rx_pc' = "idle"
  /\ UNCHANGED <<rx_shared, rx_ch, rx_get, rx_taken>>

ClearIsFull ==
  /\ rx_pc = "clear"
  /\ rx_fifo' = [rx_fifo EXCEPT !.is_full = FALSE]
  /\ rx_pc' = "idle"
  /\ UNCHANGED <<masked, rx_sent, rx_ch, rx_get, rx_taken, rx_raced>>

sdk_uart_read ==
  \/ CompareIndices
  \/ CompareIsFull
  \/ LoadSlotIndex
  \/ LoadChar
  \/ LoadGetIndex
  \/ StoreGetIndex
  \/ WrapGetIndex
  \/ ClearIsFull

\* The same loop without a mask.
ble_read == sdk_uart_read

RxRingNext == ByteReceived \/ (masked /\ sdk_uart_read) \/ (~masked /\ ble_read)

RxRingSpec == RxRingInit /\ [][RxRingNext]_rx_vars

--------------------------------------------------------------------------------
(* Properties                                                              *)

\* How many bytes are between the indices, the slots they are in, and the bytes,
\* oldest first.
RxHeld ==
  LET get == Wrapped(rx_fifo.get_index)
      put == rx_fifo.put_index
  IN  IF get <= put THEN put - get ELSE put - get + FifoLen

RxSlot(i) ==
  LET s == Wrapped(rx_fifo.get_index) + i - 1
  IN  IF s < FifoLen THEN s ELSE s - FifoLen

RxContents == [i \in 1 .. RxHeld |-> rx_fifo.buffer[RxSlot(i)]]

\* Masked or not, what the ring holds is always the newest bytes, in order and
\* without a gap, and a byte that is taken did arrive.  Bytes are taken in order,
\* and none that is still held, up to the first race: without the mask an overrun
\* may store into a slot between the load of its index and the read of the byte,
\* and then the reader gets a byte again, or bytes out of order.
RxKeepsNewest ==
  /\ \A i \in 1 .. RxHeld : RxContents[i] = rx_sent - RxHeld + i
  /\ \A i \in 1 .. Len(rx_taken) : rx_taken[i] \in 1 .. rx_sent
  /\ masked => ~rx_raced
  /\ ~rx_raced =>
       \A i \in 1 .. Len(rx_taken) :
         /\ rx_taken[i] <= rx_sent - RxHeld
         /\ i > 1 => rx_taken[i - 1] < rx_taken[i]

\* With the mask the ring is a queue of FifoLen - 1 bytes that loses only its
\* oldest byte, and only when it is full.
RxPromise ==
  INSTANCE LossyFifo WITH
    Capacity <- FifoLen - 1, Bytes <- 1 .. RxBytes,
    queue <- IF masked THEN RxContents ELSE <<>>,
    taken <- IF masked THEN rx_taken ELSE <<>>

RxIsFifo == RxPromise!Spec
================================================================================
