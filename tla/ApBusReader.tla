------------------------------ MODULE ApBusReader ------------------------------
(***************************************************************************)
(* The receiving half of the register bus' serial backend                  *)
(* (components/apbus/apbus_backend_uart.c): apbus_serial_read, a           *)
(* protothread that finds a frame in the bytes of a UART and collects it,  *)
(* and the integrity check apbus_receive_msg makes of what it collected.   *)
(*                                                                         *)
(* Protothreads of one main loop run one at a time and change places only  *)
(* where they yield.  The state a reader must keep across a yield is in    *)
(* serial_pt_data, one static variable for all the ports.                  *)
(***************************************************************************)
EXTENDS BusFrame, SequencesExt

CONSTANTS
  Ports,            \* the apbus_t instances that use backend_uart
  Streams,          \* what the far end of a port may send
  ResponseTimeout,  \* ctx->response_timeout, in ticks
  MsgLen,           \* length_to_read, as large as the longest frame
  NONE

\* With response_timeout = 0 the code drops every byte it reads.  The buffer has
\* room for more than a header.
ASSUME Numbers == ResponseTimeout \in Nat \ {0} /\ MsgLen \in Nat /\ MsgLen > 4

ASSUME NoneIsNoPort == NONE \notin Ports

VARIABLES
  stream,     \* what each port's far end sends in this behaviour
  line,       \* the part of it still to arrive
  fifo,       \* received by the UART, not yet read
  msg,        \* ctx->msg, the buffer the frame is collected in
  pt_data,    \* serial_pt_data
  pc,         \* where each port's protothread is
  running,    \* the port whose protothread the main loop is in, or NONE
  delivered   \* per port, the frames that passed the integrity check

vars == <<stream, line, fifo, msg, pt_data, pc, running, delivered>>

--------------------------------------------------------------------------------
(* Bytes and frames                                                        *)

\* What the buffer holds before anything was received.
Stale == Noise(0)

\* The 16-bit length in the header that begins at element k of m.
LengthAt(m, k) == m[k + 2].value + 256 * m[k + 3].value

\* An undamaged frame begins with byte b.
Opens(b) == b.pos = 1 /\ b.ok

\* The frames that were not damaged on the line, in order: those that begin
\* in the first n bytes of a stream, and all of them.
GoodFramesIn(s, n) ==
  LET found[i \in 0 .. Len(s)] ==
        IF i = 0 THEN <<>> ELSE IF Opens(s[i]) THEN Append(found[i - 1], s[i].frame) ELSE found[i - 1]
  IN  found[n]

GoodFrames(s) == GoodFramesIn(s, Len(s))

FreshPtData ==
  [sum |-> 0, timeout_ms |-> 0, remaining_len |-> 0, step |-> 0, body_len |-> 0]

Init ==
  /\ stream \in [Ports -> Streams]
  /\ line = stream
  /\ fifo = [p \in Ports |-> <<>>]
  /\ msg = [p \in Ports |-> [k \in 1 .. MsgLen |-> Stale]]
  /\ pt_data = FreshPtData
  /\ pc = [p \in Ports |-> "start"]
  /\ running = NONE
  /\ delivered = [p \in Ports |-> <<>>]

--------------------------------------------------------------------------------
(* The UART                                                                *)

\* The receive interrupt stores the next byte, whatever the main loop does.
ByteArrives(p) ==
  /\ line[p] # <<>>
  /\ fifo' = [fifo EXCEPT ![p] = Append(@, Head(line[p]))]
  /\ line' = [line EXCEPT ![p] = Tail(@)]
  /\ UNCHANGED <<stream, msg, pt_data, pc, running, delivered>>

\* Nothing is between two frames: the line may be silent.  Inside a frame, and
\* between noise and the frame that follows it, bytes come without a gap.
Silent(p) ==
  LET arrived == Len(stream[p]) - Len(line[p])
  IN  arrived \in 1 .. Len(stream[p]) - 1 =>
        /\ stream[p][arrived].frame > 0
        /\ stream[p][arrived + 1].frame # stream[p][arrived].frame

--------------------------------------------------------------------------------
(* apbus_serial_read                                                       *)

\* PT_BEGIN: a new call of the protothread, waiting for nothing (wait = 0).
StartRead(p) ==
  /\ running = NONE
  /\ pc[p] = "start"
  /\ running' = p
  /\ pt_data' = [FreshPtData EXCEPT !.timeout_ms = ResponseTimeout]
  /\ pc' = [pc EXCEPT ![p] = "loop"]
  /\ UNCHANGED <<stream, line, fifo, msg, delivered>>

\* Mutant: the checksum is not compared.
CheckIntegrityNoChecksum(m, rl) ==
  /\ rl >= FrameLen(0)
  /\ m[1].value = BC /\ m[2].value = CB
  /\ rl >= FrameLen(LengthAt(m, 1))

\* check_integrity on the first rl bytes of the buffer: the magic, the length,
\* and the checksum (which no damaged or spliced frame satisfies).
check_integrity(m, rl) ==
  /\ rl >= FrameLen(0)
  /\ m[1].value = BC /\ m[2].value = CB
  /\ rl >= FrameLen(LengthAt(m, 1))
  /\ \A k \in 1 .. rl : m[k].frame = m[1].frame /\ m[k].pos = k /\ m[k].ok

\* The protothread ends with *psum = rl; apbus_receive_msg checks what it got.
EndRead(p, m, rl) ==
  /\ running' = NONE
  /\ pc' = [pc EXCEPT ![p] = "start"]
  /\ delivered' = [delivered EXCEPT ![p] =
       IF rl > 0 /\ check_integrity(m, rl) THEN Append(@, m[1].frame) ELSE @]

\* Neither done nor yielding: round the loop again.
Continue == UNCHANGED <<pc, running, delivered>>

\* No byte was read: PT_YIELD_UNTIL(swtimer_expired).  If the clock read 0 when
\* this pass of the loop set the timer, it never expires: the port is stuck.
Yield(p) ==
  /\ running' = NONE
  /\ \E at \in {"yield", "stuck"} : pc' = [pc EXCEPT ![p] = at]
  /\ UNCHANGED delivered

\* More bytes were read than the buffer has room for: the others were written to
\* the memory behind ctx->msg, and nothing is known of the program from here on.
Overrun(p) ==
  /\ pc' = [pc EXCEPT ![p] = "overrun"]
  /\ UNCHANGED <<running, delivered>>

\* Mutant: a second BC is not taken for the first byte of the header.
AfterBCDropsBC(v) == IF v = CB THEN 2 ELSE 0

\* How much of the header there is when v follows a BC.
AfterBC(v) == CASE v = CB -> 2 [] v = BC -> 1 [] OTHER -> 0

\* step 0: one byte towards the header.
SeekHeader(p) ==
  /\ running = p
  /\ pc[p] = "loop"
  /\ pt_data.step = 0
  /\ pt_data.sum # MsgLen
  /\ fifo[p] # <<>>
  /\ LET b == Head(fifo[p])
         m == [msg[p] EXCEPT ![pt_data.sum + 1] = b]
     IN  /\ fifo' = [fifo EXCEPT ![p] = Tail(@)]
         /\ \/ /\ pt_data.sum = 0
               /\ pt_data' = [pt_data EXCEPT !.sum = IF b.value = BC THEN 1 ELSE 0]
               /\ msg' = [msg EXCEPT ![p] = m]
            \/ /\ pt_data.sum = 1
               /\ pt_data' = [pt_data EXCEPT !.sum = AfterBC(b.value)]
               /\ msg' = [msg EXCEPT ![p] = IF b.value = BC THEN [m EXCEPT ![1] = b] ELSE m]
            \/ /\ pt_data.sum = 2
               /\ pt_data' = [pt_data EXCEPT !.sum = 3, !.body_len = b.value]
               /\ msg' = [msg EXCEPT ![p] = m]
            \/ /\ pt_data.sum = 3
               /\ pt_data' = [pt_data EXCEPT !.sum = 4, !.step = 1,
                                             !.body_len = @ + 256 * b.value,
                                             !.remaining_len = pt_data.body_len + 256 * b.value + Fixed]
               /\ msg' = [msg EXCEPT ![p] = m]
  /\ Continue
  /\ UNCHANGED <<stream, line>>

\* Mutant: everything that has arrived, the next frame included.
ReadableAll(p) == Len(fifo[p])

\* What sdk_uart_read returns for a read of remaining_len bytes.
Readable(p) ==
  IF Len(fifo[p]) < pt_data.remaining_len THEN Len(fifo[p]) ELSE pt_data.remaining_len

\* step 1: as many of the remaining bytes as have arrived.  What is asked for is
\* not compared with the room that is left.
ReadRest(p) ==
  /\ running = p
  /\ pc[p] = "loop"
  /\ pt_data.step = 1
  /\ pt_data.sum # MsgLen
  /\ fifo[p] # <<>>
  /\ LET rl  == Readable(p)
         sum == pt_data.sum + rl
         m   == [k \in 1 .. MsgLen |->
                   IF k > pt_data.sum /\ k <= sum THEN fifo[p][k - pt_data.sum] ELSE msg[p][k]]
     IN  /\ fifo' = [fifo EXCEPT ![p] = SubSeq(@, rl + 1, Len(@))]
         /\ msg' = [msg EXCEPT ![p] = m]
         /\ pt_data' = [pt_data EXCEPT !.sum = sum, !.remaining_len = @ - rl]
         /\ CASE sum > MsgLen -> Overrun(p)
              [] sum <= MsgLen /\ sum = FrameLen(pt_data.body_len) -> EndRead(p, m, sum)
              [] OTHER -> Continue
  /\ UNCHANGED <<stream, line>>

\* The UART has nothing: with no byte of a frame yet the call ends at once.
NothingToRead(p) ==
  /\ running = p
  /\ pc[p] = "loop"
  /\ pt_data.sum # MsgLen
  /\ fifo[p] = <<>>
  /\ IF pt_data.step = 0 /\ pt_data.sum = 0
       THEN EndRead(p, msg[p], 0)
       ELSE Yield(p)
  /\ UNCHANGED <<stream, line, fifo, msg, pt_data>>

\* The buffer is full to its last byte and the frame, whose length field was
\* damaged, is not complete.
BufferFull(p) ==
  /\ running = p
  /\ pc[p] = "loop"
  /\ pt_data.sum = MsgLen
  /\ EndRead(p, msg[p], pt_data.sum)
  /\ UNCHANGED <<stream, line, fifo, msg, pt_data>>

\* A tick of LOOP_DELAY later.  A byte takes less than a tick on the line.
Resume(p) ==
  /\ running = NONE
  /\ pc[p] = "yield"
  /\ fifo[p] # <<>> \/ Silent(p)
  /\ pt_data' = [pt_data EXCEPT !.timeout_ms = @ - 1]
  /\ IF pt_data.timeout_ms - 1 > 0
       THEN /\ running' = p
            /\ pc' = [pc EXCEPT ![p] = "loop"]
            /\ UNCHANGED delivered
       ELSE EndRead(p, msg[p], pt_data.sum)
  /\ UNCHANGED <<stream, line, fifo, msg>>

apbus_serial_read(p) ==
  \/ StartRead(p)
  \/ SeekHeader(p)
  \/ ReadRest(p)
  \/ NothingToRead(p)
  \/ BufferFull(p)
  \/ Resume(p)

Next == \E p \in Ports : ByteArrives(p) \/ apbus_serial_read(p)

\* Bytes that were sent arrive; the main loop polls every port again and again.
Spec ==
  /\ Init
  /\ [][Next]_vars
  /\ \A p \in Ports : WF_vars(ByteArrives(p)) /\ SF_vars(apbus_serial_read(p))

--------------------------------------------------------------------------------
(* Properties                                                              *)

TypeOK ==
  /\ stream \in [Ports -> Streams]
  /\ \A p \in Ports : IsSuffix(line[p], stream[p])
  /\ pt_data.sum \in Nat
  /\ pt_data.step \in {0, 1}
  /\ pt_data.timeout_ms \in 0 .. ResponseTimeout
  /\ pt_data.remaining_len \in Nat
  /\ pt_data.step = 1 => pt_data.sum + pt_data.remaining_len = FrameLen(pt_data.body_len)
  /\ pc \in [Ports -> {"start", "loop", "yield", "stuck", "overrun"}]
  /\ running \in Ports \cup {NONE}
  /\ \A p \in Ports : running = p => pc[p] \in {"loop", "overrun"}
  /\ pt_data.sum > MsgLen <=> \E p \in Ports : pc[p] = "overrun"

\* What a port delivers are the undamaged frames its far end sent, in order,
\* none twice, none made up of pieces of two: noise that does not spell the
\* header, damaged frames and stale bytes in the buffer are never delivered.  It
\* says so up to an overrun, behind which the model delivers nothing.
DeliversFramesSent ==
  \A p \in Ports : IsPrefix(delivered[p], GoodFrames(stream[p]))

\* Bytes o to e of s are a frame, damaged behind its length field or not at all.
IsFrame(s, o, e) ==
  /\ o + 3 <= e /\ e <= Len(s)
  /\ s[o].value = BC /\ s[o + 1].value = CB
  /\ e = o + FrameLen(LengthAt(s, o)) - 1
  /\ \A k \in o .. e : s[k].frame = s[o].frame /\ s[k].pos = k - o + 1 /\ s[k].ok = s[o].ok

FramesOf(s) == {f \in (1 .. Len(s)) \X (1 .. Len(s)) : IsFrame(s, f[1], f[2])}

\* The header begins at byte k of s.
Header(s, k) == s[k].value = BC /\ k < Len(s) /\ s[k + 1].value = CB

\* An undamaged frame begins at byte k of s or behind it.
Ahead(s, k) == \E o \in k .. Len(s) : Opens(s[o])

\* What DeliversFramesSent takes of a line.  A length that is found behind BC CB
\* fits the buffer, or the line ends before.  In front of an undamaged frame,
\* BC CB is the beginning of a frame that ends where it says, or inside one, and
\* the line is silent behind such frames only.  A frame and the noise before it
\* take no longer than the timeout, at a byte a tick.
LineIsFair(s) ==
  /\ \A k \in DOMAIN s :
       /\ Header(s, k) /\ k + 3 <= Len(s) =>
            FrameLen(LengthAt(s, k)) <= MsgLen \/ Len(s) - k < MsgLen
       /\ Opens(s[k]) => \E f \in FramesOf(s) : f[1] = k
       /\ Header(s, k) /\ Ahead(s, k) => \E f \in FramesOf(s) : f[1] <= k /\ k < f[2]
       /\ k < Len(s) /\ Ahead(s, k + 1) /\ s[k].frame > 0 /\ s[k + 1].frame # s[k].frame =>
            \E f \in FramesOf(s) : f[2] = k
  /\ \A f \in FramesOf(s) :
       \E b \in {0} \cup {g[2] : g \in FramesOf(s)} : b < f[1] /\ f[2] - b <= ResponseTimeout

Bytes == [value : Nat, frame : Nat, pos : Nat, ok : BOOLEAN]

LinesAreFair == \A s \in Streams : s \in Seq(Bytes) /\ LineIsFair(s)

\* A complete frame is read: every undamaged frame is delivered in the end.  Left
\* out are the timer set when the clock reads 0, which ends the reading for good,
\* and lengths that run past the buffer.
EveryFrameDelivered ==
  [](\A p \in Ports : pc[p] \notin {"stuck", "overrun"}) =>
    \A p \in Ports : <>(delivered[p] = GoodFrames(stream[p]))
================================================================================
