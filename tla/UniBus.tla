--------------------------------- MODULE UniBus ---------------------------------
(***************************************************************************)
(* unibus (components/unibus): the register protocol of apbus on a UART,   *)
(* or on a Bluetooth service whose characteristics carry TRX_MAX_LEN bytes *)
(* at a time.  One device, its main loop, and the other side of its link.  *)
(*                                                                         *)
(* Both backends read with a copy of apbus_serial_read, so the reader is   *)
(* ApBusReader with other bytes for its header (AB BA where it says BC CB) *)
(* and any pause allowed between two bytes.  The bytes come through a ring *)
(* that drops the oldest, whose reads are one step here: RxRing has their  *)
(* race with the bytes that arrive.  When the drop takes a byte of a       *)
(* header, two bytes of the frame are taken for its length, and what is    *)
(* read for them can run past ctx->msg: there the reader is at "overrun"   *)
(* and the main loop does nothing more.  A frame that was collected is     *)
(* dispatched in the same poll: an answer to a request goes into msg_body, *)
(* a request is answered, a frame for another device is passed on.         *)
(***************************************************************************)
EXTENDS Integers, Sequences, SequencesExt

CONSTANTS
  UniStreams,    \* what the other side may send
  FrameMeta,     \* src, dest, cmd and index of each of them
  UniTimeout,    \* ctx->response_timeout, in units of LOOP_DELAY
  UniMsgLen,     \* as large as the longest frame
  FifoRoom,      \* SDK_BLE_RX_FIFO_LEN - 1
  TrxMaxLen,     \* TRX_MAX_LEN, the bytes of a notification and of a write
  HOST,          \* host_id
  SubIds,        \* sub_id of the devices of the table frames are passed on by
  Indices,       \* of the registers the application asks for
  Bursts,        \* bound: how many bytes come at once
  MaxAsks,       \* bound: requests of the application
  MaxToggles,    \* bound: subscriptions and their ends
  NOBODY

ASSUME UniNumbers ==
  /\ TrxMaxLen \in Nat \ {0} /\ FifoRoom \in Nat \ {0}
  /\ UniMsgLen \in Nat /\ UniMsgLen > 4 /\ UniTimeout \in Nat \ {0}
  /\ Bursts \subseteq Nat

ASSUME UniStreamsAreBytes ==
  UniStreams \subseteq Seq([value : Nat, frame : Nat, pos : Nat, ok : BOOLEAN])

\* A frame that is sent again is another frame.
ASSUME UniFramesDiffer ==
  \A s \in UniStreams : \A j, k \in DOMAIN s :
    /\ s[j].pos = 1 /\ s[j].ok
    /\ s[k].pos = 1 /\ s[k].ok
    /\ s[j].frame = s[k].frame
    => j = k

ASSUME UniTable == SubIds \in Seq(SUBSET Nat)

VARIABLES
  uni_backend,     \* ctx->backend
  uni_stream, uni_coming,   \* what the other side sends, and the part still to arrive
  uni_fifo, uni_msg, uni_pt_data, uni_pc, uni_running, uni_delivered,  \* the reader
  msg_body,        \* the last answer: body_recv, cmd_fun, cmd_index, and the frame
  uni_want,        \* the index a read and a write wait for, or NOBODY
  uni_asked,       \* how many requests were sent
  uni_got,         \* the answers requests were given
  uni_passed,      \* the frames passed on, and to which device
  simulate,        \* the other side has subscribed to notifications
  toggles,         \* how often it changed that
  uni_out,         \* the notifications of trx_notify still to come
  uni_air          \* the last frame written: what it was, what of it went
                   \* out, and whether the other side was subscribed throughout

read_vars == <<uni_stream, uni_fifo, uni_msg, uni_pt_data, uni_pc, uni_running, uni_delivered>>
ask_vars == <<msg_body, uni_want, uni_asked, uni_got>>
send_vars == <<simulate, toggles, uni_out, uni_air>>
uni_vars == <<read_vars, ask_vars, send_vars, uni_backend, uni_coming, uni_passed>>

Reader == INSTANCE ApBusReader WITH
  Ports <- {"port"}, Streams <- UniStreams, ResponseTimeout <- UniTimeout,
  MsgLen <- UniMsgLen, NONE <- NOBODY,
  stream <- uni_stream, line <- uni_stream, fifo <- uni_fifo, msg <- uni_msg,
  pt_data <- uni_pt_data, pc <- uni_pc, running <- uni_running, delivered <- uni_delivered

UniInit ==
  /\ uni_backend \in {"uart", "ble"}
  /\ Reader!Init
  /\ uni_coming = uni_stream["port"]
  /\ msg_body = [body_recv |-> FALSE, cmd_fun |-> NOBODY, cmd_index |-> NOBODY, frame |-> 0]
  /\ uni_want = [c \in {"ACK_RD", "ACK_WR"} |-> NOBODY]
  /\ uni_asked = 0
  /\ uni_got = <<>>
  /\ uni_passed = {}
  /\ simulate = FALSE
  /\ toggles = 0
  /\ uni_out = <<>>
  /\ uni_air = [meta |-> NOBODY, sent |-> <<>>, steady |-> FALSE]

\* The main loop is in none of the calls that take it several steps, and no
\* overrun has ended it.
Idle == uni_running = NOBODY /\ uni_out = <<>>

--------------------------------------------------------------------------------
(* Bytes that arrive                                                       *)

\* sdk_uart_rx_isr, or ble_getc, byte by byte: what the ring cannot hold drives out the oldest.
RingTakes(bytes) ==
  LET all == uni_fifo["port"] \o bytes
      n   == Len(all)
  IN  uni_fifo' = [uni_fifo EXCEPT !["port"] =
        IF n > FifoRoom THEN SubSeq(all, n - FifoRoom + 1, n) ELSE all]

Arrived(n) ==
  /\ uni_coming' = SubSeq(uni_coming, n + 1, Len(uni_coming))
  /\ UNCHANGED <<uni_backend, uni_stream, uni_msg, uni_pt_data, uni_pc, uni_running,
                 uni_delivered, uni_passed, ask_vars, send_vars>>

\* The UART's receive interrupt, n times.
UartBytes(n) ==
  /\ uni_backend = "uart"
  /\ n <= Len(uni_coming)
  /\ RingTakes(SubSeq(uni_coming, 1, n))
  /\ Arrived(n)

\* A write of n bytes at offset 0.  One that is too long is refused, and the
\* other side goes on without it.
write_trx_c2s(n) ==
  /\ uni_backend = "ble"
  /\ n <= Len(uni_coming)
  /\ IF n > TrxMaxLen THEN UNCHANGED uni_fifo ELSE RingTakes(SubSeq(uni_coming, 1, n))
  /\ Arrived(n)

--------------------------------------------------------------------------------
(* Bytes that are sent                                                     *)

\* Mutant: the bytes after the last whole block are not sent.
BlocksOnly(bytes) ==
  [i \in 1 .. Len(bytes) \div TrxMaxLen |->
     SubSeq(bytes, (i - 1) * TrxMaxLen + 1, i * TrxMaxLen)]

\* The notifications trx_notify makes of a message.
trx_notify(bytes) ==
  LET blocks == Len(bytes) \div TrxMaxLen
      remain == Len(bytes) % TrxMaxLen
  IN  [i \in 1 .. blocks + (IF remain > 0 THEN 1 ELSE 0) |->
         IF i <= blocks THEN SubSeq(bytes, (i - 1) * TrxMaxLen + 1, i * TrxMaxLen)
         ELSE SubSeq(bytes, blocks * TrxMaxLen + 1, blocks * TrxMaxLen + remain)]

unibus_serial_make_msg(meta, n) == Reader!Frame(meta, n, n, TRUE)
unibus_ble_make_msg(meta, n) == Reader!Frame(meta, n, n, TRUE)

\* What the other side, which runs the same code, makes of the bytes it got.
unibus_serial_check_integrity(bytes) == Reader!check_integrity(bytes, Len(bytes))
unibus_ble_check_integrity(bytes) == Reader!check_integrity(bytes, Len(bytes))

unibus_serial_write(meta, bytes) ==
  /\ uni_air' = [meta |-> meta, sent |-> bytes, steady |-> TRUE]
  /\ UNCHANGED uni_out

unibus_ble_write(meta, bytes) ==
  /\ uni_out' = trx_notify(bytes)
  /\ uni_air' = [meta |-> meta, sent |-> <<>>, steady |-> simulate]

\* backend->make_send_msg and backend->write.
SendMsg(meta, n) ==
  /\ IF uni_backend = "uart"
       THEN unibus_serial_write(meta, unibus_serial_make_msg(meta, n))
       ELSE unibus_ble_write(meta, unibus_ble_make_msg(meta, n))
  /\ UNCHANGED <<simulate, toggles>>

\* trx_notify goes on: a notification without a subscriber is not sent.
Notify ==
  /\ uni_out # <<>>
  /\ uni_out' = Tail(uni_out)
  /\ uni_air' = [uni_air EXCEPT !.sent = IF simulate THEN @ \o Head(uni_out) ELSE @]
  /\ UNCHANGED <<read_vars, ask_vars, uni_backend, uni_coming, uni_passed, simulate, toggles>>

\* The other side subscribes or unsubscribes, in the middle of trx_notify too.
trx_s2c_ccc_cfg_changed ==
  /\ uni_backend = "ble"
  /\ toggles < MaxToggles
  /\ toggles' = toggles + 1
  /\ simulate' = ~simulate
  /\ uni_air' = IF uni_out = <<>> THEN uni_air ELSE [uni_air EXCEPT !.steady = FALSE]
  /\ UNCHANGED <<read_vars, ask_vars, uni_backend, uni_coming, uni_passed, uni_out>>

--------------------------------------------------------------------------------
(* Frames that arrive                                                      *)

\* The first device that has the id.  Entries a table does not use are 0.
unibus_find_dest_dev(id) ==
  LET devs == {k \in DOMAIN SubIds : id \in SubIds[k]}
  IN  IF devs = {} THEN 0 ELSE CHOOSE k \in devs : \A j \in devs : k <= j

\* An answer replaces the one before, taken or not.
unibus_received_ack(f) ==
  msg_body' = [body_recv |-> TRUE, cmd_fun |-> FrameMeta[f].cmd,
               cmd_index |-> FrameMeta[f].index, frame |-> f]

\* The answer goes back to where the request came from.
Reply(f, cmd) ==
  [src |-> FrameMeta[f].dest, dest |-> FrameMeta[f].src, cmd |-> cmd,
   index |-> FrameMeta[f].index]

unibus_send_read_ack(f) == SendMsg(Reply(f, "ACK_RD"), 2)
unibus_send_write_ack(f) == SendMsg(Reply(f, "ACK_WR"), 1)

\* A frame for this device: own_cmd_ops as the bus' users fill it in.
OwnCommand(f) ==
  /\ CASE FrameMeta[f].cmd \in {"ACK_RD", "ACK_WR"} ->
            unibus_received_ack(f) /\ UNCHANGED send_vars
       [] FrameMeta[f].cmd = "RD" -> unibus_send_read_ack(f) /\ UNCHANGED msg_body
       [] FrameMeta[f].cmd = "WR" -> unibus_send_write_ack(f) /\ UNCHANGED msg_body
       [] OTHER -> UNCHANGED <<msg_body, send_vars>>
  /\ UNCHANGED uni_passed

\* others_cmd_handler: a frame for a device of the table is passed on to it.
OtherCommand(f) ==
  LET dev == unibus_find_dest_dev(FrameMeta[f].dest)
  IN  /\ uni_passed' = IF dev > 0 THEN uni_passed \cup {<<f, dev>>} ELSE uni_passed
      /\ UNCHANGED <<msg_body, send_vars>>

unibus_serial_read == uni_backend = "uart" /\ Reader!apbus_serial_read("port")
unibus_ble_read == uni_backend = "ble" /\ Reader!apbus_serial_read("port")

unibus_receive_msg == unibus_serial_read \/ unibus_ble_read

unibus_recv_poll ==
  /\ uni_out = <<>>
  /\ unibus_receive_msg
  /\ IF uni_delivered' = uni_delivered
       THEN UNCHANGED <<msg_body, send_vars, uni_passed>>
       ELSE LET f == Last(uni_delivered'["port"])
            IN  IF FrameMeta[f].dest = HOST THEN OwnCommand(f) ELSE OtherCommand(f)
  /\ UNCHANGED <<uni_backend, uni_coming, uni_want, uni_asked, uni_got>>

--------------------------------------------------------------------------------
(* Requests                                                                *)

\* PT_BEGIN of a request's protothread.
Ask(cmd, ack, index, n) ==
  /\ Idle
  /\ uni_asked < MaxAsks
  /\ uni_want[ack] = NOBODY
  /\ uni_asked' = uni_asked + 1
  /\ uni_want' = [uni_want EXCEPT ![ack] = index]
  /\ SendMsg([src |-> HOST, dest |-> 1, cmd |-> cmd, index |-> index], n)
  /\ UNCHANGED <<read_vars, uni_backend, uni_coming, uni_passed, msg_body, uni_got>>

unibus_read_reg_send(index) == Ask("RD", "ACK_RD", index, 2)
unibus_write_reg_send(index) == Ask("WR", "ACK_WR", index, 2)

\* Mutant: the index of a read's answer is not compared.
GetAny(ack) ==
  /\ uni_want[ack] # NOBODY
  /\ msg_body.body_recv
  /\ msg_body.cmd_fun = ack

\* unibus_body_get returns 1.
unibus_body_get(ack) ==
  /\ uni_want[ack] # NOBODY
  /\ msg_body.body_recv
  /\ msg_body.cmd_fun = ack
  /\ ack = "ACK_RD" => msg_body.cmd_index = uni_want[ack]

\* The request's next poll: it has its answer, or its timer, which may expire
\* at any time, has expired.
Awaited(ack) ==
  /\ Idle
  /\ uni_want[ack] # NOBODY
  /\ uni_want' = [uni_want EXCEPT ![ack] = NOBODY]
  /\ IF unibus_body_get(ack)
       THEN /\ msg_body' = [msg_body EXCEPT !.body_recv = FALSE]
            /\ uni_got' = Append(uni_got, [frame |-> msg_body.frame, cmd |-> ack,
                                           index |-> uni_want[ack]])
       ELSE UNCHANGED <<msg_body, uni_got>>
  /\ UNCHANGED <<read_vars, send_vars, uni_backend, uni_coming, uni_passed, uni_asked>>

unibus_read_reg_poll == (\E i \in Indices : unibus_read_reg_send(i)) \/ Awaited("ACK_RD")
unibus_write_reg_poll == (\E i \in Indices : unibus_write_reg_send(i)) \/ Awaited("ACK_WR")

UniNext ==
  \/ \E n \in Bursts : UartBytes(n) \/ write_trx_c2s(n)
  \/ Notify
  \/ trx_s2c_ccc_cfg_changed
  \/ unibus_recv_poll
  \/ unibus_read_reg_poll
  \/ unibus_write_reg_poll

UniSpec == UniInit /\ [][UniNext]_uni_vars

--------------------------------------------------------------------------------
(* Properties                                                              *)

\* Where in the stream frame f begins, if it is not damaged.
Openings(f) ==
  LET s == uni_stream["port"]
  IN  {k \in DOMAIN s : s[k].pos = 1 /\ s[k].ok /\ s[k].frame = f}

\* Whatever the ring drops, a write refuses and a pause cuts short, the frames
\* unibus_recv_poll acts on are undamaged frames of the other side, in the order
\* they were sent and none twice; it passes on only frames for other devices.  It
\* says so up to the first overrun of ctx->msg, which a dropped byte can cause.
UniDeliversFramesSent ==
  LET had == uni_delivered["port"]
  IN  /\ \A k \in DOMAIN had : Openings(had[k]) # {}
      /\ \A j, k \in DOMAIN had :
           j < k => \A a \in Openings(had[j]), b \in Openings(had[k]) : a < b
      /\ \A p \in uni_passed : /\ \E k \in DOMAIN had : had[k] = p[1]
                               /\ FrameMeta[p[1]].dest # HOST
                               /\ FrameMeta[p[1]].dest \in SubIds[p[2]]

\* No frame answers two requests, though read and write share msg_body and
\* requests that gave up leave their answers behind; what a request is given is
\* an answer of its kind to this device, and a read's is for the register it read.
UniAnswerOnce ==
  \A k \in DOMAIN uni_got :
    LET meta == FrameMeta[uni_got[k].frame]
    IN  /\ meta.dest = HOST
        /\ meta.cmd = uni_got[k].cmd
        /\ meta.cmd = "ACK_RD" => meta.index = uni_got[k].index
        /\ \A j \in DOMAIN uni_got : uni_got[j].frame = uni_got[k].frame => j = k

\* Cut into notifications, a message of any length comes out of the link as the
\* frame that went in, and passes the other side's check, if that side was
\* subscribed from the first notification to the last.
NotifiedWhole ==
  uni_out = <<>> /\ uni_air.steady =>
    /\ IF uni_backend = "uart" THEN unibus_serial_check_integrity(uni_air.sent)
                               ELSE unibus_ble_check_integrity(uni_air.sent)
    /\ uni_air.sent[1].frame = uni_air.meta
================================================================================
