--------------------------------- MODULE ApBus ---------------------------------
(***************************************************************************)
(* Requests and answers on the register bus (components/apbus/apbus.c).    *)
(*                                                                         *)
(* The host's protothreads read and write the registers of a device: each  *)
(* sends a request and waits for the answer or for its timer, polled by    *)
(* the main loop.  apbus_recv_poll hands a received answer over in         *)
(* ctx->msg_body, one slot for all the protothreads of the port.  An       *)
(* answer names the function and the register, not the request it is the   *)
(* answer to.  Frames are lost, and may come after the timer expired.      *)
(*                                                                         *)
(* The frames themselves are ApBusReader's subject; frames for another     *)
(* host id change nothing here.  The device uses apbus_send_read_ack and   *)
(* apbus_send_write_ack; its handlers are not in the repository.           *)
(*                                                                         *)
(* A request has a number, id, that the code does not have: properties     *)
(* compare it, no action's guard reads it.                                 *)
(***************************************************************************)
EXTENDS SoftTimer, Sequences

CONSTANTS
  Threads,          \* the host's protothreads that use the port
  Indexes,          \* the device's registers
  ResponseTimeout,  \* the response_timeout of the calls, in ticks
  MaxRequests,      \* bound: requests sent in a behaviour
  Prompt,           \* the bus brings a frame in the tick it is sent, or never
  OK, BUSY,         \* the device's write_ret
  NONE, TIMEOUT

\* A timer can see that it expired only for half a turn of the clock.
ASSUME TimeoutFits ==
  /\ ResponseTimeout \in Nat \ {0}
  /\ ResponseTimeout < W \div 2
  /\ MaxRequests \in Nat

ASSUME PromptIsBoolean == Prompt \in BOOLEAN

VARIABLES
  clock,      \* sdk_hw_get_systick
  asked,      \* the requests sent so far: function and register
  waiting,    \* per thread, the request it waits for, or NONE
  timer,      \* per thread, read_reg_timer or write_reg_timer
  msg_body,   \* ctx->msg_body
  to_device, to_host,  \* the two directions of the bus
  reg,        \* the device's registers
  outcome     \* per request, the answer it returned with, TIMEOUT or NONE

vars == <<clock, asked, waiting, timer, msg_body, to_device, to_host, reg, outcome>>
host == <<asked, waiting, timer, outcome>>
device == <<to_device, reg>>

--------------------------------------------------------------------------------
Ids == 1 .. MaxRequests

\* A thread that waits for nothing waits for no request.
ASSUME NoneIsNoId == NONE \notin Ids

Requests == [fun : {"RD", "WR", "WR_NR"}, index : Indexes]

\* A request on the bus, with its number.
RequestFrames == [fun : {"RD", "WR", "WR_NR"}, index : Indexes, id : Ids]

\* What a register holds: its initial content (0) or what a request wrote.
Contents == Indexes \X (0 .. MaxRequests)

\* The bytes an answer carries: a register's content, or write_ret.
Values == Contents \cup {OK, BUSY}

Acks == [fun : {"ACK_RD", "ACK_WR"}, index : Indexes, value : Values, id : Ids]

\* ctx->msg_body before anything was received.
NoBody == [body_recv |-> FALSE, ack |-> NONE]

Init ==
  /\ clock = 0
  /\ asked = <<>>
  /\ waiting = [t \in Threads |-> NONE]
  /\ timer = [t \in Threads |-> UnsetTimer]
  /\ msg_body = NoBody
  /\ to_device = <<>>
  /\ to_host = <<>>
  /\ reg = [x \in Indexes |-> <<x, 0>>]
  /\ outcome = [id \in Ids |-> NONE]

--------------------------------------------------------------------------------
(* The host's protothreads                                                 *)

\* apbus_read_reg_send, apbus_write_reg_send: make the frame and write it.
Send(fun, x) ==
  /\ Len(asked) < MaxRequests
  /\ asked' = Append(asked, [fun |-> fun, index |-> x])
  /\ to_device' = Append(to_device, [fun |-> fun, index |-> x, id |-> Len(asked) + 1])

\* The first part of apbus_read_reg_poll and apbus_write_reg_poll.
SendAndWait(t, fun, x) ==
  /\ waiting[t] = NONE
  /\ Send(fun, x)
  /\ waiting' = [waiting EXCEPT ![t] = Len(asked) + 1]
  /\ timer' = [timer EXCEPT ![t] = swtimer_set(clock, ResponseTimeout)]
  /\ UNCHANGED <<clock, msg_body, to_host, reg, outcome>>

\* No answer is asked for: apbus_write_NR_reg_poll returns 0 at once.
apbus_write_NR_reg_poll(t, x) ==
  /\ waiting[t] = NONE
  /\ Send("WR_NR", x)
  /\ timer' = [timer EXCEPT ![t] = swtimer_set(clock, ResponseTimeout)]
  /\ UNCHANGED <<clock, waiting, msg_body, to_host, reg, outcome>>

Finish(t, result) ==
  /\ outcome' = [outcome EXCEPT ![waiting[t]] = result]
  /\ waiting' = [waiting EXCEPT ![t] = NONE]
  /\ UNCHANGED <<clock, asked, timer, to_host, device>>

\* Mutant: the register of a read's answer is not compared.
BodyMatchesAnyIndex(fun, x) == msg_body.body_recv /\ msg_body.ack.fun = fun

\* apbus_body_get succeeds: only the answer to a read is compared by register.
BodyMatches(fun, x) ==
  /\ msg_body.body_recv
  /\ msg_body.ack.fun = fun
  /\ fun = "ACK_RD" => msg_body.ack.index = x

\* What the thread's PT_YIELD_UNTIL looks for.
Answered(t) ==
  LET r == asked[waiting[t]]
  IN  BodyMatches(IF r.fun = "RD" THEN "ACK_RD" ELSE "ACK_WR", r.index)

\* Mutant: the slot is not cleared.
TakeAnswerKeeps(t) ==
  /\ waiting[t] # NONE
  /\ Answered(t)
  /\ UNCHANGED msg_body
  /\ Finish(t, msg_body.ack)

\* The answer is taken out of the slot; it comes before the timer.
TakeAnswer(t) ==
  /\ waiting[t] # NONE
  /\ Answered(t)
  /\ msg_body' = [msg_body EXCEPT !.body_recv = FALSE]
  /\ Finish(t, msg_body.ack)

\* Mutant: the timer is looked at before the slot.
TimerFirst(t) ==
  /\ waiting[t] # NONE
  /\ swtimer_expired(timer[t], clock)

TimeIsUp(t) ==
  /\ waiting[t] # NONE
  /\ ~Answered(t)
  /\ swtimer_expired(timer[t], clock)

GiveUp(t) ==
  /\ TimeIsUp(t)
  /\ UNCHANGED msg_body
  /\ Finish(t, TIMEOUT)

apbus_reg_poll(t) == TakeAnswer(t) \/ GiveUp(t)

\* apbus_recv_poll and its handler apbus_received_ack: the next frame goes
\* into the slot, whatever the slot holds.
apbus_recv_poll ==
  /\ to_host # <<>>
  /\ msg_body' = [body_recv |-> TRUE, ack |-> Head(to_host)]
  /\ to_host' = Tail(to_host)
  /\ UNCHANGED <<clock, host, device>>

--------------------------------------------------------------------------------
(* The device                                                              *)

\* Mutant: the answer carries the function code of the request.
AnswerWithRequestFun(fun, r, v) ==
  to_host' = Append(to_host, [fun |-> r.fun, index |-> r.index, value |-> v, id |-> r.id])

Answer(fun, r, v) ==
  to_host' = Append(to_host, [fun |-> fun, index |-> r.index, value |-> v, id |-> r.id])

ReadRegister(r) ==
  /\ r.fun = "RD"
  /\ Answer("ACK_RD", r, reg[r.index])
  /\ UNCHANGED reg

WriteRegister(r) ==
  /\ r.fun \in {"WR", "WR_NR"}
  /\ reg' = [reg EXCEPT ![r.index] = <<r.index, r.id>>]
  /\ IF r.fun = "WR" THEN Answer("ACK_WR", r, OK) ELSE UNCHANGED to_host

RefuseWrite(r) ==
  /\ r.fun \in {"WR", "WR_NR"}
  /\ IF r.fun = "WR" THEN Answer("ACK_WR", r, BUSY) ELSE UNCHANGED to_host
  /\ UNCHANGED reg

DeviceHandles ==
  /\ to_device # <<>>
  /\ to_device' = Tail(to_device)
  /\ LET r == Head(to_device)
     IN  ReadRegister(r) \/ WriteRegister(r) \/ RefuseWrite(r)
  /\ UNCHANGED <<clock, host, msg_body>>

--------------------------------------------------------------------------------
(* The bus and the clock                                                   *)

LoseRequest ==
  /\ to_device # <<>>
  /\ to_device' = Tail(to_device)
  /\ UNCHANGED <<clock, host, msg_body, to_host, reg>>

LoseAnswer ==
  /\ to_host # <<>>
  /\ to_host' = Tail(to_host)
  /\ UNCHANGED <<clock, host, msg_body, device>>

\* The main loop polls every thread at least once a tick.
Tick ==
  /\ \A t \in Threads : ~TimeIsUp(t)
  /\ Prompt => to_device = <<>> /\ to_host = <<>>
  /\ clock' = (clock + 1) % W
  /\ UNCHANGED <<host, msg_body, device, to_host>>

Next ==
  \/ \E t \in Threads, x \in Indexes :
       \/ SendAndWait(t, "RD", x)
       \/ SendAndWait(t, "WR", x)
       \/ apbus_write_NR_reg_poll(t, x)
  \/ \E t \in Threads : apbus_reg_poll(t)
  \/ apbus_recv_poll
  \/ DeviceHandles
  \/ LoseRequest
  \/ LoseAnswer
  \/ Tick

\* The clock runs and the main loop polls; the bus promises nothing.
Spec ==
  /\ Init
  /\ [][Next]_vars
  /\ WF_vars(Tick)
  /\ WF_vars(apbus_recv_poll)
  /\ \A t \in Threads : WF_vars(apbus_reg_poll(t))

--------------------------------------------------------------------------------
(* Properties                                                              *)

TypeOK ==
  /\ clock \in Ticks
  /\ asked \in Seq(Requests) /\ Len(asked) <= MaxRequests
  /\ waiting \in [Threads -> Ids \cup {NONE}]
  /\ timer \in [Threads -> Timer({0, ResponseTimeout})]
  /\ msg_body \in [body_recv : BOOLEAN, ack : Acks \cup {NONE}]
  /\ to_device \in Seq(RequestFrames)
  /\ to_host \in Seq(Acks)
  /\ reg \in [Indexes -> Contents]
  /\ outcome \in [Ids -> Acks \cup {TIMEOUT, NONE}]

HasAnswer(id) == outcome[id] \notin {TIMEOUT, NONE}

\* A read returns what was, once, in the register it asked for, whatever late
\* answers to reads of other registers come into the one slot.
ReadAnswersItsIndex ==
  \A id \in 1 .. Len(asked) :
    HasAnswer(id) /\ asked[id].fun = "RD" => outcome[id].value[1] = asked[id].index

\* One answer ends at most one request: no two threads, and no two calls of a
\* thread, take the same frame out of the slot ("must clear first").
AckUsedOnce ==
  \A a, b \in Ids : a # b /\ HasAnswer(a) /\ HasAnswer(b) => outcome[a].id # outcome[b].id

\* A call returns with the answer to its own request.  This needs a single
\* thread and a bus that is prompt: see WriteConfirmed.
AnswersItsRequest ==
  \A id \in Ids : HasAnswer(id) => outcome[id].id = id

\* Every call returns, with an answer or with a timeout, even when its answer
\* is lost or is overwritten in the slot; unless it was made in the one tick of
\* W that a timer takes for "not running".
EveryRequestEnds ==
  \A t \in Threads :
    waiting[t] # NONE /\ timer[t].start # 0 ~> waiting[t] = NONE

\* apbus.h: ACK_WR is the answer to the write.  A write that returned 0 was
\* done by the device.
WriteConfirmed ==
  \A id \in 1 .. Len(asked) :
    HasAnswer(id) /\ asked[id].fun = "WR" /\ outcome[id].value = OK =>
      outcome[id].id = id
================================================================================
