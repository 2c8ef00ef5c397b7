----------------------------- MODULE AppScheduler -----------------------------
(***************************************************************************)
(* The event scheduler of src/app_scheduler.c.  Interrupt handlers, and    *)
(* handlers run by the main loop, put events into a ring of QueueSize + 1  *)
(* slots; app_sched_execute, called by the main loop, takes them out and   *)
(* runs their handlers.                                                    *)
(*                                                                         *)
(* Contexts are priority levels: 0 is the main loop, 1 .. Levels are the   *)
(* interrupt levels.  A level preempts every lower one and runs until it   *)
(* returns, so the active context is the highest one that is not idle.     *)
(* Every access to a shared index is a step of its own.                    *)
(***************************************************************************)
EXTENDS Integers, Sequences

CONSTANTS
  QueueSize,      \* m_queue_size
  Levels,         \* number of interrupt priorities
  MaxEvents,      \* how many events are put in a behaviour (bounds the model)
  CriticalMasks,  \* does sdk_os_enter_critical keep interrupts out?
  NODATA

\* With more entries the uint16_t data_start_index, 8 bytes per header, would
\* wrap, and the events' data would overlay their headers.
ASSUME ParametersAreNumbers ==
  /\ QueueSize \in 1 .. 8190
  /\ Levels \in Nat
  /\ MaxEvents \in Nat

ASSUME CriticalMasksIsBoolean == CriticalMasks \in BOOLEAN

ASSUME NoDataIsNotData == NODATA \notin Nat

VARIABLES
  slots,        \* m_queue_event_headers and m_queue_event_data
  start,        \* m_queue_start_index
  end,          \* m_queue_end_index
  pc,           \* per context, where it is ("idle": an interrupt not active)
  ev,           \* per context, the event it is putting
  event_index,  \* per context, app_sched_event_put's local
  new,          \* per context, next_index(m_queue_end_index) once computed
  back,         \* where the main loop's put returns to
  cur,          \* app_sched_event_get's event_index: the slot being executed
  sent,         \* number of events put so far
  accepted,     \* history: the events whose put reserved a slot, in order
  taken,        \* history: how many of them app_sched_event_get took
  executed      \* history: what the handlers were called with, in order

shared == <<slots, start, end>>
consumer == <<cur, taken, executed>>
producer == <<ev, event_index, new, back, sent, accepted>>
vars == <<shared, pc, producer, consumer>>

--------------------------------------------------------------------------------
Context == 0 .. Levels
Entry == 0 .. QueueSize

\* The indices are of 8 bits: entries behind the 256th are never used, and the
\* ring has room for 255 events at most.
Capacity == IF QueueSize < 255 THEN QueueSize ELSE 255
Slot == 0 .. Capacity
EventId == 1 .. MaxEvents

\* An event: who handles it and what it carries.  An event put without data
\* (event_data_size = 0) is delivered with size 0.
Event == [handler : EventId, data : EventId \cup {NODATA}]
Empty == [handler |-> 0, data |-> NODATA]

\* Mutant: the index runs past the spare slot.
NextIndexTooFar(index) == IF index <= QueueSize THEN index + 1 ELSE 0

next_index(index) == IF index < QueueSize THEN (index + 1) % 256 ELSE 0

\* Mutants: put never finds the queue full; put keeps two spare slots.
NeverFull == FALSE
FullOneEarly == next_index(next_index(end)) = start \/ next_index(end) = start

app_sched_queue_full == next_index(end) = start
\* Mutant: the indices are compared as if they never wrapped.
EmptyByOrder == end <= start

app_sched_queue_empty == end = start

Active(c) ==
  /\ pc[c] # "idle"
  /\ \A d \in Context : d > c => pc[d] = "idle"

CriticalPcs == {"full?", "reserve", "bump", "publish"}
PutPcs == CriticalPcs \cup {"handler", "data"}
GetPcs == {"empty?", "take", "call"}

\* Mutant: no critical region.
NeverMasked == FALSE

\* Interrupts are kept out while the active context is in the critical region,
\* if the port's sdk_os_enter_critical does that.
Masked == CriticalMasks /\ \E c \in Context : pc[c] \in CriticalPcs

Goto(c, label) == pc' = [pc EXCEPT ![c] = label]
Return(c) == IF c = 0 THEN back ELSE "idle"

\* The locals of app_sched_event_put die when it returns.
ForgetLocals(c) ==
  /\ ev' = [ev EXCEPT ![c] = Empty]
  /\ event_index' = [event_index EXCEPT ![c] = 0]
  /\ new' = [new EXCEPT ![c] = 0]

Init ==
  /\ slots = [s \in Entry |-> Empty]
  /\ start = 0
  /\ end = 0
  /\ pc = [c \in Context |-> IF c = 0 THEN "loop" ELSE "idle"]
  /\ ev = [c \in Context |-> Empty]
  /\ event_index = [c \in Context |-> 0]
  /\ new = [c \in Context |-> 0]
  /\ back = "loop"
  /\ cur = 0
  /\ sent = 0
  /\ accepted = <<>>
  /\ taken = 0
  /\ executed = <<>>

--------------------------------------------------------------------------------
(* app_sched_event_put                                                     *)

\* The call, for an event with or without data.  A data size above
\* m_queue_event_size is refused with SDK_E_INVALID and changes nothing.
app_sched_event_put(c) ==
  /\ sent < MaxEvents
  /\ sent' = sent + 1
  /\ \E data \in {sent + 1, NODATA} :
       ev' = [ev EXCEPT ![c] = [handler |-> sent + 1, data |-> data]]
  /\ Goto(c, "full?")
  /\ UNCHANGED <<shared, event_index, new, accepted, consumer>>

\* An interrupt arrives whose handler schedules an event.
Interrupt(c) ==
  /\ c > 0
  /\ ~Masked
  /\ \A d \in Context : d >= c => pc[d] = "idle"
  /\ app_sched_event_put(c)
  /\ UNCHANGED back

\* The main loop schedules an event, itself or from the handler it is running.
MainPuts ==
  /\ Active(0)
  /\ pc[0] \in {"loop", "call"}
  /\ back' = pc[0]
  /\ app_sched_event_put(0)

\* In the critical region.
CheckFull(c) ==
  /\ Active(c)
  /\ pc[c] = "full?"
  /\ IF app_sched_queue_full
       THEN Goto(c, Return(c)) /\ ForgetLocals(c)
       ELSE Goto(c, "reserve") /\ UNCHANGED <<ev, event_index, new>>
  /\ UNCHANGED <<shared, back, sent, accepted, consumer>>

ReserveIndex(c) ==
  /\ Active(c)
  /\ pc[c] = "reserve"
  /\ event_index' = [event_index EXCEPT ![c] = end]
  /\ Goto(c, "bump")
  /\ UNCHANGED <<shared, ev, new, back, sent, accepted, consumer>>

ComputeNextEnd(c) ==
  /\ Active(c)
  /\ pc[c] = "bump"
  /\ new' = [new EXCEPT ![c] = next_index(end)]
  /\ Goto(c, "publish")
  /\ UNCHANGED <<shared, ev, event_index, back, sent, accepted, consumer>>

PublishEnd(c) ==
  /\ Active(c)
  /\ pc[c] = "publish"
  /\ end' = new[c]
  /\ accepted' = Append(accepted, ev[c])
  /\ Goto(c, "handler")
  /\ UNCHANGED <<slots, start, ev, event_index, new, back, sent, consumer>>

\* Outside the critical region.
WriteHandler(c) ==
  /\ Active(c)
  /\ pc[c] = "handler"
  /\ slots' = [slots EXCEPT ![event_index[c]].handler = ev[c].handler]
  /\ Goto(c, "data")
  /\ UNCHANGED <<start, end, producer, consumer>>

WriteData(c) ==
  /\ Active(c)
  /\ pc[c] = "data"
  /\ slots' = [slots EXCEPT ![event_index[c]].data = ev[c].data]
  /\ Goto(c, Return(c))
  /\ ForgetLocals(c)
  /\ UNCHANGED <<start, end, back, sent, accepted, consumer>>

PutStep(c) ==
  \/ CheckFull(c)
  \/ ReserveIndex(c)
  \/ ComputeNextEnd(c)
  \/ PublishEnd(c)
  \/ WriteHandler(c)
  \/ WriteData(c)

--------------------------------------------------------------------------------
(* app_sched_execute and app_sched_event_get                               *)

CallExecute ==
  /\ Active(0)
  /\ pc[0] = "loop"
  /\ Goto(0, "empty?")
  /\ UNCHANGED <<shared, producer, consumer>>

CheckEmpty ==
  /\ Active(0)
  /\ pc[0] = "empty?"
  /\ IF app_sched_queue_empty
       THEN Goto(0, "loop") /\ UNCHANGED cur
       ELSE Goto(0, "take") /\ cur' = start
  /\ UNCHANGED <<shared, producer, taken, executed>>

\* From here on the slot is free in the eyes of app_sched_event_put.
TakeSlot ==
  /\ Active(0)
  /\ pc[0] = "take"
  /\ start' = next_index(start)
  /\ taken' = taken + 1
  /\ Goto(0, "call")
  /\ UNCHANGED <<slots, end, producer, cur, executed>>

\* The handler is called with the header's handler and a pointer into the slot,
\* and reads its data through that pointer.
RunHandler ==
  /\ Active(0)
  /\ pc[0] = "call"
  /\ executed' = Append(executed, slots[cur])
  /\ Goto(0, "empty?")
  /\ UNCHANGED <<shared, producer, cur, taken>>

app_sched_execute == CallExecute \/ CheckEmpty \/ TakeSlot \/ RunHandler

Next ==
  \/ \E c \in Context : Interrupt(c) \/ PutStep(c)
  \/ MainPuts
  \/ app_sched_execute

Spec == Init /\ [][Next]_vars

\* The processor runs the active context; the main loop calls
\* app_sched_execute again and again.
FairSpec ==
  /\ Spec
  /\ WF_vars(app_sched_execute)
  /\ \A c \in Context : WF_vars(PutStep(c))

--------------------------------------------------------------------------------
(* Properties                                                              *)

TypeOK ==
  /\ slots \in [Entry -> [handler : EventId \cup {0}, data : EventId \cup {NODATA}]]
  /\ start \in Slot
  /\ end \in Slot
  /\ pc \in [Context -> {"idle", "loop"} \cup PutPcs \cup GetPcs]
  /\ event_index \in [Context -> Slot]
  /\ new \in [Context -> Slot]
  /\ back \in {"loop", "call"}
  /\ cur \in Slot
  /\ sent \in 0 .. MaxEvents
  /\ accepted \in Seq(Event)
  /\ taken \in 0 .. Len(accepted)
  /\ executed \in Seq(Event)

\* The slot whose handler is running is never written, although
\* app_sched_event_get has already given it back: the ring's spare slot is what
\* protects the data pointer the handler holds.
HandlingSlot == pc[0] = "call" \/ (pc[0] \in PutPcs /\ back = "call")

RunningSlotIsNotReused ==
  HandlingSlot =>
    \A c \in Context : pc[c] \in {"bump", "publish", "handler", "data"} =>
      event_index[c] # cur

\* "It will execute all events scheduled since the last time it was called":
\* when the main loop has found the queue empty and nobody is putting an event,
\* every accepted event has been executed once, in order, with its own data.
ExecutesAllScheduled ==
  (\A c \in Context : pc[c] \in {"idle", "loop"}) /\ app_sched_queue_empty
    => executed = accepted

\* An event is refused for want of room only when as many events are waiting as
\* the ring has room for: QueueSize, or 255 in a longer queue.
RefusedOnlyWhenFull ==
  [][\A c \in Context :
       pc[c] = "full?" /\ pc'[c] = Return(c) => Len(accepted) - taken = Capacity]_vars

\* The scheduler is a bounded FIFO queue, whatever interrupts whatever.
Promise == INSTANCE SchedPromise WITH
  queue    <- SubSeq(accepted, taken + 1, Len(accepted)),
  running  <- IF HandlingSlot THEN <<accepted[taken]>> ELSE <<>>

PromiseKept == Promise!Spec

\* Every accepted event is executed in the end.
EventuallyExecuted ==
  \A n \in EventId : Len(accepted) >= n ~> Len(executed) >= n
================================================================================
