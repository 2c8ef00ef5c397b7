--------------------------- MODULE AppSchedulerProofs ---------------------------
(***************************************************************************)
(* Proofs about AppScheduler, for every queue size, every number of        *)
(* interrupt levels and every number of events, with a critical section    *)
(* that keeps interrupts out.                                              *)
(***************************************************************************)
EXTENDS AppScheduler, SequenceTheorems, TLAPS

\* How many slots there are from slot a to slot b, going round the ring.
Dist(a, b) == IF b >= a THEN b - a ELSE b - a + Capacity + 1

\* The slot belongs to an event that was accepted and not taken; its number.
Queued(s) == Dist(start, s) < Dist(start, end)
Number(s) == taken + Dist(start, s) + 1

\* The context has published its slot and is still writing it.
Filling(c) == pc[c] \in {"handler", "data"}

--------------------------------------------------------------------------------
(* The parts of the inductive invariant                                    *)

Types ==
  /\ slots \in [Entry -> [handler : EventId \cup {0}, data : EventId \cup {NODATA}]]
  /\ start \in Slot /\ end \in Slot /\ cur \in Slot
  /\ pc \in [Context -> {"idle", "loop"} \cup PutPcs \cup GetPcs]
  /\ ev \in [Context -> Event \cup {Empty}]
  /\ event_index \in [Context -> Slot]
  /\ new \in [Context -> Slot]
  /\ back \in {"loop", "call"}
  /\ sent \in 0 .. MaxEvents
  /\ accepted \in Seq(Event)
  /\ taken \in Nat
  /\ executed \in Seq(Event)

\* The main loop takes events and never is idle; interrupts only put events.
Roles ==
  /\ pc[0] # "idle"
  /\ \A c \in Context : c > 0 => pc[c] \in {"idle"} \cup PutPcs
  /\ \A c \in Context : pc[c] \in PutPcs => ev[c] \in Event

\* Nobody interrupts a context in the critical region.
CriticalIsHighest ==
  \A c \in Context : pc[c] \in CriticalPcs =>
    \A d \in Context : d > c => pc[d] = "idle"

\* What the context in the critical region has found out stays true.
Reserving ==
  \A c \in Context :
    /\ pc[c] \in {"reserve", "bump", "publish"} => next_index(end) # start
    /\ pc[c] \in {"bump", "publish"} => event_index[c] = end
    /\ pc[c] = "publish" => new[c] = next_index(end)

\* Slots that are being written are queued ones, each written by one context.
FillsOwnSlot ==
  /\ \A c \in Context : Filling(c) => Queued(event_index[c])
  /\ \A c, d \in Context : Filling(c) /\ Filling(d) /\ c # d => event_index[c] # event_index[d]

\* The indices count the events.
Counted == Len(accepted) = taken + Dist(start, end)

\* A queued slot holds its event, or somebody is writing that event into it.
SlotsHoldQueue ==
  /\ \A s \in Slot :
       Queued(s) /\ (\A c \in Context : Filling(c) => event_index[c] # s) =>
         slots[s] = accepted[Number(s)]
  /\ \A c \in Context : Filling(c) => accepted[Number(event_index[c])] = ev[c]
  /\ \A c \in Context : pc[c] = "data" => slots[event_index[c]].handler = ev[c].handler

\* The slot about to be taken is the first one; the one taken last is just
\* behind it, and is still whole.
MainLoop ==
  /\ pc[0] = "take" => cur = start /\ start # end
  /\ HandlingSlot => next_index(cur) = start /\ taken > 0 /\ slots[cur] = accepted[taken]

\* What was executed is what was taken.
ExecutedIsTaken ==
  /\ Len(executed) = IF HandlingSlot THEN taken - 1 ELSE taken
  /\ \A k \in 1 .. Len(executed) : executed[k] = accepted[k]

IInv ==
  /\ Types
  /\ Roles
  /\ CriticalIsHighest
  /\ Reserving
  /\ FillsOwnSlot
  /\ Counted
  /\ SlotsHoldQueue
  /\ MainLoop
  /\ ExecutedIsTaken

--------------------------------------------------------------------------------
(* Going round the ring                                                    *)

\* An index of 8 bits comes round after slot Capacity.
LEMMA NextIndexInRing ==
  /\ Capacity \in Nat \ {0} /\ Slot \subseteq Entry
  /\ \A index \in Slot : next_index(index) = IF index < Capacity THEN index + 1 ELSE 0
<1>1. QueueSize \in Nat \ {0} /\ Capacity \in Nat \ {0} /\ Capacity <= QueueSize
  BY ParametersAreNumbers DEF Capacity
<1>2. ASSUME NEW index \in Slot
      PROVE  next_index(index) = IF index < Capacity THEN index + 1 ELSE 0
  <2>1. index \in Nat /\ index <= Capacity /\ index <= 255
    BY <1>1, <1>2, ParametersAreNumbers DEF Slot, Capacity
  <2>2. CASE index < 255
    <3>1. (index + 1) % 256 = index + 1 /\ (index < QueueSize <=> index < Capacity)
      BY <1>1, <2>1, <2>2 DEF Capacity
    <3>2. QED
      BY <3>1 DEF next_index
  <2>3. CASE index = 255
    <3>1. ~(index < Capacity) /\ (255 + 1) % 256 = 0
      BY <1>1, <2>1, <2>3 DEF Capacity
    <3>2. QED
      BY <2>3, <3>1 DEF next_index
  <2>4. QED
    BY <2>1, <2>2, <2>3
<1>3. Slot \subseteq Entry
  BY <1>1 DEF Slot, Entry
<1>4. QED
  BY <1>1, <1>2, <1>3

LEMMA DistType ==
  ASSUME NEW a \in Slot, NEW b \in Slot
  PROVE  /\ next_index(a) \in Slot
         /\ Dist(a, b) \in Nat /\ Dist(a, b) <= Capacity
         /\ Dist(a, b) = 0 <=> a = b
  BY NextIndexInRing DEF Slot, Dist

LEMMA DistToNext ==
  ASSUME NEW a \in Slot, NEW b \in Slot
  PROVE  /\ next_index(b) # a => Dist(a, next_index(b)) = Dist(a, b) + 1
         /\ next_index(b) = a => Dist(a, b) = Capacity
  BY NextIndexInRing DEF Slot, Dist

LEMMA DistFromNext ==
  ASSUME NEW a \in Slot, NEW b \in Slot, a # b
  PROVE  Dist(next_index(a), b) = Dist(a, b) - 1
  BY NextIndexInRing DEF Slot, Dist

LEMMA DistDiffers ==
  ASSUME NEW a \in Slot, NEW s \in Slot, NEW t \in Slot, s # t
  PROVE  Dist(a, s) # Dist(a, t)
  BY NextIndexInRing DEF Slot, Dist

LEMMA NoEventIsNotAnEvent == Empty \notin Event
  BY ParametersAreNumbers DEF Empty, Event, EventId

--------------------------------------------------------------------------------
LEMMA InitIInv == Init => IInv
<1> SUFFICES ASSUME Init PROVE IInv
  OBVIOUS
<1> USE ParametersAreNumbers DEF Init, Context, PutPcs, CriticalPcs, GetPcs
<1>1. Types
  BY DEF Types, Slot, EventId, Empty
<1>2. Roles /\ CriticalIsHighest /\ Reserving /\ FillsOwnSlot
  BY DEF Roles, CriticalIsHighest, Reserving, FillsOwnSlot, Filling
<1>3. Counted /\ SlotsHoldQueue
  BY DEF Counted, SlotsHoldQueue, Queued, Filling, Dist
<1>4. MainLoop /\ ExecutedIsTaken
  BY DEF MainLoop, ExecutedIsTaken, HandlingSlot
<1>5. QED
  BY <1>1, <1>2, <1>3, <1>4 DEF IInv

\* A context that starts to put changes nothing but its own place and event.
LEMMA CallPutKeepsIInv ==
  ASSUME IInv, NEW c \in Context, app_sched_event_put(c),
         \/ c > 0 /\ back' = back /\ pc[c] = "idle"
         \/ c = 0 /\ back' = pc[0] /\ pc[0] \in {"loop", "call"},
         \A d \in Context : d > c => pc[d] = "idle",
         \A d \in Context : pc[d] \notin CriticalPcs
  PROVE  IInv'
<1> USE DEF IInv, app_sched_event_put, Goto, shared, consumer
<1>1. ev'[c] \in Event /\ \A d \in Context : d # c => ev'[d] = ev[d]
  BY ParametersAreNumbers DEF Types, Event, EventId
<1>2. pc' = [pc EXCEPT ![c] = "full?"] /\ pc'[c] = "full?" /\ \A d \in Context : d # c => pc'[d] = pc[d]
  BY DEF Types
<1>3. Types'
  BY <1>1, <1>2, ParametersAreNumbers DEF Types, PutPcs, CriticalPcs, Event
<1>4. Roles'
  BY <1>1, <1>2 DEF Types, Roles, PutPcs, CriticalPcs, Context
<1>5. CriticalIsHighest' /\ Reserving'
  BY <1>2 DEF Types, CriticalIsHighest, Reserving, CriticalPcs, Context
<1>6. \A d \in Context : Filling(d)' <=> Filling(d) /\ d # c
  BY <1>2 DEF Types, Filling
<1>7. FillsOwnSlot' /\ Counted'
  BY <1>6 DEF FillsOwnSlot, Counted, Queued, Dist
<1>8. SlotsHoldQueue'
  BY <1>1, <1>2, <1>6 DEF SlotsHoldQueue, Queued, Number, Dist, Filling
<1>9. HandlingSlot' = HandlingSlot
  BY <1>2 DEF Types, HandlingSlot, PutPcs, CriticalPcs, Context
<1>10. MainLoop' /\ ExecutedIsTaken'
  BY <1>2, <1>9 DEF MainLoop, ExecutedIsTaken, Types
<1>11. QED
  BY <1>3, <1>4, <1>5, <1>7, <1>8, <1>10

\* At most as many events were taken as were accepted, and the queue fits.
LEMMA TakenWereAccepted ==
  ASSUME Types, Counted
  PROVE  /\ Dist(start, end) \in Nat /\ Dist(start, end) <= Capacity
         /\ taken \in Nat /\ Len(accepted) \in Nat /\ taken <= Len(accepted)
<1>1. Dist(start, end) \in Nat /\ Dist(start, end) <= Capacity
  BY DistType DEF Types
<1>2. taken \in Nat /\ Len(accepted) \in Nat
  BY DEF Types
<1>3. QED
  BY <1>1, <1>2 DEF Counted

LEMMA InterruptKeepsIInv ==
  ASSUME IInv, CriticalMasks, NEW c \in Context, Interrupt(c)
  PROVE  IInv'
<1>1. \A d \in Context : pc[d] \notin CriticalPcs
  BY DEF Interrupt, Masked
<1>2. c > 0 /\ back' = back /\ pc[c] = "idle" /\ \A d \in Context : d > c => pc[d] = "idle"
  BY ParametersAreNumbers DEF Interrupt, Context
<1>3. QED
  BY <1>1, <1>2, CallPutKeepsIInv DEF Interrupt

LEMMA MainPutsKeepsIInv ==
  ASSUME IInv, MainPuts
  PROVE  IInv'
<1>1. 0 \in Context /\ \A d \in Context : d # 0 => d > 0
  BY ParametersAreNumbers DEF Context
<1>2. pc[0] \in {"loop", "call"} /\ back' = pc[0] /\ \A d \in Context : d > 0 => pc[d] = "idle"
  BY DEF MainPuts, Active
<1>3. \A d \in Context : pc[d] \notin CriticalPcs
  BY <1>1, <1>2 DEF CriticalPcs
<1>4. QED
  BY <1>1, <1>2, <1>3, CallPutKeepsIInv DEF MainPuts

LEMMA CheckFullKeepsIInv ==
  ASSUME IInv, NEW c \in Context, CheckFull(c)
  PROVE  IInv'
<1> USE DEF IInv, CheckFull, Goto, shared, consumer
<1>1. /\ pc[c] = "full?" /\ pc'[c] \in {"loop", "call", "idle", "reserve"}
      /\ pc'[c] = "idle" => c > 0
      /\ pc'[c] \in {"loop", "call"} => c = 0 /\ pc'[c] = back
      /\ \A d \in Context : d # c => pc'[d] = pc[d] /\ ev'[d] = ev[d] /\ event_index'[d] = event_index[d] /\ new'[d] = new[d]
      /\ pc'[c] = "reserve" => ev'[c] = ev[c] /\ next_index(end) # start
  BY ParametersAreNumbers DEF Types, Return, ForgetLocals, app_sched_queue_full, Context
<1>2. Types'
  <2>1. pc' \in [Context -> {"idle", "loop"} \cup PutPcs \cup GetPcs]
    BY DEF Types, Return, PutPcs, CriticalPcs, GetPcs
  <2>2. 0 \in Slot
    BY NextIndexInRing DEF Slot
  <2>3. QED
    BY <2>1, <2>2 DEF Types, ForgetLocals
<1>3. Roles'
  BY <1>1, ParametersAreNumbers DEF Roles, PutPcs, CriticalPcs, Context
<1>4. CriticalIsHighest'
  BY <1>1 DEF CriticalIsHighest, CriticalPcs, Active
<1>5. Reserving'
  BY <1>1 DEF Reserving, next_index
<1>6. \A d \in Context : Filling(d)' <=> Filling(d) /\ d # c
  BY <1>1 DEF Filling
<1>7. FillsOwnSlot' /\ Counted'
  BY <1>1, <1>6 DEF FillsOwnSlot, Counted, Queued, Dist
<1>8. SlotsHoldQueue'
  <2>1. \A d \in Context : Filling(d)' => event_index'[d] = event_index[d] /\ ev'[d] = ev[d] /\ event_index[d] \in Slot
    BY <1>1, <1>6 DEF Types
  <2>2. \A d \in Context : Filling(d) <=> Filling(d)'
    BY <1>1, <1>6 DEF Filling
  <2>3. \A d \in Context : pc'[d] = "data" => pc[d] = "data" /\ Filling(d)'
    BY <1>1 DEF Filling
  <2>4. QED
    BY <2>1, <2>2, <2>3 DEF SlotsHoldQueue, Queued, Number, Dist
<1>9. HandlingSlot' <=> HandlingSlot
  BY <1>1, ParametersAreNumbers DEF HandlingSlot, PutPcs, CriticalPcs, Context
<1>10. MainLoop' /\ ExecutedIsTaken'
  BY <1>1, <1>9, ParametersAreNumbers DEF MainLoop, ExecutedIsTaken, Context, next_index
<1>11. QED
  BY <1>2, <1>3, <1>4, <1>5, <1>7, <1>8, <1>10

LEMMA ReserveIndexKeepsIInv ==
  ASSUME IInv, NEW c \in Context, ReserveIndex(c)
  PROVE  IInv'
<1> USE DEF IInv, ReserveIndex, Goto, shared, consumer
<1>1. /\ pc[c] = "reserve" /\ pc'[c] = "bump" /\ event_index'[c] = end
      /\ \A d \in Context : d # c => pc'[d] = pc[d] /\ event_index'[d] = event_index[d]
  BY DEF Types
<1>2. Types'
  BY DEF Types, PutPcs, CriticalPcs
<1>3. Roles' /\ CriticalIsHighest'
  BY <1>1 DEF Roles, CriticalIsHighest, PutPcs, CriticalPcs, Active
<1>4. Reserving'
  BY <1>1 DEF Reserving, next_index
<1>5. \A d \in Context : (Filling(d)' <=> Filling(d)) /\ (Filling(d) => d # c)
  BY <1>1 DEF Filling
<1>6. \A s \in Slot : (Queued(s)' <=> Queued(s)) /\ Number(s)' = Number(s)
  BY DEF Queued, Number, Dist
<1>7. FillsOwnSlot' /\ Counted'
  BY <1>1, <1>5 DEF FillsOwnSlot, Counted, Queued, Dist
<1>8. SlotsHoldQueue'
  BY <1>1, <1>5, <1>6 DEF SlotsHoldQueue, Types
<1>9. HandlingSlot' <=> HandlingSlot
  BY <1>1 DEF HandlingSlot, PutPcs, CriticalPcs
<1>10. MainLoop' /\ ExecutedIsTaken'
  BY <1>1, <1>9, ParametersAreNumbers DEF MainLoop, ExecutedIsTaken, Context, next_index
<1>11. QED
  BY <1>2, <1>3, <1>4, <1>7, <1>8, <1>10

LEMMA ComputeNextEndKeepsIInv ==
  ASSUME IInv, NEW c \in Context, ComputeNextEnd(c)
  PROVE  IInv'
<1> USE DEF IInv, ComputeNextEnd, Goto, shared, consumer
<1>1. /\ pc[c] = "bump" /\ pc'[c] = "publish" /\ new'[c] = next_index(end)
      /\ \A d \in Context : d # c => pc'[d] = pc[d] /\ new'[d] = new[d]
  BY DEF Types
<1>2. Types'
  BY DistType DEF Types, PutPcs, CriticalPcs
<1>3. Roles' /\ CriticalIsHighest'
  BY <1>1 DEF Roles, CriticalIsHighest, PutPcs, CriticalPcs, Active
<1>4. Reserving'
  BY <1>1 DEF Reserving, next_index
<1>5. \A d \in Context : (Filling(d)' <=> Filling(d)) /\ (Filling(d) => d # c)
  BY <1>1 DEF Filling
<1>6. \A s \in Slot : (Queued(s)' <=> Queued(s)) /\ Number(s)' = Number(s)
  BY DEF Queued, Number, Dist
<1>7. FillsOwnSlot' /\ Counted'
  BY <1>1, <1>5 DEF FillsOwnSlot, Counted, Queued, Dist
<1>8. SlotsHoldQueue'
  <2>1. \A s \in Slot :
          Queued(s)' /\ (\A d \in Context : Filling(d)' => event_index'[d] # s) =>
            slots'[s] = accepted'[Number(s)']
    BY <1>1, <1>5, <1>6 DEF SlotsHoldQueue, Types
  <2>2. \A d \in Context : Filling(d)' => (accepted[Number(event_index[d])] = ev[d])'
    <3>1. /\ event_index' = event_index /\ event_index \in [Context -> Slot]
          /\ accepted' = accepted /\ ev' = ev
      BY DEF Types
    <3>2. \A d \in Context : (Number(event_index[d]))' = Number(event_index[d])
      BY <3>1, <1>6
    <3>3. QED
      BY <1>5, <3>1, <3>2 DEF SlotsHoldQueue
  <2>3. \A d \in Context : pc'[d] = "data" => slots'[event_index'[d]].handler = ev'[d].handler
    BY <1>1, <1>5 DEF SlotsHoldQueue, Types, Filling
  <2>4. QED
    BY <2>1, <2>2, <2>3 DEF SlotsHoldQueue
<1>9. HandlingSlot' <=> HandlingSlot
  BY <1>1 DEF HandlingSlot, PutPcs, CriticalPcs
<1>10. MainLoop' /\ ExecutedIsTaken'
  BY <1>1, <1>9, ParametersAreNumbers DEF MainLoop, ExecutedIsTaken, Context, next_index
<1>11. QED
  BY <1>2, <1>3, <1>4, <1>7, <1>8, <1>10

\* The published slot becomes the last queued one.
LEMMA PublishEndKeepsIInv ==
  ASSUME IInv, NEW c \in Context, PublishEnd(c)
  PROVE  IInv'
<1> USE DEF IInv, PublishEnd, Goto, consumer
<1>1. /\ pc[c] = "publish" /\ pc'[c] = "handler" /\ ev[c] \in Event
      /\ \A d \in Context : d # c => pc'[d] = pc[d] /\ pc[d] \notin CriticalPcs
  BY ParametersAreNumbers DEF Types, Roles, PutPcs, CriticalPcs, CriticalIsHighest, Active, Context
<1>2. end' = next_index(end) /\ end' \in Slot /\ end' # start /\ event_index[c] = end
  BY <1>1, DistType DEF Reserving, Types
<1>3. Dist(start, end)' = Dist(start, end) + 1
  <2>1. Dist(start, next_index(end)) = Dist(start, end) + 1
    BY <1>2, DistToNext DEF Types
  <2>2. QED
    BY <1>2, <2>1 DEF Dist
<1>4. /\ accepted' \in Seq(Event) /\ Len(accepted') = Len(accepted) + 1
      /\ accepted'[Len(accepted) + 1] = ev[c]
      /\ \A k \in 1 .. Len(accepted) : accepted'[k] = accepted[k]
  BY <1>1 DEF Types
<1>5. \A s \in Slot : Number(s)' = Number(s) /\ (Queued(s)' <=> Queued(s) \/ s = end)
  <2>1. \A s \in Slot : Number(s)' = Number(s) /\ (Queued(s)' <=> Dist(start, s) < Dist(start, end) + 1)
    BY <1>3 DEF Queued, Number, Dist
  <2>2. \A s \in Slot : s # end => Dist(start, s) # Dist(start, end)
    BY DistDiffers DEF Types
  <2>3. \A s \in Slot : Dist(start, s) \in Nat
    BY DistType DEF Types
  <2>4. QED
    BY <2>1, <2>2, <2>3 DEF Queued, Types
<1>6. Number(end) = Len(accepted) + 1
  BY <1>4, DistType DEF Number, Counted, Types
<1>7. \A s \in Slot : Queued(s) => Number(s) \in 1 .. Len(accepted)
  <2>1. \A s \in Slot : Dist(start, s) \in Nat /\ Dist(start, end) \in Nat
    BY DistType, NextIndexInRing DEF Types
  <2>2. QED
    BY <2>1 DEF Queued, Number, Counted, Types
<1>8. Types'
  BY <1>2, <1>4 DEF Types, PutPcs
<1>9. Roles' /\ CriticalIsHighest' /\ Reserving'
  BY <1>1 DEF Roles, CriticalIsHighest, Reserving, PutPcs, CriticalPcs
<1>10. ~Filling(c) /\ \A d \in Context : Filling(d)' <=> Filling(d) \/ d = c
  BY <1>1 DEF Filling
<1>11. ~Queued(end) /\ \A d \in Context : Filling(d) => Queued(event_index[d]) /\ event_index[d] \in Slot /\ event_index[d] # end
  <2>1. ~Queued(end)
    BY TakenWereAccepted DEF Queued
  <2>2. \A d \in Context : Filling(d) => Queued(event_index[d]) /\ event_index[d] \in Slot
    BY DEF FillsOwnSlot, Types
  <2>3. QED
    BY <2>1, <2>2
<1>12. FillsOwnSlot'
  <2>1. \A s \in Slot : (Dist(start, s) < Dist(start, end))' <=> Queued(s) \/ s = end
    BY <1>5 DEF Queued
  <2>2. \A d \in Context : Filling(d)' => event_index[d] \in Slot /\ (Queued(event_index[d]) \/ event_index[d] = end)
    BY <1>2, <1>10, <1>11 DEF Types
  <2>3. \A d \in Context : Filling(d)' => Queued(event_index[d])'
    BY <2>1, <2>2 DEF Queued
  <2>4. \A d, e \in Context : Filling(d)' /\ Filling(e)' /\ d # e => event_index[d] # event_index[e]
    BY <1>2, <1>10, <1>11 DEF FillsOwnSlot
  <2>5. QED
    BY <2>3, <2>4 DEF FillsOwnSlot
<1>13. Counted'
  <2>1. Len(accepted') = taken + Dist(start, end)'
    BY <1>3, <1>4, TakenWereAccepted DEF Counted
  <2>2. QED
    BY <2>1 DEF Counted
<1>14. SlotsHoldQueue'
  <2>1. \A s \in Slot : Queued(s)' /\ (\A d \in Context : Filling(d)' => event_index'[d] # s) =>
                          slots'[s] = accepted'[Number(s)]
    BY <1>2, <1>4, <1>5, <1>7, <1>10 DEF SlotsHoldQueue
  <2>2. \A d \in Context : Filling(d)' => accepted'[Number(event_index[d])] = ev[d]
    BY <1>2, <1>4, <1>6, <1>7, <1>10, <1>11 DEF SlotsHoldQueue
  <2>3. \A d \in Context : pc'[d] = "data" => pc[d] = "data"
    BY <1>1
  <2>4. \A d \in Context : Filling(d)' => event_index[d] \in Slot
    BY DEF Types
  <2>5. QED
    BY <1>5, <2>1, <2>2, <2>3, <2>4 DEF SlotsHoldQueue, Number, Dist
<1>15. HandlingSlot' <=> HandlingSlot
  BY <1>1 DEF HandlingSlot, PutPcs, CriticalPcs
<1>16. MainLoop' /\ ExecutedIsTaken'
  <2>1. taken <= Len(accepted) /\ Len(executed) <= taken
    BY TakenWereAccepted DEF ExecutedIsTaken, Types
  <2>2. pc'[0] = "take" => pc[0] = "take"
    BY <1>1, ParametersAreNumbers DEF Context
  <2>3. HandlingSlot' => next_index(cur) = start /\ taken > 0 /\ slots[cur] = accepted'[taken]
    BY <1>4, <1>15, <2>1 DEF MainLoop, Types
  <2>4. MainLoop'
    BY <1>2, <2>2, <2>3 DEF MainLoop, next_index
  <2>5. \A k \in 1 .. Len(executed) : executed[k] = accepted'[k]
    BY <1>4, <2>1 DEF ExecutedIsTaken, Types
  <2>6. QED
    BY <1>15, <2>4, <2>5 DEF ExecutedIsTaken
<1>17. QED
  BY <1>8, <1>9, <1>12, <1>13, <1>14, <1>16

LEMMA RunningSlotIsFree ==
  ASSUME IInv, HandlingSlot, NEW s \in Slot, Queued(s)
  PROVE  s # cur
<1>1. Dist(start, cur) = Capacity
  BY DistToNext DEF IInv, MainLoop, Types
<1>2. QED
  BY <1>1, TakenWereAccepted, NextIndexInRing DEF IInv, Queued

LEMMA WriteHandlerKeepsIInv ==
  ASSUME IInv, NEW c \in Context, WriteHandler(c)
  PROVE  IInv'
<1> USE DEF IInv, WriteHandler, Goto, producer, consumer
<1>1. /\ pc[c] = "handler" /\ pc'[c] = "data"
      /\ ev[c] \in Event /\ event_index[c] \in Slot
      /\ \A d \in Context : d # c => pc'[d] = pc[d]
  BY DEF Types, Roles, PutPcs
<1>2. /\ slots'[event_index[c]].handler = ev[c].handler
      /\ \A s \in Slot : s # event_index[c] => slots'[s] = slots[s]
  BY <1>1, NextIndexInRing DEF Types
<1>3. Types'
  BY <1>1 DEF Types, PutPcs, Event
<1>4. Roles' /\ CriticalIsHighest' /\ Reserving'
  BY <1>1 DEF Roles, CriticalIsHighest, Reserving, PutPcs, CriticalPcs, next_index
<1>5. Filling(c) /\ \A d \in Context : Filling(d)' <=> Filling(d)
  BY <1>1 DEF Filling
<1>6. FillsOwnSlot' /\ Counted'
  BY <1>5 DEF FillsOwnSlot, Counted, Queued, Dist
<1>7. SlotsHoldQueue'
  <2>1. \A s \in Slot : Queued(s) /\ (\A d \in Context : Filling(d)' => event_index[d] # s) =>
                          slots'[s] = accepted[Number(s)]
    BY <1>2, <1>5 DEF SlotsHoldQueue
  <2>2. \A d \in Context : pc'[d] = "data" => slots'[event_index[d]].handler = ev[d].handler
    BY <1>1, <1>2, <1>5 DEF SlotsHoldQueue, FillsOwnSlot, Filling, Types
  <2>3. \A d \in Context : Filling(d)' => accepted[Number(event_index[d])] = ev[d]
    BY <1>5 DEF SlotsHoldQueue
  <2>4. QED
    BY <2>1, <2>2, <2>3 DEF SlotsHoldQueue, Queued, Number, Dist
<1>8. HandlingSlot' <=> HandlingSlot
  BY <1>1 DEF HandlingSlot, PutPcs, CriticalPcs
<1>9. HandlingSlot => slots'[cur] = slots[cur]
  BY <1>1, <1>2, <1>5, RunningSlotIsFree DEF FillsOwnSlot, Types
<1>10. MainLoop' /\ ExecutedIsTaken'
  BY <1>1, <1>8, <1>9, ParametersAreNumbers DEF MainLoop, ExecutedIsTaken, Context, next_index
<1>11. QED
  BY <1>3, <1>4, <1>6, <1>7, <1>10

\* With its data written the slot holds the event.
LEMMA WriteDataKeepsIInv ==
  ASSUME IInv, NEW c \in Context, WriteData(c)
  PROVE  IInv'
<1> USE DEF IInv, WriteData, Goto, consumer
<1>1. /\ pc[c] = "data" /\ pc'[c] \in {"loop", "call", "idle"}
      /\ pc'[c] = "idle" => c > 0
      /\ pc'[c] \in {"loop", "call"} => c = 0 /\ pc'[c] = back
      /\ \A d \in Context : d # c => pc'[d] = pc[d] /\ ev'[d] = ev[d] /\ event_index'[d] = event_index[d] /\ new'[d] = new[d]
      /\ ev[c] \in Event /\ event_index[c] \in Slot
  BY ParametersAreNumbers DEF Types, Roles, PutPcs, Return, ForgetLocals, Context
<1>2. Filling(c) /\ \A d \in Context : Filling(d)' <=> Filling(d) /\ d # c
  BY <1>1 DEF Filling
<1>3. /\ slots'[event_index[c]] = accepted[Number(event_index[c])]
      /\ \A s \in Slot : s # event_index[c] => slots'[s] = slots[s]
  <2>1. slots[event_index[c]].handler = ev[c].handler /\ accepted[Number(event_index[c])] = ev[c]
    BY <1>1, <1>2 DEF SlotsHoldQueue
  <2>2. slots'[event_index[c]] = [slots[event_index[c]] EXCEPT !.data = ev[c].data]
    BY <1>1, NextIndexInRing DEF Types
  <2>3. slots'[event_index[c]] = ev[c]
    BY <1>1, <2>1, <2>2, NextIndexInRing DEF Types, Event
  <2>4. QED
    BY <1>1, <2>1, <2>3 DEF Types
<1>4. Types'
  <2>1. pc' \in [Context -> {"idle", "loop"} \cup PutPcs \cup GetPcs]
    BY DEF Types, Return, PutPcs, CriticalPcs, GetPcs
  <2>2. 0 \in Slot
    BY NextIndexInRing DEF Slot
  <2>3. slots' \in [Entry -> [handler : EventId \cup {0}, data : EventId \cup {NODATA}]]
    BY <1>1, NextIndexInRing DEF Types, Event
  <2>4. QED
    BY <2>1, <2>2, <2>3 DEF Types, ForgetLocals
<1>5. Roles' /\ CriticalIsHighest' /\ Reserving'
  <2>1. Roles'
    BY <1>1, ParametersAreNumbers DEF Roles, PutPcs, CriticalPcs, Context
  <2>2. CriticalIsHighest' /\ Reserving'
    BY <1>1 DEF CriticalIsHighest, Reserving, CriticalPcs, Active, next_index
  <2>3. QED
    BY <2>1, <2>2
<1>6. FillsOwnSlot' /\ Counted'
  BY <1>1, <1>2 DEF FillsOwnSlot, Counted, Queued, Dist
<1>7. SlotsHoldQueue'
  <2>1. \A s \in Slot : Queued(s) /\ (\A d \in Context : Filling(d)' => event_index'[d] # s) =>
                          slots'[s] = accepted[Number(s)]
    BY <1>1, <1>2, <1>3 DEF SlotsHoldQueue
  <2>2. \A d \in Context : Filling(d)' => accepted[Number(event_index'[d])] = ev'[d]
    BY <1>1, <1>2 DEF SlotsHoldQueue
  <2>3. \A d \in Context : pc'[d] = "data" => pc[d] = "data" /\ d # c /\ Filling(d) /\ event_index[d] # event_index[c] /\ event_index[d] \in Slot
    BY <1>1, <1>2 DEF FillsOwnSlot, Filling, Types
  <2>4. \A d \in Context : pc'[d] = "data" => slots'[event_index'[d]].handler = ev'[d].handler
    BY <1>1, <1>3, <2>3 DEF SlotsHoldQueue
  <2>5. QED
    BY <2>1, <2>2, <2>4 DEF SlotsHoldQueue, Queued, Number, Dist
<1>8. HandlingSlot' <=> HandlingSlot
  BY <1>1, ParametersAreNumbers DEF HandlingSlot, PutPcs, CriticalPcs, Context
<1>9. HandlingSlot => slots'[cur] = slots[cur]
  BY <1>1, <1>2, <1>3, RunningSlotIsFree DEF FillsOwnSlot, Types
<1>10. MainLoop' /\ ExecutedIsTaken'
  BY <1>1, <1>8, <1>9, ParametersAreNumbers DEF MainLoop, ExecutedIsTaken, Context, next_index
<1>11. QED
  BY <1>4, <1>5, <1>6, <1>7, <1>10

LEMMA CallExecuteKeepsIInv ==
  ASSUME IInv, CallExecute
  PROVE  IInv'
<1> USE DEF IInv, CallExecute, Goto, shared, producer, consumer
<1>1. /\ pc[0] = "loop" /\ pc'[0] = "empty?" /\ 0 \in Context
      /\ \A d \in Context : d # 0 => pc'[d] = pc[d]
  BY ParametersAreNumbers DEF Types, Context
<1>2. Types'
  BY DEF Types, GetPcs
<1>3. Roles' /\ CriticalIsHighest' /\ Reserving'
  BY <1>1, ParametersAreNumbers DEF Roles, CriticalIsHighest, Reserving, PutPcs, CriticalPcs, next_index, Context
<1>4. \A d \in Context : Filling(d)' <=> Filling(d)
  BY <1>1 DEF Filling
<1>5. FillsOwnSlot' /\ Counted'
  BY <1>4 DEF FillsOwnSlot, Counted, Queued, Dist
<1>6. SlotsHoldQueue'
  BY <1>1, <1>4 DEF SlotsHoldQueue, Queued, Number, Dist
<1>7. ~HandlingSlot /\ ~HandlingSlot'
  BY <1>1 DEF HandlingSlot, PutPcs, CriticalPcs
<1>8. MainLoop' /\ ExecutedIsTaken'
  BY <1>1, <1>7 DEF MainLoop, ExecutedIsTaken
<1>9. QED
  BY <1>2, <1>3, <1>5, <1>6, <1>8

LEMMA CheckEmptyKeepsIInv ==
  ASSUME IInv, CheckEmpty
  PROVE  IInv'
<1> USE DEF IInv, CheckEmpty, Goto, shared, producer
<1>1. /\ pc[0] = "empty?" /\ pc'[0] \in {"loop", "take"} /\ 0 \in Context
      /\ pc'[0] = "take" => cur' = start /\ start # end
      /\ \A d \in Context : d # 0 => pc'[d] = pc[d]
  BY ParametersAreNumbers DEF Types, Context, app_sched_queue_empty
<1>2. Types'
  BY DEF Types, GetPcs
<1>3. Roles' /\ CriticalIsHighest' /\ Reserving'
  BY <1>1, ParametersAreNumbers DEF Roles, CriticalIsHighest, Reserving, PutPcs, CriticalPcs, next_index, Context
<1>4. \A d \in Context : Filling(d)' <=> Filling(d)
  BY <1>1 DEF Filling
<1>5. FillsOwnSlot' /\ Counted'
  BY <1>4 DEF FillsOwnSlot, Counted, Queued, Dist
<1>6. SlotsHoldQueue'
  BY <1>1, <1>4 DEF SlotsHoldQueue, Queued, Number, Dist
<1>7. ~HandlingSlot /\ ~HandlingSlot'
  BY <1>1 DEF HandlingSlot, PutPcs, CriticalPcs
<1>8. MainLoop' /\ ExecutedIsTaken'
  BY <1>1, <1>7 DEF MainLoop, ExecutedIsTaken
<1>9. QED
  BY <1>2, <1>3, <1>5, <1>6, <1>8

\* Nobody is putting while the main loop takes a slot: the first queued slot
\* holds the first event of the queue.
LEMMA TakeSlotKeepsIInv ==
  ASSUME IInv, TakeSlot
  PROVE  IInv'
<1> USE DEF IInv, TakeSlot, Goto, producer
<1>1. /\ pc[0] = "take" /\ pc'[0] = "call" /\ 0 \in Context
      /\ \A d \in Context : d # 0 => pc'[d] = pc[d] /\ pc[d] = "idle"
  BY ParametersAreNumbers DEF Types, Context, Active
<1>2. cur = start /\ start # end /\ start' = next_index(start) /\ start' \in Slot
  BY <1>1, DistType DEF MainLoop, Types
<1>3. \A d \in Context : ~Filling(d) /\ ~Filling(d)'
  BY <1>1 DEF Filling
<1>4. /\ Dist(start, end)' = Dist(start, end) - 1
      /\ \A s \in Slot : s # start => Dist(next_index(start), s) = Dist(start, s) - 1
      /\ Dist(next_index(start), start) = Capacity
      /\ Dist(start, start) = 0
  <2>1. \A s \in Slot : s # start => Dist(next_index(start), s) = Dist(start, s) - 1
    BY DistFromNext DEF Types
  <2>2. Dist(next_index(start), start) = Capacity
    BY <1>2, DistToNext DEF Types
  <2>3. Dist(start, end)' = Dist(next_index(start), end)
    BY <1>2 DEF Dist
  <2>4. QED
    BY <1>2, <2>1, <2>2, <2>3, DistType DEF Types
<1>5. slots[start] = accepted[taken + 1]
  <2>1. Dist(start, end) > 0
    BY <1>2, DistType, TakenWereAccepted DEF Types
  <2>2. Queued(start) /\ Number(start) = taken + 1
    BY <1>4, <2>1, TakenWereAccepted DEF Queued, Number
  <2>3. QED
    BY <1>3, <2>2 DEF SlotsHoldQueue, Types
<1>6. Types'
  <2>1. pc' \in [Context -> {"idle", "loop"} \cup PutPcs \cup GetPcs]
    BY DEF Types, GetPcs
  <2>2. taken' \in Nat
    BY DEF Types
  <2>3. QED
    BY <1>2, <2>1, <2>2 DEF Types
<1>7. Roles' /\ CriticalIsHighest' /\ Reserving'
  BY <1>1, ParametersAreNumbers DEF Roles, CriticalIsHighest, Reserving, PutPcs, CriticalPcs, next_index, Context
<1>8. FillsOwnSlot'
  BY <1>3 DEF FillsOwnSlot
<1>9. Counted'
  <2>1. Len(accepted) = taken + 1 + Dist(start, end)'
    BY <1>4, TakenWereAccepted DEF Counted
  <2>2. QED
    BY <2>1 DEF Counted
<1>10. SlotsHoldQueue'
  <2>1. ASSUME NEW s \in Slot, Dist(next_index(start), s) < Dist(next_index(start), end)
        PROVE  slots[s] = accepted[taken + 1 + Dist(next_index(start), s) + 1]
    <3>1. Dist(next_index(start), end) = Dist(start, end) - 1
      BY <1>2, <1>4 DEF Types
    <3>2. s # start
      BY <1>4, <2>1, <3>1, TakenWereAccepted, NextIndexInRing
    <3>3. Dist(next_index(start), s) = Dist(start, s) - 1 /\ Dist(start, s) \in Nat
      BY <1>4, <3>2, DistType DEF Types
    <3>4. Queued(s)
      BY <2>1, <3>1, <3>3, TakenWereAccepted DEF Queued
    <3>5. slots[s] = accepted[Number(s)]
      BY <1>3, <3>4 DEF SlotsHoldQueue
    <3>6. Number(s) = taken + 1 + Dist(next_index(start), s) + 1
      BY <3>3, TakenWereAccepted DEF Number
    <3>7. QED
      BY <3>5, <3>6
  <2>2. \A d \in Context : pc'[d] # "data"
    BY <1>1
  <2>3. QED
    BY <1>2, <1>3, <2>1, <2>2 DEF SlotsHoldQueue, Queued, Number, Dist
<1>11. ~HandlingSlot /\ HandlingSlot'
  BY <1>1 DEF HandlingSlot, PutPcs, CriticalPcs
<1>12. MainLoop' /\ ExecutedIsTaken'
  <2>1. MainLoop'
    BY <1>1, <1>2, <1>5 DEF MainLoop, Types, next_index
  <2>2. Len(executed) = (taken + 1) - 1
    BY <1>11 DEF ExecutedIsTaken, Types
  <2>3. QED
    BY <1>11, <2>1, <2>2 DEF ExecutedIsTaken
<1>13. QED
  BY <1>6, <1>7, <1>8, <1>9, <1>10, <1>12

LEMMA RunHandlerKeepsIInv ==
  ASSUME IInv, RunHandler
  PROVE  IInv'
<1> USE DEF IInv, RunHandler, Goto, shared, producer
<1>1. /\ pc[0] = "call" /\ pc'[0] = "empty?" /\ 0 \in Context
      /\ \A d \in Context : d # 0 => pc'[d] = pc[d]
  BY ParametersAreNumbers DEF Types, Context
<1>2. HandlingSlot /\ ~HandlingSlot'
  BY <1>1 DEF HandlingSlot, PutPcs, CriticalPcs
<1>3. taken > 0 /\ slots[cur] = accepted[taken] /\ slots[cur] \in Event
  BY <1>2, TakenWereAccepted DEF MainLoop, Types
<1>4. /\ executed' \in Seq(Event) /\ Len(executed') = Len(executed) + 1
      /\ executed'[Len(executed) + 1] = accepted[taken]
      /\ \A k \in 1 .. Len(executed) : executed'[k] = executed[k]
  BY <1>3 DEF Types
<1>5. Types'
  BY <1>4 DEF Types, GetPcs
<1>6. Roles' /\ CriticalIsHighest' /\ Reserving'
  BY <1>1, ParametersAreNumbers DEF Roles, CriticalIsHighest, Reserving, PutPcs, CriticalPcs, next_index, Context
<1>7. \A d \in Context : Filling(d)' <=> Filling(d)
  BY <1>1 DEF Filling
<1>8. FillsOwnSlot' /\ Counted'
  BY <1>7 DEF FillsOwnSlot, Counted, Queued, Dist
<1>9. SlotsHoldQueue'
  BY <1>1, <1>7 DEF SlotsHoldQueue, Queued, Number, Dist
<1>10. MainLoop' /\ ExecutedIsTaken'
  <2>1. Len(executed) = taken - 1 /\ Len(executed') = taken
    BY <1>2, <1>4, TakenWereAccepted DEF ExecutedIsTaken
  <2>2. \A k \in 1 .. Len(executed') : executed'[k] = accepted[k]
    <3>1. TAKE k \in 1 .. Len(executed')
    <3>2. CASE k = taken
      BY <1>4, <2>1, <3>2, TakenWereAccepted
    <3>3. CASE k # taken
      <4>1. k \in 1 .. Len(executed)
        BY <2>1, <3>3, TakenWereAccepted
      <4>2. QED
        BY <1>4, <4>1 DEF ExecutedIsTaken
    <3>4. QED
      BY <3>2, <3>3
  <2>3. QED
    BY <1>1, <1>2, <2>1, <2>2 DEF MainLoop, ExecutedIsTaken
<1>11. QED
  BY <1>5, <1>6, <1>8, <1>9, <1>10

\* The invariant holds of every state.
LEMMA Invariance ==
  ASSUME CriticalMasks
  PROVE  Spec => []IInv
<1>1. IInv /\ [Next]_vars => IInv'
  <2> SUFFICES ASSUME IInv, [Next]_vars PROVE IInv'
    OBVIOUS
  <2>1. CASE Next
    BY <2>1, InterruptKeepsIInv, MainPutsKeepsIInv, CheckFullKeepsIInv, ReserveIndexKeepsIInv,
       ComputeNextEndKeepsIInv, PublishEndKeepsIInv, WriteHandlerKeepsIInv, WriteDataKeepsIInv,
       CallExecuteKeepsIInv, CheckEmptyKeepsIInv, TakeSlotKeepsIInv, RunHandlerKeepsIInv
       DEF Next, PutStep, app_sched_execute
  <2>2. CASE UNCHANGED vars
    BY <2>2 DEF vars, shared, producer, consumer, IInv, Types, Roles, CriticalIsHighest, Reserving,
       FillsOwnSlot, Counted, SlotsHoldQueue, MainLoop, ExecutedIsTaken, HandlingSlot, Filling,
       Queued, Number, Dist, next_index
  <2>3. QED
    BY <2>1, <2>2
<1>2. QED
  BY <1>1, InitIInv, PTL DEF Spec

--------------------------------------------------------------------------------
(* What follows from the invariant                                         *)

\* Every variable keeps its type, and no more events are taken out of the ring
\* than app_sched_event_put put in.
THEOREM TypeCorrect ==
  ASSUME CriticalMasks
  PROVE  Spec => []TypeOK
<1>1. IInv => TypeOK
  <2> SUFFICES ASSUME IInv PROVE TypeOK
    OBVIOUS
  <2>1. taken \in 0 .. Len(accepted)
    BY TakenWereAccepted DEF IInv
  <2>2. QED
    BY <2>1 DEF IInv, Types, TypeOK
<1>2. QED
  BY <1>1, Invariance, PTL

\* The handler's data is safe: no context writes the slot app_sched_event_get
\* gave back, however long the handler runs and whatever interrupts it.
THEOREM RunningSlotIsSafe ==
  ASSUME CriticalMasks
  PROVE  Spec => []RunningSlotIsNotReused
<1>1. IInv => RunningSlotIsNotReused
  <2> SUFFICES ASSUME IInv, HandlingSlot, NEW c \in Context,
                      pc[c] \in {"bump", "publish", "handler", "data"}
               PROVE  event_index[c] # cur
    BY DEF RunningSlotIsNotReused
  <2>1. CASE pc[c] \in {"bump", "publish"}
    BY <2>1 DEF IInv, Reserving, MainLoop
  <2>2. CASE Filling(c)
    BY <2>2, RunningSlotIsFree DEF IInv, FillsOwnSlot, Types
  <2>3. QED
    BY <2>1, <2>2 DEF Filling
<1>2. QED
  BY <1>1, Invariance, PTL

\* When app_sched_execute has emptied the queue and nobody is putting, what was
\* executed is what was accepted: nothing lost, repeated, reordered or torn.
THEOREM AllAreExecuted ==
  ASSUME CriticalMasks
  PROVE  Spec => []ExecutesAllScheduled
<1>1. IInv => ExecutesAllScheduled
  <2> SUFFICES ASSUME IInv, \A c \in Context : pc[c] \in {"idle", "loop"}, start = end
               PROVE  executed = accepted
    BY DEF ExecutesAllScheduled, app_sched_queue_empty
  <2>1. ~HandlingSlot
    BY ParametersAreNumbers DEF HandlingSlot, PutPcs, CriticalPcs, Context
  <2>2. Dist(start, end) = 0
    BY DistType DEF IInv, Types
  <2>3. Len(accepted) = taken /\ Len(executed) = taken
    BY <2>1, <2>2, TakenWereAccepted DEF IInv, Counted, ExecutedIsTaken
  <2>4. QED
    BY <2>3, SeqEqual DEF IInv, Types, ExecutedIsTaken
<1>2. QED
  BY <1>1, Invariance, PTL

\* app_sched_event_put refuses an event for want of room only when m_queue_size
\* events really are waiting, or 255 of them in a longer queue, which its 8-bit
\* indices cannot use; although the indices it compares are moved by the main loop
\* and by other interrupts.
THEOREM FullMeansFull ==
  ASSUME CriticalMasks
  PROVE  Spec => RefusedOnlyWhenFull
<1>1. ASSUME IInv, Next, NEW c \in Context, pc[c] = "full?", pc'[c] = Return(c)
      PROVE  Len(accepted) - taken = Capacity
  <2>1. pc'[c] # "full?" /\ pc'[c] # "reserve" /\ 0 \in Context
    BY <1>1, ParametersAreNumbers DEF IInv, Types, Return, Context
  <2>2. ~MainPuts
    BY <1>1, <2>1 DEF MainPuts, app_sched_event_put, Goto, IInv, Types
  <2>3. ~app_sched_execute
    BY <1>1, <2>1 DEF app_sched_execute, CallExecute, CheckEmpty, TakeSlot, RunHandler, Goto, IInv, Types
  <2>4. \A d \in Context : ~Interrupt(d)
    BY <1>1, <2>1 DEF Interrupt, app_sched_event_put, Goto, IInv, Types
  <2>5. \A d \in Context : PutStep(d) => d = c
    BY <1>1, <2>1 DEF PutStep, CheckFull, ReserveIndex, ComputeNextEnd, PublishEnd, WriteHandler, WriteData, Goto, IInv, Types
  <2>6. CheckFull(c)
    BY <1>1, <2>2, <2>3, <2>4, <2>5 DEF Next, PutStep, ReserveIndex, ComputeNextEnd, PublishEnd, WriteHandler, WriteData
  <2>7. next_index(end) = start
    BY <1>1, <2>1, <2>6 DEF CheckFull, app_sched_queue_full, Goto, IInv, Types
  <2>8. Dist(start, end) = Capacity
    BY <1>1, <2>7, DistToNext DEF IInv, Types
  <2>9. QED
    BY <1>1, <2>8, TakenWereAccepted, ParametersAreNumbers DEF IInv, Counted
<1>2. IInv /\ [Next]_vars =>
        [\A c \in Context :
           pc[c] = "full?" /\ pc'[c] = Return(c) => Len(accepted) - taken = Capacity]_vars
  BY <1>1
<1>3. QED
  BY <1>2, Invariance, PTL DEF Spec, RefusedOnlyWhenFull

--------------------------------------------------------------------------------
(* The scheduler implements SchedPromise.                                  *)

queue == SubSeq(accepted, taken + 1, Len(accepted))
running == IF HandlingSlot THEN <<accepted[taken]>> ELSE <<>>

LEMMA QueueLength ==
  ASSUME IInv
  PROVE  /\ queue \in Seq(Event) /\ Len(queue) = Dist(start, end)
         /\ \A i \in 1 .. Dist(start, end) : queue[i] = accepted[taken + i]
<1>1. /\ taken + 1 \in Int /\ Len(accepted) \in Int
      /\ \A i \in taken + 1 .. Len(accepted) : accepted[i] \in Event
      /\ Len(accepted) - (taken + 1) + 1 = Dist(start, end)
  BY TakenWereAccepted DEF IInv, Types, Counted
<1>2. /\ queue \in Seq(Event)
      /\ Len(queue) = IF taken + 1 <= Len(accepted) THEN Dist(start, end) ELSE 0
      /\ \A i \in 1 .. Dist(start, end) : queue[i] = accepted[(taken + 1) + i - 1]
  BY <1>1, SubSeqProperties DEF queue
<1>3. QED
  <2>1. taken + 1 <= Len(accepted) <=> Dist(start, end) # 0
    BY TakenWereAccepted DEF IInv, Counted
  <2>2. Len(queue) = Dist(start, end)
    BY <1>2, <2>1
  <2>3. \A i \in 1 .. Dist(start, end) : (taken + 1) + i - 1 = taken + i
    BY TakenWereAccepted DEF IInv
  <2>4. QED
    BY <1>2, <2>2, <2>3

LEMMA InitPromise == Init => Promise!Init
<1>1. Init => ~HandlingSlot /\ accepted = <<>> /\ taken = 0 /\ executed = <<>>
  BY ParametersAreNumbers DEF Init, HandlingSlot, PutPcs, CriticalPcs, Context
<1>2. SubSeq(<<>>, 0 + 1, Len(<<>>)) = <<>>
  BY SubSeqEmpty
<1>3. QED
  BY <1>1, <1>2 DEF Promise!Init

\* The event joins the queue when its slot is published.
LEMMA PublishAccepts ==
  ASSUME IInv, NEW c \in Context, PublishEnd(c)
  PROVE  Promise!Accept(ev[c])
<1>1. /\ pc[c] = "publish" /\ pc'[c] = "handler" /\ ev[c] \in Event
      /\ \A d \in Context : d # c => pc'[d] = pc[d]
  BY DEF IInv, Types, Roles, PutPcs, CriticalPcs, PublishEnd, Goto
<1>2. Len(queue) < Capacity
  <2>1. Dist(start, next_index(end)) = Dist(start, end) + 1
    BY <1>1, DistToNext DEF IInv, Types, Reserving
  <2>2. Dist(start, next_index(end)) <= Capacity
    BY DistType DEF IInv, Types
  <2>3. QED
    BY <2>1, <2>2, QueueLength, TakenWereAccepted, NextIndexInRing DEF IInv
<1>3. SubSeq(accepted', taken + 1, Len(accepted')) = Append(queue, ev[c])
  <2> DEFINE q == SubSeq(accepted', taken + 1, Len(accepted'))
             n == Len(accepted) - taken
  <2>1. /\ accepted' \in Seq(Event) /\ Len(accepted') = Len(accepted) + 1
        /\ accepted'[Len(accepted) + 1] = ev[c]
        /\ \A k \in 1 .. Len(accepted) : accepted'[k] = accepted[k]
    BY <1>1 DEF IInv, Types, PublishEnd
  <2>2. taken \in Nat /\ Len(accepted) \in Nat /\ taken <= Len(accepted) /\ n \in Nat /\ n = Dist(start, end)
    BY TakenWereAccepted DEF IInv, Counted
  <2>3. q \in Seq(Event) /\ Len(q) = n + 1 /\ \A i \in 1 .. n + 1 : q[i] = accepted'[taken + i]
    <3>1. \A i \in taken + 1 .. Len(accepted') : accepted'[i] \in Event
      BY <2>1, <2>2
    <3>2. /\ q \in Seq(Event)
          /\ Len(q) = IF taken + 1 <= Len(accepted') THEN Len(accepted') - (taken + 1) + 1 ELSE 0
          /\ \A i \in 1 .. Len(accepted') - (taken + 1) + 1 : q[i] = accepted'[(taken + 1) + i - 1]
      BY <2>1, <2>2, <3>1, SubSeqProperties
    <3>3. QED
      BY <2>1, <2>2, <3>2
  <2>4. /\ queue \in Seq(Event) /\ Len(queue) = n
        /\ \A i \in 1 .. n : queue[i] = accepted[taken + i]
    BY <2>2, QueueLength
  <2>5. /\ Append(queue, ev[c]) \in Seq(Event) /\ Len(Append(queue, ev[c])) = n + 1
        /\ \A i \in 1 .. n : Append(queue, ev[c])[i] = queue[i]
        /\ Append(queue, ev[c])[n + 1] = ev[c]
    BY <1>1, <2>4, AppendProperties
  <2>6. \A i \in 1 .. n + 1 : q[i] = Append(queue, ev[c])[i]
    <3>1. TAKE i \in 1 .. n + 1
    <3>2. CASE i = n + 1
      BY <2>1, <2>2, <2>3, <2>5, <3>2
    <3>3. CASE i # n + 1
      <4>1. i \in 1 .. n /\ taken + i \in 1 .. Len(accepted)
        BY <2>2, <3>3
      <4>2. QED
        BY <2>1, <2>3, <2>4, <2>5, <4>1
    <3>4. QED
      BY <3>2, <3>3
  <2>7. QED
    BY <2>3, <2>5, <2>6, SeqEqual
<1>4. running' = running
  <2>1. HandlingSlot' <=> HandlingSlot
    BY <1>1, ParametersAreNumbers DEF HandlingSlot, PutPcs, CriticalPcs, PublishEnd, Context
  <2>2. HandlingSlot => accepted'[taken] = accepted[taken]
    BY <1>1, TakenWereAccepted DEF IInv, MainLoop, Types, PublishEnd
  <2>3. QED
    BY <2>1, <2>2 DEF running, PublishEnd, consumer
<1>5. QED
  BY <1>2, <1>3, <1>4 DEF Promise!Accept, queue, running, PublishEnd, consumer

LEMMA TakeTakes ==
  ASSUME IInv, TakeSlot
  PROVE  Promise!Take
<1>1. ~HandlingSlot /\ HandlingSlot'
  BY ParametersAreNumbers DEF IInv, Types, HandlingSlot, PutPcs, CriticalPcs, Context, TakeSlot, Goto
<1>2. taken + 1 \in 1 .. Len(accepted) /\ Len(accepted) \in taken + 1 .. Len(accepted)
  <2>1. Dist(start, end) > 0
    BY DistType, TakenWereAccepted DEF IInv, Types, MainLoop, TakeSlot
  <2>2. QED
    BY <2>1, TakenWereAccepted DEF IInv, Counted
<1>3. Len(queue) > 0
  BY <1>2, QueueLength, TakenWereAccepted DEF IInv, Counted
<1>4. Head(queue) = accepted[taken + 1] /\ Tail(queue) = SubSeq(accepted, taken + 1 + 1, Len(accepted))
  BY <1>2, HeadTailOfSubSeq DEF IInv, Types, queue
<1>5. taken' = taken + 1 /\ accepted' = accepted /\ executed' = executed
  BY DEF TakeSlot, producer
<1>6. queue # <<>>
  BY <1>3
<1>7. running = <<>> /\ running' = <<Head(queue)>> /\ queue' = Tail(queue)
  BY <1>1, <1>4, <1>5 DEF running, queue
<1>8. QED
  BY <1>5, <1>6, <1>7 DEF Promise!Take, queue, running

LEMMA RunExecutes ==
  ASSUME IInv, RunHandler
  PROVE  Promise!Execute
<1>1. HandlingSlot /\ ~HandlingSlot'
  BY ParametersAreNumbers DEF IInv, Types, HandlingSlot, PutPcs, CriticalPcs, Context, RunHandler, Goto
<1>2. slots[cur] = accepted[taken] /\ accepted[taken] \in Event
  BY <1>1, TakenWereAccepted DEF IInv, MainLoop, Types
<1>3. executed' = executed \o <<accepted[taken]>>
  BY <1>2, AppendIsConcat DEF IInv, Types, RunHandler
<1>4. QED
  BY <1>1, <1>3 DEF Promise!Execute, RunHandler, shared, producer

\* Whatever the number of priorities and however puts are preempted, the
\* scheduler is a bounded first-in first-out queue of events.
THEOREM KeepsPromise ==
  ASSUME CriticalMasks
  PROVE  Spec => PromiseKept
<1>1. IInv /\ [Next]_vars => [Promise!Next]_(Promise!vars)
  <2> SUFFICES ASSUME IInv, [Next]_vars PROVE Promise!Next \/ UNCHANGED Promise!vars
    OBVIOUS
  <2> USE DEF Promise!Next
  <2>1. CASE UNCHANGED vars
    BY <2>1 DEF vars, shared, producer, consumer, Promise!vars, HandlingSlot
  <2>2. CASE \E c \in Context : PublishEnd(c)
    <3>1. PICK c \in Context : PublishEnd(c)
      BY <2>2
    <3>2. ev[c] \in Event
      BY <3>1 DEF IInv, Roles, PutPcs, CriticalPcs, PublishEnd
    <3>3. QED
      BY <3>1, <3>2, PublishAccepts
  <2>3. CASE TakeSlot
    BY <2>3, TakeTakes
  <2>4. CASE RunHandler
    BY <2>4, RunExecutes
  <2>5. CASE CallExecute \/ CheckEmpty
    <3>1. /\ UNCHANGED <<slots, producer, taken, executed>>
          /\ HandlingSlot' <=> HandlingSlot
      BY <2>5, ParametersAreNumbers DEF CallExecute, CheckEmpty, Goto, shared, producer, consumer,
         HandlingSlot, PutPcs, CriticalPcs, IInv, Types, Context
    <3>2. QED
      BY <3>1 DEF producer, Promise!vars
  <2>6. CASE MainPuts
    BY <2>6, ParametersAreNumbers DEF MainPuts, app_sched_event_put, Goto, shared, consumer, Promise!vars,
       HandlingSlot, PutPcs, CriticalPcs, IInv, Types, Context
  <2>7. CASE \E c \in Context : Interrupt(c)
    BY <2>7, ParametersAreNumbers DEF Interrupt, app_sched_event_put, Goto, shared, consumer, Promise!vars,
       HandlingSlot, PutPcs, CriticalPcs, IInv, Types, Context
  <2>8. CASE \E c \in Context : CheckFull(c) \/ WriteData(c)
    <3>1. PICK c \in Context : CheckFull(c) \/ WriteData(c)
      BY <2>8
    <3>2. accepted' = accepted /\ taken' = taken /\ executed' = executed /\ back' = back
      BY <3>1 DEF CheckFull, WriteData, consumer
    <3>3. /\ pc[c] \in {"full?", "data"} /\ pc'[c] \in {Return(c), "reserve"}
          /\ \A d \in Context : d # c => pc'[d] = pc[d]
      BY <3>1 DEF CheckFull, WriteData, Goto, IInv, Types
    <3>4. HandlingSlot' <=> HandlingSlot
      BY <3>2, <3>3, ParametersAreNumbers DEF HandlingSlot, PutPcs, CriticalPcs, Return, Context, IInv, Types
    <3>5. QED
      BY <3>2, <3>4 DEF Promise!vars
  <2>9. CASE \E c \in Context : ReserveIndex(c) \/ ComputeNextEnd(c) \/ WriteHandler(c)
    <3>1. PICK c \in Context : ReserveIndex(c) \/ ComputeNextEnd(c) \/ WriteHandler(c)
      BY <2>9
    <3>2. accepted' = accepted /\ taken' = taken /\ executed' = executed /\ back' = back
      BY <3>1 DEF ReserveIndex, ComputeNextEnd, WriteHandler, producer, consumer
    <3>3. /\ pc[c] \in PutPcs /\ pc'[c] \in PutPcs
          /\ \A d \in Context : d # c => pc'[d] = pc[d]
      BY <3>1 DEF ReserveIndex, ComputeNextEnd, WriteHandler, Goto, IInv, Types, PutPcs, CriticalPcs
    <3>4. HandlingSlot' <=> HandlingSlot
      BY <3>2, <3>3, ParametersAreNumbers DEF HandlingSlot, PutPcs, CriticalPcs, Context
    <3>5. QED
      BY <3>2, <3>4 DEF Promise!vars
  <2>10. QED
    BY <2>1, <2>2, <2>3, <2>4, <2>5, <2>6, <2>7, <2>8, <2>9 DEF Next, PutStep, app_sched_execute
<1>2. QED
  BY <1>1, InitPromise, Invariance, PTL DEF Spec, PromiseKept, Promise!Spec

================================================================================
