------------------------------ MODULE ApBusProofs ------------------------------
(***************************************************************************)
(* Proofs about ApBus, for any number of protothreads, registers and       *)
(* requests, any clock width and timeout, and a bus that loses and delays  *)
(* frames as it likes; and, of one protothread on a prompt bus, that every *)
(* call gets its own answer.                                               *)
(***************************************************************************)
EXTENDS ApBus, SequenceTheorems, TLAPS

--------------------------------------------------------------------------------
(* The parts of the inductive invariant                                    *)

\* Requests and answers stay in the order they were sent in: on the way to the
\* device, on the way back, in the slot, and where they were taken.
DeviceOrder ==
  \A i \in 1 .. Len(to_device) :
    /\ to_device[i].id <= Len(asked)
    /\ \A j \in 1 .. Len(to_device) : j < i => to_device[j].id < to_device[i].id

HostOrder ==
  \A i \in 1 .. Len(to_host) :
    /\ to_host[i].id <= Len(asked)
    /\ \A j \in 1 .. Len(to_host) : j < i => to_host[j].id < to_host[i].id
    /\ \A j \in 1 .. Len(to_device) : to_host[i].id < to_device[j].id

\* Everything still on the bus is newer than answer number n.
NewerThan(n) ==
  /\ n <= Len(asked)
  /\ \A i \in 1 .. Len(to_device) : n < to_device[i].id
  /\ \A i \in 1 .. Len(to_host) : n < to_host[i].id

SlotOrder == msg_body.body_recv => msg_body.ack \in Acks /\ NewerThan(msg_body.ack.id)

OutcomeOrder ==
  \A a \in Ids : HasAnswer(a) =>
    /\ NewerThan(outcome[a].id)
    /\ msg_body.body_recv => outcome[a].id < msg_body.ack.id

\* A request that was not sent has no outcome; a thread waits for one that was.
OnlyAsked ==
  /\ \A id \in Ids : id > Len(asked) => outcome[id] = NONE
  /\ \A t \in Threads : waiting[t] # NONE => waiting[t] <= Len(asked)

\* A register holds its own contents, and the answer to a read carries them.
Truthful(ack) == ack.fun = "ACK_RD" => ack.value[1] = ack.index

OwnContents ==
  /\ \A x \in Indexes : reg[x][1] = x
  /\ \A i \in 1 .. Len(to_host) : Truthful(to_host[i])
  /\ msg_body.body_recv => Truthful(msg_body.ack)

IInv ==
  /\ TypeOK
  /\ DeviceOrder
  /\ HostOrder
  /\ SlotOrder
  /\ OutcomeOrder
  /\ OnlyAsked
  /\ OwnContents
  /\ AckUsedOnce
  /\ ReadAnswersItsIndex

--------------------------------------------------------------------------------
\* The numbers that are compared.
LEMMA IdsAreNumbers ==
  ASSUME TypeOK
  PROVE  /\ Len(asked) \in Nat /\ Len(to_device) \in Nat /\ Len(to_host) \in Nat
         /\ \A i \in 1 .. Len(to_device) : to_device[i].id \in Nat
         /\ \A i \in 1 .. Len(to_host) : to_host[i] \in Acks /\ to_host[i].id \in Nat
         /\ \A a \in Ids : HasAnswer(a) => outcome[a] \in Acks /\ outcome[a].id \in Nat
         /\ \A ack \in Acks : ack.id \in Nat
<1>1. Len(asked) \in Nat /\ Len(to_device) \in Nat /\ Len(to_host) \in Nat
  BY DEF TypeOK
<1>2. \A ack \in Acks : ack.id \in Nat
  BY DEF Acks, Ids
<1>3. \A i \in 1 .. Len(to_device) : to_device[i].id \in Nat
  <2>1. \A i \in 1 .. Len(to_device) : to_device[i] \in RequestFrames
    BY DEF TypeOK
  <2>2. \A r \in RequestFrames : r.id \in Nat
    BY DEF RequestFrames, Ids
  <2>3. QED
    BY <2>1, <2>2
<1>4. \A i \in 1 .. Len(to_host) : to_host[i] \in Acks
  BY DEF TypeOK
<1>5. \A a \in Ids : HasAnswer(a) => outcome[a] \in Acks
  BY DEF TypeOK, HasAnswer
<1>6. QED
  BY <1>1, <1>2, <1>3, <1>4, <1>5

LEMMA InitIInv == Init => IInv
<1> SUFFICES ASSUME Init PROVE IInv
  OBVIOUS
<1> USE DEF Init
<1>1. TypeOK
  <2>1. clock \in Ticks /\ UnsetTimer \in Timer({0, ResponseTimeout})
    BY WIsEven, TimeoutFits DEF Ticks, Timer, UnsetTimer
  <2>2. reg \in [Indexes -> Contents]
    BY TimeoutFits DEF Contents
  <2>3. msg_body \in [body_recv : BOOLEAN, ack : Acks \cup {NONE}]
    BY DEF NoBody
  <2>4. asked \in Seq(Requests) /\ Len(asked) <= MaxRequests
    BY TimeoutFits
  <2>5. QED
    BY <2>1, <2>2, <2>3, <2>4 DEF TypeOK
<1>2. \A id \in Ids : ~HasAnswer(id)
  BY DEF HasAnswer
<1>3. DeviceOrder /\ HostOrder /\ SlotOrder /\ OutcomeOrder
  BY <1>2 DEF DeviceOrder, HostOrder, SlotOrder, OutcomeOrder, NoBody
<1>4. OnlyAsked /\ OwnContents /\ AckUsedOnce /\ ReadAnswersItsIndex
  BY <1>2 DEF OnlyAsked, OwnContents, AckUsedOnce, ReadAnswersItsIndex, NoBody
<1>5. QED
  BY <1>1, <1>3, <1>4 DEF IInv

\* A new request is newer than everything.
LEMMA SendKeepsIInv ==
  ASSUME IInv, NEW fun \in {"RD", "WR", "WR_NR"}, NEW x \in Indexes, NEW t \in Threads,
         Send(fun, x),
         waiting' \in {waiting, [waiting EXCEPT ![t] = Len(asked) + 1]},
         timer' = [timer EXCEPT ![t] = swtimer_set(clock, ResponseTimeout)],
         UNCHANGED <<clock, msg_body, to_host, reg, outcome>>
  PROVE  IInv'
<1> USE DEF IInv, Send
<1>1. /\ asked' \in Seq(Requests) /\ Len(asked') = Len(asked) + 1 /\ Len(asked') <= MaxRequests
      /\ \A i \in 1 .. Len(asked) : asked'[i] = asked[i]
      /\ Len(asked) \in Nat /\ Len(asked) + 1 \in Ids
  BY TimeoutFits DEF TypeOK, Requests, Ids
<1>2. /\ to_device' \in Seq(RequestFrames)
      /\ Len(to_device') = Len(to_device) + 1
      /\ \A i \in 1 .. Len(to_device) : to_device'[i] = to_device[i]
      /\ to_device'[Len(to_device) + 1].id = Len(asked) + 1
  BY <1>1 DEF TypeOK, RequestFrames
<1>3. TypeOK'
  <2>1. swtimer_set(clock, ResponseTimeout) \in Timer({0, ResponseTimeout})
    BY DEF TypeOK, swtimer_set, Timer
  <2>2. QED
    BY <1>1, <1>2, <2>1 DEF TypeOK
<1>4. \A n \in Int : NewerThan(n) => NewerThan(n)'
  BY <1>1, <1>2 DEF NewerThan, TypeOK
<1>5. DeviceOrder'
  <2>1. SUFFICES ASSUME NEW i \in 1 .. Len(to_device')
                 PROVE  /\ to_device'[i].id <= Len(asked')
                        /\ \A j \in 1 .. Len(to_device') : j < i => to_device'[j].id < to_device'[i].id
    BY DEF DeviceOrder
  <2>2. i \in Nat /\ i <= Len(to_device) + 1 /\ \A j \in 1 .. Len(to_device') : j < i => j \in 1 .. Len(to_device)
    BY <1>2, <2>1, IdsAreNumbers
  <2>3. CASE i \in 1 .. Len(to_device)
    <3>1. to_device[i].id <= Len(asked) /\ \A j \in 1 .. Len(to_device) : j < i => to_device[j].id < to_device[i].id
      BY <2>3 DEF DeviceOrder
    <3>2. \A j \in 1 .. Len(to_device) : to_device'[j].id = to_device[j].id /\ to_device[j].id \in Nat
      BY <1>2, IdsAreNumbers
    <3>3. QED
      BY <1>1, <2>2, <2>3, <3>1, <3>2
  <2>4. CASE i = Len(to_device) + 1
    <3>1. to_device'[i].id = Len(asked) + 1
      BY <1>2, <2>4
    <3>2. \A j \in 1 .. Len(to_device') : j < i => to_device'[j].id <= Len(asked) /\ to_device'[j].id \in Nat
      BY <1>2, <2>2, IdsAreNumbers DEF DeviceOrder
    <3>3. Len(asked') = Len(asked) + 1 /\ Len(asked) \in Nat
      BY <1>1
    <3>4. QED
      BY <3>1, <3>2, <3>3
  <2>5. i \in 1 .. Len(to_device) \/ i = Len(to_device) + 1
    BY <2>1, <2>2, IdsAreNumbers
  <2>6. QED
    BY <2>3, <2>4, <2>5
<1>6. HostOrder'
  <2>1. SUFFICES ASSUME NEW i \in 1 .. Len(to_host)
                 PROVE  /\ to_host[i].id <= Len(asked')
                        /\ \A j \in 1 .. Len(to_device') : to_host[i].id < to_device'[j].id
    BY DEF HostOrder
  <2>2. to_host[i].id <= Len(asked) /\ \A j \in 1 .. Len(to_device) : to_host[i].id < to_device[j].id
    BY DEF HostOrder
  <2>3. ASSUME NEW j \in 1 .. Len(to_device') PROVE to_host[i].id < to_device'[j].id
    <3>1. CASE j \in 1 .. Len(to_device)
      BY <1>2, <2>2, <3>1
    <3>2. CASE j = Len(to_device) + 1
      BY <1>2, <2>2, <3>2, IdsAreNumbers
    <3>3. QED
      BY <1>2, <2>3, <3>1, <3>2, IdsAreNumbers
  <2>4. to_host[i].id <= Len(asked')
    BY <1>1, <2>2, IdsAreNumbers
  <2>5. QED
    BY <2>3, <2>4
<1>7. SlotOrder'
  BY <1>4 DEF SlotOrder, Acks, Ids
<1>8. OutcomeOrder'
  <2>1. \A a \in Ids : HasAnswer(a) => NewerThan(outcome[a].id)'
    BY <1>4, IdsAreNumbers DEF OutcomeOrder
  <2>2. QED
    BY <2>1 DEF OutcomeOrder, HasAnswer, NewerThan
<1>9. OnlyAsked'
  <2>1. \A u \in Threads : waiting'[u] # NONE => waiting'[u] <= Len(asked) + 1
    BY <1>1 DEF OnlyAsked, TypeOK, Ids
  <2>2. \A id \in Ids : id > Len(asked) + 1 => outcome[id] = NONE
    BY <1>1 DEF OnlyAsked, Ids
  <2>3. QED
    BY <1>1, <2>1, <2>2 DEF OnlyAsked
<1>10. OwnContents' /\ AckUsedOnce'
  BY DEF OwnContents, AckUsedOnce, HasAnswer
<1>11. ReadAnswersItsIndex'
  <2>1. ~HasAnswer(Len(asked) + 1)
    BY <1>1 DEF OnlyAsked, HasAnswer
  <2>2. QED
    BY <1>1, <2>1 DEF ReadAnswersItsIndex, HasAnswer
<1>12. QED
  BY <1>3, <1>5, <1>6, <1>7, <1>8, <1>9, <1>10, <1>11

LEMMA FinishKeepsIInv ==
  ASSUME IInv, NEW t \in Threads, waiting[t] # NONE,
         \/ TakeAnswer(t)
         \/ GiveUp(t)
  PROVE  IInv'
<1> USE DEF IInv, Finish
<1>1. waiting[t] \in Ids /\ waiting[t] <= Len(asked)
  BY DEF TypeOK, OnlyAsked
<1>2. /\ asked' = asked /\ to_host' = to_host /\ to_device' = to_device /\ reg' = reg
      /\ clock' = clock /\ timer' = timer
      /\ waiting' = [waiting EXCEPT ![t] = NONE]
  BY DEF TakeAnswer, GiveUp, device
<1>3. \A n : NewerThan(n)' <=> NewerThan(n)
  BY <1>2 DEF NewerThan
<1>4. DeviceOrder' /\ HostOrder'
  BY <1>2 DEF DeviceOrder, HostOrder
<1>5. CASE TakeAnswer(t)
  <2> USE <1>5 DEF TakeAnswer
  <2>1. /\ msg_body.body_recv /\ msg_body' = [msg_body EXCEPT !.body_recv = FALSE] /\ ~msg_body'.body_recv
        /\ msg_body.ack \in Acks /\ NewerThan(msg_body.ack.id) /\ Truthful(msg_body.ack)
    BY DEF Answered, BodyMatches, SlotOrder, OwnContents, TypeOK
  <2>2. /\ outcome' = [outcome EXCEPT ![waiting[t]] = msg_body.ack]
        /\ outcome'[waiting[t]] = msg_body.ack
        /\ \A a \in Ids : a # waiting[t] => outcome'[a] = outcome[a]
    BY <1>1 DEF TypeOK
  <2>3. TypeOK'
    BY <1>2, <2>1, <2>2 DEF TypeOK
  <2>4. SlotOrder'
    BY <2>1 DEF SlotOrder
  <2>5. \A a \in Ids : HasAnswer(a)' => a = waiting[t] \/ HasAnswer(a)
    BY <2>2 DEF HasAnswer
  <2>6. OutcomeOrder'
    <3>1. \A a \in Ids : HasAnswer(a)' => NewerThan(outcome'[a].id)
      BY <2>1, <2>2, <2>5 DEF OutcomeOrder
    <3>2. QED
      BY <1>2, <2>1, <3>1 DEF OutcomeOrder, NewerThan
  <2>7. OnlyAsked'
    BY <1>1, <1>2, <2>2, IdsAreNumbers, TimeoutFits DEF OnlyAsked, TypeOK, Ids
  <2>8. OwnContents'
    BY <1>2, <2>1 DEF OwnContents
  <2>9. AckUsedOnce'
    <3>1. \A a \in Ids : HasAnswer(a) => outcome[a].id < msg_body.ack.id /\ outcome[a].id \in Nat /\ msg_body.ack.id \in Nat
      BY <2>1, IdsAreNumbers DEF OutcomeOrder
    <3>2. QED
      BY <2>2, <2>5, <3>1 DEF AckUsedOnce
  <2>10. ReadAnswersItsIndex'
    <3>1. asked[waiting[t]].fun = "RD" => msg_body.ack.value[1] = asked[waiting[t]].index
      BY <2>1 DEF Answered, BodyMatches, Truthful
    <3>2. \A id \in 1 .. Len(asked) : id \in Ids
      BY IdsAreNumbers, TimeoutFits DEF Ids, TypeOK
    <3>3. QED
      BY <1>2, <2>2, <2>5, <3>1, <3>2 DEF ReadAnswersItsIndex
  <2>11. QED
    BY <1>4, <2>3, <2>4, <2>6, <2>7, <2>8, <2>9, <2>10
<1>6. CASE GiveUp(t)
  <2> USE <1>6 DEF GiveUp
  <2>1. /\ outcome' = [outcome EXCEPT ![waiting[t]] = TIMEOUT]
        /\ outcome'[waiting[t]] = TIMEOUT /\ msg_body' = msg_body
        /\ \A a \in Ids : a # waiting[t] => outcome'[a] = outcome[a]
    BY <1>1 DEF TypeOK
  <2>2. \A a \in Ids : HasAnswer(a)' => HasAnswer(a) /\ outcome'[a] = outcome[a]
    BY <2>1 DEF HasAnswer
  <2>3. TypeOK'
    BY <1>2, <2>1 DEF TypeOK
  <2>4. SlotOrder' /\ OwnContents'
    BY <1>2, <2>1 DEF SlotOrder, OwnContents, NewerThan
  <2>5. OutcomeOrder'
    BY <1>2, <2>1, <2>2 DEF OutcomeOrder, NewerThan
  <2>6. OnlyAsked'
    BY <1>1, <1>2, <2>1, IdsAreNumbers, TimeoutFits DEF OnlyAsked, TypeOK, Ids
  <2>7. AckUsedOnce'
    BY <2>2 DEF AckUsedOnce
  <2>8. ReadAnswersItsIndex'
    <3>1. \A id \in 1 .. Len(asked) : id \in Ids
      BY IdsAreNumbers, TimeoutFits DEF Ids, TypeOK
    <3>2. QED
      BY <1>2, <2>2, <3>1 DEF ReadAnswersItsIndex
  <2>9. QED
    BY <1>4, <2>3, <2>4, <2>5, <2>6, <2>7, <2>8
<1>7. QED
  BY <1>5, <1>6

\* A frame that leaves the bus towards the host: into the slot, or lost.
LEMMA HostFrameLeavesKeepsIInv ==
  ASSUME IInv, to_host # <<>>, to_host' = Tail(to_host),
         msg_body' \in {msg_body, [body_recv |-> TRUE, ack |-> Head(to_host)]},
         UNCHANGED <<clock, host, device>>
  PROVE  IInv'
<1> USE DEF IInv, host, device
<1>1. /\ to_host' \in Seq(Acks) /\ Len(to_host) \in Nat \ {0} /\ Len(to_host') = Len(to_host) - 1
      /\ \A i \in 1 .. Len(to_host') : to_host'[i] = to_host[i + 1] /\ i + 1 \in 1 .. Len(to_host)
      /\ Head(to_host) = to_host[1] /\ Head(to_host) \in Acks
  BY DEF TypeOK
<1>2. TypeOK'
  <2>1. msg_body' \in [body_recv : BOOLEAN, ack : Acks \cup {NONE}]
    <3>1. CASE msg_body' = msg_body
      BY <3>1 DEF TypeOK
    <3>2. CASE msg_body' = [body_recv |-> TRUE, ack |-> Head(to_host)]
      BY <1>1, <3>2
    <3>3. QED
      BY <3>1, <3>2
  <2>2. QED
    BY <1>1, <2>1 DEF TypeOK
<1>3. \A n : NewerThan(n) => NewerThan(n)'
  BY <1>1 DEF NewerThan
<1>4. DeviceOrder'
  BY DEF DeviceOrder
<1>5. HostOrder'
  <2>1. SUFFICES ASSUME NEW i \in 1 .. Len(to_host')
                 PROVE  /\ to_host'[i].id <= Len(asked)
                        /\ \A j \in 1 .. Len(to_host') : j < i => to_host'[j].id < to_host'[i].id
                        /\ \A j \in 1 .. Len(to_device) : to_host'[i].id < to_device[j].id
    BY DEF HostOrder
  <2>2. i + 1 \in 1 .. Len(to_host) /\ i \in Nat /\ to_host'[i] = to_host[i + 1]
    BY <1>1, <2>1
  <2>3. \A j \in 1 .. Len(to_host') : j < i => j + 1 < i + 1 /\ j + 1 \in 1 .. Len(to_host) /\ to_host'[j] = to_host[j + 1]
    BY <1>1, <2>2
  <2>4. QED
    BY <2>2, <2>3 DEF HostOrder
<1>6. \A n : n = Head(to_host).id => NewerThan(n)'
  <2>1. 1 \in 1 .. Len(to_host)
    BY <1>1
  <2>2. \A i \in 1 .. Len(to_host') : to_host[1].id < to_host'[i].id
    BY <1>1, <2>1 DEF HostOrder
  <2>3. to_host[1].id <= Len(asked) /\ \A j \in 1 .. Len(to_device) : to_host[1].id < to_device[j].id
    BY <2>1 DEF HostOrder
  <2>4. QED
    BY <1>1, <2>2, <2>3 DEF NewerThan
<1>7. SlotOrder'
  <2>1. CASE msg_body' = msg_body
    BY <1>3, <2>1 DEF SlotOrder, NewerThan
  <2>2. CASE msg_body' = [body_recv |-> TRUE, ack |-> Head(to_host)]
    <3>1. msg_body'.ack = Head(to_host)
      BY <2>2
    <3>2. QED
      BY <1>1, <1>6, <3>1 DEF SlotOrder, NewerThan
  <2>3. QED
    BY <2>1, <2>2
<1>8. OutcomeOrder'
  <2>1. \A a \in Ids : HasAnswer(a) => NewerThan(outcome[a].id)' /\ outcome[a].id < to_host[1].id
    BY <1>1, <1>3 DEF OutcomeOrder, NewerThan
  <2>2. QED
    BY <1>1, <2>1 DEF OutcomeOrder, HasAnswer, NewerThan
<1>9. OwnContents'
  BY <1>1 DEF OwnContents, Truthful
<1>10. OnlyAsked' /\ AckUsedOnce' /\ ReadAnswersItsIndex'
  BY DEF OnlyAsked, AckUsedOnce, ReadAnswersItsIndex, HasAnswer
<1>11. QED
  BY <1>2, <1>4, <1>5, <1>7, <1>8, <1>9, <1>10

\* A request that is lost before the device sees it.
LEMMA LoseRequestKeepsIInv ==
  ASSUME IInv, LoseRequest
  PROVE  IInv'
<1> USE DEF IInv, LoseRequest, host
<1>1. /\ to_device' \in Seq(RequestFrames) /\ Len(to_device) \in Nat \ {0} /\ Len(to_device') = Len(to_device) - 1
      /\ \A i \in 1 .. Len(to_device') : to_device'[i] = to_device[i + 1] /\ i + 1 \in 1 .. Len(to_device)
  BY DEF TypeOK
<1>2. TypeOK'
  BY <1>1 DEF TypeOK
<1>3. \A n : NewerThan(n) => NewerThan(n)'
  BY <1>1 DEF NewerThan
<1>4. DeviceOrder'
  <2>1. SUFFICES ASSUME NEW i \in 1 .. Len(to_device')
                 PROVE  /\ to_device'[i].id <= Len(asked)
                        /\ \A j \in 1 .. Len(to_device') : j < i => to_device'[j].id < to_device'[i].id
    BY DEF DeviceOrder
  <2>2. i + 1 \in 1 .. Len(to_device) /\ i \in Nat /\ to_device'[i] = to_device[i + 1]
    BY <1>1, <2>1
  <2>3. \A j \in 1 .. Len(to_device') : j < i => j + 1 < i + 1 /\ j + 1 \in 1 .. Len(to_device) /\ to_device'[j] = to_device[j + 1]
    BY <1>1, <2>2
  <2>4. QED
    BY <2>2, <2>3 DEF DeviceOrder
<1>5. HostOrder'
  BY <1>1 DEF HostOrder
<1>6. SlotOrder' /\ OutcomeOrder'
  BY <1>3 DEF SlotOrder, OutcomeOrder, HasAnswer, NewerThan
<1>7. OwnContents' /\ OnlyAsked' /\ AckUsedOnce' /\ ReadAnswersItsIndex'
  BY DEF OwnContents, OnlyAsked, AckUsedOnce, ReadAnswersItsIndex, HasAnswer
<1>8. QED
  BY <1>2, <1>4, <1>5, <1>6, <1>7

\* The device takes the oldest request, which is newer than every answer, and
\* sends its answer behind the others.
LEMMA DeviceKeepsIInv ==
  ASSUME IInv, DeviceHandles
  PROVE  IInv'
<1> USE DEF IInv, DeviceHandles, host
<1> DEFINE r == Head(to_device)
<1>1. /\ to_device' \in Seq(RequestFrames) /\ Len(to_device) \in Nat \ {0} /\ Len(to_device') = Len(to_device) - 1
      /\ \A i \in 1 .. Len(to_device') : to_device'[i] = to_device[i + 1] /\ i + 1 \in 1 .. Len(to_device)
      /\ r = to_device[1] /\ r \in RequestFrames
  BY DEF TypeOK
<1>2. /\ reg' \in [Indexes -> Contents]
      /\ \A x \in Indexes : reg'[x][1] = x
  <2>1. reg' = reg \/ reg' = [reg EXCEPT ![r.index] = <<r.index, r.id>>]
    BY DEF ReadRegister, WriteRegister, RefuseWrite
  <2>2. r.index \in Indexes /\ <<r.index, r.id>> \in Contents
    BY <1>1, TimeoutFits DEF RequestFrames, Contents, Ids
  <2>3. reg' \in [Indexes -> Contents]
    BY <2>1, <2>2 DEF TypeOK
  <2>4. \A x \in Indexes : reg'[x] = reg[x] \/ (x = r.index /\ reg'[x] = <<r.index, r.id>>)
    BY <2>1 DEF TypeOK
  <2>5. \A x \in Indexes : reg'[x][1] = x
    BY <2>4 DEF OwnContents
  <2>6. QED
    BY <2>3, <2>5
<1>3. to_host' = to_host \/ \E a \in Acks : to_host' = Append(to_host, a) /\ a.id = r.id /\ Truthful(a)
  <2>1. CASE to_host' = to_host
    BY <2>1
  <2>2. CASE ReadRegister(r)
    <3> DEFINE a == [fun |-> "ACK_RD", index |-> r.index, value |-> reg[r.index], id |-> r.id]
    <3>1. a \in Acks /\ Truthful(a)
      BY <1>1 DEF Acks, Values, RequestFrames, Truthful, OwnContents, TypeOK
    <3>2. to_host' = Append(to_host, a) /\ a.id = r.id
      BY <2>2 DEF ReadRegister, Answer
    <3>3. QED
      BY <3>1, <3>2
  <2>3. CASE \E v \in {OK, BUSY} : Answer("ACK_WR", r, v)
    <3>1. PICK v \in {OK, BUSY} : Answer("ACK_WR", r, v)
      BY <2>3
    <3> DEFINE a == [fun |-> "ACK_WR", index |-> r.index, value |-> v, id |-> r.id]
    <3>2. a \in Acks /\ Truthful(a)
      BY <1>1, <3>1 DEF Acks, Values, RequestFrames, Truthful
    <3>3. to_host' = Append(to_host, a) /\ a.id = r.id
      BY <3>1 DEF Answer
    <3>4. QED
      BY <3>2, <3>3
  <2>4. QED
    BY <2>1, <2>2, <2>3 DEF WriteRegister, RefuseWrite
<1> HIDE DEF r
<1>4. /\ to_host' \in Seq(Acks)
      /\ \A i \in 1 .. Len(to_host') : i \in 1 .. Len(to_host) \/ i = Len(to_host) + 1
      /\ \A i \in 1 .. Len(to_host') : i \in 1 .. Len(to_host) => to_host'[i] = to_host[i]
      /\ \A i \in 1 .. Len(to_host') : i \notin 1 .. Len(to_host) => to_host'[i].id = r.id /\ Truthful(to_host'[i])
  <2>1. CASE to_host' = to_host
    BY <2>1 DEF TypeOK
  <2>2. CASE \E a \in Acks : to_host' = Append(to_host, a) /\ a.id = r.id /\ Truthful(a)
    <3>1. PICK a \in Acks : to_host' = Append(to_host, a) /\ a.id = r.id /\ Truthful(a)
      BY <2>2
    <3>2. /\ to_host' \in Seq(Acks) /\ Len(to_host') = Len(to_host) + 1 /\ Len(to_host) \in Nat
          /\ \A i \in 1 .. Len(to_host) : to_host'[i] = to_host[i]
          /\ to_host'[Len(to_host) + 1] = a
      BY <3>1, AppendProperties DEF TypeOK
    <3>3. \A i \in 1 .. Len(to_host') : i \in 1 .. Len(to_host) \/ i = Len(to_host) + 1
      BY <3>2
    <3>4. QED
      BY <3>1, <3>2, <3>3
  <2>3. QED
    BY <1>3, <2>1, <2>2
<1>5. TypeOK'
  BY <1>1, <1>2, <1>4 DEF TypeOK
<1>6. /\ r.id \in Nat /\ r.id <= Len(asked)
      /\ \A i \in 1 .. Len(to_device') : r.id < to_device'[i].id
      /\ \A i \in 1 .. Len(to_host) : to_host[i].id < r.id
      /\ \A n : NewerThan(n) => n < r.id
  <2>1. 1 \in 1 .. Len(to_device)
    BY <1>1
  <2>2. QED
    BY <1>1, <2>1, IdsAreNumbers DEF DeviceOrder, HostOrder, NewerThan
<1>7. \A n : NewerThan(n) => NewerThan(n)'
  BY <1>1, <1>4, <1>6 DEF NewerThan
<1>8. DeviceOrder'
  <2>1. SUFFICES ASSUME NEW i \in 1 .. Len(to_device')
                 PROVE  /\ to_device'[i].id <= Len(asked)
                        /\ \A j \in 1 .. Len(to_device') : j < i => to_device'[j].id < to_device'[i].id
    BY DEF DeviceOrder
  <2>2. i + 1 \in 1 .. Len(to_device) /\ i \in Nat /\ to_device'[i] = to_device[i + 1]
    BY <1>1, <2>1
  <2>3. \A j \in 1 .. Len(to_device') : j < i => j + 1 < i + 1 /\ j + 1 \in 1 .. Len(to_device) /\ to_device'[j] = to_device[j + 1]
    BY <1>1, <2>2
  <2>4. QED
    BY <2>2, <2>3 DEF DeviceOrder
<1>9. HostOrder'
  <2>1. SUFFICES ASSUME NEW i \in 1 .. Len(to_host')
                 PROVE  /\ to_host'[i].id <= Len(asked)
                        /\ \A j \in 1 .. Len(to_host') : j < i => to_host'[j].id < to_host'[i].id
                        /\ \A j \in 1 .. Len(to_device') : to_host'[i].id < to_device'[j].id
    BY DEF HostOrder
  <2>2. CASE i \in 1 .. Len(to_host)
    <3>1. to_host'[i] = to_host[i]
      BY <1>4, <2>2
    <3>2. \A j \in 1 .. Len(to_host') : j < i => j \in 1 .. Len(to_host) /\ to_host'[j] = to_host[j]
      BY <1>4, <2>2, IdsAreNumbers
    <3>3. QED
      BY <1>1, <2>2, <3>1, <3>2 DEF HostOrder
  <2>3. CASE i \notin 1 .. Len(to_host)
    <3>1. to_host'[i].id = r.id /\ i = Len(to_host) + 1
      BY <1>4, <2>3
    <3>2. \A j \in 1 .. Len(to_host') : j < i => j \in 1 .. Len(to_host) /\ to_host'[j] = to_host[j]
      BY <1>4, <3>1, IdsAreNumbers
    <3>3. QED
      BY <1>6, <3>1, <3>2
  <2>4. QED
    BY <2>2, <2>3
<1>10. SlotOrder' /\ OutcomeOrder'
  BY <1>7 DEF SlotOrder, OutcomeOrder, HasAnswer, NewerThan
<1>11. OwnContents'
  BY <1>2, <1>4 DEF OwnContents
<1>12. OnlyAsked' /\ AckUsedOnce' /\ ReadAnswersItsIndex'
  BY DEF OnlyAsked, AckUsedOnce, ReadAnswersItsIndex, HasAnswer
<1>13. QED
  BY <1>5, <1>8, <1>9, <1>10, <1>11, <1>12

LEMMA TickKeepsIInv ==
  ASSUME IInv, Tick
  PROVE  IInv'
<1> USE DEF IInv, Tick, host, device
<1>1. clock' \in Ticks
  BY WIsEven DEF Ticks, TypeOK
<1>2. TypeOK'
  BY <1>1 DEF TypeOK
<1>3. DeviceOrder' /\ HostOrder' /\ SlotOrder' /\ OutcomeOrder'
  BY DEF DeviceOrder, HostOrder, SlotOrder, OutcomeOrder, NewerThan, HasAnswer
<1>4. OnlyAsked' /\ OwnContents' /\ AckUsedOnce' /\ ReadAnswersItsIndex'
  BY DEF OnlyAsked, OwnContents, AckUsedOnce, ReadAnswersItsIndex, HasAnswer
<1>5. QED
  BY <1>2, <1>3, <1>4

LEMMA Invariance == Spec => []IInv
<1>1. IInv /\ [Next]_vars => IInv'
  <2> SUFFICES ASSUME IInv, [Next]_vars PROVE IInv'
    OBVIOUS
  <2>1. CASE \E t \in Threads, x \in Indexes :
               SendAndWait(t, "RD", x) \/ SendAndWait(t, "WR", x) \/ apbus_write_NR_reg_poll(t, x)
    <3>1. PICK t \in Threads, x \in Indexes :
            SendAndWait(t, "RD", x) \/ SendAndWait(t, "WR", x) \/ apbus_write_NR_reg_poll(t, x)
      BY <2>1
    <3>2. PICK fun \in {"RD", "WR", "WR_NR"} :
            /\ Send(fun, x)
            /\ waiting' \in {waiting, [waiting EXCEPT ![t] = Len(asked) + 1]}
            /\ timer' = [timer EXCEPT ![t] = swtimer_set(clock, ResponseTimeout)]
            /\ UNCHANGED <<clock, msg_body, to_host, reg, outcome>>
      BY <3>1 DEF SendAndWait, apbus_write_NR_reg_poll
    <3>3. QED
      BY <3>2, SendKeepsIInv
  <2>2. CASE \E t \in Threads : apbus_reg_poll(t)
    BY <2>2, FinishKeepsIInv DEF apbus_reg_poll, TakeAnswer, GiveUp, TimeIsUp
  <2>3. CASE apbus_recv_poll \/ LoseAnswer
    BY <2>3, HostFrameLeavesKeepsIInv DEF apbus_recv_poll, LoseAnswer
  <2>4. CASE UNCHANGED vars
    BY <2>4 DEF vars, IInv, TypeOK, DeviceOrder, HostOrder, SlotOrder, OutcomeOrder, NewerThan,
       OnlyAsked, OwnContents, AckUsedOnce, ReadAnswersItsIndex, HasAnswer
  <2>5. QED
    BY <2>1, <2>2, <2>3, <2>4, DeviceKeepsIInv, LoseRequestKeepsIInv, TickKeepsIInv DEF Next
<1>2. QED
  BY <1>1, InitIInv, PTL DEF Spec

--------------------------------------------------------------------------------
(* What follows from the invariant                                         *)

\* Every variable keeps its type: the timers of apbus_read_reg_poll and
\* apbus_write_reg_poll, the slot, the frames and the results.
THEOREM TypeCorrect == Spec => []TypeOK
<1>1. IInv => TypeOK
  BY DEF IInv
<1>2. QED
  BY <1>1, Invariance, PTL

\* apbus_body_get gives each received answer to one caller at most, however
\* many protothreads poll the one slot and however late answers come.
THEOREM OneCallerPerAck == Spec => []AckUsedOnce
<1>1. IInv => AckUsedOnce
  BY DEF IInv
<1>2. QED
  BY <1>1, Invariance, PTL

\* A read never returns the contents of another register.
THEOREM ReadsItsRegister == Spec => []ReadAnswersItsIndex
<1>1. IInv => ReadAnswersItsIndex
  BY DEF IInv
<1>2. QED
  BY <1>1, Invariance, PTL

--------------------------------------------------------------------------------
(* One protothread on a bus that is prompt                                 *)

\* A thread waits for request id, and has done so since this tick.
Awaited(id) == \E t \in Threads : waiting[t] = id

Asking(id) == \E t \in Threads : waiting[t] = id /\ timer[t].start = clock

AckFun(fun) == IF fun = "RD" THEN "ACK_RD" ELSE "ACK_WR"

\* A frame is about the register that its request was about.
RequestAsAsked(r) == r.fun = asked[r.id].fun /\ r.index = asked[r.id].index

AckAsAsked(ack) ==
  /\ ack.id \in 1 .. Len(asked)
  /\ ack.fun = AckFun(asked[ack.id].fun)
  /\ ack.index = asked[ack.id].index

\* Whatever will be answered, or is an answer on its way, belongs to the request
\* that is waited for, and the tick it was sent in is not over; and so does what
\* lies in the slot, however old it is.
OwnFramesOnly ==
  /\ \A i \in 1 .. Len(to_device) :
       /\ RequestAsAsked(to_device[i])
       /\ to_device[i].fun # "WR_NR" => Asking(to_device[i].id)
  /\ \A i \in 1 .. Len(to_host) : AckAsAsked(to_host[i]) /\ Asking(to_host[i].id)
  /\ msg_body.body_recv => AckAsAsked(msg_body.ack) /\ Awaited(msg_body.ack.id)

\* A timer that counts, counts to ResponseTimeout.
TimersSet == \A t \in Threads : timer[t].start # 0 => timer[t].timeout_ms = ResponseTimeout

\* Invariant of Spec when Prompt holds and the port has a single user.
PromptInv == IInv /\ TimersSet /\ OwnFramesOnly /\ AnswersItsRequest

\* The port has a single user.
SingleUser == \A t, u \in Threads : t = u

\* A timer that was set in this tick has not expired.
LEMMA JustSet ==
  ASSUME NEW t \in Threads, PromptInv, timer[t].start = clock
  PROVE  ~TimeIsUp(t)
<1> USE DEF PromptInv
<1>1. clock \in Int /\ W \in Nat \ {0}
  BY WIsEven DEF IInv, TypeOK, Ticks
<1>2. clock - clock = 0
  BY <1>1
<1>3. 0 % W = 0 /\ 0 < W \div 2
  BY <1>1, TimeoutFits
<1>4. Elapsed(timer[t], clock) = 0
  BY <1>2, <1>3 DEF Elapsed
<1>5. QED
  BY <1>4, TimeoutFits DEF TimeIsUp, swtimer_expired, TimersSet

\* With a single user, nothing else is waited for.
LEMMA OneIsAwaited ==
  ASSUME SingleUser, NEW t \in Threads, NEW id, Awaited(id)
  PROVE  waiting[t] = id
  BY DEF SingleUser, Awaited

LEMMA InitPromptInv == Init => PromptInv
<1> SUFFICES ASSUME Init PROVE PromptInv
  OBVIOUS
<1>1. IInv
  BY InitIInv
<1>2. TimersSet /\ OwnFramesOnly
  BY DEF Init, TimersSet, OwnFramesOnly, UnsetTimer, NoBody
<1>3. AnswersItsRequest
  BY DEF Init, AnswersItsRequest, HasAnswer
<1>4. QED
  BY <1>1, <1>2, <1>3 DEF PromptInv

\* The only user sends: nothing was on the bus that will be answered, and the
\* slot was empty.
LEMMA SendKeepsPromptInv ==
  ASSUME SingleUser, PromptInv, IInv', NEW t \in Threads, NEW x \in Indexes,
         NEW fun \in {"RD", "WR", "WR_NR"},
         Send(fun, x), waiting[t] = NONE,
         waiting' = IF fun = "WR_NR" THEN waiting ELSE [waiting EXCEPT ![t] = Len(asked) + 1],
         timer' = [timer EXCEPT ![t] = swtimer_set(clock, ResponseTimeout)],
         UNCHANGED <<clock, msg_body, to_host, reg, outcome>>
  PROVE  PromptInv'
<1> USE DEF PromptInv
<1>1. \A id \in Ids : ~Awaited(id) /\ ~Asking(id)
  BY NoneIsNoId DEF Awaited, Asking, SingleUser
<1>2. /\ Len(asked) \in Nat /\ Len(asked) + 1 \in Ids
      /\ Len(asked') = Len(asked) + 1
      /\ \A i \in 1 .. Len(asked) : asked'[i] = asked[i]
      /\ asked'[Len(asked) + 1] = [fun |-> fun, index |-> x]
  BY TimeoutFits DEF IInv, TypeOK, Send, Ids
<1>3. /\ Len(to_device) \in Nat /\ Len(to_device') = Len(to_device) + 1
      /\ \A i \in 1 .. Len(to_device) : to_device'[i] = to_device[i]
      /\ to_device'[Len(to_device) + 1] = [fun |-> fun, index |-> x, id |-> Len(asked) + 1]
  BY DEF IInv, TypeOK, Send
<1>4. /\ \A i \in 1 .. Len(to_device) : to_device[i].id \in Ids /\ to_device[i].id \in 1 .. Len(asked)
      /\ \A i \in 1 .. Len(to_host) : to_host[i].id \in Ids
      /\ msg_body.body_recv => msg_body.ack.id \in Ids
  <2>1. \A i \in 1 .. Len(to_device) : to_device[i] \in RequestFrames /\ to_device[i].id <= Len(asked)
    BY DEF IInv, TypeOK, DeviceOrder
  <2>2. \A i \in 1 .. Len(to_host) : to_host[i] \in Acks
    BY DEF IInv, TypeOK
  <2>3. \A r \in RequestFrames : r.id \in Ids /\ r.id \in Nat /\ r.id >= 1
    BY DEF RequestFrames, Ids
  <2>4. \A a \in Acks : a.id \in Ids
    BY DEF Acks
  <2>5. msg_body.body_recv => msg_body.ack \in Acks
    BY DEF IInv, SlotOrder
  <2>6. QED
    BY <1>2, <2>1, <2>2, <2>3, <2>4, <2>5
<1>5. Len(to_host) = 0 /\ ~msg_body.body_recv /\ Len(to_host) \in Nat
  <2>1. Len(to_host) \in Nat
    BY IdsAreNumbers DEF IInv
  <2>2. \A i \in 1 .. Len(to_host) : FALSE
    BY <1>1, <1>4 DEF OwnFramesOnly
  <2>3. Len(to_host) # 0 => 1 \in 1 .. Len(to_host)
    BY <2>1
  <2>4. QED
    BY <1>1, <1>4, <2>1, <2>2, <2>3 DEF OwnFramesOnly
<1>6. timer'[t] = [start |-> clock, timeout_ms |-> ResponseTimeout, isstop |-> FALSE]
      /\ \A u \in Threads : u # t => timer'[u] = timer[u]
  BY DEF IInv, TypeOK, swtimer_set
<1>7. TimersSet'
  BY <1>6 DEF TimersSet
<1>8. fun # "WR_NR" => \A id : id = Len(asked) + 1 => Asking(id)'
  <2>1. SUFFICES ASSUME fun # "WR_NR" PROVE waiting'[t] = Len(asked) + 1 /\ timer'[t].start = clock'
    BY DEF Asking
  <2>2. waiting'[t] = Len(asked) + 1
    BY <2>1 DEF IInv, TypeOK
  <2>3. QED
    BY <1>6, <2>2
<1>9. \A i \in 1 .. Len(to_device') :
        /\ RequestAsAsked(to_device[i])'
        /\ (to_device[i].fun # "WR_NR" => Asking(to_device[i].id))'
  <2>1. SUFFICES ASSUME NEW i \in 1 .. Len(to_device')
                 PROVE  /\ RequestAsAsked(to_device[i])'
                        /\ (to_device[i].fun # "WR_NR" => Asking(to_device[i].id))'
    OBVIOUS
  <2>2. CASE i \in 1 .. Len(to_device)
    <3>1. to_device'[i] = to_device[i] /\ to_device[i].id \in 1 .. Len(asked)
      BY <1>3, <1>4, <2>2
    <3>2. RequestAsAsked(to_device[i]) /\ to_device[i].fun = "WR_NR"
      BY <1>1, <1>4, <2>2 DEF OwnFramesOnly
    <3>3. QED
      BY <1>2, <3>1, <3>2 DEF RequestAsAsked
  <2>3. CASE i = Len(to_device) + 1
    <3>1. to_device'[i].fun = fun /\ to_device'[i].index = x /\ to_device'[i].id = Len(asked) + 1
      BY <1>3, <2>3
    <3>2. RequestAsAsked(to_device[i])'
      BY <1>2, <3>1 DEF RequestAsAsked
    <3>3. QED
      BY <1>8, <3>1, <3>2
  <2>4. QED
    BY <1>3, <2>1, <2>2, <2>3
<1>10. OwnFramesOnly'
  BY <1>5, <1>9 DEF OwnFramesOnly
<1>11. AnswersItsRequest'
  BY DEF AnswersItsRequest, HasAnswer
<1>12. QED
  BY <1>7, <1>10, <1>11

\* The call ends: with the answer of its request, or with nothing left that
\* could be taken for an answer of a later one.
LEMMA FinishKeepsPromptInv ==
  ASSUME SingleUser, PromptInv, IInv', NEW t \in Threads, apbus_reg_poll(t)
  PROVE  PromptInv'
<1> USE DEF PromptInv
<1>1. /\ asked' = asked /\ to_host' = to_host /\ to_device' = to_device /\ timer' = timer /\ clock' = clock
      /\ waiting[t] # NONE /\ waiting[t] \in Ids
  BY DEF apbus_reg_poll, TakeAnswer, GiveUp, TimeIsUp, Finish, device, IInv, TypeOK
<1>2. \A i \in 1 .. Len(to_device) : to_device[i].fun = "WR_NR"
  <2>1. SUFFICES ASSUME NEW i \in 1 .. Len(to_device), to_device[i].fun # "WR_NR" PROVE FALSE
    OBVIOUS
  <2>2. waiting[t] = to_device[i].id /\ timer[t].start = clock
    BY <2>1 DEF OwnFramesOnly, Asking, SingleUser
  <2>3. TakeAnswer(t)
    BY <2>2, JustSet DEF apbus_reg_poll, GiveUp
  <2>4. msg_body.body_recv
    BY <2>3 DEF TakeAnswer, Answered, BodyMatches
  <2>5. msg_body.ack.id = waiting[t] /\ msg_body.ack.id < to_device[i].id /\ msg_body.ack.id \in Nat
    BY <2>4, OneIsAwaited, IdsAreNumbers DEF OwnFramesOnly, IInv, SlotOrder, NewerThan
  <2>6. QED
    BY <2>2, <2>5
<1>3. \A i \in 1 .. Len(to_host) : FALSE
  <2>1. SUFFICES ASSUME NEW i \in 1 .. Len(to_host) PROVE FALSE
    OBVIOUS
  <2>2. waiting[t] = to_host[i].id /\ timer[t].start = clock
    BY <2>1 DEF OwnFramesOnly, Asking, SingleUser
  <2>3. TakeAnswer(t)
    BY <2>2, JustSet DEF apbus_reg_poll, GiveUp
  <2>4. msg_body.body_recv
    BY <2>3 DEF TakeAnswer, Answered, BodyMatches
  <2>5. msg_body.ack.id = waiting[t] /\ msg_body.ack.id < to_host[i].id /\ msg_body.ack.id \in Nat
    BY <2>4, OneIsAwaited, IdsAreNumbers DEF OwnFramesOnly, IInv, SlotOrder, NewerThan
  <2>6. QED
    BY <2>2, <2>5
<1>4. msg_body.body_recv => TakeAnswer(t)
  <2>1. SUFFICES ASSUME msg_body.body_recv PROVE Answered(t)
    BY DEF apbus_reg_poll, GiveUp, TimeIsUp
  <2>2. waiting[t] = msg_body.ack.id /\ AckAsAsked(msg_body.ack)
    BY <2>1, OneIsAwaited DEF OwnFramesOnly
  <2>3. QED
    BY <2>1, <2>2 DEF Answered, BodyMatches, AckAsAsked, AckFun
<1>5. ~msg_body'.body_recv
  <2>1. CASE TakeAnswer(t)
    BY <2>1 DEF TakeAnswer, IInv, TypeOK
  <2>2. CASE GiveUp(t)
    <3>1. ~msg_body.body_recv /\ msg_body' = msg_body
      BY <1>4, <2>2 DEF GiveUp, TimeIsUp, TakeAnswer
    <3>2. QED
      BY <3>1
  <2>3. QED
    BY <2>1, <2>2 DEF apbus_reg_poll
<1>6. OwnFramesOnly'
  BY <1>1, <1>2, <1>3, <1>5 DEF OwnFramesOnly, RequestAsAsked
<1>7. AnswersItsRequest'
  <2>1. CASE TakeAnswer(t)
    <3>1. msg_body.body_recv /\ outcome' = [outcome EXCEPT ![waiting[t]] = msg_body.ack]
      BY <2>1 DEF TakeAnswer, Finish, Answered, BodyMatches
    <3>2. msg_body.ack.id = waiting[t]
      BY <3>1, OneIsAwaited DEF OwnFramesOnly
    <3>3. \A a \in Ids : outcome'[a] = IF a = waiting[t] THEN msg_body.ack ELSE outcome[a]
      BY <3>1 DEF IInv, TypeOK
    <3>4. QED
      BY <3>2, <3>3 DEF AnswersItsRequest, HasAnswer
  <2>2. CASE GiveUp(t)
    <3>1. \A a \in Ids : outcome'[a] = IF a = waiting[t] THEN TIMEOUT ELSE outcome[a]
      BY <2>2 DEF GiveUp, Finish, IInv, TypeOK
    <3>2. QED
      BY <3>1 DEF AnswersItsRequest, HasAnswer
  <2>3. QED
    BY <2>1, <2>2 DEF apbus_reg_poll
<1>8. TimersSet'
  BY <1>1 DEF TimersSet
<1>9. QED
  BY <1>6, <1>7, <1>8

\* What the user waits for does not change while frames move; what is left of
\* a direction of the bus was there before.
LEMMA BusKeepsPromptInv ==
  ASSUME PromptInv, IInv', UNCHANGED <<clock, host>>,
         \A i \in 1 .. Len(to_device') : \E j \in 1 .. Len(to_device) : to_device'[i] = to_device[j],
         \A i \in 1 .. Len(to_host') :
           \/ \E j \in 1 .. Len(to_host) : to_host'[i] = to_host[j]
           \/ AckAsAsked(to_host[i])' /\ Asking(to_host[i].id)',
         \/ msg_body' = msg_body
         \/ \E j \in 1 .. Len(to_host) : msg_body' = [body_recv |-> TRUE, ack |-> to_host[j]]
  PROVE  PromptInv'
<1> USE DEF PromptInv, host
<1>1. \A id : (Asking(id) => Asking(id)') /\ (Awaited(id) => Awaited(id)') /\ (Asking(id) => Awaited(id))
  BY DEF Asking, Awaited
<1>2. \A a : AckAsAsked(a) => AckAsAsked(a)'
  BY DEF AckAsAsked
<1>4. ASSUME NEW i \in 1 .. Len(to_device')
      PROVE  /\ RequestAsAsked(to_device[i])'
             /\ (to_device[i].fun # "WR_NR" => Asking(to_device[i].id))'
  <2>1. PICK j \in 1 .. Len(to_device) : to_device'[i] = to_device[j]
    BY <1>4
  <2>2. RequestAsAsked(to_device[j]) /\ (to_device[j].fun # "WR_NR" => Asking(to_device[j].id))
    BY DEF OwnFramesOnly
  <2>3. RequestAsAsked(to_device[i])'
    BY <2>1, <2>2 DEF RequestAsAsked
  <2>4. QED
    BY <1>1, <2>1, <2>2, <2>3 DEF Asking
<1>5. ASSUME NEW i \in 1 .. Len(to_host')
      PROVE  AckAsAsked(to_host[i])' /\ Asking(to_host[i].id)'
  <2>1. CASE \E j \in 1 .. Len(to_host) : to_host'[i] = to_host[j]
    BY <1>2, <2>1 DEF OwnFramesOnly, AckAsAsked, Asking
  <2>2. QED
    BY <1>5, <2>1
<1>6. msg_body'.body_recv => AckAsAsked(msg_body.ack)' /\ Awaited(msg_body.ack.id)'
  <2>1. CASE msg_body' = msg_body
    BY <2>1 DEF OwnFramesOnly, AckAsAsked, Awaited
  <2>2. CASE \E j \in 1 .. Len(to_host) : msg_body' = [body_recv |-> TRUE, ack |-> to_host[j]]
    <3>1. PICK j \in 1 .. Len(to_host) : msg_body' = [body_recv |-> TRUE, ack |-> to_host[j]]
      BY <2>2
    <3>2. msg_body'.ack = to_host[j] /\ AckAsAsked(to_host[j]) /\ Asking(to_host[j].id)
      BY <3>1 DEF OwnFramesOnly
    <3>3. QED
      BY <3>2 DEF AckAsAsked, Asking, Awaited
  <2>3. QED
    BY <2>1, <2>2
<1>7. OwnFramesOnly'
  BY <1>4, <1>5, <1>6 DEF OwnFramesOnly
<1>8. TimersSet' /\ AnswersItsRequest'
  BY DEF TimersSet, AnswersItsRequest, HasAnswer
<1>9. QED
  BY <1>7, <1>8

\* The device answers a request that is waited for.
LEMMA DeviceKeepsPromptInv ==
  ASSUME PromptInv, IInv', DeviceHandles
  PROVE  PromptInv'
<1> USE DEF PromptInv, DeviceHandles, host
<1> DEFINE r == to_device[1]
<1>1. /\ Len(to_device) \in Nat \ {0} /\ Len(to_device') = Len(to_device) - 1
      /\ \A i \in 1 .. Len(to_device') : to_device'[i] = to_device[i + 1] /\ i + 1 \in 1 .. Len(to_device)
      /\ Head(to_device) = r /\ r \in RequestFrames /\ 1 \in 1 .. Len(to_device)
  BY DEF IInv, TypeOK
<1>2. /\ RequestAsAsked(r) /\ r.id \in 1 .. Len(asked)
      /\ r.fun # "WR_NR" => Asking(r.id)
  <2>1. r.id \in Nat /\ r.id >= 1 /\ r.id <= Len(asked) /\ Len(asked) \in Nat
    BY <1>1, IdsAreNumbers DEF IInv, DeviceOrder, RequestFrames, Ids
  <2>2. QED
    BY <1>1, <2>1 DEF OwnFramesOnly
<1>3. \/ to_host' = to_host
      \/ /\ r.fun # "WR_NR"
         /\ \E a : /\ to_host' = Append(to_host, a)
                   /\ a.fun = AckFun(r.fun) /\ a.index = r.index /\ a.id = r.id
  <2>1. CASE ReadRegister(r)
    <3> DEFINE a == [fun |-> "ACK_RD", index |-> r.index, value |-> reg[r.index], id |-> r.id]
    <3>1. to_host' = Append(to_host, a) /\ r.fun = "RD"
      BY <2>1 DEF ReadRegister, Answer
    <3>2. a.fun = AckFun(r.fun) /\ a.index = r.index /\ a.id = r.id
      BY <3>1 DEF AckFun
    <3>3. QED
      BY <3>1, <3>2
  <2>2. CASE WriteRegister(r) \/ RefuseWrite(r)
    <3>1. CASE to_host' # to_host
      <4>1. r.fun = "WR"
        BY <2>2, <3>1 DEF WriteRegister, RefuseWrite
      <4>2. PICK v : Answer("ACK_WR", r, v)
        BY <2>2, <3>1 DEF WriteRegister, RefuseWrite
      <4> DEFINE a == [fun |-> "ACK_WR", index |-> r.index, value |-> v, id |-> r.id]
      <4>3. to_host' = Append(to_host, a)
        BY <4>2 DEF Answer
      <4>4. a.fun = AckFun(r.fun) /\ a.index = r.index /\ a.id = r.id
        BY <4>1 DEF AckFun
      <4>5. QED
        BY <4>1, <4>3, <4>4
    <3>2. QED
      BY <3>1
  <2>3. QED
    BY <1>1, <2>1, <2>2
<1>4. ASSUME NEW i \in 1 .. Len(to_host')
      PROVE  \/ \E j \in 1 .. Len(to_host) : to_host'[i] = to_host[j]
             \/ AckAsAsked(to_host[i])' /\ Asking(to_host[i].id)'
  <2>1. CASE to_host' = to_host
    BY <1>4, <2>1
  <2>2. CASE to_host' # to_host
    <3>1. PICK a : /\ to_host' = Append(to_host, a)
                   /\ a.fun = AckFun(r.fun) /\ a.index = r.index /\ a.id = r.id
      BY <1>3, <2>2
    <3>2. Len(to_host) \in Nat /\ Len(to_host') = Len(to_host) + 1
          /\ \A j \in 1 .. Len(to_host) : to_host'[j] = to_host[j]
          /\ to_host'[Len(to_host) + 1] = a
      BY <3>1 DEF IInv, TypeOK
    <3>3. i \in 1 .. Len(to_host) \/ i = Len(to_host) + 1
      BY <1>4, <3>2
    <3>4. CASE i = Len(to_host) + 1
      <4>1. to_host'[i].fun = AckFun(r.fun) /\ to_host'[i].index = r.index /\ to_host'[i].id = r.id
        BY <3>1, <3>2, <3>4
      <4>2. AckAsAsked(to_host[i])'
        BY <1>2, <4>1 DEF AckAsAsked, RequestAsAsked
      <4>3. Asking(to_host[i].id)'
        BY <1>2, <1>3, <2>2, <4>1 DEF Asking
      <4>4. QED
        BY <4>2, <4>3
    <3>5. QED
      BY <3>2, <3>3, <3>4
  <2>3. QED
    BY <2>1, <2>2
<1>5. QED
  BY <1>1, <1>4, BusKeepsPromptInv

LEMMA PromptInvariance ==
  ASSUME Prompt, SingleUser
  PROVE  Spec => []PromptInv
<1>1. PromptInv /\ IInv' /\ [Next]_vars => PromptInv'
  <2> SUFFICES ASSUME PromptInv, IInv', [Next]_vars PROVE PromptInv'
    OBVIOUS
  <2> USE DEF PromptInv
  <2>1. CASE \E t \in Threads, x \in Indexes :
               SendAndWait(t, "RD", x) \/ SendAndWait(t, "WR", x) \/ apbus_write_NR_reg_poll(t, x)
    <3>1. PICK t \in Threads, x \in Indexes :
            SendAndWait(t, "RD", x) \/ SendAndWait(t, "WR", x) \/ apbus_write_NR_reg_poll(t, x)
      BY <2>1
    <3>2. PICK fun \in {"RD", "WR", "WR_NR"} :
            /\ Send(fun, x) /\ waiting[t] = NONE
            /\ waiting' = IF fun = "WR_NR" THEN waiting ELSE [waiting EXCEPT ![t] = Len(asked) + 1]
            /\ timer' = [timer EXCEPT ![t] = swtimer_set(clock, ResponseTimeout)]
            /\ UNCHANGED <<clock, msg_body, to_host, reg, outcome>>
      BY <3>1 DEF SendAndWait, apbus_write_NR_reg_poll
    <3>3. QED
      BY <3>2, SendKeepsPromptInv
  <2>2. CASE \E t \in Threads : apbus_reg_poll(t)
    BY <2>2, FinishKeepsPromptInv
  <2>3. CASE apbus_recv_poll \/ LoseAnswer
    <3>1. /\ Head(to_host) = to_host[1] /\ 1 \in 1 .. Len(to_host)
          /\ \A i \in 1 .. Len(to_host') : \E j \in 1 .. Len(to_host) : to_host'[i] = to_host[j]
      <4>1. to_host' = Tail(to_host) /\ to_host # <<>> /\ to_host \in Seq(Acks)
        BY <2>3 DEF apbus_recv_poll, LoseAnswer, IInv, TypeOK
      <4>2. /\ Head(to_host) = to_host[1] /\ 1 \in 1 .. Len(to_host)
            /\ \A i \in 1 .. Len(to_host') : i + 1 \in 1 .. Len(to_host) /\ to_host'[i] = to_host[i + 1]
        BY <4>1
      <4>3. QED
        BY <4>2
    <3>2. UNCHANGED <<clock, host, to_device>>
          /\ (msg_body' = msg_body \/ msg_body' = [body_recv |-> TRUE, ack |-> Head(to_host)])
      BY <2>3 DEF apbus_recv_poll, LoseAnswer, device
    <3>3. QED
      BY <3>1, <3>2, BusKeepsPromptInv
  <2>4. CASE LoseRequest
    <3>1. \A i \in 1 .. Len(to_device') : i + 1 \in 1 .. Len(to_device) /\ to_device'[i] = to_device[i + 1]
      BY <2>4 DEF LoseRequest, IInv, TypeOK
    <3>2. \A i \in 1 .. Len(to_device') : \E j \in 1 .. Len(to_device) : to_device'[i] = to_device[j]
      BY <3>1
    <3>3. QED
      BY <2>4, <3>2, BusKeepsPromptInv DEF LoseRequest
  <2>5. CASE Tick
    <3>1. Len(to_device') = 0 /\ Len(to_host') = 0 /\ to_device' = to_device
      BY <2>5 DEF Tick, device
    <3>2. OwnFramesOnly'
      BY <2>5, <3>1 DEF Tick, host, OwnFramesOnly, AckAsAsked, Awaited
    <3>3. TimersSet' /\ AnswersItsRequest'
      BY <2>5 DEF Tick, host, TimersSet, AnswersItsRequest, HasAnswer
    <3>4. QED
      BY <3>2, <3>3
  <2>6. CASE UNCHANGED vars
    BY <2>6 DEF vars, TimersSet, OwnFramesOnly, AckAsAsked, RequestAsAsked, Asking, Awaited,
       AnswersItsRequest, HasAnswer
  <2>7. QED
    BY <2>1, <2>2, <2>3, <2>4, <2>5, <2>6, DeviceKeepsPromptInv DEF Next
<1>2. QED
  BY <1>1, InitPromptInv, Invariance, PTL DEF Spec

\* When the bus brings a frame in the tick it is sent, or never, and the port
\* has a single user, apbus_body_get gives each call the answer to its own
\* request: not comparing who asked, and for a write not even the register, does
\* no harm then, however often requests and answers are lost.
THEOREM OwnAnswer ==
  ASSUME Prompt, SingleUser
  PROVE  Spec => []AnswersItsRequest
<1>1. PromptInv => AnswersItsRequest
  BY DEF PromptInv
<1>2. QED
  BY <1>1, PromptInvariance, PTL

================================================================================
