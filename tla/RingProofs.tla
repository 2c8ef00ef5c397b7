------------------------------- MODULE RingProofs -------------------------------
(***************************************************************************)
(* Proofs about RxRing and RingBuffer, for every length of the ring and    *)
(* every number of bytes, with and without the reader's mask.              *)
(***************************************************************************)
EXTENDS RxRing, RingBuffer, TLAPS

--------------------------------------------------------------------------------
(* The receive ring: the bytes and where they are                          *)

\* How long ago slot s was written, counted in bytes: the slot before
\* put_index last, the slot at put_index a whole round ago.
Back(put, s) == IF s < put THEN put - s ELSE put - s + FifoLen

\* What is in slot s when sent bytes arrived.
Stamp(put, s, sent) == IF sent >= Back(put, s) THEN sent + 1 - Back(put, s) ELSE 0

--------------------------------------------------------------------------------
(* The parts of the inductive invariant                                    *)

RxTypes ==
  /\ masked \in BOOLEAN
  /\ rx_fifo \in [buffer : [0 .. FifoLen - 1 -> Nat], put_index : 0 .. FifoLen - 1,
                  get_index : 0 .. FifoLen, is_full : BOOLEAN]
  /\ rx_sent \in Nat
  /\ rx_pc \in {"idle", "equal", "load", "read", "advance", "store", "wrap", "clear"}
  /\ rx_ch \in Nat
  /\ rx_get \in 0 .. FifoLen - 1
  /\ rx_taken \in Seq(Nat)
  /\ rx_raced \in BOOLEAN

\* Only between StoreGetIndex and WrapGetIndex is get_index out of the ring.
InRing == rx_pc # "wrap" => rx_fifo.get_index < FifoLen

\* Every slot holds the byte that was written there last.
SlotsAreStamped ==
  \A s \in 0 .. FifoLen - 1 : rx_fifo.buffer[s] = Stamp(rx_fifo.put_index, s, rx_sent)

\* Nothing is held that did not arrive.
HeldArrived == RxHeld <= rx_sent

\* Where the reader has found a byte, or is about to, there is one.
FoundOne ==
  \/ rx_pc \in {"load", "read", "advance"}
  \/ rx_pc \in {"idle", "equal"} /\ rx_fifo.is_full
  => RxHeld > 0

\* The slot whose index the reader has loaded was written, and up to a race it
\* holds none of the bytes that are held but the first, and none that was taken.
SlotIsOldest ==
  rx_pc = "read" =>
    /\ rx_fifo.buffer[rx_get] >= 1
    /\ ~rx_raced =>
         /\ rx_fifo.buffer[rx_get] <= rx_sent - RxHeld + 1
         /\ \A i \in 1 .. Len(rx_taken) : rx_taken[i] < rx_fifo.buffer[rx_get]

\* So it is with the byte the reader has read there.
LoadedIsOldest ==
  /\ rx_pc \in {"advance", "store"} => rx_ch \in 1 .. rx_sent
  /\ rx_pc = "advance" /\ ~rx_raced => rx_ch <= rx_sent - RxHeld + 1

\* The slot it leaves holds that byte or, overwritten, a newer one.
LeavesOlder ==
  rx_pc \in {"advance", "store"} =>
    /\ rx_fifo.buffer[rx_get] >= 1
    /\ ~rx_raced => rx_fifo.buffer[rx_get] >= rx_ch

\* What was taken did arrive, and up to a race it came before what is held, in
\* order, and before what is loaded.
TakenIsOlder ==
  \A i \in 1 .. Len(rx_taken) :
    /\ rx_taken[i] \in 1 .. rx_sent
    /\ ~rx_raced =>
         /\ rx_taken[i] <= rx_sent - RxHeld
         /\ i > 1 => rx_taken[i - 1] < rx_taken[i]
         /\ rx_pc \in {"advance", "store"} => rx_taken[i] < rx_ch

\* With the mask the reader's copies are those of the ring.
MaskedReads ==
  masked =>
    /\ ~rx_raced
    /\ rx_pc \in {"read", "advance", "store"} => RxHeld > 0 /\ rx_get = rx_fifo.get_index
    /\ rx_pc \in {"advance", "store"} => rx_ch = rx_fifo.buffer[rx_get]

RxInv ==
  /\ RxTypes
  /\ InRing
  /\ SlotsAreStamped
  /\ HeldArrived
  /\ FoundOne
  /\ SlotIsOldest
  /\ LoadedIsOldest
  /\ LeavesOlder
  /\ TakenIsOlder
  /\ MaskedReads

--------------------------------------------------------------------------------
(* Going round the ring                                                    *)

\* The slot that is written becomes the newest, and all others a byte older.
LEMMA BackAfterPut ==
  ASSUME NEW put \in 0 .. FifoLen - 1, NEW s \in 0 .. FifoLen - 1
  PROVE  /\ Wrapped(put + 1) \in 0 .. FifoLen - 1
         /\ Back(put, s) \in 1 .. FifoLen
         /\ Back(Wrapped(put + 1), s) = IF s = put THEN 1 ELSE Back(put, s) + 1
  BY FifoLenIsPositive DEF Wrapped, Back

\* The bytes after slot s are those that came after the one in it.
LEMMA HeldBehindSlot ==
  ASSUME NEW put \in 0 .. FifoLen - 1, NEW s \in 0 .. FifoLen - 1
  PROVE  Back(put, s) - 1 = IF Wrapped(s + 1) <= put THEN put - Wrapped(s + 1)
                            ELSE put - Wrapped(s + 1) + FifoLen
  <1>1. CASE s + 1 < FifoLen
    <2>1. Wrapped(s + 1) = s + 1
      BY <1>1, FifoLenIsPositive DEF Wrapped
    <2> QED BY <1>1, <2>1, FifoLenIsPositive DEF Back
  <1>2. CASE s + 1 = FifoLen
    <2>1. Wrapped(s + 1) = 0
      BY <1>2, FifoLenIsPositive DEF Wrapped
    <2> QED BY <1>2, <2>1, FifoLenIsPositive DEF Back
  <1> QED BY <1>1, <1>2, FifoLenIsPositive

\* What a byte that arrives does to the ring: all copies of the text agree.
LEMMA ByteIsPut ==
  ASSUME RxTypes, ByteReceived
  PROVE  /\ rx_fifo'.put_index = Wrapped(rx_fifo.put_index + 1)
         /\ rx_fifo'.buffer = [rx_fifo.buffer EXCEPT ![rx_fifo.put_index] = rx_sent + 1]
         /\ rx_fifo'.get_index = IF rx_fifo'.put_index = rx_fifo.get_index
                                   THEN Wrapped(rx_fifo.get_index + 1)
                                   ELSE rx_fifo.get_index
         /\ rx_fifo'.is_full = (rx_fifo.is_full \/ rx_fifo'.put_index = rx_fifo.get_index)
         /\ rx_fifo' \in [buffer : [0 .. FifoLen - 1 -> Nat], put_index : 0 .. FifoLen - 1,
                          get_index : 0 .. FifoLen, is_full : BOOLEAN]
  <1>1. rx_fifo' = Put(rx_fifo, rx_sent + 1)
    BY DEF ByteReceived, sdk_uart_rx_getc, ble_getc
  <1>2. rx_fifo.put_index \in 0 .. FifoLen - 1 /\ rx_fifo.get_index \in 0 .. FifoLen
    BY DEF RxTypes
  <1>3. /\ Wrapped(rx_fifo.put_index + 1) \in 0 .. FifoLen - 1
        /\ Wrapped(rx_fifo.get_index + 1) \in 0 .. FifoLen
    BY <1>2, FifoLenIsPositive DEF Wrapped
  <1>4. [rx_fifo.buffer EXCEPT ![rx_fifo.put_index] = rx_sent + 1] \in [0 .. FifoLen - 1 -> Nat]
    BY DEF RxTypes
  <1>5. (rx_fifo.is_full \/ Wrapped(rx_fifo.put_index + 1) = rx_fifo.get_index) \in BOOLEAN
    OBVIOUS
  <1> QED BY <1>1, <1>2, <1>3, <1>4, <1>5 DEF Put

\* The ring holds at most FifoLen - 1 bytes.
LEMMA HeldInRing ==
  ASSUME RxTypes
  PROVE  RxHeld \in 0 .. FifoLen - 1
  BY FifoLenIsPositive DEF RxTypes, RxHeld, Wrapped

\* A byte that arrives is one more, or drives out the oldest.  (Between
\* StoreGetIndex and WrapGetIndex the writer may also lose them all.)
LEMMA HeldAfterPut ==
  ASSUME RxTypes, ByteReceived
  PROVE  /\ RxHeld' \in 0 .. FifoLen - 1
         /\ RxHeld' <= RxHeld + 1
         /\ rx_fifo'.is_full => rx_fifo.is_full \/ RxHeld' > 0
         /\ rx_fifo.get_index < FifoLen =>
              /\ rx_fifo'.get_index < FifoLen
              /\ RxHeld' = IF RxHeld < FifoLen - 1 THEN RxHeld + 1 ELSE RxHeld
  <1> DEFINE put == rx_fifo.put_index
             get == rx_fifo.get_index
  <1>1. put \in 0 .. FifoLen - 1 /\ get \in 0 .. FifoLen
    BY DEF RxTypes
  <1>2. /\ rx_fifo'.put_index = Wrapped(put + 1)
        /\ rx_fifo'.get_index = IF Wrapped(put + 1) = get THEN Wrapped(get + 1) ELSE get
        /\ rx_fifo'.is_full => rx_fifo.is_full \/ Wrapped(put + 1) = get
    BY ByteIsPut
  <1> QED BY <1>1, <1>2, FifoLenIsPositive DEF RxHeld, Wrapped

\* Only StoreGetIndex takes a byte, and only a byte that arrives adds one.
LEMMA HeldOtherwise ==
  ASSUME RxTypes,
         \/ CompareIndices \/ CompareIsFull \/ LoadSlotIndex \/ LoadChar
         \/ LoadGetIndex \/ WrapGetIndex \/ ClearIsFull \/ UNCHANGED rx_vars
  PROVE  RxHeld' = RxHeld /\ UNCHANGED <<masked, rx_sent, rx_taken>>
  <1>1. UNCHANGED <<masked, rx_sent, rx_taken>>
    BY DEF CompareIndices, CompareIsFull, LoadSlotIndex, LoadChar, LoadGetIndex, WrapGetIndex,
           ClearIsFull, rx_shared, rx_vars
  <1>2. /\ rx_fifo'.put_index = rx_fifo.put_index
        /\ rx_fifo'.get_index \in {rx_fifo.get_index, Wrapped(rx_fifo.get_index)}
    BY DEF CompareIndices, CompareIsFull, LoadSlotIndex, LoadChar, LoadGetIndex, WrapGetIndex,
           ClearIsFull, rx_shared, rx_vars, RxTypes
  <1>3. Wrapped(Wrapped(rx_fifo.get_index)) = Wrapped(rx_fifo.get_index)
    BY FifoLenIsPositive DEF Wrapped
  <1>4. Wrapped(rx_fifo'.get_index) = Wrapped(rx_fifo.get_index)
    BY <1>2, <1>3
  <1> QED BY <1>1, <1>2, <1>4 DEF RxHeld

--------------------------------------------------------------------------------
(* The invariant holds                                                     *)

LEMMA InitImpliesInv == RxRingInit => RxInv
  <1> SUFFICES ASSUME RxRingInit PROVE RxInv
    OBVIOUS
  <1>1. RxTypes
    BY FifoLenIsPositive DEF RxRingInit, RxTypes
  <1>2. SlotsAreStamped
    BY FifoLenIsPositive DEF RxRingInit, SlotsAreStamped, Stamp, Back
  <1>3. RxHeld = 0
    BY FifoLenIsPositive DEF RxRingInit, RxHeld, Wrapped
  <1>4. HeldArrived /\ TakenIsOlder
    BY <1>3 DEF RxRingInit, HeldArrived, TakenIsOlder
  <1> QED BY <1>1, <1>2, <1>4, FifoLenIsPositive
    DEF RxRingInit, RxInv, InRing, FoundOne, SlotIsOldest, LoadedIsOldest, LeavesOlder, MaskedReads

LEMMA ByteReceivedKeepsInv == RxInv /\ ByteReceived => RxInv'
  <1> SUFFICES ASSUME RxInv, ByteReceived PROVE RxInv'
    OBVIOUS
  <1> USE DEF RxInv
  <1>1. /\ UNCHANGED <<masked, rx_pc, rx_ch, rx_get, rx_taken>>
        /\ rx_sent' = rx_sent + 1
        /\ masked => rx_pc = "idle"
        /\ rx_raced' = (rx_raced \/ (rx_pc = "read" /\ rx_fifo.put_index = rx_get))
    BY DEF ByteReceived, WriterMayRun
  <1>2. rx_sent \in Nat /\ RxHeld \in 0 .. FifoLen - 1
    BY HeldInRing DEF RxTypes
  <1>3. RxTypes'
    BY <1>1, <1>2, ByteIsPut DEF RxTypes
  <1>4. InRing' /\ HeldArrived'
    BY <1>1, <1>2, HeldAfterPut DEF InRing, HeldArrived
  <1>5. SlotsAreStamped'
    <2> SUFFICES ASSUME NEW s \in 0 .. FifoLen - 1
                 PROVE  rx_fifo'.buffer[s] = Stamp(rx_fifo'.put_index, s, rx_sent')
      BY DEF SlotsAreStamped
    <2> DEFINE put == rx_fifo.put_index
    <2>1. put \in 0 .. FifoLen - 1 /\ rx_fifo.buffer \in [0 .. FifoLen - 1 -> Nat]
      BY DEF RxTypes
    <2>2. /\ rx_fifo'.put_index = Wrapped(put + 1)
          /\ rx_fifo'.buffer[s] = IF s = put THEN rx_sent + 1 ELSE rx_fifo.buffer[s]
      BY <2>1, ByteIsPut
    <2>3. rx_fifo.buffer[s] = Stamp(put, s, rx_sent)
      BY DEF SlotsAreStamped
    <2>4. /\ Back(put, s) \in 1 .. FifoLen
          /\ Back(Wrapped(put + 1), s) = IF s = put THEN 1 ELSE Back(put, s) + 1
      BY <2>1, BackAfterPut
    <2> QED BY <1>1, <1>2, <2>2, <2>3, <2>4, FifoLenIsPositive DEF Stamp
  <1>6. FoundOne'
    BY <1>1, <1>2, HeldAfterPut, FifoLenIsPositive DEF FoundOne, InRing
  <1>7. RxHeld \in Nat /\ RxHeld' \in Nat /\ rx_sent - RxHeld <= rx_sent' - RxHeld'
    BY <1>1, <1>2, HeldAfterPut, FifoLenIsPositive
  <1> DEFINE behind == rx_sent - RxHeld
  <1>15. /\ behind \in Int /\ behind' \in Int /\ behind <= behind'
         /\ \A n \in Nat : n <= behind + 1 => n <= behind' + 1
    <2>1. rx_sent \in Nat /\ rx_sent' \in Nat
      BY <1>1, <1>2
    <2>2. behind \in Int /\ behind' \in Int
      BY <1>7, <2>1
    <2>3. behind <= behind'
      BY <1>7
    <2> HIDE DEF behind
    <2>4. ASSUME NEW a \in Int, NEW b \in Int, a <= b
          PROVE  \A n \in Nat : n <= a + 1 => n <= b + 1
      BY <2>4
    <2> QED BY <2>2, <2>3, <2>4
  <1> HIDE DEF behind
  <1>8. LoadedIsOldest'
    <2>1. rx_ch \in Nat /\ RxHeld \in Nat /\ RxHeld' \in Nat
      BY <1>2, <1>7 DEF RxTypes
    <2>2. /\ rx_pc \in {"advance", "store"} => rx_ch \in 1 .. rx_sent'
          /\ rx_pc = "advance" /\ ~rx_raced => rx_ch <= rx_sent' - RxHeld' + 1
      <3>1. rx_pc = "advance" /\ ~rx_raced => rx_ch <= behind + 1
        BY DEF LoadedIsOldest, behind
      <3>2. rx_pc = "advance" /\ ~rx_raced => rx_ch <= behind' + 1
        BY <1>15, <2>1, <3>1
      <3>3. rx_pc \in {"advance", "store"} => rx_ch \in 1 .. rx_sent'
        BY <1>1, <1>2, <2>1 DEF LoadedIsOldest
      <3> QED BY <3>2, <3>3 DEF behind
    <2>3. rx_raced => rx_raced'
      BY <1>1
    <2> QED BY <1>1, <2>2, <2>3 DEF LoadedIsOldest
  <1>9. /\ rx_fifo.buffer[rx_get] \in 0 .. rx_sent
        /\ rx_fifo'.buffer[rx_get] = IF rx_fifo.put_index = rx_get THEN rx_sent + 1
                                     ELSE rx_fifo.buffer[rx_get]
    <2>1. rx_get \in 0 .. FifoLen - 1 /\ rx_fifo.put_index \in 0 .. FifoLen - 1
      BY DEF RxTypes
    <2>2. rx_fifo.buffer[rx_get] = Stamp(rx_fifo.put_index, rx_get, rx_sent)
      BY <2>1 DEF SlotsAreStamped
    <2>3. rx_fifo.buffer[rx_get] \in 0 .. rx_sent
      BY <1>2, <2>1, <2>2, BackAfterPut DEF Stamp
    <2> QED BY <2>1, <2>3, ByteIsPut DEF RxTypes
  <1>10. LeavesOlder'
    <2> SUFFICES ASSUME rx_pc \in {"advance", "store"}
                 PROVE  /\ rx_fifo'.buffer[rx_get] >= 1
                        /\ ~rx_raced => rx_fifo'.buffer[rx_get] >= rx_ch
      BY <1>1 DEF LeavesOlder
    <2>1. rx_ch \in Nat /\ rx_ch <= rx_sent
      BY <1>2 DEF LoadedIsOldest
    <2>2. rx_fifo.buffer[rx_get] >= 1 /\ (~rx_raced => rx_fifo.buffer[rx_get] >= rx_ch)
      BY DEF LeavesOlder
    <2> QED BY <1>2, <1>9, <2>1, <2>2
  <1>11. SlotIsOldest'
    <2> SUFFICES ASSUME rx_pc = "read"
                 PROVE  /\ rx_fifo'.buffer[rx_get] >= 1
                        /\ ~rx_raced' =>
                             /\ rx_fifo'.buffer[rx_get] <= rx_sent' - RxHeld' + 1
                             /\ \A i \in 1 .. Len(rx_taken) :
                                  rx_taken[i] < rx_fifo'.buffer[rx_get]
      BY <1>1 DEF SlotIsOldest
    <2>1. /\ rx_fifo.buffer[rx_get] >= 1
          /\ ~rx_raced =>
               /\ rx_fifo.buffer[rx_get] <= rx_sent - RxHeld + 1
               /\ \A i \in 1 .. Len(rx_taken) : rx_taken[i] < rx_fifo.buffer[rx_get]
      BY DEF SlotIsOldest
    <2>2. CASE rx_fifo.put_index = rx_get
      <3>1. rx_raced'
        BY <1>1, <2>2
      <3> QED BY <1>2, <1>9, <2>2, <3>1
    <2>3. CASE rx_fifo.put_index # rx_get
      <3>1. rx_fifo'.buffer[rx_get] = rx_fifo.buffer[rx_get] /\ rx_raced' = rx_raced
        BY <1>1, <1>9, <2>3 DEF RxTypes
      <3>2. ASSUME ~rx_raced PROVE rx_fifo.buffer[rx_get] <= rx_sent' - RxHeld' + 1
        <4>1. rx_fifo.buffer[rx_get] \in Nat /\ rx_fifo.buffer[rx_get] <= behind + 1
          BY <1>2, <1>9, <2>1, <3>2 DEF behind
        <4>2. rx_fifo.buffer[rx_get] <= behind' + 1
          BY <1>15, <4>1
        <4> QED BY <4>2 DEF behind
      <3> QED BY <2>1, <3>1, <3>2
    <2> QED BY <2>2, <2>3
  <1>12. TakenIsOlder'
    <2> SUFFICES ASSUME NEW i \in 1 .. Len(rx_taken)
                 PROVE  /\ rx_taken[i] \in 1 .. rx_sent'
                        /\ ~rx_raced' =>
                             /\ rx_taken[i] <= rx_sent' - RxHeld'
                             /\ i > 1 => rx_taken[i - 1] < rx_taken[i]
                             /\ rx_pc \in {"advance", "store"} => rx_taken[i] < rx_ch
      BY <1>1 DEF TakenIsOlder
    <2>1. rx_taken[i] \in 1 .. rx_sent
      BY DEF TakenIsOlder
    <2>2. rx_raced \/ /\ rx_taken[i] <= rx_sent - RxHeld
                      /\ i > 1 => rx_taken[i - 1] < rx_taken[i]
                      /\ rx_pc \in {"advance", "store"} => rx_taken[i] < rx_ch
      BY DEF TakenIsOlder
    <2>3. rx_raced => rx_raced'
      BY <1>1
    <2>4. rx_taken[i] \in 1 .. rx_sent'
      BY <1>1, <1>2, <2>1
    <2>5. ~rx_raced => rx_taken[i] <= rx_sent' - RxHeld'
      <3>1. ~rx_raced => rx_taken[i] <= behind
        BY <2>2 DEF behind
      <3>2. ~rx_raced => rx_taken[i] <= behind'
        BY <1>2, <1>15, <2>1, <3>1
      <3> QED BY <3>2 DEF behind
    <2> QED BY <2>2, <2>3, <2>4, <2>5
  <1>13. MaskedReads'
    BY <1>1 DEF MaskedReads
  <1> QED BY <1>3, <1>4, <1>5, <1>6, <1>8, <1>10, <1>11, <1>12, <1>13

\* Steps of the reader that only look at the ring.
LEMMA LookingKeepsInv ==
  RxInv /\ (CompareIndices \/ CompareIsFull \/ LoadSlotIndex \/ LoadChar \/ LoadGetIndex) => RxInv'
  <1> SUFFICES ASSUME RxInv,
                      \/ CompareIndices \/ CompareIsFull
                      \/ LoadSlotIndex \/ LoadChar \/ LoadGetIndex
               PROVE  RxInv'
    OBVIOUS
  <1> USE DEF RxInv
  <1>1. UNCHANGED <<masked, rx_fifo, rx_sent, rx_taken, rx_raced>>
    BY DEF CompareIndices, CompareIsFull, LoadSlotIndex, LoadChar, LoadGetIndex, rx_shared
  <1>2. rx_sent \in Nat /\ RxHeld \in 0 .. FifoLen - 1 /\ RxHeld <= rx_sent
    BY HeldInRing DEF RxTypes, HeldArrived
  <1>3. RxHeld' = RxHeld /\ SlotsAreStamped' /\ HeldArrived'
    BY <1>1 DEF RxHeld, SlotsAreStamped, HeldArrived
  <1> DEFINE get == rx_fifo.get_index
  <1>4. ASSUME rx_pc \in {"load", "read", "advance"}
        PROVE  RxHeld > 0 /\ get \in 0 .. FifoLen - 1 /\ rx_fifo.buffer[get] = rx_sent + 1 - RxHeld
    <2>1. RxHeld > 0 /\ get \in 0 .. FifoLen - 1 /\ rx_fifo.put_index \in 0 .. FifoLen - 1
      BY <1>4, FifoLenIsPositive DEF FoundOne, InRing, RxTypes
    <2>2. Back(rx_fifo.put_index, get) = RxHeld
      BY <2>1, FifoLenIsPositive DEF Back, RxHeld, Wrapped
    <2>3. rx_fifo.buffer[get] = Stamp(rx_fifo.put_index, get, rx_sent)
      BY <2>1 DEF SlotsAreStamped
    <2> QED BY <1>2, <2>1, <2>2, <2>3 DEF Stamp
  <1>5. CASE CompareIndices
    <2>1. rx_pc = "idle" /\ rx_pc' \in {"equal", "load"} /\ UNCHANGED <<rx_ch, rx_get>>
      BY <1>5 DEF CompareIndices
    <2>2. rx_pc' = "load" => RxHeld > 0
      BY <1>5, <2>1, FifoLenIsPositive DEF CompareIndices, RxHeld, Wrapped, RxTypes, InRing
    <2> QED BY <1>1, <1>3, <2>1, <2>2
      DEF RxTypes, InRing, FoundOne, SlotIsOldest, LoadedIsOldest, LeavesOlder, TakenIsOlder,
          MaskedReads
  <1>6. CASE CompareIsFull
    <2>1. /\ rx_pc = "equal"
          /\ rx_pc' = IF rx_fifo.is_full THEN "load" ELSE "idle"
          /\ UNCHANGED <<rx_ch, rx_get>>
      BY <1>6 DEF CompareIsFull
    <2> QED BY <1>1, <1>3, <2>1
      DEF RxTypes, InRing, FoundOne, SlotIsOldest, LoadedIsOldest, LeavesOlder, TakenIsOlder,
          MaskedReads
  <1>7. CASE LoadSlotIndex
    <2>1. rx_pc = "load" /\ rx_pc' = "read" /\ rx_ch' = rx_ch /\ rx_get' = get
      BY <1>7 DEF LoadSlotIndex
    <2>2. RxHeld > 0 /\ get \in 0 .. FifoLen - 1 /\ rx_fifo.buffer[get] = rx_sent + 1 - RxHeld
      BY <1>4, <2>1
    <2>3. SlotIsOldest'
      <3> SUFFICES /\ rx_fifo.buffer[get] >= 1
                   /\ ~rx_raced =>
                        /\ rx_fifo.buffer[get] <= rx_sent - RxHeld + 1
                        /\ \A i \in 1 .. Len(rx_taken) : rx_taken[i] < rx_fifo.buffer[get]
        BY <1>1, <1>3, <2>1 DEF SlotIsOldest
      <3>1. \A i \in 1 .. Len(rx_taken) :
              rx_taken[i] \in 1 .. rx_sent /\ (~rx_raced => rx_taken[i] <= rx_sent - RxHeld)
        BY DEF TakenIsOlder
      <3> QED BY <1>2, <2>2, <3>1
    <2>4. RxTypes'
      BY <1>1, <2>1, <2>2 DEF RxTypes
    <2> QED BY <1>1, <1>3, <2>1, <2>2, <2>3, <2>4
      DEF InRing, FoundOne, LoadedIsOldest, LeavesOlder, TakenIsOlder, MaskedReads
  <1>8. CASE LoadChar
    <2> DEFINE b == rx_fifo.buffer[rx_get]
    <2>1. rx_pc = "read" /\ rx_pc' = "advance" /\ rx_get' = rx_get /\ rx_ch' = b
      BY <1>8 DEF LoadChar
    <2>2. rx_get \in 0 .. FifoLen - 1 /\ b = Stamp(rx_fifo.put_index, rx_get, rx_sent)
      BY DEF RxTypes, SlotsAreStamped
    <2>3. b \in 0 .. rx_sent
      <3>1. Back(rx_fifo.put_index, rx_get) \in 1 .. FifoLen
        BY <2>2, BackAfterPut DEF RxTypes
      <3> QED BY <1>2, <2>2, <3>1, FifoLenIsPositive DEF Stamp
    <2>4. /\ b >= 1
          /\ ~rx_raced => b <= rx_sent - RxHeld + 1
          /\ ~rx_raced => \A i \in 1 .. Len(rx_taken) : rx_taken[i] < b
      BY <2>1 DEF SlotIsOldest
    <2> HIDE DEF b
    <2>5. LoadedIsOldest'
      BY <1>1, <1>2, <1>3, <2>1, <2>3, <2>4 DEF LoadedIsOldest
    <2>6. TakenIsOlder'
      BY <1>1, <1>2, <1>3, <2>1, <2>4 DEF TakenIsOlder
    <2>7. RxTypes'
      BY <1>1, <1>2, <2>1, <2>3 DEF RxTypes
    <2>8. LeavesOlder'
      BY <1>1, <2>1, <2>3, <2>4 DEF LeavesOlder, b
    <2>9. MaskedReads'
      BY <1>1, <1>3, <2>1 DEF MaskedReads, b
    <2> QED BY <1>1, <1>3, <2>1, <2>5, <2>6, <2>7, <2>8, <2>9 DEF InRing, FoundOne, SlotIsOldest
  <1>9. CASE LoadGetIndex
    <2>1. rx_pc = "advance" /\ rx_pc' = "store" /\ rx_ch' = rx_ch /\ rx_get' \in {rx_get, get}
      BY <1>9 DEF LoadGetIndex
    <2>2. RxHeld > 0 /\ get \in 0 .. FifoLen - 1 /\ rx_fifo.buffer[get] = rx_sent + 1 - RxHeld
      BY <1>4, <2>1
    <2>3. LeavesOlder'
      <3>1. CASE rx_get' = rx_get
        BY <1>1, <2>1, <3>1 DEF LeavesOlder
      <3>2. CASE rx_get' = get
        <4>1. rx_ch \in 1 .. rx_sent /\ (~rx_raced => rx_ch <= rx_sent - RxHeld + 1)
          BY <2>1 DEF LoadedIsOldest
        <4> QED BY <1>1, <1>2, <2>1, <2>2, <3>2, <4>1 DEF LeavesOlder
      <3> QED BY <2>1, <3>1, <3>2
    <2>4. TakenIsOlder'
      BY <1>1, <1>3, <2>1 DEF TakenIsOlder
    <2>5. RxTypes'
      BY <1>1, <2>1, <2>2 DEF RxTypes
    <2> QED BY <1>1, <1>3, <2>1, <2>2, <2>3, <2>4, <2>5
      DEF InRing, FoundOne, SlotIsOldest, LoadedIsOldest, MaskedReads
  <1> QED BY <1>5, <1>6, <1>7, <1>8, <1>9

\* Storing the index the reader loaded puts the ring behind the slot it loaded,
\* wherever the writer has been since.
LEMMA HeldAfterStore ==
  ASSUME RxInv, StoreGetIndex
  PROVE  /\ RxHeld' \in 0 .. FifoLen - 1
         /\ RxHeld' = Back(rx_fifo.put_index, rx_get) - 1
         /\ rx_sent - RxHeld' = rx_fifo.buffer[rx_get]
         /\ RxHeld' < rx_sent
  <1> DEFINE put == rx_fifo.put_index
  <1>1. /\ put \in 0 .. FifoLen - 1 /\ rx_get \in 0 .. FifoLen - 1
        /\ rx_sent \in Nat /\ rx_ch \in Nat /\ rx_fifo.buffer \in [0 .. FifoLen - 1 -> Nat]
    BY DEF RxInv, RxTypes
  <1>2. rx_fifo'.get_index = rx_get + 1 /\ rx_fifo'.put_index = put
    BY DEF StoreGetIndex, RxInv, RxTypes
  <1>3. RxHeld' = Back(put, rx_get) - 1 /\ Back(put, rx_get) \in 1 .. FifoLen
    <2>1. RxHeld' = IF Wrapped(rx_get + 1) <= put THEN put - Wrapped(rx_get + 1)
                    ELSE put - Wrapped(rx_get + 1) + FifoLen
      BY <1>2 DEF RxHeld, Wrapped
    <2> QED BY <1>1, <2>1, HeldBehindSlot, BackAfterPut
  <1>4. rx_fifo.buffer[rx_get] >= 1
    BY DEF StoreGetIndex, RxInv, LeavesOlder
  <1>5. rx_fifo.buffer[rx_get] = Stamp(put, rx_get, rx_sent)
    BY <1>1 DEF RxInv, SlotsAreStamped
  <1> QED BY <1>1, <1>3, <1>4, <1>5, FifoLenIsPositive DEF Stamp

LEMMA StoreGetIndexKeepsInv == RxInv /\ StoreGetIndex => RxInv'
  <1> SUFFICES ASSUME RxInv, StoreGetIndex PROVE RxInv'
    OBVIOUS
  <1>1. /\ rx_pc = "store" /\ rx_pc' = "wrap"
        /\ UNCHANGED <<masked, rx_sent, rx_ch, rx_get, rx_raced>>
        /\ rx_taken' = Append(rx_taken, rx_ch)
        /\ rx_fifo' = [rx_fifo EXCEPT !.get_index = rx_get + 1]
    BY DEF StoreGetIndex
  <1>2. rx_taken \in Seq(Nat) /\ rx_ch \in Nat /\ rx_get \in 0 .. FifoLen - 1 /\ rx_sent \in Nat
    BY DEF RxInv, RxTypes
  <1>3. rx_get + 1 \in 0 .. FifoLen
    BY <1>2, FifoLenIsPositive
  <1>4. RxTypes'
    <2>1. rx_taken' \in Seq(Nat)
      BY <1>1, <1>2
    <2> QED BY <1>1, <1>2, <1>3, <2>1 DEF RxInv, RxTypes
  <1>5. SlotsAreStamped'
    BY <1>1 DEF RxInv, RxTypes, SlotsAreStamped
  <1>6. HeldArrived'
    BY <1>1, <1>2, HeldAfterStore DEF HeldArrived
  <1>7. TakenIsOlder'
    <2> DEFINE left == rx_fifo.buffer[rx_get]
               len  == Len(rx_taken)
    <2>1. left \in Nat /\ rx_ch \in 1 .. rx_sent /\ (~rx_raced => left >= rx_ch)
      BY <1>1, <1>2 DEF RxInv, RxTypes, LeavesOlder, LoadedIsOldest
    <2>2. /\ len \in Nat /\ Len(rx_taken') = len + 1
          /\ \A i \in 1 .. len : rx_taken'[i] = rx_taken[i]
          /\ rx_taken'[len + 1] = rx_ch
      BY <1>1, <1>2
    <2>3. \A j \in 1 .. len :
            /\ rx_taken[j] \in 1 .. rx_sent
            /\ ~rx_raced => rx_taken[j] < rx_ch
            /\ ~rx_raced /\ j > 1 => rx_taken[j - 1] < rx_taken[j]
      BY <1>1 DEF RxInv, TakenIsOlder
    <2>4. rx_sent - RxHeld' = left
      BY HeldAfterStore
    <2> HIDE DEF left, len
    <2> SUFFICES ASSUME NEW i \in 1 .. len + 1
                 PROVE  /\ rx_taken'[i] \in 1 .. rx_sent
                        /\ ~rx_raced => /\ rx_taken'[i] <= left
                                        /\ i > 1 => rx_taken'[i - 1] < rx_taken'[i]
      BY <1>1, <2>2, <2>4 DEF TakenIsOlder
    <2>5. CASE i # len + 1
      <3>1. i \in 1 .. len /\ (i > 1 => i - 1 \in 1 .. len)
        BY <2>2, <2>5
      <3>2. rx_taken'[i] = rx_taken[i] /\ (i > 1 => rx_taken'[i - 1] = rx_taken[i - 1])
        BY <2>2, <3>1
      <3> QED BY <1>2, <2>1, <2>3, <3>1, <3>2
    <2>6. CASE i = len + 1
      <3>1. i > 1 => i - 1 \in 1 .. len /\ rx_taken'[i - 1] = rx_taken[i - 1]
        BY <2>2, <2>6
      <3> QED BY <1>2, <2>1, <2>2, <2>3, <2>6, <3>1
    <2> QED BY <2>5, <2>6
  <1> QED BY <1>1, <1>4, <1>5, <1>6, <1>7
    DEF RxInv, InRing, FoundOne, SlotIsOldest, LoadedIsOldest, LeavesOlder, MaskedReads

\* Wrapping and clearing the flag do not change what is held.
LEMMA FinishingKeepsInv == RxInv /\ (WrapGetIndex \/ ClearIsFull) => RxInv'
  <1> SUFFICES ASSUME RxInv, WrapGetIndex \/ ClearIsFull PROVE RxInv'
    OBVIOUS
  <1>1. UNCHANGED <<masked, rx_sent, rx_ch, rx_get, rx_taken, rx_raced>>
    BY DEF WrapGetIndex, ClearIsFull
  <1>2. /\ UNCHANGED <<rx_fifo.buffer, rx_fifo.put_index>>
        /\ RxTypes'
        /\ InRing'
        /\ RxHeld' = RxHeld
        /\ rx_pc' \in {"clear", "idle"}
        /\ rx_pc' = "idle" => ~rx_fifo'.is_full
    <2>1. CASE WrapGetIndex
      <3>1. /\ rx_fifo' = [rx_fifo EXCEPT !.get_index = Wrapped(rx_fifo.get_index)]
            /\ rx_pc' = "clear"
        BY <2>1 DEF WrapGetIndex
      <3>2. /\ Wrapped(rx_fifo.get_index) \in 0 .. FifoLen
            /\ Wrapped(rx_fifo.get_index) < FifoLen
        BY FifoLenIsPositive DEF RxInv, RxTypes, Wrapped
      <3>3. /\ rx_fifo'.get_index = Wrapped(rx_fifo.get_index)
            /\ UNCHANGED <<rx_fifo.buffer, rx_fifo.put_index>>
        BY <3>1 DEF RxInv, RxTypes
      <3>4. RxHeld' = RxHeld
        BY <2>1, HeldOtherwise DEF RxInv
      <3>5. RxTypes'
        BY <1>1, <3>1, <3>2 DEF RxInv, RxTypes
      <3> QED BY <3>1, <3>2, <3>3, <3>4, <3>5 DEF InRing
    <2>2. CASE ClearIsFull
      <3>1. /\ rx_fifo' = [rx_fifo EXCEPT !.is_full = FALSE]
            /\ rx_pc = "clear" /\ rx_pc' = "idle"
        BY <2>2 DEF ClearIsFull
      <3>2. UNCHANGED <<rx_fifo.buffer, rx_fifo.put_index, rx_fifo.get_index>> /\ ~rx_fifo'.is_full
        BY <3>1 DEF RxInv, RxTypes
      <3>3. RxTypes'
        BY <1>1, <3>1 DEF RxInv, RxTypes
      <3> QED BY <3>1, <3>2, <3>3 DEF RxInv, InRing, RxHeld
    <2> QED BY <2>1, <2>2
  <1> QED BY <1>1, <1>2
    DEF RxInv, SlotsAreStamped, HeldArrived, FoundOne, SlotIsOldest, LoadedIsOldest,
        LeavesOlder, TakenIsOlder, MaskedReads

LEMMA StepKeepsInv == RxInv /\ [RxRingNext]_rx_vars => RxInv'
  <1> SUFFICES ASSUME RxInv, [RxRingNext]_rx_vars PROVE RxInv'
    OBVIOUS
  <1>1. CASE UNCHANGED rx_vars
    BY <1>1 DEF rx_vars, RxInv, RxTypes, InRing, SlotsAreStamped, HeldArrived, FoundOne, RxHeld,
                SlotIsOldest, LoadedIsOldest, LeavesOlder, TakenIsOlder, MaskedReads
  <1> QED BY <1>1, ByteReceivedKeepsInv, LookingKeepsInv, StoreGetIndexKeepsInv, FinishingKeepsInv
    DEF RxRingNext, sdk_uart_read, ble_read

LEMMA InvAlways == RxRingSpec => []RxInv
  BY InitImpliesInv, StepKeepsInv, PTL DEF RxRingSpec

--------------------------------------------------------------------------------
(* Theorems                                                                *)

\* What is held has the stamps of the newest bytes.
LEMMA ContentsAreNewest ==
  ASSUME RxInv
  PROVE  \A i \in 1 .. RxHeld : RxContents[i] = rx_sent - RxHeld + i
  <1> SUFFICES ASSUME NEW i \in 1 .. RxHeld PROVE RxContents[i] = rx_sent - RxHeld + i
    OBVIOUS
  <1> DEFINE put  == rx_fifo.put_index
             get  == Wrapped(rx_fifo.get_index)
             slot == RxSlot(i)
  <1>1. /\ put \in 0 .. FifoLen - 1 /\ get \in 0 .. FifoLen - 1 /\ rx_sent \in Nat
        /\ RxHeld \in 0 .. FifoLen - 1 /\ RxHeld <= rx_sent
    BY HeldInRing, FifoLenIsPositive DEF RxInv, RxTypes, HeldArrived, Wrapped
  <1>2. slot \in 0 .. FifoLen - 1 /\ Back(put, slot) = RxHeld - i + 1
    BY <1>1, FifoLenIsPositive DEF Back, RxHeld, RxSlot
  <1>3. rx_fifo.buffer[slot] = Stamp(put, slot, rx_sent)
    BY <1>2 DEF RxInv, SlotsAreStamped
  <1>4. RxContents[i] = rx_fifo.buffer[slot]
    BY DEF RxContents
  <1> QED BY <1>1, <1>2, <1>3, <1>4 DEF Stamp

\* The rings of the UART driver, the CAN driver and unibus hold the newest bytes
\* in order, for every length of the ring and wherever a byte arrives between two
\* accesses of the reader; and they give them to the reader in order until a byte
\* is stored into the slot that the reader is about to read, which takes a reader
\* that does not mask.
THEOREM KeepsNewest == RxRingSpec => []RxKeepsNewest
  <1>1. RxInv => RxKeepsNewest
    BY ContentsAreNewest DEF RxKeepsNewest, RxInv, TakenIsOlder, MaskedReads
  <1> QED BY <1>1, InvAlways, PTL

--------------------------------------------------------------------------------
(* The refinement                                                          *)

\* The newest n of sent bytes.
Newest(sent, n) == [i \in 1 .. n |-> sent - n + i]

\* What LossyFifo's steps make of them.
LEMMA NewestBytes ==
  ASSUME NEW sent \in Nat, NEW n \in 0 .. sent
  PROVE  /\ Newest(sent, n) \in Seq(Nat)
         /\ Len(Newest(sent, n)) = n
         /\ Append(Newest(sent, n), sent + 1) = Newest(sent + 1, n + 1)
         /\ n > 0 => /\ Newest(sent, n) # <<>>
                     /\ Head(Newest(sent, n)) = sent - n + 1
                     /\ Tail(Newest(sent, n)) = Newest(sent, n - 1)
                     /\ Append(Tail(Newest(sent, n)), sent + 1) = Newest(sent + 1, n)
  <1>1. \A k \in 0 .. sent : Newest(sent, k) \in Seq(Nat) /\ Len(Newest(sent, k)) = k
    BY DEF Newest
  <1>2. \A k \in 0 .. sent : Append(Newest(sent, k), sent + 1) = Newest(sent + 1, k + 1)
    <2> SUFFICES ASSUME NEW k \in 0 .. sent
                 PROVE  Append(Newest(sent, k), sent + 1) = Newest(sent + 1, k + 1)
      OBVIOUS
    <2> DEFINE longer == Append(Newest(sent, k), sent + 1)
    <2>1. longer \in Seq(Nat) /\ Len(longer) = k + 1
      BY <1>1
    <2>2. Newest(sent + 1, k + 1) \in Seq(Nat) /\ Len(Newest(sent + 1, k + 1)) = k + 1
      BY DEF Newest
    <2>3. ASSUME NEW i \in 1 .. k + 1 PROVE longer[i] = Newest(sent + 1, k + 1)[i]
      BY <1>1 DEF Newest
    <2> QED BY <2>1, <2>2, <2>3
  <1>3. ASSUME n > 0
        PROVE  /\ Newest(sent, n) # <<>>
               /\ Head(Newest(sent, n)) = sent - n + 1
               /\ Tail(Newest(sent, n)) = Newest(sent, n - 1)
    <2>1. Newest(sent, n) # <<>> /\ Head(Newest(sent, n)) = sent - n + 1
      BY <1>1, <1>3 DEF Newest
    <2> DEFINE rest == Tail(Newest(sent, n))
    <2>2. rest \in Seq(Nat) /\ Len(rest) = n - 1
      BY <1>1, <1>3, <2>1
    <2>3. Newest(sent, n - 1) \in Seq(Nat) /\ Len(Newest(sent, n - 1)) = n - 1
      BY <1>1, <1>3
    <2>4. ASSUME NEW i \in 1 .. n - 1 PROVE rest[i] = Newest(sent, n - 1)[i]
      BY <1>1, <1>3, <2>1 DEF Newest
    <2> QED BY <2>1, <2>2, <2>3, <2>4
  <1>4. n > 0 => Append(Newest(sent, n - 1), sent + 1) = Newest(sent + 1, n)
    BY <1>2
  <1> QED BY <1>1, <1>2, <1>3, <1>4

LEMMA ContentsAreNewestSeq ==
  RxInv => RxContents = Newest(rx_sent, RxHeld) /\ rx_sent \in Nat /\ RxHeld \in 0 .. rx_sent
  <1> SUFFICES ASSUME RxInv
               PROVE  /\ RxContents = Newest(rx_sent, RxHeld)
                      /\ rx_sent \in Nat /\ RxHeld \in 0 .. rx_sent
    OBVIOUS
  <1>1. RxContents = Newest(rx_sent, RxHeld)
    BY ContentsAreNewest DEF RxContents, Newest
  <1> QED BY <1>1, HeldInRing DEF RxInv, RxTypes, HeldArrived

\* So they are after a step.
LEMMA ContentsAreNewestNext == RxInv' => RxContents' = Newest(rx_sent', RxHeld')
  <1> DEFINE areNewest == RxContents = Newest(rx_sent, RxHeld)
  <1>1. RxInv => areNewest
    BY ContentsAreNewestSeq
  <1> HIDE DEF areNewest
  <1>2. RxInv' => areNewest'
    BY <1>1, PTL
  <1> QED BY <1>2 DEF areNewest

\* A byte that arrives while interrupts are not masked is received.
LEMMA ByteReceivedIsReceive ==
  ASSUME RxInv, RxInv', masked, ByteReceived
  PROVE  RxPromise!Receive(rx_sent + 1) /\ rx_sent + 1 \in 1 .. RxBytes
  <1>1. /\ masked' /\ rx_sent' = rx_sent + 1 /\ rx_taken' = rx_taken /\ rx_sent < RxBytes
        /\ rx_fifo.get_index < FifoLen
    BY DEF ByteReceived, WriterMayRun, RxInv, InRing
  <1>2. /\ RxContents = Newest(rx_sent, RxHeld)
        /\ rx_sent \in Nat /\ RxHeld \in 0 .. rx_sent
        /\ RxHeld \in 0 .. FifoLen - 1
    BY ContentsAreNewestSeq, HeldInRing DEF RxInv
  <1>3. RxHeld' = IF RxHeld < FifoLen - 1 THEN RxHeld + 1 ELSE RxHeld
    BY <1>1, HeldAfterPut DEF RxInv
  <1>4. RxContents' = Newest(rx_sent + 1, IF RxHeld < FifoLen - 1 THEN RxHeld + 1 ELSE RxHeld)
    BY <1>1, <1>3, ContentsAreNewestNext
  <1>5. /\ Len(RxContents) = RxHeld
        /\ Append(RxContents, rx_sent + 1) = Newest(rx_sent + 1, RxHeld + 1)
        /\ RxHeld > 0 => Append(Tail(RxContents), rx_sent + 1) = Newest(rx_sent + 1, RxHeld)
    BY <1>2, NewestBytes
  <1>6. RxContents' = IF Len(RxContents) < FifoLen - 1 THEN Append(RxContents, rx_sent + 1)
                      ELSE Append(Tail(RxContents), rx_sent + 1)
    <2>1. CASE RxHeld < FifoLen - 1
      BY <1>4, <1>5, <2>1
    <2>2. CASE ~(RxHeld < FifoLen - 1)
      <3>1. RxHeld > 0
        BY <1>2, <2>2, FifoLenIsPositive
      <3> QED BY <1>4, <1>5, <2>2, <3>1
    <2> QED BY <2>1, <2>2
  <1>7. RxPromise!Receive(rx_sent + 1)
    BY <1>1, <1>6 DEF RxPromise!Receive
  <1>8. rx_sent + 1 \in 1 .. RxBytes
    BY <1>1, <1>2, FifoLenIsPositive
  <1> QED BY <1>7, <1>8

\* With the mask the reader takes the byte it loaded, the oldest.
LEMMA StoreGetIndexIsTake ==
  ASSUME RxInv, RxInv', masked, StoreGetIndex
  PROVE  RxPromise!Take
  <1>1. /\ masked' /\ rx_sent' = rx_sent /\ rx_taken' = Append(rx_taken, rx_ch)
        /\ rx_get = rx_fifo.get_index /\ RxHeld > 0 /\ rx_ch = rx_fifo.buffer[rx_get]
    BY DEF StoreGetIndex, RxInv, MaskedReads
  <1>2. /\ RxContents = Newest(rx_sent, RxHeld)
        /\ rx_sent \in Nat /\ RxHeld \in 0 .. rx_sent
    BY ContentsAreNewestSeq
  <1>3. RxContents' = Newest(rx_sent', RxHeld')
    BY ContentsAreNewestNext
  <1>4. RxHeld' = RxHeld - 1
    <2>1. /\ rx_get \in 0 .. FifoLen - 1 /\ rx_fifo.put_index \in 0 .. FifoLen - 1
      BY DEF RxInv, RxTypes
    <2>2. RxHeld = Back(rx_fifo.put_index, rx_get)
      BY <1>1, <2>1, FifoLenIsPositive DEF RxHeld, Back, Wrapped
    <2> QED BY <2>2, HeldAfterStore
  <1>5. rx_sent - RxHeld' = rx_ch
    BY <1>1, HeldAfterStore
  <1>6. rx_ch = rx_sent - RxHeld + 1
    BY <1>2, <1>4, <1>5
  <1>7. RxContents # <<>> /\ rx_ch = Head(RxContents) /\ RxContents' = Tail(RxContents)
    BY <1>1, <1>2, <1>3, <1>4, <1>6, NewestBytes
  <1> QED BY <1>1, <1>7 DEF RxPromise!Take

\* With the mask the receive ring is a queue of FifoLen - 1 bytes that loses only
\* its oldest byte, and only when it is full, for every length of the ring.
THEOREM KeepsPromise == RxRingSpec => RxIsFifo
  <1> DEFINE promised == <<IF masked THEN RxContents ELSE <<>>, IF masked THEN rx_taken ELSE <<>>>>
  <1>1. RxRingInit => RxPromise!Init
    <2> SUFFICES ASSUME RxRingInit PROVE RxPromise!Init
      OBVIOUS
    <2>1. RxHeld = 0 /\ rx_taken = <<>>
      BY FifoLenIsPositive DEF RxRingInit, RxHeld, Wrapped
    <2>2. RxContents = <<>>
      BY <2>1 DEF RxContents
    <2> QED BY <2>1, <2>2 DEF RxPromise!Init
  <1>2. RxInv /\ RxInv' /\ [RxRingNext]_rx_vars => [RxPromise!Next]_promised
    <2> SUFFICES ASSUME RxInv, RxInv', [RxRingNext]_rx_vars PROVE [RxPromise!Next]_promised
      OBVIOUS
    <2>1. masked' = masked
      BY DEF RxRingNext, ByteReceived, sdk_uart_read, ble_read, CompareIndices, CompareIsFull,
             LoadSlotIndex, LoadChar, LoadGetIndex, StoreGetIndex, WrapGetIndex, ClearIsFull,
             rx_shared, rx_vars
    <2>2. CASE ~masked
      BY <2>1, <2>2
    <2>3. CASE masked
      <3>1. CASE ByteReceived
        BY <2>3, <3>1, ByteReceivedIsReceive DEF RxPromise!Next
      <3>2. CASE StoreGetIndex
        BY <2>3, <3>2, StoreGetIndexIsTake DEF RxPromise!Next
      <3>3. CASE \/ CompareIndices \/ CompareIsFull \/ LoadSlotIndex \/ LoadChar
                 \/ LoadGetIndex \/ WrapGetIndex \/ ClearIsFull \/ UNCHANGED rx_vars
        <4>1. RxHeld' = RxHeld /\ UNCHANGED <<masked, rx_sent, rx_taken>>
          BY <3>3, HeldOtherwise DEF RxInv
        <4>2. RxContents = Newest(rx_sent, RxHeld) /\ RxContents' = Newest(rx_sent', RxHeld')
          BY ContentsAreNewestSeq, ContentsAreNewestNext
        <4>3. UNCHANGED promised
          BY <4>1, <4>2
        <4> QED BY <4>3
      <3> QED BY <2>3, <3>1, <3>2, <3>3 DEF RxRingNext, sdk_uart_read, ble_read
    <2> QED BY <2>2, <2>3
  <1> QED BY <1>1, <1>2, InvAlways, PTL DEF RxRingSpec, RxIsFifo, RxPromise!Spec

--------------------------------------------------------------------------------
(* The ring buffer: the parts of its inductive invariant                   *)

Slots == 0 .. BufSize - 1

Rings == [buf : [Slots -> Nat], get_index : Slots, put_index : Slots, is_full : BOOLEAN]

RbTypes ==
  /\ rb_masked \in BOOLEAN
  /\ rb \in Rings
  /\ rb_sent \in Nat
  /\ rb_pc \in {"idle", "compare", "load", "read", "advance", "store", "clear"}
  /\ rb_get \in Slots
  /\ rb_taken \in Seq(Nat)
  /\ rb_raced \in BOOLEAN

\* How long ago slot s was written, counted in slots: the slot before put_index
\* last, the slot at put_index a whole round ago.
Age(put, s) == IF s < put THEN put - s ELSE put - s + BufSize

\* How many slots hold bytes.  Behind the store of get_index is_full means
\* nothing any more: it is about to be cleared.
Gap(get, put) == IF put >= get THEN put - get ELSE BufSize - (get - put)

Held(r, pc) == IF r.is_full /\ pc # "clear" THEN BufSize ELSE Gap(r.get_index, r.put_index)

\* Only a full ring is marked full.
FullIsFull == rb.is_full /\ rb_pc # "clear" => rb.put_index = rb.get_index

\* Going round from put_index, a slot has a newer byte than those before.
SlotsAreSorted ==
  /\ \A s \in Slots : rb.buf[s] <= rb_sent
  /\ \A s, t \in Slots :
       Age(rb.put_index, s) > Age(rb.put_index, t) /\ rb.buf[s] > 0 => rb.buf[s] < rb.buf[t]

\* What is held are bytes that were put, up to a race behind those taken.
HeldIsNewer ==
  \A s \in Slots :
    Age(rb.put_index, s) <= Held(rb, rb_pc) =>
      /\ rb.buf[s] > 0
      /\ ~rb_raced =>
           \A i \in 1 .. Len(rb_taken) :
             IF rb_pc \in {"advance", "store"} THEN rb_taken[i] <= rb.buf[s]
                                               ELSE rb_taken[i] < rb.buf[s]

TakenWerePut == \A i \in 1 .. Len(rb_taken) : rb_taken[i] \in 1 .. rb_sent

\* Where the reader has found a byte there is one.
FoundByte == rb_pc \in {"load", "read", "advance"} => Held(rb, rb_pc) > 0

\* The slot whose index the reader has loaded was written, and up to a race its
\* byte is newer than those taken and no newer than any that is held.
SlotIsNext ==
  rb_pc = "read" =>
    /\ rb.buf[rb_get] > 0
    /\ ~rb_raced =>
         /\ \A i \in 1 .. Len(rb_taken) : rb_taken[i] < rb.buf[rb_get]
         /\ \A s \in Slots :
              Age(rb.put_index, s) <= Held(rb, rb_pc) => rb.buf[rb_get] <= rb.buf[s]

\* The slot it leaves holds the byte it took or, overwritten, a newer one.
LeavesTaken ==
  rb_pc \in {"advance", "store"} =>
    /\ rb.buf[rb_get] > 0
    /\ ~rb_raced => \A i \in 1 .. Len(rb_taken) : rb_taken[i] <= rb.buf[rb_get]

\* With the mask the index the reader loaded is that of the ring.
MaskedLoad ==
  rb_masked =>
    /\ ~rb_raced
    /\ rb_pc \in {"read", "advance", "store"} => rb_get = rb.get_index /\ Held(rb, rb_pc) > 0

\* The part of RbTakesInOrder that is not in the others.
TakenInOrder == ~rb_raced => \A i, j \in 1 .. Len(rb_taken) : i < j => rb_taken[i] < rb_taken[j]

RbInv ==
  /\ RbTypes
  /\ FullIsFull
  /\ SlotsAreSorted
  /\ HeldIsNewer
  /\ TakenWerePut
  /\ FoundByte
  /\ SlotIsNext
  /\ LeavesTaken
  /\ TakenInOrder
  /\ MaskedLoad

--------------------------------------------------------------------------------
(* Going round the ring                                                    *)

LEMMA OnceAround ==
  ASSUME NEW m \in Nat \ {0}, NEW n \in 0 .. 2 * m - 1
  PROVE  n % m = IF n < m THEN n ELSE n - m
BY SMT

LEMMA FollowingIs ==
  ASSUME NEW index \in Slots
  PROVE  /\ Following(index) \in Slots
         /\ Following(index) = IF index + 1 < BufSize THEN index + 1 ELSE 0
<1>1. BufSize \in Nat \ {0} /\ index + 1 \in 0 .. 2 * BufSize - 1 /\ index \in 0 .. BufSize - 1
  BY BufSizeIsPositive DEF Slots
<1> DEFINE n == index + 1
<1>2. n % BufSize = IF n < BufSize THEN n ELSE n - BufSize
  <2>1. n \in 0 .. 2 * BufSize - 1
    BY <1>1
  <2> HIDE DEF n
  <2>2. QED
    BY <1>1, <2>1, OnceAround
<1>3. QED
  BY <1>1, <1>2 DEF Following, Slots

\* The slot that is written becomes the newest, and all others a slot older.
LEMMA AgeAfterPut ==
  ASSUME NEW put \in Slots, NEW s \in Slots
  PROVE  /\ Age(put, s) \in 1 .. BufSize
         /\ Age(Following(put), s) = IF s = put THEN 1 ELSE Age(put, s) + 1
BY FollowingIs, BufSizeIsPositive DEF Age, Slots

LEMMA AgeIsOfOneSlot ==
  ASSUME NEW put \in Slots, NEW s \in Slots, NEW t \in Slots, Age(put, s) = Age(put, t)
  PROVE  s = t
BY BufSizeIsPositive DEF Age, Slots

LEMMA GapIs ==
  ASSUME NEW get \in Slots, NEW put \in Slots
  PROVE  /\ Gap(get, put) \in 0 .. BufSize - 1
         /\ Gap(get, put) = 0 <=> get = put
         /\ get # put => Age(put, get) = Gap(get, put)
         /\ get = put => Age(put, get) = BufSize
         /\ Gap(Following(get), put) = Age(put, get) - 1
         /\ Gap(get, Following(put)) = IF Following(put) = get THEN 0 ELSE Gap(get, put) + 1
         /\ Following(put) = get => Gap(get, put) = BufSize - 1
         /\ Gap(Following(get), Following(put)) = Gap(get, put)
BY FollowingIs, BufSizeIsPositive DEF Age, Gap, Slots

LEMMA HeldIs ==
  ASSUME RbTypes, FullIsFull
  PROVE  /\ Held(rb, rb_pc) \in 0 .. BufSize
         /\ Held(rb, rb_pc) > 0 => rb_pc = "clear" \/ Age(rb.put_index, rb.get_index) = Held(rb, rb_pc)
<1>1. rb.get_index \in Slots /\ rb.put_index \in Slots
  BY DEF RbTypes, Rings
<1>2. QED
  BY <1>1, GapIs, BufSizeIsPositive DEF Held, FullIsFull

\* The two ways to put a byte, and the one to refuse it.
Refused == rb.is_full /\ rb' = rb

Stored ==
  /\ rb' \in Rings
  /\ rb'.buf = [rb.buf EXCEPT ![rb.put_index] = rb_sent + 1]
  /\ rb'.put_index = Following(rb.put_index)

Added ==
  /\ Stored
  /\ ~rb.is_full
  /\ rb'.get_index = rb.get_index
  /\ rb'.is_full = (rb'.put_index = rb.get_index)

Replaced ==
  /\ Stored
  /\ rb.is_full
  /\ rb'.get_index = Following(rb.get_index)
  /\ rb'.is_full

LEMMA StoreDoes ==
  ASSUME NEW r \in Rings, NEW ch \in Nat
  PROVE  /\ Store(r, ch) \in Rings
         /\ Store(r, ch).buf = [r.buf EXCEPT ![r.put_index] = ch]
         /\ Store(r, ch).put_index = Following(r.put_index)
         /\ Store(r, ch).get_index = r.get_index
         /\ Store(r, ch).is_full = (r.is_full \/ Following(r.put_index) = r.get_index)
<1>1. r.put_index \in Slots /\ r.buf \in [Slots -> Nat]
  BY DEF Rings
<1>2. Following(r.put_index) \in Slots
  BY <1>1, FollowingIs
<1> DEFINE put  == Following(r.put_index)
           full == r.is_full \/ put = r.get_index
<1>3. full \in BOOLEAN
  BY DEF Rings
<1> DEFINE buf == [r.buf EXCEPT ![r.put_index] = ch]
<1>4. buf \in [Slots -> Nat]
  BY <1>1
<1>5. Store(r, ch) = [r EXCEPT !.buf = buf, !.put_index = put, !.is_full = full]
  BY DEF Store
<1> HIDE DEF buf, put, full
<1>6. Store(r, ch) \in Rings
  BY <1>2, <1>3, <1>4, <1>5 DEF Rings, put
<1>7. /\ Store(r, ch).buf = buf /\ Store(r, ch).put_index = put
      /\ Store(r, ch).get_index = r.get_index /\ Store(r, ch).is_full = full
  BY <1>5 DEF Rings
<1>8. QED
  BY <1>6, <1>7 DEF buf, put, full

LEMMA PutDoes ==
  ASSUME RbTypes, RbPut
  PROVE  /\ UNCHANGED <<rb_masked, rb_pc, rb_get, rb_taken>>
         /\ rb_masked => rb_pc = "idle"
         /\ rb_sent' = rb_sent + 1 /\ rb_sent < RbBytes
         /\ rb_raced' = (rb_raced \/ (rb_pc = "read" /\ rb.put_index = rb_get /\ rb' # rb))
         /\ Refused \/ Added \/ Replaced
<1>1. rb \in Rings /\ rb_sent + 1 \in Nat
  BY DEF RbTypes
<1> DEFINE q == Store(rb, rb_sent + 1)
<1>2. /\ q \in Rings /\ q.buf = [rb.buf EXCEPT ![rb.put_index] = rb_sent + 1]
      /\ q.put_index = Following(rb.put_index) /\ q.get_index = rb.get_index
      /\ q.is_full = (rb.is_full \/ Following(rb.put_index) = rb.get_index)
  BY <1>1, StoreDoes
<1>3. ASSUME rb.is_full, rb' = rb PROVE Refused
  BY <1>3 DEF Refused
<1>4. ASSUME ~rb.is_full, rb' = q PROVE Added
  <2> HIDE DEF q
  <2>1. QED
    BY <1>2, <1>4 DEF Added, Stored
<1>5. ASSUME rb' = sdk_ringbuffer_putchar_force(rb, rb_sent + 1), rb.is_full PROVE Replaced
  <2> DEFINE r == [rb EXCEPT !.get_index = Following(rb.get_index)]
  <2>1. Following(rb.get_index) \in Slots
    BY <1>1, FollowingIs DEF Rings
  <2>2. /\ r \in Rings /\ r.buf = rb.buf /\ r.put_index = rb.put_index
        /\ r.get_index = Following(rb.get_index) /\ r.is_full
    BY <1>1, <1>5, <2>1 DEF Rings
  <2>3. rb' = Store(r, rb_sent + 1)
    BY <1>5 DEF sdk_ringbuffer_putchar_force
  <2> HIDE DEF r
  <2> DEFINE p == Store(r, rb_sent + 1)
  <2>4. /\ p \in Rings /\ p.buf = [r.buf EXCEPT ![r.put_index] = rb_sent + 1]
        /\ p.put_index = Following(r.put_index) /\ p.get_index = r.get_index
        /\ p.is_full = (r.is_full \/ Following(r.put_index) = r.get_index)
    BY <1>1, <2>2, StoreDoes
  <2>5. rb' = p
    BY <2>3
  <2> HIDE DEF p
  <2>6. QED
    BY <1>5, <2>2, <2>4, <2>5 DEF Replaced, Stored
<1>6. UNCHANGED <<rb_masked, rb_pc, rb_get, rb_taken>> /\ (rb_masked => rb_pc = "idle")
  BY DEF RbPut
<1>7. /\ rb_sent' = rb_sent + 1 /\ rb_sent < RbBytes
      /\ rb_raced' = (rb_raced \/ (rb_pc = "read" /\ rb.put_index = rb_get /\ rb' # rb))
  BY DEF RbPut
<1>8. Refused \/ Added \/ Replaced
  BY <1>3, <1>5, <1>4 DEF RbPut, sdk_ringbuffer_putchar, sdk_ringbuffer_putchar_force
<1>9. QED
  BY <1>6, <1>7, <1>8

--------------------------------------------------------------------------------
(* The invariant holds                                                     *)

LEMMA RbInitImpliesInv == RingBufferInit => RbInv
<1> SUFFICES ASSUME RingBufferInit PROVE RbInv
  OBVIOUS
<1>1. rb = [buf |-> [k \in Slots |-> 0], get_index |-> 0, put_index |-> 0, is_full |-> FALSE]
  BY DEF RingBufferInit, sdk_ringbuffer_init, Slots
<1>2. 0 \in Slots
  BY BufSizeIsPositive DEF Slots
<1>3. RbTypes
  BY <1>1, <1>2 DEF RingBufferInit, RbTypes, Rings
<1>4. Held(rb, rb_pc) = 0
  BY <1>1 DEF Held, Gap
<1>5. \A s \in Slots : rb.buf[s] = 0 /\ Age(rb.put_index, s) > 0
  BY <1>1, <1>2, AgeAfterPut
<1>6. HeldIsNewer
  BY <1>2, <1>4, <1>5, AgeAfterPut, <1>1 DEF HeldIsNewer
<1>7. QED
  BY <1>1, <1>3, <1>4, <1>5, <1>6
    DEF RingBufferInit, RbInv, FullIsFull, SlotsAreSorted, TakenWerePut, FoundByte, SlotIsNext,
        LeavesTaken, TakenInOrder, MaskedLoad

\* A put adds at most one to what is held.
LEMMA RbHeldAfterPut ==
  ASSUME RbTypes, FullIsFull, RbPut
  PROVE  /\ FullIsFull'
         /\ Held(rb', rb_pc) \in 0 .. BufSize
         /\ Refused => Held(rb', rb_pc) = Held(rb, rb_pc)
         /\ Held(rb', rb_pc) <= Held(rb, rb_pc) + 1
         /\ rb_pc # "clear" => Held(rb', rb_pc) >= Held(rb, rb_pc)
<1>1. /\ rb.get_index \in Slots /\ rb.put_index \in Slots
      /\ rb_pc' = rb_pc /\ Held(rb, rb_pc) \in 0 .. BufSize
  BY PutDoes, HeldIs DEF RbTypes, Rings
<1>2. CASE Refused
  BY <1>1, <1>2 DEF Refused, FullIsFull
<1>3. CASE Added
  <2> DEFINE get == rb.get_index
             put == rb.put_index
             new == Following(put)
  <2>1. Held(rb, rb_pc) = Gap(get, put)
    BY <1>3 DEF Added, Held
  <2>2. Held(rb', rb_pc) = IF new = get /\ rb_pc # "clear" THEN BufSize ELSE Gap(get, new)
    BY <1>3 DEF Added, Stored, Held
  <2>3. Gap(get, put) \in 0 .. BufSize - 1 /\ (new = get => Gap(get, put) = BufSize - 1)
    BY <1>1, GapIs
  <2>4. Gap(get, new) = IF new = get THEN 0 ELSE Gap(get, put) + 1
    BY <1>1, GapIs
  <2>5. new # get => Gap(get, put) + 1 \in 0 .. BufSize
    BY <2>3, BufSizeIsPositive
  <2>6. FullIsFull' /\ ~Refused
    BY <1>3 DEF Added, FullIsFull, Refused
  <2> HIDE DEF new, get, put
  <2>7. QED
    BY <2>1, <2>2, <2>3, <2>4, <2>5, <2>6, BufSizeIsPositive
<1>4. CASE Replaced
  BY <1>1, <1>4, GapIs, BufSizeIsPositive DEF Replaced, Stored, Held, FullIsFull
<1>5. QED
  BY <1>2, <1>3, <1>4, PutDoes

LEMMA PutKeepsInv == RbInv /\ RbPut => RbInv'
<1> SUFFICES ASSUME RbInv, RbPut PROVE RbInv'
  OBVIOUS
<1> USE DEF RbInv
<1> DEFINE put == rb.put_index
<1>1. /\ UNCHANGED <<rb_masked, rb_pc, rb_get, rb_taken>>
      /\ rb_masked => rb_pc = "idle"
      /\ rb_sent' = rb_sent + 1
      /\ rb_raced' = (rb_raced \/ (rb_pc = "read" /\ rb.put_index = rb_get /\ rb' # rb))
      /\ Refused \/ Added \/ Replaced
  BY PutDoes
<1>2. rb \in Rings /\ put \in Slots /\ rb.buf \in [Slots -> Nat] /\ rb_sent \in Nat /\ rb_taken \in Seq(Nat)
  BY DEF RbTypes, Rings
<1>3. rb' \in Rings
  BY <1>1, <1>2 DEF Refused, Added, Replaced, Stored
<1>4. RbTypes'
  BY <1>1, <1>2, <1>3 DEF RbTypes
<1>5. /\ FullIsFull'
      /\ Held(rb', rb_pc) \in 0 .. BufSize
      /\ Refused => Held(rb', rb_pc) = Held(rb, rb_pc)
      /\ Held(rb', rb_pc) <= Held(rb, rb_pc) + 1
      /\ rb_pc # "clear" => Held(rb', rb_pc) >= Held(rb, rb_pc)
      /\ Held(rb, rb_pc) \in 0 .. BufSize
  BY RbHeldAfterPut, HeldIs
<1>6. \A s \in Slots : rb'.buf[s] \in {rb.buf[s], rb_sent + 1}
  BY <1>1, <1>2 DEF Refused, Added, Replaced, Stored
<1>7. rb_raced => rb_raced'
  BY <1>1
<1>8. TakenWerePut' /\ FoundByte' /\ TakenInOrder' /\ MaskedLoad'
  <2>1. TakenWerePut'
    BY <1>1, <1>2 DEF TakenWerePut
  <2>2. FoundByte'
    BY <1>1, <1>5, BufSizeIsPositive DEF FoundByte
  <2>3. TakenInOrder'
    BY <1>1, <1>7 DEF TakenInOrder
  <2>4. MaskedLoad'
    BY <1>1 DEF MaskedLoad
  <2>5. QED
    BY <2>1, <2>2, <2>3, <2>4
<1>9. LeavesTaken'
  <2> SUFFICES ASSUME rb_pc \in {"advance", "store"}
               PROVE  /\ rb'.buf[rb_get] > 0
                      /\ ~rb_raced => \A i \in 1 .. Len(rb_taken) : rb_taken[i] <= rb'.buf[rb_get]
    BY <1>1, <1>7 DEF LeavesTaken
  <2>1. rb_get \in Slots /\ rb'.buf[rb_get] \in {rb.buf[rb_get], rb_sent + 1}
    BY <1>6 DEF RbTypes
  <2>2. CASE rb'.buf[rb_get] = rb.buf[rb_get]
    BY <2>2 DEF LeavesTaken
  <2>3. CASE rb'.buf[rb_get] = rb_sent + 1
    BY <1>2, <2>3 DEF TakenWerePut
  <2>4. QED
    BY <2>1, <2>2, <2>3
<1>10. CASE Refused
  BY <1>1, <1>2, <1>4, <1>5, <1>7, <1>8, <1>10, <1>9
    DEF Refused, SlotsAreSorted, HeldIsNewer, SlotIsNext
<1>11. CASE Stored
  <2> DEFINE new == rb'.put_index
  <2>1. \A s \in Slots : /\ Age(put, s) \in 1 .. BufSize
                         /\ Age(new, s) = IF s = put THEN 1 ELSE Age(put, s) + 1
                         /\ rb'.buf[s] = IF s = put THEN rb_sent + 1 ELSE rb.buf[s]
    BY <1>2, <1>11, AgeAfterPut DEF Stored
  <2> HIDE DEF put, new
  <2>2. \A s \in Slots : rb.buf[s] \in Nat /\ rb.buf[s] <= rb_sent
    BY <1>2 DEF SlotsAreSorted
  <2>3. \A s, t \in Slots :
          Age(new, s) > Age(new, t) /\ rb'.buf[s] > 0 => rb'.buf[s] < rb'.buf[t]
    <3> SUFFICES ASSUME NEW s \in Slots, NEW t \in Slots, Age(new, s) > Age(new, t), rb'.buf[s] > 0
                 PROVE  rb'.buf[s] < rb'.buf[t]
      OBVIOUS
    <3>1. s # put
      BY <2>1
    <3>2. CASE t = put
      BY <1>2, <2>1, <2>2, <3>1, <3>2
    <3>3. CASE t # put
      <4>1. Age(put, s) > Age(put, t) /\ rb.buf[s] > 0
        BY <2>1, <3>1, <3>3
      <4>2. rb.buf[s] < rb.buf[t]
        BY <4>1 DEF SlotsAreSorted, put
      <4>3. QED
        BY <2>1, <3>1, <3>3, <4>2
    <3>4. QED
      BY <3>2, <3>3
  <2>4. SlotsAreSorted'
    <3>1. \A s \in Slots : rb'.buf[s] <= rb_sent'
      BY <1>1, <1>2, <2>1, <2>2
    <3>2. QED
      BY <2>3, <3>1 DEF SlotsAreSorted, new
  <2>5. HeldIsNewer'
    <3> SUFFICES ASSUME NEW s \in Slots, Age(new, s) <= Held(rb', rb_pc)
                 PROVE  /\ rb'.buf[s] > 0
                        /\ ~rb_raced =>
                             \A i \in 1 .. Len(rb_taken) :
                               IF rb_pc \in {"advance", "store"} THEN rb_taken[i] <= rb'.buf[s]
                                                                 ELSE rb_taken[i] < rb'.buf[s]
      BY <1>1, <1>7 DEF HeldIsNewer, new
    <3>1. CASE s = put
      <4>1. rb'.buf[s] = rb_sent + 1
        BY <2>1, <3>1
      <4>2. \A i \in 1 .. Len(rb_taken) : rb_taken[i] \in Nat /\ rb_taken[i] <= rb_sent
        BY <1>2 DEF TakenWerePut
      <4>3. QED
        BY <1>2, <4>1, <4>2
    <3>2. CASE s # put
      <4>1. Age(put, s) <= Held(rb, rb_pc)
        BY <1>5, <2>1, <3>2
      <4>2. rb'.buf[s] = rb.buf[s]
        BY <2>1, <3>2
      <4>3. QED
        BY <4>1, <4>2 DEF HeldIsNewer, put
    <3>3. QED
      BY <3>1, <3>2
  <2>6. SlotIsNext'
    <3> SUFFICES ASSUME rb_pc = "read"
                 PROVE  /\ rb'.buf[rb_get] > 0
                        /\ ~rb_raced' =>
                             /\ \A i \in 1 .. Len(rb_taken) : rb_taken[i] < rb'.buf[rb_get]
                             /\ \A s \in Slots : Age(new, s) <= Held(rb', rb_pc) =>
                                                rb'.buf[rb_get] <= rb'.buf[s]
      BY <1>1 DEF SlotIsNext, new
    <3>1. rb_get \in Slots
      BY DEF RbTypes
    <3>2. CASE rb_get = put
      <4>1. rb'.buf[rb_get] = rb_sent + 1
        BY <2>1, <3>1, <3>2
      <4>2. rb' # rb
        <5>1. rb.buf[rb_get] <= rb_sent
          BY <2>2, <3>1
        <5>2. QED
          BY <1>2, <2>2, <3>1, <4>1, <5>1
      <4>3. rb_raced'
        BY <1>1, <3>2, <4>2 DEF put
      <4>4. QED
        BY <1>2, <4>1, <4>3
    <3>3. CASE rb_get # put
      <4>1. rb'.buf[rb_get] = rb.buf[rb_get] /\ rb.buf[rb_get] \in Nat /\ rb.buf[rb_get] <= rb_sent
        BY <2>1, <2>2, <3>1, <3>3
      <4>2. /\ rb.buf[rb_get] > 0
            /\ ~rb_raced =>
                 /\ \A i \in 1 .. Len(rb_taken) : rb_taken[i] < rb.buf[rb_get]
                 /\ \A s \in Slots :
                      Age(put, s) <= Held(rb, rb_pc) => rb.buf[rb_get] <= rb.buf[s]
        BY DEF SlotIsNext, put
      <4>3. ASSUME ~rb_raced, NEW s \in Slots, Age(new, s) <= Held(rb', rb_pc)
            PROVE  rb'.buf[rb_get] <= rb'.buf[s]
        <5>1. CASE s = put
          <6>1. rb'.buf[s] = rb_sent + 1
            BY <2>1, <5>1
          <6>2. QED
            BY <1>2, <4>1, <6>1
        <5>2. CASE s # put
          <6>1. Age(put, s) <= Held(rb, rb_pc)
            BY <1>5, <2>1, <4>3, <5>2
          <6>2. rb'.buf[s] = rb.buf[s]
            BY <2>1, <5>2
          <6>3. QED
            BY <4>1, <4>2, <4>3, <6>1, <6>2
        <5>3. QED
          BY <5>1, <5>2
      <4>4. QED
        BY <1>7, <4>1, <4>2, <4>3
    <3>4. QED
      BY <3>2, <3>3
  <2>7. QED
    BY <1>4, <1>5, <1>8, <1>9, <2>4, <2>5, <2>6
<1>12. QED
  BY <1>1, <1>10, <1>11 DEF Added, Replaced

\* Steps of the reader that only look at the ring.
LEMMA RbLookingKeepsInv ==
  RbInv /\ (TestIsFull \/ CompareRbIndices \/ LoadRbSlotIndex \/ LoadRbGetIndex) => RbInv'
<1> SUFFICES ASSUME RbInv, TestIsFull \/ CompareRbIndices \/ LoadRbSlotIndex \/ LoadRbGetIndex
             PROVE  RbInv'
  OBVIOUS
<1> USE DEF RbInv
<1>1. /\ UNCHANGED <<rb_masked, rb, rb_sent, rb_taken, rb_raced>>
      /\ rb_pc # "clear" /\ rb_pc' # "clear"
  BY DEF TestIsFull, CompareRbIndices, LoadRbSlotIndex, LoadRbGetIndex, rb_shared
<1> DEFINE get == rb.get_index
<1>2. /\ rb \in Rings /\ get \in Slots /\ rb.put_index \in Slots
      /\ Held(rb, rb_pc) \in 0 .. BufSize
      /\ \A s \in Slots : rb.buf[s] \in Nat
  BY HeldIs DEF RbTypes, Rings
<1>3. Held(rb', rb_pc') = Held(rb, rb_pc)
  BY <1>1 DEF Held
<1>4. FullIsFull' /\ SlotsAreSorted' /\ TakenWerePut' /\ TakenInOrder'
  BY <1>1 DEF FullIsFull, SlotsAreSorted, TakenWerePut, TakenInOrder
<1>5. CASE TestIsFull
  <2>1. rb_pc' \in {"load", "compare"} /\ rb_pc = "idle" /\ rb_get' = rb_get
    BY <1>5 DEF TestIsFull
  <2>2. rb_pc' = "load" => Held(rb, rb_pc) > 0
    BY <1>5, <2>1, BufSizeIsPositive DEF TestIsFull, Held
  <2>3. QED
    BY <1>1, <1>3, <1>4, <2>1, <2>2
      DEF RbTypes, HeldIsNewer, FoundByte, SlotIsNext, LeavesTaken, MaskedLoad
<1>6. CASE CompareRbIndices
  <2>1. rb_pc' \in {"load", "idle"} /\ rb_pc = "compare" /\ rb_get' = rb_get
    BY <1>6 DEF CompareRbIndices
  <2>2. rb_pc' = "load" => Held(rb, rb_pc) > 0
    BY <1>2, <1>6, <2>1, GapIs, BufSizeIsPositive DEF CompareRbIndices, Held
  <2>3. QED
    BY <1>1, <1>3, <1>4, <2>1, <2>2
      DEF RbTypes, HeldIsNewer, FoundByte, SlotIsNext, LeavesTaken, MaskedLoad
<1>7. ASSUME rb_pc \in {"load", "advance"}
      PROVE  /\ Held(rb, rb_pc) > 0 /\ Age(rb.put_index, get) = Held(rb, rb_pc)
             /\ rb.buf[get] > 0
  <2>1. Held(rb, rb_pc) > 0 /\ Age(rb.put_index, get) = Held(rb, rb_pc)
    BY <1>7, HeldIs DEF FoundByte
  <2>2. QED
    BY <1>2, <2>1, BufSizeIsPositive DEF HeldIsNewer
<1>8. CASE LoadRbSlotIndex
  <2>1. rb_pc' = "read" /\ rb_pc = "load" /\ rb_get' = get
    BY <1>8 DEF LoadRbSlotIndex
  <2>2. ASSUME NEW s \in Slots, Age(rb.put_index, s) <= Held(rb, rb_pc)
        PROVE  rb.buf[get] <= rb.buf[s]
    <3>1. CASE Age(rb.put_index, s) = Age(rb.put_index, get)
      <4>1. s = get
        BY <1>2, <3>1, AgeIsOfOneSlot
      <4>2. QED
        BY <1>2, <4>1
    <3>2. CASE Age(rb.put_index, get) > Age(rb.put_index, s)
      <4>1. rb.buf[get] < rb.buf[s]
        BY <1>2, <1>7, <2>1, <3>2 DEF SlotsAreSorted
      <4>2. QED
        BY <1>2, <4>1
    <3>3. Age(rb.put_index, s) \in Int /\ Age(rb.put_index, get) \in Int
      BY <1>2, AgeAfterPut, BufSizeIsPositive
    <3>4. QED
      BY <1>7, <2>1, <2>2, <3>1, <3>2, <3>3
  <2>3. ~rb_raced => \A i \in 1 .. Len(rb_taken) : rb_taken[i] < rb.buf[get]
    BY <1>2, <1>7, <2>1, BufSizeIsPositive DEF HeldIsNewer
  <2>4. SlotIsNext'
    BY <1>1, <1>3, <1>7, <2>1, <2>2, <2>3 DEF SlotIsNext
  <2>5. RbTypes' /\ HeldIsNewer'
    BY <1>1, <1>2, <1>3, <2>1 DEF RbTypes, HeldIsNewer
  <2>6. QED
    BY <1>1, <1>3, <1>4, <1>7, <2>1, <2>4, <2>5 DEF FoundByte, LeavesTaken, MaskedLoad
<1>9. CASE LoadRbGetIndex
  <2>1. rb_pc' = "store" /\ rb_pc = "advance" /\ rb_get' \in {rb_get, get}
    BY <1>9 DEF LoadRbGetIndex
  <2>2. ~rb_raced => \A i \in 1 .. Len(rb_taken) : rb_taken[i] <= rb.buf[get]
    BY <1>2, <1>7, <2>1, BufSizeIsPositive DEF HeldIsNewer
  <2>3. LeavesTaken'
    BY <1>1, <1>7, <2>1, <2>2 DEF LeavesTaken
  <2>4. HeldIsNewer'
    BY <1>1, <1>3, <2>1 DEF HeldIsNewer
  <2>5. RbTypes'
    BY <1>1, <1>2, <2>1 DEF RbTypes
  <2>6. QED
    BY <1>1, <1>3, <1>4, <2>1, <2>3, <2>4, <2>5 DEF FoundByte, SlotIsNext, MaskedLoad
<1>10. QED
  BY <1>5, <1>6, <1>8, <1>9

LEMMA AppendIs ==
  ASSUME NEW seq \in Seq(Nat), NEW e \in Nat
  PROVE  /\ Append(seq, e) \in Seq(Nat) /\ Len(Append(seq, e)) = Len(seq) + 1 /\ Len(seq) \in Nat
         /\ \A i \in 1 .. Len(seq) : Append(seq, e)[i] = seq[i]
         /\ Append(seq, e)[Len(seq) + 1] = e
OBVIOUS

\* The byte that is taken is the one in the slot whose index was loaded.
LEMMA ReadSlotKeepsInv == RbInv /\ ReadSlot => RbInv'
<1> SUFFICES ASSUME RbInv, ReadSlot PROVE RbInv'
  OBVIOUS
<1> USE DEF RbInv
<1> DEFINE put == rb.put_index
           b   == rb.buf[rb_get]
           len == Len(rb_taken)
<1>1. /\ UNCHANGED <<rb_masked, rb, rb_sent, rb_get, rb_raced>>
      /\ rb_pc = "read" /\ rb_pc' = "advance"
      /\ rb_taken' = Append(rb_taken, b)
  BY DEF ReadSlot, rb_shared
<1>2. /\ rb \in Rings /\ rb_get \in Slots /\ put \in Slots /\ b \in Nat
      /\ rb_taken \in Seq(Nat) /\ rb_sent \in Nat
      /\ \A s \in Slots : rb.buf[s] \in Nat
  BY DEF RbTypes, Rings
<1>3. Held(rb', rb_pc') = Held(rb, rb_pc)
  BY <1>1 DEF Held
<1>4. /\ b > 0 /\ b <= rb_sent
      /\ ~rb_raced => /\ \A i \in 1 .. len : rb_taken[i] < b
                      /\ \A s \in Slots : Age(put, s) <= Held(rb, rb_pc) => b <= rb.buf[s]
  BY <1>1, <1>2 DEF SlotIsNext, SlotsAreSorted
<1>5. \A i \in 1 .. len : rb_taken[i] \in 1 .. rb_sent
  BY DEF TakenWerePut
<1>6. \A s \in Slots : Age(put, s) <= Held(rb, rb_pc) => rb.buf[s] > 0
  BY DEF HeldIsNewer
<1>7. LeavesTaken' /\ MaskedLoad' /\ RbTypes' /\ FullIsFull' /\ SlotsAreSorted' /\ SlotIsNext'
  <2>1. /\ rb_taken' \in Seq(Nat) /\ Len(rb_taken') = len + 1 /\ len \in Nat
        /\ \A i \in 1 .. len : rb_taken'[i] = rb_taken[i]
        /\ rb_taken'[len + 1] = b
    BY <1>1, <1>2, AppendIs
  <2>2. RbTypes' /\ FullIsFull' /\ SlotsAreSorted' /\ SlotIsNext'
    BY <1>1, <2>1 DEF RbTypes, FullIsFull, SlotsAreSorted, SlotIsNext
  <2>3. MaskedLoad'
    BY <1>1, <1>3 DEF MaskedLoad
  <2>4. ASSUME ~rb_raced, NEW i \in 1 .. len + 1 PROVE rb_taken'[i] <= b
    <3>1. CASE i = len + 1
      BY <1>2, <2>1, <3>1
    <3>2. CASE i # len + 1
      <4>1. i \in 1 .. len
        BY <2>1, <3>2
      <4>2. rb_taken'[i] = rb_taken[i] /\ rb_taken[i] < b /\ rb_taken[i] \in 1 .. rb_sent
        BY <1>4, <1>5, <2>1, <2>4, <4>1
      <4>3. QED
        BY <1>2, <4>2
    <3>3. QED
      BY <3>1, <3>2
  <2>5. LeavesTaken'
    BY <1>1, <1>4, <2>1, <2>4 DEF LeavesTaken
  <2>6. QED
    BY <2>2, <2>3, <2>5
<1>8. FoundByte'
  BY <1>1, <1>3 DEF FoundByte
<1> HIDE DEF b, len, put
<1>9. /\ Len(rb_taken') = len + 1 /\ len \in Nat
      /\ \A i \in 1 .. len : rb_taken'[i] = rb_taken[i]
      /\ rb_taken'[len + 1] = b
  BY <1>1, <1>2, AppendIs DEF len
<1>10. TakenWerePut'
  <2>1. ASSUME NEW i \in 1 .. len + 1 PROVE rb_taken'[i] \in 1 .. rb_sent
    <3>1. CASE i = len + 1
      BY <1>2, <1>4, <1>9, <3>1
    <3>2. CASE i # len + 1
      BY <1>5, <1>9, <3>2
    <3>3. QED
      BY <3>1, <3>2
  <2>2. QED
    BY <1>1, <1>9, <2>1 DEF TakenWerePut
<1>11. TakenInOrder'
  <2> SUFFICES ASSUME ~rb_raced, NEW i \in 1 .. len + 1, NEW j \in 1 .. len + 1, i < j
               PROVE  rb_taken'[i] < rb_taken'[j]
    BY <1>1, <1>9 DEF TakenInOrder
  <2>1. i \in 1 .. len
    BY <1>9
  <2>2. CASE j = len + 1
    BY <1>4, <1>9, <2>1, <2>2
  <2>3. CASE j # len + 1
    <3>1. j \in 1 .. len
      BY <1>9, <2>3
    <3>2. rb_taken[i] < rb_taken[j]
      BY <2>1, <3>1 DEF TakenInOrder, len
    <3>3. QED
      BY <1>9, <2>1, <3>1, <3>2
  <2>4. QED
    BY <2>2, <2>3
<1>12. HeldIsNewer'
  <2>1. ASSUME ~rb_raced, NEW s \in Slots, Age(put, s) <= Held(rb, rb_pc), NEW i \in 1 .. len + 1
        PROVE  rb_taken'[i] <= rb.buf[s]
    <3>1. b <= rb.buf[s] /\ rb.buf[s] \in Nat
      BY <1>2, <1>4, <2>1
    <3>2. CASE i = len + 1
      BY <1>9, <3>1, <3>2
    <3>3. CASE i # len + 1
      <4>1. i \in 1 .. len
        BY <1>9, <3>3
      <4>2. rb_taken'[i] = rb_taken[i] /\ rb_taken[i] < b /\ rb_taken[i] \in 1 .. rb_sent
        BY <1>4, <1>5, <1>9, <2>1, <4>1
      <4>3. QED
        BY <1>2, <3>1, <4>2
    <3>4. QED
      BY <3>2, <3>3
  <2>2. QED
    BY <1>1, <1>3, <1>6, <1>9, <2>1 DEF HeldIsNewer, put
<1>13. QED
  BY <1>7, <1>8, <1>10, <1>11, <1>12

\* Storing the index the reader loaded puts the ring behind the slot it loaded,
\* wherever the interrupt has been since.
LEMMA StoreKeepsInv == RbInv /\ StoreRbGetIndex => RbInv'
<1> SUFFICES ASSUME RbInv, StoreRbGetIndex PROVE RbInv'
  OBVIOUS
<1> USE DEF RbInv
<1> DEFINE put == rb.put_index
<1>1. /\ UNCHANGED <<rb_masked, rb_sent, rb_get, rb_taken, rb_raced>>
      /\ rb_pc = "store" /\ rb_pc' = "clear"
      /\ rb' = [rb EXCEPT !.get_index = Following(rb_get)]
  BY DEF StoreRbGetIndex
<1>2. /\ rb \in Rings /\ put \in Slots /\ rb_get \in Slots
      /\ \A s \in Slots : rb.buf[s] \in Nat
  BY DEF RbTypes, Rings
<1>3. Following(rb_get) \in Slots
  BY <1>2, FollowingIs
<1>4. /\ rb' \in Rings /\ UNCHANGED <<rb.buf, rb.put_index, rb.is_full>>
      /\ rb'.get_index = Following(rb_get)
  BY <1>1, <1>2, <1>3 DEF Rings
<1>5. Held(rb', rb_pc') = Age(put, rb_get) - 1 /\ Age(put, rb_get) \in 1 .. BufSize
  BY <1>1, <1>2, <1>4, GapIs, AgeAfterPut DEF Held
<1>6. /\ rb.buf[rb_get] > 0
      /\ \A i \in 1 .. Len(rb_taken) : rb_taken[i] \in Nat
      /\ ~rb_raced => \A i \in 1 .. Len(rb_taken) : rb_taken[i] <= rb.buf[rb_get]
  BY <1>1 DEF LeavesTaken, TakenWerePut
<1>7. HeldIsNewer'
  <2> SUFFICES ASSUME NEW s \in Slots, Age(put, s) <= Age(put, rb_get) - 1
               PROVE  /\ rb.buf[s] > 0
                      /\ ~rb_raced => \A i \in 1 .. Len(rb_taken) : rb_taken[i] < rb.buf[s]
    BY <1>1, <1>4, <1>5 DEF HeldIsNewer
  <2>1. Age(put, rb_get) > Age(put, s)
    BY <1>2, AgeAfterPut
  <2>2. rb.buf[rb_get] < rb.buf[s]
    BY <1>2, <1>6, <2>1 DEF SlotsAreSorted
  <2>3. QED
    BY <1>2, <1>6, <2>2
<1>8. /\ RbTypes' /\ FullIsFull' /\ SlotsAreSorted' /\ TakenWerePut' /\ FoundByte'
      /\ SlotIsNext' /\ LeavesTaken'
  BY <1>1, <1>4
    DEF RbTypes, FullIsFull, SlotsAreSorted, TakenWerePut, FoundByte, SlotIsNext, LeavesTaken
<1>9. TakenInOrder' /\ MaskedLoad'
  BY <1>1 DEF TakenInOrder, MaskedLoad
<1>10. QED
  BY <1>7, <1>8, <1>9

LEMMA ClearKeepsInv == RbInv /\ ClearRbIsFull => RbInv'
<1> SUFFICES ASSUME RbInv, ClearRbIsFull PROVE RbInv'
  OBVIOUS
<1> USE DEF RbInv
<1>1. /\ UNCHANGED <<rb_masked, rb_sent, rb_get, rb_taken, rb_raced>>
      /\ rb_pc = "clear" /\ rb_pc' = "idle"
      /\ rb' = [rb EXCEPT !.is_full = FALSE]
  BY DEF ClearRbIsFull
<1>2. rb \in Rings
  BY DEF RbTypes
<1>3. rb' \in Rings /\ UNCHANGED <<rb.buf, rb.put_index, rb.get_index>> /\ ~rb'.is_full
  BY <1>1, <1>2 DEF Rings
<1>4. Held(rb', rb_pc') = Held(rb, rb_pc)
  BY <1>1, <1>3 DEF Held
<1>5. HeldIsNewer'
  BY <1>1, <1>3, <1>4 DEF HeldIsNewer
<1>6. QED
  BY <1>1, <1>3, <1>5 DEF RbTypes, FullIsFull, SlotsAreSorted, TakenWerePut, FoundByte, SlotIsNext,
                          LeavesTaken, TakenInOrder, MaskedLoad

LEMMA RbInvAlways == RingBufferSpec => []RbInv
<1>1. RbInv /\ UNCHANGED rb_vars => RbInv'
  BY DEF rb_vars, RbInv, RbTypes, FullIsFull, SlotsAreSorted, HeldIsNewer, TakenWerePut, FoundByte,
         SlotIsNext, LeavesTaken, TakenInOrder, MaskedLoad
<1>2. RbInv /\ RingBufferNext => RbInv'
  BY PutKeepsInv, RbLookingKeepsInv, ReadSlotKeepsInv, StoreKeepsInv, ClearKeepsInv
    DEF RingBufferNext, sdk_ringbuffer_getchar
<1>3. RbInv /\ [RingBufferNext]_rb_vars => RbInv'
  BY <1>1, <1>2
<1>4. QED
  BY <1>3, RbInitImpliesInv, PTL DEF RingBufferSpec

--------------------------------------------------------------------------------
(* Theorems                                                                *)

\* For every length of the ring, and wherever a put falls between two accesses
\* of sdk_ringbuffer_getchar: the bytes got are some of those put, in order and
\* none twice until a byte is put into the slot that getchar is about to read,
\* which takes a caller that does not mask.
THEOREM TakesInOrder == RingBufferSpec => []RbTakesInOrder
<1>1. RbInv => RbTakesInOrder
  BY DEF RbInv, TakenWerePut, TakenInOrder, MaskedLoad, RbTakesInOrder
<1>2. QED
  BY <1>1, RbInvAlways, PTL

--------------------------------------------------------------------------------
(* The refinement                                                          *)

\* The slot n behind get.
Ahead(get, n) == IF get + n < BufSize THEN get + n ELSE get + n - BufSize

LEMMA AheadIs ==
  ASSUME NEW get \in Slots, NEW n \in 0 .. BufSize - 1
  PROVE  /\ Ahead(get, n) \in Slots
         /\ (get + n) % BufSize = Ahead(get, n)
<1>1. BufSize \in Nat \ {0} /\ get \in 0 .. BufSize - 1
  BY BufSizeIsPositive DEF Slots
<1> DEFINE k == get + n
<1>2. k \in 0 .. 2 * BufSize - 1
  BY <1>1
<1>3. k % BufSize = IF k < BufSize THEN k ELSE k - BufSize
  <2> HIDE DEF k
  <2>1. QED
    BY <1>1, <1>2, OnceAround
<1>4. QED
  BY <1>1, <1>2, <1>3 DEF Ahead, Slots

\* Where the slots behind get are, seen from put.
LEMMA AheadOf ==
  ASSUME NEW get \in Slots, NEW put \in Slots, NEW n \in 0 .. BufSize - 1
  PROVE  /\ n < Gap(get, put) => Ahead(get, n) # put
         /\ n = Gap(get, put) => Ahead(get, n) = put
         /\ get = put /\ n > 0 => Ahead(get, n) # put
         /\ n + 1 < BufSize => Ahead(Following(get), n) = Ahead(get, n + 1)
         /\ n = BufSize - 1 => Ahead(Following(get), n) = get
BY FollowingIs, BufSizeIsPositive DEF Ahead, Gap, Slots

LEMMA ContentsAre ==
  ASSUME NEW r \in Rings
  PROVE  /\ sdk_ringbuffer_data_len(r) = IF r.is_full THEN BufSize ELSE Gap(r.get_index, r.put_index)
         /\ sdk_ringbuffer_data_len(r) \in 0 .. BufSize
         /\ RbContents(r) \in Seq(Nat)
         /\ Len(RbContents(r)) = sdk_ringbuffer_data_len(r)
         /\ \A i \in 1 .. sdk_ringbuffer_data_len(r) :
              RbContents(r)[i] = r.buf[Ahead(r.get_index, i - 1)]
<1> DEFINE len == sdk_ringbuffer_data_len(r)
<1>1. r.get_index \in Slots /\ r.put_index \in Slots /\ \A s \in Slots : r.buf[s] \in Nat
  BY DEF Rings
<1>2. len = IF r.is_full THEN BufSize ELSE Gap(r.get_index, r.put_index)
  BY DEF sdk_ringbuffer_data_len, Gap
<1>3. len \in 0 .. BufSize
  BY <1>1, <1>2, GapIs, BufSizeIsPositive
<1> HIDE DEF len
<1>4. \A i \in 1 .. len : /\ Ahead(r.get_index, i - 1) \in Slots
                         /\ (r.get_index + i - 1) % BufSize = Ahead(r.get_index, i - 1)
  <2> SUFFICES ASSUME NEW i \in 1 .. len
               PROVE  /\ Ahead(r.get_index, i - 1) \in Slots
                      /\ (r.get_index + i - 1) % BufSize = Ahead(r.get_index, i - 1)
    OBVIOUS
  <2> DEFINE n == i - 1
  <2>1. n \in 0 .. BufSize - 1 /\ r.get_index + i - 1 = r.get_index + n
    BY <1>1, <1>3, BufSizeIsPositive DEF Slots
  <2> HIDE DEF n
  <2>2. Ahead(r.get_index, n) \in Slots /\ (r.get_index + n) % BufSize = Ahead(r.get_index, n)
    BY <1>1, <2>1, AheadIs
  <2>3. QED
    BY <2>1, <2>2 DEF n
<1>5. RbContents(r) = [i \in 1 .. len |-> r.buf[(r.get_index + i - 1) % BufSize]]
  BY DEF RbContents, len
<1>6. \A i \in 1 .. len : r.buf[(r.get_index + i - 1) % BufSize] = r.buf[Ahead(r.get_index, i - 1)]
  BY <1>4
<1>7. \A i \in 1 .. len : r.buf[Ahead(r.get_index, i - 1)] \in Nat
  BY <1>1, <1>4
<1>8. RbContents(r) = [i \in 1 .. len |-> r.buf[Ahead(r.get_index, i - 1)]]
  BY <1>5, <1>6
<1>9. RbContents(r) \in Seq(Nat) /\ Len(RbContents(r)) = len
  BY <1>3, <1>7, <1>8
<1>10. \A i \in 1 .. len : RbContents(r)[i] = r.buf[Ahead(r.get_index, i - 1)]
  BY <1>8
<1>11. QED
  BY <1>2, <1>3, <1>9, <1>10 DEF len

LEMMA SameSeq ==
  ASSUME NEW a \in Seq(Nat), NEW b \in Seq(Nat), Len(a) = Len(b),
         \A i \in 1 .. Len(a) : a[i] = b[i]
  PROVE  a = b
OBVIOUS

LEMMA TailIs ==
  ASSUME NEW seq \in Seq(Nat), Len(seq) > 0
  PROVE  /\ seq # <<>> /\ Head(seq) = seq[1]
         /\ Tail(seq) \in Seq(Nat) /\ Len(Tail(seq)) = Len(seq) - 1
         /\ \A i \in 1 .. Len(seq) - 1 : Tail(seq)[i] = seq[i + 1]
OBVIOUS

\* A byte that is put into a ring that is not full comes last.
LEMMA AddedIsAppended ==
  ASSUME RbTypes, Added
  PROVE  /\ RbContents(rb') = Append(RbContents(rb), rb_sent + 1)
         /\ Len(RbContents(rb)) < BufSize
<1> DEFINE get == rb.get_index
           put == rb.put_index
           len == Len(RbContents(rb))
           old == RbContents(rb)
           new == RbContents(rb')
           sum == Append(old, rb_sent + 1)
<1>1. /\ rb \in Rings /\ rb' \in Rings /\ get \in Slots /\ put \in Slots /\ rb_sent + 1 \in Nat
      /\ rb.buf \in [Slots -> Nat]
  BY DEF RbTypes, Rings, Added, Stored
<1>2. /\ rb'.get_index = get /\ rb'.put_index = Following(put)
      /\ rb'.is_full = (Following(put) = get) /\ ~rb.is_full
      /\ rb'.buf = [rb.buf EXCEPT ![put] = rb_sent + 1]
  BY DEF Added, Stored
<1>3. /\ len = Gap(get, put) /\ old \in Seq(Nat)
      /\ \A i \in 1 .. len : old[i] = rb.buf[Ahead(get, i - 1)]
  BY <1>1, <1>2, ContentsAre
<1>4. len \in 0 .. BufSize - 1
  BY <1>1, <1>3, GapIs
<1>5. Len(new) = len + 1
  <2>1. Len(new) = IF Following(put) = get THEN BufSize ELSE Gap(get, Following(put))
    BY <1>1, <1>2, ContentsAre
  <2>2. /\ Gap(get, Following(put)) = IF Following(put) = get THEN 0 ELSE Gap(get, put) + 1
        /\ Following(put) = get => Gap(get, put) = BufSize - 1
    BY <1>1, GapIs
  <2>3. QED
    BY <1>3, <2>1, <2>2, BufSizeIsPositive
<1>6. new \in Seq(Nat) /\ \A i \in 1 .. len + 1 : new[i] = rb'.buf[Ahead(get, i - 1)]
  <2> DEFINE r == rb'
  <2> HIDE DEF new, len
  <2>1. r \in Rings /\ new = RbContents(r) /\ r.get_index = get
    BY <1>1, <1>2 DEF new
  <2> HIDE DEF r
  <2>2. /\ RbContents(r) \in Seq(Nat) /\ Len(RbContents(r)) = sdk_ringbuffer_data_len(r)
        /\ \A i \in 1 .. sdk_ringbuffer_data_len(r) : RbContents(r)[i] = r.buf[Ahead(get, i - 1)]
    BY <2>1, ContentsAre
  <2>3. sdk_ringbuffer_data_len(r) = len + 1
    BY <1>5, <2>1, <2>2
  <2>4. QED
    BY <2>1, <2>2, <2>3 DEF r
<1>7. /\ sum \in Seq(Nat) /\ Len(sum) = len + 1 /\ sum[len + 1] = rb_sent + 1
      /\ \A i \in 1 .. len : sum[i] = old[i]
  BY <1>1, <1>3, AppendIs
<1> HIDE DEF get, put, len, old, new, sum
<1>8. ASSUME NEW i \in 1 .. len + 1 PROVE new[i] = sum[i]
  <2>1. i - 1 \in 0 .. BufSize - 1 /\ i - 1 <= Gap(get, put)
    BY <1>3, <1>4, BufSizeIsPositive
  <2>2. CASE i = len + 1
    <3>1. Ahead(get, i - 1) = put
      BY <1>1, <1>3, <1>4, <2>1, <2>2, AheadOf
    <3>2. QED
      BY <1>1, <1>2, <1>6, <1>7, <2>2, <3>1
  <2>3. CASE i # len + 1
    <3>1. i \in 1 .. len /\ i - 1 < Gap(get, put)
      BY <1>3, <1>4, <2>3
    <3>2. Ahead(get, i - 1) # put /\ Ahead(get, i - 1) \in Slots
      BY <1>1, <2>1, <3>1, AheadOf, AheadIs
    <3>3. new[i] = rb.buf[Ahead(get, i - 1)]
      BY <1>1, <1>2, <1>6, <3>2
    <3>4. QED
      BY <1>3, <1>7, <3>1, <3>3
  <2>4. QED
    BY <2>2, <2>3
<1>9. new = sum
  BY <1>5, <1>6, <1>7, <1>8, SameSeq
<1>10. len < BufSize
  BY <1>4, BufSizeIsPositive
<1>11. QED
  BY <1>9, <1>10 DEF new, sum, old, len

\* One that is put into a full ring drives out the oldest.
LEMMA ReplacedIsShifted ==
  ASSUME RbTypes, FullIsFull, rb_pc # "clear", Replaced
  PROVE  /\ RbContents(rb') = Append(Tail(RbContents(rb)), rb_sent + 1)
         /\ Len(RbContents(rb)) = BufSize
<1> DEFINE get == rb.get_index
           old == RbContents(rb)
           new == RbContents(rb')
           sum == Append(Tail(old), rb_sent + 1)
<1>1. /\ rb \in Rings /\ rb' \in Rings /\ get \in Slots /\ rb_sent + 1 \in Nat
      /\ rb.buf \in [Slots -> Nat] /\ rb.put_index = get
  BY DEF RbTypes, Rings, Replaced, Stored, FullIsFull
<1>2. /\ rb'.get_index = Following(get) /\ rb'.is_full /\ rb.is_full
      /\ rb'.buf = [rb.buf EXCEPT ![get] = rb_sent + 1]
  BY <1>1 DEF Replaced, Stored
<1>3. /\ Len(old) = BufSize /\ old \in Seq(Nat)
      /\ \A i \in 1 .. BufSize : old[i] = rb.buf[Ahead(get, i - 1)]
  BY <1>1, <1>2, ContentsAre
<1>4. /\ Len(new) = BufSize /\ new \in Seq(Nat)
      /\ \A i \in 1 .. BufSize : new[i] = rb'.buf[Ahead(Following(get), i - 1)]
  <2> DEFINE r == rb'
  <2> HIDE DEF new
  <2>1. r \in Rings /\ new = RbContents(r) /\ r.get_index = Following(get) /\ r.is_full
    BY <1>1, <1>2 DEF new
  <2> HIDE DEF r
  <2>2. sdk_ringbuffer_data_len(r) = BufSize
    BY <2>1, ContentsAre
  <2>3. /\ RbContents(r) \in Seq(Nat) /\ Len(RbContents(r)) = BufSize
        /\ \A i \in 1 .. BufSize : RbContents(r)[i] = r.buf[Ahead(r.get_index, i - 1)]
    BY <2>1, <2>2, ContentsAre
  <2>4. QED
    BY <2>1, <2>3 DEF r
<1>5. BufSize \in Nat \ {0}
  BY BufSizeIsPositive
<1>6. /\ Tail(old) \in Seq(Nat) /\ Len(Tail(old)) = BufSize - 1
      /\ \A i \in 1 .. BufSize - 1 : Tail(old)[i] = old[i + 1]
  BY <1>3, <1>5, TailIs
<1> HIDE DEF old
<1>7. /\ sum \in Seq(Nat) /\ Len(sum) = BufSize /\ sum[BufSize] = rb_sent + 1
      /\ \A i \in 1 .. BufSize - 1 : sum[i] = old[i + 1]
  <2>1. BufSize - 1 + 1 = BufSize
    BY <1>5
  <2>2. QED
    BY <1>1, <1>6, <2>1, AppendIs
<1> HIDE DEF get, new, sum
<1>8. ASSUME NEW i \in 1 .. BufSize PROVE new[i] = sum[i]
  <2>1. i - 1 \in 0 .. BufSize - 1
    BY <1>5
  <2>2. CASE i = BufSize
    <3>1. Ahead(Following(get), i - 1) = get
      BY <1>1, <2>1, <2>2, AheadOf
    <3>2. QED
      BY <1>1, <1>2, <1>4, <1>7, <2>2, <3>1
  <2>3. CASE i # BufSize
    <3>1. i \in 1 .. BufSize - 1 /\ i \in 0 .. BufSize - 1 /\ i - 1 + 1 = i /\ i > 0
      BY <1>5, <2>3
    <3>2. Ahead(Following(get), i - 1) = Ahead(get, i)
      <4> DEFINE n == i - 1
      <4>1. n \in 0 .. BufSize - 1 /\ n + 1 = i /\ n + 1 < BufSize
        BY <1>5, <3>1
      <4> HIDE DEF n
      <4>2. Ahead(Following(get), n) = Ahead(get, n + 1)
        BY <1>1, <4>1, AheadOf
      <4>3. QED
        BY <4>1, <4>2 DEF n
    <3>3. Ahead(get, i) # get /\ Ahead(get, i) \in Slots
      BY <1>1, <3>1, AheadOf, AheadIs
    <3>4. new[i] = rb.buf[Ahead(get, i)]
      BY <1>1, <1>2, <1>4, <3>2, <3>3
    <3>5. i + 1 \in 1 .. BufSize /\ i + 1 - 1 = i
      BY <1>5, <3>1
    <3>6. old[i + 1] = rb.buf[Ahead(get, i)]
      BY <1>3, <3>5
    <3>7. QED
      BY <1>7, <3>1, <3>4, <3>6
  <2>4. QED
    BY <2>2, <2>3
<1>9. new = sum
  BY <1>4, <1>7, <1>8, SameSeq
<1>10. QED
  BY <1>3, <1>9 DEF new, sum, old

\* Moving get_index to the next slot leaves all but the first byte.
LEMMA MovedIsTail ==
  ASSUME NEW r \in Rings, NEW q \in Rings, r.is_full => r.put_index = r.get_index,
         sdk_ringbuffer_data_len(r) > 0, q.buf = r.buf, q.put_index = r.put_index,
         q.get_index = Following(r.get_index), ~q.is_full
  PROVE  RbContents(q) = Tail(RbContents(r))
<1> DEFINE get == r.get_index
           put == r.put_index
           len == sdk_ringbuffer_data_len(r)
           old == RbContents(r)
           new == RbContents(q)
<1>1. get \in Slots /\ put \in Slots
  BY DEF Rings
<1>2. /\ len = IF r.is_full THEN BufSize ELSE Gap(get, put)
      /\ len \in 0 .. BufSize /\ Len(old) = len /\ old \in Seq(Nat)
      /\ \A i \in 1 .. len : old[i] = r.buf[Ahead(get, i - 1)]
  BY ContentsAre
<1>3. Gap(Following(get), put) = len - 1
  <2>1. /\ get # put => Age(put, get) = Gap(get, put)
        /\ get = put => Age(put, get) = BufSize
        /\ Gap(get, put) = 0 <=> get = put
        /\ Gap(Following(get), put) = Age(put, get) - 1
    BY <1>1, GapIs
  <2> HIDE DEF get, put
  <2>2. r.is_full => put = get
    BY DEF get, put
  <2>3. QED
    BY <1>2, <2>1, <2>2
<1>4. /\ Len(new) = len - 1 /\ new \in Seq(Nat)
      /\ \A i \in 1 .. len - 1 : new[i] = r.buf[Ahead(Following(get), i - 1)]
  <2>1. sdk_ringbuffer_data_len(q) = len - 1
    BY <1>3, ContentsAre
  <2>2. QED
    BY <2>1, ContentsAre
<1>5. /\ Tail(old) \in Seq(Nat) /\ Len(Tail(old)) = len - 1
      /\ \A i \in 1 .. len - 1 : Tail(old)[i] = old[i + 1]
  BY <1>2, TailIs
<1> HIDE DEF get, put, len, old, new
<1>6. ASSUME NEW i \in 1 .. len - 1 PROVE new[i] = Tail(old)[i]
  <2>1. /\ i - 1 \in 0 .. BufSize - 1 /\ i - 1 + 1 = i /\ i < BufSize
        /\ i + 1 \in 1 .. len /\ i + 1 - 1 = i
    BY <1>2, BufSizeIsPositive
  <2>2. Ahead(Following(get), i - 1) = Ahead(get, i)
    BY <1>1, <2>1, AheadOf
  <2>3. old[i + 1] = r.buf[Ahead(get, i)]
    BY <1>2, <2>1
  <2>4. QED
    BY <1>4, <1>5, <2>2, <2>3
<1>7. new = Tail(old)
  BY <1>4, <1>5, <1>6, SameSeq
<1>8. QED
  BY <1>7 DEF new, old

\* The length data_len computes is what the invariant calls Held, except behind
\* the store of get_index.
LEMMA LenIsHeld ==
  ASSUME rb_pc # "clear"
  PROVE  sdk_ringbuffer_data_len(rb) = Held(rb, rb_pc)
BY DEF sdk_ringbuffer_data_len, Held, Gap

\* With the mask a put is a Receive, or refused.
LEMMA PutIsReceive ==
  ASSUME RbInv, rb_masked, RbPut
  PROVE  \/ UNCHANGED <<rb, rb_pc, rb_masked, rb_taken>>
         \/ RbPromise!Receive(rb_sent + 1) /\ rb_sent + 1 \in 1 .. RbBytes
<1>1. /\ UNCHANGED <<rb_masked, rb_pc, rb_taken>> /\ rb_pc = "idle"
      /\ rb_sent \in Nat /\ rb_sent < RbBytes
      /\ Refused \/ Added \/ Replaced
  BY PutDoes DEF RbInv, RbTypes
<1>2. rb_sent + 1 \in 1 .. RbBytes
  BY <1>1, BufSizeIsPositive
<1>3. CASE Refused
  BY <1>1, <1>3 DEF Refused
<1>4. ASSUME Added PROVE RbPromise!Receive(rb_sent + 1)
  <2>1. /\ RbContents(rb') = Append(RbContents(rb), rb_sent + 1)
        /\ Len(RbContents(rb)) < BufSize
    BY <1>4, AddedIsAppended DEF RbInv
  <2>2. QED
    BY <1>1, <2>1 DEF RbPromise!Receive
<1>5. ASSUME Replaced PROVE RbPromise!Receive(rb_sent + 1)
  <2>1. /\ RbContents(rb') = Append(Tail(RbContents(rb)), rb_sent + 1)
        /\ ~(Len(RbContents(rb)) < BufSize)
    <3>1. /\ RbContents(rb') = Append(Tail(RbContents(rb)), rb_sent + 1)
          /\ Len(RbContents(rb)) = BufSize
      BY <1>1, <1>5, ReplacedIsShifted DEF RbInv
    <3>2. QED
      BY <3>1, BufSizeIsPositive
  <2>2. QED
    BY <1>1, <2>1 DEF RbPromise!Receive
<1>6. QED
  BY <1>1, <1>2, <1>3, <1>4, <1>5

\* The byte that is read is the oldest: from there on it is taken.
LEMMA ReadSlotIsTake ==
  ASSUME RbInv, rb_masked, ReadSlot
  PROVE  RbPromise!Take
<1>1. /\ UNCHANGED <<rb, rb_masked>> /\ rb_pc = "read" /\ rb_pc' = "advance"
      /\ rb_taken' = Append(rb_taken, rb.buf[rb.get_index])
  BY DEF ReadSlot, rb_shared, RbInv, MaskedLoad
<1>2. rb \in Rings /\ rb.get_index \in Slots
  BY DEF RbInv, RbTypes, Rings
<1>3. sdk_ringbuffer_data_len(rb) > 0 /\ sdk_ringbuffer_data_len(rb) \in 0 .. BufSize
  BY <1>1, <1>2, LenIsHeld, ContentsAre DEF RbInv, FoundByte
<1>4. /\ RbContents(rb) \in Seq(Nat) /\ Len(RbContents(rb)) = sdk_ringbuffer_data_len(rb)
      /\ RbContents(rb)[1] = rb.buf[Ahead(rb.get_index, 0)]
  <2>1. 1 \in 1 .. sdk_ringbuffer_data_len(rb)
    BY <1>3, BufSizeIsPositive
  <2>2. QED
    BY <1>2, <2>1, ContentsAre
<1>5. Ahead(rb.get_index, 0) = rb.get_index
  BY <1>2, BufSizeIsPositive DEF Ahead, Slots
<1>6. RbContents(rb) # <<>> /\ Head(RbContents(rb)) = rb.buf[rb.get_index]
  BY <1>3, <1>4, <1>5, TailIs
<1>7. QED
  BY <1>1, <1>6 DEF RbPromise!Take

\* The store of get_index leaves what the promise sees as it is.
LEMMA StoreIsStutter ==
  ASSUME RbInv, rb_masked, StoreRbGetIndex
  PROVE  RbContents([rb' EXCEPT !.is_full = FALSE]) = Tail(RbContents(rb))
<1> DEFINE q == [rb' EXCEPT !.is_full = FALSE]
<1>1. /\ rb_pc = "store" /\ rb_get = rb.get_index
      /\ rb' = [rb EXCEPT !.get_index = Following(rb.get_index)]
  BY DEF StoreRbGetIndex, RbInv, MaskedLoad
<1>2. rb \in Rings /\ Following(rb.get_index) \in Slots
  BY FollowingIs DEF RbInv, RbTypes, Rings
<1>3. sdk_ringbuffer_data_len(rb) > 0
  BY <1>1, LenIsHeld DEF RbInv, MaskedLoad
<1>4. rb.is_full => rb.put_index = rb.get_index
  BY <1>1 DEF RbInv, FullIsFull
<1>5. /\ q \in Rings /\ q.buf = rb.buf /\ q.put_index = rb.put_index
      /\ q.get_index = Following(rb.get_index) /\ ~q.is_full
  BY <1>1, <1>2 DEF Rings
<1> HIDE DEF q
<1>6. RbContents(q) = Tail(RbContents(rb))
  BY <1>2, <1>3, <1>4, <1>5, MovedIsTail
<1>7. QED
  BY <1>6 DEF q

\* With the mask sdk_ringbuffer_getchar and the puts are a queue of BufSize bytes
\* that refuses a byte, or drives out its oldest, only when it is full, for every
\* length of the ring.
THEOREM RbKeepsPromise == RingBufferSpec => RbIsFifo
<1> DEFINE queue == IF ~rb_masked THEN <<>>
                    ELSE IF rb_pc \in {"advance", "store"} THEN Tail(RbContents(rb))
                    ELSE IF rb_pc = "clear" THEN RbContents([rb EXCEPT !.is_full = FALSE])
                    ELSE RbContents(rb)
           promised == <<queue, IF rb_masked THEN rb_taken ELSE <<>>>>
<1>1. RingBufferInit => RbPromise!Init
  <2> SUFFICES ASSUME RingBufferInit PROVE RbPromise!Init
    OBVIOUS
  <2>1. sdk_ringbuffer_data_len(rb) = 0
    BY BufSizeIsPositive DEF RingBufferInit, sdk_ringbuffer_init, sdk_ringbuffer_data_len
  <2>2. RbContents(rb) = <<>>
    BY <2>1 DEF RbContents
  <2>3. QED
    BY <2>2 DEF RingBufferInit, RbPromise!Init
<1>2. RbInv /\ [RingBufferNext]_rb_vars => [RbPromise!Next]_promised
  <2> SUFFICES ASSUME RbInv, [RingBufferNext]_rb_vars PROVE [RbPromise!Next]_promised
    OBVIOUS
  <2>1. rb_masked' = rb_masked
    BY DEF RingBufferNext, RbPut, sdk_ringbuffer_getchar, TestIsFull, CompareRbIndices,
           LoadRbSlotIndex, ReadSlot, LoadRbGetIndex, StoreRbGetIndex, ClearRbIsFull, rb_shared,
           rb_vars
  <2>2. CASE ~rb_masked
    BY <2>1, <2>2
  <2>3. CASE rb_masked
    <3>1. CASE RbPut
      <4>1. CASE UNCHANGED <<rb, rb_pc, rb_masked, rb_taken>>
        BY <4>1
      <4>2. CASE RbPromise!Receive(rb_sent + 1) /\ rb_sent + 1 \in 1 .. RbBytes
        BY <4>2 DEF RbPromise!Next
      <4>3. QED
        BY <2>3, <3>1, <4>1, <4>2, PutIsReceive
    <3>2. CASE ReadSlot
      BY <2>3, <3>2, ReadSlotIsTake DEF RbPromise!Next
    <3>3. CASE StoreRbGetIndex
      <4>1. queue = Tail(RbContents(rb)) /\ queue' = RbContents([rb' EXCEPT !.is_full = FALSE])
        BY <2>1, <2>3, <3>3 DEF StoreRbGetIndex
      <4>2. UNCHANGED promised
        BY <2>1, <2>3, <3>3, <4>1, StoreIsStutter DEF StoreRbGetIndex
      <4>3. QED
        BY <4>2
    <3>4. CASE ClearRbIsFull
      <4>1. queue = RbContents(rb') /\ queue' = RbContents(rb')
        BY <2>1, <2>3, <3>4 DEF ClearRbIsFull
      <4>2. UNCHANGED promised
        BY <2>1, <3>4, <4>1 DEF ClearRbIsFull
      <4>3. QED
        BY <4>2
    <3>5. CASE TestIsFull \/ CompareRbIndices \/ LoadRbSlotIndex \/ LoadRbGetIndex \/ UNCHANGED rb_vars
      <4>1. UNCHANGED promised
        BY <2>1, <3>5
          DEF TestIsFull, CompareRbIndices, LoadRbSlotIndex, LoadRbGetIndex, rb_shared, rb_vars
      <4>2. QED
        BY <4>1
    <3>6. QED
      BY <3>1, <3>2, <3>3, <3>4, <3>5 DEF RingBufferNext, sdk_ringbuffer_getchar
  <2>4. QED
    BY <2>2, <2>3
<1>3. QED
  BY <1>1, <1>2, RbInvAlways, PTL DEF RingBufferSpec, RbIsFifo, RbPromise!Spec
================================================================================
