------------------------------- MODULE SwI2cProofs ------------------------------
(***************************************************************************)
(* Proofs about SwI2c, for every width of a byte, every number of retries  *)
(* and every length of a call.                                             *)
(***************************************************************************)
EXTENDS SwI2c, Integers, TLAPS

--------------------------------------------------------------------------------
(* The parts of the inductive invariant                                    *)

Pcs == {"idle", "start", "start_scl", "write", "write_sda", "write_scl", "write_wait",
        "write_next", "write_end", "ack", "ack_scl", "ack_wait", "ack_read", "ack_end",
        "answered", "failed", "next", "read", "read_scl", "read_wait", "read_low",
        "give_ack", "give_scl", "give_wait", "give_low", "done",
        "stop", "stop_scl", "stop_wait", "stop_sda", "stopped"}

Wires == [sda : BOOLEAN, scl : BOOLEAN]

Xfers == [pc : Pcs, rd : BOOLEAN, addr : BOOLEAN, byte : Bytes8, bit : 1 .. ByteBits,
          left : Int, tries : Nat, ok : BOOLEAN]

Logs == [timed_out : BOOLEAN, nacks : Nat, ret : {"none", "ok", "error"}]

I2cTypes ==
  /\ wire \in Wires
  /\ slave \in Wires
  /\ xfer \in Xfers
  /\ bus_log \in Logs
  /\ clocked \in Seq(BOOLEAN)

\* Between two transfers, and before the first, the master drives no wire; in a
\* stop it lets go of the clock and then of the data.
LetsGo ==
  /\ xfer.pc \in {"idle", "start", "stopped"} => wire.sda /\ wire.scl
  /\ xfer.pc \in {"stop_scl", "stop_wait", "stop_sda"} => ~wire.sda
  /\ xfer.pc \in {"stop_wait", "stop_sda"} => wire.scl

\* Only the end of a message sets ret, behind the address.
RetIsOfMessage ==
  /\ xfer.pc \in {"next", "read", "read_scl", "read_wait", "read_low",
                  "give_ack", "give_scl", "give_wait", "give_low", "done"} => ~xfer.addr
  /\ bus_log.ret # "none" =>
       /\ xfer.pc \in {"stop", "stop_scl", "stop_wait", "stop_sda", "stopped", "idle"}
       /\ ~xfer.addr

\* A transfer goes on only behind bytes that were acknowledged.
GoesOnAcked ==
  Undisturbed =>
    /\ xfer.pc # "failed"
    /\ \/ xfer.pc \in {"ack_end", "answered"} /\ xfer.ok
       \/ xfer.pc \in {"start_scl", "write", "write_sda", "write_scl", "write_wait",
                       "write_next", "write_end", "ack", "ack_scl", "ack_wait", "ack_read",
                       "next", "read", "read_scl", "read_wait", "read_low",
                       "give_ack", "give_scl", "give_wait", "give_low", "done"}
       \/ bus_log.ret = "ok"
       => bus_log.nacks = 0

\* Where the master is about to move the data wire it holds the clock low.
ClockHeldLow ==
  Undisturbed =>
    /\ xfer.pc \in {"write_sda", "write_scl", "ack", "ack_scl", "answered", "next", "read",
                    "read_scl", "give_ack", "give_scl", "done", "stop", "stop_scl"} => ~wire.scl
    /\ xfer.pc = "write" => SCL \/ ~wire.scl

\* Where it has released the clock and waited, and where it is to start, the
\* clock is high.
ClockIsUp ==
  Undisturbed /\ xfer.pc \in {"start", "start_scl", "write_next", "write_end", "ack_read",
                              "ack_end", "read_low", "give_low", "stop_sda", "stopped"} => SCL

\* In a stop and behind it the slave does not touch the data wire.
SlaveIsQuiet ==
  Undisturbed /\ xfer.pc \in {"stop_wait", "stop_sda", "stopped", "start", "write_wait"}
  => ~slave.sda

\* While the clock rises the data wire has the bit.
BitIsOut == xfer.pc \in {"write_scl", "write_wait"} => wire.sda = xfer.byte[xfer.bit]

Whole(n) == n % (ByteBits + 1) = 0

\* Since the last START there were whole bytes with their acknowledge bits, and
\* k bits of this one.
Framed(k) ==
  /\ Len(clocked) >= k
  /\ Whole(Len(clocked) - k)
  /\ \A i \in 1 .. k : clocked[Len(clocked) - k + i] = xfer.byte[i]

BitsAreFramed ==
  Undisturbed =>
    /\ xfer.pc \in {"start_scl", "next", "answered", "ack_read", "ack_end"} => Framed(0)
    /\ xfer.pc \in {"write", "write_sda", "write_scl"} => Framed(xfer.bit - 1)
    /\ xfer.pc = "write_wait" => Framed(IF SCL THEN xfer.bit ELSE xfer.bit - 1)
    /\ xfer.pc = "write_next" => Framed(xfer.bit)
    /\ xfer.pc \in {"write_end", "ack", "ack_scl"} => Framed(ByteBits)
    /\ xfer.pc = "ack_wait" => Framed(IF SCL THEN 0 ELSE ByteBits)

\* A byte starts with its first bit.
FromFirstBit ==
  /\ xfer.pc \in {"start", "start_scl"} => xfer.bit = 1
  /\ xfer.pc \in {"stop", "stop_scl", "stop_wait", "stop_sda", "stopped"} /\ xfer.addr => xfer.bit = 1
  /\ Undisturbed /\ xfer.pc \in {"write_end", "ack", "ack_scl", "ack_wait", "ack_read", "ack_end",
                                 "answered", "next"} => xfer.bit = 1

I2cInv ==
  /\ I2cTypes
  /\ LetsGo
  /\ RetIsOfMessage
  /\ GoesOnAcked
  /\ ClockHeldLow
  /\ ClockIsUp
  /\ SlaveIsQuiet
  /\ BitIsOut
  /\ BitsAreFramed
  /\ FromFirstBit

--------------------------------------------------------------------------------
(* What the steps of the master change                                     *)

Fields == <<xfer.rd, xfer.addr, xfer.byte, xfer.bit, xfer.left, xfer.tries, xfer.ok>>

LEMMA DriveDoes ==
  ASSUME I2cTypes, NEW from, NEW line \in {"sda", "scl"}, NEW level \in BOOLEAN, NEW to \in Pcs,
         Drive(from, line, level, to)
  PROVE  /\ xfer.pc = from /\ xfer'.pc = to
         /\ UNCHANGED <<Fields, slave, bus_log>>
         /\ wire'.sda = IF line = "sda" THEN level ELSE wire.sda
         /\ wire'.scl = IF line = "scl" THEN level ELSE wire.scl
         /\ wire' \in Wires /\ xfer' \in Xfers
<1>1. wire' = [wire EXCEPT ![line] = level] /\ xfer' = [xfer EXCEPT !.pc = to]
  BY DEF Drive
<1>2. wire \in Wires /\ xfer \in Xfers
  BY DEF I2cTypes
<1>3. UNCHANGED Fields /\ xfer'.pc = to /\ xfer' \in Xfers
  BY <1>1, <1>2 DEF Fields, Xfers
<1>4. wire' \in Wires
  BY <1>1, <1>2 DEF Wires
<1>5. /\ wire'.sda = IF line = "sda" THEN level ELSE wire.sda
      /\ wire'.scl = IF line = "scl" THEN level ELSE wire.scl
  BY <1>1, <1>2 DEF Wires
<1>6. QED
  BY <1>3, <1>4, <1>5 DEF Drive

LEMMA WaitDoes ==
  ASSUME I2cTypes, NEW from, NEW to \in Pcs, ClockRises(from, to)
  PROVE  /\ xfer.pc = from /\ xfer'.pc = to /\ SCL
         /\ UNCHANGED <<Fields, wire, slave, bus_log>>
         /\ xfer' \in Xfers
<1>1. xfer' = [xfer EXCEPT !.pc = to] /\ xfer \in Xfers
  BY DEF ClockRises, I2cTypes
<1>2. UNCHANGED Fields /\ xfer'.pc = to /\ xfer' \in Xfers
  BY <1>1 DEF Fields, Xfers
<1>3. QED
  BY <1>2 DEF ClockRises, ClockIsHigh

LEMMA TimeoutDoes ==
  ASSUME I2cTypes, NEW from, NEW to \in Pcs, NEW ok \in BOOLEAN, ClockTimeout(from, to, ok)
  PROVE  /\ xfer.pc = from /\ xfer'.pc = to
         /\ UNCHANGED <<xfer.addr, xfer.bit, bus_log.ret, wire, slave>>
         /\ bus_log'.timed_out
         /\ xfer' \in Xfers
<1>1. xfer' = [xfer EXCEPT !.pc = to, !.ok = ok] /\ xfer \in Xfers
  BY DEF ClockTimeout, I2cTypes
<1>2. xfer'.addr = xfer.addr /\ xfer'.bit = xfer.bit /\ xfer'.pc = to /\ xfer' \in Xfers
  BY <1>1 DEF Xfers
<1>3. bus_log' = [bus_log EXCEPT !.timed_out = TRUE]
  BY DEF ClockTimeout
<1>4. bus_log'.timed_out /\ bus_log'.ret = bus_log.ret
  BY <1>3 DEF I2cTypes, Logs
<1>5. QED
  BY <1>2, <1>4 DEF ClockTimeout

Goes(from, to) == xfer.pc = from /\ xfer'.pc = to

SetSda(level) == wire'.sda = level /\ wire'.scl = wire.scl
SetScl(level) == wire'.scl = level /\ wire'.sda = wire.sda

\* A wire is driven.
MovesWire ==
  /\ UNCHANGED <<Fields, slave, bus_log>>
  /\ \/ Goes("start_scl", "write") /\ SetScl(FALSE)
     \/ Goes("stop", "stop_scl") /\ SetSda(FALSE)
     \/ Goes("stop_scl", "stop_wait") /\ SetScl(TRUE)
     \/ Goes("stop_sda", "stopped") /\ SetSda(TRUE)
     \/ Goes("write", "write_sda") /\ SetScl(FALSE)
     \/ Goes("write_sda", "write_scl") /\ SetSda(xfer.byte[xfer.bit])
     \/ Goes("write_scl", "write_wait") /\ SetScl(TRUE)
     \/ Goes("write_end", "ack") /\ SetScl(FALSE)
     \/ Goes("ack", "ack_scl") /\ SetSda(TRUE)
     \/ Goes("ack_scl", "ack_wait") /\ SetScl(TRUE)
     \/ Goes("ack_end", "answered") /\ SetScl(FALSE)
     \/ Goes("read", "read_scl") /\ SetSda(TRUE)
     \/ Goes("read_scl", "read_wait") /\ SetScl(TRUE)
     \/ Goes("give_ack", "give_scl") /\ SetSda(wire'.sda)
     \/ Goes("give_scl", "give_wait") /\ SetScl(TRUE)
     \/ (Goes("give_low", "read") \/ Goes("give_low", "done")) /\ SetScl(FALSE)

\* A wait for the clock ends.
Waits ==
  /\ SCL
  /\ UNCHANGED <<Fields, wire, slave, bus_log>>
  /\ \/ Goes("write_wait", "write_next")
     \/ Goes("ack_wait", "ack_read")
     \/ Goes("read_wait", "read_low")
     \/ Goes("give_wait", "give_low")
     \/ Goes("stop_wait", "stop_sda")

\* It times out.
TimesOut ==
  /\ bus_log'.timed_out
  /\ UNCHANGED <<xfer.addr, xfer.bit, bus_log.ret, wire, slave>>
  /\ \/ Goes("write_wait", "failed")
     \/ Goes("ack_wait", "answered")
     \/ Goes("read_wait", "failed")
     \/ Goes("give_wait", "failed")
     \/ Goes("stop_wait", "stop_sda")

\* A call, or a START.
Starts ==
  /\ UNCHANGED slave
  /\ bus_log'.nacks = 0
  /\ \/ /\ Goes("idle", "start")
        /\ xfer'.bit = 1 /\ bus_log'.ret = "none"
        /\ ~bus_log'.timed_out => SDA /\ SCL
        /\ UNCHANGED wire
     \/ /\ Goes("start", "start_scl")
        /\ SetSda(FALSE)
        /\ UNCHANGED <<Fields, bus_log.timed_out, bus_log.ret>>

\* A bit is done.
EndsBit ==
  /\ UNCHANGED <<xfer.addr, xfer.byte, slave, bus_log.timed_out, bus_log.ret>>
  /\ \/ /\ \/ Goes("write_next", "write") /\ xfer'.bit = xfer.bit + 1
           \/ Goes("write_next", "write_end") /\ xfer.bit = ByteBits /\ xfer'.bit = 1
        /\ UNCHANGED <<wire, bus_log>>
     \/ /\ Goes("ack_read", "ack_end")
        /\ xfer'.bit = xfer.bit /\ UNCHANGED wire
        /\ xfer'.ok => ~SDA
        /\ ~SDA => bus_log'.nacks = bus_log.nacks
     \/ /\ Goes("read_low", "read_scl") \/ Goes("read_low", "give_ack")
        /\ SetScl(FALSE) /\ UNCHANGED bus_log

\* The transfer goes on, or ends.
Decides ==
  /\ UNCHANGED <<wire, slave, bus_log>>
  /\ \/ /\ xfer.addr
        /\ \/ xfer.ok /\ xfer.pc \in {"answered", "failed"} /\ xfer'.pc = "next"
              /\ ~xfer'.addr /\ xfer'.bit = xfer.bit
           \/ (Goes("answered", "stop") \/ Goes("failed", "stop")) /\ (xfer'.addr => xfer'.bit = 1)
     \/ /\ Goes("next", "done") \/ Goes("next", "read") \/ Goes("next", "write")
        /\ UNCHANGED <<xfer.addr, xfer.bit>>
     \/ /\ ~xfer.addr /\ ~xfer'.addr
        /\ \/ xfer.ok /\ Goes("answered", "next") /\ xfer'.bit = xfer.bit
           \/ Goes("answered", "stop")
           \/ Goes("failed", "stop")

\* A message ends, or a stop does.
Ends ==
  /\ UNCHANGED <<Fields, wire, slave, bus_log.timed_out, bus_log.nacks>>
  /\ \/ Goes("done", "stop")
     \/ Goes("stopped", "start") /\ xfer.addr /\ UNCHANGED bus_log.ret
     \/ Goes("stopped", "idle") /\ ~xfer.addr /\ (bus_log.ret = "ok" \/ bus_log'.ret # "ok")

LEMMA MasterDoes ==
  ASSUME I2cTypes, Master
  PROVE  MovesWire \/ Waits \/ TimesOut \/ Starts \/ EndsBit \/ Decides \/ Ends
<1> USE DEF Goes, SetSda, SetScl
<1>1. xfer \in Xfers /\ xfer.byte[xfer.bit] \in BOOLEAN /\ wire \in Wires /\ SDA \in BOOLEAN
  BY DEF I2cTypes, Xfers, Bytes8, Wires, SDA
<1>2. ASSUME i2c_bit_xfer PROVE Starts
  <2>1. PICK rd \in BOOLEAN, count \in 0 .. MaxCount, addr \in Bytes8 :
          xfer' = [pc |-> "start", rd |-> rd, addr |-> TRUE, byte |-> addr, bit |-> 1,
                   left |-> count, tries |-> 0, ok |-> FALSE]
    BY <1>2 DEF i2c_bit_xfer
  <2>2. xfer'.pc = "start" /\ xfer'.bit = 1
    BY <2>1
  <2>3. bus_log' = [timed_out |-> ~(SDA /\ SCL), nacks |-> 0, ret |-> "none"]
    BY <1>2 DEF i2c_bit_xfer
  <2>4. bus_log'.nacks = 0 /\ bus_log'.ret = "none" /\ (~bus_log'.timed_out => SDA /\ SCL)
    BY <2>3
  <2>5. QED
    BY <1>2, <2>2, <2>4 DEF i2c_bit_xfer, Starts
<1>3. ASSUME i2c_start PROVE Starts \/ MovesWire
  <2>1. ASSUME SDA_L_start("start", "start_scl") PROVE Starts
    <3>1. xfer' = [xfer EXCEPT !.pc = "start_scl"] /\ wire' = [wire EXCEPT !.sda = FALSE]
      BY <2>1 DEF SDA_L_start
    <3>2. bus_log' = [bus_log EXCEPT !.nacks = 0]
      BY <2>1 DEF SDA_L_start
    <3>3. UNCHANGED Fields /\ xfer'.pc = "start_scl"
      BY <1>1, <3>1 DEF Xfers, Fields
    <3>4. SetSda(FALSE)
      BY <1>1, <3>1 DEF Wires
    <3>5. bus_log'.nacks = 0 /\ UNCHANGED <<bus_log.timed_out, bus_log.ret>>
      BY <3>2 DEF I2cTypes, Logs
    <3>6. QED
      BY <2>1, <3>3, <3>4, <3>5 DEF SDA_L_start, Starts
  <2>2. ASSUME Drive("start_scl", "scl", FALSE, "write") PROVE MovesWire
    BY <2>2, DriveDoes DEF MovesWire, Pcs
  <2>3. QED
    BY <1>3, <2>1, <2>2 DEF i2c_start
<1>4. ASSUME i2c_stop PROVE MovesWire \/ Waits \/ TimesOut
  <2>1. ASSUME \/ Drive("stop", "sda", FALSE, "stop_scl")
               \/ Drive("stop_scl", "scl", TRUE, "stop_wait")
               \/ Drive("stop_sda", "sda", TRUE, "stopped")
        PROVE  MovesWire
    BY <2>1, DriveDoes DEF MovesWire, Pcs
  <2>2. ASSUME /\ xfer.pc = "stop_wait"
               /\ \/ SCL /\ UNCHANGED bus_log
                  \/ ~SCL /\ bus_log' = [bus_log EXCEPT !.timed_out = TRUE]
               /\ xfer' = [xfer EXCEPT !.pc = "stop_sda"]
               /\ UNCHANGED <<wire, slave>>
        PROVE  Waits \/ TimesOut
    <3>1. UNCHANGED Fields /\ xfer'.pc = "stop_sda"
      BY <1>1, <2>2 DEF Xfers, Fields
    <3>2. bus_log' = bus_log \/ (bus_log'.timed_out /\ bus_log'.ret = bus_log.ret)
      BY <2>2 DEF I2cTypes, Logs
    <3>3. QED
      BY <2>2, <3>1, <3>2 DEF Waits, TimesOut, Fields, I2cTypes, Logs
  <2>3. QED
    BY <1>4, <2>1, <2>2 DEF i2c_stop
<1>5. ASSUME i2c_writeb PROVE MovesWire \/ Waits \/ TimesOut \/ EndsBit
  <2>1. ASSUME WriteBit \/ Drive("write_end", "scl", FALSE, "ack") PROVE MovesWire
    <3> DEFINE level == xfer.byte[xfer.bit]
    <3>1. ASSUME \/ Drive("write", "scl", FALSE, "write_sda")
                 \/ Drive("write_scl", "scl", TRUE, "write_wait")
                 \/ Drive("write_end", "scl", FALSE, "ack")
          PROVE  MovesWire
      BY <3>1, DriveDoes DEF MovesWire, Pcs
    <3>2. ASSUME Drive("write_sda", "sda", level, "write_scl") PROVE MovesWire
      <4>1. level \in BOOLEAN
        BY <1>1
      <4>2. "write_scl" \in Pcs
        BY DEF Pcs
      <4> HIDE DEF level
      <4>3. /\ Goes("write_sda", "write_scl") /\ SetSda(level)
            /\ UNCHANGED <<Fields, slave, bus_log>>
        BY <3>2, <4>1, <4>2, DriveDoes
      <4>4. QED
        BY <4>3 DEF MovesWire, level
    <3>3. QED
      BY <2>1, <3>1, <3>2 DEF WriteBit
  <2>2. ASSUME ClockRises("write_wait", "write_next") PROVE Waits
    BY <2>2, WaitDoes DEF Waits, Pcs
  <2>3. ASSUME ClockTimeout("write_wait", "failed", FALSE) PROVE TimesOut
    BY <2>3, TimeoutDoes DEF TimesOut, Pcs
  <2>4. ASSUME /\ xfer.pc = "write_next"
               /\ xfer' = IF xfer.bit < ByteBits THEN [xfer EXCEPT !.bit = @ + 1, !.pc = "write"]
                                                 ELSE [xfer EXCEPT !.bit = 1, !.pc = "write_end"]
               /\ UNCHANGED <<wire, slave, bus_log>>
        PROVE  EndsBit
    <3>1. CASE xfer.bit < ByteBits
      BY <1>1, <2>4, <3>1 DEF EndsBit, Xfers
    <3>2. CASE ~(xfer.bit < ByteBits)
      BY <1>1, <2>4, <3>2, I2cNumbers DEF EndsBit, Xfers
    <3>3. QED
      BY <3>1, <3>2
  <2>5. QED
    BY <1>5, <2>1, <2>2, <2>3, <2>4 DEF i2c_writeb
<1>6. ASSUME i2c_waitack PROVE MovesWire \/ Waits \/ TimesOut \/ EndsBit
  <2>1. ASSUME \/ Drive("ack", "sda", TRUE, "ack_scl")
               \/ Drive("ack_scl", "scl", TRUE, "ack_wait")
               \/ Drive("ack_end", "scl", FALSE, "answered")
        PROVE  MovesWire
    BY <2>1, DriveDoes DEF MovesWire, Pcs
  <2>2. ASSUME ClockRises("ack_wait", "ack_read") PROVE Waits
    BY <2>2, WaitDoes DEF Waits, Pcs
  <2>3. ASSUME ClockTimeout("ack_wait", "answered", TRUE) PROVE TimesOut
    BY <2>3, TimeoutDoes DEF TimesOut, Pcs
  <2>4. ASSUME /\ xfer.pc = "ack_read"
               /\ xfer' = [xfer EXCEPT !.pc = "ack_end", !.ok = AckIsLow]
               /\ bus_log' = [bus_log EXCEPT !.nacks = IF SDA THEN @ + 1 ELSE @]
               /\ UNCHANGED <<wire, slave>>
        PROVE  EndsBit
    <3>1. /\ xfer'.pc = "ack_end" /\ xfer'.ok = AckIsLow
          /\ UNCHANGED <<xfer.addr, xfer.byte, xfer.bit>>
      BY <1>1, <2>4 DEF Xfers
    <3>2. /\ UNCHANGED <<bus_log.timed_out, bus_log.ret>>
          /\ ~SDA => bus_log'.nacks = bus_log.nacks
      BY <2>4 DEF I2cTypes, Logs
    <3>3. QED
      BY <2>4, <3>1, <3>2 DEF EndsBit, AckIsLow
  <2>5. QED
    BY <1>6, <2>1, <2>2, <2>3, <2>4 DEF i2c_waitack
<1>7. ASSUME i2c_recv_bytes PROVE MovesWire \/ Waits \/ TimesOut \/ EndsBit
  <2> DEFINE level == IF xfer.left > 0 THEN FALSE ELSE wire.sda
             to    == IF xfer.left > 0 THEN "read" ELSE "done"
  <2>1. ASSUME \/ Drive("read", "sda", TRUE, "read_scl")
               \/ Drive("read_scl", "scl", TRUE, "read_wait")
               \/ Drive("give_scl", "scl", TRUE, "give_wait")
        PROVE  MovesWire
    BY <2>1, DriveDoes DEF MovesWire, Pcs
  <2>2. ASSUME Drive("give_ack", "sda", level, "give_scl") PROVE MovesWire
    <3>1. level \in BOOLEAN
      BY <1>1 DEF Wires
    <3>2. "give_scl" \in Pcs
      BY DEF Pcs
    <3> HIDE DEF level
    <3>3. Goes("give_ack", "give_scl") /\ SetSda(level) /\ UNCHANGED <<Fields, slave, bus_log>>
      BY <2>2, <3>1, <3>2, DriveDoes
    <3>4. QED
      BY <3>3 DEF MovesWire
  <2>3. ASSUME Drive("give_low", "scl", FALSE, to) PROVE MovesWire
    <3>1. to \in {"read", "done"}
      OBVIOUS
    <3>2. to \in Pcs
      BY DEF Pcs
    <3> HIDE DEF to
    <3>3. Goes("give_low", to) /\ SetScl(FALSE) /\ UNCHANGED <<Fields, slave, bus_log>>
      BY <2>3, <3>2, DriveDoes
    <3>4. QED
      BY <3>1, <3>3 DEF MovesWire
  <2>4. ASSUME ClockRises("read_wait", "read_low") \/ ClockRises("give_wait", "give_low") PROVE Waits
    BY <2>4, WaitDoes DEF Waits, Pcs
  <2>5. ASSUME ClockTimeout("read_wait", "failed", FALSE) \/ ClockTimeout("give_wait", "failed", FALSE)
        PROVE  TimesOut
    BY <2>5, TimeoutDoes DEF TimesOut, Pcs
  <2>6. ASSUME /\ xfer.pc = "read_low"
               /\ wire' = [wire EXCEPT !.scl = FALSE]
               /\ xfer' = IF xfer.bit < ByteBits
                            THEN [xfer EXCEPT !.bit = @ + 1, !.pc = "read_scl"]
                            ELSE [xfer EXCEPT !.bit = 1, !.pc = "give_ack", !.left = @ - 1]
               /\ UNCHANGED <<slave, bus_log>>
        PROVE  EndsBit
    <3>1. SetScl(FALSE)
      BY <1>1, <2>6 DEF Wires
    <3>2. CASE xfer.bit < ByteBits
      BY <1>1, <2>6, <3>1, <3>2 DEF EndsBit, Xfers
    <3>3. CASE ~(xfer.bit < ByteBits)
      <4>1. xfer' = [xfer EXCEPT !.bit = 1, !.pc = "give_ack", !.left = @ - 1]
        BY <2>6, <3>3
      <4>2. xfer'.pc = "give_ack" /\ UNCHANGED <<xfer.addr, xfer.byte>>
        BY <1>1, <4>1 DEF Xfers
      <4>3. QED
        BY <2>6, <3>1, <4>2 DEF EndsBit
    <3>4. QED
      BY <3>2, <3>3
  <2>7. QED
    BY <1>7, <2>1, <2>2, <2>3, <2>4, <2>5, <2>6 DEF i2c_recv_bytes, i2c_readb, i2c_send_ack_or_nack
<1>8. ASSUME i2c_send_address PROVE Decides
  <2>1. CASE xfer.ok
    BY <1>1, <1>8, <2>1 DEF i2c_send_address, Decides, Xfers
  <2>2. CASE ~xfer.ok /\ xfer.tries < Retries
    <3>1. xfer' = [xfer EXCEPT !.tries = @ + 1, !.pc = "stop", !.bit = 1]
      BY <1>8, <2>2 DEF i2c_send_address
    <3>2. xfer'.pc = "stop" /\ xfer'.bit = 1
      BY <1>1, <3>1 DEF Xfers
    <3>3. QED
      BY <1>8, <3>2 DEF i2c_send_address, Decides
  <2>3. CASE ~xfer.ok /\ ~(xfer.tries < Retries)
    BY <1>1, <1>8, <2>3 DEF i2c_send_address, Decides, Xfers
  <2>4. QED
    BY <2>1, <2>2, <2>3
<1>9. ASSUME NextByte PROVE Decides
  BY <1>1, <1>9 DEF NextByte, Decides, Xfers
<1>10. ASSUME i2c_send_bytes PROVE Decides
  BY <1>1, <1>10 DEF i2c_send_bytes, Decides, Xfers
<1>11. ASSUME DataFailed PROVE Decides
  BY <1>1, <1>11 DEF DataFailed, Decides, Xfers
<1>12. ASSUME MessageDone \/ AfterStop PROVE Ends
  <2>1. UNCHANGED Fields
    BY <1>1, <1>12 DEF MessageDone, AfterStop, Xfers, Fields
  <2>2. ASSUME MessageDone PROVE Ends
    BY <1>1, <2>1, <2>2 DEF MessageDone, Ends, Xfers, I2cTypes, Logs
  <2>3. ASSUME AfterStop PROVE Ends
    BY <1>1, <2>1, <2>3 DEF AfterStop, Ends, Xfers, I2cTypes, Logs
  <2>4. QED
    BY <1>12, <2>2, <2>3
<1>13. QED
  BY <1>2, <1>3, <1>4, <1>5, <1>6, <1>7, <1>8, <1>9, <1>10, <1>11, <1>12 DEF Master

LEMMA MasterKeepsTypes ==
  ASSUME I2cTypes, Master
  PROVE  wire' \in Wires /\ slave' \in Wires /\ xfer' \in Xfers /\ bus_log' \in Logs
<1> DEFINE Kept == wire' \in Wires /\ slave' \in Wires /\ xfer' \in Xfers /\ bus_log' \in Logs
<1>1. wire \in Wires /\ slave \in Wires /\ xfer \in Xfers /\ bus_log \in Logs
  BY DEF I2cTypes
<1>2. /\ xfer.byte[xfer.bit] \in BOOLEAN /\ wire.sda \in BOOLEAN /\ SDA \in BOOLEAN
      /\ 1 \in 1 .. ByteBits /\ xfer.left - 1 \in Int /\ xfer.tries + 1 \in Nat
  BY <1>1, I2cNumbers DEF Xfers, Bytes8, Wires, SDA
<1>3. \A pc \in Pcs : [xfer EXCEPT !.pc = pc] \in Xfers
  BY <1>1 DEF Xfers
<1>4. [bus_log EXCEPT !.timed_out = TRUE] \in Logs
  BY <1>1 DEF Logs
<1>5. ASSUME NEW from, NEW line \in {"sda", "scl"}, NEW level \in BOOLEAN, NEW to \in Pcs,
             Drive(from, line, level, to)
      PROVE  Kept
  BY <1>1, <1>5, DriveDoes DEF Drive
<1>6. ASSUME NEW from, NEW to \in Pcs, ClockRises(from, to) PROVE Kept
  BY <1>1, <1>6, WaitDoes DEF ClockRises
<1>7. ASSUME NEW from, NEW to \in Pcs, NEW ok \in BOOLEAN, ClockTimeout(from, to, ok) PROVE Kept
  BY <1>1, <1>4, <1>7, TimeoutDoes DEF ClockTimeout
<1> HIDE DEF Kept
<1>8. ASSUME i2c_bit_xfer PROVE Kept
  <2>1. PICK rd \in BOOLEAN, count \in 0 .. MaxCount, addr \in Bytes8 :
          xfer' = [pc |-> "start", rd |-> rd, addr |-> TRUE, byte |-> addr, bit |-> 1,
                   left |-> count, tries |-> 0, ok |-> FALSE]
    BY <1>8 DEF i2c_bit_xfer
  <2>2. xfer' \in Xfers
    BY <1>2, <2>1, I2cNumbers DEF Xfers, Pcs
  <2>3. bus_log' \in Logs
    BY <1>8 DEF i2c_bit_xfer, Logs
  <2>4. QED
    BY <1>1, <1>8, <2>2, <2>3 DEF i2c_bit_xfer, Kept
<1>9. ASSUME i2c_start PROVE Kept
  <2>1. ASSUME SDA_L_start("start", "start_scl") PROVE Kept
    <3>1. "start_scl" \in Pcs
      BY DEF Pcs
    <3>2. [wire EXCEPT !.sda = FALSE] \in Wires /\ [bus_log EXCEPT !.nacks = 0] \in Logs
      BY <1>1 DEF Wires, Logs
    <3>3. QED
      BY <1>1, <1>3, <2>1, <3>1, <3>2 DEF SDA_L_start, Kept
  <2>2. ASSUME Drive("start_scl", "scl", FALSE, "write") PROVE Kept
    BY <1>5, <2>2 DEF Pcs
  <2>3. QED
    BY <1>9, <2>1, <2>2 DEF i2c_start
<1>10. ASSUME i2c_stop PROVE Kept
  <2>1. ASSUME \/ Drive("stop", "sda", FALSE, "stop_scl")
               \/ Drive("stop_scl", "scl", TRUE, "stop_wait")
               \/ Drive("stop_sda", "sda", TRUE, "stopped")
        PROVE  Kept
    BY <1>5, <2>1 DEF Pcs
  <2>2. ASSUME /\ xfer.pc = "stop_wait"
               /\ \/ SCL /\ UNCHANGED bus_log
                  \/ ~SCL /\ bus_log' = [bus_log EXCEPT !.timed_out = TRUE]
               /\ xfer' = [xfer EXCEPT !.pc = "stop_sda"]
               /\ UNCHANGED <<wire, slave>>
        PROVE  Kept
    BY <1>1, <1>3, <1>4, <2>2 DEF Pcs, Kept
  <2>3. QED
    BY <1>10, <2>1, <2>2 DEF i2c_stop
<1>11. ASSUME i2c_writeb PROVE Kept
  <2>1. ASSUME \/ Drive("write", "scl", FALSE, "write_sda")
               \/ Drive("write_sda", "sda", xfer.byte[xfer.bit], "write_scl")
               \/ Drive("write_scl", "scl", TRUE, "write_wait")
               \/ Drive("write_end", "scl", FALSE, "ack")
        PROVE  Kept
    BY <1>2, <1>5, <2>1 DEF Pcs
  <2>2. ASSUME /\ xfer' = IF xfer.bit < ByteBits THEN [xfer EXCEPT !.bit = @ + 1, !.pc = "write"]
                                                 ELSE [xfer EXCEPT !.bit = 1, !.pc = "write_end"]
               /\ UNCHANGED <<wire, slave, bus_log>>
        PROVE  Kept
    <3>1. xfer.bit < ByteBits => xfer.bit + 1 \in 1 .. ByteBits
      BY <1>1, I2cNumbers DEF Xfers
    <3>2. \A pc \in Pcs, k \in 1 .. ByteBits : [xfer EXCEPT !.bit = k, !.pc = pc] \in Xfers
      BY <1>1 DEF Xfers
    <3>3. QED
      BY <1>1, <1>2, <2>2, <3>1, <3>2 DEF Pcs, Kept
  <2>3. QED
    BY <1>6, <1>7, <1>11, <2>1, <2>2 DEF i2c_writeb, WriteBit, Pcs
<1>12. ASSUME i2c_waitack PROVE Kept
  <2>1. ASSUME \/ Drive("ack", "sda", TRUE, "ack_scl")
               \/ Drive("ack_scl", "scl", TRUE, "ack_wait")
               \/ Drive("ack_end", "scl", FALSE, "answered")
        PROVE  Kept
    BY <1>5, <2>1 DEF Pcs
  <2>2. ASSUME /\ xfer' = [xfer EXCEPT !.pc = "ack_end", !.ok = AckIsLow]
               /\ bus_log' = [bus_log EXCEPT !.nacks = IF SDA THEN @ + 1 ELSE @]
               /\ UNCHANGED <<wire, slave>>
        PROVE  Kept
    <3>1. AckIsLow \in BOOLEAN /\ "ack_end" \in Pcs
      BY DEF AckIsLow, Pcs
    <3>2. \A pc \in Pcs, ok \in BOOLEAN : [xfer EXCEPT !.pc = pc, !.ok = ok] \in Xfers
      BY <1>1 DEF Xfers
    <3>3. bus_log' \in Logs
      BY <1>1, <2>2 DEF Logs
    <3>4. QED
      BY <1>1, <2>2, <3>1, <3>2, <3>3 DEF Kept
  <2>3. QED
    BY <1>6, <1>7, <1>12, <2>1, <2>2 DEF i2c_waitack, Pcs
<1>13. ASSUME i2c_recv_bytes PROVE Kept
  <2>1. ASSUME \/ Drive("read", "sda", TRUE, "read_scl")
               \/ Drive("read_scl", "scl", TRUE, "read_wait")
               \/ Drive("give_ack", "sda", IF xfer.left > 0 THEN FALSE ELSE wire.sda, "give_scl")
               \/ Drive("give_scl", "scl", TRUE, "give_wait")
               \/ Drive("give_low", "scl", FALSE, IF xfer.left > 0 THEN "read" ELSE "done")
        PROVE  Kept
    <3>1. /\ (IF xfer.left > 0 THEN FALSE ELSE wire.sda) \in BOOLEAN
          /\ (IF xfer.left > 0 THEN "read" ELSE "done") \in Pcs
      BY <1>2 DEF Pcs
    <3>2. QED
      BY <1>5, <2>1, <3>1 DEF Pcs
  <2>2. ASSUME /\ wire' = [wire EXCEPT !.scl = FALSE]
               /\ xfer' = IF xfer.bit < ByteBits
                            THEN [xfer EXCEPT !.bit = @ + 1, !.pc = "read_scl"]
                            ELSE [xfer EXCEPT !.bit = 1, !.pc = "give_ack", !.left = @ - 1]
               /\ UNCHANGED <<slave, bus_log>>
        PROVE  Kept
    <3>1. xfer.bit < ByteBits => xfer.bit + 1 \in 1 .. ByteBits
      BY <1>1, I2cNumbers DEF Xfers
    <3>2. \A pc \in Pcs, k \in 1 .. ByteBits : [xfer EXCEPT !.bit = k, !.pc = pc] \in Xfers
      BY <1>1 DEF Xfers
    <3>3. \A pc \in Pcs, k \in 1 .. ByteBits, n \in Int :
            [xfer EXCEPT !.bit = k, !.pc = pc, !.left = n] \in Xfers
      BY <1>1 DEF Xfers
    <3>4. wire' \in Wires
      BY <1>1, <2>2 DEF Wires
    <3>5. QED
      BY <1>1, <1>2, <2>2, <3>1, <3>2, <3>3, <3>4 DEF Pcs, Kept
  <2>3. QED
    BY <1>6, <1>7, <1>13, <2>1, <2>2 DEF i2c_recv_bytes, i2c_readb, i2c_send_ack_or_nack, Pcs
<1>14. ASSUME i2c_send_address \/ NextByte \/ i2c_send_bytes \/ DataFailed PROVE Kept
  <2>1. \A pc \in Pcs : [xfer EXCEPT !.addr = FALSE, !.pc = pc] \in Xfers
    BY <1>1 DEF Xfers
  <2>2. \A n \in Nat, pc \in Pcs, k \in 1 .. ByteBits :
          [xfer EXCEPT !.tries = n, !.pc = pc, !.bit = k] \in Xfers
    BY <1>1 DEF Xfers
  <2>3. \A pc \in Pcs, b \in Bytes8 : [xfer EXCEPT !.pc = pc, !.byte = b] \in Xfers
    BY <1>1 DEF Xfers
  <2>4. \A n \in Int, pc \in Pcs : [xfer EXCEPT !.left = n, !.pc = pc] \in Xfers
    BY <1>1 DEF Xfers
  <2>5. ASSUME i2c_send_address PROVE xfer' \in Xfers
    BY <1>2, <2>1, <2>2, <2>5 DEF i2c_send_address, Pcs
  <2>6. ASSUME NextByte PROVE xfer' \in Xfers
    BY <1>3, <2>3, <2>6 DEF NextByte, Pcs
  <2>7. ASSUME i2c_send_bytes \/ DataFailed PROVE xfer' \in Xfers
    BY <1>2, <1>3, <2>4, <2>7 DEF i2c_send_bytes, DataFailed, Pcs
  <2>8. UNCHANGED <<wire, slave, bus_log>>
    BY <1>14 DEF i2c_send_address, NextByte, i2c_send_bytes, DataFailed
  <2>9. QED
    BY <1>1, <1>14, <2>5, <2>6, <2>7, <2>8 DEF Kept
<1>15. ASSUME MessageDone \/ AfterStop PROVE Kept
  <2>1. xfer' \in Xfers
    BY <1>3, <1>15 DEF MessageDone, AfterStop, Pcs
  <2>2. \A ret \in {"ok", "error"} : [bus_log EXCEPT !.ret = ret] \in Logs
    BY <1>1 DEF Logs
  <2>3. bus_log.ret \in {"none", "ok", "error"}
    BY <1>1 DEF Logs
  <2>4. bus_log' \in Logs
    BY <1>1, <1>15, <2>2, <2>3 DEF MessageDone, AfterStop
  <2>5. QED
    BY <1>1, <1>15, <2>1, <2>4 DEF MessageDone, AfterStop, Kept
<1>16. Kept
  BY <1>8, <1>9, <1>10, <1>11, <1>12, <1>13, <1>14, <1>15 DEF Master
<1>17. QED
  BY <1>16 DEF Kept

LEMMA SlaveDoes ==
  ASSUME I2cTypes, SlaveMoves
  PROVE  /\ ~SCL /\ UNCHANGED <<wire, xfer, bus_log>> /\ slave' \in Wires
         /\ slave'.sda => slave.sda \/ xfer.pc \in {"ack_scl", "ack_wait", "read_scl", "read_wait"}
BY DEF I2cTypes, SlaveMoves, Wires

LEMMA AppendKeepsSeq ==
  ASSUME NEW S, NEW seq \in Seq(S), NEW e \in S
  PROVE  Append(seq, e) \in Seq(S) /\ <<>> \in Seq(S)
OBVIOUS

LEMMA StepKeepsTypes ==
  ASSUME I2cTypes, I2cNext
  PROVE  I2cTypes'
<1>1. wire' \in Wires /\ slave' \in Wires /\ xfer' \in Xfers /\ bus_log' \in Logs
  BY MasterKeepsTypes, SlaveDoes DEF I2cNext, I2cTypes
<1>2. SDA' \in BOOLEAN
  BY <1>1 DEF SDA, Wires
<1>3. clocked' \in Seq(BOOLEAN)
  <2>1. clocked' \in {<<>>, Append(clocked, SDA'), clocked}
    BY DEF I2cNext, SlaveListens
  <2>2. clocked \in Seq(BOOLEAN)
    BY DEF I2cTypes
  <2>3. QED
    BY <1>2, <2>1, <2>2, AppendKeepsSeq
<1>4. QED
  BY <1>1, <1>3 DEF I2cTypes

--------------------------------------------------------------------------------
(* The wires and the outcome                                               *)

\* What the invariant says of the wires and of the outcome.
WiresInv ==
  /\ LetsGo
  /\ RetIsOfMessage
  /\ GoesOnAcked
  /\ ClockHeldLow
  /\ ClockIsUp
  /\ SlaveIsQuiet
  /\ FromFirstBit

LEMMA MasterKeepsWires ==
  ASSUME I2cTypes, WiresInv, SlaveHasLetGo, Master
  PROVE  WiresInv'
<1> USE DEF Goes, SetSda, SetScl, Fields, Undisturbed, WiresInv
<1>1. /\ xfer \in Xfers /\ xfer' \in Xfers /\ bus_log \in Logs /\ bus_log' \in Logs
      /\ wire \in Wires /\ wire' \in Wires /\ slave \in Wires /\ slave' \in Wires
  BY MasterKeepsTypes DEF I2cTypes
<1>2. LetsGo'
  BY MasterDoes DEF LetsGo, MovesWire, Waits, TimesOut, Starts, EndsBit, Decides, Ends
<1>3. RetIsOfMessage'
  BY MasterDoes DEF RetIsOfMessage, MovesWire, Waits, TimesOut, Starts, EndsBit, Decides, Ends
<1>4. GoesOnAcked'
  BY MasterDoes DEF GoesOnAcked, RetIsOfMessage, MovesWire, Waits, TimesOut, Starts, EndsBit, Decides, Ends
<1>5. ClockHeldLow'
  BY MasterDoes DEF ClockHeldLow, GoesOnAcked, ClockIsUp, SCL, MovesWire, Waits, TimesOut, Starts, EndsBit, Decides, Ends
<1>6. ClockIsUp'
  BY MasterDoes DEF ClockIsUp, LetsGo, SCL, SDA, MovesWire, Waits, TimesOut, Starts, EndsBit, Decides, Ends
<1>7. SlaveIsQuiet'
  BY MasterDoes DEF SlaveIsQuiet, ClockHeldLow, SlaveHasLetGo, SCL, SDA, MovesWire, Waits, TimesOut, Starts, EndsBit, Decides, Ends
<1>8. FromFirstBit'
  BY MasterDoes DEF FromFirstBit, RetIsOfMessage, GoesOnAcked, MovesWire, Waits, TimesOut, Starts, EndsBit, Decides, Ends
<1>9. QED
  BY <1>2, <1>3, <1>4, <1>5, <1>6, <1>7, <1>8

LEMMA SlaveKeepsWires ==
  ASSUME I2cTypes, WiresInv, SlaveMoves
  PROVE  WiresInv'
<1> USE DEF WiresInv, Undisturbed
<1>1. /\ ~SCL /\ UNCHANGED <<wire, xfer, bus_log>>
      /\ slave'.sda => slave.sda \/ xfer.pc \in {"ack_scl", "ack_wait", "read_scl", "read_wait"}
  BY SlaveDoes
<1>2. LetsGo' /\ RetIsOfMessage' /\ GoesOnAcked' /\ FromFirstBit'
  BY <1>1 DEF LetsGo, RetIsOfMessage, GoesOnAcked, FromFirstBit
<1>3. ClockHeldLow' /\ ClockIsUp' /\ SlaveIsQuiet'
  BY <1>1 DEF ClockHeldLow, ClockIsUp, SlaveIsQuiet, SCL
<1>4. QED
  BY <1>2, <1>3

LEMMA StepKeepsWires == I2cTypes /\ WiresInv /\ [I2cNext]_i2c_vars => I2cTypes' /\ WiresInv'
<1> SUFFICES ASSUME I2cTypes, WiresInv, [I2cNext]_i2c_vars PROVE I2cTypes' /\ WiresInv'
  OBVIOUS
<1>1. CASE I2cNext
  BY <1>1, StepKeepsTypes, MasterKeepsWires, SlaveKeepsWires DEF I2cNext
<1>2. CASE UNCHANGED i2c_vars
  BY <1>2 DEF i2c_vars, I2cTypes, WiresInv, LetsGo, RetIsOfMessage, GoesOnAcked, ClockHeldLow,
              ClockIsUp, SlaveIsQuiet, FromFirstBit, SCL, Undisturbed
<1>3. QED
  BY <1>1, <1>2

LEMMA InitHolds == I2cInit => I2cTypes /\ WiresInv
<1> SUFFICES ASSUME I2cInit PROVE I2cTypes /\ WiresInv
  OBVIOUS
<1>1. I2cTypes
  <2>1. xfer \in Xfers
    BY I2cNumbers DEF I2cInit, Xfers, Pcs, Bytes8
  <2>2. bus_log \in Logs /\ wire \in Wires /\ slave \in Wires
    BY DEF I2cInit, Logs, Wires
  <2>3. clocked \in Seq(BOOLEAN)
    BY DEF I2cInit
  <2>4. QED
    BY <2>1, <2>2, <2>3 DEF I2cTypes
<1>2. WiresInv
  BY DEF I2cInit, WiresInv, LetsGo, RetIsOfMessage, GoesOnAcked, ClockHeldLow, ClockIsUp,
         SlaveIsQuiet, FromFirstBit, SCL, Undisturbed
<1>3. QED
  BY <1>1, <1>2

LEMMA WiresAlways == I2cSpec => [](I2cTypes /\ WiresInv)
BY InitHolds, StepKeepsWires, PTL DEF I2cSpec

--------------------------------------------------------------------------------
(* Theorems about the wires                                                *)

\* However a call ends, also behind a wait for the clock that timed out, the
\* master has let go of both wires.
THEOREM BusIsFree == I2cSpec => []BusFreeAfterCall
<1>1. WiresInv => BusFreeAfterCall
  BY DEF WiresInv, LetsGo, BusFreeAfterCall
<1>2. QED
  BY <1>1, WiresAlways, PTL

\* A call that reports success was acknowledged byte by byte, in calls whose
\* waits for the clock did not time out.
THEOREM SuccessIsAcked == I2cSpec => []OkMeansAcked
<1>1. WiresInv => OkMeansAcked
  BY DEF WiresInv, GoesOnAcked, OkMeansAcked
<1>2. QED
  BY <1>1, WiresAlways, PTL

\* Where the data wire moves while the clock is high.
LEMMA SdaMoves ==
  ASSUME I2cTypes, WiresInv, I2cNext, Undisturbed
  PROVE  /\ SDA' # SDA /\ SCL /\ SCL' => xfer.pc \in {"start", "stop_sda"}
         /\ xfer.pc \in {"start", "stop_sda"} /\ xfer' # xfer => SCL /\ SDA' # SDA
<1>1. CASE SlaveMoves
  BY <1>1, SlaveDoes
<1>2. CASE Master
  <2>1. wire \in Wires /\ slave \in Wires /\ wire' \in Wires
    BY <1>2, MasterKeepsTypes DEF I2cTypes
  <2>2. xfer.pc \in {"start", "stop_sda"} => SCL /\ SDA' # SDA
    BY <1>2, <2>1, MasterDoes DEF WiresInv, ClockIsUp, LetsGo, SlaveIsQuiet, SDA, SCL, Wires, Goes,
         SetSda, MovesWire, Waits, TimesOut, Starts, EndsBit, Decides, Ends
  <2>3. SDA' # SDA /\ SCL /\ SCL' => xfer.pc \in {"start", "stop_sda"}
    BY <1>2, <2>1, MasterDoes DEF WiresInv, ClockHeldLow, SDA, SCL, Wires, Goes,
         SetSda, SetScl, MovesWire, Waits, TimesOut, Starts, EndsBit, Decides, Ends
  <2>4. QED
    BY <2>2, <2>3
<1>3. QED
  BY <1>1, <1>2 DEF I2cNext

\* For any byte, any slave and any stretching of the clock, no bit of data is
\* taken for a START or a STOP, and where one is meant there is one.
THEOREM DataIsStable == I2cSpec => SdaMovesOnlyToStartOrStop
<1> DEFINE Meant == /\ SDA' # SDA /\ SCL /\ SCL' /\ Undisturbed => xfer.pc \in {"start", "stop_sda"}
                    /\ xfer.pc \in {"start", "stop_sda"} /\ xfer' # xfer /\ Undisturbed
                         => SCL /\ SDA' # SDA
<1>1. I2cTypes /\ WiresInv /\ [I2cNext]_i2c_vars => [Meant]_i2c_vars
  BY SdaMoves
<1>2. QED
  BY <1>1, WiresAlways, PTL DEF I2cSpec, SdaMovesOnlyToStartOrStop

--------------------------------------------------------------------------------
(* The bits the slave clocks in                                            *)

LEMMA Multiples ==
  ASSUME NEW m \in Nat \ {0}, NEW k \in Int
  PROVE  (k >= 1 => m * k >= m) /\ (k <= -1 => m * k <= -m)
BY SMT

LEMMA Division ==
  ASSUME NEW m \in Nat \ {0}, NEW n \in Nat
  PROVE  n = m * (n \div m) + (n % m)
BY SMT

LEMMA Remainder ==
  ASSUME NEW m \in Nat \ {0}, NEW n \in Nat
  PROVE  n \div m \in Nat /\ n % m \in 0 .. m - 1
BY SMT

LEMMA NextMultiple ==
  ASSUME NEW m \in Nat \ {0}, NEW n \in Nat, n % m = 0
  PROVE  (n + m) % m = 0
<1> DEFINE q == n \div m
           p == (n + m) \div m
           r == (n + m) % m
<1>1. n = m * q /\ q \in Nat
  BY Division, Remainder
<1>2. n + m = m * p + r /\ p \in Nat /\ r \in 0 .. m - 1
  <2>1. n + m \in Nat
    OBVIOUS
  <2>2. n + m = m * p + r
    BY <2>1, Division
  <2>3. p \in Nat /\ r \in 0 .. m - 1
    BY <2>1, Remainder
  <2>4. QED
    BY <2>2, <2>3
<1> HIDE DEF p, q, r
<1>3. m * (p - q - 1) = m * p - m * q - m
  BY <1>1, <1>2
<1>4. m * (p - q - 1) + r = 0
  BY <1>1, <1>2, <1>3
<1>5. p - q - 1 = 0
  BY <1>1, <1>2, <1>4, Multiples
<1>6. r = 0
  BY <1>2, <1>4, <1>5
<1>7. QED
  BY <1>6 DEF r

\* Nothing was clocked in, and the byte is the same or has not begun.
LEMMA NothingClocked ==
  ASSUME NEW k, Framed(k), clocked' = clocked, k = 0 \/ xfer'.byte = xfer.byte
  PROVE  Framed(k)'
<1>1. CASE k = 0
  BY <1>1 DEF Framed, Whole
<1>2. CASE xfer'.byte = xfer.byte
  BY <1>2 DEF Framed, Whole
<1>3. QED
  BY <1>1, <1>2

\* A bit of the byte was clocked in.
LEMMA BitClocked ==
  ASSUME clocked \in Seq(BOOLEAN), NEW k \in Nat, Framed(k), NEW b \in BOOLEAN, NEW n, n = k + 1,
         clocked' = Append(clocked, b), b = xfer.byte[n], xfer'.byte = xfer.byte
  PROVE  Framed(n)'
<1> DEFINE len == Len(clocked)
<1>1. len \in Nat /\ len >= k /\ Whole(len - k)
  BY DEF Framed
<1>2. Len(clocked') = len + 1
  OBVIOUS
<1>3. (len + 1) - n = len - k
  BY <1>1
<1>4. ASSUME NEW i \in 1 .. n PROVE clocked'[(len - k) + i] = xfer'.byte[i]
  <2>1. CASE i = n
    <3>1. (len - k) + i = len + 1
      BY <1>1, <2>1
    <3>2. clocked'[len + 1] = b
      OBVIOUS
    <3>3. QED
      BY <2>1, <3>1, <3>2
  <2>2. CASE i # n
    <3>1. i \in 1 .. k /\ (len - k) + i \in 1 .. len
      BY <1>1, <2>2
    <3> DEFINE j == (len - k) + i
    <3>2. clocked[j] = xfer.byte[i]
      BY <3>1 DEF Framed
    <3> HIDE DEF j
    <3>3. j \in 1 .. Len(clocked) => Append(clocked, b)[j] = clocked[j]
      OBVIOUS
    <3>4. clocked'[j] = xfer'.byte[i]
      BY <3>1, <3>2, <3>3 DEF j
    <3>5. QED
      BY <3>4 DEF j
  <2>3. QED
    BY <2>1, <2>2
<1>5. Len(clocked') >= n /\ Whole(Len(clocked') - n)
  BY <1>1, <1>2, <1>3
<1>6. \A i \in 1 .. n : clocked'[(Len(clocked') - n) + i] = xfer'.byte[i]
  BY <1>2, <1>3, <1>4
<1>7. QED
  BY <1>5, <1>6 DEF Framed, Whole

\* The acknowledge bit was clocked in.
LEMMA AckClocked ==
  ASSUME clocked \in Seq(BOOLEAN), Framed(ByteBits), NEW b \in BOOLEAN, clocked' = Append(clocked, b)
  PROVE  Framed(0)'
<1> DEFINE n == Len(clocked) - ByteBits
<1>1. n \in Nat /\ n % (ByteBits + 1) = 0
  BY I2cNumbers DEF Framed, Whole
<1>2. (n + (ByteBits + 1)) % (ByteBits + 1) = 0
  <2> DEFINE m == ByteBits + 1
  <2>1. m \in Nat \ {0} /\ n % m = 0
    BY <1>1, I2cNumbers
  <2> HIDE DEF m, n
  <2>2. QED
    BY <1>1, <2>1, NextMultiple DEF m
<1>3. Len(clocked') = n + (ByteBits + 1)
  <2>1. Len(clocked') = Len(clocked) + 1 /\ Len(clocked) \in Nat
    OBVIOUS
  <2>2. QED
    BY <2>1, I2cNumbers
<1>4. Len(clocked') - 0 = Len(clocked') /\ Len(clocked') >= 0
  BY <1>1, <1>3, I2cNumbers
<1>5. QED
  BY <1>2, <1>3, <1>4 DEF Framed, Whole

\* What the slave hears, but at a START.
LEMMA Heard ==
  ASSUME I2cTypes, WiresInv, I2cNext, Undisturbed, xfer.pc \notin {"idle", "start", "stop_sda"}
  PROVE  clocked' = IF ~SCL /\ SCL' THEN Append(clocked, SDA') ELSE clocked
<1>1. ~(SCL /\ SCL' /\ SDA /\ ~SDA')
  BY SdaMoves
<1>2. QED
  BY <1>1 DEF I2cNext, SlaveListens, Undisturbed

FrameInv == BitIsOut /\ BitsAreFramed

LEMMA BitStaysOut ==
  ASSUME I2cTypes, BitIsOut, I2cNext
  PROVE  BitIsOut'
<1>1. CASE SlaveMoves
  BY <1>1, SlaveDoes DEF BitIsOut
<1>2. CASE Master
  BY <1>2, MasterDoes DEF BitIsOut, Goes, SetSda, SetScl, Fields, MovesWire, Waits, TimesOut,
                          Starts, EndsBit, Decides, Ends
<1>3. QED
  BY <1>1, <1>2 DEF I2cNext

\* The slave lets the clock rise, or holds it.
LEMMA SlaveKeepsFrame ==
  ASSUME I2cTypes, WiresInv, BitIsOut, BitsAreFramed, I2cNext, SlaveMoves, Undisturbed
  PROVE  BitsAreFramed'
<1>1. /\ ~SCL /\ UNCHANGED <<wire, xfer, bus_log>> /\ slave' \in Wires
      /\ slave'.sda => slave.sda \/ xfer.pc \in {"ack_scl", "ack_wait", "read_scl", "read_wait"}
  BY SlaveDoes
<1>2. wire \in Wires /\ slave \in Wires /\ clocked \in Seq(BOOLEAN) /\ xfer \in Xfers
  BY DEF I2cTypes
<1>3. CASE ~SCL' /\ xfer.pc \notin {"idle", "start", "stop_sda"}
  <2>1. clocked' = clocked
    BY <1>3, Heard
  <2>2. \A k : Framed(k) => Framed(k)'
    BY <1>1, <2>1, NothingClocked
  <2>3. QED
    BY <1>1, <1>3, <2>2 DEF BitsAreFramed, Undisturbed
<1>4. CASE SCL' /\ xfer.pc = "write_wait"
  <2> DEFINE b == SDA'
  <2>1. b \in BOOLEAN /\ clocked' = Append(clocked, b)
    BY <1>1, <1>2, <1>4, Heard DEF SDA, Wires
  <2>2. b = xfer.byte[xfer.bit]
    BY <1>1, <1>2, <1>4 DEF SDA, BitIsOut, WiresInv, SlaveIsQuiet, Wires
  <2>3. Framed(xfer.bit - 1)
    BY <1>1, <1>4 DEF BitsAreFramed
  <2>4. xfer.bit - 1 \in Nat /\ xfer.bit = (xfer.bit - 1) + 1
    BY <1>2, I2cNumbers DEF Xfers
  <2>5. Framed(xfer.bit)'
    BY <1>1, <1>2, <2>1, <2>2, <2>3, <2>4, BitClocked
  <2>6. QED
    BY <1>1, <1>4, <2>5 DEF BitsAreFramed
<1>5. CASE SCL' /\ xfer.pc = "ack_wait"
  <2> DEFINE b == SDA'
  <2>1. b \in BOOLEAN /\ clocked' = Append(clocked, b)
    BY <1>1, <1>2, <1>5, Heard DEF SDA, Wires
  <2>2. Framed(ByteBits)
    BY <1>1, <1>5 DEF BitsAreFramed
  <2>3. Framed(0)'
    BY <1>2, <2>1, <2>2, AckClocked
  <2>4. QED
    BY <1>1, <1>5, <2>3 DEF BitsAreFramed
<1>6. CASE xfer.pc \in {"idle", "start", "stop_sda"}
  BY <1>1, <1>6 DEF BitsAreFramed
<1>7. CASE SCL' /\ xfer.pc \notin {"idle", "start", "stop_sda", "write_wait", "ack_wait"}
  <2>1. wire.scl
    BY <1>1, <1>7 DEF SCL
  <2>2. xfer.pc \notin {"start_scl", "next", "answered", "ack_read", "ack_end", "write", "write_sda",
                       "write_scl", "write_next", "write_end", "ack", "ack_scl"}
    BY <1>1, <2>1 DEF WiresInv, ClockHeldLow, ClockIsUp
  <2>3. QED
    BY <1>1, <1>7, <2>2 DEF BitsAreFramed
<1>8. QED
  BY <1>3, <1>4, <1>5, <1>6, <1>7

LEMMA MasterKeepsFrame ==
  ASSUME I2cTypes, WiresInv, BitIsOut, BitsAreFramed, I2cNext, SlaveHasLetGo, Master, Undisturbed'
  PROVE  BitsAreFramed'
<1> USE DEF Goes, SetSda, SetScl, Fields
<1>1. /\ wire \in Wires /\ slave \in Wires /\ clocked \in Seq(BOOLEAN) /\ xfer \in Xfers
      /\ wire' \in Wires /\ slave' \in Wires
  BY MasterKeepsTypes DEF I2cTypes
<1>2. CASE xfer.pc = "idle"
  BY <1>2, MasterDoes DEF MovesWire, Waits, TimesOut, Starts, EndsBit, Decides, Ends, BitsAreFramed
<1>3. CASE xfer.pc # "idle"
  <2>1. Undisturbed
    BY <1>3, MasterDoes DEF MovesWire, Waits, TimesOut, Starts, EndsBit, Decides, Ends, Undisturbed
  <2>2. CASE MovesWire /\ xfer.pc = "write_scl" /\ SCL'
    <3> DEFINE b == SDA'
    <3>1. /\ wire'.sda = wire.sda /\ slave' = slave /\ xfer'.pc = "write_wait"
          /\ UNCHANGED <<xfer.byte, xfer.bit>>
      BY <2>2 DEF MovesWire
    <3>2. ~wire.scl /\ ~slave.sda
      BY <2>1, <2>2 DEF WiresInv, ClockHeldLow, SlaveHasLetGo, SCL
    <3>3. b \in BOOLEAN /\ clocked' = Append(clocked, b)
      BY <1>1, <2>1, <2>2, <3>2, Heard DEF SDA, SCL, Wires
    <3>4. b = xfer.byte[xfer.bit]
      BY <1>1, <2>2, <3>1, <3>2 DEF SDA, BitIsOut, Wires
    <3>5. Framed(xfer.bit - 1) /\ xfer.bit - 1 \in Nat /\ xfer.bit = (xfer.bit - 1) + 1
      BY <1>1, <2>1, <2>2, I2cNumbers DEF BitsAreFramed, Xfers
    <3>6. \A n : n = xfer.bit => Framed(n)'
      BY <1>1, <3>1, <3>3, <3>4, <3>5, BitClocked
    <3>7. QED
      BY <2>2, <3>1, <3>6 DEF BitsAreFramed
  <2>3. CASE MovesWire /\ xfer.pc = "ack_scl" /\ SCL'
    <3> DEFINE b == SDA'
    <3>1. ~wire.scl
      BY <2>1, <2>3 DEF WiresInv, ClockHeldLow
    <3>2. b \in BOOLEAN /\ clocked' = Append(clocked, b)
      BY <1>1, <2>1, <2>3, <3>1, Heard DEF SDA, SCL, Wires
    <3>3. Framed(0)'
      BY <1>1, <2>1, <2>3, <3>2, AckClocked DEF BitsAreFramed
    <3>4. QED
      BY <2>3, <3>3 DEF BitsAreFramed, MovesWire
  <2>4. CASE MovesWire /\ ~(xfer.pc \in {"write_scl", "ack_scl"} /\ SCL')
    <3>1. CASE xfer.pc \in {"start_scl", "write", "write_sda", "write_scl", "write_end", "ack", "ack_scl",
                           "ack_end"}
      <4>1. clocked' = clocked
        BY <1>1, <2>1, <2>4, <3>1, Heard DEF MovesWire, SCL, WiresInv, ClockHeldLow, ClockIsUp
      <4>2. \A k : Framed(k) => Framed(k)'
        BY <2>4, <4>1, NothingClocked DEF MovesWire
      <4>3. xfer.pc = "start_scl" => xfer.bit - 1 = 0
        BY DEF WiresInv, FromFirstBit
      <4>4. QED
        BY <1>1, <2>1, <2>4, <3>1, <4>2, <4>3 DEF MovesWire, BitsAreFramed, Undisturbed, SCL
    <3>2. CASE xfer.pc \notin {"start_scl", "write", "write_sda", "write_scl", "write_end", "ack", "ack_scl",
                              "ack_end"}
      BY <2>4, <3>2 DEF MovesWire, BitsAreFramed
    <3>3. QED
      BY <3>1, <3>2
  <2>5. CASE Waits
    <3>1. xfer.pc \notin {"idle", "start", "stop_sda"}
      BY <2>5 DEF Waits
    <3>2. clocked' = clocked
      BY <2>1, <2>5, <3>1, Heard DEF Waits, SCL
    <3>3. \A k : Framed(k) => Framed(k)'
      BY <2>5, <3>2, NothingClocked DEF Waits
    <3>4. QED
      BY <2>1, <2>5, <3>3 DEF Waits, BitsAreFramed, Undisturbed, SCL
  <2>6. CASE Starts
    <3>1. Goes("start", "start_scl")
      BY <1>3, <2>6 DEF Starts
    <3>2. SCL /\ SCL' /\ SDA /\ ~SDA'
      BY <1>1, <2>1, <2>6, <3>1 DEF Starts, WiresInv, ClockIsUp, LetsGo, SlaveIsQuiet, SDA, SCL, Wires
    <3>3. clocked' = <<>>
      BY <3>2 DEF I2cNext, SlaveListens
    <3>4. 0 % (ByteBits + 1) = 0
      BY I2cNumbers
    <3>5. Framed(0)'
      BY <3>3, <3>4 DEF Framed, Whole
    <3>6. QED
      BY <3>1, <3>5 DEF BitsAreFramed
  <2>7. CASE EndsBit
    <3>1. xfer.pc \notin {"idle", "start", "stop_sda"}
      BY <2>7 DEF EndsBit
    <3>2. clocked' = clocked
      BY <1>1, <2>1, <2>7, <3>1, Heard DEF EndsBit, SCL, WiresInv, ClockIsUp
    <3>3. \A k : Framed(k) => Framed(k)'
      BY <2>7, <3>2, NothingClocked DEF EndsBit
    <3>4. QED
      BY <1>1, <2>1, <2>7, <3>3 DEF EndsBit, BitsAreFramed, Undisturbed, SCL, Xfers
  <2>8. CASE Decides
    <3>1. xfer.pc \notin {"idle", "start", "stop_sda"}
      BY <2>8 DEF Decides
    <3>2. clocked' = clocked
      BY <1>1, <2>1, <2>8, <3>1, Heard DEF Decides, SCL
    <3>3. Framed(0) => Framed(0)'
      BY <3>2, NothingClocked
    <3>4. /\ xfer.pc \in {"answered", "next"} => xfer.bit = 1
          /\ xfer.pc # "failed"
      BY <2>1 DEF WiresInv, FromFirstBit, GoesOnAcked
    <3>5. /\ xfer.pc \in {"answered", "next"}
          /\ xfer'.pc \in {"next", "write", "read", "done", "stop"}
          /\ xfer'.pc \in {"next", "write"} => xfer'.bit - 1 = 0
      BY <2>8, <3>4 DEF Decides
    <3>6. Framed(0)'
      BY <2>1, <3>3, <3>5 DEF BitsAreFramed
    <3>7. QED
      BY <3>5, <3>6 DEF BitsAreFramed
  <2>9. CASE Ends
    BY <2>9 DEF Ends, BitsAreFramed
  <2>10. QED
    BY <2>2, <2>3, <2>4, <2>5, <2>6, <2>7, <2>8, <2>9, MasterDoes DEF TimesOut, Undisturbed
<1>4. QED
  BY <1>2, <1>3

LEMMA FrameAlways == I2cSpec => []BitsAreFramed
<1> DEFINE Inv == I2cTypes /\ WiresInv
<1>1. I2cInit => FrameInv
  BY DEF I2cInit, FrameInv, BitIsOut, BitsAreFramed
<1>2. Inv /\ FrameInv /\ [I2cNext]_i2c_vars => FrameInv'
  <2> SUFFICES ASSUME Inv, FrameInv, [I2cNext]_i2c_vars PROVE FrameInv'
    OBVIOUS
  <2>1. CASE UNCHANGED i2c_vars
    BY <2>1 DEF i2c_vars, FrameInv, BitIsOut, BitsAreFramed, Framed, Whole, Undisturbed, SCL
  <2>2. CASE I2cNext
    <3>1. BitIsOut'
      BY <2>2, BitStaysOut DEF FrameInv
    <3>2. CASE ~Undisturbed'
      BY <3>1, <3>2 DEF FrameInv, BitsAreFramed
    <3>3. CASE Undisturbed' /\ SlaveMoves
      <4>1. Undisturbed
        BY <3>3, SlaveDoes DEF Undisturbed
      <4>2. QED
        BY <2>2, <3>1, <3>3, <4>1, SlaveKeepsFrame DEF FrameInv
    <3>4. CASE Undisturbed' /\ SlaveHasLetGo /\ Master
      BY <2>2, <3>1, <3>4, MasterKeepsFrame DEF FrameInv
    <3>5. QED
      BY <2>2, <3>2, <3>3, <3>4 DEF I2cNext
  <2>3. QED
    BY <2>1, <2>2
<1>3. FrameInv => BitsAreFramed
  BY DEF FrameInv
<1>4. QED
  BY <1>1, <1>2, <1>3, WiresAlways, PTL DEF I2cSpec

\* For every width of a byte, what the slave clocks in is what was to be sent:
\* whole bytes with an acknowledge bit each, and then this byte, bit by bit,
\* however long the clock was stretched and whatever was tried before.
THEOREM BytesArrive == I2cSpec => []BytesAreFramed
<1>1. I2cTypes /\ BitsAreFramed => BytesAreFramed
  <2> SUFFICES ASSUME I2cTypes, BitsAreFramed, xfer.pc = "ack", Undisturbed
               PROVE  /\ Len(clocked) - ByteBits >= 0
                      /\ (Len(clocked) - ByteBits) % (ByteBits + 1) = 0
                      /\ SubSeq(clocked, (Len(clocked) - ByteBits) + 1,
                                         (Len(clocked) - ByteBits) + ByteBits) = xfer.byte
    BY DEF BytesAreFramed
  <2> DEFINE n == Len(clocked) - ByteBits
  <2>1. Framed(ByteBits)
    BY DEF BitsAreFramed
  <2>2. n >= 0 /\ n % (ByteBits + 1) = 0 /\ n \in Nat
    BY <2>1, I2cNumbers DEF Framed, Whole, I2cTypes
  <2>3. \A i \in 1 .. ByteBits : clocked[n + i] = xfer.byte[i]
    BY <2>1 DEF Framed
  <2>4. clocked \in Seq(BOOLEAN) /\ Len(clocked) = n + ByteBits
    BY I2cNumbers DEF I2cTypes
  <2>5. xfer.byte \in [1 .. ByteBits -> BOOLEAN]
    BY DEF I2cTypes, Xfers, Bytes8
  <2> HIDE DEF n
  <2>6. SubSeq(clocked, n + 1, n + ByteBits) = xfer.byte
    BY <2>2, <2>3, <2>4, <2>5, I2cNumbers
  <2>7. QED
    BY <2>2, <2>6 DEF n
<1>2. QED
  BY <1>1, FrameAlways, WiresAlways, PTL
================================================================================
