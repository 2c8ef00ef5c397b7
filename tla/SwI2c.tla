--------------------------------- MODULE SwI2c ---------------------------------
(***************************************************************************)
(* The software I2C master (components/drivers/sdk_swi2c.c) on its two     *)
(* open-drain wires, one step per access to a wire, and a slave that       *)
(* acknowledges or not and stretches the clock for as long as it likes.    *)
(* A byte is ByteBits bits.  The public calls send one message with a      *)
(* 7-bit address and without the flags that leave out parts of a transfer; *)
(* those and the repeated start are not reachable through them.  The board *)
(* has get_scl.                                                            *)
(***************************************************************************)
EXTENDS Naturals, Sequences

CONSTANTS
  ByteBits,   \* bits of a byte: 8
  Retries,    \* bus->retries
  MaxCount    \* bound: bytes of a call

ASSUME I2cNumbers == ByteBits \in Nat \ {0} /\ Retries \in Nat /\ MaxCount \in Nat

VARIABLES
  wire,      \* what the master drives: sda, scl (TRUE: released)
  slave,     \* what the slave pulls low: sda, scl
  xfer,      \* where the master is in i2c_bit_xfer
  bus_log,   \* history: a wait timed out; bytes not acknowledged since the
             \* last START; ret
  clocked    \* history: the bits the slave clocked in since the last START

i2c_vars == <<wire, slave, xfer, bus_log, clocked>>

\* Wired and.
SDA == wire.sda /\ ~slave.sda
SCL == wire.scl /\ ~slave.scl

Bytes8 == [1 .. ByteBits -> BOOLEAN]

I2cInit ==
  /\ wire = [sda |-> TRUE, scl |-> TRUE]
  /\ slave = [sda |-> FALSE, scl |-> FALSE]
  /\ xfer = [pc |-> "idle", rd |-> FALSE, addr |-> TRUE, byte |-> [k \in 1 .. ByteBits |-> TRUE],
             bit |-> 1, left |-> 0, tries |-> 0, ok |-> FALSE]
  /\ bus_log = [timed_out |-> FALSE, nacks |-> 0, ret |-> "none"]
  /\ clocked = <<>>

--------------------------------------------------------------------------------
(* Wires                                                                   *)

\* A step of the master from one place to another that sets a wire.
Drive(from, line, level, to) ==
  /\ xfer.pc = from
  /\ wire' = [wire EXCEPT ![line] = level]
  /\ xfer' = [xfer EXCEPT !.pc = to]
  /\ UNCHANGED <<slave, bus_log>>

SDA_L_start(from, to) ==
  /\ xfer.pc = from
  /\ wire' = [wire EXCEPT !.sda = FALSE]
  /\ xfer' = [xfer EXCEPT !.pc = to]
  /\ bus_log' = [bus_log EXCEPT !.nacks = 0]
  /\ UNCHANGED slave

\* Mutant: the wire is not looked at after it was released.
NoStretching == TRUE

ClockIsHigh == SCL

\* SCL_H, once the clock is released: the wait ends when the wire is high.
ClockRises(from, to) ==
  /\ xfer.pc = from
  /\ ClockIsHigh
  /\ xfer' = [xfer EXCEPT !.pc = to]
  /\ UNCHANGED <<wire, slave, bus_log>>

\* -SDK_E_TIMEOUT: the slave holds the clock for longer than ops->timeout.
ClockTimeout(from, to, ok) ==
  /\ xfer.pc = from
  /\ ~SCL
  /\ bus_log' = [bus_log EXCEPT !.timed_out = TRUE]
  /\ xfer' = [xfer EXCEPT !.pc = to, !.ok = ok]
  /\ UNCHANGED <<wire, slave>>

--------------------------------------------------------------------------------
(* Start and stop                                                          *)

i2c_start == SDA_L_start("start", "start_scl") \/ Drive("start_scl", "scl", FALSE, "write")

\* A stop that times out goes on all the same.
i2c_stop ==
  \/ Drive("stop", "sda", FALSE, "stop_scl")
  \/ Drive("stop_scl", "scl", TRUE, "stop_wait")
  \/ /\ xfer.pc = "stop_wait"
     /\ \/ SCL /\ UNCHANGED bus_log
        \/ ~SCL /\ bus_log' = [bus_log EXCEPT !.timed_out = TRUE]
     /\ xfer' = [xfer EXCEPT !.pc = "stop_sda"]
     /\ UNCHANGED <<wire, slave>>
  \/ Drive("stop_sda", "sda", TRUE, "stopped")

--------------------------------------------------------------------------------
(* A byte to the slave                                                     *)

\* Mutant: the data wire is set before the clock is pulled low.
WriteBitUnclocked ==
  \/ Drive("write", "sda", xfer.byte[xfer.bit], "write_sda")
  \/ Drive("write_sda", "scl", FALSE, "write_scl")
  \/ Drive("write_scl", "scl", TRUE, "write_wait")

\* The first half of a turn of i2c_writeb's loop.
WriteBit ==
  \/ Drive("write", "scl", FALSE, "write_sda")
  \/ Drive("write_sda", "sda", xfer.byte[xfer.bit], "write_scl")
  \/ Drive("write_scl", "scl", TRUE, "write_wait")

i2c_writeb ==
  \/ WriteBit
  \/ ClockRises("write_wait", "write_next")
  \/ /\ xfer.pc = "write_next"
     /\ xfer' = IF xfer.bit < ByteBits THEN [xfer EXCEPT !.bit = @ + 1, !.pc = "write"]
                                       ELSE [xfer EXCEPT !.bit = 1, !.pc = "write_end"]
     /\ UNCHANGED <<wire, slave, bus_log>>
  \/ Drive("write_end", "scl", FALSE, "ack")
  \/ ClockTimeout("write_wait", "failed", FALSE)

\* Mutant: the acknowledge bit is read the wrong way round.
AckIsHigh == SDA

AckIsLow == ~SDA

\* The bool this function returns is the acknowledgement; -SDK_E_TIMEOUT
\* becomes true, and the clock stays released.
i2c_waitack ==
  \/ Drive("ack", "sda", TRUE, "ack_scl")
  \/ Drive("ack_scl", "scl", TRUE, "ack_wait")
  \/ ClockRises("ack_wait", "ack_read")
  \/ ClockTimeout("ack_wait", "answered", TRUE)
  \/ /\ xfer.pc = "ack_read"
     /\ xfer' = [xfer EXCEPT !.pc = "ack_end", !.ok = AckIsLow]
     /\ bus_log' = [bus_log EXCEPT !.nacks = IF SDA THEN @ + 1 ELSE @]
     /\ UNCHANGED <<wire, slave>>
  \/ Drive("ack_end", "scl", FALSE, "answered")

--------------------------------------------------------------------------------
(* A byte from the slave                                                   *)

i2c_readb ==
  \/ Drive("read", "sda", TRUE, "read_scl")
  \/ Drive("read_scl", "scl", TRUE, "read_wait")
  \/ ClockRises("read_wait", "read_low")
  \/ ClockTimeout("read_wait", "failed", FALSE)
  \/ /\ xfer.pc = "read_low"
     /\ wire' = [wire EXCEPT !.scl = FALSE]
     /\ xfer' = IF xfer.bit < ByteBits
                  THEN [xfer EXCEPT !.bit = @ + 1, !.pc = "read_scl"]
                  ELSE [xfer EXCEPT !.bit = 1, !.pc = "give_ack", !.left = @ - 1]
     /\ UNCHANGED <<slave, bus_log>>

\* ACK as long as bytes are wanted; for a NACK the wire is left released.
i2c_send_ack_or_nack ==
  \/ Drive("give_ack", "sda", IF xfer.left > 0 THEN FALSE ELSE wire.sda, "give_scl")
  \/ Drive("give_scl", "scl", TRUE, "give_wait")
  \/ ClockRises("give_wait", "give_low")
  \/ ClockTimeout("give_wait", "failed", FALSE)
  \/ Drive("give_low", "scl", FALSE, IF xfer.left > 0 THEN "read" ELSE "done")

--------------------------------------------------------------------------------
(* Transfers                                                               *)

\* sdk_swi2c_write and sdk_swi2c_read.
i2c_bit_xfer ==
  /\ xfer.pc = "idle"
  /\ \E rd \in BOOLEAN, count \in 0 .. MaxCount, addr \in Bytes8 :
       xfer' = [pc |-> "start", rd |-> rd, addr |-> TRUE, byte |-> addr, bit |-> 1,
                left |-> count, tries |-> 0, ok |-> FALSE]
  /\ bus_log' = [timed_out |-> ~(SDA /\ SCL), nacks |-> 0, ret |-> "none"]
  /\ UNCHANGED <<wire, slave>>

\* i2c_send_address: stop and start once more, or give up.  It treats an error
\* of i2c_writeb as it treats a NACK.
i2c_send_address ==
  /\ xfer.addr
  /\ xfer.pc \in {"answered", "failed"}
  /\ xfer' = IF xfer.ok
               THEN [xfer EXCEPT !.addr = FALSE, !.pc = "next"]
             ELSE IF xfer.tries < Retries
               THEN [xfer EXCEPT !.tries = @ + 1, !.pc = "stop", !.bit = 1]
             ELSE [xfer EXCEPT !.addr = FALSE, !.pc = "stop"]
  /\ UNCHANGED <<wire, slave, bus_log>>

\* The heads of the loops of i2c_send_bytes and i2c_recv_bytes.
NextByte ==
  /\ xfer.pc = "next"
  /\ IF xfer.left = 0 THEN xfer' = [xfer EXCEPT !.pc = "done"]
     ELSE IF xfer.rd THEN xfer' = [xfer EXCEPT !.pc = "read"]
     ELSE \E b \in Bytes8 : xfer' = [xfer EXCEPT !.pc = "write", !.byte = b]
  /\ UNCHANGED <<wire, slave, bus_log>>

i2c_send_bytes ==
  /\ ~xfer.addr
  /\ xfer.pc = "answered"
  /\ xfer' = IF xfer.ok THEN [xfer EXCEPT !.left = @ - 1, !.pc = "next"]
                        ELSE [xfer EXCEPT !.pc = "stop"]
  /\ UNCHANGED <<wire, slave, bus_log>>

\* Mutant: an error of the clock ends the call at once.
DataFailedNoStop ==
  /\ ~xfer.addr
  /\ xfer.pc = "failed"
  /\ xfer' = [xfer EXCEPT !.pc = "idle"]
  /\ UNCHANGED <<wire, slave, bus_log>>

\* Any error in a byte of data ends the transfer with a stop.
DataFailed ==
  /\ ~xfer.addr
  /\ xfer.pc = "failed"
  /\ xfer' = [xfer EXCEPT !.pc = "stop"]
  /\ UNCHANGED <<wire, slave, bus_log>>

\* ret = i
MessageDone ==
  /\ xfer.pc = "done"
  /\ xfer' = [xfer EXCEPT !.pc = "stop"]
  /\ bus_log' = [bus_log EXCEPT !.ret = "ok"]
  /\ UNCHANGED <<wire, slave>>

\* Behind a stop: the next try of the address, or the end of the call.
AfterStop ==
  /\ xfer.pc = "stopped"
  /\ IF xfer.addr
       THEN xfer' = [xfer EXCEPT !.pc = "start"] /\ UNCHANGED bus_log
       ELSE /\ xfer' = [xfer EXCEPT !.pc = "idle"]
            /\ bus_log' = [bus_log EXCEPT !.ret = IF @ = "none" THEN "error" ELSE @]
  /\ UNCHANGED <<wire, slave>>

i2c_recv_bytes == i2c_readb \/ i2c_send_ack_or_nack

Master ==
  \/ i2c_bit_xfer
  \/ i2c_start
  \/ i2c_writeb
  \/ i2c_waitack
  \/ i2c_recv_bytes
  \/ i2c_send_address
  \/ NextByte
  \/ i2c_send_bytes
  \/ DataFailed
  \/ MessageDone
  \/ i2c_stop
  \/ AfterStop

\* The slave moves the data wire only where it is its turn and the clock is low,
\* and holds only a clock that is low already.
SlaveMoves ==
  /\ ~SCL
  /\ \/ slave' = [slave EXCEPT !.scl = ~@]
     \/ /\ xfer.pc \in {"ack_scl", "ack_wait", "read_scl", "read_wait"}
        /\ slave' = [slave EXCEPT !.sda = TRUE]
     \/ slave' = [slave EXCEPT !.sda = FALSE]
  /\ UNCHANGED <<wire, xfer, bus_log>>

\* It lets go of the data wire in time: i2c_delay is there for it.
SlaveHasLetGo == ~SCL /\ xfer.pc \in {"write_scl", "give_scl", "stop_scl"} => ~slave.sda

\* A falling data wire under a high clock is a START; a bit is taken where the
\* clock rises.  Behind a wait that timed out the history ends.
SlaveListens ==
  clocked' = IF bus_log.timed_out \/ xfer.pc = "idle" \/ (SCL /\ SCL' /\ SDA /\ ~SDA')
               THEN <<>>
             ELSE IF ~SCL /\ SCL' THEN Append(clocked, SDA')
             ELSE clocked

I2cNext == ((SlaveHasLetGo /\ Master) \/ SlaveMoves) /\ SlaveListens

I2cSpec == I2cInit /\ [][I2cNext]_i2c_vars

--------------------------------------------------------------------------------
(* Properties, of calls in which the slave held no clock for too long: after   *)
(* a wait that timed out the master goes on with wires it does not own.        *)

Undisturbed == ~bus_log.timed_out

\* The data wire changes while the clock is high only where the master means a
\* START or a STOP, and there it does: no bit of data is ever taken for one.
SdaMovesOnlyToStartOrStop ==
  [][/\ SDA' # SDA /\ SCL /\ SCL' /\ Undisturbed => xfer.pc \in {"start", "stop_sda"}
     /\ xfer.pc \in {"start", "stop_sda"} /\ xfer' # xfer /\ Undisturbed => SCL /\ SDA' # SDA]_i2c_vars

\* What the slave clocks in is what was to be sent: since the last START there
\* were whole bytes with an acknowledge bit each and then this one, bit by bit,
\* however long the clock was stretched and whatever was tried before.
BytesAreFramed ==
  xfer.pc = "ack" /\ Undisturbed =>
    LET n == Len(clocked) - ByteBits IN
    /\ n >= 0 /\ n % (ByteBits + 1) = 0
    /\ SubSeq(clocked, n + 1, n + ByteBits) = xfer.byte

\* A call that reports success was acknowledged byte by byte.  (A wait for the
\* acknowledgement that times out counts as one in the code.)
OkMeansAcked ==
  xfer.pc = "idle" /\ bus_log.ret = "ok" /\ Undisturbed => bus_log.nacks = 0

\* However a call ends, also after a wait that timed out, the master has let go
\* of both wires.
BusFreeAfterCall == xfer.pc = "idle" => wire.sda /\ wire.scl
================================================================================
