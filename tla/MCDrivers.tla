------------------------------- MODULE MCDrivers -------------------------------
(***************************************************************************)
(* The drivers, containers and register protocols that do not call one     *)
(* another, checked in one run: unit is the one a behaviour is about, and  *)
(* the others stay as they were initialised, in one of the ways they can.  *)
(***************************************************************************)
EXTENDS RxRing, RingBuffer, CanDriver, EventList, SwI2c, Tm1668, Modbus, UniBus, TLC

CONSTANTS n1, n2, n3, c1, c2, e1, e2, e3, e4

\* Two tables of the first controller, with an id in common, and one of the second.
SmallTables == [t1 |-> <<e1, e2>>, t2 |-> <<e3>>, t3 |-> <<e4>>]
SmallTableOf == [t1 |-> c1, t2 |-> c1, t3 |-> c2]
SmallCanId == (e1 :> 1) @@ (e2 :> 2) @@ (e3 :> 1) @@ (e4 :> 2)
SmallMaxMessages == (c1 :> 3) @@ (c2 :> 1)

\* On unibus this device is 9; it passes frames on to 2 and 3, and asks 1.
SmallSubIds == << {2, 0}, {3, 0} >>

From1(dest, cmd, index) == [src |-> 1, dest |-> dest, cmd |-> cmd, index |-> index]

SmallFrameMeta ==
  << From1(9, "ACK_RD", 1), From1(9, "ACK_RD", 2), From1(9, "ACK_WR", 1),
     From1(9, "RD", 1), From1(3, "WR", 1), From1(9, "WR", 2), From1(9, "IAP_ACK", 1) >>

Wire == INSTANCE BusFrame

Sent(f, n) == Wire!Frame(f, n, n, TRUE)

SmallStreams ==
  { Sent(2, 0) \o Sent(1, 1), Sent(4, 1) \o Sent(5, 0), Sent(7, 0) \o Sent(3, 0),
    Sent(6, 1) \o Wire!Frame(1, 1, 1, FALSE) }

VARIABLE unit

Init ==
  /\ unit \in {"rxring", "ringbuffer", "candriver", "eventlist", "swi2c", "tm1668", "modbus",
               "unibus"}
  /\ RxRingInit
  /\ RingBufferInit
  /\ CanInit
  /\ EventListInit
  /\ I2cInit
  /\ TmInit
  /\ MbInit
  /\ UniInit
  /\ unit # "rxring" => masked
  /\ unit # "ringbuffer" => rb_masked
  /\ unit # "tm1668" => \A a \in Addresses : tm.ram[a].icons = {}
  /\ unit # "unibus" => uni_backend = "uart" /\ uni_stream["port"] = Sent(2, 0) \o Sent(1, 1)

Next ==
  \/ /\ unit = "rxring" /\ RxRingNext
     /\ UNCHANGED <<unit, rb_vars, can_vars, el_vars, i2c_vars, tm_vars, mb_vars, uni_vars>>
  \/ /\ unit = "ringbuffer" /\ RingBufferNext
     /\ UNCHANGED <<unit, rx_vars, can_vars, el_vars, i2c_vars, tm_vars, mb_vars, uni_vars>>
  \/ /\ unit = "candriver" /\ CanNext
     /\ UNCHANGED <<unit, rx_vars, rb_vars, el_vars, i2c_vars, tm_vars, mb_vars, uni_vars>>
  \/ /\ unit = "eventlist" /\ EventListNext
     /\ UNCHANGED <<unit, rx_vars, rb_vars, can_vars, i2c_vars, tm_vars, mb_vars, uni_vars>>
  \/ /\ unit = "swi2c" /\ I2cNext
     /\ UNCHANGED <<unit, rx_vars, rb_vars, can_vars, el_vars, tm_vars, mb_vars, uni_vars>>
  \/ /\ unit = "tm1668" /\ TmNext
     /\ UNCHANGED <<unit, rx_vars, rb_vars, can_vars, el_vars, i2c_vars, mb_vars, uni_vars>>
  \/ /\ unit = "modbus" /\ MbNext
     /\ UNCHANGED <<unit, rx_vars, rb_vars, can_vars, el_vars, i2c_vars, tm_vars, uni_vars>>
  \/ /\ unit = "unibus" /\ UniNext
     /\ UNCHANGED <<unit, rx_vars, rb_vars, can_vars, el_vars, i2c_vars, tm_vars, mb_vars>>

Spec ==
  /\ Init
  /\ [][Next]_<<unit, rx_vars, rb_vars, can_vars, el_vars, i2c_vars, tm_vars, mb_vars, uni_vars>>
================================================================================
