-------------------------------- MODULE Modbus ---------------------------------
(***************************************************************************)
(* The Modbus RTU master (components/modbus/modbus.c): it builds requests  *)
(* and hands what it receives to a callback as the result of a read or of  *)
(* a write.  It keeps nothing of the request; the bytes alone say which of *)
(* the two an answer is.                                                   *)
(*                                                                         *)
(* A byte is a value, or one half of the CRC of the bytes in front of it.  *)
(* Two sequences have the same CRC here only where every CRC-16 makes it   *)
(* so: behind the whole of their own CRC, and any zeros, it is 0.          *)
(***************************************************************************)
EXTENDS Naturals, Sequences, SequencesExt

CONSTANTS
  MbRegs,     \* registers that are read and written
  MbNums,     \* how many at once
  NOTHING     \* no request, no frame, no result

ASSUME MbRange ==
  /\ MbRegs \subseteq Nat /\ \A reg \in MbRegs : reg \div 256 \in 0 .. 255
  /\ MbNums \subseteq 1 .. 127

VARIABLES
  mb_request,  \* the request the slave got last
  mb_frame,    \* the answer on the line
  mb_meant,    \* what the slave meant by it; NOTHING if the line damaged it
  mb_data      \* what the callback was called with

mb_vars == <<mb_request, mb_frame, mb_meant, mb_data>>

MbInit ==
  /\ mb_request = NOTHING
  /\ mb_frame = <<>>
  /\ mb_meant = NOTHING
  /\ mb_data = NOTHING

--------------------------------------------------------------------------------
(* Bytes                                                                   *)

Byte(v) == [v |-> v, crc |-> <<>>]

\* A big-endian 16-bit number, and back (L2B_B2L_16b).
Word(v) == <<Byte(v \div 256), Byte(v % 256)>>
WordAt(s, k) == s[k].v * 256 + s[k + 1].v

\* The halves of the CRC of s.
Low(s) == [v |-> 200, crc |-> s]
High(s) == [v |-> 201, crc |-> s]

\* s is a sequence and the low byte of its CRC; or both bytes and any zeros.
EndsInOwnLow(s) == Len(s) > 1 /\ s[Len(s)] = Low(SubSeq(s, 1, Len(s) - 1))

EndsInOwnCrc(s) ==
  \E n \in 1 .. Len(s) - 2 : /\ s[n + 1] = Low(SubSeq(s, 1, n))
                             /\ s[n + 2] = High(SubSeq(s, 1, n))
                             /\ \A k \in n + 3 .. Len(s) : s[k] = Byte(0)

\* The CRC of s, low byte first.  The loop takes the low byte out of itself,
\* which leaves the high byte and a 0, and then the high byte.
_bMBCRC16(s) ==
  CASE EndsInOwnLow(s) -> <<High(SubSeq(s, 1, Len(s) - 1)), Byte(0)>>
    [] ~EndsInOwnLow(s) /\ EndsInOwnCrc(s) -> <<Byte(0), Byte(0)>>
    [] OTHER -> <<Low(s), High(s)>>

Sealed(s) == s \o _bMBCRC16(s)

\* Mutant: the CRC is not compared.
CrcPresent(s, n) == n + 2 <= Len(s)

CrcMatches(s, n) == n + 2 <= Len(s) /\ SubSeq(s, n + 1, n + 2) = _bMBCRC16(SubSeq(s, 1, n))

--------------------------------------------------------------------------------
(* Requests                                                                *)

bMB_ReadRegs(reg, num) ==
  /\ mb_request' = [kind |-> "read", func |-> 3, reg |-> reg, num |-> num]
  /\ UNCHANGED <<mb_frame, mb_meant, mb_data>>

\* Bound: the registers whose values bMB_SendBuff has room for, behind a head of
\* 7 bytes and with a CRC.  The code does not check it.
MaxWrite == (200 - 7 - 2) \div 2

\* num registers, and their values in phead->len bytes.
bMB_WriteRegs(reg, num) ==
  /\ num <= MaxWrite
  /\ mb_request' = [kind |-> "write", func |-> 16, reg |-> reg, num |-> num]
  /\ UNCHANGED <<mb_frame, mb_meant, mb_data>>

--------------------------------------------------------------------------------
(* The slave and the line                                                  *)

\* The answer to a read: the values of the registers, which are their numbers.
ReadAnswer(r) ==
  Sealed(<<Byte(1), Byte(r.func), Byte(2 * r.num)>>
           \o [k \in 1 .. 2 * r.num |-> Word(r.reg + (k - 1) \div 2)[1 + ((k - 1) % 2)]])

WriteAnswer(r) == Sealed(<<Byte(1), Byte(r.func)>> \o Word(r.reg) \o Word(r.num))

SlaveAnswers ==
  /\ mb_request # NOTHING
  /\ mb_frame = <<>>
  /\ mb_request' = NOTHING
  /\ \/ /\ mb_frame' = IF mb_request.kind = "read" THEN ReadAnswer(mb_request)
                                                 ELSE WriteAnswer(mb_request)
        /\ mb_meant' = mb_request
     \/ /\ \E code \in 1 .. 4 : mb_frame' = Sealed(<<Byte(1), Byte(mb_request.func + 128), Byte(code)>>)
        /\ mb_meant' = NOTHING
  /\ UNCHANGED mb_data

\* The line loses the end of a frame, or changes a byte of it, or one more byte
\* follows it.
LineFault ==
  /\ mb_frame # <<>> /\ Last(mb_frame) # Byte(0)
  /\ mb_data = NOTHING
  /\ \/ /\ \E n \in 1 .. Len(mb_frame) - 1 : mb_frame' = SubSeq(mb_frame, 1, n)
        /\ mb_meant' = NOTHING
     \/ /\ \E n \in 1 .. Len(mb_frame) : mb_frame' = [mb_frame EXCEPT ![n] = Byte(7)]
        /\ mb_frame' # mb_frame
        /\ mb_meant' = NOTHING
     \/ mb_frame' = Append(mb_frame, Byte(0)) /\ UNCHANGED mb_meant
  /\ UNCHANGED <<mb_request, mb_data>>

--------------------------------------------------------------------------------
(* Answers                                                                 *)

\* 3 bytes, as many as the third one says, and their CRC.
_bMB_CheckRTUReadACK(s) == Len(s) >= 3 /\ CrcMatches(s, 3 + s[3].v)

_bMB_CheckRTUWriteACK(s) == CrcMatches(s, 6)

\* What the callback gets, or NOTHING where -1 is returned.
Result(s) ==
  IF _bMB_CheckRTUReadACK(s)
    THEN [type |-> 0, func |-> s[2].v, reg_num |-> s[3].v \div 2,
          values |-> [i \in 1 .. s[3].v \div 2 |-> WordAt(s, 2 + 2 * i)]]
  ELSE IF _bMB_CheckRTUWriteACK(s)
    THEN [type |-> 1, func |-> s[2].v, reg |-> WordAt(s, 3), reg_num |-> WordAt(s, 5)]
  ELSE NOTHING

bMB_FeedReceivedData ==
  /\ mb_frame # <<>>
  /\ mb_data = NOTHING
  /\ mb_data' = Result(mb_frame)
  /\ UNCHANGED <<mb_request, mb_frame, mb_meant>>

\* The application is done with the answer.
Forget ==
  /\ mb_frame # <<>>
  /\ mb_frame' = <<>>
  /\ mb_meant' = NOTHING
  /\ mb_data' = NOTHING
  /\ UNCHANGED mb_request

MbNext ==
  \/ \E reg \in MbRegs, num \in MbNums :
       /\ mb_request = NOTHING /\ mb_frame = <<>>
       /\ bMB_ReadRegs(reg, num) \/ bMB_WriteRegs(reg, num)
  \/ SlaveAnswers
  \/ LineFault
  \/ bMB_FeedReceivedData
  \/ Forget

MbSpec == MbInit /\ [][MbNext]_mb_vars

--------------------------------------------------------------------------------
(* Properties                                                              *)

\* What the callback should have got for the answer to request r.
Meaning(r) ==
  IF r.kind = "read"
    THEN [type |-> 0, func |-> r.func, reg_num |-> r.num,
          values |-> [i \in 1 .. r.num |-> r.reg + i - 1]]
    ELSE [type |-> 1, func |-> r.func, reg |-> r.reg, reg_num |-> r.num]

\* A 0 follows the frame, which the third byte has end one byte further on.
ZeroBehind(s) ==
  LET n == 2 + s[3].v IN Len(s) >= n + 3 /\ CrcMatches(s, n) /\ s[n + 3] = Byte(0)

\* What the callback gets is the result of the read or write the slave answered,
\* from a frame the line left whole: damaged and cut frames, exceptions and a byte
\* behind the frame change nothing.  Left out is what the code takes for a read:
\* the confirmation of a write to the registers 0x300 to 0x3FF (MbTypeIsRight);
\* and, with a 0 behind them, that of one to 0x400 to 0x4FF and the exception 1.
MbTakenForWhatItIs ==
  mb_data # NOTHING /\ ~ZeroBehind(mb_frame) =>
    /\ mb_meant # NOTHING
    /\ ~(mb_meant.kind = "write" /\ mb_meant.reg \div 256 = 3) => mb_data = Meaning(mb_meant)

\* As modbus.h says of type: 0 for the answer to a read, 1 for one to a write.
MbTypeIsRight ==
  mb_data # NOTHING /\ mb_meant # NOTHING => mb_data.type = IF mb_meant.kind = "read" THEN 0 ELSE 1
================================================================================
