-------------------------------- MODULE Crc ---------------------------------
(***************************************************************************)
(* The 16-bit checks of frames: modbus_crc16, low bit first, which seals   *)
(* Modbus frames, and calc_crc16 of crc.c, high bit first.  A word is the  *)
(* set of its bits that are set, exclusive or the symmetric difference.    *)
(* A frame is damaged on its way, bit by bit.                              *)
(***************************************************************************)
EXTENDS Integers, Sequences, FiniteSets, SequencesExt

CONSTANTS
  Payloads,  \* sequences of bytes, a byte a subset of 0 .. 7
  MaxFlips   \* bound on damaged bits

VARIABLES
  frame,  \* [modbus |-> payload and its seal, ccitt |-> ...]
  flips   \* damaged bits so far

crcVars == <<frame, flips>>

Xor(a, b) == (a \ b) \cup (b \ a)
ShiftRight(w) == {k - 1 : k \in w \ {0}}
ShiftLeft(w) == {k + 1 : k \in w \ {15}}
HighByte(byte) == {k + 8 : k \in byte}

\* modbus_crc16: 0xA001 reflected; crc.c: 0x1021
ModbusBit(w) == IF 0 \in w THEN Xor(ShiftRight(w), {0, 13, 15}) ELSE ShiftRight(w)
CcittBit(w) == IF 15 \in w THEN Xor(ShiftLeft(w), {0, 5, 12}) ELSE ShiftLeft(w)
Eight(Bit(_), w) == Bit(Bit(Bit(Bit(Bit(Bit(Bit(Bit(w))))))))

\* the first 254 bytes are looked at
modbus_crc16(packet) ==
  FoldLeft(LAMBDA w, byte : Eight(ModbusBit, Xor(w, byte)), 0 .. 15,
           SubSeq(packet, 1, IF Len(packet) > 254 THEN 254 ELSE Len(packet)))
calc_crc16(buff) == FoldLeft(LAMBDA w, byte : Eight(CcittBit, Xor(w, HighByte(byte))), {}, buff)

\* the two bytes of the seal, low byte first in both
Low(w) == w \cap 0 .. 7
High(w) == {k - 8 : k \in w \cap 8 .. 15}
Sealed(data, w) == data \o <<Low(w), High(w)>>
Tail2(f) == f[Len(f) - 1] \cup HighByte(f[Len(f)])

modbus_crc16_check(f) == Len(f) >= 3 /\ modbus_crc16(SubSeq(f, 1, Len(f) - 2)) = Tail2(f)
check_crc16(f) == calc_crc16(SubSeq(f, 1, Len(f) - 2)) = Tail2(f)

CrcInit ==
  /\ \E p \in Payloads : frame = [modbus |-> Sealed(p, modbus_crc16(p)), ccitt |-> Sealed(p, calc_crc16(p))]
  /\ flips = {}

\* each bit is damaged once at most
Damage(i, k) ==
  /\ Cardinality(flips) < MaxFlips /\ \A f \in flips : f[1] * 8 + f[2] < i * 8 + k
  /\ frame' = [c \in DOMAIN frame |-> [frame[c] EXCEPT ![i] = Xor(@, {k})]]
  /\ flips' = flips \cup {<<i, k>>}

CrcNext == \E i \in DOMAIN frame.modbus, k \in 0 .. 7 : Damage(i, k)

(***************************************************************************)
(* Properties.                                                             *)
(***************************************************************************)

CrcTypeOK == \A c \in DOMAIN frame : \A i \in DOMAIN frame[c] : frame[c][i] \subseteq 0 .. 7

(* A frame is accepted exactly when it arrives as it was sealed: one or    *)
(* two damaged bits are found wherever they are, in the seal too, and the  *)
(* two bytes of the seal are read in the order they were written in.       *)
DamageFound ==
  /\ modbus_crc16_check(frame.modbus) <=> flips = {}
  /\ check_crc16(frame.ccitt) <=> flips = {}
============================================================================
