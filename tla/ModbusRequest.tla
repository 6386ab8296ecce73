--------------------------- MODULE ModbusRequest ---------------------------
(***************************************************************************)
(* Requests of Modbus clients: modbus_rtu_packet, from the check of a      *)
(* request to its answer, on top of RegsSet (writes of registers) and the  *)
(* Modbus lookup of RegsLookup.  Requests run one after the other on the   *)
(* lwIP thread; a write of registers takes several calls of regs_set.      *)
(*                                                                         *)
(* A word travels high byte first and is stored low byte first.  A coil    *)
(* takes two bytes of a register, of which the low one counts.  Bytes of a *)
(* buffer that the request did not fill are arbitrary.                     *)
(***************************************************************************)
EXTENDS RegsSet

CONSTANTS
  Tables, Global, Desc, MaxTables,  \* see RegsLookup
  Order,          \* the tables in the order of their registration
  FirstCoil, NumCoils,  \* the first byte of the registers with coils, and how many coils
  Pdus,           \* the requests of the clients, see PduType
  MaxRegs, MaxReadCoils, MaxWriteCoils,  \* 125, 2000, 1968 in the code
  Words16         \* 65536 in the code: Modbus addresses are u16

Full == [i \in 0 .. (MaxTables - 1) |-> IF i < Len(Order) THEN Order[i + 1] ELSE None]

Lookup == INSTANCE RegsLookup WITH
  desc <- Full,
  num <- [i \in 0 .. (MaxTables - 1) |-> IF Full[i] = None THEN 0 ELSE Len(Desc[Full[i]])],
  count <- Len(Order),
  userVars <- 0, userVarsReg <- 0, pc <- <<>>, at <- <<>>, index <- <<>>, overlap <- FALSE

\* The Modbus numbers of the coils, two bytes each.
CoilNumbers == 0 .. (NumCoils - 1)
CoilAddr == FirstCoil .. (FirstCoil + 2 * NumCoils - 1)

\* Function 6 sends one word; of functions 5 and 15 data holds the bits.
PduType == [fn : Nat, start : 0 .. (Words16 - 1), num : Nat, bytes : Nat, data : Seq(Nat),
            whole : BOOLEAN, mine : BOOLEAN]

\* The generator lays the registers of a structure one behind the other, and two bytes of it
\* are one Modbus number: so are the coils, which are read with function 1 only.  Registers
\* are writable or not as a whole.
ASSUME Described ==
  /\ MaxTables \in Nat /\ Words16 \in Nat \ {0} /\ MaxRegs \in Nat /\ MaxReadCoils \in Nat /\ MaxWriteCoils \in Nat
  /\ Order \in Seq(Tables)
  /\ \A t \in Tables : Len(Desc[t]) \in Nat /\ \A j \in 1 .. Len(Desc[t]) : Desc[t][j] \in Lookup!Register
  /\ FirstCoil \in Nat /\ NumCoils \in Nat
  /\ NumCoils + MaxReadCoils <= Words16 /\ NumCoils + MaxWriteCoils <= Words16
  /\ \A t \in Tables : \A j \in 1 .. Len(Desc[t]) :
       LET r == Desc[t][j] IN
       /\ r.fn \in 0 .. 2 => r.fn = 1 /\ r.addr = FirstCoil + 2 * r.mdb /\ r.mdb + r.bytes \div 2 <= NumCoils
       /\ r.bytes > 1
       /\ r.fn = 3 => \A b \in 0 .. (r.bytes - 1) :
                        r.addr + b \in Addr /\ (r.addr + b \in Writable <=> r.addr \in Writable)
  /\ \A p \in Pdus : /\ p \in PduType
                     /\ p.fn \in {6, 16} => p.data \in Seq(Byte)
                     /\ p.fn = 6 => p.num = 1 /\ Len(p.data) = 2
                     /\ p.fn = 5 => Len(p.data) = 1
                     /\ p.fn = 15 => Len(p.data) = p.num /\ p.data \in Seq(0 .. 1)

VARIABLES
  coil,     \* the bytes of the registers with coils
  pdu,      \* the last request
  reply,    \* its answer, NoReply as long as there is none
  served,   \* number of requests so far
  wrote,    \* history: the last write of registers, if it was answered without error
  bits      \* history: the coils as the answered requests have set them, by number

mvars == <<coil, pdu, reply, served, wrote, bits>>

\* Functions and error codes of modbus.h.
ILLEGAL_FUNCTION == 1
ILLEGAL_DATA_ADDRESS == 2
ILLEGAL_DATA_VALUE == 3

NoPdu   == [fn |-> 3, start |-> 0, num |-> 0, bytes |-> 0, data |-> <<>>, whole |-> FALSE, mine |-> FALSE]
NoReply == [error |-> 0, payload |-> <<>>, sent |-> FALSE]
Answer(payload) == [error |-> 0, payload |-> payload, sent |-> TRUE]
Failure(code)   == [error |-> code, payload |-> <<>>, sent |-> TRUE]

MTypeOK ==
  /\ coil \in [CoilAddr -> Byte]
  /\ pdu \in Pdus \cup {NoPdu} /\ wrote \in Pdus \cup {NoPdu}
  /\ reply.error \in 0 .. 3 /\ reply.sent \in BOOLEAN
  /\ served \in 0 .. MaxRequests /\ bits \in [CoilNumbers -> 0 .. 1]

MInit ==
  /\ Init
  /\ coil = [a \in CoilAddr |-> 0] /\ pdu = NoPdu /\ wrote = NoPdu /\ reply = NoReply
  /\ served = 0 /\ bits = [n \in CoilNumbers |-> 0]

Idle == rest = <<>> /\ (reply.sent \/ pdu = NoPdu) /\ served < MaxRequests

Pointers == [f \in 0 .. 4 |-> [m \in 0 .. (Words16 - 1) |-> Lookup!PointerByModbus(m, f)]]
Pointer(m, f) == Pointers[f][m % Words16]

-----------------------------------------------------------------------------
(* it_modbus_request_check, it_modbus_tcp_full_check, modbus_packet_for_me:  *)
(* a request has the length that its function and byte count imply.         *)

Known == {0, 1, 2, 3, 4, 5, 6, 15, 16}

\* A request that is not whole is answered with an error, one for another device not
\* at all; 65 passes the check and ends in the default of the switch.
Reject(p) ==
  /\ Idle
  /\ ~p.whole \/ ~p.mine \/ p.fn \notin Known
  /\ pdu' = p
  /\ reply' = IF p.whole /\ ~p.mine THEN [NoReply EXCEPT !.sent = TRUE] ELSE Failure(ILLEGAL_FUNCTION)
  /\ served' = served + 1
  /\ UNCHANGED <<vars, coil, wrote, bits>>

Accepted(p, fns) == Idle /\ p.whole /\ p.mine /\ p.fn \in fns /\ pdu' = p

\* A request that is answered at once and leaves the registers alone.
Answered(r) ==
  /\ reply' = r
  /\ served' = served + 1
  /\ UNCHANGED <<vars, wrote>>

-----------------------------------------------------------------------------
(* Coils: functions 0, 1, 2, 5, 15                                          *)

\* The first and the last coil exist.
RangeExists(p, f) == Pointer(p.start, f) # None /\ Pointer(p.start + p.num + Words16 - 1, f) # None

CoilByte(a) == IF a \in CoilAddr THEN coil[a] ELSE 0

\* The coils are packed into bytes, the first one lowest; the bits behind the last coil
\* keep what the packet held and are left out.
ReadBits(p) ==
  LET first == Pointer(p.start, p.fn) IN
  /\ Accepted(p, {0, 1, 2})
  /\ Answered(
       IF ~RangeExists(p, p.fn) THEN Failure(ILLEGAL_DATA_ADDRESS)
       ELSE IF p.num = 0 \/ p.num > MaxReadCoils THEN Failure(ILLEGAL_DATA_VALUE)
       ELSE Answer([i \in 1 .. p.num |-> CoilByte(first + 2 * (i - 1)) % 2]))
  /\ UNCHANGED <<coil, bits>>

\* The value is put into the low byte of an uninitialised word (op_u8), so the other
\* byte becomes anything.
CoilsSet(first, values, junk) ==
  [a \in CoilAddr |->
     IF first <= a /\ a < first + 2 * Len(values)
       THEN IF (a - first) % 2 = 0 THEN values[(a - first) \div 2 + 1] ELSE junk
       ELSE coil[a]]

\* What the request says in terms of coil numbers, if it is answered without error.
Recorded5and15(p) ==
  bits' = [n \in CoilNumbers |->
             IF reply'.error = 0 /\ p.start <= n /\ n < p.start + Len(p.data)
               THEN p.data[n - p.start + 1] ELSE bits[n]]

\* Function 5: data is <<1>> for 0xff00, <<0>> for 0x0000, anything else is refused.
WriteCoil(p, junk) ==
  LET first == Pointer(p.start, 1) IN
  /\ Accepted(p, {5})
  /\ Answered(IF first = None THEN Failure(ILLEGAL_DATA_ADDRESS)
              ELSE IF p.data \notin {<<0>>, <<1>>} THEN Failure(ILLEGAL_DATA_VALUE)
              ELSE Answer(<<>>))
  /\ coil' = IF reply'.error = 0 THEN CoilsSet(first, p.data, junk) ELSE coil
  /\ Recorded5and15(p)

\* Function 15: data holds the bits, bytes is the byte count that was sent.
CoilsFit(p) == p.num # 0 /\ p.num <= MaxWriteCoils /\ p.bytes = (p.num + 7) \div 8

WriteCoils(p, junk) ==
  LET first == Pointer(p.start, 1) IN
  /\ Accepted(p, {15})
  /\ Answered(IF ~RangeExists(p, 1) THEN Failure(ILLEGAL_DATA_ADDRESS)
              ELSE IF ~CoilsFit(p) THEN Failure(ILLEGAL_DATA_VALUE)
              ELSE Answer(<<>>))
  /\ coil' = IF reply'.error = 0 THEN CoilsSet(first, p.data, junk) ELSE coil
  /\ Recorded5and15(p)

-----------------------------------------------------------------------------
(* Registers: functions 3, 4, 6, 16                                         *)

\* htons_buff: the bytes of each word change places.
Swapped(bytes) == [i \in 1 .. Len(bytes) |-> IF i % 2 = 1 THEN bytes[i + 1] ELSE bytes[i - 1]]

RegsFit(p) == p.num >= 1 /\ p.num <= MaxRegs

\* What lies behind the registers is read as well; it is 0 here.
MemByte(a) == IF a \in Addr THEN mem[a] ELSE 0

ReadRegistersAsStored(p) ==  \* mutant: without htons_buff
  /\ Accepted(p, {3, 4}) /\ RegsFit(p) /\ Pointer(p.start, p.fn) # None
  /\ Answered(Answer([i \in 1 .. (2 * p.num) |-> MemByte(Pointer(p.start, p.fn) + i - 1)]))
  /\ UNCHANGED <<coil, bits>>
\* A wrong number of registers comes before a wrong address.
ReadRegisters(p) ==
  LET first == Pointer(p.start, p.fn) IN
  /\ Accepted(p, {3, 4})
  /\ Answered(
       IF ~RegsFit(p) THEN Failure(ILLEGAL_DATA_VALUE)
       ELSE IF first = None THEN Failure(ILLEGAL_DATA_ADDRESS)
       ELSE Answer(Swapped([i \in 1 .. (2 * p.num) |-> MemByte(first + i - 1)])))
  /\ UNCHANGED <<coil, bits>>

\* Function 6 sets one word, function 16 goes on byte by byte.  The byte count of
\* function 16 is not compared with num: bytes that were not sent are junk.
Chunks(p, junk) ==
  IF p.fn = 6 THEN << Swapped(p.data) >>
  ELSE LET all == [i \in 1 .. (2 * p.num) |-> IF i <= Len(p.data) THEN p.data[i] ELSE junk]
       IN [i \in 1 .. (2 * p.num) |-> <<Swapped(all)[i]>>]

WriteError(p) ==
  IF p.fn = 16 /\ ~RegsFit(p) THEN ILLEGAL_DATA_VALUE
  ELSE IF Pointer(p.start, 3) = None THEN ILLEGAL_DATA_ADDRESS ELSE 0

\* The calls of regs_set that a write of the words from address a makes are one of the
\* requests of RegsSet.
WordAddrs ==
  {a \in Addr : \E t \in Tables : \E j \in 1 .. Len(Desc[t]) :
     Desc[t][j].fn = 3 /\ \E k \in 0 .. (Desc[t][j].bytes \div 2 - 1) : a = Desc[t][j].addr + 2 * k}
WriteTo(a, p, junk) == [addr |-> a, chunks |-> Chunks(p, junk), stops |-> TRUE]
ASSUME Included ==
  \A p \in Pdus, a \in WordAddrs, junk \in Byte :
    p.fn = 6 \/ (p.fn = 16 /\ RegsFit(p)) => WriteTo(a, p, junk) \in Requests

WriteRefused(p) ==
  /\ Accepted(p, {6, 16}) /\ WriteError(p) # 0
  /\ Answered(Failure(WriteError(p)))
  /\ UNCHANGED <<coil, bits>>

\* The calls of regs_set follow, see RegsSet.
WriteRegisters(p, junk) ==
  /\ Accepted(p, {6, 16}) /\ WriteError(p) = 0
  /\ Receive(WriteTo(Pointer(p.start, 3), p, junk))
  /\ reply' = NoReply /\ served' = served + 1
  /\ UNCHANGED <<coil, wrote, bits>>

SetStep == RegsSet /\ UNCHANGED mvars

Busy == pdu # NoPdu /\ ~reply.sent /\ rest = <<>>

WriteDoneClears ==  \* mutant: the bytes of an unfinished item are dropped
  /\ Busy /\ Clear
  /\ reply' = Answer(<<>>)
  /\ UNCHANGED <<mem, request, result, sentTo, stored, coil, pdu, wrote, served, bits>>
\* The answer says whether the last call of regs_set failed, and how.
WriteDone ==
  /\ Busy
  /\ reply' = CASE result = "illegal_address" -> Failure(ILLEGAL_DATA_ADDRESS)
                [] result = "illegal_value" -> Failure(ILLEGAL_DATA_VALUE)
                [] OTHER -> Answer(<<>>)
  /\ wrote' = IF reply'.error = 0 THEN pdu ELSE NoPdu
  /\ UNCHANGED <<vars, coil, pdu, served, bits>>

\* A write through the web interface in between.
WebWrite(r) ==
  /\ Idle /\ Receive(r)
  /\ wrote' = NoPdu /\ served' = served + 1
  /\ UNCHANGED <<coil, pdu, reply, bits>>

MNext ==
  \/ \E p \in Pdus : Reject(p) \/ ReadBits(p) \/ ReadRegisters(p) \/ WriteRefused(p)
  \/ \E p \in Pdus, junk \in Byte : WriteCoil(p, junk) \/ WriteCoils(p, junk) \/ WriteRegisters(p, junk)
  \/ \E r \in {q \in Requests : ~q.stops} : WebWrite(r)
  \/ SetStep \/ WriteDone

MSpec == MInit /\ [][MNext]_<<vars, mvars>>

-----------------------------------------------------------------------------
(* Properties                                                               *)

\* The writes of registers that Modbus and web requests make are those RegsSet allows:
\* what is proved of RegsSet holds for the requests of this module.
WritesImplementRegsSet == Spec

\* The bytes that n words from Modbus address m stand for.
Range(m, n) == LET p == Pointer(m, 3) IN p .. (p + 2 * n - 1)

\* A range of whole items without limits or symbols.
PlainItems(as) ==
  \A a \in as : /\ a \in Addr \ Text /\ Lowest[a] = 0 /\ Highest[a] = Power[Size[a]] - 1
                /\ \A o \in 0 .. (Size[a] - 1) : Start[a] + o \in as

\* Function 6 sets the item of the first byte only; of an array of bytes the second is lost.
OneItem(p) == p.fn = 6 => Start[Pointer(p.start, 3)] = Start[Pointer(p.start, 3) + 1]

\* Registers that were written by one request, answered without error, are read back as
\* they were sent, byte by byte: the lookups, the order of the bytes and regs_set agree.
\* (With bytes of the same item left in the buffer they need not be: these are stored too.)
ReadBack ==
  (/\ reply.sent /\ reply.error = 0 /\ pdu.mine /\ pdu.fn = 3 /\ wrote # NoPdu
   /\ pdu.start = wrote.start /\ pdu.num = wrote.num /\ Len(wrote.data) = 2 * wrote.num /\ OneItem(wrote)
   /\ PlainItems(Range(pdu.start, pdu.num)) /\ held \notin Range(pdu.start, pdu.num))
  => reply.payload = wrote.data

\* Coils read are the coils that were set by number, at any offset and across bytes,
\* and a write that was not refused named existing coils only.
CoilsByNumber ==
  reply.sent /\ reply.error = 0 /\ pdu.mine =>
    /\ pdu.fn \in {0, 1, 2} => \A i \in 1 .. pdu.num : reply.payload[i] = bits[pdu.start + i - 1]
    /\ pdu.fn = 15 => \A i \in 1 .. pdu.num : pdu.start + i - 1 \in CoilNumbers

\* An answer without error to a write of registers means that every register in its
\* range may be written: a read only one makes the request fail.
OnlyWritable == wrote # NoPdu => Range(wrote.start, IF wrote.fn = 6 THEN 1 ELSE wrote.num) \subseteq Writable

\* A client reads back what memory holds, word by word and coil by coil, and the answer to
\* a write of coils means the coils of those numbers.
ReadRight == MTypeOK /\ ReadBack /\ CoilsByNumber /\ OnlyWritable

-----------------------------------------------------------------------------
(* The inductive invariant of the proofs in ModbusRequestProofs, together    *)
(* with WInv of RegsSet.                                                     *)

\* The request of RegsSet that the write of registers p makes.
Writes(p, r) ==
  /\ p \in Pdus /\ p.fn \in {6, 16} /\ WriteError(p) = 0
  /\ \E junk \in Byte : r = WriteTo(Pointer(p.start, 3), p, junk)

\* Without an answer the last request is a write of registers in progress; the write
\* remembered when there is one was the last of all writes, and went through.
Current == ~reply.sent => IF pdu = NoPdu THEN wrote = NoPdu ELSE Writes(pdu, last)
Latest == wrote # NoPdu /\ reply.sent => Writes(wrote, last) /\ rest = <<>> /\ result = "true"

\* A request that stops at an error has met writable addresses only, as long as it goes well.
Passed == last.stops => Failed \/ \A i \in 1 .. Done : ChunkAddr(last, i) \in Writable

CoilsKept == \A n \in CoilNumbers : coil[FirstCoil + 2 * n] = bits[n]

MInv == Current /\ Latest /\ Passed /\ CoilsKept /\ ReadRight
============================================================================
