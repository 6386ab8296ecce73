------------------------------ MODULE RegsSet ------------------------------
(***************************************************************************)
(* Writes of the clients to the registers: regs_set and regs_set_buffer.   *)
(*                                                                         *)
(* Modbus function 6 writes two bytes, function 16 and the string writes   *)
(* of the web interface write byte by byte, JSON values item by item.      *)
(* A register, or an item of a register array, may be wider than that, so  *)
(* regs_set collects its bytes in one static buffer (temp_data_buffering)  *)
(* and stores the item when all of its bytes have been sent, by whichever  *)
(* requests of whichever clients.  Requests run on the lwIP thread, one    *)
(* after the other.                                                        *)
(*                                                                         *)
(* Numbers are unsigned and little endian; bytes have Base values.         *)
(***************************************************************************)
EXTENDS Naturals, Sequences, FiniteSets

CONSTANTS
  Addr,        \* byte addresses of the registers
  Start,       \* [Addr -> Addr]: the first byte of the item an address is in
  Size,        \* [Addr -> Nat]: the size of that item in bytes
  MaxSize,     \* sizeof(data_buffer_t), 8 in the code
  ReadOnly,    \* the addresses of registers with the flag READ_ONLY
  Credential,  \* those of registers with the flag CREDENTIAL_FLAG
  Permitted,   \* ENABLE_CREDENTIAL_FLAG of the register permission; none of the requests
               \* is the command that changes it
  Text,        \* the addresses of wifi_name, wifi_password, wifi_router_...
  Symbols,     \* the bytes is_ascii_symbol_or_digital accepts
  Lowest, Highest,  \* [Addr -> Nat]: p_min_value and p_max_value of the item
  Base,        \* 256 in the code
  None,        \* reg_address = NULL
  Memory,      \* the values the registers may start with
  Requests,    \* the requests of the clients, see RequestType
  MaxRequests  \* bound on their number

Byte   == 0 .. (Base - 1)
Offset == 0 .. (MaxSize - 1)
\* The chunks of a request are the values of its successive calls of regs_set:
\* << <<b0, b1>> >> for function 6, << <<b0>>, <<b1>>, ... >> for function 16 and
\* strings.  All stop at the first error, but for JSON values, one chunk an item.
RequestType == [addr : Addr, chunks : Seq(Seq(Byte)), stops : BOOLEAN]

\* regs_write_access: not read only, or a credential while those may be written.
Writable == {a \in Addr : a \in ReadOnly => a \in Credential /\ Permitted}

ASSUME Layout ==
  /\ Addr \subseteq Nat
  /\ Base \in Nat \ {0, 1} /\ MaxSize \in Nat \ {0}
  /\ Start \in [Addr -> Addr] /\ Size \in [Addr -> 1 .. MaxSize]
  /\ \A a \in Addr : Start[a] <= a /\ a < Start[a] + Size[a]
  /\ \A a \in Addr : \A o \in 0 .. (Size[a] - 1) :
       LET b == Start[a] + o IN b \in Addr /\ Start[b] = Start[a] /\ Size[b] = Size[a]
  /\ Writable \subseteq Addr /\ Permitted \in BOOLEAN
  /\ \A a, b \in Addr : Start[a] = Start[b] => (a \in Writable <=> b \in Writable)
  /\ Text \subseteq Addr /\ \A a \in Text : Size[a] = 1
  /\ Symbols \subseteq Byte
  /\ Lowest \in [Addr -> Nat] /\ Highest \in [Addr -> Nat]
  /\ None \notin Addr
  /\ \A m \in Memory : m \in [Addr -> Byte]
  /\ \A r \in Requests : r \in RequestType
  /\ MaxRequests \in Nat

VARIABLES
  mem,               \* the registers
  item, flags, data, \* temp_data_buffering: reg_address, byte_writed_flags, bytes
  addr, rest,        \* the request in progress: next address, chunks not yet set
  result,            \* of the last regs_set
  requests,          \* number of requests so far
  last, before, held,  \* history: the last request, the registers and item at its start
  sentTo,            \* history: the address each byte of the buffer was sent to
  stored             \* history: offsets whose byte has been stored and not sent again

buffer  == <<item, flags, data>>
request == <<addr, rest, requests, last, before, held>>
vars    == <<mem, buffer, request, result, sentTo, stored>>

NoRequest == [addr |-> None, chunks |-> <<>>, stops |-> TRUE]

BufferOK ==
  /\ item \in Addr \cup {None} /\ flags \subseteq Offset /\ data \in [Offset -> Byte]
  /\ addr \in Nat /\ rest \in Seq(Seq(Byte))
  /\ sentTo \in [Offset -> Nat] /\ stored \subseteq Offset

TypeOK ==
  /\ BufferOK
  /\ mem \in [Addr -> Byte] /\ before \in [Addr -> Byte]
  /\ result \in {"illegal_address", "illegal_value", "true"}
  /\ requests \in Nat
  /\ last \in Requests \cup {NoRequest}
  /\ held \in Addr \cup {None}

Init ==
  /\ mem \in Memory /\ before = mem
  /\ item = None /\ flags = {} /\ data = [o \in Offset |-> 0]
  /\ addr = 0 /\ rest = <<>> /\ result = "true"
  /\ requests = 0 /\ last = NoRequest /\ held = None
  /\ sentTo = [o \in Offset |-> 0] /\ stored = {}

-----------------------------------------------------------------------------
(* regs_write_value_check                                                   *)

\* The value of the first n bytes of d.
Power[n \in 0 .. MaxSize] == IF n = 0 THEN 1 ELSE Base * Power[n - 1]
Number(d, n) ==
  LET Sum[i \in 0 .. n] == IF i = 0 THEN 0 ELSE Sum[i - 1] + d[i - 1] * Power[i - 1]
  IN Sum[n]

\* Limited to p_max_value, then to p_min_value.
ClampMaxOnly(a, v) == IF v > Highest[a] THEN Highest[a] ELSE v  \* mutant: no minimum
Clamp(a, v) ==
  LET w == IF v > Highest[a] THEN Highest[a] ELSE v
  IN IF w < Lowest[a] THEN Lowest[a] ELSE w

\* The bytes of the item at a that are stored for the bytes d of the buffer.
Checked(a, d) ==
  [o \in Offset |-> (Clamp(a, Number(d, Size[a])) \div Power[o]) % Base]

\* The names and passwords of wifi take symbols only, and no zero.
Refused(a, d) == a \in Text /\ d[0] \notin Symbols

\* The value of the item at a in memory m, and whether all values keep their limits.
Value(m, a) == Number([o \in Offset |-> IF o < Size[a] THEN m[Start[a] + o] ELSE 0], Size[a])
WithinLimits(m) ==
  \A a \in Writable : a = Start[a] => Lowest[a] <= Value(m, a) /\ Value(m, a) <= Highest[a]

\* The limits are values of the register's own type, the same for all of its bytes, and the
\* registers start within them.
ASSUME Limits ==
  /\ \A a \in Addr : Lowest[a] <= Highest[a] /\ Highest[a] < Power[Size[a]]
  /\ \A a \in Addr : Lowest[a] = Lowest[Start[a]] /\ Highest[a] = Highest[Start[a]]
  /\ \A m \in Memory : WithinLimits(m)

-----------------------------------------------------------------------------
(* regs_fill_temp_buffer, regs_check_temp_buffer, regs_clear_temp_buffer    *)

\* A byte for another item than the one in the buffer starts the buffer anew.
KeepsAlways(a) == TRUE  \* mutant: the bytes of the other item stay
Keeps(a) == item = Start[a]

\* The offsets that a chunk for address a fills: no further than its item.
Filled(a, chunk) ==
  LET first == a - Start[a] IN
  {o \in Offset : first <= o /\ o < first + Len(chunk) /\ o < Size[a]}

FilledFlags(a, chunk) == (IF Keeps(a) THEN flags ELSE {}) \cup Filled(a, chunk)

FilledData(a, chunk) ==
  [o \in Offset |-> IF o \in Filled(a, chunk) THEN chunk[o - (a - Start[a]) + 1]
                    ELSE IF Keeps(a) THEN data[o] ELSE 0]

Complete(a, f) == \A o \in Offset : o < Size[a] => o \in f

ClearForgotten == UNCHANGED buffer  \* mutant: the buffer keeps the stored bytes
Clear == item' = None /\ flags' = {} /\ data' = [o \in Offset |-> 0]

-----------------------------------------------------------------------------
\* regs_write_access
AccessAlways(a) == a \in Addr  \* mutant: the flags are not looked at
Access(a) == a \in Writable

\* A request arrives: Modbus function 6 or 16, or a JSON write.
Receive(r) ==
  /\ rest = <<>> /\ requests < MaxRequests
  /\ addr' = r.addr /\ rest' = r.chunks
  /\ requests' = requests + 1
  /\ last' = r /\ before' = mem /\ held' = item
  /\ UNCHANGED <<mem, buffer, result, sentTo, stored>>

\* The next call of regs_set for this request: an error ends most of them.
After(chunk, fine) ==
  IF fine \/ ~last.stops
    THEN addr' = addr + Len(chunk) /\ rest' = Tail(rest)
    ELSE rest' = <<>> /\ UNCHANGED addr

\* What the history says of a chunk that went into the buffer.
Recorded(chunk) ==
  sentTo' = [o \in Offset |-> IF o \in Filled(addr, chunk) THEN Start[addr] + o ELSE sentTo[o]]

\* The registers when the item at a is complete.
Stored(a, d) ==
  [b \in Addr |-> IF Start[b] = Start[a] /\ ~Refused(a, d) THEN Checked(a, d)[b - Start[b]]
                                                        ELSE mem[b]]

\* regs_set for the next chunk.
RegsSetDenied ==
  /\ rest # <<>> /\ ~Access(addr)
  /\ result' = "illegal_address"
  /\ After(Head(rest), FALSE)
  /\ UNCHANGED <<mem, buffer, requests, last, before, held, sentTo, stored>>

RegsSetCollect ==
  LET chunk == Head(rest) IN
  /\ rest # <<>> /\ Access(addr) /\ ~Complete(addr, FilledFlags(addr, chunk))
  /\ item' = Start[addr]
  /\ flags' = FilledFlags(addr, chunk)
  /\ data' = FilledData(addr, chunk)
  /\ result' = "true"
  /\ Recorded(chunk) /\ stored' = stored \ Filled(addr, chunk)
  /\ After(chunk, TRUE)
  /\ UNCHANGED <<mem, requests, last, before, held>>

\* The last byte of an item: it is checked and stored and the buffer is cleared,
\* also when the value is refused.  (regs_hadle_sets follows: mirror and command,
\* see RegsStore.)
RegsSetStore ==
  LET chunk == Head(rest)
      bytes == FilledData(addr, chunk)
  IN
  /\ rest # <<>> /\ Access(addr) /\ Complete(addr, FilledFlags(addr, chunk))
  /\ mem' = Stored(addr, bytes)
  /\ Clear
  /\ Recorded(chunk) /\ stored' = stored \cup {o \in Offset : o < Size[addr]}
  /\ result' = IF Refused(addr, bytes) THEN "illegal_value" ELSE "true"
  /\ After(chunk, ~Refused(addr, bytes))
  /\ UNCHANGED <<requests, last, before, held>>

RegsSet == RegsSetDenied \/ RegsSetCollect \/ RegsSetStore

Next == RegsSet \/ \E r \in Requests : Receive(r)

Spec == Init /\ [][Next]_vars

-----------------------------------------------------------------------------
(* Properties                                                               *)

\* Every byte in the buffer was sent to the item the buffer is for, at its place:
\* an unfinished write of one register never ends up in another.  About the reset in
\* regs_fill_temp_buffer.
OwnBytes == \A o \in flags : item # None /\ sentTo[o] = item + o /\ o < Size[item]

\* Every byte in the buffer was sent after the last item was stored: no byte is
\* stored twice.  About regs_clear_temp_buffer.
FreshBytes == flags \cap stored = {}

\* A read only register is never changed through regs_set, but for a credential while that
\* is permitted, whatever the widths of the write and of the registers next to it.
ReadOnlyKept ==
  [][\A a \in Addr \cap ReadOnly : mem'[a] # mem[a] => a \in Credential /\ Permitted]_vars

\* Registers that start within their limits stay within them, item by item, although
\* their bytes arrive in pieces.  About regs_write_value_check.
LimitsHold == WithinLimits(mem)

\* A request that ended with an error changed registers in front of the failing
\* address only: it is cut off there, and the refused item keeps its value.
PrefixOnly ==
  (last # NoRequest /\ last.stops /\ result # "true" /\ rest = <<>>) =>
    \A a \in Addr : mem[a] # before[a] => a < addr

\* The address of the i-th chunk of request r.
ChunkAddr(r, i) ==
  LET Total[k \in 0 .. Len(r.chunks)] == IF k = 0 THEN 0 ELSE Total[k - 1] + Len(r.chunks[k])
  IN r.addr + Total[i - 1]

\* The chunks of request r that hold a byte for address a: at most one.  A chunk is for
\* the item it starts in.
ChunksFor(r, a) ==
  {i \in DOMAIN r.chunks :
     LET c == ChunkAddr(r, i) IN
     c \in Addr /\ Start[c] = Start[a] /\ c <= a /\ a < c + Len(r.chunks[i])}

SentByte(r, a) ==
  LET i == CHOOSE i \in ChunksFor(r, a) : TRUE IN r.chunks[i][a - ChunkAddr(r, i) + 1]

\* The last request is done and had every byte of the writable item at a.
SentWhole(a) ==
  /\ a = Start[a] /\ a \in Writable
  /\ last # NoRequest /\ rest = <<>> /\ (last.stops => result = "true")
  /\ \A o \in 0 .. (Size[a] - 1) : ChunksFor(last, a + o) # {}

StoredAsSent(a) ==
  LET bytes == [o \in Offset |-> IF o < Size[a] THEN SentByte(last, a + o) ELSE 0]
  IN Refused(a, bytes) \/ \A o \in 0 .. (Size[a] - 1) : mem[a + o] = Checked(a, bytes)[o]

\* An item whose bytes a request sends completely holds the value of that request
\* when it ends, whatever else lay in the shared buffer, provided it was not bytes of
\* that very item.
WholeWriteStored == \A a \in Addr : SentWhole(a) /\ a # held => StoredAsSent(a)

\* What is stored is the request: within the limits of the register, a part of a request
\* only from its beginning, and all of it when the answer says so.
StoredRight == TypeOK /\ LimitsHold /\ PrefixOnly /\ WholeWriteStored

-----------------------------------------------------------------------------
(* The inductive invariants of the proofs in RegsSetProofs.                 *)
IInv == BufferOK /\ OwnBytes /\ FreshBytes

\* The buffer never holds a whole item between two calls.
Incomplete == item # None => ~Complete(item, flags)

\* What a request has changed so far lies in front of it or, while it succeeds, in the
\* item of several bytes it is in the middle of.
Changed == {a \in Addr : mem[a] # before[a]}
Behind ==
  last.stops => \A a \in Changed :
    \/ a < addr
    \/ result = "true" /\ addr \in Writable /\ Start[addr] = Start[a] /\ Size[addr] > 1

\* The number of chunks of the last request that regs_set has seen.
Done == Len(last.chunks) - Len(rest)
InProgress ==
  /\ Done \in 0 .. Len(last.chunks) /\ addr = ChunkAddr(last, Done + 1)
  /\ \A i \in 1 .. Len(rest) : rest[i] = last.chunks[Done + i]
Failed == rest = <<>> /\ last.stops /\ result # "true"

\* The chunks seen so far that hold a byte of the item at a.
Seen(a, o) == {i \in ChunksFor(last, a + o) : i <= Done}

\* An item the request has not passed: the buffer holds the bytes seen, and no others.
Gathered(a) ==
  /\ \A o \in 0 .. (Size[a] - 1) : \A i \in Seen(a, o) :
       item = a /\ o \in flags /\ data[o] = last.chunks[i][a + o - ChunkAddr(last, i) + 1]
  /\ item = a => \A o \in flags : Seen(a, o) # {}
\* An item the request has passed and sent completely is stored.
Kept(a) == (\A o \in 0 .. (Size[a] - 1) : Seen(a, o) # {}) => StoredAsSent(a)

Progress ==
  last # NoRequest =>
    \/ Failed
    \/ /\ InProgress
       /\ \A a \in Writable : a = Start[a] /\ a # held =>
            IF addr < a + Size[a] THEN Gathered(a) ELSE Kept(a)

WInv == IInv /\ TypeOK /\ LimitsHold /\ Incomplete /\ Behind /\ Progress
============================================================================
