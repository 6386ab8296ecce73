--------------------------- MODULE RegsSetProofs ---------------------------
(***************************************************************************)
(* Proofs for RegsSet, for every layout of registers and every request.    *)
(*                                                                         *)
(* IInv says where the bytes of the buffer come from, and does not depend  *)
(* on what is stored.  WInv adds what the request in progress has done so  *)
(* far: Incomplete, Behind and Progress.  Its proof needs the arithmetic   *)
(* of regs_write_value_check: a number is the sum of its digits, and its   *)
(* digits are those of the number (NumberSums, Digits), by induction.      *)
(***************************************************************************)
EXTENDS RegsSet, TLAPS, WellFoundedInduction

\* An address that may be written lies in its item, at one of the offsets of the buffer.
LEMMA Place ==
  ASSUME NEW a \in Writable
  PROVE  /\ a \in Addr /\ a \in Nat
         /\ Start[a] \in Addr /\ Start[a] \in Nat /\ Start[a] # None
         /\ Size[a] \in 1 .. MaxSize /\ MaxSize \in Nat
         /\ a - Start[a] \in 0 .. (Size[a] - 1)
         /\ Start[Start[a]] = Start[a] /\ Size[Start[a]] = Size[a]
<1>1. a \in Addr /\ Start[a] \in Addr /\ Size[a] \in 1 .. MaxSize
  BY Layout
<1>2. a \in Nat /\ Start[a] \in Nat /\ MaxSize \in Nat /\ Start[a] # None
  BY <1>1, Layout
<1>3. a - Start[a] \in 0 .. (Size[a] - 1)
  BY <1>1, <1>2, Layout
<1>4. 0 \in 0 .. (Size[a] - 1)
  BY <1>1, <1>2
<1>5. Start[Start[a] + 0] = Start[a] /\ Size[Start[a] + 0] = Size[a]
  BY <1>1, <1>4, Layout
<1>6. Start[a] + 0 = Start[a]
  BY <1>2
<1> QED
  BY <1>1, <1>2, <1>3, <1>5, <1>6

\* The offsets a chunk fills are offsets of the item, each with a byte of the chunk.
LEMMA FilledPlaces ==
  ASSUME NEW a \in Writable, NEW chunk \in Seq(Byte), NEW o \in Filled(a, chunk)
  PROVE  /\ o \in Offset /\ o < Size[a] /\ o < Size[Start[a]]
         /\ chunk[o - (a - Start[a]) + 1] \in Byte
<1>1. o \in Offset /\ o < Size[a] /\ a - Start[a] <= o /\ o < a - Start[a] + Len(chunk)
  BY DEF Filled
<1>2. o \in Nat /\ a - Start[a] \in Nat /\ Len(chunk) \in Nat
  BY <1>1, Place DEF Offset
<1>3. o - (a - Start[a]) + 1 \in 1 .. Len(chunk)
  BY <1>1, <1>2
<1> QED
  BY <1>1, <1>3, Place

\* The bytes of the buffer with the next chunk.
LEMMA FilledDataBytes ==
  ASSUME BufferOK, NEW a \in Writable, NEW chunk \in Seq(Byte)
  PROVE  FilledData(a, chunk) \in [Offset -> Byte]
<1>1. ASSUME NEW o \in Offset
      PROVE  (IF o \in Filled(a, chunk) THEN chunk[o - (a - Start[a]) + 1]
              ELSE IF Keeps(a) THEN data[o] ELSE 0) \in Byte
  <2>1. 0 \in Byte
    BY Layout DEF Byte
  <2>2. data[o] \in Byte
    BY DEF BufferOK
  <2> QED
    BY <2>1, <2>2, FilledPlaces
<1> QED
  BY <1>1 DEF FilledData

\* The chunk of the next regs_set and the rest of the request keep their types.
LEMMA ChunksTyped ==
  ASSUME addr \in Nat, rest \in Seq(Seq(Byte)), rest # <<>>
  PROVE  /\ Head(rest) \in Seq(Byte) /\ Len(Head(rest)) \in Nat
         /\ \A fine \in BOOLEAN : After(Head(rest), fine) => addr' \in Nat /\ rest' \in Seq(Seq(Byte))
<1>1. Head(rest) \in Seq(Byte) /\ Tail(rest) \in Seq(Seq(Byte))
  OBVIOUS
<1>2. Len(Head(rest)) \in Nat
  BY <1>1
<1>3. <<>> \in Seq(Seq(Byte))
  OBVIOUS
<1>4. addr + Len(Head(rest)) \in Nat
  BY <1>2
<1>5. ASSUME NEW fine \in BOOLEAN, After(Head(rest), fine)
      PROVE  addr' \in Nat /\ rest' \in Seq(Seq(Byte))
  <2>1. CASE fine \/ ~last.stops
    BY <1>1, <1>4, <1>5, <2>1, Zenon DEF After
  <2>2. CASE ~(fine \/ ~last.stops)
    BY <1>3, <1>5, <2>2, Zenon DEF After
  <2> QED
    BY <2>1, <2>2
<1> QED
  BY <1>1, <1>2, <1>5

\* The registers start with an empty buffer.
LEMMA InitHolds == Init => IInv
<1> SUFFICES ASSUME Init PROVE IInv
  OBVIOUS
<1>1. 0 \in Byte
  BY Layout DEF Byte
<1>2. BufferOK
  BY <1>1 DEF Init, BufferOK
<1> QED
  BY <1>2 DEF Init, IInv, OwnBytes, FreshBytes

\* A chunk that does not complete its item.
LEMMA CollectKeeps == IInv /\ RegsSetCollect => IInv'
<1> SUFFICES ASSUME IInv, RegsSetCollect PROVE IInv'
  OBVIOUS
<1> DEFINE chunk == Head(rest)
<1>1. addr \in Writable /\ rest # <<>>
  BY DEF RegsSetCollect, Access
<1>2. BufferOK /\ OwnBytes /\ FreshBytes
  BY DEF IInv
<1>3. chunk \in Seq(Byte) /\ addr' \in Nat /\ rest' \in Seq(Seq(Byte))
  BY <1>1, <1>2, ChunksTyped DEF BufferOK, RegsSetCollect
<1>4. /\ item' = Start[addr] /\ flags' = FilledFlags(addr, chunk)
      /\ data' = FilledData(addr, chunk)
      /\ Recorded(chunk) /\ stored' = stored \ Filled(addr, chunk)
  BY DEF RegsSetCollect
<1> HIDE DEF chunk
<1>5. item' \in Addr /\ item' # None
  BY <1>1, <1>4, Place
<1>6. flags' \subseteq Offset
  BY <1>1, <1>2, <1>3, <1>4, FilledPlaces DEF BufferOK, FilledFlags
<1>7. data' \in [Offset -> Byte]
  BY <1>1, <1>2, <1>3, <1>4, FilledDataBytes
<1>8. sentTo' \in [Offset -> Nat]
  <2>1. \A o \in Offset : Start[addr] + o \in Nat
    BY <1>1, Place DEF Offset
  <2> QED
    BY <1>2, <1>4, <2>1 DEF Recorded, BufferOK
<1>9. BufferOK'
  BY <1>2, <1>3, <1>4, <1>5, <1>6, <1>7, <1>8 DEF BufferOK
<1>10. OwnBytes'
  <2> SUFFICES ASSUME NEW o \in flags'
               PROVE  item' # None /\ sentTo'[o] = item' + o /\ o < Size[item']
    BY DEF OwnBytes
  <2>1. o \in Offset
    BY <1>6
  <2>2. CASE o \in Filled(addr, chunk)
    BY <1>1, <1>3, <1>4, <1>5, <2>1, <2>2, FilledPlaces DEF Recorded
  <2>3. CASE o \notin Filled(addr, chunk)
    <3>1. o \in flags /\ item = Start[addr]
      BY <1>4, <2>3 DEF FilledFlags, Keeps
    <3>2. sentTo'[o] = sentTo[o]
      BY <1>4, <2>1, <2>3 DEF Recorded
    <3> QED
      BY <1>2, <1>4, <1>5, <3>1, <3>2 DEF OwnBytes
  <2> QED
    BY <2>2, <2>3
<1>11. FreshBytes'
  BY <1>2, <1>4 DEF FreshBytes, FilledFlags
<1> QED
  BY <1>9, <1>10, <1>11 DEF IInv

\* A chunk that completes its item leaves the buffer empty.
LEMMA StoreKeeps == IInv /\ RegsSetStore => IInv'
<1> SUFFICES ASSUME IInv, RegsSetStore PROVE IInv'
  OBVIOUS
<1>1. addr \in Writable /\ rest # <<>> /\ BufferOK
  BY DEF RegsSetStore, Access, IInv
<1>2. addr' \in Nat /\ rest' \in Seq(Seq(Byte))
  BY <1>1, ChunksTyped DEF BufferOK, RegsSetStore
<1>3. /\ item' = None /\ flags' = {} /\ data' = [o \in Offset |-> 0]
      /\ Recorded(Head(rest)) /\ stored' \subseteq Offset
  BY <1>1 DEF RegsSetStore, Clear, BufferOK
<1>4. 0 \in Byte
  BY Layout DEF Byte
<1>5. \A o \in Offset : Start[addr] + o \in Nat
  BY <1>1, Place DEF Offset
<1>6. sentTo' \in [Offset -> Nat]
  BY <1>1, <1>3, <1>5 DEF Recorded, BufferOK
<1>7. BufferOK'
  BY <1>2, <1>3, <1>4, <1>6 DEF BufferOK
<1> QED
  BY <1>3, <1>7 DEF IInv, OwnBytes, FreshBytes

\* Every step keeps IInv.
LEMMA NextKeeps == IInv /\ [Next]_vars => IInv'
<1> SUFFICES ASSUME IInv, [Next]_vars PROVE IInv'
  OBVIOUS
<1>1. CASE UNCHANGED vars
  BY <1>1 DEF vars, buffer, request, IInv, BufferOK, OwnBytes, FreshBytes
<1>2. CASE RegsSetDenied
  <2>1. addr' \in Nat /\ rest' \in Seq(Seq(Byte))
    BY <1>2, ChunksTyped DEF RegsSetDenied, IInv, BufferOK
  <2> QED
    BY <1>2, <2>1 DEF RegsSetDenied, buffer, IInv, BufferOK, OwnBytes, FreshBytes
<1>3. CASE RegsSetCollect
  BY <1>3, CollectKeeps
<1>4. CASE RegsSetStore
  BY <1>4, StoreKeeps
<1>5. ASSUME NEW r \in Requests, Receive(r) PROVE IInv'
  <2>1. r.addr \in Nat /\ r.chunks \in Seq(Seq(Byte))
    BY Layout DEF RequestType
  <2> QED
    BY <1>5, <2>1 DEF Receive, buffer, IInv, BufferOK, OwnBytes, FreshBytes
<1> QED
  BY <1>1, <1>2, <1>3, <1>4, <1>5 DEF Next, RegsSet

\* The invariant of regs_set holds for all registers and all requests.
THEOREM Invariance == Spec => []IInv
  BY InitHolds, NextKeeps, PTL DEF Spec

\* No byte sent to one item is ever counted for another (regs_fill_temp_buffer).
THEOREM OwnBytesHolds == Spec => []OwnBytes
<1>1. IInv => OwnBytes
  BY DEF IInv
<1> QED
  BY <1>1, Invariance, PTL

\* No byte is stored twice (regs_clear_temp_buffer).
THEOREM FreshBytesHolds == Spec => []FreshBytes
<1>1. IInv => FreshBytes
  BY DEF IInv
<1> QED
  BY <1>1, Invariance, PTL

\* regs_set changes a read only register only if it is a credential and those may be written,
\* also when it lies beside a register that is written with a wider value.
THEOREM ReadOnlyHolds == Spec => ReadOnlyKept
<1>1. ASSUME [Next]_vars
      PROVE  [\A a \in Addr \cap ReadOnly : mem'[a] # mem[a] => a \in Credential /\ Permitted]_vars
  <2>1. CASE RegsSetStore
    <3>1. addr \in Writable /\ mem' = Stored(addr, FilledData(addr, Head(rest)))
      BY <2>1 DEF RegsSetStore, Access
    <3>2. \A a \in Addr \ Writable : Start[a] # Start[addr]
      BY <3>1, Layout
    <3>3. \A a \in Addr \ Writable : mem'[a] = mem[a]
      BY <3>1, <3>2 DEF Stored
    <3> QED
      BY <3>3 DEF Writable
  <2>2. CASE ~RegsSetStore
    BY <1>1, <2>2 DEF Next, RegsSet, RegsSetDenied, RegsSetCollect, Receive
  <2> QED
    BY <2>1, <2>2
<1> QED
  BY <1>1, PTL DEF Spec, ReadOnlyKept

-----------------------------------------------------------------------------
(* Induction, and functions defined by recursion                            *)

\* Induction over the natural numbers, for a set: the numbers outside of it would have a
\* smallest one.
LEMMA SetInduction ==
  ASSUME NEW S \in SUBSET Nat, 0 \in S, \A n \in Nat : n \in S => n + 1 \in S
  PROVE  S = Nat
<1> DEFINE R == OpToRel(<, Nat)
<1> SUFFICES ASSUME Nat \ S # {} PROVE FALSE
  OBVIOUS
<1>1. IsWellFoundedOn(R, Nat)
  BY NatLessThanWellFounded
<1>2. \A x, y \in Nat : y < x => <<y, x>> \in R
  BY DEF OpToRel
<1> HIDE DEF R
<1>3. PICK x \in Nat \ S : \A y \in Nat \ S : ~ (<<y, x>> \in R)
  BY <1>1, WFMin
<1>4. x # 0 /\ x - 1 \in Nat /\ x - 1 < x
  BY <1>3
<1>5. x - 1 \in S
  <2>1. <<x - 1, x>> \in R
    BY <1>2, <1>3, <1>4
  <2> QED
    BY <1>3, <1>4, <2>1
<1>6. x - 1 + 1 = x /\ x \notin S
  BY <1>3
<1> QED
  BY <1>4, <1>5, <1>6

IsSum(f, f0, step, n) == f = [i \in 0 .. n |-> IF i = 0 THEN f0 ELSE f[i - 1] + step[i]]

\* A function defined by its first value and a step exists on every interval 0 .. n.
LEMMA PartialSums ==
  ASSUME NEW f0, NEW step, NEW n \in Nat
  PROVE  \E f : IsSum(f, f0, step, n)
<1> DEFINE Def(f, k) == f = [i \in 0 .. k |-> IF i = 0 THEN f0 ELSE f[i - 1] + step[i]]
           S == {k \in Nat : \E f : Def(f, k)}
<1>1. 0 \in S
  <2>1. Def([i \in 0 .. 0 |-> f0], 0)
    OBVIOUS
  <2> QED
    BY <2>1
<1>2. ASSUME NEW k \in Nat, k \in S
      PROVE  k + 1 \in S
  <2>1. PICK f : Def(f, k)
    BY <1>2
  <2> DEFINE g == [i \in 0 .. (k + 1) |-> IF i <= k THEN f[i] ELSE f[k] + step[k + 1]]
  <2>2. Def(g, k + 1)
    <3>1. ASSUME NEW i \in 0 .. (k + 1)
          PROVE  g[i] = IF i = 0 THEN f0 ELSE g[i - 1] + step[i]
      <4>1. CASE i = 0
        BY <2>1, <4>1
      <4>2. CASE i # 0 /\ i <= k
        <5>1. g[i] = f[i] /\ i - 1 \in 0 .. (k + 1) /\ i - 1 <= k
          BY <4>2
        <5>2. g[i - 1] = f[i - 1]
          BY <5>1
        <5>3. f[i] = f[i - 1] + step[i]
          BY <2>1, <4>2
        <5> QED
          BY <4>2, <5>1, <5>2, <5>3
      <4>3. CASE i = k + 1
        <5>1. g[i] = f[k] + step[k + 1] /\ g[i - 1] = f[k]
          BY <4>3
        <5> QED
          BY <4>3, <5>1
      <4> QED
        BY <4>1, <4>2, <4>3
    <3> QED
      BY <3>1
  <2> HIDE DEF g, Def
  <2>3. \E h : Def(h, k + 1)
    BY <2>2
  <2> QED
    BY <2>3
<1> HIDE DEF S
<1>3. S = Nat
  <2>1. S \subseteq Nat
    BY DEF S
  <2> QED
    BY <1>1, <1>2, <2>1, SetInduction
<1>4. n \in S
  BY <1>3
<1> QED
  BY <1>4 DEF S, IsSum

-----------------------------------------------------------------------------
(* Numbers and their bytes                                                  *)

\* Division by p is unique.
LEMMA DivUnique ==
  ASSUME NEW p \in Nat \ {0}, NEW q \in Nat, NEW r \in Nat, r < p
  PROVE  (p * q + r) \div p = q /\ (p * q + r) % p = r
  OBVIOUS

\* Quotient and remainder of a division.
LEMMA DivMod ==
  ASSUME NEW v \in Nat, NEW p \in Nat \ {0}
  PROVE  v = p * (v \div p) + (v % p) /\ v % p \in 0 .. (p - 1) /\ v \div p \in Nat
  BY SMT

\* The powers of Base exist.
LEMMA PowerExists ==
  ASSUME NEW n \in Nat
  PROVE  \E f : f = [i \in 0 .. n |-> IF i = 0 THEN 1 ELSE Base * f[i - 1]]
<1> DEFINE Def(f, k) == f = [i \in 0 .. k |-> IF i = 0 THEN 1 ELSE Base * f[i - 1]]
           S == {k \in Nat : \E f : Def(f, k)}
<1>1. 0 \in S
  <2>1. Def([i \in 0 .. 0 |-> 1], 0)
    OBVIOUS
  <2> QED
    BY <2>1
<1>2. ASSUME NEW k \in Nat, k \in S
      PROVE  k + 1 \in S
  <2>1. PICK f : Def(f, k)
    BY <1>2
  <2> DEFINE g == [i \in 0 .. (k + 1) |-> IF i <= k THEN f[i] ELSE Base * f[k]]
  <2>2. Def(g, k + 1)
    <3>1. ASSUME NEW i \in 0 .. (k + 1)
          PROVE  g[i] = IF i = 0 THEN 1 ELSE Base * g[i - 1]
      <4>1. CASE i = 0
        BY <2>1, <4>1
      <4>2. CASE i # 0 /\ i <= k
        <5>1. g[i] = f[i] /\ i - 1 \in 0 .. (k + 1) /\ i - 1 <= k
          BY <4>2
        <5>2. g[i - 1] = f[i - 1]
          BY <5>1
        <5>3. f[i] = Base * f[i - 1]
          BY <2>1, <4>2
        <5> QED
          BY <4>2, <5>1, <5>2, <5>3
      <4>3. CASE i = k + 1
        <5>1. g[i] = Base * f[k] /\ g[i - 1] = f[k]
          BY <4>3
        <5> QED
          BY <4>3, <5>1
      <4> QED
        BY <4>1, <4>2, <4>3
    <3> QED
      BY <3>1
  <2> HIDE DEF g, Def
  <2>3. \E h : Def(h, k + 1)
    BY <2>2
  <2> QED
    BY <2>3
<1> HIDE DEF S
<1>3. S = Nat
  <2>1. S \subseteq Nat
    BY DEF S
  <2> QED
    BY <1>1, <1>2, <2>1, SetInduction
<1>4. n \in S
  BY <1>3
<1> QED
  BY <1>4 DEF S

\* The powers of Base, by recursion.
LEMMA PowerStep ==
  /\ Power[0] = 1
  /\ \A k \in 1 .. MaxSize : Power[k] = Base * Power[k - 1]
  /\ \A k \in 0 .. MaxSize : Power[k] \in Nat \ {0}
<1>0. MaxSize \in Nat /\ Base \in Nat \ {0}
  BY Layout
<1> DEFINE Def(f) == f = [i \in 0 .. MaxSize |-> IF i = 0 THEN 1 ELSE Base * f[i - 1]]
<1>1. Power = CHOOSE f : Def(f)
  BY DEF Power
<1>2. \E f : Def(f)
  BY <1>0, PowerExists
<1>3. Def(Power)
  BY <1>1, <1>2
<1>4. Power[0] = 1
  BY <1>0, <1>3
<1>5. \A k \in 1 .. MaxSize : Power[k] = Base * Power[k - 1]
  BY <1>0, <1>3
<1> HIDE DEF Def
<1> DEFINE S == {k \in Nat : k <= MaxSize => Power[k] \in Nat \ {0}}
<1>6. 0 \in S
  BY <1>4
<1>7. ASSUME NEW k \in Nat, k \in S PROVE k + 1 \in S
  <2> SUFFICES ASSUME k + 1 <= MaxSize PROVE Power[k + 1] \in Nat \ {0}
    OBVIOUS
  <2>1. Power[k + 1] = Base * Power[k]
    BY <1>0, <1>5
  <2>2. Power[k] \in Nat \ {0}
    BY <1>0, <1>7
  <2> QED
    BY <1>0, <2>1, <2>2
<1>8. S = Nat
  <2> HIDE DEF S
  <2>1. S \subseteq Nat
    BY DEF S
  <2> QED
    BY <1>6, <1>7, <2>1, SetInduction
<1> QED
  BY <1>0, <1>4, <1>5, <1>8

\* The value of n bytes is the last of its partial sums, which are numbers.
LEMMA NumberSums ==
  ASSUME NEW d, NEW n \in 0 .. MaxSize, \A i \in 0 .. (n - 1) : d[i] \in Nat
  PROVE  \E f : /\ Number(d, n) = f[n] /\ f[0] = 0
                /\ \A i \in 1 .. n : f[i] = f[i - 1] + d[i - 1] * Power[i - 1]
                /\ \A i \in 0 .. n : f[i] \in Nat
<1>0. n \in Nat /\ MaxSize \in Nat
  BY Layout
<1> DEFINE Sum == CHOOSE S : S = [i \in 0 .. n |-> IF i = 0 THEN 0 ELSE S[i - 1] + d[i - 1] * Power[i - 1]]
           step == [i \in 0 .. n |-> d[i - 1] * Power[i - 1]]
<1>1. Number(d, n) = Sum[n]
  BY DEF Number
<1>2. PICK f : IsSum(f, 0, step, n)
  BY <1>0, PartialSums
<1>3. f = [i \in 0 .. n |-> IF i = 0 THEN 0 ELSE f[i - 1] + d[i - 1] * Power[i - 1]]
  BY <1>0, <1>2 DEF IsSum
<1>4. Sum = [i \in 0 .. n |-> IF i = 0 THEN 0 ELSE Sum[i - 1] + d[i - 1] * Power[i - 1]]
  BY <1>3
<1> HIDE DEF Sum
<1>5. Sum[0] = 0 /\ \A i \in 1 .. n : Sum[i] = Sum[i - 1] + d[i - 1] * Power[i - 1]
  BY <1>0, <1>4
<1> DEFINE N == {k \in Nat : k <= n => Sum[k] \in Nat}
<1>6. 0 \in N
  BY <1>5
<1>7. ASSUME NEW k \in Nat, k \in N PROVE k + 1 \in N
  <2> SUFFICES ASSUME k + 1 <= n PROVE Sum[k + 1] \in Nat
    OBVIOUS
  <2>1. Sum[k + 1] = Sum[k] + d[k] * Power[k]
    BY <1>0, <1>5
  <2>2. Sum[k] \in Nat /\ d[k] \in Nat /\ Power[k] \in Nat
    BY <1>0, <1>7, PowerStep
  <2>3. d[k] * Power[k] \in Nat
    BY <2>2
  <2> QED
    BY <2>1, <2>2, <2>3
<1>8. N = Nat
  <2> HIDE DEF N
  <2>1. N \subseteq Nat
    BY DEF N
  <2> QED
    BY <1>6, <1>7, <2>1, SetInduction
<1> QED
  BY <1>0, <1>1, <1>5, <1>8

\* The number of some bytes.
LEMMA NumberNat ==
  ASSUME NEW d, NEW n \in 0 .. MaxSize, \A i \in 0 .. (n - 1) : d[i] \in Nat
  PROVE  Number(d, n) \in Nat
  BY NumberSums, Layout

\* The value of n bytes depends on these bytes only.
LEMMA NumberSame ==
  ASSUME NEW d, NEW e, NEW n \in 0 .. MaxSize,
         \A i \in 0 .. (n - 1) : d[i] \in Nat /\ d[i] = e[i]
  PROVE  Number(d, n) = Number(e, n)
<1>0. n \in Nat
  BY Layout
<1>1. PICK f : /\ Number(d, n) = f[n] /\ f[0] = 0
               /\ \A i \in 1 .. n : f[i] = f[i - 1] + d[i - 1] * Power[i - 1]
  BY NumberSums
<1>2. PICK g : /\ Number(e, n) = g[n] /\ g[0] = 0
               /\ \A i \in 1 .. n : g[i] = g[i - 1] + e[i - 1] * Power[i - 1]
  BY NumberSums
<1> DEFINE S == {k \in Nat : k <= n => f[k] = g[k]}
<1>3. 0 \in S
  BY <1>1, <1>2
<1>4. ASSUME NEW k \in Nat, k \in S PROVE k + 1 \in S
  <2> SUFFICES ASSUME k + 1 <= n PROVE f[k + 1] = g[k + 1]
    OBVIOUS
  <2>1. k + 1 \in 1 .. n /\ k \in 0 .. (n - 1) /\ k + 1 - 1 = k
    BY <1>0
  <2>2. f[k + 1] = f[k] + d[k] * Power[k] /\ g[k + 1] = g[k] + e[k] * Power[k]
    BY <1>1, <1>2, <2>1
  <2>3. f[k] = g[k] /\ d[k] = e[k]
    BY <1>0, <1>4, <2>1
  <2> QED
    BY <2>2, <2>3
<1>5. S = Nat
  <2> HIDE DEF S
  <2>1. S \subseteq Nat
    BY DEF S
  <2> QED
    BY <1>3, <1>4, <2>1, SetInduction
<1> QED
  BY <1>0, <1>1, <1>2, <1>5

\* One more byte of a value.
LEMMA NextDigit ==
  ASSUME NEW v \in Nat, NEW p \in Nat \ {0}
  PROVE  v % (Base * p) = (v % p) + ((v \div p) % Base) * p
<1> DEFINE q == v \div p
           r == v % p
           d == q % Base
           u == q \div Base
<1>0. Base \in Nat \ {0}
  BY Layout
<1>1. q \in Nat /\ r \in Nat /\ r < p /\ v = p * q + r
  BY DivMod
<1>2. u \in Nat /\ d \in Nat /\ d < Base /\ q = Base * u + d
  <2> HIDE DEF q
  <2>1. q = Base * u + d /\ d \in 0 .. (Base - 1) /\ u \in Nat
    BY <1>0, <1>1, DivMod
  <2> HIDE DEF u, d
  <2> QED
    BY <1>0, <2>1
<1> HIDE DEF q, r, d, u
<1>3. p * q = (Base * p) * u + d * p
  BY <1>0, <1>1, <1>2
<1>4. d * p + r \in Nat /\ Base * p \in Nat \ {0} /\ d * p + r < Base * p
  <2>1. d + 1 <= Base
    BY <1>0, <1>2
  <2>2. (d + 1) * p <= Base * p
    BY <1>0, <1>2, <2>1
  <2>3. (d + 1) * p = d * p + p
    BY <1>2
  <2>4. d * p \in Nat /\ Base * p \in Nat
    BY <1>0, <1>2
  <2> QED
    BY <1>0, <1>1, <2>2, <2>3, <2>4
<1>5. v = (Base * p) * u + (d * p + r)
  <2>1. d * p \in Nat /\ (Base * p) * u \in Nat
    BY <1>0, <1>2
  <2> QED
    BY <1>1, <1>3, <2>1
<1>6. v % (Base * p) = d * p + r
  BY <1>2, <1>4, <1>5, DivUnique
<1>7. d * p + r = r + d * p
  <2>1. d * p \in Nat
    BY <1>2
  <2> QED
    BY <1>1, <2>1
<1> QED
  BY <1>6, <1>7 DEF q, r, d, u

\* The bytes of a value give the value back.
LEMMA Digits ==
  ASSUME NEW d, NEW n \in 0 .. MaxSize, NEW v \in Nat, v < Power[n],
         \A i \in 0 .. (n - 1) : d[i] = (v \div Power[i]) % Base
  PROVE  Number(d, n) = v
<1>0. n \in Nat /\ MaxSize \in Nat /\ Base \in Nat \ {0}
  BY Layout
<1>1. \A i \in 0 .. (n - 1) : d[i] \in Nat
  <2> TAKE i \in 0 .. (n - 1)
  <2>1. Power[i] \in Nat \ {0}
    BY <1>0, PowerStep
  <2>2. v \div Power[i] \in Nat
    BY <2>1, DivMod
  <2> QED
    <3> DEFINE u == v \div Power[i]
    <3> HIDE DEF u
    <3>1. u % Base \in 0 .. (Base - 1)
      BY <1>0, <2>2, DivMod DEF u
    <3>2. d[i] = u % Base
      BY DEF u
    <3> QED
      BY <1>0, <3>1, <3>2
<1>2. PICK f : /\ Number(d, n) = f[n] /\ f[0] = 0
               /\ \A i \in 1 .. n : f[i] = f[i - 1] + d[i - 1] * Power[i - 1]
  BY <1>1, NumberSums
<1> DEFINE S == {k \in Nat : k <= n => f[k] = v % Power[k]}
<1>3. 0 \in S
  <2>1. v % 1 = 0
    OBVIOUS
  <2> QED
    BY <1>2, <2>1, PowerStep
<1>4. ASSUME NEW k \in Nat, k \in S PROVE k + 1 \in S
  <2> SUFFICES ASSUME k + 1 <= n PROVE f[k + 1] = v % Power[k + 1]
    OBVIOUS
  <2>1. k + 1 \in 1 .. n /\ k \in 0 .. (n - 1) /\ k + 1 - 1 = k /\ k + 1 \in 1 .. MaxSize
        /\ k \in 0 .. MaxSize
    BY <1>0
  <2>2. f[k + 1] = f[k] + d[k] * Power[k]
    BY <1>2, <2>1
  <2>3. f[k] = v % Power[k] /\ d[k] = (v \div Power[k]) % Base
    BY <1>0, <1>4, <2>1
  <2>4. Power[k] \in Nat \ {0} /\ Power[k + 1] = Base * Power[k]
    BY <2>1, PowerStep
  <2>5. v % (Base * Power[k]) = (v % Power[k]) + ((v \div Power[k]) % Base) * Power[k]
    BY <2>4, NextDigit
  <2> QED
    BY <2>2, <2>3, <2>4, <2>5
<1>5. S = Nat
  <2> HIDE DEF S
  <2>1. S \subseteq Nat
    BY DEF S
  <2> QED
    BY <1>3, <1>4, <2>1, SetInduction
<1>6. v % Power[n] = v
  <2>1. Power[n] \in Nat \ {0}
    BY PowerStep
  <2>2. v = Power[n] * 0 + v
    BY <2>1
  <2> QED
    BY <2>1, <2>2, DivUnique
<1> QED
  BY <1>0, <1>2, <1>5, <1>6

-----------------------------------------------------------------------------
(* The chunks of a request                                                  *)

\* The address of a request's first chunk, and the step from one chunk to the next.
LEMMA ChunkAddrs ==
  ASSUME NEW r \in Requests
  PROVE  /\ r.chunks \in Seq(Seq(Byte)) /\ Len(r.chunks) \in Nat /\ r.addr \in Nat
         /\ \A i \in 1 .. Len(r.chunks) : Len(r.chunks[i]) \in Nat /\ r.chunks[i] \in Seq(Byte)
         /\ ChunkAddr(r, 1) = r.addr
         /\ \A i \in 1 .. Len(r.chunks) : ChunkAddr(r, i + 1) = ChunkAddr(r, i) + Len(r.chunks[i])
         /\ \A i \in 1 .. (Len(r.chunks) + 1) : ChunkAddr(r, i) \in Nat
<1> DEFINE n == Len(r.chunks)
           step == [k \in 0 .. n |-> Len(r.chunks[k])]
           Total == CHOOSE T : T = [k \in 0 .. n |-> IF k = 0 THEN 0 ELSE T[k - 1] + Len(r.chunks[k])]
<1>1. r.chunks \in Seq(Seq(Byte)) /\ r.addr \in Nat
  BY Layout DEF RequestType
<1>2. n \in Nat /\ \A i \in 1 .. n : r.chunks[i] \in Seq(Byte) /\ Len(r.chunks[i]) \in Nat
  BY <1>1
<1>3. \A i : ChunkAddr(r, i) = r.addr + Total[i - 1]
  BY DEF ChunkAddr
<1>4. PICK f : IsSum(f, 0, step, n)
  BY <1>2, PartialSums
<1>5. f = [k \in 0 .. n |-> IF k = 0 THEN 0 ELSE f[k - 1] + Len(r.chunks[k])]
  BY <1>2, <1>4 DEF IsSum
<1>6. Total = [k \in 0 .. n |-> IF k = 0 THEN 0 ELSE Total[k - 1] + Len(r.chunks[k])]
  BY <1>5
<1> HIDE DEF Total, n
<1>7. Total[0] = 0 /\ \A k \in 1 .. n : Total[k] = Total[k - 1] + Len(r.chunks[k])
  BY <1>2, <1>6
<1> DEFINE N == {k \in Nat : k <= n => Total[k] \in Nat}
<1>8. 0 \in N
  BY <1>7
<1>9. ASSUME NEW k \in Nat, k \in N PROVE k + 1 \in N
  <2> SUFFICES ASSUME k + 1 <= n PROVE Total[k + 1] \in Nat
    OBVIOUS
  <2>1. Total[k + 1] = Total[k] + Len(r.chunks[k + 1])
    BY <1>2, <1>7
  <2>2. Total[k] \in Nat /\ Len(r.chunks[k + 1]) \in Nat
    BY <1>2, <1>9
  <2> QED
    BY <2>1, <2>2
<1>10. N = Nat
  <2> HIDE DEF N
  <2>1. N \subseteq Nat
    BY DEF N
  <2> QED
    BY <1>8, <1>9, <2>1, SetInduction
<1>11. \A k \in 0 .. n : Total[k] \in Nat
  BY <1>2, <1>10
<1>12. ChunkAddr(r, 1) = r.addr
  BY <1>1, <1>3, <1>7
<1>13. \A i \in 1 .. n : ChunkAddr(r, i + 1) = ChunkAddr(r, i) + Len(r.chunks[i])
  <2> TAKE i \in 1 .. n
  <2>1. Total[i] = Total[i - 1] + Len(r.chunks[i]) /\ Total[i - 1] \in Nat /\ Len(r.chunks[i]) \in Nat
    BY <1>2, <1>7, <1>11
  <2>2. ChunkAddr(r, i + 1) = r.addr + Total[i] /\ ChunkAddr(r, i) = r.addr + Total[i - 1]
    <3>1. i + 1 - 1 = i
      OBVIOUS
    <3> QED
      BY <1>3, <3>1
  <2> QED
    BY <1>1, <2>1, <2>2
<1>14. \A i \in 1 .. (n + 1) : ChunkAddr(r, i) \in Nat
  BY <1>1, <1>2, <1>3, <1>11
<1> QED
  BY <1>1, <1>2, <1>12, <1>13, <1>14 DEF n

\* Chunks follow one another.
LEMMA ChunksRise ==
  ASSUME NEW r \in Requests, NEW i \in 1 .. (Len(r.chunks) + 1), NEW j \in 1 .. (Len(r.chunks) + 1), i <= j
  PROVE  ChunkAddr(r, i) <= ChunkAddr(r, j)
<1> DEFINE n == Len(r.chunks)
           S == {k \in Nat : i + k <= n + 1 => ChunkAddr(r, i) <= ChunkAddr(r, i + k)}
<1>0. n \in Nat /\ \A k \in 1 .. (n + 1) : ChunkAddr(r, k) \in Nat
  BY ChunkAddrs
<1>1. 0 \in S
  BY <1>0
<1>2. ASSUME NEW k \in Nat, k \in S PROVE k + 1 \in S
  <2> SUFFICES ASSUME i + (k + 1) <= n + 1 PROVE ChunkAddr(r, i) <= ChunkAddr(r, i + (k + 1))
    OBVIOUS
  <2>1. i + k \in 1 .. n /\ i + (k + 1) = (i + k) + 1 /\ i \in 1 .. (n + 1) /\ i + k <= n + 1
    BY <1>0
  <2>2. ChunkAddr(r, (i + k) + 1) = ChunkAddr(r, i + k) + Len(r.chunks[i + k])
    BY <2>1, ChunkAddrs
  <2>3. ChunkAddr(r, i + k) \in Nat /\ Len(r.chunks[i + k]) \in Nat /\ ChunkAddr(r, i) \in Nat
    BY <2>1, ChunkAddrs
  <2>4. ChunkAddr(r, i) <= ChunkAddr(r, i + k)
    BY <1>2, <2>1
  <2> QED
    BY <2>1, <2>2, <2>3, <2>4
<1>3. S = Nat
  <2> HIDE DEF S
  <2>1. S \subseteq Nat
    BY DEF S
  <2> QED
    BY <1>1, <1>2, <2>1, SetInduction
<1>4. j - i \in Nat /\ i + (j - i) = j
  BY <1>0
<1>5. j - i \in S
  BY <1>3, <1>4
<1> QED
  BY <1>0, <1>4, <1>5

\* A chunk of the first k ends in front of chunk k + 1.
LEMMA ChunkEnds ==
  ASSUME NEW r \in Requests, NEW k \in 0 .. Len(r.chunks), NEW i \in 1 .. Len(r.chunks), i <= k
  PROVE  ChunkAddr(r, i) + Len(r.chunks[i]) <= ChunkAddr(r, k + 1)
<1>1. Len(r.chunks) \in Nat
  BY ChunkAddrs
<1>2. i + 1 \in 1 .. (Len(r.chunks) + 1) /\ k + 1 \in 1 .. (Len(r.chunks) + 1) /\ i + 1 <= k + 1
  BY <1>1
<1>3. ChunkAddr(r, i + 1) <= ChunkAddr(r, k + 1)
  BY <1>2, ChunksRise
<1> QED
  BY <1>3, ChunkAddrs

\* No two chunks of a request hold a byte for the same address.
LEMMA OneChunk ==
  ASSUME NEW r \in Requests, NEW a \in Nat, NEW i \in ChunksFor(r, a), NEW j \in ChunksFor(r, a)
  PROVE  i = j
<1>1. /\ i \in 1 .. Len(r.chunks) /\ ChunkAddr(r, i) <= a /\ a < ChunkAddr(r, i) + Len(r.chunks[i])
      /\ j \in 1 .. Len(r.chunks) /\ ChunkAddr(r, j) <= a /\ a < ChunkAddr(r, j) + Len(r.chunks[j])
  <2>1. r.chunks \in Seq(Seq(Byte)) /\ Len(r.chunks) \in Nat
    BY ChunkAddrs
  <2>2. DOMAIN r.chunks = 1 .. Len(r.chunks)
    BY <2>1
  <2> QED
    BY <2>2 DEF ChunksFor
<1>2. Len(r.chunks) \in Nat
  BY ChunkAddrs
<1>3. ASSUME NEW x \in 1 .. Len(r.chunks), NEW y \in 1 .. Len(r.chunks), x < y,
             a < ChunkAddr(r, x) + Len(r.chunks[x]), ChunkAddr(r, y) <= a
      PROVE  FALSE
  <2>1. y - 1 \in 0 .. Len(r.chunks) /\ x <= y - 1 /\ y - 1 + 1 = y
    BY <1>2, <1>3
  <2>2. ChunkAddr(r, x) + Len(r.chunks[x]) <= ChunkAddr(r, y)
    BY <2>1, ChunkEnds
  <2>3. ChunkAddr(r, x) \in Nat /\ Len(r.chunks[x]) \in Nat /\ ChunkAddr(r, y) \in Nat
    BY <1>2, ChunkAddrs
  <2> QED
    BY <1>3, <2>2, <2>3
<1>4. CASE i < j
  BY <1>1, <1>3, <1>4
<1>5. CASE j < i
  BY <1>1, <1>3, <1>5
<1> QED
  BY <1>1, <1>4, <1>5

\* The byte a request sends to an address is in whichever chunk holds it.
LEMMA SentIs ==
  ASSUME NEW r \in Requests, NEW a \in Nat, NEW i \in ChunksFor(r, a)
  PROVE  SentByte(r, a) = r.chunks[i][a - ChunkAddr(r, i) + 1]
<1>1. PICK j \in ChunksFor(r, a) : SentByte(r, a) = r.chunks[j][a - ChunkAddr(r, j) + 1]
  BY DEF SentByte
<1>2. i = j
  BY OneChunk
<1> QED
  BY <1>1, <1>2

-----------------------------------------------------------------------------
(* Items, their limits, and what is stored for them                         *)

\* The addresses of an item.
LEMMA InItem ==
  ASSUME NEW a \in Addr, a = Start[a], NEW b \in Addr
  PROVE  /\ a \in Nat /\ b \in Nat /\ Size[a] \in 1 .. MaxSize /\ MaxSize \in Nat /\ Size[a] \in Nat
         /\ (Start[b] = a) <=> (a <= b /\ b < a + Size[a])
         /\ Start[b] = a => Size[b] = Size[a] /\ (a \in Writable <=> b \in Writable)
                            /\ Lowest[b] = Lowest[a] /\ Highest[b] = Highest[a]
                            /\ (b \in Text <=> a \in Text) /\ b - a \in 0 .. (Size[a] - 1)
<1>1. a \in Nat /\ b \in Nat /\ Size[a] \in 1 .. MaxSize /\ MaxSize \in Nat /\ Size[a] \in Nat
      /\ Size[b] \in 1 .. MaxSize /\ Start[b] \in Addr /\ Start[b] \in Nat
  <2>1. Addr \subseteq Nat /\ MaxSize \in Nat /\ Start \in [Addr -> Addr] /\ Size \in [Addr -> 1 .. MaxSize]
    BY Layout
  <2>2. Size[a] \in 1 .. MaxSize /\ Size[b] \in 1 .. MaxSize /\ Start[b] \in Addr
    BY <2>1
  <2>3. a \in Nat /\ b \in Nat /\ Start[b] \in Nat
    BY <2>1, <2>2
  <2>4. \A x \in 1 .. MaxSize : x \in Nat
    BY <2>1
  <2> QED
    BY <2>1, <2>2, <2>3, <2>4
<1>2. ASSUME a <= b, b < a + Size[a] PROVE Start[b] = a
  <2>1. b - a \in 0 .. (Size[a] - 1) /\ Start[a] + (b - a) = b
    BY <1>1, <1>2
  <2> QED
    BY <2>1, Layout
<1>3. ASSUME Start[b] = a
      PROVE  /\ a <= b /\ b < a + Size[a] /\ Size[b] = Size[a] /\ (a \in Writable <=> b \in Writable)
             /\ Lowest[b] = Lowest[a] /\ Highest[b] = Highest[a]
             /\ (b \in Text <=> a \in Text) /\ b - a \in 0 .. (Size[a] - 1)
  <2>1. a <= b /\ b < a + Size[b]
    BY <1>3, Layout
  <2>2. 0 \in 0 .. (Size[b] - 1)
    BY <1>1
  <2>3. Size[Start[b] + 0] = Size[b]
    BY <2>2, Layout
  <2>4. Start[b] + 0 = a
    BY <1>1, <1>3
  <2>5. Size[b] = Size[a] /\ b - a \in 0 .. (Size[a] - 1)
    BY <1>1, <2>1, <2>3, <2>4
  <2>6. a \in Writable <=> b \in Writable
    BY <1>3, Layout
  <2>7. Lowest[b] = Lowest[a] /\ Highest[b] = Highest[a]
    BY <1>3, Limits
  <2>8. (b \in Text \/ a \in Text) => Size[a] = 1
    BY <2>5, Layout
  <2>9. Size[a] = 1 => a = b
    BY <1>1, <2>1, <2>5
  <2> QED
    BY <2>1, <2>5, <2>6, <2>7, <2>8, <2>9
<1> QED
  BY <1>1, <1>2, <1>3

\* An item lies in Addr, and its offsets in the buffer.
LEMMA ItemBytes ==
  ASSUME NEW a \in Addr, a = Start[a], NEW o \in 0 .. (Size[a] - 1)
  PROVE  a + o \in Addr /\ Start[a + o] = a /\ o \in Offset /\ (a + o) - a = o /\ a + o \in Nat
<1>1. a + o \in Addr /\ Start[a + o] = a
  BY Layout
<1>2. a \in Nat /\ Size[a] \in 1 .. MaxSize /\ MaxSize \in Nat
  BY Layout
<1> QED
  BY <1>1, <1>2 DEF Offset

\* A value that was clamped is within its limits.
LEMMA ClampWithin ==
  ASSUME NEW a \in Addr, NEW v \in Nat
  PROVE  Clamp(a, v) \in Nat /\ Lowest[a] <= Clamp(a, v) /\ Clamp(a, v) <= Highest[a]
         /\ Clamp(a, v) < Power[Size[a]]
<1>1. Lowest[a] \in Nat /\ Highest[a] \in Nat /\ Lowest[a] <= Highest[a] /\ Highest[a] < Power[Size[a]]
  BY Layout, Limits
<1>2. Size[a] \in 0 .. MaxSize
  BY Layout
<1>3. Power[Size[a]] \in Nat
  BY <1>2, PowerStep
<1> QED
  BY <1>1, <1>3 DEF Clamp

\* What is stored for an item are the bytes of a value within its limits.
LEMMA CheckedDigits ==
  ASSUME NEW a \in Addr, NEW d \in [Offset -> Byte]
  PROVE  /\ Checked(a, d) \in [Offset -> Byte]
         /\ Number(d, Size[a]) \in Nat
         /\ \A o \in 0 .. (Size[a] - 1) :
              Checked(a, d)[o] = (Clamp(a, Number(d, Size[a])) \div Power[o]) % Base
<1>1. Size[a] \in 1 .. MaxSize /\ MaxSize \in Nat /\ Base \in Nat \ {0}
  BY Layout
<1>2. \A i \in 0 .. (Size[a] - 1) : i \in Offset /\ d[i] \in Nat
  BY <1>1 DEF Offset, Byte
<1>3. Number(d, Size[a]) \in Nat
  BY <1>1, <1>2, NumberNat
<1> DEFINE v == Clamp(a, Number(d, Size[a]))
<1>4. v \in Nat
  BY <1>3, ClampWithin
<1> HIDE DEF v
<1>5. \A o \in Offset : (v \div Power[o]) % Base \in Byte
  <2> TAKE o \in Offset
  <2>1. Power[o] \in Nat \ {0}
    BY <1>1, PowerStep DEF Offset
  <2> DEFINE q == v \div Power[o]
  <2>2. q \in Nat
    BY <1>4, <2>1, DivMod
  <2> HIDE DEF q
  <2>3. q % Base \in Byte
    BY <1>1, <2>2, DivMod DEF Byte
  <2> QED
    BY <2>3 DEF q
<1>6. Checked(a, d) = [o \in Offset |-> (v \div Power[o]) % Base]
  BY DEF Checked, v
<1>7. Checked(a, d) \in [Offset -> Byte]
  BY <1>5, <1>6
<1>8. \A o \in 0 .. (Size[a] - 1) : Checked(a, d)[o] = (v \div Power[o]) % Base
  BY <1>2, <1>6
<1> QED
  BY <1>3, <1>7, <1>8 DEF v

\* Two buffers with the same bytes of the item are stored alike, from whichever address
\* of the item the last byte came.
LEMMA CheckedSame ==
  ASSUME NEW a \in Addr, a = Start[a], NEW b \in Addr, Start[b] = a,
         NEW d \in [Offset -> Byte], NEW e \in [Offset -> Byte],
         \A o \in 0 .. (Size[a] - 1) : d[o] = e[o]
  PROVE  /\ Checked(a, d) = Checked(b, e)
         /\ Refused(a, d) <=> Refused(b, e)
<1>1. /\ Size[b] = Size[a] /\ Size[a] \in 1 .. MaxSize /\ MaxSize \in Nat
      /\ Lowest[b] = Lowest[a] /\ Highest[b] = Highest[a] /\ (b \in Text <=> a \in Text)
  BY InItem
<1>2. Number(d, Size[a]) = Number(e, Size[a])
  <2>1. \A i \in 0 .. (Size[a] - 1) : i \in Offset /\ d[i] \in Nat /\ d[i] = e[i]
    BY <1>1 DEF Offset, Byte
  <2> QED
    BY <1>1, <2>1, NumberSame
<1>3. \A v : Clamp(a, v) = Clamp(b, v)
  BY <1>1 DEF Clamp
<1>4. Checked(a, d) = Checked(b, e)
  BY <1>1, <1>2, <1>3 DEF Checked
<1>5. 0 \in 0 .. (Size[a] - 1)
  BY <1>1
<1>6. d[0] = e[0]
  BY <1>5
<1> QED
  BY <1>1, <1>4, <1>6 DEF Refused

\* The value of an item that was stored is within its limits.
LEMMA StoredWithin ==
  ASSUME NEW a \in Addr, a = Start[a], NEW b \in Addr, Start[b] = a, NEW d \in [Offset -> Byte],
         NEW m \in [Addr -> Byte], \A o \in 0 .. (Size[a] - 1) : m[a + o] = Checked(b, d)[o]
  PROVE  Lowest[a] <= Value(m, a) /\ Value(m, a) <= Highest[a]
<1> DEFINE e == [o \in Offset |-> IF o < Size[a] THEN m[Start[a] + o] ELSE 0]
           v == Clamp(a, Number(d, Size[a]))
<1>1. Size[a] \in 1 .. MaxSize /\ MaxSize \in Nat
  BY InItem
<1>2. Checked(a, d) = Checked(b, d)
  BY CheckedSame
<1>3. v \in Nat /\ Lowest[a] <= v /\ v <= Highest[a] /\ v < Power[Size[a]]
  BY CheckedDigits, ClampWithin
<1>4. \A o \in 0 .. (Size[a] - 1) : e[o] = (v \div Power[o]) % Base
  <2> TAKE o \in 0 .. (Size[a] - 1)
  <2>1. o \in Offset /\ o < Size[a]
    BY <1>1, ItemBytes
  <2>2. e[o] = m[a + o]
    BY <2>1
  <2>3. m[a + o] = Checked(a, d)[o]
    BY <1>2
  <2> QED
    BY <2>2, <2>3, CheckedDigits
<1> HIDE DEF v, e
<1>5. Number(e, Size[a]) = v
  BY <1>1, <1>3, <1>4, Digits
<1>6. Value(m, a) = v
  BY <1>5 DEF Value, e
<1> QED
  BY <1>3, <1>6

\* A whole item is stored, or nothing.
LEMMA StoredMemory ==
  ASSUME NEW b \in Writable, NEW d \in [Offset -> Byte], mem \in [Addr -> Byte]
  PROVE  /\ Stored(b, d) \in [Addr -> Byte]
         /\ Refused(b, d) => Stored(b, d) = mem
         /\ \A a \in Addr : Start[a] # Start[b] => Stored(b, d)[a] = mem[a]
         /\ ~Refused(b, d) => \A o \in 0 .. (Size[Start[b]] - 1) :
                                Stored(b, d)[Start[b] + o] = Checked(b, d)[o]
<1>0. b \in Addr /\ Start[b] \in Addr /\ Start[Start[b]] = Start[b]
  BY Place
<1>1. Checked(b, d) \in [Offset -> Byte]
  BY <1>0, CheckedDigits
<1>2. \A a \in Addr : Start[a] \in Addr /\ Start[Start[a]] = Start[a]
  <2> TAKE a \in Addr
  <2>1. Size[a] \in 1 .. MaxSize /\ MaxSize \in Nat /\ Start[a] \in Addr /\ Start[a] \in Nat
    BY Layout
  <2>2. 0 \in 0 .. (Size[a] - 1)
    BY <2>1
  <2>3. Start[Start[a] + 0] = Start[a] /\ Start[a] + 0 = Start[a]
    BY <2>1, <2>2, Layout
  <2> QED
    BY <2>1, <2>3
<1>3. \A a \in Addr : Start[a] = Start[b] => a - Start[a] \in Offset
  <2> TAKE a \in Addr
  <2>1. HAVE Start[a] = Start[b]
  <2>2. a - Start[a] \in 0 .. (Size[Start[a]] - 1) /\ Size[Start[a]] \in 1 .. MaxSize /\ MaxSize \in Nat
    BY <1>2, InItem
  <2> QED
    BY <2>2 DEF Offset
<1>4. Stored(b, d) \in [Addr -> Byte]
  BY <1>1, <1>3 DEF Stored
<1>5. ASSUME ~Refused(b, d), NEW o \in 0 .. (Size[Start[b]] - 1)
      PROVE  Stored(b, d)[Start[b] + o] = Checked(b, d)[o]
  <2>1. Start[b] + o \in Addr /\ Start[Start[b] + o] = Start[b] /\ (Start[b] + o) - Start[b] = o
    BY <1>0, ItemBytes
  <2> QED
    BY <1>5, <2>1 DEF Stored
<1> QED
  BY <1>4, <1>5 DEF Stored

-----------------------------------------------------------------------------
(* WInv: what is stored is the request                                      *)

\* What one regs_set sees: the chunk, and the bytes of the buffer with it.
LEMMA Turn ==
  ASSUME WInv, rest # <<>>
  PROVE  /\ Head(rest) \in Seq(Byte) /\ Len(Head(rest)) \in Nat /\ addr \in Nat /\ BufferOK
         /\ addr \in Writable => FilledData(addr, Head(rest)) \in [Offset -> Byte]
<1>1. BufferOK
  BY DEF WInv, IInv
<1>2. Head(rest) \in Seq(Byte) /\ Len(Head(rest)) \in Nat /\ addr \in Nat
  BY <1>1, ChunksTyped DEF BufferOK
<1> QED
  BY <1>1, <1>2, FilledDataBytes

\* The registers start within their limits and without a request.
LEMMA InitWInv == Init => WInv
<1> SUFFICES ASSUME Init PROVE WInv
  OBVIOUS
<1>1. IInv
  BY InitHolds
<1>2. TypeOK
  BY <1>1, Layout DEF Init, TypeOK, IInv, NoRequest
<1>3. LimitsHold
  BY Limits DEF Init, LimitsHold
<1>4. Incomplete
  BY DEF Init, Incomplete
<1>5. Behind
  BY DEF Init, Behind, Changed
<1>6. Progress
  BY DEF Init, Progress
<1> QED
  BY <1>1, <1>2, <1>3, <1>4, <1>5, <1>6 DEF WInv

\* Every step keeps the types.
LEMMA TypeKeeps == WInv /\ [Next]_vars => TypeOK'
<1> SUFFICES ASSUME WInv, [Next]_vars PROVE TypeOK'
  OBVIOUS
<1>1. BufferOK'
  BY NextKeeps DEF WInv, IInv
<1>2. /\ mem \in [Addr -> Byte] /\ before \in [Addr -> Byte]
      /\ result \in {"illegal_address", "illegal_value", "true"} /\ requests \in Nat
      /\ last \in Requests \cup {NoRequest} /\ held \in Addr \cup {None} /\ item \in Addr \cup {None}
  BY DEF WInv, TypeOK, BufferOK
<1>3. CASE UNCHANGED vars
  BY <1>1, <1>2, <1>3 DEF vars, buffer, request, TypeOK
<1>4. CASE RegsSetDenied
  BY <1>1, <1>2, <1>4 DEF RegsSetDenied, TypeOK
<1>5. CASE RegsSetCollect
  BY <1>1, <1>2, <1>5 DEF RegsSetCollect, TypeOK
<1>6. CASE RegsSetStore
  <2>1. addr \in Writable /\ rest # <<>> /\ mem' = Stored(addr, FilledData(addr, Head(rest)))
    BY <1>6 DEF RegsSetStore, Access
  <2>2. mem' \in [Addr -> Byte]
    BY <1>2, <2>1, Turn, StoredMemory
  <2> QED
    BY <1>1, <1>2, <1>6, <2>2 DEF RegsSetStore, TypeOK
<1>7. ASSUME NEW r \in Requests, Receive(r) PROVE TypeOK'
  BY <1>1, <1>2, <1>7 DEF Receive, buffer, TypeOK
<1> QED
  BY <1>3, <1>4, <1>5, <1>6, <1>7 DEF Next, RegsSet

\* A stored value is limited (regs_write_value_check), and the others do not change.
LEMMA LimitsKeep == WInv /\ [Next]_vars => LimitsHold'
<1> SUFFICES ASSUME WInv, [Next]_vars PROVE LimitsHold'
  OBVIOUS
<1>1. WithinLimits(mem) /\ mem \in [Addr -> Byte]
  BY DEF WInv, LimitsHold, TypeOK
<1>2. CASE RegsSetStore
  <2> DEFINE bytes == FilledData(addr, Head(rest))
  <2>1. addr \in Writable /\ addr \in Addr /\ rest # <<>> /\ mem' = Stored(addr, bytes)
    BY <1>2, Layout DEF RegsSetStore, Access
  <2>2. bytes \in [Offset -> Byte]
    BY <2>1, Turn
  <2> HIDE DEF bytes
  <2>3. mem' \in [Addr -> Byte]
    BY <1>1, <2>1, <2>2, StoredMemory
  <2>4. ASSUME NEW a \in Writable, a = Start[a]
        PROVE  Lowest[a] <= Value(mem', a) /\ Value(mem', a) <= Highest[a]
    <3>1. a \in Addr
      BY Layout
    <3>2. CASE Start[addr] = a /\ ~Refused(addr, bytes)
      <4>1. \A o \in 0 .. (Size[a] - 1) : mem'[a + o] = Checked(addr, bytes)[o]
        BY <1>1, <2>1, <2>2, <3>2, StoredMemory
      <4> QED
        BY <2>1, <2>2, <2>3, <2>4, <3>1, <3>2, <4>1, StoredWithin
    <3>3. CASE ~(Start[addr] = a /\ ~Refused(addr, bytes))
      <4>1. \A o \in 0 .. (Size[a] - 1) : mem'[Start[a] + o] = mem[Start[a] + o]
        <5> TAKE o \in 0 .. (Size[a] - 1)
        <5>1. a + o \in Addr /\ Start[a + o] = a
          BY <2>4, <3>1, ItemBytes
        <5> QED
          BY <1>1, <2>1, <2>2, <2>4, <3>3, <5>1, StoredMemory
      <4>2. \A o \in Offset : o < Size[a] => o \in 0 .. (Size[a] - 1)
        BY <2>4, <3>1, InItem DEF Offset
      <4>3. [o \in Offset |-> IF o < Size[a] THEN mem'[Start[a] + o] ELSE 0]
              = [o \in Offset |-> IF o < Size[a] THEN mem[Start[a] + o] ELSE 0]
        BY <4>1, <4>2
      <4>4. Value(mem', a) = Value(mem, a)
        BY <4>3 DEF Value
      <4> QED
        BY <1>1, <2>4, <4>4 DEF WithinLimits
    <3> QED
      BY <3>2, <3>3
  <2> QED
    BY <2>4 DEF LimitsHold, WithinLimits
<1>3. CASE ~RegsSetStore
  <2>1. mem' = mem
    BY <1>3 DEF Next, RegsSet, RegsSetDenied, RegsSetCollect, Receive, vars
  <2> QED
    BY <1>1, <2>1 DEF LimitsHold
<1> QED
  BY <1>2, <1>3

\* No step leaves a whole item in the buffer.
LEMMA IncompleteKeeps == WInv /\ [Next]_vars => Incomplete'
<1> SUFFICES ASSUME WInv, [Next]_vars PROVE Incomplete'
  OBVIOUS
<1>1. Incomplete
  BY DEF WInv
<1>2. CASE RegsSetCollect
  <2>1. addr \in Writable /\ item' = Start[addr] /\ ~Complete(addr, flags')
    BY <1>2 DEF RegsSetCollect, Access
  <2>2. Size[Start[addr]] = Size[addr]
    BY <2>1, Place
  <2> QED
    BY <2>1, <2>2 DEF Incomplete, Complete
<1>3. CASE RegsSetStore
  BY <1>3 DEF RegsSetStore, Clear, Incomplete
<1>4. CASE ~RegsSetCollect /\ ~RegsSetStore
  BY <1>1, <1>4 DEF Next, RegsSet, RegsSetDenied, Receive, vars, buffer, Incomplete
<1> QED
  BY <1>2, <1>3, <1>4

\* An item of one byte is complete only with a chunk that is not empty.
LEMMA OneByteChunk ==
  ASSUME Incomplete, NEW a \in Writable, Size[a] = 1, NEW chunk \in Seq(Byte),
         Complete(a, FilledFlags(a, chunk))
  PROVE  Len(chunk) > 0
<1>1. a - Start[a] = 0 /\ MaxSize \in Nat \ {0} /\ Size[Start[a]] = 1 /\ Start[a] # None
  BY Place, Layout
<1>2. 0 \in Offset /\ \A o \in Offset : o < 1 => o = 0
  BY <1>1 DEF Offset
<1>3. 0 \in FilledFlags(a, chunk)
  BY <1>1, <1>2 DEF Complete
<1>4. CASE 0 \in Filled(a, chunk)
  BY <1>1, <1>4 DEF Filled
<1>5. CASE 0 \in flags /\ item = Start[a]
  BY <1>1, <1>2, <1>5 DEF Incomplete, Complete
<1> QED
  BY <1>3, <1>4, <1>5 DEF FilledFlags, Keeps

\* The addresses of an item from one of its own on.
LEMMA Beyond ==
  ASSUME NEW a \in Addr, NEW b \in Addr, Start[a] = Start[b], NEW n \in Nat, b + n <= a
  PROVE  b + n \in Addr /\ Start[b + n] = Start[a] /\ Size[b + n] = Size[a]
         /\ (b \in Writable <=> b + n \in Writable)
<1>0. Addr \subseteq Nat /\ Start[a] \in Addr /\ Size[a] \in 1 .. MaxSize /\ MaxSize \in Nat
      /\ Start[a] <= a /\ a < Start[a] + Size[a] /\ Start[b] <= b
  BY Layout
<1>0a. a \in Nat /\ b \in Nat /\ Start[a] \in Nat /\ Size[a] \in Nat
  <2>1. \A x \in 1 .. MaxSize : x \in Nat
    BY <1>0
  <2> QED
    BY <1>0, <2>1
<1>1. (b + n) - Start[a] \in 0 .. (Size[a] - 1) /\ Start[a] + ((b + n) - Start[a]) = b + n
  BY <1>0, <1>0a
<1>2. b + n \in Addr /\ Start[b + n] = Start[a] /\ Size[b + n] = Size[a]
  BY <1>1, Layout
<1> QED
  BY <1>2, Layout

\* What a request has changed stays behind it.
LEMMA BehindKeeps == WInv /\ [Next]_vars => Behind'
<1> SUFFICES ASSUME WInv, [Next]_vars PROVE Behind'
  OBVIOUS
<1>1. Behind /\ mem \in [Addr -> Byte] /\ Incomplete
  BY DEF WInv, TypeOK
<1>2. ASSUME NEW r \in Requests, Receive(r) PROVE Behind'
  BY <1>2 DEF Receive, Behind, Changed
<1>3. CASE UNCHANGED vars
  BY <1>1, <1>3 DEF vars, buffer, request, Behind, Changed
<1>4. ASSUME RegsSet, last.stops, NEW a \in Changed'
      PROVE  \/ a < addr'
             \/ result' = "true" /\ addr' \in Writable /\ Start[addr'] = Start[a] /\ Size[addr'] > 1
  <2> DEFINE chunk == Head(rest)
             n == Len(chunk)
             bytes == FilledData(addr, chunk)
  <2>0. rest # <<>> /\ a \in Addr /\ before' = before /\ mem'[a] # before[a]
    BY <1>4 DEF RegsSet, RegsSetDenied, RegsSetCollect, RegsSetStore, Changed
  <2>1. n \in Nat /\ addr \in Nat /\ a \in Nat /\ chunk \in Seq(Byte)
    BY <2>0, Turn, Layout
  <2>2. a \in Changed =>
          \/ a < addr
          \/ result = "true" /\ addr \in Writable /\ Start[addr] = Start[a] /\ Size[addr] > 1
    BY <1>1, <1>4 DEF Behind
  <2>3. CASE RegsSetDenied
    <3>1. addr' = addr /\ addr \notin Writable /\ mem' = mem
      BY <1>4, <2>3 DEF RegsSetDenied, After, Access
    <3>2. a \in Changed
      BY <2>0, <3>1 DEF Changed
    <3> QED
      BY <2>2, <3>1, <3>2
  <2>4. CASE RegsSetCollect
    <3>1. addr' = addr + n /\ result' = "true" /\ mem' = mem /\ addr \in Writable /\ addr \in Addr
      BY <2>4, Layout DEF RegsSetCollect, After, Access
    <3>2. a \in Changed
      BY <2>0, <3>1 DEF Changed
    <3> HIDE DEF n
    <3>3. CASE a < addr
      BY <2>1, <3>1, <3>3
    <3>4. CASE Start[addr] = Start[a] /\ Size[addr] > 1 /\ addr + n <= a
      <4>1. Start[addr + n] = Start[a] /\ addr + n \in Writable /\ Size[addr + n] = Size[a]
        BY <2>0, <2>1, <3>1, <3>4, Beyond
      <4>2. addr + 0 = addr /\ addr + 0 <= a
        BY <2>1, <3>4
      <4>3. Size[addr + 0] = Size[a]
        BY <2>0, <2>1, <3>1, <3>4, <4>2, Beyond
      <4> QED
        BY <3>1, <3>4, <4>1, <4>2, <4>3
    <3> QED
      BY <2>1, <2>2, <3>1, <3>2, <3>3, <3>4
  <2>5. CASE RegsSetStore
    <3>1. addr \in Writable /\ addr \in Addr /\ mem' = Stored(addr, bytes)
          /\ Complete(addr, FilledFlags(addr, chunk))
          /\ result' = (IF Refused(addr, bytes) THEN "illegal_value" ELSE "true")
          /\ After(chunk, ~Refused(addr, bytes))
      BY <2>5, Layout DEF RegsSetStore, Access
    <3>2. bytes \in [Offset -> Byte]
      BY <2>0, <3>1, Turn
    <3> HIDE DEF bytes, chunk
    <3>3. CASE Refused(addr, bytes)
      <4>1. mem' = mem /\ addr' = addr /\ Size[addr] = 1
        BY <1>1, <1>4, <3>1, <3>2, <3>3, StoredMemory, Layout DEF After, Refused
      <4>2. a \in Changed
        BY <2>0, <4>1 DEF Changed
      <4> QED
        BY <2>2, <4>1, <4>2
    <3>4. CASE ~Refused(addr, bytes)
      <4>1. addr' = addr + n /\ result' = "true"
        BY <3>1, <3>4 DEF After
      <4> HIDE DEF n
      <4>2. CASE a < addr
        BY <2>1, <4>1, <4>2
      <4>3. CASE Start[a] = Start[addr] /\ addr + n <= a
        <5>1. Start[addr + n] = Start[a] /\ addr + n \in Writable /\ Size[addr + n] = Size[a]
              /\ Start[addr + 0] = Start[a] /\ Size[addr + 0] = Size[a] /\ addr + 0 = addr
          BY <2>0, <2>1, <3>1, <4>3, Beyond
        <5>2. Size[addr] \in Nat \ {0}
          BY <3>1, Place
        <5>3. Size[addr] # 1
          <6> SUFFICES ASSUME Size[addr] = 1 PROVE FALSE
            OBVIOUS
          <6>1. n > 0
            BY <1>1, <2>1, <3>1, OneByteChunk DEF n
          <6>2. a = Start[addr] /\ addr = Start[addr]
            <7>1. Size[a] = 1 /\ Start[a] \in Addr /\ Addr \subseteq Nat
              BY <2>0, <5>1, Layout
            <7>2. Start[a] <= a /\ a < Start[a] + 1 /\ Start[addr] <= addr /\ addr < Start[addr] + 1
              BY <2>0, <3>1, <7>1, Layout
            <7>3. Start[a] \in Nat
              BY <7>1
            <7> QED
              BY <2>1, <4>3, <7>2, <7>3
          <6> QED
            BY <2>1, <4>3, <6>1, <6>2
        <5> QED
          BY <4>1, <5>1, <5>2, <5>3
      <4>4. CASE Start[a] # Start[addr]
        <5>1. a \in Changed
          BY <1>1, <2>0, <3>1, <3>2, <4>4, StoredMemory DEF Changed
        <5> QED
          BY <2>2, <4>2, <4>4, <5>1
      <4> QED
        BY <2>1, <4>1, <4>2, <4>3, <4>4
    <3> QED
      BY <3>3, <3>4
  <2> QED
    BY <1>4, <2>3, <2>4, <2>5 DEF RegsSet
<1>5. CASE RegsSet
  <2>1. last' = last
    BY <1>5 DEF RegsSet, RegsSetDenied, RegsSetCollect, RegsSetStore
  <2> QED
    BY <1>4, <1>5, <2>1 DEF Behind
<1> QED
  BY <1>2, <1>3, <1>5 DEF Next

\* The chunks of a request in progress: those seen lie in front of addr, the next one there.
LEMMA SeenChunks ==
  ASSUME last \in Requests, InProgress, NEW a \in Addr, a = Start[a],
         NEW o \in 0 .. (Size[a] - 1), NEW i \in Seen(a, o)
  PROVE  i \in 1 .. Len(last.chunks) /\ i <= Done /\ i \in ChunksFor(last, a + o) /\ a + o < addr
<1>1. i \in ChunksFor(last, a + o) /\ i <= Done
  BY DEF Seen
<1>2. last.chunks \in Seq(Seq(Byte)) /\ Len(last.chunks) \in Nat
  BY ChunkAddrs
<1>3. i \in 1 .. Len(last.chunks) /\ a + o < ChunkAddr(last, i) + Len(last.chunks[i])
  <2>1. DOMAIN last.chunks = 1 .. Len(last.chunks)
    BY <1>2
  <2> QED
    BY <1>1, <2>1 DEF ChunksFor
<1>4. Done \in 0 .. Len(last.chunks) /\ addr = ChunkAddr(last, Done + 1)
  BY DEF InProgress
<1>5. ChunkAddr(last, i) + Len(last.chunks[i]) <= addr
  BY <1>1, <1>3, <1>4, ChunkEnds
<1>6. ChunkAddr(last, i) \in Nat /\ Len(last.chunks[i]) \in Nat /\ addr \in Nat /\ a + o \in Nat
  <2>1. Done + 1 \in 1 .. (Len(last.chunks) + 1) /\ i \in 1 .. (Len(last.chunks) + 1)
    BY <1>2, <1>3, <1>4
  <2> QED
    BY <1>3, <1>4, <2>1, ChunkAddrs, ItemBytes
<1> QED
  BY <1>1, <1>3, <1>5, <1>6

\* The chunk that comes next, and where it is written.
LEMMA NextChunk ==
  ASSUME last \in Requests, InProgress, rest \in Seq(Seq(Byte)), rest # <<>>
  PROVE  /\ Done \in Nat /\ Done + 1 \in 1 .. Len(last.chunks) /\ Head(rest) = last.chunks[Done + 1]
         /\ ChunkAddr(last, Done + 1) = addr /\ addr \in Nat
         /\ \A a : Done + 1 \in ChunksFor(last, a) <=>
              addr \in Addr /\ Start[addr] = Start[a] /\ addr <= a /\ a < addr + Len(Head(rest))
<1>1. last.chunks \in Seq(Seq(Byte)) /\ Len(last.chunks) \in Nat /\ DOMAIN last.chunks = 1 .. Len(last.chunks)
  <2>1. last.chunks \in Seq(Seq(Byte)) /\ Len(last.chunks) \in Nat
    BY ChunkAddrs
  <2> QED
    BY <2>1
<1>2. Len(rest) \in Nat \ {0} /\ Head(rest) = rest[1] /\ 1 \in 1 .. Len(rest)
  OBVIOUS
<1>3. Done \in 0 .. Len(last.chunks) /\ addr = ChunkAddr(last, Done + 1)
      /\ rest[1] = last.chunks[Done + 1]
  BY <1>2 DEF InProgress
<1>4. Done = Len(last.chunks) - Len(rest)
  BY DEF Done
<1>5. Done \in Nat /\ Done + 1 \in 1 .. Len(last.chunks) /\ Done + 1 \in 1 .. (Len(last.chunks) + 1)
  BY <1>1, <1>2, <1>3, <1>4
<1>6. addr \in Nat
  BY <1>3, <1>5, ChunkAddrs
<1> QED
  BY <1>1, <1>2, <1>3, <1>5, <1>6 DEF ChunksFor

\* The request goes on behind its next chunk.
LEMMA GoesOn ==
  ASSUME last \in Requests, InProgress, rest \in Seq(Seq(Byte)), rest # <<>>,
         last' = last, rest' = Tail(rest), addr' = addr + Len(Head(rest))
  PROVE  /\ InProgress' /\ Done' = Done + 1
         /\ \A a, o : Seen(a, o)' = Seen(a, o) \cup (ChunksFor(last, a + o) \cap {Done + 1})
<1>1. /\ Done \in Nat /\ Done + 1 \in 1 .. Len(last.chunks) /\ Head(rest) = last.chunks[Done + 1]
      /\ ChunkAddr(last, Done + 1) = addr
  BY NextChunk
<1>2. Len(last.chunks) \in Nat /\ last.chunks \in Seq(Seq(Byte))
  BY ChunkAddrs
<1>3. /\ Len(rest) \in Nat /\ Len(rest') = Len(rest) - 1
      /\ \A i \in 1 .. Len(rest') : rest'[i] = rest[i + 1]
      /\ \A i \in 1 .. Len(rest') : i + 1 \in 1 .. Len(rest)
  OBVIOUS
<1>4. Done' = Done + 1
  BY <1>2, <1>3 DEF Done
<1>5. addr' = ChunkAddr(last, Done' + 1)
  BY <1>1, <1>4, ChunkAddrs
<1>6. \A i \in 1 .. Len(rest') : rest'[i] = last.chunks[Done' + i]
  <2> TAKE i \in 1 .. Len(rest')
  <2>1. rest[i + 1] = last.chunks[Done + (i + 1)]
    BY <1>3 DEF InProgress
  <2>2. Done + (i + 1) = Done' + i
    BY <1>1, <1>3, <1>4
  <2> QED
    BY <1>3, <2>1, <2>2
<1>7. InProgress'
  BY <1>1, <1>2, <1>4, <1>5, <1>6 DEF InProgress
<1>8. ASSUME NEW a, NEW o
      PROVE  Seen(a, o)' = Seen(a, o) \cup (ChunksFor(last, a + o) \cap {Done + 1})
  <2>1. \A i \in ChunksFor(last, a + o) : i \in Nat
    <3>1. DOMAIN last.chunks = 1 .. Len(last.chunks)
      BY <1>2
    <3> QED
      BY <1>2, <3>1 DEF ChunksFor
  <2>2. Seen(a, o)' = {i \in ChunksFor(last, a + o) : i <= Done + 1}
    BY <1>4 DEF Seen
  <2>3. \A i \in Nat : i <= Done + 1 <=> i <= Done \/ i = Done + 1
    BY <1>1
  <2> QED
    BY <2>1, <2>2, <2>3 DEF Seen
<1> QED
  BY <1>4, <1>7, <1>8

\* The buffer does not hold a whole item, so not all of its bytes have been seen.
LEMMA NotAllSeen ==
  ASSUME Incomplete, NEW a \in Addr, a = Start[a], Gathered(a)
  PROVE  \E o \in 0 .. (Size[a] - 1) : Seen(a, o) = {}
<1> SUFFICES ASSUME \A o \in 0 .. (Size[a] - 1) : Seen(a, o) # {} PROVE FALSE
  OBVIOUS
<1>1. Size[a] \in Nat \ {0} /\ 0 \in 0 .. (Size[a] - 1)
  BY InItem
<1>2. \A o \in 0 .. (Size[a] - 1) : item = a /\ o \in flags
  BY DEF Gathered
<1>3. item = a /\ a # None
  BY <1>1, <1>2, Layout
<1>4. \A o \in Offset : o < Size[a] => o \in 0 .. (Size[a] - 1)
  BY <1>1 DEF Offset
<1> QED
  BY <1>2, <1>3, <1>4 DEF Incomplete, Complete

\* A regs_set at an address of another item, or of none that may be written.
LEMMA OtherItem ==
  ASSUME WInv, last \in Requests, InProgress, rest # <<>>,
         last' = last, rest' = Tail(rest), addr' = addr + Len(Head(rest)),
         NEW a \in Writable, a = Start[a], ~(addr \in Addr /\ Start[addr] = a),
         IF addr < a + Size[a] THEN Gathered(a) ELSE Kept(a),
         UNCHANGED buffer \/ item' # a,
         \A o \in 0 .. (Size[a] - 1) : mem'[a + o] = mem[a + o]
  PROVE  IF addr' < a + Size[a] THEN Gathered(a)' ELSE Kept(a)'
<1>0. a \in Addr /\ a \in Nat /\ Size[a] \in Nat /\ rest \in Seq(Seq(Byte)) /\ OwnBytes /\ Incomplete
      /\ flags \subseteq Offset /\ MaxSize \in Nat
  <2>1. a \in Addr
    BY Layout
  <2> QED
    BY <2>1, InItem DEF WInv, IInv, BufferOK
<1>1. addr \in Nat /\ Len(Head(rest)) \in Nat /\ addr' \in Nat /\ addr <= addr'
  <2>1. addr \in Nat /\ Len(Head(rest)) \in Nat
    BY Turn
  <2> QED
    BY <2>1
<1>2. \A o \in 0 .. (Size[a] - 1) : Seen(a, o)' = Seen(a, o)
  <2> TAKE o \in 0 .. (Size[a] - 1)
  <2>1. Start[a + o] = a
    BY <1>0, ItemBytes
  <2>2. Done + 1 \notin ChunksFor(last, a + o)
    BY <1>0, <2>1, NextChunk
  <2>3. Seen(a, o)' = Seen(a, o) \cup (ChunksFor(last, a + o) \cap {Done + 1})
    BY <1>0, GoesOn
  <2> QED
    BY <2>2, <2>3
<1>3. CASE addr' < a + Size[a]
  <2>1. Gathered(a)
    BY <1>0, <1>1, <1>3
  <2>2. addr < a
    <3>1. addr < a + Size[a]
      BY <1>0, <1>1, <1>3
    <3>2. a <= addr => addr \in Addr
      <4>1. a <= addr => addr - a \in 0 .. (Size[a] - 1) /\ a + (addr - a) = addr
        BY <1>0, <1>1, <3>1
      <4> QED
        BY <1>0, <4>1, ItemBytes
    <3> QED
      BY <1>0, <1>1, <3>1, <3>2, InItem
  <2>3. \A o \in 0 .. (Size[a] - 1) : Seen(a, o) = {}
    <3> SUFFICES ASSUME NEW o \in 0 .. (Size[a] - 1), NEW i \in Seen(a, o) PROVE FALSE
      OBVIOUS
    <3>1. a + o < addr
      BY <1>0, SeenChunks
    <3> QED
      BY <1>0, <1>1, <2>2, <3>1
  <2>4. \A o \in 0 .. (Size[a] - 1) : Seen(a, o)' = {}
    BY <1>2, <2>3
  <2>5. item' = a => \A o \in flags' : Seen(a, o)' # {}
    <3> SUFFICES ASSUME item' = a, NEW o \in flags' PROVE Seen(a, o)' # {}
      OBVIOUS
    <3>1. item = a /\ o \in flags
      BY DEF buffer
    <3>2. o \in 0 .. (Size[a] - 1)
      BY <1>0, <3>1 DEF OwnBytes, Offset
    <3> QED
      BY <1>2, <2>1, <3>1, <3>2 DEF Gathered
  <2> QED
    BY <1>3, <2>4, <2>5 DEF Gathered
<1>4. CASE ~(addr' < a + Size[a])
  <2>1. CASE addr < a + Size[a]
    <3>1. PICK o \in 0 .. (Size[a] - 1) : Seen(a, o) = {}
      BY <1>0, <2>1, NotAllSeen
    <3>2. Seen(a, o)' = {}
      BY <1>2, <3>1
    <3> QED
      BY <1>4, <3>2 DEF Kept
  <2>2. CASE ~(addr < a + Size[a])
    <3>1. StoredAsSent(a) => StoredAsSent(a)'
      BY DEF StoredAsSent
    <3>2. Kept(a)
      BY <2>2
    <3>3. Kept(a)'
      BY <1>2, <3>1, <3>2 DEF Kept
    <3> QED
      BY <1>4, <3>3
  <2> QED
    BY <2>1, <2>2
<1> QED
  BY <1>3, <1>4

\* A regs_set in the item at a: the buffer then holds the bytes seen, and no others.
LEMMA OwnItem ==
  ASSUME WInv, last \in Requests, InProgress, rest # <<>>, addr \in Writable,
         NEW a \in Writable, a = Start[addr], a = Start[a], Gathered(a)
  PROVE  /\ \A o \in 0 .. (Size[a] - 1) :
              \A i \in Seen(a, o) \cup (ChunksFor(last, a + o) \cap {Done + 1}) :
                /\ o \in FilledFlags(addr, Head(rest))
                /\ FilledData(addr, Head(rest))[o] = last.chunks[i][a + o - ChunkAddr(last, i) + 1]
         /\ \A o \in FilledFlags(addr, Head(rest)) :
              Seen(a, o) \cup (ChunksFor(last, a + o) \cap {Done + 1}) # {}
<1> DEFINE chunk == Head(rest)
<1>0. /\ a \in Addr /\ a \in Nat /\ Size[a] \in Nat /\ addr \in Addr /\ addr \in Nat
      /\ Size[addr] = Size[a] /\ addr - a \in 0 .. (Size[a] - 1)
      /\ rest \in Seq(Seq(Byte)) /\ flags \subseteq Offset /\ MaxSize \in Nat /\ OwnBytes
      /\ a <= addr
  <2>1. a \in Addr /\ addr \in Addr
    BY Layout
  <2> QED
    BY <2>1, InItem DEF WInv, IInv, BufferOK
<1>1. chunk \in Seq(Byte) /\ Len(chunk) \in Nat
  BY Turn
<1>2. \A b : Done + 1 \in ChunksFor(last, b) <=> Start[b] = a /\ addr <= b /\ b < addr + Len(chunk)
  BY <1>0, NextChunk
<1>3. chunk = last.chunks[Done + 1] /\ ChunkAddr(last, Done + 1) = addr /\ Done \in Nat
  BY <1>0, NextChunk
<1> HIDE DEF chunk
<1>4. \A o \in 0 .. (Size[a] - 1) : o \in Filled(addr, chunk) <=> Done + 1 \in ChunksFor(last, a + o)
  <2> TAKE o \in 0 .. (Size[a] - 1)
  <2>1. Start[a + o] = a /\ o \in Offset
    BY <1>0, ItemBytes
  <2>2. o \in Filled(addr, chunk) <=> addr - a <= o /\ o < addr - a + Len(chunk)
    <3>1. Start[addr] = a /\ Size[addr] = Size[a] /\ o < Size[a]
      BY <1>0
    <3>2. Filled(addr, chunk) = {p \in Offset : addr - a <= p /\ p < addr - a + Len(chunk) /\ p < Size[a]}
      BY <3>1 DEF Filled
    <3> QED
      BY <2>1, <3>1, <3>2
  <2>3. Done + 1 \in ChunksFor(last, a + o) <=> addr <= a + o /\ a + o < addr + Len(chunk)
    BY <1>2, <2>1
  <2> DEFINE n == Len(chunk)
  <2>4. n \in Nat /\ o \in Nat
    BY <1>0, <1>1
  <2> HIDE DEF n
  <2>5. addr \in Nat /\ a \in Nat
    BY <1>0
  <2>6. (addr - a <= o <=> addr <= a + o) /\ (o < addr - a + n <=> a + o < addr + n)
    BY <2>4, <2>5
  <2> QED
    BY <2>2, <2>3, <2>6 DEF n
<1>5. ASSUME NEW o \in 0 .. (Size[a] - 1), Done + 1 \in ChunksFor(last, a + o)
      PROVE  /\ o \in FilledFlags(addr, chunk)
             /\ FilledData(addr, chunk)[o]
                  = last.chunks[Done + 1][a + o - ChunkAddr(last, Done + 1) + 1]
  <2>1. o \in Filled(addr, chunk) /\ o \in Offset
    BY <1>0, <1>4, <1>5, ItemBytes
  <2>2. FilledData(addr, chunk)[o] = chunk[o - (addr - a) + 1]
    BY <2>1 DEF FilledData
  <2>3. o - (addr - a) + 1 = a + o - addr + 1
    BY <1>0
  <2> QED
    BY <1>3, <2>1, <2>2, <2>3 DEF FilledFlags
<1>6. ASSUME NEW o \in 0 .. (Size[a] - 1), NEW i \in Seen(a, o)
      PROVE  /\ o \in FilledFlags(addr, chunk)
             /\ FilledData(addr, chunk)[o] = last.chunks[i][a + o - ChunkAddr(last, i) + 1]
  <2>1. item = a /\ o \in flags /\ data[o] = last.chunks[i][a + o - ChunkAddr(last, i) + 1]
    BY DEF Gathered
  <2>2. i \in ChunksFor(last, a + o) /\ i <= Done /\ i \in Nat
    <3>1. a \in Addr
      BY <1>0
    <3>2. i \in 1 .. Len(last.chunks) /\ i <= Done /\ i \in ChunksFor(last, a + o)
      BY <3>1, SeenChunks
    <3> QED
      BY <3>2
  <2>3. o \notin Filled(addr, chunk)
    <3> SUFFICES ASSUME o \in Filled(addr, chunk) PROVE FALSE
      OBVIOUS
    <3>1. Done + 1 \in ChunksFor(last, a + o) /\ a + o \in Nat
      BY <1>0, <1>4, ItemBytes
    <3>2. i = Done + 1
      BY <2>2, <3>1, OneChunk
    <3> QED
      BY <1>3, <2>2, <3>2
  <2>4. o \in Offset
    BY <1>0, ItemBytes
  <2> QED
    BY <2>1, <2>3, <2>4 DEF FilledFlags, FilledData, Keeps
<1>7. ASSUME NEW o \in FilledFlags(addr, chunk)
      PROVE  Seen(a, o) # {} \/ Done + 1 \in ChunksFor(last, a + o)
  <2>1. CASE o \in Filled(addr, chunk)
    <3>1. o \in 0 .. (Size[a] - 1)
      BY <1>0, <2>1 DEF Filled, Offset
    <3> QED
      BY <1>4, <2>1, <3>1
  <2>2. CASE item = a /\ o \in flags
    BY <2>2 DEF Gathered
  <2> QED
    BY <1>7, <2>1, <2>2 DEF FilledFlags, Keeps
<1> QED
  BY <1>5, <1>6, <1>7 DEF chunk

\* What Progress says of an item while a request goes on.
ItemRight(a) == IF addr < a + Size[a] THEN Gathered(a) ELSE Kept(a)

\* A request that regs_set works on has not failed.
LEMMA Going ==
  ASSUME WInv, RegsSet, last # NoRequest
  PROVE  /\ last \in Requests /\ InProgress /\ rest # <<>> /\ last' = last /\ held' = held
         /\ rest \in Seq(Seq(Byte))
         /\ \A a \in Writable : a = Start[a] /\ a # held => ItemRight(a)
<1>1. rest # <<>> /\ last' = last /\ held' = held
  BY DEF RegsSet, RegsSetDenied, RegsSetCollect, RegsSetStore
<1>2. last \in Requests /\ rest \in Seq(Seq(Byte))
  BY DEF WInv, TypeOK, IInv, BufferOK
<1>3. Progress
  BY DEF WInv
<1> QED
  BY <1>1, <1>2, <1>3 DEF Progress, Failed, ItemRight

\* A new request has been seen by nobody yet.
LEMMA ReceiveProgress ==
  ASSUME WInv, NEW r \in Requests, Receive(r)
  PROVE  Progress'
<1>1. /\ addr' = r.addr /\ rest' = r.chunks /\ last' = r /\ held' = item /\ item' = item
  BY DEF Receive, buffer
<1>2. /\ r.chunks \in Seq(Seq(Byte)) /\ Len(r.chunks) \in Nat /\ DOMAIN r.chunks = 1 .. Len(r.chunks)
  <2>1. r.chunks \in Seq(Seq(Byte)) /\ Len(r.chunks) \in Nat
    BY ChunkAddrs
  <2> QED
    BY <2>1
<1>3. Done' = 0
  BY <1>1, <1>2 DEF Done
<1>4. InProgress'
  <2>1. addr' = ChunkAddr(r, 1)
    BY <1>1, ChunkAddrs
  <2>2. \A i \in 1 .. Len(r.chunks) : r.chunks[i] = r.chunks[0 + i]
    BY <1>2
  <2> QED
    BY <1>1, <1>2, <1>3, <2>1, <2>2 DEF InProgress
<1>5. \A a, o : Seen(a, o)' = {}
  BY <1>1, <1>2, <1>3 DEF Seen, ChunksFor
<1>6. ASSUME NEW a \in Writable, a = Start[a], a # held' PROVE ItemRight(a)'
  <2>1. a \in Addr
    BY Layout
  <2>2. 0 \in 0 .. (Size[a] - 1)
    BY <1>6, <2>1, InItem
  <2> QED
    BY <1>1, <1>5, <1>6, <2>2 DEF ItemRight, Gathered, Kept
<1> QED
  BY <1>4, <1>6 DEF Progress, ItemRight

\* A chunk that may not be written changes nothing of what was sent whole.
LEMMA DeniedProgress ==
  ASSUME WInv, RegsSetDenied, last # NoRequest
  PROVE  Progress'
<1>1. /\ last \in Requests /\ InProgress /\ rest # <<>> /\ last' = last /\ held' = held
      /\ rest \in Seq(Seq(Byte))
      /\ \A a \in Writable : a = Start[a] /\ a # held => ItemRight(a)
  BY Going DEF RegsSet
<1>2. addr \notin Writable /\ result' = "illegal_address" /\ mem' = mem /\ buffer' = buffer
      /\ After(Head(rest), FALSE)
  BY DEF RegsSetDenied, Access
<1>3. CASE last.stops
  <2>1. rest' = <<>>
    BY <1>2, <1>3 DEF After
  <2> QED
    BY <1>1, <1>2, <1>3, <2>1 DEF Progress, Failed
<1>4. CASE ~last.stops
  <2>1. rest' = Tail(rest) /\ addr' = addr + Len(Head(rest))
    BY <1>2, <1>4 DEF After
  <2>2. InProgress'
    BY <1>1, <2>1, GoesOn
  <2>3. ASSUME NEW a \in Writable, a = Start[a], a # held' PROVE ItemRight(a)'
    <3>1. ~(addr \in Addr /\ Start[addr] = a)
      BY <1>2, <2>3, Layout
    <3>2. IF addr < a + Size[a] THEN Gathered(a) ELSE Kept(a)
      BY <1>1, <2>3 DEF ItemRight
    <3>3. \A o \in 0 .. (Size[a] - 1) : mem'[a + o] = mem[a + o]
      BY <1>2
    <3> QED
      BY <1>1, <1>2, <2>1, <2>3, <3>1, <3>2, <3>3, OtherItem DEF ItemRight
  <2> QED
    BY <2>2, <2>3 DEF Progress, ItemRight
<1> QED
  BY <1>3, <1>4

\* A chunk that does not complete its item is gathered.
LEMMA CollectProgress ==
  ASSUME WInv, RegsSetCollect, last # NoRequest
  PROVE  Progress'
<1>1. /\ last \in Requests /\ InProgress /\ rest # <<>> /\ last' = last /\ held' = held
      /\ rest \in Seq(Seq(Byte))
      /\ \A a \in Writable : a = Start[a] /\ a # held => ItemRight(a)
  BY Going DEF RegsSet
<1>2. /\ addr \in Writable /\ ~Complete(addr, FilledFlags(addr, Head(rest))) /\ mem' = mem
      /\ item' = Start[addr] /\ flags' = FilledFlags(addr, Head(rest))
      /\ data' = FilledData(addr, Head(rest))
      /\ rest' = Tail(rest) /\ addr' = addr + Len(Head(rest))
  BY DEF RegsSetCollect, Access, After
<1>3. InProgress' /\ \A a, o : Seen(a, o)' = Seen(a, o) \cup (ChunksFor(last, a + o) \cap {Done + 1})
  BY <1>1, <1>2, GoesOn
<1>4. ASSUME NEW a \in Writable, a = Start[a], a # held' PROVE ItemRight(a)'
  <2>1. ItemRight(a)
    BY <1>1, <1>4
  <2>2. CASE Start[addr] # a
    <3>1. \A o \in 0 .. (Size[a] - 1) : mem'[a + o] = mem[a + o]
      BY <1>2
    <3> QED
      BY <1>1, <1>2, <1>4, <2>1, <2>2, <3>1, OtherItem DEF ItemRight
  <2>3. CASE Start[addr] = a
    <3>0. a \in Addr /\ addr \in Addr
      BY <1>2, Layout
    <3>1. addr < a + Size[a] /\ Size[addr] = Size[a]
      BY <1>4, <2>3, <3>0, InItem
    <3>2. Gathered(a)
      BY <2>1, <3>1 DEF ItemRight
    <3>3. /\ \A o \in 0 .. (Size[a] - 1) : \A i \in Seen(a, o)' :
               o \in flags' /\ data'[o] = last'.chunks[i][a + o - ChunkAddr(last', i) + 1]
          /\ \A o \in flags' : Seen(a, o)' # {}
      BY <1>1, <1>2, <1>3, <1>4, <2>3, <3>2, OwnItem
    <3>4. Gathered(a)'
      BY <1>2, <2>3, <3>3 DEF Gathered
    <3>5. Kept(a)'
      <4>1. PICK o \in Offset : o < Size[addr] /\ o \notin flags'
        BY <1>2 DEF Complete
      <4>2. o \in 0 .. (Size[a] - 1)
        <5>1. Size[a] \in Nat
          BY <1>4, <3>0, InItem
        <5>2. o \in Nat
          BY Layout DEF Offset
        <5> QED
          BY <3>1, <4>1, <5>1, <5>2
      <4>3. Seen(a, o)' = {}
        BY <3>3, <4>1, <4>2
      <4> QED
        BY <4>2, <4>3 DEF Kept
    <3> QED
      BY <3>4, <3>5 DEF ItemRight
  <2> QED
    BY <2>2, <2>3
<1> QED
  BY <1>3, <1>4 DEF Progress, ItemRight

\* The item of the last byte is stored with the bytes of this request, when it sent all.
LEMMA StoreOwnItem ==
  ASSUME WInv, RegsSetStore, last \in Requests, InProgress, last' = last,
         rest' = Tail(rest), addr' = addr + Len(Head(rest)),
         NEW a \in Writable, a = Start[a], Start[addr] = a, Gathered(a)
  PROVE  addr' >= a + Size[a] /\ Kept(a)'
<1> DEFINE chunk == Head(rest)
           d == FilledData(addr, chunk)
           e == [o \in Offset |-> IF o < Size[a] THEN SentByte(last, a + o) ELSE 0]
           All(o) == Seen(a, o) \cup (ChunksFor(last, a + o) \cap {Done + 1})
<1>0. /\ addr \in Writable /\ rest # <<>> /\ Complete(addr, FilledFlags(addr, chunk))
      /\ mem' = Stored(addr, d)
  BY DEF RegsSetStore, Access
<1>1. /\ a \in Addr /\ addr \in Addr /\ rest \in Seq(Seq(Byte)) /\ mem \in [Addr -> Byte]
      /\ d \in [Offset -> Byte]
  BY <1>0, Layout, Turn DEF WInv, TypeOK, BufferOK
<1>2. Size[addr] = Size[a] /\ Size[a] \in Nat \ {0} /\ a \in Nat /\ Size[a] <= MaxSize /\ MaxSize \in Nat
  BY <1>1, InItem
<1>3. InProgress' /\ \A o : Seen(a, o)' = All(o)
  BY <1>0, <1>1, GoesOn
<1>4. /\ \A o \in 0 .. (Size[a] - 1) : \A i \in All(o) :
           d[o] = last.chunks[i][a + o - ChunkAddr(last, i) + 1]
      /\ \A o \in FilledFlags(addr, chunk) : All(o) # {}
  BY <1>0, OwnItem
<1> HIDE DEF chunk, d, All
<1>5. \A o \in 0 .. (Size[a] - 1) : All(o) # {}
  <2> TAKE o \in 0 .. (Size[a] - 1)
  <2>1. o \in Offset /\ o < Size[addr]
    BY <1>2 DEF Offset
  <2> QED
    BY <1>0, <1>4, <2>1 DEF Complete
<1>6. addr' >= a + Size[a]
  <2>1. Size[a] - 1 \in 0 .. (Size[a] - 1)
    BY <1>2
  <2>2. addr \in Nat /\ Len(Head(rest)) \in Nat /\ a + (Size[a] - 1) \in Nat
    BY <1>0, <1>2, Turn
  <2>3. PICK i : i \in All(Size[a] - 1)
    BY <1>5, <2>1
  <2>4. CASE i \in Seen(a, Size[a] - 1)
    <3>1. a + (Size[a] - 1) < addr
      BY <1>1, <2>1, <2>4, SeenChunks
    <3> QED
      BY <1>2, <2>2, <3>1
  <2>5. CASE Done + 1 \in ChunksFor(last, a + (Size[a] - 1))
    <3>1. a + (Size[a] - 1) < addr + Len(Head(rest))
      BY <1>0, <1>1, <2>5, NextChunk
    <3> QED
      BY <1>2, <2>2, <3>1
  <2> QED
    BY <2>3, <2>4, <2>5 DEF All
<1>7. \A o \in 0 .. (Size[a] - 1) : d[o] = SentByte(last, a + o) /\ e[o] = d[o]
  <2> TAKE o \in 0 .. (Size[a] - 1)
  <2>1. PICK i : i \in All(o)
    BY <1>5
  <2>2. i \in ChunksFor(last, a + o) /\ a + o \in Nat /\ o \in Offset /\ o < Size[a]
    BY <1>1, <1>2, <2>1, ItemBytes DEF All, Seen
  <2>3. SentByte(last, a + o) = last.chunks[i][(a + o) - ChunkAddr(last, i) + 1]
    BY <2>2, SentIs
  <2>4. ChunkAddr(last, i) \in Nat
    <3>1. last.chunks \in Seq(Seq(Byte)) /\ Len(last.chunks) \in Nat
      BY ChunkAddrs
    <3>2. DOMAIN last.chunks = 1 .. Len(last.chunks)
      BY <3>1
    <3>3. i \in 1 .. Len(last.chunks) /\ i \in 1 .. (Len(last.chunks) + 1)
      BY <2>2, <3>1, <3>2 DEF ChunksFor
    <3> QED
      BY <3>3, ChunkAddrs
  <2>5. (a + o) - ChunkAddr(last, i) + 1 = a + o - ChunkAddr(last, i) + 1
    BY <1>2, <2>4
  <2> QED
    BY <1>4, <2>1, <2>2, <2>3, <2>5
<1>8. e \in [Offset -> Byte]
  <2>1. \A o \in Offset : o < Size[a] => o \in 0 .. (Size[a] - 1)
    BY <1>2 DEF Offset
  <2>2. 0 \in Byte
    BY Layout DEF Byte
  <2>3. \A o \in Offset : (IF o < Size[a] THEN SentByte(last, a + o) ELSE 0) \in Byte
    BY <1>1, <1>7, <2>1, <2>2
  <2> QED
    BY <2>3
<1> HIDE DEF e
<1>9. Checked(a, e) = Checked(addr, d) /\ (Refused(a, e) <=> Refused(addr, d))
  <2>1. \A o \in 0 .. (Size[a] - 1) : e[o] = d[o]
    BY <1>7
  <2> QED
    BY <1>1, <1>8, <2>1, CheckedSame
<1>10. ~Refused(addr, d) => \A o \in 0 .. (Size[a] - 1) : mem'[a + o] = Checked(addr, d)[o]
  BY <1>0, <1>1, StoredMemory
<1>11. StoredAsSent(a)'
  BY <1>9, <1>10 DEF StoredAsSent, e
<1> QED
  BY <1>6, <1>11 DEF Kept

\* A chunk that completes its item stores it, and disturbs no other item.
LEMMA StoreProgress ==
  ASSUME WInv, RegsSetStore, last # NoRequest
  PROVE  Progress'
<1> DEFINE d == FilledData(addr, Head(rest))
<1>1. /\ last \in Requests /\ InProgress /\ rest # <<>> /\ last' = last /\ held' = held
      /\ rest \in Seq(Seq(Byte))
      /\ \A a \in Writable : a = Start[a] /\ a # held => ItemRight(a)
  BY Going DEF RegsSet
<1>2. /\ addr \in Writable /\ item' = None /\ mem' = Stored(addr, d)
      /\ result' = (IF Refused(addr, d) THEN "illegal_value" ELSE "true")
      /\ After(Head(rest), ~Refused(addr, d))
  BY DEF RegsSetStore, Access, Clear
<1>3. d \in [Offset -> Byte] /\ mem \in [Addr -> Byte]
  BY <1>1, <1>2, Turn DEF WInv, TypeOK
<1> HIDE DEF d
<1>4. CASE last.stops /\ Refused(addr, d)
  <2>1. rest' = <<>>
    BY <1>2, <1>4 DEF After
  <2> QED
    BY <1>1, <1>2, <1>4, <2>1 DEF Progress, Failed
<1>5. CASE ~(last.stops /\ Refused(addr, d))
  <2>1. rest' = Tail(rest) /\ addr' = addr + Len(Head(rest))
    BY <1>2, <1>5 DEF After
  <2>2. InProgress'
    BY <1>1, <2>1, GoesOn
  <2>3. ASSUME NEW a \in Writable, a = Start[a], a # held' PROVE ItemRight(a)'
    <3>0. a \in Addr /\ addr \in Addr /\ a # None
      BY <1>2, Layout
    <3>1. ItemRight(a)
      BY <1>1, <2>3
    <3>2. CASE Start[addr] # a
      <4>1. \A o \in 0 .. (Size[a] - 1) : mem'[a + o] = mem[a + o]
        <5> TAKE o \in 0 .. (Size[a] - 1)
        <5>1. a + o \in Addr /\ Start[a + o] = a
          BY <2>3, <3>0, ItemBytes
        <5> QED
          BY <1>2, <1>3, <3>2, <5>1, StoredMemory
      <4> QED
        BY <1>1, <1>2, <2>1, <2>3, <3>0, <3>1, <3>2, <4>1, OtherItem DEF ItemRight
    <3>3. CASE Start[addr] = a
      <4>1. addr < a + Size[a] /\ a + Size[a] \in Nat
        BY <2>3, <3>0, <3>3, InItem
      <4>2. Gathered(a)
        BY <3>1, <4>1 DEF ItemRight
      <4>3. addr' >= a + Size[a] /\ Kept(a)'
        BY <1>1, <2>1, <2>3, <3>3, <4>2, StoreOwnItem
      <4>4. addr' \in Nat
        BY <1>1, <2>1, Turn
      <4> QED
        BY <4>1, <4>3, <4>4 DEF ItemRight
    <3> QED
      BY <3>2, <3>3
  <2> QED
    BY <2>2, <2>3 DEF Progress, ItemRight
<1> QED
  BY <1>4, <1>5

\* Every step keeps Progress.
LEMMA ProgressKeeps == WInv /\ [Next]_vars => Progress'
<1> SUFFICES ASSUME WInv, [Next]_vars PROVE Progress'
  OBVIOUS
<1>1. ASSUME NEW r \in Requests, Receive(r) PROVE Progress'
  BY <1>1, ReceiveProgress
<1>2. CASE RegsSet
  <2>1. CASE last = NoRequest
    <3>1. last' = last
      BY <1>2 DEF RegsSet, RegsSetDenied, RegsSetCollect, RegsSetStore
    <3> QED
      BY <2>1, <3>1 DEF Progress
  <2>2. CASE last # NoRequest
    BY <1>2, <2>2, DeniedProgress, CollectProgress, StoreProgress DEF RegsSet
  <2> QED
    BY <2>1, <2>2
<1>3. CASE UNCHANGED vars
  <2>1. Progress
    BY DEF WInv
  <2>2. UNCHANGED <<mem, item, flags, data, addr, rest, last, held, result>>
    BY <1>3 DEF vars, buffer, request
  <2>3. (\A a, o : Seen(a, o)' = Seen(a, o)) /\ InProgress' = InProgress /\ Failed' = Failed
    BY <2>2 DEF Seen, Done, InProgress, Failed
  <2>4. \A a : StoredAsSent(a)' = StoredAsSent(a)
    BY <2>2 DEF StoredAsSent
  <2>5. \A a : Gathered(a)' = Gathered(a) /\ Kept(a)' = Kept(a)
    BY <2>2, <2>3, <2>4 DEF Gathered, Kept
  <2> QED
    BY <2>1, <2>2, <2>3, <2>5 DEF Progress
<1> QED
  BY <1>1, <1>2, <1>3 DEF Next

\* A request that is done has passed every item it sent completely.
LEMMA WholeItems ==
  ASSUME WInv
  PROVE  WholeWriteStored
<1> SUFFICES ASSUME NEW a \in Addr, SentWhole(a), a # held PROVE StoredAsSent(a)
  BY DEF WholeWriteStored
<1>1. /\ a = Start[a] /\ a \in Writable /\ last # NoRequest /\ rest = <<>>
      /\ last.stops => result = "true"
      /\ \A o \in 0 .. (Size[a] - 1) : ChunksFor(last, a + o) # {}
  BY DEF SentWhole
<1>2. last \in Requests /\ InProgress /\ (IF addr < a + Size[a] THEN Gathered(a) ELSE Kept(a))
  BY <1>1 DEF WInv, TypeOK, Progress, Failed
<1>3. Size[a] \in Nat \ {0} /\ a \in Nat
  BY <1>1, InItem
<1>4. last.chunks \in Seq(Seq(Byte)) /\ Len(last.chunks) \in Nat
  BY <1>2, ChunkAddrs
<1>5. Done = Len(last.chunks)
  BY <1>1, <1>4 DEF Done
<1>6. \A o \in 0 .. (Size[a] - 1) : Seen(a, o) # {}
  <2> TAKE o \in 0 .. (Size[a] - 1)
  <2>1. PICK i : i \in ChunksFor(last, a + o)
    BY <1>1
  <2>2. i \in 1 .. Len(last.chunks)
    <3>1. DOMAIN last.chunks = 1 .. Len(last.chunks)
      BY <1>4
    <3> QED
      BY <2>1, <3>1 DEF ChunksFor
  <2>3. i <= Done
    BY <1>4, <1>5, <2>2
  <2> QED
    BY <2>1, <2>3 DEF Seen
<1>7. ~(addr < a + Size[a])
  <2>1. Size[a] - 1 \in 0 .. (Size[a] - 1)
    BY <1>3
  <2>2. a + (Size[a] - 1) < addr
    BY <1>1, <1>2, <1>6, <2>1, SeenChunks
  <2>3. addr \in Nat
    BY DEF WInv, IInv, BufferOK
  <2> QED
    BY <1>3, <2>2, <2>3
<1> QED
  BY <1>2, <1>6, <1>7 DEF Kept

\* The inductive invariant of the stored values.
LEMMA WInvHolds == Spec => []WInv
<1>1. WInv /\ [Next]_vars => WInv'
  <2> SUFFICES ASSUME WInv, [Next]_vars PROVE WInv'
    OBVIOUS
  <2>1. IInv'
    BY NextKeeps DEF WInv
  <2>2. TypeOK' /\ LimitsHold' /\ Incomplete' /\ Behind' /\ Progress'
    BY TypeKeeps, LimitsKeep, IncompleteKeeps, BehindKeeps, ProgressKeeps
  <2> QED
    BY <2>1, <2>2 DEF WInv
<1> QED
  BY <1>1, InitWInv, PTL DEF Spec

\* What is stored is the request.
THEOREM StoredRightHolds == Spec => []StoredRight
<1>1. WInv => StoredRight
  <2> SUFFICES ASSUME WInv PROVE StoredRight
    OBVIOUS
  <2>1. TypeOK /\ LimitsHold /\ Behind
    BY DEF WInv
  <2>2. PrefixOnly
    BY <2>1 DEF Behind, PrefixOnly, Changed
  <2> QED
    BY <2>1, <2>2, WholeItems DEF StoredRight
<1> QED
  BY <1>1, WInvHolds, PTL
=============================================================================
