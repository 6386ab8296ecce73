------------------------ MODULE ModbusRequestProofs ------------------------
(***************************************************************************)
(* Proofs for ModbusRequest.                                               *)
(***************************************************************************)
EXTENDS ModbusRequest, RegsSetProofs, Integers

-----------------------------------------------------------------------------
(* The lookups                                                              *)

\* A set of numbers that is not empty has a least one.
LEMMA Least ==
  ASSUME NEW S \in SUBSET Nat, S # {}
  PROVE  Lookup!Min(S) \in S
<1> DEFINE R == OpToRel(<, Nat)
<1>1. IsWellFoundedOn(R, Nat)
  BY NatLessThanWellFounded
<1>2. \A x, y \in Nat : y < x => <<y, x>> \in R
  BY DEF OpToRel
<1> HIDE DEF R
<1>3. PICK x \in S : \A y \in S : ~ (<<y, x>> \in R)
  BY <1>1, WFMin
<1>4. \A y \in S : x <= y
  <2> TAKE y \in S
  <2>1. x \in Nat /\ y \in Nat
    OBVIOUS
  <2>2. ~ (y < x)
    BY <1>2, <1>3, <2>1
  <2> QED
    BY <2>1, <2>2
<1> QED
  BY <1>3, <1>4 DEF Lookup!Min

IsSearch(f, q0, hits, above, n) ==
  f = [k \in 0 .. n |-> IF k = 0 THEN q0 ELSE Lookup!Halved(f[k - 1], hits, above)]

\* The rounds of a binary search exist.
LEMMA RoundsExist ==
  ASSUME NEW q0, NEW hits, NEW above, NEW n \in Nat
  PROVE  \E f : IsSearch(f, q0, hits, above, n)
<1> DEFINE Def(f, m) == f = [k \in 0 .. m |-> IF k = 0 THEN q0 ELSE Lookup!Halved(f[k - 1], hits, above)]
           S == {m \in Nat : \E f : Def(f, m)}
<1>1. 0 \in S
  <2>1. Def([k \in 0 .. 0 |-> q0], 0)
    OBVIOUS
  <2> QED
    BY <2>1
<1>2. ASSUME NEW m \in Nat, m \in S
      PROVE  m + 1 \in S
  <2>1. PICK f : Def(f, m)
    BY <1>2
  <2> DEFINE g == [k \in 0 .. (m + 1) |-> IF k <= m THEN f[k] ELSE Lookup!Halved(f[m], hits, above)]
  <2>2. Def(g, m + 1)
    <3>1. ASSUME NEW k \in 0 .. (m + 1)
          PROVE  g[k] = IF k = 0 THEN q0 ELSE Lookup!Halved(g[k - 1], hits, above)
      <4>1. CASE k = 0
        BY <2>1, <4>1
      <4>2. CASE k # 0 /\ k <= m
        <5>1. g[k] = f[k] /\ k - 1 \in 0 .. (m + 1) /\ k - 1 <= m
          BY <4>2
        <5>2. g[k - 1] = f[k - 1]
          BY <5>1
        <5>3. f[k] = Lookup!Halved(f[k - 1], hits, above)
          BY <2>1, <4>2
        <5> QED
          BY <4>2, <5>1, <5>2, <5>3
      <4>3. CASE k = m + 1
        <5>1. g[k] = Lookup!Halved(f[m], hits, above) /\ g[k - 1] = f[m]
          BY <4>3
        <5> QED
          BY <4>3, <5>1
      <4> QED
        BY <4>1, <4>2, <4>3
    <3> QED
      BY <3>1
  <2> HIDE DEF g, Def
  <2>3. \E h : Def(h, m + 1)
    BY <2>2
  <2> QED
    BY <2>3
<1> HIDE DEF S
<1>3. S = Nat
  <2>1. S \subseteq Nat
    BY DEF S
  <2> QED
    BY <1>1, <1>2, <2>1, SetInduction
<1>4. n \in S
  BY <1>3
<1> QED
  BY <1>4 DEF S, IsSearch

\* Where a binary search is after k rounds: it has ended, or what is left has lost a
\* register each round.
Searching(q, n, k, hits) ==
  /\ q \in [l : 0 .. n, r : -1 .. (n - 1)]
  /\ Lookup!Ended(q, hits) \/ q.r - q.l + 1 <= n - k

\* A round goes on searching.
LEMMA HalvedSearches ==
  ASSUME NEW n \in Nat, NEW k \in Nat, NEW hits, NEW above, NEW q, Searching(q, n, k, hits)
  PROVE  Searching(Lookup!Halved(q, hits, above), n, k + 1, hits)
<1> DEFINE c == Lookup!Middle(q)
           h == Lookup!Halved(q, hits, above)
<1>1. q \in [l : 0 .. n, r : -1 .. (n - 1)]
  BY DEF Searching
<1>2. CASE Lookup!Ended(q, hits)
  BY <1>2 DEF Searching, Lookup!Halved
<1>3. CASE ~Lookup!Ended(q, hits)
  <2>1. q.l <= q.r /\ q.r - q.l + 1 <= n - k
    BY <1>3 DEF Searching, Lookup!Ended
  <2>2. q.l <= c /\ c <= q.r /\ c \in 0 .. (n - 1)
    BY <1>1, <2>1 DEF Lookup!Middle
  <2>3. h = [q EXCEPT !.l = c + 1] \/ h = [q EXCEPT !.r = c - 1]
    BY <1>3 DEF Lookup!Halved
  <2> HIDE DEF c, h
  <2>4. h \in [l : 0 .. n, r : -1 .. (n - 1)] /\ h.r - h.l + 1 <= n - (k + 1)
    <3>1. CASE h = [q EXCEPT !.l = c + 1]
      <4>1. h.l = c + 1 /\ h.r = q.r /\ h \in [l : 0 .. n, r : -1 .. (n - 1)]
        BY <1>1, <2>2, <3>1
      <4> QED
        BY <1>1, <2>1, <2>2, <4>1
    <3>2. CASE h = [q EXCEPT !.r = c - 1]
      <4>1. h.r = c - 1 /\ h.l = q.l /\ h \in [l : 0 .. n, r : -1 .. (n - 1)]
        BY <1>1, <2>2, <3>2
      <4> QED
        BY <1>1, <2>1, <2>2, <4>1
    <3> QED
      BY <2>3, <3>1, <3>2
  <2> QED
    BY <2>4 DEF Searching, h
<1> QED
  BY <1>2, <1>3

\* What a binary search finds is a hit.
LEMMA BisectHits ==
  ASSUME NEW n \in Nat, NEW hits, NEW above, Lookup!Bisect(n, hits, above) # None
  PROVE  Lookup!Bisect(n, hits, above) \in hits \cap (0 .. (n - 1))
<1> DEFINE q0 == [l |-> 0, r |-> n - 1]
           Def(f) == f = [k \in 0 .. n |-> IF k = 0 THEN q0 ELSE Lookup!Halved(f[k - 1], hits, above)]
           Round == CHOOSE f : Def(f)
<1>1. Lookup!Bisect(n, hits, above) = IF Round[n].l > Round[n].r THEN None ELSE Lookup!Middle(Round[n])
  BY DEF Lookup!Bisect
<1>2. PICK f : IsSearch(f, q0, hits, above, n)
  BY RoundsExist
<1>3. Def(Round)
  <2>1. Def(f)
    BY <1>2 DEF IsSearch
  <2> QED
    BY <2>1
<1> HIDE DEF Round
<1>4. Round[0] = q0 /\ \A k \in 1 .. n : Round[k] = Lookup!Halved(Round[k - 1], hits, above)
  BY <1>3
<1> HIDE DEF Def
<1> DEFINE S == {k \in Nat : k <= n => Searching(Round[k], n, k, hits)}
<1>5. 0 \in S
  BY <1>4 DEF Searching
<1>6. ASSUME NEW k \in Nat, k \in S PROVE k + 1 \in S
  <2> SUFFICES ASSUME k + 1 <= n PROVE Searching(Round[k + 1], n, k + 1, hits)
    OBVIOUS
  <2>1. Searching(Round[k], n, k, hits) /\ Round[k + 1] = Lookup!Halved(Round[k], hits, above)
    BY <1>4, <1>6
  <2> QED
    BY <2>1, HalvedSearches
<1>7. S = Nat
  <2> HIDE DEF S
  <2>1. S \subseteq Nat
    BY DEF S
  <2> QED
    BY <1>5, <1>6, <2>1, SetInduction
<1>8. Searching(Round[n], n, n, hits)
  BY <1>7
<1>9. Round[n].l <= Round[n].r /\ Round[n] \in [l : 0 .. n, r : -1 .. (n - 1)]
  BY <1>1, <1>8 DEF Searching
<1>10. Lookup!Middle(Round[n]) \in hits
  BY <1>8, <1>9 DEF Searching, Lookup!Ended
<1>11. Lookup!Middle(Round[n]) \in 0 .. (n - 1)
  BY <1>9 DEF Lookup!Middle
<1> QED
  BY <1>1, <1>9, <1>10, <1>11

\* The Modbus number m of function f lies in the register r.
Holds(r, m, f) == r.fn = f /\ r.mdb <= m /\ (m = r.mdb \/ m < r.mdb + r.bytes \div 2)

\* What is found in a table is a word of one of its registers.
LEMMA FoundIn ==
  ASSUME NEW i \in 0 .. (MaxTables - 1), NEW f, NEW m \in Nat, Lookup!PointerIn(i, f, m) # None
  PROVE  \E t \in Tables : \E j \in 1 .. Len(Desc[t]) :
           Holds(Desc[t][j], m, f) /\ Lookup!PointerIn(i, f, m) = Desc[t][j].addr + 2 * (m - Desc[t][j].mdb)
<1> DEFINE t == Full[i]
           n == IF t = None THEN 0 ELSE Len(Desc[t])
           hits == {j \in 0 .. (n - 1) : j < Len(Desc[t]) /\ Lookup!HoldsWord(f, m, Desc[t][j + 1])}
           above == {j \in 0 .. (n - 1) : j < Len(Desc[t]) /\ m > Desc[t][j + 1].mdb}
           b == Lookup!Bisect(n, hits, above)
<1>1. Lookup!PointerIn(i, f, m) = IF b = None THEN None ELSE Desc[t][b + 1].addr + 2 * (m - Desc[t][b + 1].mdb)
  BY DEF Lookup!PointerIn, Lookup!Hits, Lookup!Reg
<1>2. t # None => t \in Tables /\ n \in Nat
  BY Described DEF Full
<1>3. n \in Nat
  BY <1>2
<1> HIDE DEF n, hits, above, t
<1>4. b \in hits \cap (0 .. (n - 1))
  BY <1>1, <1>3, BisectHits
<1> HIDE DEF b
<1>5. t # None
  <2>1. n # 0
    BY <1>4
  <2> QED
    BY <2>1 DEF n
<1>6. b + 1 \in 1 .. Len(Desc[t]) /\ Lookup!HoldsWord(f, m, Desc[t][b + 1])
  BY <1>2, <1>4, <1>5 DEF n, hits
<1>7. Desc[t][b + 1] \in Lookup!Register
  BY <1>2, <1>5, <1>6, Described
<1>8. Holds(Desc[t][b + 1], m, f)
  BY <1>6, <1>7 DEF Holds, Lookup!HoldsWord, Lookup!Register
<1>9. Lookup!PointerIn(i, f, m) = Desc[t][b + 1].addr + 2 * (m - Desc[t][b + 1].mdb)
  BY <1>1
<1> QED
  BY <1>2, <1>5, <1>6, <1>8, <1>9

\* A pointer is that of a word of a register with that function.
LEMMA PointerFound ==
  ASSUME NEW m \in 0 .. (Words16 - 1), NEW f \in 0 .. 4, Pointer(m, f) # None
  PROVE  \E t \in Tables : \E j \in 1 .. Len(Desc[t]) :
           Holds(Desc[t][j], m, f) /\ Pointer(m, f) = Desc[t][j].addr + 2 * (m - Desc[t][j].mdb)
<1> DEFINE hits == {i \in 0 .. (Lookup!Counted - 1) : Lookup!PointerIn(i, f, m) # None}
           first == Lookup!Min(hits)
<1>1. m % Words16 = m /\ m \in Nat
  BY Described
<1>2. Pointer(m, f) = Lookup!PointerByModbus(m, f)
  BY <1>1 DEF Pointer, Pointers
<1>3. /\ hits = {} => Lookup!PointerByModbus(m, f) = None
      /\ hits # {} => Lookup!PointerByModbus(m, f) \in {None, Lookup!PointerIn(first, f, m)}
  BY DEF Lookup!PointerByModbus, Lookup!FirstFound
<1>4. hits \subseteq 0 .. (MaxTables - 1) /\ hits \subseteq Nat
  BY Described DEF Lookup!Counted
<1>5. first \in hits
  <2> HIDE DEF hits
  <2> QED
    BY <1>2, <1>3, <1>4, Least
<1>6. first \in 0 .. (MaxTables - 1) /\ Lookup!PointerIn(first, f, m) # None
  BY <1>4, <1>5
<1>7. Pointer(m, f) = Lookup!PointerIn(first, f, m)
  BY <1>2, <1>3, <1>5
<1> HIDE DEF first
<1> QED
  BY <1>1, <1>6, <1>7, FoundIn

-----------------------------------------------------------------------------
(* Writes of registers are requests of RegsSet                              *)

\* The numbers of a request, and the bytes of a write of registers.
LEMMA PduTyped ==
  ASSUME NEW p \in Pdus
  PROVE  /\ p.start \in 0 .. (Words16 - 1) /\ p.start \in Nat /\ p.num \in Nat /\ p.fn \in Nat
         /\ Len(p.data) \in Nat /\ p.whole \in BOOLEAN /\ p.mine \in BOOLEAN
         /\ Words16 \in Nat \ {0} /\ MaxRegs \in Nat /\ MaxReadCoils \in Nat /\ MaxWriteCoils \in Nat
<1>1. p \in PduType /\ Words16 \in Nat \ {0} /\ MaxRegs \in Nat /\ MaxReadCoils \in Nat /\ MaxWriteCoils \in Nat
  BY Described
<1> QED
  BY <1>1 DEF PduType

\* The pointer of a register that may be written leads to a word of it.
LEMMA WordFound ==
  ASSUME NEW m \in 0 .. (Words16 - 1), Pointer(m, 3) # None
  PROVE  /\ Pointer(m, 3) \in WordAddrs /\ Pointer(m, 3) \in Addr /\ Pointer(m, 3) + 1 \in Addr
         /\ Pointer(m, 3) \in Nat
         /\ (Pointer(m, 3) \in Writable <=> Pointer(m, 3) + 1 \in Writable)
<1>0. PICK t \in Tables : \E j \in 1 .. Len(Desc[t]) :
        Holds(Desc[t][j], m, 3) /\ Pointer(m, 3) = Desc[t][j].addr + 2 * (m - Desc[t][j].mdb)
  BY PointerFound
<1>1. PICK j \in 1 .. Len(Desc[t]) :
        Holds(Desc[t][j], m, 3) /\ Pointer(m, 3) = Desc[t][j].addr + 2 * (m - Desc[t][j].mdb)
  BY <1>0
<1> DEFINE r == Desc[t][j]
           k == m - r.mdb
<1>2. r \in Lookup!Register /\ r.bytes > 1 /\ r.fn = 3
  BY <1>1, Described DEF Holds
<1>3. \A b \in 0 .. (r.bytes - 1) : r.addr + b \in Addr /\ (r.addr + b \in Writable <=> r.addr \in Writable)
  BY <1>2, Described
<1>4. r.addr \in Nat /\ r.bytes \in Nat /\ r.mdb \in Nat /\ m \in Nat
  BY <1>2, Described DEF Lookup!Register
<1>5. k \in 0 .. (r.bytes \div 2 - 1) /\ 2 * k \in 0 .. (r.bytes - 1) /\ 2 * k + 1 \in 0 .. (r.bytes - 1)
  <2>1. r.mdb <= m /\ (m = r.mdb \/ m < r.mdb + r.bytes \div 2)
    BY <1>1 DEF Holds
  <2> HIDE DEF r
  <2> DEFINE n == r.bytes
             h == n \div 2
  <2>2. n \in Nat /\ n > 1
    BY <1>2, <1>4
  <2> HIDE DEF n
  <2>3. h \in Nat /\ h >= 1 /\ 2 * h <= n
    BY <2>2
  <2> HIDE DEF h
  <2>4. k \in Nat /\ k < h
    BY <1>4, <2>1, <2>3 DEF h, n
  <2>5. k \in 0 .. (h - 1) /\ 2 * k \in 0 .. (n - 1) /\ 2 * k + 1 \in 0 .. (n - 1)
    BY <2>2, <2>3, <2>4
  <2> QED
    BY <2>5 DEF h, n
<1>6. Pointer(m, 3) = r.addr + 2 * k
  BY <1>1
<1> HIDE DEF r, k
<1>7. r.addr + 2 * k \in Addr /\ r.addr + (2 * k + 1) \in Addr
      /\ (r.addr + 2 * k \in Writable <=> r.addr + (2 * k + 1) \in Writable)
  BY <1>3, <1>5
<1>8. (r.addr + 2 * k) + 1 = r.addr + (2 * k + 1) /\ r.addr + 2 * k \in Nat
  BY <1>4, <1>5
<1>9. r.addr + 2 * k \in WordAddrs
  BY <1>2, <1>5, <1>7 DEF WordAddrs, r
<1> QED
  BY <1>6, <1>7, <1>8, <1>9

\* A write of registers that is not refused is one of the requests.
LEMMA WriteIncluded ==
  ASSUME NEW p \in Pdus, p.fn \in {6, 16}, WriteError(p) = 0, NEW junk \in Byte
  PROVE  WriteTo(Pointer(p.start, 3), p, junk) \in Requests
<1>1. Pointer(p.start, 3) # None /\ (p.fn = 16 => RegsFit(p))
  BY DEF WriteError, ILLEGAL_DATA_VALUE, ILLEGAL_DATA_ADDRESS
<1>2. Pointer(p.start, 3) \in WordAddrs
  BY <1>1, PduTyped, WordFound
<1> QED
  BY <1>1, <1>2, Included

\* Every step of ModbusRequest is one of RegsSet or leaves the registers alone.
LEMMA StepAllowed == [MNext]_<<vars, mvars>> => [Next]_vars
<1> SUFFICES ASSUME [MNext]_<<vars, mvars>> PROVE [Next]_vars
  OBVIOUS
<1>1. ASSUME NEW p \in Pdus, Reject(p) \/ ReadBits(p) \/ ReadRegisters(p) \/ WriteRefused(p)
      PROVE  UNCHANGED vars
  BY <1>1 DEF Reject, ReadBits, ReadRegisters, WriteRefused, Answered
<1>2. ASSUME NEW p \in Pdus, NEW junk \in Byte, WriteCoil(p, junk) \/ WriteCoils(p, junk)
      PROVE  UNCHANGED vars
  BY <1>2 DEF WriteCoil, WriteCoils, Answered
<1>3. ASSUME NEW p \in Pdus, NEW junk \in Byte, WriteRegisters(p, junk)
      PROVE  Next
  <2>1. p.fn \in {6, 16} /\ WriteError(p) = 0 /\ Receive(WriteTo(Pointer(p.start, 3), p, junk))
    BY <1>3 DEF WriteRegisters, Accepted
  <2> QED
    BY <2>1, WriteIncluded DEF Next
<1>4. ASSUME NEW r \in Requests, WebWrite(r) PROVE Next
  BY <1>4 DEF WebWrite, Next
<1>5. CASE SetStep
  BY <1>5 DEF SetStep, Next
<1>6. CASE WriteDone
  BY <1>6 DEF WriteDone
<1>7. CASE UNCHANGED <<vars, mvars>>
  BY <1>7
<1> QED
  BY <1>1, <1>2, <1>3, <1>4, <1>5, <1>6, <1>7 DEF MNext

\* The writes of registers that Modbus and web requests make are those RegsSet allows.
THEOREM WritesAllowed == MSpec => WritesImplementRegsSet
<1>1. MInit => Init
  BY DEF MInit
<1> QED
  BY <1>1, StepAllowed, PTL DEF MSpec, WritesImplementRegsSet, Spec

\* What is proved of the byte buffer holds of the requests of all clients: bytes stay with
\* their item and are stored once, read only registers keep their values, limits hold, and a
\* request is stored as it was sent.  About modbus_rtu_packet and regs_set together.
THEOREM RequestsStoredRight ==
  MSpec => []OwnBytes /\ []FreshBytes /\ []StoredRight /\ ReadOnlyKept
  BY WritesAllowed, OwnBytesHolds, FreshBytesHolds, StoredRightHolds, ReadOnlyHolds
     DEF WritesImplementRegsSet

-----------------------------------------------------------------------------
(* Coils                                                                    *)

\* What is found by a coil function is the coil of that number, by function 1.
LEMMA CoilFound ==
  ASSUME NEW m \in 0 .. (Words16 - 1), NEW f \in 0 .. 2, Pointer(m, f) # None
  PROVE  /\ f = 1 /\ m \in CoilNumbers /\ m \in Nat /\ NumCoils \in Nat /\ FirstCoil \in Nat
         /\ Pointer(m, f) = FirstCoil + 2 * m
<1>0. PICK t \in Tables : \E j \in 1 .. Len(Desc[t]) :
        Holds(Desc[t][j], m, f) /\ Pointer(m, f) = Desc[t][j].addr + 2 * (m - Desc[t][j].mdb)
  BY PointerFound
<1>1. PICK j \in 1 .. Len(Desc[t]) :
        Holds(Desc[t][j], m, f) /\ Pointer(m, f) = Desc[t][j].addr + 2 * (m - Desc[t][j].mdb)
  BY <1>0
<1> DEFINE r == Desc[t][j]
           h == r.bytes \div 2
<1>2. /\ r \in Lookup!Register /\ r.bytes > 1 /\ r.fn = f
      /\ f = 1 /\ r.addr = FirstCoil + 2 * r.mdb /\ r.mdb + h <= NumCoils
      /\ FirstCoil \in Nat /\ NumCoils \in Nat /\ Words16 \in Nat
  BY <1>1, Described DEF Holds
<1>3. r.mdb \in Nat /\ r.bytes \in Nat /\ m \in Nat
  BY <1>2 DEF Lookup!Register
<1>4. r.mdb <= m /\ (m = r.mdb \/ m < r.mdb + h)
  BY <1>1 DEF Holds
<1>5. Pointer(m, f) = (FirstCoil + 2 * r.mdb) + 2 * (m - r.mdb)
  BY <1>1, <1>2
<1> DEFINE n == r.bytes
           d == r.mdb
<1>6. h \in Nat /\ h >= 1
  <2> HIDE DEF r
  <2>1. n \in Nat /\ n > 1
    BY <1>2, <1>3
  <2> HIDE DEF n
  <2>2. n \div 2 \in Nat /\ n \div 2 >= 1
    BY <2>1
  <2> QED
    BY <2>2 DEF n
<1> HIDE DEF r, h
<1>7. d \in Nat /\ d <= m /\ m < d + h /\ d + h <= NumCoils
  BY <1>2, <1>3, <1>4, <1>6
<1>8. Pointer(m, f) = (FirstCoil + 2 * d) + 2 * (m - d)
  BY <1>5
<1> HIDE DEF d
<1>9. (FirstCoil + 2 * d) + 2 * (m - d) = FirstCoil + 2 * m /\ m < NumCoils
  BY <1>2, <1>3, <1>6, <1>7
<1> QED
  BY <1>2, <1>3, <1>8, <1>9 DEF CoilNumbers

\* The coils of a range whose ends were found.
LEMMA RangeFound ==
  ASSUME NEW p \in Pdus, NEW f \in 0 .. 2, RangeExists(p, f),
         p.num # 0, p.num <= MaxReadCoils \/ p.num <= MaxWriteCoils
  PROVE  /\ f = 1 /\ p.start \in Nat /\ p.num \in Nat /\ FirstCoil \in Nat
         /\ Pointer(p.start, f) = FirstCoil + 2 * p.start
         /\ \A i \in 1 .. p.num : p.start + i - 1 \in CoilNumbers
<1> DEFINE s == p.start
           n == p.num
           e == s + n + Words16 - 1
<1>1. s \in 0 .. (Words16 - 1) /\ s \in Nat /\ n \in Nat /\ Words16 \in Nat \ {0}
      /\ MaxReadCoils \in Nat /\ MaxWriteCoils \in Nat
  BY PduTyped
<1>2. Pointer(s, f) # None /\ Pointer(e, f) # None
  BY DEF RangeExists
<1>3. f = 1 /\ s \in CoilNumbers /\ NumCoils \in Nat /\ FirstCoil \in Nat /\ Pointer(s, f) = FirstCoil + 2 * s
  BY <1>1, <1>2, CoilFound
<1>4. NumCoils + MaxReadCoils <= Words16 /\ NumCoils + MaxWriteCoils <= Words16
  BY Described
<1>5. n # 0 /\ (n <= MaxReadCoils \/ n <= MaxWriteCoils)
  OBVIOUS
<1> HIDE DEF s, n
<1>6. s < NumCoils /\ s + n <= Words16
  BY <1>1, <1>3, <1>4, <1>5 DEF CoilNumbers
<1>7. e % Words16 = s + n - 1 /\ s + n - 1 \in 0 .. (Words16 - 1)
  <2>1. s + n - 1 \in Nat /\ s + n - 1 < Words16 /\ e = Words16 * 1 + (s + n - 1)
    BY <1>1, <1>5, <1>6
  <2> HIDE DEF e
  <2>2. e % Words16 = s + n - 1
    BY <1>1, <2>1, DivUnique
  <2> QED
    BY <1>1, <2>1, <2>2
<1>8. Pointer(e, f) = Pointer(s + n - 1, f)
  <2>1. (s + n - 1) % Words16 = s + n - 1
    <3> DEFINE c == s + n - 1
    <3>1. c \in 0 .. (Words16 - 1)
      BY <1>7
    <3> HIDE DEF c
    <3>2. c % Words16 = c
      BY <1>1, <3>1
    <3> QED
      BY <3>2 DEF c
  <2> QED
    BY <1>7, <2>1 DEF Pointer
<1>9. s + n - 1 \in CoilNumbers
  BY <1>2, <1>7, <1>8, CoilFound
<1>10. \A i \in 1 .. n : s + i - 1 \in CoilNumbers
  BY <1>1, <1>3, <1>9 DEF CoilNumbers
<1> QED
  BY <1>1, <1>3, <1>10 DEF s, n

\* The coils and the bits after a write of the coils from number s.
LEMMA CoilsWritten ==
  ASSUME MTypeOK, CoilsKept, NEW s \in Nat, NEW values \in Seq(0 .. 1), NEW junk \in Byte,
         coil' = CoilsSet(FirstCoil + 2 * s, values, junk),
         bits' = [n \in CoilNumbers |->
                    IF s <= n /\ n < s + Len(values) THEN values[n - s + 1] ELSE bits[n]]
  PROVE  coil' \in [CoilAddr -> Byte] /\ bits' \in [CoilNumbers -> 0 .. 1] /\ CoilsKept'
<1> DEFINE first == FirstCoil + 2 * s
<1>0. /\ coil \in [CoilAddr -> Byte] /\ bits \in [CoilNumbers -> 0 .. 1] /\ Len(values) \in Nat
      /\ FirstCoil \in Nat /\ NumCoils \in Nat /\ 0 .. 1 \subseteq Byte
      /\ \A k \in 1 .. Len(values) : values[k] \in 0 .. 1
  BY Described, Layout DEF MTypeOK, Byte
<1>1. ASSUME NEW a \in CoilAddr, first <= a, a < first + 2 * Len(values), (a - first) % 2 = 0
      PROVE  (a - first) \div 2 + 1 \in 1 .. Len(values)
  <2> DEFINE d == a - first
  <2>1. d \in Nat /\ d < 2 * Len(values)
    BY <1>0, <1>1 DEF CoilAddr
  <2> HIDE DEF d
  <2> DEFINE n == Len(values)
             h == d \div 2
  <2>2. n \in Nat /\ d < 2 * n
    BY <1>0, <2>1
  <2> HIDE DEF n
  <2>3. h \in Nat /\ h < n
    BY <2>1, <2>2
  <2> HIDE DEF h
  <2>4. h + 1 \in 1 .. n
    BY <2>2, <2>3
  <2> QED
    BY <2>4 DEF d, n, h
<1>2. coil' \in [CoilAddr -> Byte]
  <2>1. \A a \in CoilAddr :
          (IF first <= a /\ a < first + 2 * Len(values)
             THEN IF (a - first) % 2 = 0 THEN values[(a - first) \div 2 + 1] ELSE junk
             ELSE coil[a]) \in Byte
    BY <1>0, <1>1
  <2> QED
    BY <2>1 DEF CoilsSet
<1>3. bits' \in [CoilNumbers -> 0 .. 1]
  <2>1. \A n \in CoilNumbers : (IF s <= n /\ n < s + Len(values) THEN values[n - s + 1] ELSE bits[n]) \in 0 .. 1
    BY <1>0 DEF CoilNumbers
  <2> QED
    BY <2>1
<1>4. ASSUME NEW n \in CoilNumbers PROVE coil'[FirstCoil + 2 * n] = bits'[n]
  <2> DEFINE a == FirstCoil + 2 * n
  <2>1. a \in CoilAddr /\ n \in Nat
    BY <1>0 DEF CoilAddr, CoilNumbers
  <2>2. coil'[a] = IF first <= a /\ a < first + 2 * Len(values)
                     THEN IF (a - first) % 2 = 0 THEN values[(a - first) \div 2 + 1] ELSE junk
                     ELSE coil[a]
    BY <2>1 DEF CoilsSet
  <2>3. coil[a] = bits[n]
    BY DEF CoilsKept
  <2>4. first <= a /\ a < first + 2 * Len(values) <=> s <= n /\ n < s + Len(values)
    BY <1>0, <2>1
  <2>5. ASSUME s <= n PROVE (a - first) % 2 = 0 /\ (a - first) \div 2 = n - s
    <3>1. a - first = 2 * (n - s) + 0 /\ n - s \in Nat
      BY <1>0, <2>1, <2>5
    <3> QED
      BY <3>1, DivUnique
  <2> HIDE DEF a
  <2>6. bits'[n] = IF s <= n /\ n < s + Len(values) THEN values[n - s + 1] ELSE bits[n]
    OBVIOUS
  <2>7. coil'[a] = bits'[n]
    BY <2>2, <2>3, <2>4, <2>5, <2>6
  <2> QED
    BY <2>7 DEF a
<1> QED
  BY <1>2, <1>3, <1>4 DEF CoilsKept

-----------------------------------------------------------------------------
(* The steps of ModbusRequest, one by one                                   *)

\* What every answer is.
LEMMA Answers ==
  /\ \A x : Answer(x).error = 0 /\ Answer(x).payload = x /\ Answer(x).sent = TRUE
  /\ \A c : Failure(c).error = c /\ Failure(c).payload = <<>> /\ Failure(c).sent = TRUE
  /\ NoReply.sent = FALSE /\ NoReply.error = 0 /\ NoReply.payload = <<>>
  /\ ILLEGAL_FUNCTION = 1 /\ ILLEGAL_DATA_ADDRESS = 2 /\ ILLEGAL_DATA_VALUE = 3
BY DEF Answer, Failure, NoReply, ILLEGAL_FUNCTION, ILLEGAL_DATA_ADDRESS, ILLEGAL_DATA_VALUE

\* The requests of the same kind share what they do.
LEMMA QuietStep ==
  ASSUME NEW p \in Pdus, Reject(p) \/ ReadBits(p) \/ ReadRegisters(p) \/ WriteRefused(p)
  PROVE  /\ Idle /\ pdu' = p /\ reply'.sent = TRUE /\ reply'.error \in 0 .. 3 /\ served' = served + 1
         /\ UNCHANGED <<vars, coil, wrote, bits>>
<1>1. CASE Reject(p)
  <2>1. reply' = [NoReply EXCEPT !.sent = TRUE] \/ reply' = Failure(ILLEGAL_FUNCTION)
    BY <1>1 DEF Reject
  <2>2. reply'.sent = TRUE /\ reply'.error \in 0 .. 3
    BY <2>1, Answers DEF NoReply
  <2> QED
    BY <1>1, <2>2 DEF Reject
<1>2. CASE ReadBits(p)
  <2>1. \E x : reply' \in {Failure(2), Failure(3), Answer(x)}
    BY <1>2, Answers DEF ReadBits, Answered
  <2> QED
    BY <1>2, <2>1, Answers DEF ReadBits, Answered, Accepted
<1>3. CASE ReadRegisters(p)
  <2>1. \E x : reply' \in {Failure(2), Failure(3), Answer(x)}
    BY <1>3, Answers DEF ReadRegisters, Answered
  <2> QED
    BY <1>3, <2>1, Answers DEF ReadRegisters, Answered, Accepted
<1>4. CASE WriteRefused(p)
  <2>1. reply' = Failure(WriteError(p)) /\ WriteError(p) \in 0 .. 3
    BY <1>4, Answers DEF WriteRefused, Answered, WriteError
  <2> QED
    BY <1>4, <2>1, Answers DEF WriteRefused, Answered, Accepted
<1> QED
  BY <1>1, <1>2, <1>3, <1>4

\* A coil by function 5: it takes the value of its number, or nothing changes.
LEMMA CoilStep ==
  ASSUME MTypeOK, CoilsKept, NEW p \in Pdus, NEW junk \in Byte, WriteCoil(p, junk)
  PROVE  /\ Idle /\ pdu' = p /\ reply'.sent = TRUE /\ reply'.error \in 0 .. 3 /\ served' = served + 1
         /\ UNCHANGED <<vars, wrote>>
         /\ coil' \in [CoilAddr -> Byte] /\ bits' \in [CoilNumbers -> 0 .. 1] /\ CoilsKept'
         /\ p.fn = 5
<1>1. /\ Accepted(p, {5})
      /\ Answered(IF Pointer(p.start, 1) = None THEN Failure(ILLEGAL_DATA_ADDRESS)
                  ELSE IF p.data \notin {<<0>>, <<1>>} THEN Failure(ILLEGAL_DATA_VALUE)
                  ELSE Answer(<<>>))
      /\ coil' = IF reply'.error = 0 THEN CoilsSet(Pointer(p.start, 1), p.data, junk) ELSE coil
      /\ Recorded5and15(p)
  BY DEF WriteCoil
<1>2. Idle /\ pdu' = p /\ p.fn = 5 /\ served' = served + 1 /\ UNCHANGED <<vars, wrote>>
  BY <1>1 DEF Accepted, Answered
<1>3. reply' \in {Failure(2), Failure(3), Answer(<<>>)}
  BY <1>1, Answers DEF Answered
<1>4. reply'.sent = TRUE /\ reply'.error \in 0 .. 3
  BY <1>3, Answers
<1>5. CASE reply'.error = 0
  <2>1. Pointer(p.start, 1) # None /\ p.data \in {<<0>>, <<1>>}
    BY <1>1, <1>5, Answers DEF Answered
  <2>2. p.data \in Seq(0 .. 1)
    <3>1. <<0>> \in Seq(0 .. 1) /\ <<1>> \in Seq(0 .. 1)
      OBVIOUS
    <3> QED
      BY <2>1, <3>1
  <2>3. Pointer(p.start, 1) = FirstCoil + 2 * p.start /\ p.start \in Nat
    BY <2>1, PduTyped, CoilFound
  <2>4. coil' = CoilsSet(FirstCoil + 2 * p.start, p.data, junk)
    BY <1>1, <1>5, <2>3
  <2>5. bits' = [n \in CoilNumbers |->
                   IF p.start <= n /\ n < p.start + Len(p.data) THEN p.data[n - p.start + 1] ELSE bits[n]]
    BY <1>1, <1>5 DEF Recorded5and15
  <2> QED
    BY <1>2, <1>4, <2>2, <2>3, <2>4, <2>5, CoilsWritten
<1>6. CASE reply'.error # 0
  <2>1. coil' = coil /\ bits' = [n \in CoilNumbers |-> bits[n]]
    BY <1>1, <1>6 DEF Recorded5and15
  <2>2. bits' = bits
    BY <2>1 DEF MTypeOK
  <2> QED
    BY <1>2, <1>4, <2>1, <2>2 DEF MTypeOK, CoilsKept
<1> QED
  BY <1>5, <1>6

\* Coils by function 15, which are all there if the answer is no error.
LEMMA CoilsStep ==
  ASSUME MTypeOK, CoilsKept, NEW p \in Pdus, NEW junk \in Byte, WriteCoils(p, junk)
  PROVE  /\ Idle /\ pdu' = p /\ reply'.sent = TRUE /\ reply'.error \in 0 .. 3 /\ served' = served + 1
         /\ UNCHANGED <<vars, wrote>>
         /\ coil' \in [CoilAddr -> Byte] /\ bits' \in [CoilNumbers -> 0 .. 1] /\ CoilsKept'
         /\ p.fn = 15 /\ (reply'.error = 0 => \A i \in 1 .. p.num : p.start + i - 1 \in CoilNumbers)
<1>1. /\ Accepted(p, {15})
      /\ Answered(IF ~RangeExists(p, 1) THEN Failure(ILLEGAL_DATA_ADDRESS)
                  ELSE IF ~CoilsFit(p) THEN Failure(ILLEGAL_DATA_VALUE)
                  ELSE Answer(<<>>))
      /\ coil' = IF reply'.error = 0 THEN CoilsSet(Pointer(p.start, 1), p.data, junk) ELSE coil
      /\ Recorded5and15(p)
  BY DEF WriteCoils
<1>2. Idle /\ pdu' = p /\ p.fn = 15 /\ served' = served + 1 /\ UNCHANGED <<vars, wrote>>
  BY <1>1 DEF Accepted, Answered
<1>3. reply' \in {Failure(2), Failure(3), Answer(<<>>)}
  BY <1>1, Answers DEF Answered
<1>4. reply'.sent = TRUE /\ reply'.error \in 0 .. 3
  BY <1>3, Answers
<1>5. CASE reply'.error = 0
  <2>1. RangeExists(p, 1) /\ CoilsFit(p)
    BY <1>1, <1>5, Answers DEF Answered
  <2>2. p.data \in Seq(0 .. 1)
    BY <1>2, Described
  <2>3. Pointer(p.start, 1) = FirstCoil + 2 * p.start /\ p.start \in Nat
        /\ \A i \in 1 .. p.num : p.start + i - 1 \in CoilNumbers
    BY <2>1, RangeFound DEF CoilsFit
  <2>4. coil' = CoilsSet(FirstCoil + 2 * p.start, p.data, junk)
    BY <1>1, <1>5, <2>3
  <2>5. bits' = [n \in CoilNumbers |->
                   IF p.start <= n /\ n < p.start + Len(p.data) THEN p.data[n - p.start + 1] ELSE bits[n]]
    BY <1>1, <1>5 DEF Recorded5and15
  <2> QED
    BY <1>2, <1>4, <2>2, <2>3, <2>4, <2>5, CoilsWritten
<1>6. CASE reply'.error # 0
  <2>1. coil' = coil /\ bits' = [n \in CoilNumbers |-> bits[n]]
    BY <1>1, <1>6 DEF Recorded5and15
  <2>2. bits' = bits
    BY <2>1 DEF MTypeOK
  <2> QED
    BY <1>2, <1>4, <1>6, <2>1, <2>2 DEF MTypeOK, CoilsKept
<1> QED
  BY <1>5, <1>6

\* The coils that are read are those of the numbers asked for.
LEMMA BitsRead ==
  ASSUME MTypeOK, CoilsKept, NEW p \in Pdus, ReadBits(p), reply'.error = 0
  PROVE  \A i \in 1 .. p.num : reply'.payload[i] = bits[p.start + i - 1]
<1> DEFINE coils == [i \in 1 .. p.num |-> CoilByte(Pointer(p.start, p.fn) + 2 * (i - 1)) % 2]
<1>1. /\ p.fn \in {0, 1, 2} /\ RangeExists(p, p.fn) /\ p.num # 0 /\ p.num <= MaxReadCoils
      /\ reply' = Answer(coils)
  <2>1. p.num \in Nat /\ MaxReadCoils \in Nat
    BY PduTyped
  <2> QED
    BY <2>1, Answers DEF ReadBits, Answered, Accepted
<1>2. /\ p.fn = 1 /\ p.start \in Nat /\ p.num \in Nat /\ FirstCoil \in Nat
      /\ Pointer(p.start, p.fn) = FirstCoil + 2 * p.start
      /\ \A i \in 1 .. p.num : p.start + i - 1 \in CoilNumbers
  BY <1>1, RangeFound
<1> TAKE i \in 1 .. p.num
<1> DEFINE n == p.start + i - 1
<1>3. reply'.payload[i] = CoilByte(Pointer(p.start, p.fn) + 2 * (i - 1)) % 2
  <2>1. coils[i] = CoilByte(Pointer(p.start, p.fn) + 2 * (i - 1)) % 2
    OBVIOUS
  <2> HIDE DEF coils
  <2>2. reply'.payload = coils
    BY <1>1, Answers
  <2> QED
    BY <2>1, <2>2
<1>4. (FirstCoil + 2 * p.start) + 2 * (i - 1) = FirstCoil + 2 * n /\ n \in CoilNumbers
  BY <1>2
<1> HIDE DEF n
<1>5. FirstCoil + 2 * n \in CoilAddr
  <2>1. NumCoils \in Nat
    BY Described
  <2> QED
    BY <1>2, <1>4, <2>1 DEF CoilNumbers, CoilAddr
<1>6. CoilByte(FirstCoil + 2 * n) = bits[n] /\ bits[n] \in 0 .. 1
  BY <1>4, <1>5 DEF CoilByte, CoilsKept, MTypeOK
<1>7. bits[n] % 2 = bits[n]
  BY <1>6
<1> QED
  BY <1>2, <1>3, <1>4, <1>6, <1>7 DEF n

\* The addresses of a request that stops were writable, as long as it goes well.
LEMMA PassedKeeps == WInv /\ Passed /\ [Next]_vars => Passed'
<1> SUFFICES ASSUME WInv, Passed, [Next]_vars PROVE Passed'
  OBVIOUS
<1>1. ASSUME NEW r \in Requests, Receive(r) PROVE Passed'
  <2>1. Done' = 0
    <3>1. Len(r.chunks) \in Nat
      BY ChunkAddrs
    <3> QED
      BY <1>1, <3>1 DEF Receive, Done
  <2> QED
    BY <2>1 DEF Passed
<1>2. CASE RegsSet /\ last # NoRequest /\ last.stops
  <2>1. /\ last \in Requests /\ InProgress /\ rest # <<>> /\ last' = last /\ rest \in Seq(Seq(Byte))
    BY <1>2, Going
  <2>2. /\ \A i \in 1 .. Done : ChunkAddr(last, i) \in Writable
        /\ addr = ChunkAddr(last, Done + 1) /\ Done \in Nat
    <3>1. Done \in Nat
      BY <2>1, NextChunk
    <3> QED
      BY <1>2, <2>1, <3>1 DEF Passed, Failed, InProgress
  <2>3. CASE RegsSetDenied
    BY <1>2, <2>1, <2>3 DEF RegsSetDenied, After, Passed, Failed
  <2>4. CASE RegsSetStore /\ Refused(addr, FilledData(addr, Head(rest)))
    BY <1>2, <2>1, <2>4 DEF RegsSetStore, After, Passed, Failed
  <2>5. CASE RegsSetCollect \/ (RegsSetStore /\ ~Refused(addr, FilledData(addr, Head(rest))))
    <3>1. addr \in Writable /\ rest' = Tail(rest) /\ addr' = addr + Len(Head(rest))
      BY <2>5 DEF RegsSetCollect, RegsSetStore, Access, After
    <3>2. Done' = Done + 1
      BY <2>1, <3>1, GoesOn
    <3>3. \A i \in 1 .. (Done + 1) : ChunkAddr(last, i) \in Writable
      BY <2>2, <3>1
    <3> QED
      BY <2>1, <3>2, <3>3 DEF Passed
  <2> QED
    BY <1>2, <2>3, <2>4, <2>5 DEF RegsSet
<1>3. CASE RegsSet /\ last = NoRequest
  <2>1. last' = NoRequest
    BY <1>3 DEF RegsSet, RegsSetDenied, RegsSetCollect, RegsSetStore
  <2>2. rest' \in Seq(Seq(Byte))
    BY NextKeeps DEF WInv, IInv, BufferOK
  <2>3. Done' = 0 - Len(rest') /\ Len(rest') \in Nat
    BY <2>1, <2>2 DEF Done, NoRequest
  <2>4. 1 .. Done' = {}
    BY <2>3
  <2> QED
    BY <2>4 DEF Passed
<1>4. CASE RegsSet /\ ~last.stops
  BY <1>4 DEF RegsSet, RegsSetDenied, RegsSetCollect, RegsSetStore, Passed
<1>5. CASE UNCHANGED vars
  <2>1. last' = last /\ rest' = rest /\ result' = result
    BY <1>5 DEF vars, request
  <2> QED
    BY <2>1 DEF Passed, Failed, Done
<1> QED
  BY <1>1, <1>2, <1>3, <1>4, <1>5 DEF Next

\* The chunks of a write of registers: one of two bytes, or the bytes one by one.
LEMMA WriteChunks ==
  ASSUME NEW p \in Pdus, NEW r, Writes(p, r)
  PROVE  /\ r \in Requests /\ r.addr = Pointer(p.start, 3) /\ r.stops = TRUE
         /\ Pointer(p.start, 3) \in Nat /\ Pointer(p.start, 3) \in Addr /\ Pointer(p.start, 3) + 1 \in Addr
         /\ (Pointer(p.start, 3) \in Writable <=> Pointer(p.start, 3) + 1 \in Writable)
         /\ p.fn = 6 => r.chunks = << Swapped(p.data) >> /\ p.num = 1 /\ Len(p.data) = 2
         /\ p.fn = 16 => /\ Len(r.chunks) = 2 * p.num /\ p.num \in Nat /\ p.num >= 1
                         /\ \E junk : LET all == [i \in 1 .. (2 * p.num) |-> IF i <= Len(p.data) THEN p.data[i] ELSE junk]
                                      IN \A i \in 1 .. (2 * p.num) : r.chunks[i] = <<Swapped(all)[i]>>
<1>1. PICK junk \in Byte : r = WriteTo(Pointer(p.start, 3), p, junk)
  BY DEF Writes
<1>2. p.fn \in {6, 16} /\ WriteError(p) = 0
  BY DEF Writes
<1>3. r \in Requests
  BY <1>1, <1>2, WriteIncluded
<1>4. Pointer(p.start, 3) # None /\ (p.fn = 16 => RegsFit(p))
  BY <1>2 DEF WriteError, ILLEGAL_DATA_VALUE, ILLEGAL_DATA_ADDRESS
<1>5. /\ Pointer(p.start, 3) \in Nat /\ Pointer(p.start, 3) \in Addr /\ Pointer(p.start, 3) + 1 \in Addr
      /\ (Pointer(p.start, 3) \in Writable <=> Pointer(p.start, 3) + 1 \in Writable)
  BY <1>4, PduTyped, WordFound
<1>6. r.addr = Pointer(p.start, 3) /\ r.stops = TRUE /\ r.chunks = Chunks(p, junk)
  BY <1>1 DEF WriteTo
<1>7. p.fn = 6 => r.chunks = << Swapped(p.data) >> /\ p.num = 1 /\ Len(p.data) = 2
  BY <1>6, Described DEF Chunks
<1>8. ASSUME p.fn = 16
      PROVE  /\ Len(r.chunks) = 2 * p.num /\ p.num \in Nat /\ p.num >= 1
             /\ \E j : LET all == [i \in 1 .. (2 * p.num) |-> IF i <= Len(p.data) THEN p.data[i] ELSE j]
                       IN \A i \in 1 .. (2 * p.num) : r.chunks[i] = <<Swapped(all)[i]>>
  <2> DEFINE all == [i \in 1 .. (2 * p.num) |-> IF i <= Len(p.data) THEN p.data[i] ELSE junk]
             n == 2 * p.num
  <2>1. r.chunks = [i \in 1 .. n |-> <<Swapped(all)[i]>>]
    BY <1>6, <1>8 DEF Chunks
  <2>2. p.num \in Nat /\ p.num >= 1 /\ n \in Nat
    BY <1>4, <1>8, PduTyped DEF RegsFit
  <2>3. Len(r.chunks) \in Nat /\ DOMAIN r.chunks = 1 .. Len(r.chunks)
    BY <1>3, ChunkAddrs
  <2>4. Len(r.chunks) = n
    <3>1. 1 .. Len(r.chunks) = 1 .. n
      BY <2>1, <2>3
    <3> DEFINE m == Len(r.chunks)
    <3>2. m \in Nat /\ 1 .. m = 1 .. n
      BY <2>3, <3>1
    <3> HIDE DEF m, n
    <3>3. m \in 0 .. n /\ n \in 0 .. m
      BY <2>2, <3>2
    <3> QED
      BY <2>2, <3>2, <3>3 DEF m
  <2>5. \A i \in 1 .. n : r.chunks[i] = <<Swapped(all)[i]>>
    BY <2>1
  <2> QED
    BY <2>2, <2>4, <2>5
<1> QED
  BY <1>3, <1>5, <1>6, <1>7, <1>8

\* Byte by byte, chunk k is for the k-th address.
LEMMA ByteAddrs ==
  ASSUME NEW p \in Pdus, NEW r, Writes(p, r), p.fn = 16
  PROVE  \A k \in 1 .. (2 * p.num) : ChunkAddr(r, k) = Pointer(p.start, 3) + k - 1 /\ Len(r.chunks[k]) = 1
<1> DEFINE n == 2 * p.num
           a == Pointer(p.start, 3)
<1>0. /\ r \in Requests /\ r.addr = a /\ a \in Nat /\ Len(r.chunks) = n /\ p.num \in Nat
      /\ \E e : \A i \in 1 .. n : r.chunks[i] = <<e[i]>>
  <2>1. /\ r \in Requests /\ r.addr = a /\ a \in Nat /\ Len(r.chunks) = 2 * p.num /\ p.num \in Nat
        /\ \E junk : LET all == [i \in 1 .. (2 * p.num) |-> IF i <= Len(p.data) THEN p.data[i] ELSE junk]
                     IN \A i \in 1 .. (2 * p.num) : r.chunks[i] = <<Swapped(all)[i]>>
    BY WriteChunks
  <2> QED
    BY <2>1
<1>1. r \in Requests /\ r.addr = a /\ a \in Nat /\ Len(r.chunks) = n /\ n \in Nat
  BY <1>0
<1>2. \A k \in 1 .. n : Len(r.chunks[k]) = 1
  <2>1. PICK e : \A i \in 1 .. n : r.chunks[i] = <<e[i]>>
    BY <1>0
  <2> TAKE k \in 1 .. n
  <2>2. r.chunks[k] = <<e[k]>>
    BY <2>1
  <2>3. \A x : Len(<<x>>) = 1
    OBVIOUS
  <2> QED
    BY <2>2, <2>3
<1>3. ChunkAddr(r, 1) = a /\ \A k \in 1 .. n : ChunkAddr(r, k + 1) = ChunkAddr(r, k) + Len(r.chunks[k])
  BY <1>1, ChunkAddrs
<1> HIDE DEF n, a
<1> DEFINE S == {k \in Nat : k < n => ChunkAddr(r, k + 1) = a + k}
<1>4. 0 \in S
  BY <1>1, <1>3
<1>5. ASSUME NEW k \in Nat, k \in S PROVE k + 1 \in S
  <2> SUFFICES ASSUME k + 1 < n PROVE ChunkAddr(r, (k + 1) + 1) = a + (k + 1)
    OBVIOUS
  <2>1. ChunkAddr(r, k + 1) = a + k /\ k + 1 \in 1 .. n
    BY <1>1, <1>5
  <2>2. ChunkAddr(r, (k + 1) + 1) = (a + k) + 1
    BY <1>2, <1>3, <2>1
  <2> QED
    BY <1>1, <2>2
<1>6. S = Nat
  <2> HIDE DEF S
  <2>1. S \subseteq Nat
    BY DEF S
  <2> QED
    BY <1>4, <1>5, <2>1, SetInduction
<1>7. ASSUME NEW k \in 1 .. n PROVE ChunkAddr(r, k) = a + k - 1
  <2>1. k - 1 \in Nat /\ k - 1 < n /\ (k - 1) + 1 = k
    BY <1>1
  <2>2. ChunkAddr(r, k) = a + (k - 1)
    BY <1>6, <2>1
  <2> QED
    BY <1>1, <2>2
<1> QED
  BY <1>2, <1>7 DEF n, a

\* The bytes of a write of registers.
Bytes(p) == Range(p.start, IF p.fn = 6 THEN 1 ELSE p.num)

\* A write that went through was of writable bytes.
LEMMA RangeWritable ==
  ASSUME WInv, Passed, NEW p \in Pdus, Writes(p, last), rest = <<>>, result = "true"
  PROVE  Bytes(p) \subseteq Writable
<1> DEFINE a == Pointer(p.start, 3)
<1>1. /\ last \in Requests /\ last.stops = TRUE /\ last.addr = a /\ a \in Nat /\ p.fn \in {6, 16}
      /\ (a \in Writable <=> a + 1 \in Writable)
  BY WriteChunks DEF Writes
<1>2. Len(last.chunks) \in Nat /\ ChunkAddr(last, 1) = a
  BY <1>1, ChunkAddrs
<1>3. Done = Len(last.chunks)
  BY <1>2 DEF Done
<1>4. \A i \in 1 .. Len(last.chunks) : ChunkAddr(last, i) \in Writable
  BY <1>1, <1>3 DEF Passed, Failed
<1>5. CASE p.fn = 6
  <2>1. Len(last.chunks) = 1
    <3>1. last.chunks = << Swapped(p.data) >>
      BY <1>5, WriteChunks
    <3> QED
      BY <3>1
  <2>2. a \in Writable /\ a + 1 \in Writable
    BY <1>1, <1>2, <1>4, <2>1
  <2>3. Bytes(p) = a .. (a + 2 * 1 - 1)
    BY <1>5 DEF Bytes, Range
  <2> HIDE DEF a
  <2>4. \A b \in Bytes(p) : b = a \/ b = a + 1
    BY <1>1, <2>3
  <2> QED
    BY <2>2, <2>4
<1>6. CASE p.fn = 16
  <2> DEFINE n == 2 * p.num
  <2>1. Len(last.chunks) = n /\ n \in Nat
    <3>1. Len(last.chunks) = 2 * p.num /\ p.num \in Nat
      BY <1>6, WriteChunks
    <3> QED
      BY <3>1
  <2>2. \A k \in 1 .. n : ChunkAddr(last, k) = a + k - 1
    BY <1>6, ByteAddrs
  <2>3. Bytes(p) = a .. (a + n - 1)
    BY <1>6 DEF Bytes, Range
  <2> HIDE DEF a, n
  <2>4. ASSUME NEW b \in Bytes(p) PROVE b \in Writable
    <3>1. b - a + 1 \in 1 .. n /\ a + (b - a + 1) - 1 = b
      BY <1>1, <2>1, <2>3
    <3> QED
      BY <1>4, <2>1, <2>2, <3>1
  <2> QED
    BY <2>4
<1> QED
  BY <1>1, <1>5, <1>6

-----------------------------------------------------------------------------
(* Reading back                                                             *)

\* A number of n bytes is smaller than the n-th power, and has these bytes.
LEMMA DigitsBack ==
  ASSUME NEW d, NEW n \in 0 .. MaxSize, \A i \in 0 .. (n - 1) : d[i] \in Byte
  PROVE  /\ Number(d, n) < Power[n]
         /\ \A i \in 0 .. (n - 1) : (Number(d, n) \div Power[i]) % Base = d[i]
<1> DEFINE v == Number(d, n)
           e == [i \in 0 .. n |-> (v \div Power[i]) % Base]
<1>0. n \in Nat /\ MaxSize \in Nat /\ Base \in Nat \ {0} /\ \A i \in 0 .. (n - 1) : d[i] \in Nat /\ d[i] < Base
  BY Layout DEF Byte
<1>1. ASSUME NEW x, \A i \in 0 .. (n - 1) : x[i] \in Nat /\ x[i] < Base,
             NEW f, f[0] = 0, \A i \in 1 .. n : f[i] = f[i - 1] + x[i - 1] * Power[i - 1]
      PROVE  \A k \in 0 .. n : f[k] \in Nat /\ f[k] < Power[k]
  <2> DEFINE S == {k \in Nat : k <= n => f[k] \in Nat /\ f[k] < Power[k]}
  <2>1. 0 \in S
    BY <1>1, PowerStep
  <2>2. ASSUME NEW k \in Nat, k \in S PROVE k + 1 \in S
    <3> SUFFICES ASSUME k + 1 <= n PROVE f[k + 1] \in Nat /\ f[k + 1] < Power[k + 1]
      OBVIOUS
    <3> DEFINE p == Power[k]
               y == x[k]
               g == f[k]
    <3>1. k + 1 \in 1 .. n /\ k \in 0 .. (n - 1) /\ k + 1 - 1 = k /\ k + 1 \in 1 .. MaxSize /\ k \in 0 .. MaxSize
      BY <1>0
    <3>2. f[k + 1] = g + y * p
      BY <1>1, <3>1
    <3>3. p \in Nat \ {0} /\ Power[k + 1] = Base * p
      BY <3>1, PowerStep
    <3>4. y \in Nat /\ y < Base /\ g \in Nat /\ g < p
      BY <1>0, <1>1, <2>2, <3>1
    <3> HIDE DEF p, y, g
    <3>5. y * p \in Nat /\ (y + 1) * p <= Base * p /\ (y + 1) * p = y * p + p
      <4>1. y + 1 <= Base
        BY <1>0, <3>4
      <4>2. (y + 1) * p <= Base * p
        BY <1>0, <3>3, <3>4, <4>1
      <4> QED
        BY <3>3, <3>4, <4>2
    <3>6. Base * p \in Nat
      BY <1>0, <3>3
    <3>7. g + y * p \in Nat /\ g + y * p < Base * p
      BY <3>3, <3>4, <3>5, <3>6
    <3> QED
      BY <3>2, <3>3, <3>7
  <2>3. S = Nat
    <3> HIDE DEF S
    <3>1. S \subseteq Nat
      BY DEF S
    <3> QED
      BY <2>1, <2>2, <3>1, SetInduction
  <2> QED
    BY <1>0, <2>3
<1>2. PICK f : /\ v = f[n] /\ f[0] = 0
               /\ \A i \in 1 .. n : f[i] = f[i - 1] + d[i - 1] * Power[i - 1]
  BY <1>0, NumberSums
<1>3. \A k \in 0 .. n : f[k] \in Nat /\ f[k] < Power[k]
  BY <1>0, <1>1, <1>2
<1>4. v \in Nat /\ v < Power[n]
  BY <1>0, <1>2, <1>3
<1> HIDE DEF v
<1>5. \A i \in 0 .. (n - 1) : e[i] = (v \div Power[i]) % Base /\ e[i] \in Nat /\ e[i] < Base
  <2> TAKE i \in 0 .. (n - 1)
  <2> DEFINE q == v \div Power[i]
  <2>1. Power[i] \in Nat \ {0}
    BY <1>0, PowerStep
  <2>2. q \in Nat
    BY <1>4, <2>1, DivMod
  <2>3. e[i] = q % Base
    BY <1>0
  <2> HIDE DEF q, e
  <2>4. q % Base \in 0 .. (Base - 1)
    BY <1>0, <2>2, DivMod
  <2>5. e[i] \in Nat /\ e[i] < Base
    BY <1>0, <2>3, <2>4
  <2> QED
    BY <2>3, <2>5 DEF q
<1> HIDE DEF e
<1>6. Number(e, n) = v
  BY <1>4, <1>5, Digits
<1>7. PICK g : /\ v = g[n] /\ g[0] = 0
               /\ \A i \in 1 .. n : g[i] = g[i - 1] + e[i - 1] * Power[i - 1]
  BY <1>5, <1>6, NumberSums
<1>8. \A k \in 0 .. n : g[k] \in Nat /\ g[k] < Power[k]
  BY <1>0, <1>1, <1>5, <1>7
\* Two numbers that are equal have equal highest bytes and equal rests.
<1>9. ASSUME NEW k \in 0 .. (n - 1), f[k + 1] = g[k + 1]
      PROVE  f[k] = g[k] /\ d[k] = e[k]
  <2> DEFINE p == Power[k]
  <2>1. k + 1 \in 1 .. n /\ k + 1 - 1 = k /\ k \in 0 .. n /\ k \in 0 .. MaxSize
    BY <1>0
  <2>2. f[k + 1] = f[k] + d[k] * p /\ g[k + 1] = g[k] + e[k] * p
    BY <1>2, <1>7, <2>1
  <2>3. f[k] \in Nat /\ f[k] < p /\ g[k] \in Nat /\ g[k] < p /\ d[k] \in Nat /\ e[k] \in Nat
    BY <1>0, <1>3, <1>5, <1>8, <2>1
  <2>4. p \in Nat \ {0}
    BY <2>1, PowerStep
  <2> HIDE DEF p
  <2>5. f[k + 1] = p * d[k] + f[k] /\ g[k + 1] = p * e[k] + g[k]
    BY <2>2, <2>3, <2>4
  <2>6. (p * d[k] + f[k]) \div p = d[k] /\ (p * d[k] + f[k]) % p = f[k]
    BY <2>3, <2>4, DivUnique
  <2>7. (p * e[k] + g[k]) \div p = e[k] /\ (p * e[k] + g[k]) % p = g[k]
    BY <2>3, <2>4, DivUnique
  <2> QED
    BY <1>9, <2>5, <2>6, <2>7
<1> DEFINE T == {k \in Nat : k <= n => f[n - k] = g[n - k]}
<1>10. 0 \in T
  <2>1. n - 0 = n /\ f[n] = g[n]
    BY <1>0, <1>2, <1>7
  <2> QED
    BY <2>1
<1>11. ASSUME NEW k \in Nat, k \in T PROVE k + 1 \in T
  <2> SUFFICES ASSUME k + 1 <= n PROVE f[n - (k + 1)] = g[n - (k + 1)]
    OBVIOUS
  <2> DEFINE m == n - (k + 1)
  <2>1. m \in 0 .. (n - 1) /\ m + 1 = n - k
    BY <1>0
  <2>2. f[n - k] = g[n - k]
    BY <1>0, <1>11
  <2> HIDE DEF m
  <2>3. f[m + 1] = g[m + 1]
    BY <2>1, <2>2
  <2>4. f[m] = g[m]
    BY <1>9, <2>1, <2>3
  <2> QED
    BY <2>4 DEF m
<1>12. T = Nat
  <2> HIDE DEF T
  <2>1. T \subseteq Nat
    BY DEF T
  <2> QED
    BY <1>10, <1>11, <2>1, SetInduction
<1>13. \A i \in 0 .. (n - 1) : d[i] = e[i]
  <2> TAKE i \in 0 .. (n - 1)
  <2> DEFINE k == n - (i + 1)
  <2>1. k \in Nat /\ k <= n /\ n - k = i + 1
    BY <1>0
  <2> HIDE DEF k
  <2>2. f[n - k] = g[n - k]
    BY <1>12, <2>1
  <2>3. f[i + 1] = g[i + 1]
    BY <2>1, <2>2
  <2> QED
    BY <1>9, <2>3
<1> QED
  BY <1>4, <1>5, <1>13 DEF v

\* htons_buff twice gives the bytes back.
LEMMA SwappedTwice ==
  ASSUME NEW n \in Nat, NEW x, DOMAIN x = 1 .. (2 * n), Len(x) = 2 * n
  PROVE  \A y : /\ y = [i \in 1 .. (2 * n) |-> Swapped(x)[i]]
                => \A i \in 1 .. (2 * n) : (IF i % 2 = 1 THEN y[i + 1] ELSE y[i - 1]) = x[i]
<1> TAKE y
<1> HAVE y = [i \in 1 .. (2 * n) |-> Swapped(x)[i]]
<1>1. \A i \in 1 .. (2 * n) : Swapped(x)[i] = IF i % 2 = 1 THEN x[i + 1] ELSE x[i - 1]
  BY DEF Swapped
<1> TAKE i \in 1 .. (2 * n)
<1>2. CASE i % 2 = 1
  <2>1. i + 1 \in 1 .. (2 * n) /\ (i + 1) % 2 = 0 /\ (i + 1) - 1 = i
    BY <1>2
  <2>2. y[i + 1] = x[i]
    BY <1>1, <2>1
  <2> QED
    BY <1>2, <2>2
<1>3. CASE i % 2 # 1
  <2>1. i - 1 \in 1 .. (2 * n) /\ (i - 1) % 2 = 1 /\ (i - 1) + 1 = i
    BY <1>3
  <2>2. y[i - 1] = x[i]
    BY <1>1, <2>1
  <2> QED
    BY <1>3, <2>2
<1> QED
  BY <1>2, <1>3

\* A sequence is a function on the numbers up to its length.
LEMMA SeqFunction ==
  ASSUME NEW S, NEW w \in Seq(S)
  PROVE  Len(w) \in Nat /\ DOMAIN w = 1 .. Len(w) /\ w = [j \in 1 .. Len(w) |-> w[j]]
OBVIOUS

LEMMA SeqLength ==
  ASSUME NEW S, NEW w \in Seq(S), NEW n \in Nat, DOMAIN w = 1 .. n
  PROVE  Len(w) = n
<1> DEFINE m == Len(w)
<1>1. m \in Nat /\ 1 .. m = 1 .. n
  BY SeqFunction
<1> HIDE DEF m
<1>2. CASE m < n
  <2>1. m + 1 \in 1 .. n /\ m + 1 \notin 1 .. m
    BY <1>1, <1>2
  <2> QED
    BY <1>1, <2>1
<1>3. CASE n < m
  <2>1. n + 1 \in 1 .. m /\ n + 1 \notin 1 .. n
    BY <1>1, <1>3
  <2> QED
    BY <1>1, <2>1
<1>4. m = n
  BY <1>1, <1>2, <1>3
<1> QED
  BY <1>4 DEF m

\* The byte of a write of registers for its i-th address is its own.
LEMMA SentAt ==
  ASSUME NEW p \in Pdus, NEW r, Writes(p, r), Len(p.data) = 2 * p.num, OneItem(p),
         Bytes(p) \subseteq Addr, NEW i \in 1 .. (2 * p.num)
  PROVE  LET b == Pointer(p.start, 3) + i - 1 IN
         /\ b \in Bytes(p) /\ b \in Nat /\ ChunksFor(r, b) # {}
         /\ SentByte(r, b) = Swapped(p.data)[i] /\ SentByte(r, b) \in Byte
<1> DEFINE a == Pointer(p.start, 3)
           b == a + i - 1
<1>1. r \in Requests /\ r.addr = a /\ a \in Nat /\ p.fn \in {6, 16}
  BY WriteChunks DEF Writes
<1>2. /\ r.chunks \in Seq(Seq(Byte)) /\ Len(r.chunks) \in Nat /\ DOMAIN r.chunks = 1 .. Len(r.chunks)
      /\ \A k \in 1 .. Len(r.chunks) : r.chunks[k] \in Seq(Byte)
  <2>1. r.chunks \in Seq(Seq(Byte)) /\ Len(r.chunks) \in Nat
    BY <1>1, ChunkAddrs
  <2> QED
    BY <1>1, <2>1, ChunkAddrs
<1>3. CASE p.fn = 6
  <2>1. r.chunks = << Swapped(p.data) >> /\ p.num = 1 /\ Len(p.data) = 2 /\ ChunkAddr(r, 1) = a
    BY <1>1, <1>3, WriteChunks, ChunkAddrs
  <2>2. i \in 1 .. 2 /\ Len(r.chunks) = 1 /\ r.chunks[1] = Swapped(p.data) /\ 1 \in DOMAIN r.chunks
    BY <2>1
  <2>3. Bytes(p) = a .. (a + 2 * 1 - 1)
    BY <1>3 DEF Bytes, Range
  <2>4. Start[a] = Start[a + 1]
    BY <1>3 DEF OneItem
  <2> HIDE DEF a
  <2>5. b \in Bytes(p) /\ b \in Nat /\ a \in Bytes(p) /\ a <= b /\ b < a + 2 /\ (b = a \/ b = a + 1)
    BY <1>1, <2>2, <2>3
  <2>6. Start[a] = Start[b]
    BY <2>4, <2>5
  <2>7. Swapped(p.data) \in Seq(Byte) /\ Len(Swapped(p.data)) = 2
    <3>1. Swapped(p.data) \in Seq(Byte)
      BY <1>2, <2>2
    <3>2. DOMAIN Swapped(p.data) = 1 .. 2
      BY <2>1 DEF Swapped
    <3>3. 2 \in Nat
      OBVIOUS
    <3> QED
      BY <3>1, <3>2, <3>3, SeqLength
  <2>8. 1 \in ChunksFor(r, b)
    BY <2>1, <2>2, <2>5, <2>6, <2>7 DEF ChunksFor
  <2>9. SentByte(r, b) = r.chunks[1][b - a + 1]
    BY <1>1, <2>1, <2>5, <2>8, SentIs
  <2>10. b - a + 1 = i
    BY <1>1, <2>2
  <2>11. SentByte(r, b) = Swapped(p.data)[i] /\ Swapped(p.data)[i] \in Byte
    BY <2>2, <2>7, <2>9, <2>10
  <2> QED
    BY <2>5, <2>8, <2>11 DEF a
<1>4. CASE p.fn = 16
  <2> DEFINE n == 2 * p.num
  <2>0. PICK junk : LET all == [j \in 1 .. n |-> IF j <= Len(p.data) THEN p.data[j] ELSE junk]
                    IN \A j \in 1 .. n : r.chunks[j] = <<Swapped(all)[j]>>
    BY <1>4, WriteChunks
  <2> DEFINE all == [j \in 1 .. n |-> IF j <= Len(p.data) THEN p.data[j] ELSE junk]
  <2>1. p.num \in Nat /\ n \in Nat /\ Len(r.chunks) = n /\ i \in 1 .. n /\ Len(p.data) = n
    <3>1. p.num \in Nat /\ Len(r.chunks) = 2 * p.num
      BY <1>4, WriteChunks
    <3> QED
      BY <3>1
  <2>2. ChunkAddr(r, i) = b /\ Len(r.chunks[i]) = 1
    BY <1>4, ByteAddrs
  <2>3. r.chunks[i] = <<Swapped(all)[i]>>
    BY <2>0
  <2>4. Bytes(p) = a .. (a + n - 1)
    BY <1>4 DEF Bytes, Range
  <2>5. all = p.data
    <3>1. p.data \in Seq(Byte)
      BY <1>4, Described
    <3>2. DOMAIN p.data = 1 .. n /\ p.data = [j \in 1 .. n |-> p.data[j]]
      BY <2>1, <3>1, SeqFunction
    <3>3. all = [j \in 1 .. n |-> p.data[j]]
      BY <2>1
    <3> QED
      BY <3>2, <3>3
  <2> HIDE DEF a, n, all
  <2>6. b \in Bytes(p) /\ b \in Nat
    BY <1>1, <2>1, <2>4
  <2>7. i \in DOMAIN r.chunks
    BY <1>2, <2>1
  <2> HIDE DEF b
  <2>8. i \in ChunksFor(r, b)
    <3>1. b \in Addr /\ b <= b /\ b < b + 1
      BY <2>6
    <3> QED
      BY <2>2, <2>7, <3>1 DEF ChunksFor
  <2>9. SentByte(r, b) = r.chunks[i][b - b + 1]
    BY <1>1, <2>2, <2>6, <2>8, SentIs
  <2>10. b - b + 1 = 1
    BY <2>6
  <2>11. SentByte(r, b) = r.chunks[i][1]
    BY <2>9, <2>10
  <2>12. r.chunks[i] \in Seq(Byte) /\ r.chunks[i][1] = Swapped(p.data)[i]
    <3>1. r.chunks[i] \in Seq(Byte)
      BY <1>2, <2>1
    <3>2. \A x : <<x>>[1] = x
      OBVIOUS
    <3> QED
      BY <2>3, <2>5, <3>1, <3>2
  <2>13. r.chunks[i][1] \in Byte
    BY <2>2, <2>12
  <2> QED
    BY <2>6, <2>8, <2>11, <2>12, <2>13 DEF a, b
<1> QED
  BY <1>1, <1>3, <1>4

\* A sequence that was swapped once and stored comes back with the second swap.
LEMMA SwappedBack ==
  ASSUME NEW n \in Nat, NEW x \in Seq(Byte), Len(x) = 2 * n,
         NEW y, y = [i \in 1 .. (2 * n) |-> Swapped(x)[i]]
  PROVE  Swapped(y) = x
<1> DEFINE m == 2 * n
<1>1. m \in Nat /\ Len(x) = m
  OBVIOUS
<1>2. DOMAIN x = 1 .. m /\ x = [i \in 1 .. m |-> x[i]] /\ \A i \in 1 .. m : x[i] \in Byte
  BY <1>1, SeqFunction
<1>3. \A i \in 1 .. m : Swapped(x)[i] \in Byte
  <2>1. \A i \in 1 .. m : Swapped(x)[i] = IF i % 2 = 1 THEN x[i + 1] ELSE x[i - 1]
    BY <1>1 DEF Swapped
  <2>2. \A i \in 1 .. m : (i % 2 = 1 => i + 1 \in 1 .. m) /\ (i % 2 # 1 => i - 1 \in 1 .. m)
    OBVIOUS
  <2> QED
    BY <1>2, <2>1, <2>2
<1>4. Len(y) = m
  <2>1. y \in Seq(Byte) /\ DOMAIN y = 1 .. m
    <3> HIDE DEF m
    <3> DEFINE z == [i \in 1 .. m |-> Swapped(x)[i]]
    <3>1. z \in Seq(Byte) /\ DOMAIN z = 1 .. m
      BY <1>1, <1>3
    <3>2. y = z
      BY DEF m
    <3> QED
      BY <3>1, <3>2
  <2> HIDE DEF m
  <2> QED
    BY <1>1, <2>1, SeqLength
<1>5. \A i \in 1 .. m : (IF i % 2 = 1 THEN y[i + 1] ELSE y[i - 1]) = x[i]
  <2>1. DOMAIN x = 1 .. (2 * n)
    BY <1>2
  <2>2. \A z : /\ z = [i \in 1 .. (2 * n) |-> Swapped(x)[i]]
               => \A i \in 1 .. (2 * n) : (IF i % 2 = 1 THEN z[i + 1] ELSE z[i - 1]) = x[i]
    BY <2>1, SwappedTwice
  <2>3. \A i \in 1 .. (2 * n) : (IF i % 2 = 1 THEN y[i + 1] ELSE y[i - 1]) = x[i]
    BY <2>2
  <2> QED
    BY <2>3
<1>6. Swapped(y) = [i \in 1 .. m |-> IF i % 2 = 1 THEN y[i + 1] ELSE y[i - 1]]
  BY <1>4 DEF Swapped
<1> HIDE DEF m
<1> QED
  BY <1>2, <1>5, <1>6

\* Memory holds the bytes of a write of whole items without limits or symbols.
LEMMA StoredBytes ==
  ASSUME WInv, NEW p \in Pdus, Writes(p, last), rest = <<>>, result = "true",
         Len(p.data) = 2 * p.num, OneItem(p), Bytes(p) \subseteq Writable,
         PlainItems(Bytes(p)), held \notin Bytes(p), NEW i \in 1 .. (2 * p.num)
  PROVE  mem[Pointer(p.start, 3) + i - 1] = Swapped(p.data)[i]
<1> DEFINE a == Pointer(p.start, 3)
           b == a + i - 1
           s == Start[b]
           bytes == [o \in Offset |-> IF o < Size[s] THEN SentByte(last, s + o) ELSE 0]
<1>1. Bytes(p) \subseteq Addr
  BY Layout
<1>2. /\ last \in Requests /\ last.stops = TRUE /\ a \in Nat /\ p.fn \in {6, 16} /\ p.num \in Nat
      /\ last # NoRequest
  <2>1. last \in Requests /\ last.stops = TRUE /\ a \in Nat /\ last.addr \in Nat
    BY WriteChunks, ChunkAddrs
  <2>2. last # NoRequest
    <3>1. last.addr \in Addr
      BY <2>1, WriteChunks
    <3> QED
      BY <3>1, Layout DEF NoRequest
  <2> QED
    BY <2>1, <2>2, PduTyped DEF Writes
<1>3. Bytes(p) = a .. (a + 2 * p.num - 1)
  <2>1. p.fn = 6 => p.num = 1
    BY Described
  <2> QED
    BY <2>1 DEF Bytes, Range
<1>4. \A j \in 1 .. (2 * p.num) :
        /\ a + j - 1 \in Bytes(p) /\ ChunksFor(last, a + j - 1) # {}
        /\ SentByte(last, a + j - 1) = Swapped(p.data)[j] /\ SentByte(last, a + j - 1) \in Byte
  BY <1>1, SentAt
<1>5. \A c \in Bytes(p) : ChunksFor(last, c) # {} /\ SentByte(last, c) \in Byte
  <2> TAKE c \in Bytes(p)
  <2> DEFINE n == 2 * p.num
  <2>2. n \in Nat /\ a \in Nat /\ c \in a .. (a + n - 1)
    BY <1>2, <1>3
  <2> HIDE DEF a, n
  <2>3. c - a + 1 \in 1 .. n /\ a + (c - a + 1) - 1 = c
    BY <2>2
  <2>1. c - a + 1 \in 1 .. (2 * p.num) /\ a + (c - a + 1) - 1 = c
    BY <2>3 DEF n
  <2> QED
    BY <1>4, <2>1
<1>6. b \in Bytes(p) /\ b \in Addr /\ b \in Writable
  BY <1>1, <1>4
<1> HIDE DEF b, a
<1>7. s \in Addr /\ Start[s] = s /\ Size[s] = Size[b] /\ Size[s] \in 1 .. MaxSize /\ MaxSize \in Nat
      /\ b - s \in 0 .. (Size[s] - 1) /\ s \in Nat /\ b \in Nat
  BY <1>6, Place
<1>8. /\ \A o \in 0 .. (Size[s] - 1) : s + o \in Bytes(p)
      /\ b \notin Text /\ Lowest[b] = 0 /\ Highest[b] = Power[Size[b]] - 1
  BY <1>6, <1>7 DEF PlainItems
<1> HIDE DEF s
<1>9. Start[b] = s
  BY DEF s
<1>10. s \notin Text /\ Lowest[s] = 0 /\ Highest[s] = Power[Size[s]] - 1
  BY <1>6, <1>7, <1>8, <1>9, InItem
<1>11. s \in Bytes(p) /\ s \in Writable
  <2>1. 0 \in 0 .. (Size[s] - 1) /\ s + 0 = s
    BY <1>7
  <2> QED
    BY <1>8, <2>1
<1>12. SentWhole(s)
  BY <1>2, <1>5, <1>7, <1>8, <1>11 DEF SentWhole
<1>13. s # held
  BY <1>11
<1>14. WholeWriteStored
  BY WholeItems
<1>15. StoredAsSent(s)
  BY <1>7, <1>12, <1>13, <1>14 DEF WholeWriteStored
<1>16. \A o \in 0 .. (Size[s] - 1) : mem[s + o] = Checked(s, bytes)[o]
  BY <1>10, <1>15 DEF StoredAsSent, Refused
<1>17. bytes \in [Offset -> Byte] /\ \A o \in 0 .. (Size[s] - 1) : bytes[o] = SentByte(last, s + o) /\ bytes[o] \in Byte
  <2>1. 0 \in Byte
    BY Layout DEF Byte
  <2>2. \A o \in Offset : o < Size[s] => o \in 0 .. (Size[s] - 1)
    BY <1>7 DEF Offset
  <2>3. \A o \in 0 .. (Size[s] - 1) : o \in Offset /\ o < Size[s]
    BY <1>7 DEF Offset
  <2> QED
    BY <1>5, <1>8, <2>1, <2>2, <2>3
<1> HIDE DEF bytes
<1> DEFINE o == b - s
           v == Number(bytes, Size[s])
<1>18. v < Power[Size[s]] /\ (v \div Power[o]) % Base = bytes[o] /\ v \in Nat
  <2>1. Size[s] \in 0 .. MaxSize
    BY <1>7
  <2>2. v \in Nat
    BY <1>7, <1>17, CheckedDigits
  <2> QED
    BY <1>7, <1>17, <2>1, <2>2, DigitsBack
<1>19. Checked(s, bytes)[o] = (Clamp(s, v) \div Power[o]) % Base
  BY <1>7, <1>17, CheckedDigits
<1>20. Clamp(s, v) = v
  <2>1. Power[Size[s]] \in Nat
    BY <1>7, PowerStep
  <2> DEFINE w == Power[Size[s]]
  <2> HIDE DEF v, w
  <2>2. w \in Nat /\ v \in Nat /\ v < w /\ Highest[s] = w - 1 /\ Lowest[s] = 0
    BY <1>10, <1>18, <2>1 DEF w
  <2> QED
    BY <2>2 DEF Clamp
<1>21. s + o = b
  BY <1>7
<1>22. mem[b] = SentByte(last, b)
  BY <1>7, <1>16, <1>17, <1>18, <1>19, <1>20, <1>21
<1>23. SentByte(last, b) = Swapped(p.data)[i]
  BY <1>4 DEF b
<1> QED
  BY <1>22, <1>23 DEF a, b

\* What was written is read back.
LEMMA BackRead ==
  ASSUME WInv, Current, Latest, OnlyWritable, NEW p \in Pdus, ReadRegisters(p), reply'.error = 0, p.fn = 3,
         wrote \in Pdus, wrote # NoPdu, p.start = wrote.start, p.num = wrote.num, Len(wrote.data) = 2 * wrote.num,
         OneItem(wrote), PlainItems(Range(p.start, p.num)), held \notin Range(p.start, p.num)
  PROVE  reply'.payload = wrote.data
<1> DEFINE a == Pointer(p.start, 3)
           n == p.num
           x == wrote.data
           stored0 == [i \in 1 .. (2 * n) |-> MemByte(a + i - 1)]
<1>1. Accepted(p, {3, 4}) /\ Answered(IF ~RegsFit(p) THEN Failure(ILLEGAL_DATA_VALUE)
                                      ELSE IF a = None THEN Failure(ILLEGAL_DATA_ADDRESS)
                                      ELSE Answer(Swapped(stored0)))
  BY DEF ReadRegisters
<1>2. reply' = Answer(Swapped(stored0))
  BY <1>1, Answers DEF Answered
<1>3. reply'.payload = Swapped(stored0)
  <2> HIDE DEF stored0
  <2> QED
    BY <1>2, Answers
<1>4. Writes(wrote, last) /\ rest = <<>> /\ result = "true"
  <2>1. reply.sent
    BY <1>1 DEF Accepted, Idle, Current
  <2> QED
    BY <2>1 DEF Latest
<1>5. Bytes(wrote) = Range(p.start, p.num) /\ Bytes(wrote) \subseteq Writable
  <2>1. wrote.fn = 6 => wrote.num = 1
    BY Described
  <2> QED
    BY <2>1 DEF Bytes, OnlyWritable
<1>6. \A i \in 1 .. (2 * n) : mem[a + i - 1] = Swapped(x)[i]
  BY <1>4, <1>5, StoredBytes
<1>7. \A i \in 1 .. (2 * n) : a + i - 1 \in Addr
  <2>1. a \in Nat /\ n \in Nat
    BY <1>4, WriteChunks, PduTyped
  <2>2. Bytes(wrote) = a .. (a + 2 * n - 1)
    BY <1>5 DEF Range
  <2> HIDE DEF a, n
  <2>3. \A i \in 1 .. (2 * n) : a + i - 1 \in Bytes(wrote)
    BY <2>1, <2>2
  <2> QED
    BY <1>5, <2>3, Layout
<1>8. stored0 = [i \in 1 .. (2 * n) |-> Swapped(x)[i]]
  BY <1>6, <1>7 DEF MemByte
<1>9. n \in Nat /\ x \in Seq(Byte) /\ Len(x) = 2 * n
  <2>1. x \in Seq(Byte) /\ n \in Nat
    BY <1>4, PduTyped, Described DEF Writes
  <2> QED
    BY <2>1
<1> HIDE DEF stored0, n, x
<1>10. Swapped(stored0) = x
  BY <1>8, <1>9, SwappedBack
<1> QED
  BY <1>3, <1>10 DEF x

-----------------------------------------------------------------------------
(* The invariant                                                            *)

LEMMA MInitHolds == MInit => MInv
<1> SUFFICES ASSUME MInit PROVE MInv
  OBVIOUS
<1>1. /\ mem \in Memory /\ last = NoRequest /\ rest = <<>> /\ coil = [a \in CoilAddr |-> 0] /\ pdu = NoPdu
      /\ wrote = NoPdu /\ reply = NoReply /\ served = 0 /\ bits = [n \in CoilNumbers |-> 0]
  BY DEF MInit, Init
<1>2. Current /\ Latest /\ ReadBack /\ CoilsByNumber /\ OnlyWritable
  BY <1>1, Answers DEF Current, Latest, ReadBack, CoilsByNumber, OnlyWritable
<1>3. Passed
  <2>1. Done = 0
    BY <1>1 DEF Done, NoRequest
  <2> QED
    BY <2>1 DEF Passed
<1>4. CoilsKept
  <2> SUFFICES ASSUME NEW n \in CoilNumbers PROVE coil[FirstCoil + 2 * n] = bits[n]
    BY DEF CoilsKept
  <2>1. FirstCoil \in Nat /\ NumCoils \in Nat /\ n \in Nat /\ n <= NumCoils - 1
    BY Described DEF CoilNumbers
  <2>2. FirstCoil + 2 * n \in CoilAddr
    BY <2>1 DEF CoilAddr
  <2> QED
    BY <1>1, <2>2
<1>5. MTypeOK
  <2>1. 0 \in Byte /\ MaxRequests \in Nat
    BY Layout DEF Byte
  <2>2. coil \in [CoilAddr -> Byte] /\ bits \in [CoilNumbers -> 0 .. 1]
    BY <1>1, <2>1
  <2>3. reply.error \in 0 .. 3 /\ reply.sent \in BOOLEAN
    BY <1>1 DEF NoReply
  <2>4. served \in 0 .. MaxRequests
    BY <1>1, <2>1
  <2> QED
    BY <1>1, <2>2, <2>3, <2>4 DEF MTypeOK
<1> QED
  BY <1>2, <1>3, <1>4, <1>5 DEF MInv, ReadRight

\* A request that is answered at once: the rest of the invariant follows from its answer.
LEMMA AnsweredKeeps ==
  ASSUME MInv, NEW p \in Pdus, Idle, pdu' = p, reply'.sent = TRUE, reply'.error \in 0 .. 3,
         served' = served + 1, UNCHANGED <<vars, wrote>>,
         coil' \in [CoilAddr -> Byte], bits' \in [CoilNumbers -> 0 .. 1],
         CoilsKept', Passed', ReadBack', CoilsByNumber'
  PROVE  MInv'
<1>1. Current /\ Latest /\ MTypeOK /\ OnlyWritable
  BY DEF MInv, ReadRight
<1>2. Current'
  BY DEF Current
<1>3. Latest'
  <2>1. wrote # NoPdu => reply.sent
    BY <1>1 DEF Idle, Current
  <2>2. wrote' = wrote /\ last' = last /\ rest' = rest /\ result' = result
    BY DEF vars, request
  <2> QED
    BY <1>1, <2>1, <2>2 DEF Latest
<1>4. MTypeOK'
  <2>1. served \in 0 .. MaxRequests /\ MaxRequests \in Nat /\ served < MaxRequests
    BY <1>1, Layout DEF MTypeOK, Idle
  <2>2. served' \in 0 .. MaxRequests
    BY <2>1
  <2> QED
    BY <1>1, <2>2 DEF MTypeOK
<1>5. OnlyWritable'
  BY <1>1 DEF OnlyWritable
<1> QED
  BY <1>2, <1>3, <1>4, <1>5 DEF MInv, ReadRight

\* Reads and refusals.
LEMMA QuietKeeps ==
  ASSUME WInv, MInv, Passed', NEW p \in Pdus,
         Reject(p) \/ ReadBits(p) \/ ReadRegisters(p) \/ WriteRefused(p)
  PROVE  MInv'
<1>1. Current /\ Latest /\ MTypeOK /\ OnlyWritable /\ CoilsKept
  BY DEF MInv, ReadRight
<1>2. /\ Idle /\ pdu' = p /\ reply'.sent = TRUE /\ reply'.error \in 0 .. 3 /\ served' = served + 1
      /\ UNCHANGED <<vars, coil, wrote, bits>>
  BY QuietStep
<1>3. reply'.error = 0 /\ p.mine => ReadBits(p) \/ ReadRegisters(p)
  <2>1. ASSUME Reject(p), p.mine PROVE reply'.error # 0
    BY <2>1, Answers DEF Reject
  <2>2. ASSUME WriteRefused(p) PROVE reply'.error # 0
    <3>1. WriteError(p) # 0 /\ reply' = Failure(WriteError(p))
      BY <2>2 DEF WriteRefused, Answered
    <3> QED
      BY <3>1, Answers
  <2> QED
    BY <2>1, <2>2
<1>4. ReadBack'
  <2> SUFFICES ASSUME reply'.error = 0, p.mine, p.fn = 3, wrote # NoPdu, p.start = wrote.start, p.num = wrote.num,
                      Len(wrote.data) = 2 * wrote.num, OneItem(wrote),
                      PlainItems(Range(p.start, p.num)), held \notin Range(p.start, p.num)
               PROVE  reply'.payload = wrote.data
    BY <1>2 DEF ReadBack, vars, request, OneItem, PlainItems, Range
  <2>1. ReadRegisters(p)
    BY <1>3 DEF ReadBits, Accepted
  <2>2. wrote \in Pdus
    BY <1>1 DEF MTypeOK
  <2> QED
    BY <1>1, <2>1, <2>2, BackRead
<1>5. CoilsByNumber'
  <2> SUFFICES ASSUME reply'.error = 0, p.mine
               PROVE  /\ p.fn \in {0, 1, 2} => \A i \in 1 .. p.num : reply'.payload[i] = bits[p.start + i - 1]
                      /\ p.fn # 15
    BY <1>2 DEF CoilsByNumber
  <2>1. CASE ReadBits(p)
    BY <1>1, <2>1, BitsRead DEF ReadBits, Accepted
  <2>2. CASE ReadRegisters(p)
    BY <2>2 DEF ReadRegisters, Accepted
  <2> QED
    BY <1>3, <2>1, <2>2
<1>6. coil' \in [CoilAddr -> Byte] /\ bits' \in [CoilNumbers -> 0 .. 1] /\ CoilsKept'
  BY <1>1, <1>2 DEF MTypeOK, CoilsKept
<1> QED
  BY <1>2, <1>4, <1>5, <1>6, AnsweredKeeps

\* Writes of coils.
LEMMA CoilsKeep ==
  ASSUME MInv, Passed', NEW p \in Pdus, NEW junk \in Byte, WriteCoil(p, junk) \/ WriteCoils(p, junk)
  PROVE  MInv'
<1>1. MTypeOK /\ CoilsKept
  BY DEF MInv, ReadRight
<1>2. /\ Idle /\ pdu' = p /\ reply'.sent = TRUE /\ reply'.error \in 0 .. 3 /\ served' = served + 1
      /\ UNCHANGED <<vars, wrote>>
      /\ coil' \in [CoilAddr -> Byte] /\ bits' \in [CoilNumbers -> 0 .. 1] /\ CoilsKept'
      /\ p.fn \in {5, 15}
      /\ p.fn = 15 /\ reply'.error = 0 => \A i \in 1 .. p.num : p.start + i - 1 \in CoilNumbers
  <2>1. CASE WriteCoil(p, junk)
    <3>1. p.fn = 5 /\ p.fn \in {5, 15} /\ p.fn # 15
      <4>1. p.fn = 5
        BY <2>1 DEF WriteCoil, Accepted
      <4> QED
        BY <4>1
    <3> QED
      BY <1>1, <2>1, <3>1, CoilStep
  <2>2. CASE WriteCoils(p, junk)
    BY <1>1, <2>2, CoilsStep
  <2> QED
    BY <2>1, <2>2
<1>3. ReadBack' /\ CoilsByNumber'
  BY <1>2 DEF ReadBack, CoilsByNumber
<1> QED
  BY <1>2, <1>3, AnsweredKeeps

\* A write of registers begins.
LEMMA WriteKeeps ==
  ASSUME MInv, Passed', NEW p \in Pdus, NEW junk \in Byte, WriteRegisters(p, junk)
  PROVE  MInv'
<1>1. MTypeOK /\ CoilsKept /\ OnlyWritable
  BY DEF MInv, ReadRight
<1>2. /\ Idle /\ p.fn \in {6, 16} /\ pdu' = p /\ WriteError(p) = 0 /\ last' = WriteTo(Pointer(p.start, 3), p, junk)
      /\ reply' = NoReply /\ served' = served + 1 /\ UNCHANGED <<coil, wrote, bits>>
  BY DEF WriteRegisters, Accepted, Receive
<1>3. Current'
  <2>1. Writes(p, last')
    BY <1>2 DEF Writes
  <2>2. pdu' # NoPdu
    BY <1>2 DEF NoPdu
  <2>3. Writes(pdu', last')
    BY <1>2, <2>1
  <2> QED
    BY <2>2, <2>3 DEF Current, Writes, WriteError, RegsFit, WriteTo, Chunks
<1>4. Latest' /\ ReadBack' /\ CoilsByNumber' /\ reply'.error \in 0 .. 3 /\ reply'.sent \in BOOLEAN
  <2>1. reply'.sent = FALSE /\ reply'.error = 0
    BY <1>2 DEF NoReply
  <2>2. Latest' /\ ReadBack'
    BY <2>1 DEF Latest, ReadBack
  <2>3. CoilsByNumber'
    BY <2>1 DEF CoilsByNumber
  <2>4. reply'.error \in 0 .. 3 /\ reply'.sent \in BOOLEAN
    BY <1>2 DEF NoReply
  <2> QED
    BY <2>2, <2>3, <2>4
<1>5. MTypeOK'
  <2>1. served \in 0 .. MaxRequests /\ MaxRequests \in Nat /\ served < MaxRequests
    BY <1>1, <1>2, Layout DEF MTypeOK, Idle
  <2>2. served' \in 0 .. MaxRequests
    BY <1>2, <2>1
  <2> QED
    BY <1>1, <1>2, <1>4, <2>2 DEF MTypeOK
<1>6. OnlyWritable' /\ CoilsKept'
  BY <1>1, <1>2 DEF OnlyWritable, CoilsKept
<1> QED
  BY <1>3, <1>4, <1>5, <1>6 DEF MInv, ReadRight

\* A write through the web interface begins: what was written by Modbus counts no more.
LEMMA WebKeeps ==
  ASSUME MInv, Passed', NEW r \in Requests, WebWrite(r)
  PROVE  MInv'
<1>1. MTypeOK /\ CoilsKept /\ Current /\ CoilsByNumber
  BY DEF MInv, ReadRight
<1>2. Idle /\ wrote' = NoPdu /\ served' = served + 1 /\ UNCHANGED <<coil, pdu, reply, bits>>
  BY DEF WebWrite
<1>3. Current'
  BY <1>1, <1>2 DEF Current, Idle
<1>4. Latest' /\ ReadBack' /\ OnlyWritable'
  BY <1>2 DEF Latest, ReadBack, OnlyWritable
<1>5. MTypeOK'
  <2>1. served \in 0 .. MaxRequests /\ MaxRequests \in Nat /\ served < MaxRequests
    BY <1>1, <1>2, Layout DEF MTypeOK, Idle
  <2>2. served' \in 0 .. MaxRequests
    BY <1>2, <2>1
  <2> QED
    BY <1>1, <1>2, <2>2 DEF MTypeOK
<1>6. CoilsByNumber' /\ CoilsKept'
  BY <1>1, <1>2 DEF CoilsByNumber, CoilsKept
<1> QED
  BY <1>3, <1>4, <1>5, <1>6 DEF MInv, ReadRight

\* A call of regs_set in between.
LEMMA SetKeeps ==
  ASSUME MInv, Passed', SetStep
  PROVE  MInv'
<1>1. MTypeOK /\ CoilsKept /\ Current /\ Latest /\ CoilsByNumber /\ ReadBack /\ OnlyWritable
  BY DEF MInv, ReadRight
<1>2. /\ rest # <<>> /\ last' = last /\ held' = held
      /\ UNCHANGED <<coil, pdu, reply, served, wrote, bits>>
  BY DEF SetStep, RegsSet, RegsSetDenied, RegsSetCollect, RegsSetStore, mvars
<1>3. Latest'
  BY <1>1, <1>2 DEF Latest
<1>4. Current' /\ OnlyWritable'
  BY <1>1, <1>2 DEF Current, OnlyWritable
<1>5. ReadBack'
  BY <1>1, <1>2 DEF ReadBack
<1>6. MTypeOK' /\ CoilsByNumber' /\ CoilsKept'
  BY <1>1, <1>2 DEF MTypeOK, CoilsByNumber, CoilsKept
<1> QED
  BY <1>3, <1>4, <1>5, <1>6 DEF MInv, ReadRight

\* The answer to a write of registers.
LEMMA DoneKeeps ==
  ASSUME WInv, MInv, Passed', WriteDone
  PROVE  MInv'
<1>1. MTypeOK /\ CoilsKept /\ Current /\ Passed
  BY DEF MInv, ReadRight
<1>2. /\ pdu # NoPdu /\ ~reply.sent /\ rest = <<>>
      /\ wrote' = IF reply'.error = 0 THEN pdu ELSE NoPdu
      /\ UNCHANGED <<vars, coil, pdu, served, bits>>
  BY DEF WriteDone, Busy
<1>3. Writes(pdu, last)
  BY <1>1, <1>2 DEF Current
<1>4. pdu \in Pdus /\ pdu.fn \in {6, 16}
  BY <1>3 DEF Writes
<1>5. reply'.sent = TRUE /\ reply'.error \in 0 .. 3 /\ (reply'.error = 0 => result = "true")
  <2>1. result \in {"illegal_address", "illegal_value", "true"}
    BY DEF WInv, TypeOK
  <2>2. CASE result = "illegal_address"
    <3>1. reply' = Failure(ILLEGAL_DATA_ADDRESS)
      BY <2>2 DEF WriteDone
    <3> QED
      BY <3>1, Answers
  <2>3. CASE result = "illegal_value"
    <3>1. reply' = Failure(ILLEGAL_DATA_VALUE)
      BY <2>3 DEF WriteDone
    <3> QED
      BY <3>1, Answers
  <2>4. CASE result = "true"
    <3>1. reply' = Answer(<<>>)
      BY <2>4 DEF WriteDone
    <3> QED
      BY <2>4, <3>1, Answers
  <2> QED
    BY <2>1, <2>2, <2>3, <2>4
<1>6. Current' /\ ReadBack' /\ CoilsByNumber'
  BY <1>2, <1>4, <1>5 DEF Current, ReadBack, CoilsByNumber
<1>7. last' = last /\ rest' = rest /\ result' = result
  BY <1>2 DEF vars, request
<1>8. Latest'
  BY <1>2, <1>3, <1>5, <1>7 DEF Latest
<1>9. OnlyWritable'
  <2> SUFFICES ASSUME reply'.error = 0
               PROVE  Range(pdu.start, IF pdu.fn = 6 THEN 1 ELSE pdu.num) \subseteq Writable
    BY <1>2 DEF OnlyWritable, Range
  <2>1. Bytes(pdu) \subseteq Writable
    BY <1>1, <1>2, <1>3, <1>4, <1>5, RangeWritable
  <2> QED
    BY <2>1 DEF Bytes
<1>10. MTypeOK' /\ CoilsKept'
  BY <1>1, <1>2, <1>4, <1>5 DEF MTypeOK, CoilsKept
<1> QED
  BY <1>6, <1>8, <1>9, <1>10 DEF MInv, ReadRight

LEMMA MInvKeeps == WInv /\ MInv /\ [MNext]_<<vars, mvars>> => MInv'
<1> SUFFICES ASSUME WInv, MInv, [MNext]_<<vars, mvars>> PROVE MInv'
  OBVIOUS
<1>1. Passed'
  BY StepAllowed, PassedKeeps DEF MInv
<1>2. ASSUME NEW p \in Pdus, Reject(p) \/ ReadBits(p) \/ ReadRegisters(p) \/ WriteRefused(p) PROVE MInv'
  BY <1>1, <1>2, QuietKeeps
<1>3. ASSUME NEW p \in Pdus, NEW junk \in Byte, WriteCoil(p, junk) \/ WriteCoils(p, junk) PROVE MInv'
  BY <1>1, <1>3, CoilsKeep
<1>4. ASSUME NEW p \in Pdus, NEW junk \in Byte, WriteRegisters(p, junk) PROVE MInv'
  BY <1>1, <1>4, WriteKeeps
<1>5. ASSUME NEW r \in Requests, WebWrite(r) PROVE MInv'
  BY <1>1, <1>5, WebKeeps
<1>6. CASE SetStep
  BY <1>1, <1>6, SetKeeps
<1>7. CASE WriteDone
  BY <1>1, <1>7, DoneKeeps
<1>8. CASE UNCHANGED <<vars, mvars>>
  BY <1>1, <1>8 DEF MInv, ReadRight, MTypeOK, Current, Latest, CoilsKept, ReadBack, CoilsByNumber, OnlyWritable,
                    vars, mvars, request
<1> QED
  BY <1>2, <1>3, <1>4, <1>5, <1>6, <1>7, <1>8 DEF MNext

\* Clients read back what memory holds, for every layout of the registers, all tables and all
\* requests: registers written by a request without error come back as they were sent,
\* through the search of the table, the order of the bytes, the shared buffer and the limits;
\* coils are those of their numbers; a read only register makes its write fail.  About
\* modbus_rtu_packet, regs_set and regs_description_get_by_address_modbus.
THEOREM ReadRightHolds == MSpec => []ReadRight
<1>1. MInit => MInv
  BY MInitHolds
<1>2. MInv => ReadRight
  BY DEF MInv
<1>3. MSpec => []WInv
  BY WritesAllowed, WInvHolds DEF WritesImplementRegsSet
<1>4. MSpec => []MInv
  BY <1>1, <1>3, MInvKeeps, PTL DEF MSpec
<1> QED
  BY <1>2, <1>4, PTL
============================================================================
