---------------------------- MODULE PartsProofs ----------------------------
(***************************************************************************)
(* Proofs about the parts that work on their own: the memory pool, the     *)
(* Modbus master, the HTTP client, the updater, the wireless control and   *)
(* the list of register tables.  Their variables have nothing in common.   *)
(***************************************************************************)
EXTENDS HttpClient, ModbusMaster, MemoryPool, Updater, Wireless, RegsLookup,
        FiniteSetTheorems, WellFoundedInduction, TLAPS

-----------------------------------------------------------------------------
(* The memory pool                                                          *)

\* A block is handed out only while nobody has it.
LEMMA AllocatedFree ==
  ASSUME PoolTypeOK, NEW b \in Blocks, Allocated(b)
  PROVE  markers[b] = 0
  BY DEF Allocated, FreeTries, PoolTypeOK

\* What a block can hold.
Spaces == [address : Addrs \cup {0}, len : SpaceLens \cup {0}, command : Commands \cup {AllCmd, 0}]

LEMMA PoolTyped ==
  ASSUME PoolTypeOK, PoolNext
  PROVE  PoolTypeOK'
  <1>1. NoSpace \in Spaces
    BY DEF NoSpace, Spaces
  <1>2. 0 \in Blocks
    BY PoolNumbers DEF Blocks
  <1>3. PoolTypeOK <=>
          there \in BOOLEAN /\ markers \in [Blocks -> {0, 1}] /\ current \in Blocks /\ space \in [Blocks -> Spaces]
    BY DEF PoolTypeOK, Spaces
  <1>4. PoolTypeOK' <=>
          there' \in BOOLEAN /\ markers' \in [Blocks -> {0, 1}] /\ current' \in Blocks /\ space' \in [Blocks -> Spaces]
    BY DEF PoolTypeOK, Spaces
  <1>5. CASE Create \/ Delete
    BY <1>1, <1>2, <1>3, <1>4, <1>5 DEF Create, Delete
  <1>6. CASE Alloc
    BY <1>1, <1>3, <1>4, <1>6 DEF Alloc
  <1>7. ASSUME NEW b \in Blocks, Free(b)
        PROVE  PoolTypeOK'
    BY <1>3, <1>4, <1>7 DEF Free
  <1>8. ASSUME NEW addr \in Addrs, NEW command \in Commands \cup {AllCmd}, NEW len \in SpaceLens,
               Bind(addr, command, len)
        PROVE  PoolTypeOK'
    <2>1. [address |-> addr, len |-> len, command |-> command] \in Spaces
      BY DEF Spaces
    <2>2. QED
      BY <1>3, <1>4, <1>8, <2>1 DEF Bind
  <1>9. QED
    BY <1>5, <1>6, <1>7, <1>8 DEF PoolNext

\* A space that is already bound is found by the command that would bind it again.
LEMMA TwinFound ==
  ASSUME PoolTypeOK, NEW addr \in Addrs, NEW command \in Commands \cup {AllCmd}, NEW len \in SpaceLens,
         Found(addr, command, len) = {}, NEW i \in Blocks, markers[i] = 1
  PROVE  space[i] # [address |-> addr, len |-> len, command |-> command]
  BY PoolNumbers DEF Found

LEMMA NoTwinsStep ==
  ASSUME PoolTypeOK, NoTwins, PoolNext
  PROVE  NoTwins'
  <1> USE DEF NoTwins
  <1>1. CASE Create
    BY <1>1 DEF Create
  <1>2. CASE Delete
    BY <1>2 DEF Delete
  <1>3. CASE Alloc
    <2>1. CASE UNCHANGED <<markers, current, space>>
      BY <1>3, <2>1 DEF Alloc
    <2>2. ASSUME NEW b \in Blocks, Allocated(b),
                 markers' = [markers EXCEPT ![b] = 1], space' = [space EXCEPT ![b] = NoSpace]
          PROVE  NoTwins'
      BY <1>3, <2>2 DEF Alloc, PoolTypeOK
    <2>3. QED
      BY <1>3, <2>1, <2>2 DEF Alloc
  <1>4. ASSUME NEW b \in Blocks, Free(b)
        PROVE  NoTwins'
    BY <1>4 DEF Free, PoolTypeOK
  <1>5. ASSUME NEW addr \in Addrs, NEW command \in Commands \cup {AllCmd}, NEW len \in SpaceLens,
               Bind(addr, command, len)
        PROVE  NoTwins'
    <2> DEFINE bound == [address |-> addr, len |-> len, command |-> command]
    <2>1. CASE UNCHANGED <<markers, current, space>>
      BY <1>5, <2>1 DEF Bind
    <2>2. ASSUME NEW b \in Blocks, Allocated(b),
                 markers' = [markers EXCEPT ![b] = 1], space' = [space EXCEPT ![b] = bound]
          PROVE  NoTwins'
      <3>1. \A i \in Blocks : markers[i] = 1 => space[i] # bound
        BY <1>5, TwinFound DEF Bind
      <3>2. there
        BY <1>5 DEF Bind
      <3> HIDE DEF bound
      <3>3. QED
        BY <2>2, <3>1, <3>2 DEF PoolTypeOK
    <2>3. QED
      BY <1>5, <2>1, <2>2 DEF Bind
  <1>6. QED
    BY <1>1, <1>2, <1>3, <1>4, <1>5 DEF PoolNext

(* A command is stored once, and what is stored or freed leaves the other  *)
(* commands of the pool where and as they were: os_pool_alloc and          *)
(* os_pool_free, modbus_bind_address_space_by_command, for any number of   *)
(* blocks.                                                                 *)
THEOREM PoolApartHolds == PoolSpec => PoolApart
  <1>1. PoolInit => PoolTypeOK /\ NoTwins
    <2>1. 0 \in Blocks
      BY PoolNumbers DEF Blocks
    <2>2. NoSpace \in Spaces
      BY DEF NoSpace, Spaces
    <2>3. PoolTypeOK <=>
            there \in BOOLEAN /\ markers \in [Blocks -> {0, 1}] /\ current \in Blocks /\ space \in [Blocks -> Spaces]
      BY DEF PoolTypeOK, Spaces
    <2>4. QED
      BY <2>1, <2>2, <2>3 DEF PoolInit, NoTwins
  <1>2. (PoolTypeOK /\ NoTwins) /\ [PoolNext]_poolVars => (PoolTypeOK /\ NoTwins)'
    <2>1. ASSUME PoolTypeOK, NoTwins, UNCHANGED poolVars
          PROVE  (PoolTypeOK /\ NoTwins)'
      BY <2>1 DEF PoolTypeOK, NoTwins, poolVars
    <2>2. QED
      BY <2>1, PoolTyped, NoTwinsStep
  <1>3. ASSUME PoolTypeOK, PoolNext,
               NEW b \in Blocks, there, there', markers[b] = 1, markers'[b] = 1
        PROVE  space'[b] = space[b]
    <2>1. ASSUME NEW c \in Blocks, Allocated(c), NEW s, space' = [space EXCEPT ![c] = s]
          PROVE  space'[b] = space[b]
      <3>1. markers[c] = 0
        BY <1>3, <2>1, AllocatedFree
      <3>2. QED
        BY <1>3, <2>1, <3>1 DEF PoolTypeOK
    <2>2. CASE Create \/ Delete \/ Alloc \/ \E c \in Blocks : Free(c)
      <3>1. CASE Create \/ Delete \/ \E c \in Blocks : Free(c)
        BY <1>3, <3>1 DEF Create, Delete, Free
      <3>2. CASE Alloc
        BY <1>3, <2>1, <3>2 DEF Alloc
      <3>3. QED
        BY <2>2, <3>1, <3>2
    <2>3. ASSUME NEW addr \in Addrs, NEW command \in Commands \cup {AllCmd}, NEW len \in SpaceLens,
                 Bind(addr, command, len)
          PROVE  space'[b] = space[b]
      BY <1>3, <2>1, <2>3 DEF Bind
    <2>4. QED
      BY <1>3, <2>2, <2>3 DEF PoolNext
  <1>4. PoolTypeOK /\ [PoolNext]_poolVars =>
          [\A b \in Blocks : there /\ there' /\ markers[b] = 1 /\ markers'[b] = 1 => space'[b] = space[b]]_poolVars
    BY <1>3
  <1>5. QED
    BY <1>1, <1>2, <1>4, PTL DEF PoolSpec, PoolApart, BlocksApart

-----------------------------------------------------------------------------
(* The Modbus master                                                        *)

\* A step that leaves the messages on their way, or loses all of them, and asks nothing.
LEMMA QuietStep ==
  ASSUME MasterIInv, UNCHANGED <<errors, nextId, asked, stored>>,
         UNCHANGED net \/ (wire' = <<>> /\ reqs' = <<>>),
         task' = task \/ (task' # "await" /\ task # "await")
  PROVE  MasterIInv'
  <1> USE DEF MasterIInv
  <1>1. CASE UNCHANGED net
    BY <1>1 DEF net, NetTypeOK, FewOnTheirWay, LastAsked, OfAge, Ago, FreshAnswer
  <1>2. CASE wire' = <<>> /\ reqs' = <<>>
    BY <1>2, Identifiers DEF NetTypeOK, FewOnTheirWay, LastAsked, OfAge, Ago, FreshAnswer
  <1>3. QED
    BY <1>1, <1>2

\* One more error in a row makes room for the request that is given up; too many empty the net.
LEMMA FailedStep ==
  ASSUME MasterIInv, Failed, UNCHANGED <<nextId, asked, stored>>
  PROVE  MasterIInv'
  <1> USE Identifiers DEF MasterIInv
  <1>1. CASE errors = MaxErrors
    BY <1>1 DEF Failed, NetTypeOK, FewOnTheirWay, LastAsked, FreshAnswer
  <1>2. CASE errors # MaxErrors
    BY <1>2 DEF Failed, net, NetTypeOK, FewOnTheirWay, LastAsked, OfAge, Ago, FreshAnswer
  <1>3. QED
    BY <1>1, <1>2

\* The counter of the identifiers starts again after the last one.
LEMMA Wraps ==
  ASSUME NEW m \in Nat, NEW n \in 0 .. m - 1
  PROVE  (n + 1) % m = IF n = m - 1 THEN 0 ELSE n + 1
  OBVIOUS

LEMMA OldKeeps ==
  ASSUME NEW s \in Seq(Messages)
  PROVE  /\ Old(s) \in Seq(Messages) /\ Len(Old(s)) = Len(s)
         /\ \A i \in 1 .. Len(s) : Old(s)[i].id = s[i].id /\ Old(s)[i].old = TRUE
  <1> DEFINE f == [i \in 1 .. Len(s) |-> [s[i] EXCEPT !.old = TRUE]]
  <1>1. \A i \in 1 .. Len(s) : s[i] \in Messages
    OBVIOUS
  <1>2. \A m \in Messages : [m EXCEPT !.old = TRUE] \in Messages
                             /\ [m EXCEPT !.old = TRUE].id = m.id /\ [m EXCEPT !.old = TRUE].old = TRUE
    BY DEF Messages
  <1>3. \A i \in 1 .. Len(s) : f[i] \in Messages /\ f[i].id = s[i].id /\ f[i].old = TRUE
    BY <1>1, <1>2
  <1>4. f \in [1 .. Len(s) -> Messages] /\ Len(s) \in Nat
    BY <1>3
  <1> HIDE DEF f
  <1>5. f \in Seq(Messages) /\ Len(f) = Len(s)
    BY <1>4
  <1>6. QED
    BY <1>3, <1>5 DEF Old, f

\* A new request makes every message on its way one request older.
LEMMA SendStep ==
  ASSUME MasterIInv, Send
  PROVE  MasterIInv'
  <1> USE DEF MasterIInv
  <1>1. CASE Failed /\ UNCHANGED <<nextId, asked>>
    BY <1>1, FailedStep DEF Send
  <1>2. CASE nextId' # nextId \/ task' = "await"
    <2> DEFINE new == [id |-> nextId, good |-> TRUE, old |-> FALSE]
    <2>1. /\ asked' = nextId /\ nextId' = (nextId + 1) % IdSpace /\ task' = "await"
          /\ reqs' = Append(Old(reqs), new) /\ wire' = Old(wire)
          /\ task = "send" /\ UNCHANGED <<errors, stored>>
      BY <1>2 DEF Send, Failed
    <2>2. nextId' = IF nextId = IdSpace - 1 THEN 0 ELSE nextId + 1
      BY <2>1, Identifiers, Wraps DEF NetTypeOK
    <2>3. new \in Messages /\ new.id = nextId /\ new.old = FALSE
      BY DEF Messages, NetTypeOK
    <2> HIDE DEF new
    <2>4. /\ reqs \in Seq(Messages) /\ wire \in Seq(Messages) /\ Len(reqs) \in Nat /\ Len(wire) \in Nat
          /\ nextId \in 0 .. IdSpace - 1 /\ errors \in 0 .. MaxErrors
      BY DEF NetTypeOK
    <2>5. /\ Old(reqs) \in Seq(Messages) /\ Len(Old(reqs)) = Len(reqs)
          /\ Old(wire) \in Seq(Messages) /\ Len(Old(wire)) = Len(wire)
          /\ \A i \in 1 .. Len(reqs) : Old(reqs)[i].id = reqs[i].id
          /\ \A i \in 1 .. Len(wire) : Old(wire)[i].id = wire[i].id
      BY <2>4, OldKeeps
    <2>6. NetTypeOK'
      <3>1. reqs' \in Seq(Messages) /\ wire' \in Seq(Messages)
        BY <2>1, <2>3, <2>5
      <3>2. nextId' \in 0 .. IdSpace - 1 /\ asked' \in Int /\ errors' \in 0 .. MaxErrors
        BY <2>4, <2>1, <2>2, Identifiers
      <3>3. QED
        BY <3>1, <3>2 DEF NetTypeOK
    <2>7. /\ Len(reqs') = Len(reqs) + 1 /\ Len(wire') = Len(wire)
          /\ \A i \in 1 .. Len(reqs) : reqs'[i] = Old(reqs)[i]
          /\ reqs'[Len(reqs) + 1] = new
      BY <2>4, <2>1, <2>5, <2>3
    <2>8. FewOnTheirWay'
      BY <2>1, <2>7 DEF FewOnTheirWay, NetTypeOK
    <2>9. ASSUME NEW age \in Nat, age < Len(wire) + Len(reqs)
          PROVE  Ago(age + 1)' = Ago(age)
      <3>1. age < IdSpace - 1
        BY <2>4, <2>1, <2>9, Identifiers DEF FewOnTheirWay
      <3>2. CASE nextId = IdSpace - 1
        BY <2>2, <2>4, <3>1, <3>2, Identifiers DEF Ago
      <3>3. CASE nextId # IdSpace - 1
        BY <2>2, <2>4, <3>1, <3>3, Identifiers DEF Ago
      <3>4. QED
        BY <3>2, <3>3
    <2>10. Ago(0)' = nextId
      BY <2>1, <2>2, Identifiers DEF Ago, NetTypeOK
    <2>11. ASSUME NEW i \in 1 .. Len(reqs')
          PROVE  OfAge(reqs[i], Len(reqs) - i)'
      <3>1. CASE i = Len(reqs) + 1
        BY <2>3, <2>7, <2>10, <3>1 DEF OfAge, NetTypeOK
      <3>2. CASE i # Len(reqs) + 1
        <4>1. PICK age \in Nat : age = Len(reqs) - i
          BY <2>4, <2>7, <3>2
        <4>2. i \in 1 .. Len(reqs) /\ age < Len(wire) + Len(reqs) /\ Len(reqs') - i = age + 1
          BY <2>4, <2>7, <3>2, <4>1
        <4>3. reqs[i].id = Ago(age)
          BY <4>1, <4>2 DEF LastAsked, OfAge
        <4>4. reqs'[i].id = Ago(age + 1)'
          BY <2>7, <2>9, <2>5, <4>2, <4>3
        <4>5. QED
          BY <4>1, <4>2, <4>4 DEF OfAge
      <3>3. QED
        BY <3>1, <3>2
    <2>12. ASSUME NEW i \in 1 .. Len(wire')
           PROVE  OfAge(wire[i], Len(reqs) + Len(wire) - i)'
      <3>0. Len(reqs) + Len(wire) - i \in Nat
        BY <2>4, <2>7
      <3>1. PICK age \in Nat : age = Len(reqs) + Len(wire) - i
        BY <3>0
      <3>2. /\ i \in 1 .. Len(wire) /\ age < Len(wire) + Len(reqs)
            /\ Len(reqs') + Len(wire') - i = age + 1
        BY <2>4, <2>7, <3>1
      <3>3. wire[i].id = Ago(age)
        BY <3>1, <3>2 DEF LastAsked, OfAge
      <3>4. wire'[i].id = wire[i].id
        BY <2>1, <2>5, <3>2
      <3>5. wire'[i].id = Ago(age + 1)'
        BY <2>9, <3>2, <3>3, <3>4
      <3>6. QED
        BY <3>1, <3>2, <3>5 DEF OfAge
    <2>13. QED
      BY <2>1, <2>6, <2>8, <2>10, <2>11, <2>12 DEF LastAsked, FreshAnswer
  <1>3. QED
    BY <1>1, <1>2 DEF Send

\* The slave answers the request that was asked first: the order stays.
LEMMA AnswerStep ==
  ASSUME MasterIInv, NEW good \in BOOLEAN, Answer(good)
  PROVE  MasterIInv'
  <1> USE DEF MasterIInv
  <1> DEFINE answer == [Head(reqs) EXCEPT !.good = good]
  <1>1. /\ reqs \in Seq(Messages) /\ wire \in Seq(Messages) /\ Len(reqs) \in Nat /\ Len(wire) \in Nat
        /\ reqs # <<>> /\ wire' = Append(wire, answer) /\ reqs' = Tail(reqs)
        /\ UNCHANGED <<task, errors, nextId, asked, stored>>
    BY DEF NetTypeOK, Answer
  <1>2. reqs[1] \in Messages /\ Head(reqs) = reqs[1] /\ Len(reqs) > 0
    BY <1>1
  <1>3. answer \in Messages /\ answer.id = reqs[1].id /\ answer.old = reqs[1].old
    BY <1>2 DEF Messages
  <1> HIDE DEF answer
  <1>4. /\ reqs' \in Seq(Messages) /\ Len(reqs') = Len(reqs) - 1
        /\ \A i \in 1 .. Len(reqs') : reqs'[i] = reqs[i + 1]
    BY <1>1, <1>2
  <1>5. /\ wire' \in Seq(Messages) /\ Len(wire') = Len(wire) + 1 /\ wire'[Len(wire) + 1] = answer
        /\ \A i \in 1 .. Len(wire) : wire'[i] = wire[i]
    BY <1>1, <1>3
  <1>6. NetTypeOK' /\ FewOnTheirWay' /\ FreshAnswer'
    BY <1>1, <1>4, <1>5 DEF NetTypeOK, FewOnTheirWay, FreshAnswer
  <1>7. ASSUME NEW age \in Int
        PROVE  Ago(age)' = Ago(age)
    BY <1>1 DEF Ago
  <1>8. ASSUME NEW i \in 1 .. Len(reqs')
        PROVE  OfAge(reqs[i], Len(reqs) - i)'
    <2>1. i + 1 \in 1 .. Len(reqs) /\ Len(reqs') - i = Len(reqs) - (i + 1)
      BY <1>1, <1>4
    <2>2. OfAge(reqs[i + 1], Len(reqs) - (i + 1))
      BY <2>1 DEF LastAsked
    <2>3. QED
      BY <1>1, <1>4, <2>1, <2>2 DEF OfAge, Ago
  <1>9. ASSUME NEW i \in 1 .. Len(wire')
        PROVE  OfAge(wire[i], Len(reqs) + Len(wire) - i)'
    <2>1. Len(reqs') + Len(wire') = Len(reqs) + Len(wire)
      BY <1>1, <1>4, <1>5
    <2>2. CASE i = Len(wire) + 1
      <3>1. OfAge(reqs[1], Len(reqs) - 1)
        BY <1>1, <1>2 DEF LastAsked
      <3>2. Len(reqs') + Len(wire') - i = Len(reqs) - 1
        BY <1>1, <2>1, <2>2
      <3>3. wire'[i].id = reqs[1].id /\ wire'[i].old = reqs[1].old
        BY <1>3, <1>5, <2>2
      <3>4. QED
        BY <1>1, <3>1, <3>2, <3>3 DEF OfAge, Ago
    <2>3. CASE i # Len(wire) + 1
      <3>1. i \in 1 .. Len(wire)
        BY <1>1, <1>5, <2>3
      <3>2. OfAge(wire[i], Len(reqs) + Len(wire) - i)
        BY <3>1 DEF LastAsked
      <3>3. QED
        BY <1>1, <1>5, <2>1, <3>1, <3>2 DEF OfAge, Ago
    <2>4. QED
      BY <2>2, <2>3
  <1>10. QED
    BY <1>1, <1>6, <1>8, <1>9 DEF LastAsked, Ago

\* No other of the last IdSpace identifiers is the one of the last request.
LEMMA OnceInTurn ==
  ASSUME nextId \in 0 .. IdSpace - 1, NEW age \in Nat, age < IdSpace, Ago(age) = Ago(0)
  PROVE  age = 0
  BY Identifiers DEF Ago

\* The answer with the identifier that is waited for is the last one on its way: any other is
\* older, by less than it takes to give the identifier again.
LEMMA OwnIsLast ==
  ASSUME MasterIInv, task = "await", wire # <<>>, OwnId(wire[1])
  PROVE  Len(wire) = 1 /\ reqs = <<>> /\ ~ wire[1].old
  <1> DEFINE age == Len(reqs) + Len(wire) - 1
  <1>1. /\ Len(wire) \in Nat /\ Len(wire) > 0 /\ Len(reqs) \in Nat
        /\ errors \in 0 .. MaxErrors /\ nextId \in 0 .. IdSpace - 1
    BY DEF MasterIInv, NetTypeOK
  <1>2. age \in Nat /\ age < IdSpace
    BY <1>1, Identifiers DEF MasterIInv, FewOnTheirWay
  <1>3. OfAge(wire[1], age) /\ asked = Ago(0)
    BY <1>1 DEF MasterIInv, LastAsked
  <1>4. age = 0 => Len(wire) = 1 /\ Len(reqs) = 0
    <2>1. \A m, n \in Nat : m > 0 /\ n + m - 1 = 0 => m = 1 /\ n = 0
      OBVIOUS
    <2>2. QED
      BY <1>1, <2>1
  <1> HIDE DEF age
  <1>5. age = 0
    BY <1>1, <1>2, <1>3, OnceInTurn DEF OwnId, OfAge
  <1>6. reqs = <<>>
    BY <1>4, <1>5 DEF MasterIInv, NetTypeOK
  <1>7. QED
    BY <1>3, <1>4, <1>5, <1>6 DEF OfAge

LEMMA ReceiveStep ==
  ASSUME MasterIInv, NEW k \in 1 .. Len(wire), Receive(k)
  PROVE  MasterIInv'
  <1> USE DEF MasterIInv
  <1>1. /\ reqs \in Seq(Messages) /\ wire \in Seq(Messages) /\ Len(reqs) \in Nat /\ Len(wire) \in Nat
        /\ wire # <<>> /\ task = "await" /\ wire' = SubSeq(wire, k + 1, Len(wire))
        /\ UNCHANGED <<reqs, nextId, asked>>
    BY DEF NetTypeOK, Receive
  <1>2. /\ wire' \in Seq(Messages) /\ Len(wire') = Len(wire) - k
        /\ \A i \in 1 .. Len(wire') : wire'[i] = wire[i + k]
    BY <1>1
  <1>3. CASE OwnId(wire[1])
    <2>1. Len(wire) = 1 /\ reqs = <<>> /\ ~ wire[1].old
      BY <1>1, <1>3, OwnIsLast
    <2>2. task' = "round" /\ errors' = 0 /\ (stored' = stored \/ stored' = "fresh")
      BY <1>3, <2>1 DEF Receive
    <2>3. k = 1 /\ Len(wire') = 0 /\ Len(reqs') = 0
      BY <1>1, <1>2, <2>1
    <2>4. NetTypeOK' /\ FewOnTheirWay' /\ FreshAnswer'
      BY <1>1, <1>2, <2>2, <2>3, Identifiers DEF NetTypeOK, FewOnTheirWay, FreshAnswer
    <2>5. LastAsked'
      BY <2>2, <2>3 DEF LastAsked
    <2>6. QED
      BY <2>4, <2>5
  <1>4. CASE ~ OwnId(wire[1])
    <2>1. UNCHANGED <<task, errors, stored>>
      BY <1>4 DEF Receive
    <2>2. NetTypeOK' /\ FewOnTheirWay' /\ FreshAnswer'
      BY <1>1, <1>2, <2>1 DEF NetTypeOK, FewOnTheirWay, FreshAnswer
    <2>3. ASSUME NEW i \in 1 .. Len(wire')
          PROVE  OfAge(wire[i], Len(reqs) + Len(wire) - i)'
      <3>1. i + k \in 1 .. Len(wire) /\ Len(reqs') + Len(wire') - i = Len(reqs) + Len(wire) - (i + k)
        BY <1>1, <1>2
      <3>2. OfAge(wire[i + k], Len(reqs) + Len(wire) - (i + k))
        BY <3>1 DEF LastAsked
      <3>3. QED
        BY <1>1, <1>2, <3>1, <3>2 DEF OfAge, Ago
    <2>4. \A i \in 1 .. Len(reqs') : OfAge(reqs[i], Len(reqs) - i)'
      BY <1>1 DEF LastAsked, OfAge, Ago
    <2>5. QED
      BY <1>1, <2>1, <2>2, <2>3, <2>4 DEF LastAsked, Ago
  <1>5. QED
    BY <1>3, <1>4

LEMMA MasterStep ==
  ASSUME MasterIInv, [MasterNext]_masterVars
  PROVE  MasterIInv'
  <1>1. ASSUME MasterIInv, UNCHANGED masterVars
        PROVE  MasterIInv'
    <2>1. UNCHANGED <<errors, nextId, asked, stored>> /\ UNCHANGED net /\ task' = task
      BY <1>1 DEF masterVars, net
    <2>2. QED
      BY <1>1, <2>1, QuietStep
  <1>2. ASSUME MasterIInv, MasterStart \/ CleanTable \/ OwnIpChanges
                           \/ (\E ip \in Ips, id \in Ids : AddSlave(ip, id))
                           \/ (\E s \in {"close", "stop"} : Notify(s))
        PROVE  MasterIInv'
    <2>1. UNCHANGED <<errors, nextId, asked, stored>> /\ UNCHANGED net
      BY <1>2 DEF MasterStart, CleanTable, OwnIpChanges, AddSlave, Notify, net
    <2>2. task' = task \/ (task' # "await" /\ task # "await")
      BY <1>2 DEF MasterStart, CleanTable, OwnIpChanges, AddSlave, Notify
    <2>3. QED
      BY <1>2, <2>1, <2>2, QuietStep
  <1>3. ASSUME MasterIInv, Round \/ Signalled \/ PeerCloses
        PROVE  MasterIInv'
    <2>1. UNCHANGED <<errors, nextId, asked, stored>>
      BY <1>3 DEF Round, Signalled, PeerCloses
    <2>2. UNCHANGED net \/ (wire' = <<>> /\ reqs' = <<>>)
      BY <1>3 DEF Round, Signalled, PeerCloses
    <2>3. task' = task \/ (task' # "await" /\ task # "await")
      BY <1>3 DEF Round, Signalled, PeerCloses
    <2>4. QED
      BY <1>3, <2>1, <2>2, <2>3, QuietStep
  <1>4. ASSUME MasterIInv, Timeout
        PROVE  MasterIInv'
    BY <1>4, FailedStep DEF Timeout
  <1>5. QED
    BY <1>1, <1>2, <1>3, <1>4, SendStep, AnswerStep, ReceiveStep DEF MasterNext, TaskStep

-----------------------------------------------------------------------------
(* The blocks of the client table                                           *)

\* Induction over the natural numbers, for a set: the numbers outside of it would have a
\* smallest one.
LEMMA SetInduction ==
  ASSUME NEW S \in SUBSET Nat, 0 \in S, \A n \in Nat : n \in S => n + 1 \in S
  PROVE  S = Nat
  <1> DEFINE R == OpToRel(<, Nat)
  <1> SUFFICES ASSUME Nat \ S # {} PROVE FALSE
    OBVIOUS
  <1>1. IsWellFoundedOn(R, Nat)
    BY NatLessThanWellFounded
  <1>2. \A x, y \in Nat : y < x => <<y, x>> \in R
    BY DEF OpToRel
  <1> HIDE DEF R
  <1>3. PICK x \in Nat \ S : \A y \in Nat \ S : ~ (<<y, x>> \in R)
    BY <1>1, WFMin
  <1>4. x # 0 /\ x - 1 \in Nat /\ x - 1 < x
    BY <1>3
  <1>5. x - 1 \in S
    BY <1>2, <1>3, <1>4
  <1>6. x - 1 + 1 = x /\ x \notin S
    BY <1>3
  <1>7. QED
    BY <1>4, <1>5, <1>6

\* The beginning of the walk, and what its rounds make of it up to variable n.
Begun == [first |-> 1, made |-> <<>>]
IsWalk(w, n) == w = [i \in 1 .. n |-> IF i = 1 THEN Begun ELSE Advance(w[i - 1], i)]

LEMMA WalkExists ==
  ASSUME NEW n \in Nat
  PROVE  \E w : IsWalk(w, n)
  <1> DEFINE S == {k \in Nat : \E w : IsWalk(w, k)}
  <1>1. 0 \in S
    <2>1. IsWalk([i \in 1 .. 0 |-> Begun], 0)
      BY DEF IsWalk
    <2>2. QED
      BY <2>1
  <1>2. ASSUME NEW k \in Nat, k \in S
        PROVE  k + 1 \in S
    <2>1. PICK w : IsWalk(w, k)
      BY <1>2
    <2> DEFINE new == IF k = 0 THEN Begun ELSE Advance(w[k], k + 1)
               g == [i \in 1 .. (k + 1) |-> IF i <= k THEN w[i] ELSE new]
    <2>2. ASSUME NEW i \in 1 .. (k + 1)
          PROVE  g[i] = IF i = 1 THEN Begun ELSE Advance(g[i - 1], i)
      <3>1. CASE i <= k
        <4>1. g[i] = w[i] /\ (i # 1 => g[i - 1] = w[i - 1])
          BY <3>1
        <4>2. w[i] = IF i = 1 THEN Begun ELSE Advance(w[i - 1], i)
          <5> HIDE DEF g
          <5>1. i \in 1 .. k
            BY <3>1
          <5>2. QED
            BY <2>1, <5>1 DEF IsWalk
        <4> HIDE DEF g
        <4>3. QED
          BY <4>1, <4>2
      <3>2. CASE i = k + 1
        <4>1. g[i] = new /\ (i # 1 => g[i - 1] = w[k])
          BY <3>2
        <4> HIDE DEF g
        <4>2. QED
          BY <3>2, <4>1
      <3>3. QED
        BY <3>1, <3>2
    <2>3. g = [i \in 1 .. (k + 1) |-> g[i]]
      OBVIOUS
    <2> HIDE DEF g
    <2>4. IsWalk(g, k + 1)
      BY <2>2, <2>3 DEF IsWalk
    <2>5. QED
      BY <2>4
  <1> HIDE DEF S
  <1>3. S \subseteq Nat
    BY DEF S
  <1>4. n \in S
    BY <1>1, <1>2, <1>3, SetInduction
  <1>5. QED
    BY <1>4 DEF S

LEMMA WalkSteps ==
  ASSUME Len(spaces) \in Nat, Len(spaces) > 0
  PROVE  \E w : IsWalk(w, Len(spaces)) /\ Walk = w[Len(spaces)].made
  <1> DEFINE w == CHOOSE w : IsWalk(w, Len(spaces))
  <1>1. IsWalk(w, Len(spaces))
    BY WalkExists
  <1>2. Walk = w[Len(spaces)].made
    BY DEF Walk, IsWalk, Begun
  <1>3. QED
    BY <1>1, <1>2

\* The block holds every variable of its space.
Whole(b) ==
  \A k \in 1 .. Len(spaces) : spaces[k].space = spaces[b.first].space => Holds(b, spaces[k])

LEMMA Tabled ==
  ASSUME LaidOut(spaces)
  PROVE  /\ Len(spaces) \in Nat /\ Len(spaces) > 0
         /\ \A k \in 1 .. Len(spaces) : spaces[k].addr \in Nat /\ spaces[k].words \in Nat
  <1> DEFINE V == [space : Nat, addr : Nat, words : Nat]
  <1>1. \A x \in V : x.addr \in Nat /\ x.words \in Nat
    OBVIOUS
  <1>2. spaces \in Seq(V) /\ spaces # <<>>
    BY DEF LaidOut
  <1> HIDE DEF V
  <1>3. QED
    BY <1>1, <1>2

\* The variables of a space are neighbours.
LEMMA Neighbours ==
  ASSUME LaidOut(spaces), NEW i \in 1 .. Len(spaces), NEW j \in 1 .. Len(spaces), i < j,
         spaces[i].space = spaces[j].space
  PROVE  /\ spaces[i].addr + spaces[i].words <= spaces[j].addr
         /\ \A k \in i .. j : spaces[k].space = spaces[i].space
  BY DEF LaidOut

\* A block from the first variable of a space to its last one holds what lies between them.
LEMMA BlockWhole ==
  ASSUME LaidOut(spaces), NEW first \in 1 .. Len(spaces), NEW last \in first .. Len(spaces),
         spaces[first].space = spaces[last].space,
         \A k \in 1 .. first - 1 : spaces[k].space # spaces[last].space,
         \A k \in last + 1 .. Len(spaces) : spaces[k].space # spaces[last].space
  PROVE  Whole(Block(first, last))
  <1>1. Len(spaces) \in Nat /\ last \in 1 .. Len(spaces) /\ first <= last /\ first \in Nat /\ last \in Nat
    BY Tabled
  <1>2. /\ spaces[first].addr \in Nat /\ spaces[first].words \in Nat
        /\ spaces[last].addr \in Nat /\ spaces[last].words \in Nat
    BY <1>1, Tabled
  <1>3. ASSUME NEW k \in 1 .. Len(spaces), spaces[k].space = spaces[first].space
        PROVE  /\ spaces[k].addr >= spaces[first].addr
               /\ spaces[k].addr + spaces[k].words <= spaces[last].addr + spaces[last].words
    <2>1. first <= k /\ k <= last /\ k \in Nat
      BY <1>1, <1>3
    <2>2. first < k => spaces[first].addr + spaces[first].words <= spaces[k].addr
      BY <1>3, Neighbours
    <2>3. k < last => spaces[k].addr + spaces[k].words <= spaces[last].addr
      BY <1>1, <1>3, Neighbours
    <2>4. spaces[k].addr \in Nat /\ spaces[k].words \in Nat
      BY Tabled
    <2>5. first = k \/ first < k
      BY <2>1
    <2>6. k = last \/ k < last
      BY <1>1, <2>1
    <2>7. spaces[k].addr >= spaces[first].addr
      BY <1>2, <2>2, <2>4, <2>5
    <2>8. spaces[k].addr + spaces[k].words <= spaces[last].addr + spaces[last].words
      <3>1. CASE k = last
        BY <1>2, <3>1
      <3>2. CASE k < last
        BY <1>2, <2>3, <2>4, <3>2
      <3>3. QED
        BY <2>6, <3>1, <3>2
    <2>9. QED
      BY <2>7, <2>8
  <1>4. /\ Block(first, last).first = first
        /\ Block(first, last).words = spaces[last].addr - spaces[first].addr + spaces[last].words
    BY DEF Block
  <1>5. spaces[first].addr + Block(first, last).words = spaces[last].addr + spaces[last].words
    BY <1>2, <1>4
  <1>6. QED
    BY <1>3, <1>4, <1>5 DEF Whole, Holds

\* What the loop has made when it has seen the variables up to i: whole blocks of different
\* spaces, one for each space but the one it is in, which begins at first.
Made == [first : 1 .. Len(spaces), words : Int]
Begins(p, i) ==
  /\ p = [first |-> p.first, made |-> p.made] /\ p.first \in 1 .. i
  /\ spaces[p.first].space = spaces[i].space
  /\ \A k \in 1 .. p.first - 1 : spaces[k].space # spaces[i].space
Apart(made) ==
  \A b, c \in 1 .. Len(made) : spaces[made[c].first].space = spaces[made[b].first].space => c = b
Listed(made, i) ==
  /\ made \in Seq(Made) /\ Apart(made)
  /\ IsFiniteSet(SpacesTo(i)) /\ Cardinality(SpacesTo(i)) = Len(made) + 1
  /\ \A b \in 1 .. Len(made) :
       /\ Whole(made[b]) /\ made[b].first \in 1 .. i
       /\ spaces[made[b].first].space # spaces[i].space
  /\ \A k \in 1 .. i : spaces[k].space # spaces[i].space =>
       \E b \in 1 .. Len(made) : spaces[made[b].first].space = spaces[k].space
Seen(p, i) == Begins(p, i) /\ Listed(p.made, i)

\* The part of a round before the test for the last variable.
Turn(p, i) ==
  IF spaces[i].space # spaces[i - 1].space
  THEN [first |-> i, made |-> Append(p.made, Block(p.first, i - 1))] ELSE p

LEMMA BlockMade ==
  ASSUME LaidOut(spaces), NEW first \in 1 .. Len(spaces), NEW last \in 1 .. Len(spaces)
  PROVE  Block(first, last) \in Made /\ Block(first, last).first = first
  BY Tabled DEF Block, Made

\* One more block, of a space that has none yet.
LEMMA BlockAdded ==
  ASSUME NEW made \in Seq(Made), NEW new \in Made, NEW f, f = [b \in 1 .. Len(made) |-> made[b]]
  PROVE  /\ Append(made, new) \in Seq(Made) /\ Len(Append(made, new)) = Len(made) + 1
         /\ \A b \in 1 .. Len(made) : Append(made, new)[b] = made[b]
         /\ Append(made, new)[Len(made) + 1] = new
         /\ Len(made) \in Nat
  OBVIOUS

LEMMA TurnSeen ==
  ASSUME LaidOut(spaces), NEW i \in 1 .. Len(spaces) - 1, NEW p, Seen(p, i)
  PROVE  Seen(Turn(p, i + 1), i + 1)
  <1> DEFINE n == Len(spaces)
             q == Turn(p, i + 1)
  <1>1. n \in Nat /\ i \in 1 .. n /\ i + 1 \in 1 .. n /\ p.first \in 1 .. n /\ p.first \in 1 .. i
    BY Tabled DEF Seen, Begins
  <1>2. SpacesTo(i + 1) = SpacesTo(i) \cup {spaces[i + 1].space}
    BY <1>1 DEF SpacesTo
  <1>3. CASE spaces[i + 1].space = spaces[i].space
    <2>1. q = p
      BY <1>1, <1>3 DEF Turn
    <2>2. spaces[i].space \in SpacesTo(i)
      BY <1>1 DEF SpacesTo
    <2>3. SpacesTo(i + 1) = SpacesTo(i)
      BY <1>2, <1>3, <2>2
    <2>4. \A k \in 1 .. i + 1 : k \in 1 .. i \/ spaces[k].space = spaces[i].space
      BY <1>1, <1>3
    <2>5. \A k \in 1 .. i : k \in 1 .. i + 1
      BY <1>1
    <2>6. Begins(p, i + 1)
      BY <1>1, <1>3, <2>5 DEF Seen, Begins
    <2>7. Listed(p.made, i + 1)
      BY <1>3, <2>3, <2>4, <2>5 DEF Seen, Listed
    <2> HIDE DEF q
    <2>8. QED
      BY <2>1, <2>6, <2>7 DEF Seen, q
  <1>4. CASE spaces[i + 1].space # spaces[i].space
    <2> DEFINE new == Block(p.first, i)
    <2>1. q = [first |-> i + 1, made |-> Append(p.made, new)]
      <3>1. (i + 1) - 1 = i
        BY <1>1
      <3>2. QED
        BY <1>4, <3>1 DEF Turn
    <2>2. new \in Made /\ new.first = p.first
      BY <1>1, BlockMade
    <2>3. ASSUME NEW k \in 1 .. i, spaces[k].space = spaces[i + 1].space
          PROVE  FALSE
      <3>1. k \in 1 .. n /\ k < i + 1 /\ i \in k .. i + 1
        BY <1>1
      <3>2. QED
        BY <1>1, <1>4, <2>3, <3>1, Neighbours
    <2>4. ASSUME NEW k \in i + 1 .. n, spaces[k].space = spaces[i].space
          PROVE  FALSE
      <3>1. k \in 1 .. n /\ i < k /\ i + 1 \in i .. k
        BY <1>1
      <3>2. QED
        BY <1>1, <1>4, <2>4, <3>1, Neighbours
    <2>5. Whole(new)
      <3>1. p.first \in 1 .. n /\ i \in p.first .. n
        BY <1>1
      <3>2. spaces[p.first].space = spaces[i].space /\ \A k \in 1 .. p.first - 1 : spaces[k].space # spaces[i].space
        BY DEF Seen, Begins
      <3>3. QED
        BY <2>4, <3>1, <3>2, BlockWhole
    <2> HIDE DEF new, q
    <2>6. spaces[new.first].space = spaces[i].space
      BY <2>2 DEF Seen, Begins, Listed
    <2>7. /\ q.made \in Seq(Made) /\ Len(q.made) = Len(p.made) + 1 /\ Len(p.made) \in Nat
          /\ \A b \in 1 .. Len(p.made) : q.made[b] = p.made[b]
          /\ q.made[Len(p.made) + 1] = new
          /\ q.first = i + 1 /\ q = [first |-> q.first, made |-> q.made]
      BY <2>1, <2>2, BlockAdded DEF Seen, Begins, Listed
    <2>8. spaces[i + 1].space \notin SpacesTo(i)
      BY <2>3 DEF SpacesTo
    <2>9. IsFiniteSet(SpacesTo(i + 1)) /\ Cardinality(SpacesTo(i + 1)) = Len(q.made) + 1
      <3>1. IsFiniteSet(SpacesTo(i)) /\ Cardinality(SpacesTo(i)) = Len(p.made) + 1
        BY DEF Seen, Begins, Listed
      <3>2. /\ IsFiniteSet(SpacesTo(i) \cup {spaces[i + 1].space})
            /\ Cardinality(SpacesTo(i) \cup {spaces[i + 1].space}) = Cardinality(SpacesTo(i)) + 1
        BY <2>8, <3>1, FS_AddElement
      <3>3. QED
        BY <1>2, <2>7, <3>1, <3>2
    <2>10. ASSUME NEW b \in 1 .. Len(q.made)
           PROVE  \/ b \in 1 .. Len(p.made) /\ q.made[b] = p.made[b]
                  \/ b = Len(p.made) + 1 /\ q.made[b] = new
      BY <2>7
    <2>11. /\ \A b \in 1 .. Len(p.made) :
                Whole(p.made[b]) /\ p.made[b].first \in 1 .. i /\ spaces[p.made[b].first].space # spaces[i].space
           /\ Apart(p.made)
      BY DEF Seen, Listed
    <2>12. ASSUME NEW b \in 1 .. Len(q.made)
           PROVE  Whole(q.made[b]) /\ q.made[b].first \in 1 .. i
      BY <1>1, <2>2, <2>5, <2>10, <2>11
    <2>13. Apart(q.made)
      <3>1. ASSUME NEW b \in 1 .. Len(q.made), NEW c \in 1 .. Len(q.made),
                   spaces[q.made[c].first].space = spaces[q.made[b].first].space
            PROVE  c = b
        <4>1. CASE b \in 1 .. Len(p.made) /\ q.made[b] = p.made[b] /\ c \in 1 .. Len(p.made) /\ q.made[c] = p.made[c]
          BY <2>11, <3>1, <4>1 DEF Apart
        <4>2. CASE b = Len(p.made) + 1 /\ q.made[b] = new /\ c \in 1 .. Len(p.made) /\ q.made[c] = p.made[c]
          BY <2>6, <2>11, <3>1, <4>2
        <4>3. CASE c = Len(p.made) + 1 /\ q.made[c] = new /\ b \in 1 .. Len(p.made) /\ q.made[b] = p.made[b]
          BY <2>6, <2>11, <3>1, <4>3
        <4>4. QED
          BY <2>10, <4>1, <4>2, <4>3
      <3>2. QED
        BY <3>1 DEF Apart
    <2>14. ASSUME NEW k \in 1 .. i
           PROVE  \E b \in 1 .. Len(q.made) : spaces[q.made[b].first].space = spaces[k].space
      <3>1. CASE spaces[k].space = spaces[i].space
        <4>1. Len(p.made) + 1 \in 1 .. Len(q.made)
          BY <2>7
        <4>2. QED
          BY <2>6, <2>7, <3>1, <4>1
      <3>2. CASE spaces[k].space # spaces[i].space
        <4>1. PICK b \in 1 .. Len(p.made) : spaces[p.made[b].first].space = spaces[k].space
          BY <3>2 DEF Seen, Listed
        <4>2. b \in 1 .. Len(q.made) /\ q.made[b] = p.made[b]
          BY <2>7
        <4>3. QED
          BY <4>1, <4>2
      <3>3. QED
        BY <3>1, <3>2
    <2>15. \A k \in 1 .. i + 1 : k \in 1 .. i \/ k = i + 1
      BY <1>1
    <2>16. Listed(q.made, i + 1)
      <3>1. \A b \in 1 .. Len(q.made) :
              q.made[b].first \in 1 .. i + 1 /\ spaces[q.made[b].first].space # spaces[i + 1].space
        BY <1>1, <2>3, <2>12
      <3>2. QED
        BY <2>7, <2>9, <2>12, <2>13, <2>14, <2>15, <3>1 DEF Listed
    <2>17. Begins(q, i + 1)
      <3>1. q.first \in 1 .. i + 1 /\ \A k \in 1 .. q.first - 1 : k \in 1 .. i
        BY <1>1, <2>7
      <3>2. QED
        BY <2>3, <2>7, <3>1 DEF Begins
    <2>18. QED
      BY <2>16, <2>17 DEF Seen, q
  <1>5. QED
    BY <1>3, <1>4

\* The loop does not end before the last variable while there is room for all spaces.
LEMMA RoomLeft ==
  ASSUME LaidOut(spaces), MaxSpaces \in Nat, Cardinality(SpacesTo(Len(spaces))) <= MaxSpaces,
         IsFiniteSet(SpacesTo(Len(spaces))), NEW i \in 1 .. Len(spaces), NEW p, Seen(p, i)
  PROVE  Len(p.made) < MaxSpaces
  <1>1. SpacesTo(i) \subseteq SpacesTo(Len(spaces))
    BY Tabled DEF SpacesTo
  <1>2. Cardinality(SpacesTo(i)) <= Cardinality(SpacesTo(Len(spaces)))
    BY <1>1, FS_Subset
  <1>3. Cardinality(SpacesTo(Len(spaces))) \in Nat /\ Len(p.made) \in Nat
    BY FS_CardinalityType DEF Seen, Begins, Listed
  <1>4. QED
    BY <1>2, <1>3 DEF Seen, Begins, Listed

LEMMA SpacesFinite ==
  ASSUME NEW n \in Nat
  PROVE  IsFiniteSet(SpacesTo(n))
  <1> DEFINE f == [i \in 1 .. n |-> spaces[i].space]
  <1>1. IsFiniteSet(1 .. n)
    BY FS_Interval
  <1>2. f \in Surjection(1 .. n, SpacesTo(n))
    BY DEF SpacesTo, Surjection
  <1>3. QED
    BY <1>1, <1>2, FS_Surjection

\* Every variable has one block that holds it.
LEMMA WalkCovers ==
  ASSUME LaidOut(spaces), MaxSpaces \in Nat, Len(spaces) > 1, NEW made, made = Walk,
         Cardinality(SpacesTo(Len(spaces))) <= MaxSpaces
  PROVE  /\ Len(made) <= MaxSpaces
         /\ \A i \in 1 .. Len(spaces) : \E b \in 1 .. Len(made) :
              /\ Holds(made[b], spaces[i])
              /\ \A c \in 1 .. Len(made) : Holds(made[c], spaces[i]) => c = b
  <1> DEFINE n == Len(spaces)
  <1>1. n \in Nat /\ n > 1 /\ IsFiniteSet(SpacesTo(n))
    BY SpacesFinite DEF LaidOut
  <1>2. PICK w : IsWalk(w, n) /\ Walk = w[n].made
    BY <1>1, WalkSteps
  <1> DEFINE S == {k \in Nat : k + 1 < n => Seen(w[k + 1], k + 1)}
  <1>3. 0 \in S
    <2>1. w[1] = Begun
      BY <1>1, <1>2 DEF IsWalk
    <2>2. Begun.first = 1 /\ Begun.made = <<>> /\ Begun = [first |-> Begun.first, made |-> Begun.made]
      BY DEF Begun
    <2>3. SpacesTo(1) = {spaces[1].space}
      BY DEF SpacesTo
    <2>4. IsFiniteSet(SpacesTo(1)) /\ Cardinality(SpacesTo(1)) = 1
      BY <2>3, FS_Singleton
    <2>5. Len(<<>>) = 0 /\ <<>> \in Seq(Made)
      OBVIOUS
    <2>6. Begins(Begun, 1)
      BY <2>2 DEF Begins
    <2>7. Listed(<<>>, 1)
      <3>1. \A k \in 1 .. 1 : spaces[k].space = spaces[1].space
        OBVIOUS
      <3>2. \A b \in 1 .. 0 : FALSE
        OBVIOUS
      <3>3. QED
        BY <2>4, <2>5, <3>1, <3>2 DEF Listed, Apart
    <2>8. Seen(Begun, 1)
      BY <2>2, <2>6, <2>7 DEF Seen
    <2>9. QED
      BY <2>1, <2>8
  <1>4. ASSUME NEW k \in Nat, k \in S
        PROVE  k + 1 \in S
    <2> SUFFICES ASSUME k + 2 < n
                 PROVE  Seen(w[k + 2], k + 2)
      BY <1>1
    <2>1. /\ k + 1 \in 1 .. n - 1 /\ k + 2 \in 1 .. n /\ k + 2 # 1 /\ k + 2 # n
          /\ k + 1 \in 1 .. n /\ (k + 1) + 1 = k + 2 /\ (k + 2) - 1 = k + 1
      BY <1>1
    <2>2. Seen(w[k + 1], k + 1)
      BY <1>1, <1>4, <2>1
    <2>3. w[k + 2] = Advance(w[k + 1], k + 2)
      BY <1>2, <2>1 DEF IsWalk
    <2>4. ~ (Len(w[k + 1].made) >= MaxSpaces)
      <3>1. Len(w[k + 1].made) < MaxSpaces
        BY <1>1, <2>1, <2>2, RoomLeft
      <3>2. Len(w[k + 1].made) \in Nat
        BY <2>2 DEF Seen, Listed
      <3>3. QED
        BY <3>1, <3>2
    <2>5. w[k + 2] = Turn(w[k + 1], k + 2)
      BY <2>1, <2>3, <2>4 DEF Advance, Turn
    <2>6. Seen(Turn(w[k + 1], (k + 1) + 1), (k + 1) + 1)
      BY <2>1, <2>2, TurnSeen
    <2>7. QED
      BY <2>1, <2>5, <2>6
  <1> HIDE DEF S
  <1>5. S = Nat
    BY <1>3, <1>4, SetInduction DEF S
  <1>6. Seen(w[n - 1], n - 1)
    <2>1. n - 2 \in Nat /\ (n - 2) + 1 = n - 1 /\ n - 1 < n
      BY <1>1
    <2>2. QED
      BY <1>5, <2>1 DEF S
  <1> DEFINE q == Turn(w[n - 1], n)
             new == Block(q.first, n)
  <1>7. Seen(q, n) /\ n - 1 \in 1 .. n - 1
    <2>1. n - 1 \in 1 .. n - 1 /\ (n - 1) + 1 = n
      BY <1>1
    <2>2. Seen(Turn(w[n - 1], (n - 1) + 1), (n - 1) + 1)
      BY <1>6, <2>1, TurnSeen
    <2>3. QED
      BY <2>1, <2>2
  <1> HIDE DEF q
  <1>8. made = Append(q.made, new)
    <2>1. w[n] = Advance(w[n - 1], n)
      <3>1. \A m \in Nat : m > 1 => m \in 1 .. m /\ m # 1
        OBVIOUS
      <3>2. n \in 1 .. n /\ n # 1
        BY <1>1, <3>1
      <3>3. QED
        BY <1>2, <3>2 DEF IsWalk
    <2>2. ~ (Len(w[n - 1].made) >= MaxSpaces)
      <3>1. n - 1 \in 1 .. n
        BY <1>1
      <3>2. Len(w[n - 1].made) < MaxSpaces
        BY <1>1, <1>6, <3>1, RoomLeft
      <3>3. Len(w[n - 1].made) \in Nat
        BY <1>6 DEF Seen, Listed
      <3>4. QED
        BY <3>2, <3>3
    <2>3. w[n] = [q EXCEPT !.made = Append(@, new)]
      BY <2>1, <2>2 DEF Advance, Turn, q
    <2>4. q = [first |-> q.first, made |-> q.made]
      BY <1>7 DEF Seen, Begins, Listed
    <2>5. [q EXCEPT !.made = Append(@, new)].made = Append(q.made, new)
      BY <2>4
    <2>6. QED
      BY <1>2, <2>3, <2>5
  <1>9. new \in Made /\ new.first = q.first /\ Whole(new) /\ spaces[new.first].space = spaces[n].space
    <2>1. q.first \in 1 .. n /\ n \in 1 .. n /\ n \in q.first .. n
      BY <1>1, <1>7 DEF Seen, Begins, Listed
    <2>2. new \in Made /\ new.first = q.first
      BY <2>1, BlockMade
    <2>3. \A k \in n + 1 .. n : FALSE
      BY <1>1
    <2>4. Whole(new)
      BY <1>7, <2>1, <2>3, BlockWhole DEF Seen, Begins, Listed
    <2>5. QED
      BY <1>7, <2>2, <2>4 DEF Seen, Begins, Listed
  <1> HIDE DEF new
  <1>10. /\ Len(made) = Len(q.made) + 1 /\ Len(q.made) \in Nat
         /\ \A b \in 1 .. Len(q.made) : made[b] = q.made[b]
         /\ made[Len(q.made) + 1] = new
    BY <1>7, <1>8, <1>9, BlockAdded DEF Seen, Begins, Listed
  <1>11. Len(made) <= MaxSpaces
    BY <1>7, <1>10 DEF Seen, Begins, Listed
  <1>12. ASSUME NEW b \in 1 .. Len(made)
         PROVE  \/ b \in 1 .. Len(q.made) /\ made[b] = q.made[b]
                \/ b = Len(q.made) + 1 /\ made[b] = new
    BY <1>10
  <1>13. ASSUME NEW i \in 1 .. n
         PROVE  \E b \in 1 .. Len(made) :
                  /\ Holds(made[b], spaces[i])
                  /\ \A c \in 1 .. Len(made) : Holds(made[c], spaces[i]) => c = b
    <2>1. PICK b \in 1 .. Len(made) : spaces[made[b].first].space = spaces[i].space
      <3>1. CASE spaces[i].space = spaces[n].space
        BY <1>9, <1>10, <3>1
      <3>2. CASE spaces[i].space # spaces[n].space
        <4>1. PICK c \in 1 .. Len(q.made) : spaces[q.made[c].first].space = spaces[i].space
          BY <1>7, <3>2 DEF Seen, Begins, Listed
        <4>2. c \in 1 .. Len(made) /\ made[c] = q.made[c]
          BY <1>10
        <4>3. QED
          BY <4>1, <4>2
      <3>3. QED
        BY <3>1, <3>2
    <2>2. Whole(made[b])
      BY <1>7, <1>9, <1>12 DEF Seen, Begins, Listed
    <2>3. Holds(made[b], spaces[i])
      BY <2>1, <2>2 DEF Whole
    <2>4. ASSUME NEW c \in 1 .. Len(made), Holds(made[c], spaces[i])
          PROVE  c = b
      <3>1. spaces[made[c].first].space = spaces[made[b].first].space
        BY <2>1, <2>4 DEF Holds
      <3>2. /\ Apart(q.made)
            /\ \A e \in 1 .. Len(q.made) : spaces[q.made[e].first].space # spaces[n].space
        BY <1>7 DEF Seen, Listed
      <3>3. CASE b \in 1 .. Len(q.made) /\ made[b] = q.made[b]
        <4>1. c \in 1 .. Len(q.made) /\ made[c] = q.made[c]
          BY <1>9, <1>12, <3>1, <3>2, <3>3
        <4>2. QED
          BY <3>1, <3>2, <3>3, <4>1 DEF Apart
      <3>4. CASE b = Len(q.made) + 1 /\ made[b] = new
        BY <1>9, <1>12, <3>1, <3>2, <3>4
      <3>5. QED
        BY <1>12, <3>3, <3>4
    <2>5. QED
      BY <2>3, <2>4
  <1>14. QED
    BY <1>11, <1>13

-----------------------------------------------------------------------------
(* What the master asks for                                                 *)

\* The newest entry of the slave is one of the table.
LEMMA LookupTyped ==
  ASSUME slaves \in Seq([ip : Ips, id : Ids]), serverIp \in Ips \cup {NoIp}
  PROVE  Lookup \in Ips \cup {NoIp}
  <1> DEFINE T == [ip : Ips, id : Ids]
             S == {Len(slaves) - i : i \in Matching}
             R == OpToRel(<, Nat)
  <1>1. Len(slaves) \in Nat /\ \A i \in Matching : i \in 1 .. Len(slaves)
    BY DEF Matching
  <1>2. ASSUME Matching # {}
        PROVE  \E i \in Matching : \A j \in Matching : i >= j
    <2>1. S \subseteq Nat /\ S # {}
      BY <1>1, <1>2
    <2>2. \A x, y \in Nat : y < x => <<y, x>> \in R
      BY DEF OpToRel
    <2>3. IsWellFoundedOn(R, Nat)
      BY NatLessThanWellFounded
    <2> HIDE DEF R
    <2>4. PICK x \in S : \A y \in S : ~ (<<y, x>> \in R)
      BY <2>1, <2>3, WFMin
    <2>5. PICK i \in Matching : x = Len(slaves) - i
      BY <2>4
    <2>6. ASSUME NEW j \in Matching
          PROVE  i >= j
      <3>1. Len(slaves) - j \in S
        OBVIOUS
      <3>2. ~ (Len(slaves) - j < x)
        BY <2>1, <2>2, <2>4, <3>1
      <3>3. i \in Int /\ j \in Int
        BY <1>1
      <3>4. QED
        BY <1>1, <2>5, <3>2, <3>3
    <2>7. QED
      BY <2>6
  <1>3. \A x \in T : x.ip \in Ips
    OBVIOUS
  <1>4. slaves \in Seq(T)
    OBVIOUS
  <1> HIDE DEF T
  <1>5. \A i \in Matching : slaves[i].ip \in Ips
    BY <1>1, <1>3, <1>4
  <1>6. CASE Matching = {}
    BY <1>6 DEF Lookup
  <1>7. CASE Matching # {}
    <2> DEFINE last == CHOOSE i \in Matching : \A j \in Matching : i >= j
    <2>1. last \in Matching
      BY <1>2, <1>7
    <2>2. Lookup = slaves[last].ip
      BY <1>7 DEF Lookup
    <2> HIDE DEF last
    <2>3. QED
      BY <1>5, <2>1, <2>2
  <1>8. QED
    BY <1>6, <1>7

\* A packet has the length it is checked for; a byte counts its words or its bits.
LEMMA AskFits ==
  ASSUME ask \in Lens
  PROVE  AskAccepted
  <1>1. ask.count \in Nat
    BY Requested
  <1>2. ByteCount(ask) \in 0 .. 255
    BY <1>1 DEF ByteCount
  <1>3. QED
    BY <1>2 DEF AskAccepted, RequestLen, CheckedLen

LEMMA TablesStep ==
  ASSUME TablesKept, MasterIInv', MasterNext
  PROVE  TablesKept'
  <1> DEFINE Entry == [ip : Ips, id : Ids]
  <1>1. /\ spaces \in ClientTables /\ ask \in Lens /\ BlocksCover
        /\ slaves \in Seq(Entry) /\ Len(slaves) <= MaxSlaves
        /\ task \in {"init", "round", "send", "await", "gone"} /\ sock \in {"none", "open", "dead"}
        /\ serverIp \in Ips \cup {NoIp}
    BY DEF TablesKept, MasterTypeOK
  <1>2. nextId' \in 0 .. IdSpace - 1 /\ errors' \in 0 .. MaxErrors
    BY DEF MasterIInv, NetTypeOK
  <1>3. TablesKept' <=>
          /\ task' \in {"init", "round", "send", "await", "gone"} /\ sock' \in {"none", "open", "dead"}
          /\ serverIp' \in Ips \cup {NoIp} /\ Len(slaves') <= MaxSlaves /\ BlocksCover'
          /\ spaces' \in ClientTables /\ ask' \in Lens /\ slaves' \in Seq(Entry)
    BY <1>2 DEF TablesKept, MasterTypeOK
  <1>4. ASSUME UNCHANGED <<spaces, blocks>>, task # "init"
        PROVE  BlocksCover'
    BY <1>1, <1>4 DEF BlocksCover, Holds, SpacesTo
  <1>5. ASSUME UNCHANGED <<spaces, blocks>>, task' = task
        PROVE  BlocksCover'
    BY <1>1, <1>5 DEF BlocksCover, Holds, SpacesTo
  <1> HIDE DEF Entry
  <1>6. CASE MasterStart
    <2>1. /\ blocks' = Walk /\ task' = "round" /\ UNCHANGED <<spaces, slaves, serverIp, sock, ask>>
      BY <1>6 DEF MasterStart
    <2>2. LaidOut(spaces) /\ MaxSpaces \in Nat
      BY <1>1, Requested
    <2>3. BlocksCover'
      <3> DEFINE Covered(made) ==
                   /\ Len(made) <= MaxSpaces
                   /\ \A i \in 1 .. Len(spaces) : \E b \in 1 .. Len(made) :
                        /\ Holds(made[b], spaces[i])
                        /\ \A c \in 1 .. Len(made) : Holds(made[c], spaces[i]) => c = b
      <3>1. Len(spaces) > 1 /\ Cardinality(SpacesTo(Len(spaces))) <= MaxSpaces => Covered(Walk)
        BY <2>2, WalkCovers
      <3>2. Covered(Walk) = Covered(blocks')
        BY <2>1
      <3>3. SpacesTo(Len(spaces))' = SpacesTo(Len(spaces))
        BY <2>1 DEF SpacesTo
      <3>4. \A b, v : Holds(b, v)' <=> Holds(b, v)
        BY <2>1 DEF Holds
      <3>5. QED
        BY <2>1, <3>1, <3>2, <3>3, <3>4 DEF BlocksCover
    <2>4. QED
      BY <1>1, <1>3, <2>1, <2>3
  <1>7. CASE Round \/ Signalled
    <2>1. UNCHANGED <<spaces, blocks, slaves, ask>> /\ task = "round" /\ task' \in {"round", "send", "gone"}
      BY <1>7 DEF Round, Signalled
    <2>2. Lookup \in Ips \cup {NoIp}
      BY <1>1, LookupTyped DEF Entry
    <2>3. serverIp' \in Ips \cup {NoIp}
      BY <1>7, <2>2 DEF Round, Signalled
    <2>4. sock' \in {"none", "open", "dead"}
      BY <1>1, <1>7 DEF Round, Signalled
    <2>5. QED
      BY <1>1, <1>3, <1>4, <2>1, <2>3, <2>4
  <1>8. CASE Send \/ Timeout \/ \E k \in 1 .. Len(wire) : Receive(k)
    <2>1. /\ UNCHANGED <<spaces, blocks, slaves, serverIp, ask>> /\ task \in {"send", "await"}
          /\ task' \in {"round", "await"} /\ sock' \in {sock, "none"}
      BY <1>8 DEF Send, Timeout, Receive, Failed, outside
    <2>2. QED
      BY <1>1, <1>3, <1>4, <2>1
  <1>9. ASSUME NEW ip \in Ips, NEW id \in Ids, AddSlave(ip, id)
        PROVE  TablesKept'
    <2>1. /\ UNCHANGED <<spaces, blocks, task, sock, serverIp, ask>> /\ Len(slaves) < MaxSlaves
          /\ slaves' = Append(slaves, [ip |-> ip, id |-> id])
      BY <1>9 DEF AddSlave
    <2>2. [ip |-> ip, id |-> id] \in Entry
      BY DEF Entry
    <2>3. slaves' \in Seq(Entry) /\ Len(slaves') = Len(slaves) + 1 /\ Len(slaves) \in Nat
      BY <1>1, <2>1, <2>2
    <2>4. Len(slaves') <= MaxSlaves
      BY <2>1, <2>3, Requested
    <2>5. QED
      BY <1>1, <1>3, <1>5, <2>1, <2>3, <2>4
  <1>10. CASE CleanTable
    <2>1. UNCHANGED <<spaces, blocks, task, sock, serverIp, ask>> /\ slaves' = <<>>
      BY <1>10 DEF CleanTable
    <2>2. <<>> \in Seq(Entry) /\ Len(<<>>) = 0
      OBVIOUS
    <2>3. QED
      BY <1>1, <1>3, <1>5, <2>1, <2>2, Requested
  <1>11. CASE OwnIpChanges \/ PeerCloses \/ (\E good \in BOOLEAN : Answer(good))
                \/ \E s \in {"close", "stop"} : Notify(s)
    <2>1. UNCHANGED <<spaces, blocks, slaves, task, serverIp, ask>> /\ sock' \in {sock, "dead"}
      BY <1>11 DEF OwnIpChanges, PeerCloses, Answer, Notify, outside
    <2>2. QED
      BY <1>1, <1>3, <1>5, <2>1
  <1>12. QED
    BY <1>6, <1>7, <1>8, <1>9, <1>10, <1>11 DEF MasterNext, TaskStep

(* The blocks of the client table hold each of its variables once and fit  *)
(* into their array (modbus_master_init), and every request is one that    *)
(* the checks of a slave accept. The registers hold the answer to the last *)
(* request, never one to a request whose time had run out:                 *)
(* modbus_master_execute_request compares the identifier of an answer with *)
(* its own, and the connection is closed before so many answers are        *)
(* missing that the identifiers start again. For tables of any length and  *)
(* any number of identifiers above the errors that are tolerated.          *)
THEOREM AnswersRightHolds == MasterSpec => []AnswersRight
  <1>1. MasterInit => MasterIInv
    BY Identifiers DEF MasterInit, MasterIInv, NetTypeOK, FewOnTheirWay, LastAsked, FreshAnswer
  <1>2. MasterInit => TablesKept
    BY Identifiers, Requested DEF MasterInit, TablesKept, MasterTypeOK, BlocksCover
  <1>3. (MasterIInv /\ TablesKept) /\ [MasterNext]_masterVars => (MasterIInv /\ TablesKept)'
    <2>1. ASSUME TablesKept, UNCHANGED masterVars
          PROVE  TablesKept'
      BY <2>1 DEF masterVars, TablesKept, MasterTypeOK, BlocksCover, Holds, SpacesTo
    <2>2. QED
      BY <2>1, MasterStep, TablesStep
  <1>4. MasterIInv /\ TablesKept => AnswersRight
    BY AskFits DEF MasterIInv, TablesKept, AnswersRight
  <1>5. QED
    BY <1>1, <1>2, <1>3, <1>4, PTL DEF MasterSpec

-----------------------------------------------------------------------------
(* The HTTP client                                                          *)

\* The request ends, and what was there of it is freed.
LEMMA CloseStep ==
  ASSUME ClientIInv, stage \in {"dns", "connecting", "up"}, NEW r \in Results, Close(r),
         UNCHANGED <<reply, parse, rxLen, hdrLen, given, returned>>,
         arrived' = arrived \/ (parse # "data" /\ arrived' \in 0 .. Pieces), ticks' \in 0 .. PollTimeout,
         r = "ok" => Verdict = "ok"
  PROVE  ClientIInv'
  <1> USE DEF ClientIInv
  <1>1. /\ results = <<>> /\ returned = "ok" /\ results' = <<r>> /\ stage' = "over" /\ held' = {}
        /\ Pieces' = Pieces
    <2>1. FreeState(FsFree(held)) = {}
      BY DEF StagesKept, FreeState, FsFree
    <2>2. results = <<>> /\ returned = "ok"
      BY DEF StagesKept
    <2>3. results' = Append(<<>>, r)
      BY <2>2 DEF Close
    <2>4. Append(<<>>, r) = <<r>>
      OBVIOUS
    <2>5. QED
      BY <2>1, <2>2, <2>3, <2>4 DEF Close, Pieces
  <1>2. StagesKept'
    BY <1>1 DEF StagesKept
  <1>3. HeadersFirst'
    BY <1>1 DEF HeadersFirst
  <1>4. BodyInOrder'
    BY DEF BodyInOrder
  <1>5. OkIsWhole'
    <2> SUFFICES ASSUME r = "ok"
                 PROVE  OkIsWhole'
      BY <1>1 DEF OkIsWhole
    <2>1. parse = "data" /\ (hdrLen = Invalid \/ hdrLen = rxLen)
      BY DEF Verdict
    <2>2. QED
      BY <2>1 DEF OkIsWhole, HeadersFirst, BodyInOrder
  <1>6. QED
    BY <1>1, <1>2, <1>3, <1>4, <1>5

LEMMA StartStep ==
  ASSUME ClientIInv, StartFails \/ Start("dns") \/ Start("connecting")
  PROVE  ClientIInv'
  <1> USE DEF ClientIInv
  <1>1. stage = "idle" /\ results = <<>> /\ UNCHANGED <<reply, arrived, parse, rxLen, hdrLen, given, results>>
    BY DEF StagesKept, StartFails, Start
  <1>2. HeadersFirst' /\ OkIsWhole' /\ BodyInOrder'
    BY <1>1 DEF HeadersFirst, OkIsWhole, BodyInOrder, Pieces, StartFails, Start
  <1>3. StagesKept' /\ ticks' \in 0 .. PollTimeout
    BY <1>1, ReplyNumbers DEF StagesKept, StartFails, Start, FreeState, FsFree, Clients, Prefixes
  <1>4. QED
    BY <1>1, <1>2, <1>3 DEF StartFails, Start

\* The body in a segment is what comes after the headers.
LEMMA BodyCounted ==
  ASSUME arrived \in Nat, NEW total \in Nat, arrived <= total, total >= 2
  PROVE  Cardinality(Body(total)) = total - (IF arrived > 2 THEN arrived ELSE 2)
  <1> DEFINE before == IF arrived > 2 THEN arrived ELSE 2
  <1>1. Body(total) = before + 1 .. total /\ before \in Nat /\ before <= total
    BY DEF Body
  <1> HIDE DEF before
  <1>2. before + 1 \in Int /\ Cardinality(before + 1 .. total) = total - before
    BY <1>1, FS_Interval
  <1>3. QED
    BY <1>1, <1>2 DEF before

\* Pieces are appended to those before them.
LEMMA BodyAppended ==
  ASSUME NEW n \in Nat, NEW k \in Nat, NEW s, s = [i \in 1 .. n |-> i + 2]
  PROVE  s \o [i \in 1 .. k |-> n + 2 + i] = [i \in 1 .. n + k |-> i + 2]
  OBVIOUS

LEMMA RecvStep ==
  ASSUME ClientIInv, NEW k \in 1 .. Pieces, Recv(k)
  PROVE  ClientIInv'
  <1> USE DEF ClientIInv
  <1> DEFINE total == arrived + k
             now == Parsed(total)
             body == IF now = "data" THEN Body(total) ELSE {}
             n == Cardinality(body)
  <1>1. /\ stage = "up" /\ total <= Pieces /\ arrived' = total /\ parse' = now
        /\ hdrLen' = IF now # parse /\ now = "data" THEN reply.length ELSE hdrLen
        /\ rxLen' = rxLen + n /\ given' = given \o [i \in 1 .. n |-> total - n + i]
        /\ held' \subseteq held \cup {"hdrs"}
        /\ UNCHANGED <<stage, reply, ticks, returned, results>>
    BY DEF Recv
  <1>2. arrived \in Nat /\ total \in Nat /\ total > arrived /\ Pieces' = Pieces
    BY <1>1, ReplyNumbers DEF HeadersFirst, Pieces
  <1>3. StagesKept'
    BY <1>1 DEF StagesKept
  <1>4. OkIsWhole'
    BY <1>1 DEF StagesKept, OkIsWhole
  <1>5. CASE now # "data"
    <2>1. body = {} /\ n = 0
      BY <1>5, FS_EmptySet
    <2> HIDE DEF n, body
    <2>2. parse # "data" /\ now \in {"first", "headers"} /\ (reply.status => total = 1)
      <3> HIDE DEF total
      <3>1. QED
        BY <1>2, <1>5 DEF Parsed
    <2> HIDE DEF now
    <2>3. rxLen' = rxLen /\ given' = given \o <<>>
      BY <1>1, <2>1, <2>2 DEF HeadersFirst
    <2>4. given' = given
      BY <2>3 DEF BodyInOrder
    <2>5. HeadersFirst' /\ BodyInOrder'
      <3>1. rxLen = 0 /\ rxLen' = 0 /\ stage' = "up" /\ parse' # "data" /\ (stage' = "up" /\ reply'.status => arrived' <= 1)
        BY <1>1, <2>2, <2>3 DEF HeadersFirst
      <3>2. arrived' \in 0 .. Pieces'
        BY <1>1, <1>2
      <3>3. QED
        BY <2>4, <3>1, <3>2 DEF HeadersFirst, BodyInOrder
    <2>6. QED
      BY <1>1, <1>3, <1>4, <2>2, <2>5
  <1>6. CASE now = "data"
    <2> DEFINE before == IF arrived > 2 THEN arrived ELSE 2
    <2>1. total >= 2 /\ reply.status /\ hdrLen' = reply.length /\ rxLen = before - 2 /\ rxLen \in Nat
      BY <1>1, <1>2, <1>6 DEF Parsed, HeadersFirst
    <2>2. body = Body(total) /\ n = total - before
      BY <1>2, <1>6, <2>1, BodyCounted
    <2> HIDE DEF n, body
    <2>3. n \in Nat /\ total - n = rxLen + 2 /\ rxLen' = total - 2
      BY <1>1, <1>2, <2>1, <2>2
    <2>4. given' = given \o [i \in 1 .. n |-> rxLen + 2 + i]
      BY <1>1, <2>3
    <2>5. given = [i \in 1 .. rxLen |-> i + 2]
      BY DEF BodyInOrder
    <2>6. given' = [i \in 1 .. rxLen + n |-> i + 2]
      BY <2>1, <2>3, <2>4, <2>5, BodyAppended
    <2>7. Len(given') = rxLen + n
      BY <2>1, <2>3, <2>6
    <2>8. BodyInOrder'
      BY <1>1, <2>6, <2>7 DEF BodyInOrder
    <2>9. HeadersFirst'
      BY <1>1, <1>2, <1>6, <2>1, <2>3 DEF HeadersFirst
    <2>10. QED
      BY <1>1, <1>3, <1>4, <1>6, <2>8, <2>9
  <1>7. QED
    BY <1>5, <1>6


\* The polls count down to the time out, whose report is the last thing that happens.
LEMMA PollStep ==
  ASSUME ClientIInv, Poll
  PROVE  ClientIInv'
  <1>1. /\ stage \in {"connecting", "up"} /\ ticks' = ticks - 1 /\ ticks \in 1 .. PollTimeout
        /\ UNCHANGED <<reply, arrived, parse, rxLen, hdrLen, given, returned>>
    BY DEF ClientIInv, StagesKept, Poll, Counts
  <1>2. ticks' \in 0 .. PollTimeout
    BY <1>1, ReplyNumbers
  <1>3. CASE ticks = 1
    <2>1. Close("timeout")
      BY <1>3 DEF Poll
    <2>2. "timeout" \in Results /\ stage \in {"dns", "connecting", "up"}
      BY <1>1 DEF Results
    <2>3. QED
      BY <1>1, <1>2, <2>1, <2>2, CloseStep
  <1>4. CASE ticks # 1
    <2>1. UNCHANGED <<stage, held, results>> /\ ticks' \in 1 .. PollTimeout
      BY <1>1, <1>4, ReplyNumbers DEF Poll
    <2>2. QED
      BY <1>1, <2>1 DEF ClientIInv, StagesKept, HeadersFirst, OkIsWhole, BodyInOrder, Pieces
  <1>5. QED
    BY <1>3, <1>4

LEMMA ClientStep ==
  ASSUME ClientIInv, ClientNext
  PROVE  ClientIInv'
  <1>1. ticks \in 0 .. PollTimeout
    BY DEF ClientIInv
  <1>2. {"hostname", "connect", "mem", "local_abort", "closed", "content_len", "ok"} \subseteq Results
    BY DEF Results
  <1>3. CASE DnsFound
    <2>1. /\ stage = "dns" /\ UNCHANGED <<reply, arrived, parse, rxLen, hdrLen, ticks, given, returned>>
      BY <1>3 DEF DnsFound
    <2>2. CASE stage' = "connecting" /\ UNCHANGED <<held, results>>
      BY <2>1, <2>2 DEF ClientIInv, StagesKept, HeadersFirst, OkIsWhole, BodyInOrder, Pieces
    <2>3. ASSUME NEW r \in {"hostname", "connect"}, Close(r)
          PROVE  ClientIInv'
      BY <1>1, <1>2, <2>1, <2>3, CloseStep
    <2>4. QED
      BY <1>3, <2>2, <2>3 DEF DnsFound
  <1>4. CASE Connected
    <2>1. /\ stage = "connecting" /\ UNCHANGED <<reply, arrived, parse, rxLen, hdrLen, ticks, given, returned>>
      BY <1>4 DEF Connected
    <2>2. CASE stage' = "up" /\ held' = held \ {"request"} /\ UNCHANGED results
      BY <2>1, <2>2 DEF ClientIInv, StagesKept, HeadersFirst, OkIsWhole, BodyInOrder, Pieces
    <2>3. CASE Close("mem")
      BY <1>1, <1>2, <2>1, <2>3, CloseStep
    <2>4. QED
      BY <1>4, <2>2, <2>3 DEF Connected
  <1>5. ASSUME NEW k \in 1 .. Pieces, HeadersRefused(k)
        PROVE  ClientIInv'
    <2>1. /\ stage = "up" /\ parse # "data" /\ Close("local_abort") /\ arrived' = arrived + k
          /\ arrived + k <= Pieces /\ UNCHANGED <<reply, parse, rxLen, hdrLen, ticks, given, returned>>
      BY <1>5 DEF HeadersRefused
    <2>2. arrived' \in 0 .. Pieces
      BY <2>1, ReplyNumbers DEF ClientIInv, HeadersFirst, Pieces
    <2>3. QED
      BY <1>1, <1>2, <2>1, <2>2, CloseStep
  <1>6. CASE RecvClosed
    <2>1. /\ stage = "up" /\ Close(Verdict)
          /\ UNCHANGED <<reply, arrived, parse, rxLen, hdrLen, ticks, given, returned>>
      BY <1>6 DEF RecvClosed
    <2>2. Verdict \in Results
      BY <1>2 DEF Verdict
    <2>3. QED
      BY <1>1, <2>1, <2>2, CloseStep
  <1>7. CASE Err
    <2>1. /\ stage \in {"connecting", "up"} /\ Close("closed")
          /\ UNCHANGED <<reply, arrived, parse, rxLen, hdrLen, ticks, given, returned>>
      BY <1>7 DEF Err
    <2>2. QED
      BY <1>1, <1>2, <2>1, CloseStep
  <1>8. QED
    BY <1>3, <1>4, <1>5, <1>6, <1>7, StartStep, RecvStep, PollStep DEF ClientNext

(* The HTTP client reports a request once and frees what it had, calls it  *)
(* a success only for all of a good answer, and hands the body over in     *)
(* order and without a gap, however the segments cut the reply and         *)
(* wherever the request fails: httpc_tcp_recv, httpc_close and what calls  *)
(* them, for replies of any length.                                        *)
THEOREM ResultRightHolds == ClientSpec => []ResultRight
  <1>1. ClientInit => ClientIInv
    BY ReplyNumbers DEF ClientInit, ClientIInv, StagesKept, HeadersFirst, OkIsWhole, BodyInOrder, Pieces
  <1>2. ASSUME ClientIInv, UNCHANGED clientVars
        PROVE  ClientIInv'
    BY <1>2 DEF clientVars, ClientIInv, StagesKept, HeadersFirst, OkIsWhole, BodyInOrder, Pieces
  <1>3. ClientIInv => ResultRight
    <2> SUFFICES ASSUME ClientIInv
                 PROVE  ResultRight
      OBVIOUS
    <2>1. OneResult
      <3>1. Len(<<>>) = 0 /\ \A r : Len(<<r>>) = 1
        OBVIOUS
      <3>2. \/ results = <<>>
            \/ returned = "ok" /\ \E r \in Results : results = <<r>>
        BY DEF ClientIInv, StagesKept
      <3>3. Len(results) <= 1 /\ (returned # "ok" => results = <<>>)
        <4>1. CASE results = <<>>
          BY <3>1, <4>1
        <4>2. CASE returned = "ok" /\ \E r \in Results : results = <<r>>
          <5>1. PICK r : results = <<r>>
            BY <4>2
          <5>2. QED
            BY <4>2, <5>1
        <4>3. QED
          BY <3>2, <4>1, <4>2
      <3>4. stage = "over" => held = {} /\ (returned = "ok" => Len(results) = 1)
        BY <3>1 DEF ClientIInv, StagesKept
      <3>5. QED
        BY <3>3, <3>4 DEF OneResult
    <2>2. ClientTypeOK
      BY ReplyNumbers DEF ClientIInv, StagesKept, HeadersFirst, Pieces, ClientTypeOK
    <2>3. QED
      BY <2>1, <2>2 DEF ClientIInv, ResultRight
  <1>4. QED
    BY <1>1, <1>2, <1>3, ClientStep, PTL DEF ClientSpec

-----------------------------------------------------------------------------
(* The updater                                                              *)

(* The boot partition is only ever set to an image that arrived whole and  *)
(* was validated, whatever breaks off before and wherever the power fails: *)
(* upload_post_handler and boot_post_handler of the updater, for images    *)
(* and partitions of any size.                                             *)
THEOREM BootsWholeHolds == UpdaterSpec => []BootsWhole
  <1> USE UploadNumbers DEF UpdaterIInv, UpdaterTypeOK, BootsWhole
  <1>1. UpdaterInit => UpdaterIInv
    BY DEF UpdaterInit
  <1>2. UpdaterIInv /\ [UpdaterNext]_updaterVars => UpdaterIInv'
    <2> SUFFICES ASSUME UpdaterIInv, [UpdaterNext]_updaterVars
                 PROVE  UpdaterIInv'
      OBVIOUS
    <2>1. CASE Enter
      BY <2>1 DEF Enter
    <2>2. CASE PowerUp
      BY <2>2 DEF PowerUp
    <2>3. CASE PowerFails
      BY <2>3 DEF PowerFails
    <2>4. ASSUME NEW n \in Sizes, Upload(n)
          PROVE  UpdaterIInv'
      BY <2>4 DEF Upload, ForgetOk
    <2>5. CASE Chunk
      BY <2>5 DEF Chunk
    <2>6. CASE Abort
      BY <2>6 DEF Abort
    <2>7. CASE Finish
      BY <2>7 DEF Finish
    <2>8. CASE Boot
      BY <2>8 DEF Boot
    <2>9. CASE UNCHANGED updaterVars
      BY <2>9 DEF updaterVars
    <2>10. QED
      BY <2>1, <2>2, <2>3, <2>4, <2>5, <2>6, <2>7, <2>8, <2>9 DEF UpdaterNext
  <1>3. UpdaterIInv => BootsWhole
    OBVIOUS
  <1>4. QED
    BY <1>1, <1>2, <1>3, PTL DEF UpdaterSpec

-----------------------------------------------------------------------------
(* The wireless control                                                     *)

(* The Wi-Fi driver is set up exactly while it is in use, whatever bits of *)
(* the notification of wireless_control_task are taken together and        *)
(* however the events of the driver lie between: as long as it was never   *)
(* set up with the setting "off".                                          *)
THEOREM DriverBalancedHolds == WirelessSpec => []DriverBalanced
  <1> USE Modes DEF WirelessIInv, DriverBalanced
  <1>1. WirelessInit => WirelessIInv
    BY DEF WirelessInit
  <1>2. WirelessIInv /\ [WirelessNext]_wirelessVars => WirelessIInv'
    <2> SUFFICES ASSUME WirelessIInv, [WirelessNext]_wirelessVars
                 PROVE  WirelessIInv'
      OBVIOUS
    <2>1. CASE WifiStateHandle
      <3>1. CASE state = "not_activated"
        <4>1. /\ setups' = (IF setups = 2 THEN 2 ELSE setups + 1) /\ mode' = setting
              /\ state' = (IF setting = "off" THEN "not_activated" ELSE "activated")
              /\ turn' = "wait" /\ turn = "handle" /\ setting' = setting
          BY <2>1, <3>1 DEF WifiStateHandle, SetUp
        <4>2. ~ wasOff' => ~ wasOff /\ setting # "off"
          BY <2>1, <3>1 DEF WifiStateHandle, SetUp
        <4>3. ~ wasOff' => setups' = 1 /\ mode' # "none"
          BY <3>1, <4>1, <4>2
        <4>4. QED
          BY <4>1, <4>2, <4>3
      <3>2. CASE state = "activated"
        BY <2>1, <3>2 DEF WifiStateHandle, SlowRetry
      <3>3. CASE state \in {"stopped", "temporal"}
        BY <2>1, <3>3 DEF WifiStateHandle, driver
      <3>4. QED
        BY <3>1, <3>2, <3>3
    <2>2. CASE WaitTimeout
      BY <2>2 DEF WaitTimeout, driver
    <2>3. CASE WaitSignals
      <3> USE DEF WaitSignals, AfterReset, AfterStart, AfterStop
      <3>1. CASE FullyStopped(notified)
        BY <2>3, <3>1 DEF FullyStopped
      <3>2. CASE ~ FullyStopped(notified)
        <4>1. CASE state = "activated"
          BY <2>3, <3>2, <4>1 DEF FullyStopped, driver
        <4>2. CASE state # "activated"
          BY <2>3, <3>2, <4>2 DEF driver
        <4>3. QED
          BY <4>1, <4>2
      <3>3. QED
        BY <3>1, <3>2
    <2>4. CASE (\E s \in Signals : Signal(s)) \/ (\E s \in Settings : ChangeSetting(s))
      BY <2>4 DEF Signal, ChangeSetting, driver
    <2>5. CASE Reached \/ LeaveEvent \/ \E b \in BOOLEAN : Lost(b)
      BY <2>5 DEF Reached, LeaveEvent, Lost
    <2>6. CASE \E n \in 0 .. MaxStations : Station(n)
      BY <2>6 DEF Station, driver
    <2>7. CASE UNCHANGED wirelessVars
      BY <2>7 DEF wirelessVars, driver
    <2>8. QED
      BY <2>1, <2>2, <2>3, <2>4, <2>5, <2>6, <2>7 DEF WirelessNext, TaskRound
  <1>3. WirelessIInv => DriverBalanced
    OBVIOUS
  <1>4. QED
    BY <1>1, <1>2, <1>3, PTL DEF WirelessSpec

-----------------------------------------------------------------------------
(* regs_description_list: every table has a slot of its own                *)

\* A step inside of a registration adds no table to those that are being added or were.
LEMMA Inside ==
  ASSUME ListTypes, NEW t \in Tables, NEW from, NEW to, Go(t, from, to),
         from \in {"desc", "num", "sum", "copy", "index", "count"},
         to \in {"desc", "num", "sum", "copy", "index", "count"}
  PROVE  /\ Adding' = Adding /\ Registered' = Registered /\ t \in Adding
         /\ pc'[t] = to /\ \A u \in Tables : u # t => pc'[u] = pc[u]
         /\ pc' \in [Tables -> {"idle", "desc", "num", "sum", "copy", "index", "count", "done", "full"}]
         /\ \A u \in Tables : pc'[u] = "full" => pc[u] = "full"
  BY DEF Go, Adding, Registered, ListTypes

\* A step of a registration that meets no other keeps the invariant.
LEMMA ListStep ==
  ASSUME ListIInv, NEW t \in Tables, AddNew(t)
  PROVE  ListIInv'
  <1> SUFFICES ASSUME ~ overlap'
               PROVE  (ListTypes /\ OneAdds /\ AddedBefore)'
    BY DEF ListIInv
  <1>1. ~ overlap
    BY DEF AddNew, Begin, StoreDesc, StoreNum, SumVars, CopyVars, TakeIndex, StoreCount
  <1>2. ListTypes /\ OneAdds /\ AddedBefore /\ MaxTables \in Nat
    BY <1>1, Descriptions DEF ListIInv
  <1>3. \A i \in Nat : i < MaxTables => i \in Slots
    BY <1>2 DEF Slots
  <1>4. CASE Begin(t) /\ Fits
    <2>1. Adding = {}
      BY <1>4 DEF Begin
    <2>2. Adding' = {t} /\ Registered' = Registered /\ pc'[t] = "desc" /\ ListTypes'
          /\ \A u \in Tables : pc'[u] = "full" => pc[u] = "full"
      BY <1>2, <1>4, <2>1 DEF Begin, Go, Adding, Registered, ListTypes, Slots
    <2>3. count' = count /\ count < MaxTables /\ UNCHANGED <<index, desc, num>>
      BY <1>2, <1>4 DEF Begin, Fits, AddedBefore
    <2>4. QED
      BY <1>2, <2>2, <2>3 DEF OneAdds, AddedBefore
  <1>5. CASE Begin(t) /\ ~ Fits
    <2>1. Adding' = Adding /\ Registered' = Registered /\ ListTypes' /\ pc[t] = "idle"
          /\ \A u \in Adding : pc'[u] = pc[u]
      BY <1>2, <1>5 DEF Begin, Go, Adding, Registered, ListTypes, Slots
    <2>2. UNCHANGED <<count, index, desc, num, at>> /\ count = MaxTables
      BY <1>2, <1>5 DEF Begin, Fits, AddedBefore
    <2>3. OneAdds'
      BY <1>2, <2>1, <2>2 DEF OneAdds, Stored
    <2>4. QED
      BY <1>2, <2>1, <2>2, <2>3 DEF AddedBefore
  <1>6. CASE StoreDesc(t)
    <2>1. UNCHANGED <<count, index, num>> /\ at' = [at EXCEPT ![t] = count]
          /\ desc' = [i \in Slots |-> IF i = count THEN t ELSE desc[i]] /\ Go(t, "desc", "num")
      BY <1>6 DEF StoreDesc
    <2>2. /\ Adding' = Adding /\ Registered' = Registered /\ t \in Adding /\ pc'[t] = "num"
          /\ pc' \in [Tables -> {"idle", "desc", "num", "sum", "copy", "index", "count", "done", "full"}]
          /\ \A u \in Tables : pc'[u] = "full" => pc[u] = "full"
      BY <1>2, <2>1, Inside
    <2>3. \A u \in Adding : u = t
      BY <1>2, <2>2 DEF OneAdds
    <2>4. count \in Slots /\ count < MaxTables
      BY <1>2, <1>3, <2>2 DEF OneAdds, AddedBefore
    <2>5. OneAdds'
      BY <1>2, <2>1, <2>2, <2>3, <2>4 DEF OneAdds, Stored, ListTypes
    <2>6. AddedBefore'
      BY <1>2, <1>3, <2>1, <2>2, <2>4 DEF AddedBefore
    <2>7. ListTypes'
      BY <1>2, <2>1, <2>2 DEF ListTypes, Slots
    <2>8. QED
      BY <2>5, <2>6, <2>7
  <1>7. CASE StoreNum(t)
    <2>1. UNCHANGED <<count, index, desc, at>> /\ Go(t, "num", "sum")
          /\ num' = [i \in Slots |-> IF i = at[t] THEN Len(Desc[t]) ELSE num[i]]
      BY <1>7 DEF StoreNum
    <2>2. /\ Adding' = Adding /\ Registered' = Registered /\ t \in Adding /\ pc'[t] = "sum"
          /\ pc' \in [Tables -> {"idle", "desc", "num", "sum", "copy", "index", "count", "done", "full"}]
          /\ \A u \in Tables : pc'[u] = "full" => pc[u] = "full"
      BY <1>2, <2>1, Inside
    <2>3. (\A u \in Adding : u = t) /\ pc[t] = "num" /\ at[t] = count /\ desc[count] = t
      BY <1>2, <2>1, <2>2 DEF OneAdds, Stored, Go
    <2>4. count \in Slots /\ count < MaxTables
      BY <1>2, <1>3, <2>2 DEF OneAdds, AddedBefore
    <2>5. OneAdds'
      BY <1>2, <2>1, <2>2, <2>3, <2>4 DEF OneAdds, Stored, ListTypes
    <2>6. AddedBefore'
      BY <1>2, <1>3, <2>1, <2>2, <2>3, <2>4 DEF AddedBefore
    <2>7. ListTypes'
      BY <1>2, <2>1, <2>2 DEF ListTypes, Slots
    <2>8. QED
      BY <2>5, <2>6, <2>7
  <1>8. CASE SumVars(t) \/ CopyVars(t) \/ TakeIndex(t)
    <2>1. PICK from \in {"sum", "copy", "index"}, to \in {"copy", "index", "count"} :
            /\ Go(t, from, to) /\ UNCHANGED <<count, desc, num, at>>
            /\ IF to = "count" THEN index' = [index EXCEPT ![t] = count] ELSE UNCHANGED index
      BY <1>8 DEF SumVars, CopyVars, TakeIndex
    <2>2. /\ Adding' = Adding /\ Registered' = Registered /\ t \in Adding /\ pc'[t] = to
          /\ pc' \in [Tables -> {"idle", "desc", "num", "sum", "copy", "index", "count", "done", "full"}]
          /\ \A u \in Tables : pc'[u] = "full" => pc[u] = "full"
      BY <1>2, <2>1, Inside
    <2>3. (\A u \in Adding : u = t) /\ Stored(t) /\ num[count] = Len(Desc[t])
      BY <1>2, <2>1, <2>2 DEF OneAdds, Go
    <2>4. t \notin Registered
      BY <2>2 DEF Adding, Registered
    <2>5. OneAdds'
      BY <1>2, <2>1, <2>2, <2>3 DEF OneAdds, Stored, ListTypes
    <2>6. ASSUME NEW u \in Registered
          PROVE  index'[u] = index[u]
      <3>1. u # t /\ u \in Tables /\ DOMAIN index = Tables
        BY <1>2, <2>4 DEF ListTypes, Registered
      <3>2. CASE to = "count"
        BY <2>1, <3>1, <3>2
      <3>3. CASE to # "count"
        BY <2>1, <3>3
      <3>4. QED
        BY <3>2, <3>3
    <2>7. AddedBefore'
      BY <1>2, <2>1, <2>2, <2>6 DEF AddedBefore
    <2>8. ListTypes'
      BY <1>2, <2>1, <2>2 DEF ListTypes, Slots
    <2>9. QED
      BY <2>5, <2>7, <2>8
  <1>9. CASE StoreCount(t)
    <2>1. UNCHANGED <<desc, num, at, index>> /\ Go(t, "count", "done") /\ count' = index[t] + 1
      BY <1>9 DEF StoreCount
    <2>2. t \in Adding /\ pc[t] = "count" /\ t \notin Registered
      BY <2>1 DEF Go, Adding, Registered
    <2>3. /\ \A u \in Adding : u = t
          /\ Stored(t) /\ num[count] = Len(Desc[t]) /\ index[t] = count /\ count < MaxTables
      BY <1>2, <2>2 DEF OneAdds
    <2>4. Registered' = Registered \cup {t} /\ Adding' = {} /\ ListTypes'
          /\ \A u \in Tables : pc'[u] = "full" => pc[u] = "full"
      BY <1>2, <2>1, <2>2, <2>3 DEF Go, Adding, Registered, ListTypes, Slots
    <2>5. IsFiniteSet(Registered') /\ Cardinality(Registered') = Cardinality(Registered) + 1
      BY <1>2, <2>2, <2>4, FS_AddElement DEF AddedBefore
    <2>6. count' = count + 1 /\ count' \in 0 .. MaxTables /\ count \in Nat
      BY <1>2, <2>1, <2>3 DEF AddedBefore
    <2>7. \A u \in Tables : pc[u] # "full"
      BY <1>2, <2>3, <2>6 DEF AddedBefore
    <2>8. ASSUME NEW u \in Registered'
          PROVE  index[u] \in 0 .. count' - 1 /\ desc[index[u]] = u /\ num[index[u]] = Len(Desc[u])
      <3>1. CASE u \in Registered
        BY <1>2, <2>6, <3>1 DEF AddedBefore
      <3>2. CASE u = t
        BY <2>3, <2>6, <3>2 DEF Stored
      <3>3. QED
        BY <2>4, <3>1, <3>2
    <2>9. AddedBefore'
      BY <1>2, <2>1, <2>4, <2>5, <2>6, <2>7, <2>8 DEF AddedBefore
    <2>10. QED
      BY <2>4, <2>9 DEF OneAdds
  <1>10. QED
    BY <1>4, <1>5, <1>6, <1>7, <1>8, <1>9 DEF AddNew

(* Without overlapping registrations every table has the slot its task was *)
(* told, and the list has no gap: regs_description_list_add_new, for any   *)
(* number of tables and slots.                                             *)
THEOREM OwnSlotHolds == Spec => []OwnSlot
  <1>1. Init => ListIInv
    <2> SUFFICES ASSUME Init
                 PROVE  ListTypes /\ OneAdds /\ AddedBefore
      BY DEF ListIInv
    <2>1. Registered = {} /\ Adding = {}
      BY DEF Init, Registered, Adding
    <2>2. IsFiniteSet({}) /\ Cardinality({}) = 0
      BY FS_EmptySet
    <2>3. ListTypes
      BY DEF Init, ListTypes
    <2>4. OneAdds
      BY <2>1 DEF OneAdds
    <2>5. AddedBefore
      BY <2>1, <2>2, Descriptions DEF Init, AddedBefore
    <2>6. QED
      BY <2>3, <2>4, <2>5
  <1>2. ListIInv /\ [Next]_vars => ListIInv'
    <2>1. ASSUME ListIInv, UNCHANGED vars
          PROVE  ListIInv'
      BY <2>1 DEF vars, ListIInv, ListTypes, OneAdds, Stored, AddedBefore, Adding, Registered
    <2>2. QED
      BY <2>1, ListStep DEF Next
  <1>3. ListIInv => OwnSlot
    <2> SUFFICES ASSUME ListIInv, ~ overlap
                 PROVE  OwnSlot
      BY DEF OwnSlot
    <2>1. AddedBefore /\ MaxTables \in Nat
      BY Descriptions DEF ListIInv
    <2>2. \A i \in 0 .. count - 1 : i \in Slots
      BY <2>1 DEF AddedBefore, Slots
    <2>3. QED
      BY <2>1, <2>2 DEF OwnSlot, AddedBefore
  <1>4. QED
    BY <1>1, <1>2, <1>3, PTL DEF Spec
=============================================================================
