-------------------------- MODULE ModbusTcpProofs --------------------------
(* Proofs about ModbusTcp, for every pool, every number of connections and  *)
(* every limit of retries.                                                  *)
EXTENDS ModbusTcp, TLAPS

Elements(l) == {l[i] : i \in DOMAIN l}
Distinct(l) == \A i, j \in DOMAIN l : l[i] = l[j] => i = j

(* modbus_tcp_remove_connection takes its block off the list and nothing else. *)
LEMMA RemovedContent ==
  ASSUME NEW l \in Seq(State), NEW s, Distinct(l)
  PROVE  /\ Removed(l, s) \in Seq(State)
         /\ Distinct(Removed(l, s))
         /\ Elements(Removed(l, s)) = Elements(l) \ {s}
<1>1. CASE \A i \in DOMAIN l : l[i] # s
  BY <1>1 DEF Removed, Elements
<1>2. CASE \E i \in DOMAIN l : l[i] = s
  <2> DEFINE k == CHOOSE i \in DOMAIN l : l[i] = s
             r == [i \in 1 .. (Len(l) - 1) |-> IF i < k THEN l[i] ELSE l[i + 1]]
  <2>1. k \in 1 .. Len(l) /\ l[k] = s
    BY <1>2
  <2>2. Removed(l, s) = r
    BY <1>2 DEF Removed
  <2> HIDE DEF k
  <2>3. Len(l) - 1 \in Nat /\ \A i \in 1 .. (Len(l) - 1) : r[i] \in State
    BY <2>1
  <2>4. r \in Seq(State) /\ DOMAIN r = 1 .. (Len(l) - 1)
    BY <2>3
  <2>5. Distinct(r)
    BY <2>1, <2>4 DEF Distinct
  <2>6. Elements(r) \subseteq Elements(l) \ {s}
    BY <2>1, <2>4 DEF Elements, Distinct
  <2>7. ASSUME NEW i \in DOMAIN l, l[i] # s
        PROVE  l[i] \in Elements(r)
    <3>1. CASE i < k
      BY <3>1, <2>1, <2>4 DEF Elements
    <3>2. CASE i > k
      <4>1. i - 1 \in DOMAIN r /\ r[i - 1] = l[i]
        BY <3>2, <2>1, <2>4
      <4>2. QED
        BY <4>1 DEF Elements
    <3>3. QED
      BY <3>1, <3>2, <2>1, <2>7
  <2>8. Elements(r) = Elements(l) \ {s}
    BY <2>6, <2>7 DEF Elements
  <2>9. QED
    BY <2>2, <2>4, <2>5, <2>8
<1>3. QED
  BY <1>1, <1>2

(* modbus_tcp_add_connection puts a block in front. *)
LEMMA AddedContent ==
  ASSUME NEW l \in Seq(State), NEW s \in State, Distinct(l), s \notin Elements(l)
  PROVE  /\ <<s>> \o l \in Seq(State)
         /\ Distinct(<<s>> \o l)
         /\ Elements(<<s>> \o l) = Elements(l) \cup {s}
<1> DEFINE r == <<s>> \o l
<1>1. /\ r \in Seq(State) /\ Len(r) = Len(l) + 1
      /\ r[1] = s /\ \A i \in 1 .. Len(l) : r[i + 1] = l[i]
      /\ \A i \in 2 .. (Len(l) + 1) : r[i] = l[i - 1]
  OBVIOUS
<1>2. DOMAIN r = 1 .. (Len(l) + 1)
  BY <1>1
<1> HIDE DEF r
<1>3. Distinct(r)
  <2> SUFFICES ASSUME NEW i \in 1 .. (Len(l) + 1), NEW j \in 1 .. (Len(l) + 1), r[i] = r[j]
               PROVE  i = j
    BY <1>2 DEF Distinct
  <2>1. i = 1 \/ (i \in 2 .. (Len(l) + 1) /\ i - 1 \in DOMAIN l /\ r[i] = l[i - 1])
    BY <1>1
  <2>2. j = 1 \/ (j \in 2 .. (Len(l) + 1) /\ j - 1 \in DOMAIN l /\ r[j] = l[j - 1])
    BY <1>1
  <2>3. QED
    BY <1>1, <2>1, <2>2 DEF Distinct, Elements
<1>4. ASSUME NEW i \in 1 .. (Len(l) + 1)
      PROVE  r[i] \in Elements(l) \cup {s}
  <2>1. i = 1 \/ (i - 1 \in DOMAIN l /\ r[i] = l[i - 1])
    BY <1>1
  <2>2. QED
    BY <1>1, <2>1 DEF Elements
<1>5. ASSUME NEW i \in DOMAIN l
      PROVE  l[i] \in Elements(r)
  <2>1. i + 1 \in DOMAIN r /\ r[i + 1] = l[i]
    BY <1>1, <1>2
  <2>2. QED
    BY <2>1 DEF Elements
<1>6. s \in Elements(r)
  <2>1. 1 \in DOMAIN r
    BY <1>2
  <2>2. QED
    BY <2>1, <1>1 DEF Elements
<1>7. Elements(r) = Elements(l) \cup {s}
  <2>1. Elements(r) \subseteq Elements(l) \cup {s}
    BY <1>2, <1>4 DEF Elements
  <2>2. Elements(l) \subseteq Elements(r)
    BY <1>5 DEF Elements
  <2>3. QED
    BY <1>6, <2>1, <2>2
<1>8. QED
  BY <1>1, <1>3, <1>7 DEF r

(* The list and the pool in terms of the two lemmas above. *)
LEMMA ListContent ==
  BlocksOwned => Elements(list) = allocated /\ Distinct(list)
  BY DEF BlocksOwned, Listed, Elements, Distinct

(* A connection gives its block back: modbus_tcp_close_or_abort_conn in its three
   uses and modbus_tcp_err. *)
LEMMA FreeKeeps ==
  ASSUME IInv, NEW p \in alive \cap hooked, StateFree(arg[p]), Unhook(p),
         Gone(p) \/ TryLater(p), UNCHANGED <<fresh, traffic>>
  PROVE  IInv'
<1> DEFINE s == arg[p]
<1>1. p \in Pcb /\ s \in allocated /\ s \in State /\ pcbOf[s] = p /\ s # Null
  BY DEF IInv, TypeOK, NoDanglingArg, Hooks
<1>2. Elements(list) = allocated /\ Distinct(list) /\ list \in Seq(State)
  BY ListContent DEF IInv, TypeOK
<1>3. list' \in Seq(State) /\ Distinct(list') /\ Elements(list') = allocated \ {s}
  BY <1>2, RemovedContent DEF StateFree
<1>4. allocated' = allocated \ {s} /\ UNCHANGED <<pcbOf, retries, fresh, traffic>>
  BY DEF StateFree
<1>5. arg' = [arg EXCEPT ![p] = Null] /\ hooked' = hooked \ {p}
  BY DEF Unhook
<1>6. /\ alive' \subseteq alive /\ alive \ {p} \subseteq alive'
      /\ polled' \subseteq alive' /\ polled \ {p} \subseteq polled'
      /\ polled' \subseteq polled \cup {p}
  BY DEF Gone, TryLater, IInv, Hooks
<1>7. TypeOK'
  BY <1>1, <1>3, <1>4, <1>5, <1>6 DEF IInv, TypeOK, traffic
<1>8. Hooks'
  BY <1>1, <1>4, <1>5, <1>6 DEF IInv, TypeOK, Hooks
<1>9. BlocksOwned'
  <2>1. Listed' = allocated'
    BY <1>3, <1>4 DEF Listed, Elements
  <2>2. ASSUME NEW t \in allocated'
        PROVE  (pcbOf[t] \in alive \cap hooked /\ arg[pcbOf[t]] = t)'
    BY <1>1, <1>4, <1>5, <1>6 DEF IInv, BlocksOwned, TypeOK
  <2>3. QED
    BY <2>1, <2>2, <1>3 DEF BlocksOwned, Distinct
<1>10. NoDanglingArg'
  <2> SUFFICES ASSUME NEW q \in alive', arg'[q] # Null
               PROVE  (arg[q] \in allocated /\ pcbOf[arg[q]] = q /\ q \in hooked \cap polled)'
    BY DEF NoDanglingArg
  <2>1. q \in alive /\ q # p /\ arg'[q] = arg[q]
    BY <1>1, <1>5, <1>6 DEF IInv, TypeOK
  <2>2. arg[q] \in allocated /\ pcbOf[arg[q]] = q /\ q \in hooked \cap polled
    BY <2>1 DEF IInv, NoDanglingArg
  <2>3. QED
    BY <2>1, <2>2, <1>1, <1>4, <1>5, <1>6
<1>11. BufferOwned' /\ OwnRequestsOnly'
  BY <1>4 DEF IInv, BufferOwned, OwnRequestsOnly, traffic
<1>12. QED
  BY <1>7, <1>8, <1>9, <1>10, <1>11 DEF IInv

(* A step that leaves connections and blocks alone, but for the retries. *)
LEMMA TrafficKeeps ==
  ASSUME IInv, UNCHANGED <<conn, allocated, list, pcbOf>>, TypeOK', BufferOwned',
         OwnRequestsOnly'
  PROVE  IInv'
  BY DEF IInv, conn, Hooks, BlocksOwned, Listed, NoDanglingArg

(* modbus_tcp_accept: the new connection and, possibly, the end of the oldest. *)
LEMMA AcceptKeeps ==
  ASSUME IInv, NEW p \in Pcb, Accept(p)
  PROVE  IInv'
<1> DEFINE gone == {pcbOf[s] : s \in Killed}
<1>1. p \in fresh /\ fresh' = fresh \ {p} /\ UNCHANGED <<unacked, segments, executed>>
  BY DEF Accept
<1>2. CASE UNCHANGED <<alive, hooked, polled, arg, blocks, buffer>>
  BY <1>1, <1>2 DEF IInv, TypeOK, Hooks, BlocksOwned, Listed, NoDanglingArg, BufferOwned,
     OwnRequestsOnly, blocks
<1>3. ASSUME NEW s \in Usable,
             alive' = (alive \ gone) \cup {p},
             hooked' = (hooked \ gone) \cup {p},
             polled' = (polled \ gone) \cup {p},
             arg' = [q \in Pcb |-> IF q = p THEN s ELSE IF q \in gone THEN Null ELSE arg[q]],
             list' = <<s>> \o (IF Killed = {} THEN list ELSE Removed(list, s)),
             allocated' = allocated \cup {s},
             pcbOf' = [pcbOf EXCEPT ![s] = p],
             retries' = [retries EXCEPT ![s] = 0],
             InitBuffer(s)
      PROVE  IInv'
  <2>1. Elements(list) = allocated /\ Distinct(list) /\ list \in Seq(State)
    BY ListContent DEF IInv, TypeOK
  <2>2. Killed \subseteq allocated /\ allocated \subseteq State
    BY <2>1 DEF Killed, Oldest, Elements, IInv, TypeOK
  <2>3. Killed = {} \/ (Killed = {s} /\ s \in allocated)
    BY <1>3, <2>2 DEF Usable, Killed, Oldest, IInv, TypeOK
  <2>4. Killed = {} => s \notin allocated
    BY <1>3 DEF Usable
  <2>5. s \in State
    BY <1>3, <2>2 DEF Usable
  <2> DEFINE rest == IF Killed = {} THEN list ELSE Removed(list, s)
  <2>6. rest \in Seq(State) /\ Distinct(rest) /\ Elements(rest) = allocated \ {s}
    BY <2>1, <2>3, <2>4, RemovedContent
  <2>a. list' = <<s>> \o rest
    BY <1>3
  <2> HIDE DEF rest
  <2>7. list' \in Seq(State) /\ Distinct(list') /\ Elements(list') = allocated \cup {s}
    BY <2>a, <2>5, <2>6, AddedContent
  <2>8. gone = IF Killed = {} THEN {} ELSE {pcbOf[s]}
    <3>1. CASE Killed = {}
      BY <3>1
    <3>2. CASE Killed = {s}
      BY <3>2
    <3>3. QED
      BY <2>3, <3>1, <3>2
  <2>9. gone \subseteq alive \cap hooked /\ \A q \in gone : arg[q] = s
    BY <2>3, <2>8 DEF IInv, BlocksOwned
  <2>10. p \notin alive /\ p \notin hooked /\ p \notin polled
    BY <1>1 DEF IInv, Hooks
  <2>11. s # Null
    BY <2>5, Structure
  <2> HIDE DEF gone
  <2>12. TypeOK'
    BY <1>1, <1>3, <2>2, <2>5, <2>7, Structure DEF IInv, TypeOK, InitBuffer, Content
  <2>13. Hooks'
    BY <1>1, <1>3, <2>9, <2>10, <2>11 DEF IInv, TypeOK, Hooks
  <2>14. BlocksOwned'
    <3>1. Listed' = allocated'
      BY <1>3, <2>7 DEF Listed, Elements
    <3>2. ASSUME NEW t \in allocated'
          PROVE  (pcbOf[t] \in alive \cap hooked /\ arg[pcbOf[t]] = t)'
      <4>1. CASE t = s
        BY <4>1, <1>3, <2>5 DEF IInv, TypeOK
      <4>2. CASE t # s
        <5>1. t \in allocated /\ t \in State /\ pcbOf'[t] = pcbOf[t]
          BY <4>2, <1>3, <2>2, <2>5 DEF IInv, TypeOK
        <5>2. pcbOf[t] \in alive \cap hooked /\ arg[pcbOf[t]] = t /\ pcbOf[t] \in Pcb
          BY <5>1 DEF IInv, BlocksOwned, TypeOK
        <5>3. pcbOf[t] \notin gone /\ pcbOf[t] # p
          BY <5>2, <4>2, <2>9, <2>10
        <5>4. QED
          BY <5>1, <5>2, <5>3, <1>3
      <4>3. QED
        BY <4>1, <4>2
    <3>3. QED
      BY <3>1, <3>2, <2>7 DEF BlocksOwned, Distinct
  <2>15. NoDanglingArg'
    <3> SUFFICES ASSUME NEW q \in alive', arg'[q] # Null
                 PROVE  (arg[q] \in allocated /\ pcbOf[arg[q]] = q /\ q \in hooked \cap polled)'
      BY DEF NoDanglingArg
    <3>1. CASE q = p
      BY <3>1, <1>3, <2>5 DEF IInv, TypeOK
    <3>2. CASE q # p
      <4>1. q \in alive /\ q \notin gone /\ q \in Pcb /\ arg'[q] = arg[q]
        BY <3>2, <1>3 DEF IInv, TypeOK
      <4>2. arg[q] \in allocated /\ pcbOf[arg[q]] = q /\ q \in hooked \cap polled
        BY <4>1 DEF IInv, NoDanglingArg
      <4>3. arg[q] # s
        BY <4>1, <4>2, <2>3, <2>4, <2>8
      <4>4. QED
        BY <4>1, <4>2, <4>3, <1>3, <2>2, <2>5 DEF IInv, TypeOK
    <3>3. QED
      BY <3>1, <3>2
  <2>16. BufferOwned'
    BY <1>3, <2>2, <2>5, Structure DEF IInv, TypeOK, BufferOwned, InitBuffer
  <2>17. OwnRequestsOnly'
    BY <1>1 DEF IInv, OwnRequestsOnly
  <2>18. QED
    BY <2>12, <2>13, <2>14, <2>15, <2>16, <2>17 DEF IInv
<1>4. QED
  BY <1>2, <1>3 DEF Accept

(* modbus_tcp_recv with data: a request that is executed is the one just received or
   the one left in the buffer by the same connection. *)
LEMMA RecvKeeps ==
  ASSUME IInv, NEW p \in Pcb, NEW segment \in Segment, Recv(p, segment)
  PROVE  IInv'
<1>1. arg[p] \in allocated /\ arg[p] \in State /\ pcbOf[arg[p]] = p
  BY DEF Recv, IInv, TypeOK, Hooks, NoDanglingArg
<1>2. TypeOK'
  BY <1>1, Structure DEF Recv, IInv, TypeOK, Content, conn
<1>3. BufferOwned'
  BY <1>1, Structure DEF Recv, IInv, TypeOK, BufferOwned
<1>4. OwnRequestsOnly'
  BY <1>1 DEF Recv, IInv, BufferOwned, OwnRequestsOnly
<1>5. QED
  BY <1>2, <1>3, <1>4, TrafficKeeps DEF Recv

(* No callback breaks the inductive invariant. *)
LEMMA NextKeeps == IInv /\ [Next]_vars => IInv'
<1> SUFFICES ASSUME IInv, [Next]_vars PROVE IInv'
  OBVIOUS
<1>1. CASE UNCHANGED vars
  BY <1>1, TrafficKeeps DEF vars, conn, blocks, traffic, IInv, TypeOK, BufferOwned, OwnRequestsOnly
<1>2. ASSUME NEW p \in Pcb, Accept(p) PROVE IInv'
  BY <1>2, AcceptKeeps
<1>3. ASSUME NEW p \in Pcb, NEW segment \in Segment, Recv(p, segment) PROVE IInv'
  BY <1>3, RecvKeeps
<1>4. ASSUME NEW p \in Pcb, RecvClosed(p) PROVE IInv'
  BY <1>4, FreeKeeps DEF RecvClosed
<1>5. ASSUME NEW p \in Pcb, Sent(p) PROVE IInv'
  <2>1. arg[p] \in State
    BY <1>5 DEF Sent, IInv, TypeOK, Hooks
  <2>2. TypeOK'
    BY <1>5, <2>1, Structure DEF Sent, IInv, TypeOK, conn
  <2>3. BufferOwned' /\ OwnRequestsOnly'
    BY <1>5 DEF Sent, IInv, BufferOwned, OwnRequestsOnly
  <2>4. QED
    BY <1>5, <2>2, <2>3, TrafficKeeps DEF Sent
<1>6. ASSUME NEW p \in Pcb, Err(p) PROVE IInv'
  <2>1. CASE p \in hooked
    BY <1>6, <2>1, FreeKeeps DEF Err, Unhook, Gone
  <2>2. CASE p \notin hooked
    <3>1. arg[p] = Null /\ arg' = arg /\ hooked' = hooked
      BY <1>6, <2>2 DEF Err, IInv, TypeOK, Hooks
    <3>2. QED
      BY <1>6, <2>2, <3>1 DEF Err, IInv, TypeOK, Hooks, BlocksOwned, Listed, NoDanglingArg,
         BufferOwned, OwnRequestsOnly, blocks, traffic
  <2>3. QED
    BY <2>1, <2>2
<1>7. ASSUME NEW p \in Pcb, Poll(p) PROVE IInv'
  <2>1. CASE arg[p] = Null
    <3>1. arg' = arg /\ hooked' = hooked /\ p \notin hooked
      BY <1>7, <2>1 DEF Poll, Unhook, IInv, TypeOK, Hooks
    <3>2. Gone(p) /\ UNCHANGED <<blocks, fresh, traffic>>
      BY <1>7, <2>1 DEF Poll
    <3>3. QED
      BY <3>1, <3>2 DEF Gone, IInv, TypeOK, Hooks, BlocksOwned, Listed, NoDanglingArg,
         BufferOwned, OwnRequestsOnly, blocks, traffic
  <2>2. CASE arg[p] # Null /\ ~Silent(arg[p])
    <3>1. arg[p] \in State /\ retries[arg[p]] \in Nat
      BY <2>2, Structure DEF IInv, TypeOK
    <3>2. /\ retries' = [retries EXCEPT ![arg[p]] = @ + 1]
          /\ UNCHANGED <<conn, allocated, list, pcbOf, traffic>>
      BY <1>7, <2>2, <3>1, Structure DEF Poll, conn
    <3>3. TypeOK'
      BY <3>1, <3>2, <2>2, Structure DEF Silent, IInv, TypeOK, conn, traffic
    <3>4. BufferOwned' /\ OwnRequestsOnly'
      BY <3>2 DEF IInv, BufferOwned, OwnRequestsOnly, traffic
    <3>5. QED
      BY <3>2, <3>3, <3>4, TrafficKeeps
  <2>3. CASE arg[p] # Null /\ Silent(arg[p])
    <3>1. Unhook(p) /\ Gone(p) /\ StateFree(arg[p]) /\ UNCHANGED <<fresh, traffic>>
      BY <1>7, <2>3 DEF Poll
    <3>2. p \in alive \cap hooked
      BY <1>7, <2>3 DEF Poll, IInv, Hooks
    <3>3. QED
      BY <3>1, <3>2, FreeKeeps
  <2>4. QED
    BY <2>1, <2>2, <2>3
<1>8. QED
  BY <1>1, <1>2, <1>3, <1>4, <1>5, <1>6, <1>7 DEF Next

(* The server starts with an empty list and a full pool. *)
LEMMA InitKeeps == Init => IInv
  BY Structure DEF Init, IInv, TypeOK, Hooks, BlocksOwned, Listed, NoDanglingArg, BufferOwned,
     OwnRequestsOnly, Content

(* The inductive invariant: types, callbacks that agree with arguments, buffers that
   belong to their connection, and the three properties below. *)
THEOREM Invariance == Spec => []IInv
  BY InitKeeps, NextKeeps, PTL DEF Spec

(* BlocksOwned: no block of the pool leaks or is freed twice, in any order of callbacks. *)
THEOREM BlocksOwnedHolds == Spec => []BlocksOwned
<1>1. IInv => BlocksOwned
  BY DEF IInv
<1>2. QED
  BY Invariance, <1>1, PTL

(* NoDanglingArg: no callback runs on a block that is not its connection's own. *)
THEOREM NoDanglingArgHolds == Spec => []NoDanglingArg
<1>1. IInv => NoDanglingArg
  BY DEF IInv
<1>2. QED
  BY Invariance, <1>1, PTL

(* OwnRequestsOnly: a recycled block never executes a request of its former owner. *)
THEOREM OwnRequestsOnlyHolds == Spec => []OwnRequestsOnly
<1>1. IInv => OwnRequestsOnly
  BY DEF IInv
<1>2. QED
  BY Invariance, <1>1, PTL
(* modbus_tcp_kill_oldest_connection ends the connection of the last block only. *)
LEMMA KilledIsLast ==
  ASSUME IInv, Killed # {}
  PROVE  /\ Len(list) \in DOMAIN list /\ Killed = {list[Len(list)]}
         /\ \A i \in DOMAIN list : pcbOf[list[i]] = pcbOf[list[Len(list)]] => i = Len(list)
<1>1. list \in Seq(State) /\ Len(list) > 1 /\ Killed = {list[Len(list)]}
  BY DEF Killed, Oldest, IInv, TypeOK
<1>2. Len(list) \in DOMAIN list
  BY <1>1
<1>3. ASSUME NEW i \in DOMAIN list, pcbOf[list[i]] = pcbOf[list[Len(list)]]
      PROVE  i = Len(list)
  <2>1. list[i] \in allocated /\ list[Len(list)] \in allocated
    BY <1>2 DEF IInv, BlocksOwned, Listed
  <2>2. list[i] = list[Len(list)]
    BY <1>3, <2>1 DEF IInv, BlocksOwned
  <2>3. QED
    BY <1>2, <2>2 DEF IInv, BlocksOwned
<1>4. QED
  BY <1>1, <1>2, <1>3

(* OldestGivenUp: a connection is given up for a new one only if it is the oldest, since
   every connection in front of it in the list stays. *)
THEOREM OldestGivenUpHolds == Spec => OldestGivenUp
<1>1. ASSUME IInv, [Next]_vars
      PROVE  [\A p \in fresh \ fresh' : \A i, j \in DOMAIN list :
                (i < j /\ pcbOf[list[j]] \in alive') => pcbOf[list[i]] \in alive']_vars
  <2>1. fresh' = fresh \/ \E p \in Pcb : Accept(p)
    BY <1>1 DEF Next, vars, conn, Recv, RecvClosed, Sent, Err, Poll
  <2>2. CASE \E p \in Pcb : Accept(p)
    <3>1. PICK p \in Pcb : Accept(p)
      BY <2>2
    <3>2. list \in Seq(State) /\ \A i \in DOMAIN list : pcbOf[list[i]] \in alive
      BY <1>1 DEF IInv, TypeOK, BlocksOwned, Listed
    <3>a. alive \ {pcbOf[s] : s \in Killed} \subseteq alive'
      <4> DEFINE gone == {pcbOf[s] : s \in Killed}
      <4>1. alive' = alive \/ \E s \in Usable : alive' = (alive \ gone) \cup {p}
        BY <3>1 DEF Accept
      <4> HIDE DEF gone
      <4>2. alive \ gone \subseteq alive'
        BY <4>1
      <4>3. QED
        BY <4>2 DEF gone
    <3>3. CASE Killed = {}
      <4>1. alive \subseteq alive'
        <5>1. {pcbOf[s] : s \in Killed} = {}
          BY <3>3
        <5>2. QED
          BY <3>a, <5>1
      <4>2. QED
        BY <3>2, <4>1
    <3>4. CASE Killed # {}
      <4>1. /\ Len(list) \in DOMAIN list
            /\ {pcbOf[s] : s \in Killed} = {pcbOf[list[Len(list)]]}
            /\ \A i \in DOMAIN list : pcbOf[list[i]] = pcbOf[list[Len(list)]] => i = Len(list)
        BY <1>1, <3>4, KilledIsLast
      <4>2. alive \ {pcbOf[list[Len(list)]]} \subseteq alive'
        BY <3>a, <4>1
      <4>3. QED
        BY <3>2, <4>1, <4>2
    <3>5. QED
      BY <3>3, <3>4
  <2>3. QED
    BY <2>1, <2>2
<1>2. QED
  BY <1>1, Invariance, PTL DEF Spec, OldestGivenUp

============================================================================
