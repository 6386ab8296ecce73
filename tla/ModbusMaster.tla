---------------------------- MODULE ModbusMaster ----------------------------
(***************************************************************************)
(* The Modbus TCP master, modbus_tcp_client.c and the master functions of  *)
(* modbus.c: the client table is cut into blocks, one connection task polls*)
(* one block of one slave, the slave table says where that slave is.       *)
(* The transaction identifier is shared by the connection tasks; with      *)
(* 2^16 values the steps of the others are left out.                       *)
(***************************************************************************)
EXTENDS Integers, Sequences, FiniteSets

CONSTANTS
  ClientTables, \* client tables: sequences of [space, addr, words]
  MaxSpaces,    \* MAX_NUMBER_OF_SLAVES_CONNECTIONS
  Slave, Ids,   \* the modbus address of this task's slave; all of them
  Ips, NoIp,    \* addresses; 0.0.0.0
  MaxSlaves,    \* MAX_NUMBER_OF_SLAVES
  IdSpace,      \* values of transaction_identifier
  MaxErrors,    \* errors in a row that are tolerated, 10
  Lens,         \* [fn, count] of the requests, for their lengths
  MaxOwn        \* bound: changes of the own address

\* 65536 identifiers and 10 errors in the code: an identifier is not given again while an
\* answer with it may still come
ASSUME Identifiers == MaxErrors \in Nat /\ IdSpace \in Nat /\ MaxErrors < IdSpace

\* The generator (regs_handl.py:419) writes the variables of a structure one after the other,
\* by ascending address, and gives each structure its own space.
LaidOut(t) ==
  /\ t \in Seq([space : Nat, addr : Nat, words : Nat]) /\ t # <<>>
  /\ \A i, j \in 1 .. Len(t) : i < j /\ t[i].space = t[j].space =>
       /\ t[i].addr + t[i].words <= t[j].addr
       /\ \A k \in i .. j : t[k].space = t[i].space

ASSUME Requested ==
  /\ MaxSpaces \in Nat /\ MaxSlaves \in Nat /\ Lens \subseteq [fn : Nat, count : Nat]
  /\ \A t \in ClientTables : LaidOut(t)

VARIABLES
  spaces, blocks,   \* regs_description_client and modbus_tcp_client_slave_connections
  slaves,           \* slaves_ip_table
  ownIp, seenIp,    \* regs_global->vars.ip and the task's own_ip
  task,             \* "init", "round", "send", "await", "gone"
  serverIp, sock,   \* sock: "none", "open", "dead"
  errors, nextId, asked, ask,
  reqs, wire,       \* requests at the slave, answers on their way: [id, good, old]
  stored,           \* the last answer in the registers: "none", "fresh", "stale"
  signal

masterVars == <<spaces, blocks, slaves, ownIp, seenIp, task, serverIp, sock, errors, nextId,
                asked, ask, reqs, wire, stored, signal>>
net == <<reqs, wire>>
outside == <<spaces, blocks, slaves, ownIp, signal>>

MasterTypeOK ==
  /\ task \in {"init", "round", "send", "await", "gone"} /\ sock \in {"none", "open", "dead"}
  /\ serverIp \in Ips \cup {NoIp} /\ errors \in 0 .. MaxErrors /\ nextId \in 0 .. IdSpace - 1
  /\ Len(slaves) <= MaxSlaves

MasterInit ==
  /\ spaces \in ClientTables /\ blocks = <<>> /\ slaves = <<>> /\ ownIp = 0 /\ seenIp = 0
  /\ task = "init" /\ serverIp = NoIp /\ sock = "none" /\ errors = 0 /\ nextId = 0 /\ asked = 0
  /\ ask \in Lens /\ reqs = <<>> /\ wire = <<>> /\ stored = "none" /\ signal = "none"

-----------------------------------------------------------------------------
(* modbus_master_init                                                       *)

Block(first, last) ==
  [first |-> first, words |-> spaces[last].addr - spaces[first].addr + spaces[last].words]

\* A block ends where the space changes and at the last variable; the last variable may
\* end two. With one variable the loop body only sets the first block's beginning.
Advance(p, i) ==
  LET q == IF spaces[i].space # spaces[i - 1].space
           THEN [first |-> i, made |-> Append(p.made, Block(p.first, i - 1))] ELSE p IN
  IF Len(p.made) >= MaxSpaces THEN p
  ELSE IF i = Len(spaces) THEN [q EXCEPT !.made = Append(@, Block(q.first, i))] ELSE q
Walk ==
  LET w[i \in 1 .. Len(spaces)] == IF i = 1 THEN [first |-> 1, made |-> <<>>] ELSE Advance(w[i - 1], i)
  IN  w[Len(spaces)].made

MasterStart ==
  /\ task = "init" /\ blocks' = Walk /\ task' = "round"
  /\ UNCHANGED <<spaces, slaves, ownIp, seenIp, serverIp, sock, errors, nextId, asked, ask, net, stored, signal>>

-----------------------------------------------------------------------------
(* The slave table                                                          *)

\* add_ip_to_slave_table: an address that is there already keeps its entry.
AddSlave(ip, id) ==
  /\ task # "init" /\ Len(slaves) < MaxSlaves
  /\ \A i \in 1 .. Len(slaves) : slaves[i].ip # ip
  /\ slaves' = Append(slaves, [ip |-> ip, id |-> id])
  /\ UNCHANGED <<spaces, blocks, ownIp, seenIp, task, serverIp, sock, errors, nextId, asked, ask, net, stored, signal>>

CleanTable ==  \* clean_slave_table
  /\ task # "init" /\ slaves # <<>> /\ slaves' = <<>>
  /\ UNCHANGED <<spaces, blocks, ownIp, seenIp, task, serverIp, sock, errors, nextId, asked, ask, net, stored, signal>>

OwnIpChanges ==
  /\ ownIp < MaxOwn /\ ownIp' = ownIp + 1
  /\ UNCHANGED <<spaces, blocks, slaves, seenIp, task, serverIp, sock, errors, nextId, asked, ask, net, stored, signal>>

Matching == {i \in 1 .. Len(slaves) : slaves[i].id = Slave}
LookupFirst ==  \* mutant: the first match
  IF Matching = {} THEN serverIp ELSE slaves[CHOOSE i \in Matching : \A j \in Matching : i <= j].ip
\* get_ip_address_by_modbus: the last match; without one server_ip stays.
Lookup ==
  IF Matching = {} THEN serverIp ELSE slaves[CHOOSE i \in Matching : \A j \in Matching : i >= j].ip

-----------------------------------------------------------------------------
(* modbus_tcp_client_connection_task                                        *)

\* ip_addresses_were_changed, close_socket_connection, connection_proccess. For the
\* task's part of a round before its signal or its request.
Round ==
  LET changed == Lookup # serverIp \/ ownIp # seenIp
      kept == IF changed THEN "none" ELSE sock IN
  /\ task = "round" /\ signal = "none"
  /\ serverIp' = Lookup /\ seenIp' = ownIp
  /\ sock' \in IF Lookup = NoIp THEN {"none"} ELSE IF kept = "none" THEN {"open", "none"} ELSE {kept}
  /\ task' = IF sock' = "none" THEN "round" ELSE "send"
  /\ IF kept = "none" THEN reqs' = <<>> /\ wire' = <<>> ELSE UNCHANGED net
  /\ UNCHANGED <<spaces, blocks, slaves, ownIp, signal, errors, nextId, asked, ask, stored>>

\* MODBUS_MASTER_CLOSE_CONNECTION_SIGNAL and STOP_CHILD_PROCCES end the task.
Signalled ==
  /\ task = "round" /\ signal # "none" /\ task' = "gone" /\ sock' = "none"
  /\ serverIp' = IF signal = "close" THEN NoIp ELSE Lookup
  /\ reqs' = <<>> /\ wire' = <<>> /\ seenIp' = ownIp
  /\ UNCHANGED <<spaces, blocks, slaves, ownIp, signal, errors, nextId, asked, ask, stored>>

\* A result below zero: after too many in a row the connection is closed.
Failed ==
  /\ task' = "round"
  /\ IF errors = MaxErrors
     THEN errors' = 0 /\ sock' = "none" /\ reqs' = <<>> /\ wire' = <<>>
     ELSE errors' = errors + 1 /\ UNCHANGED <<sock, net>>

\* modbus_make_packet without the crc; the byte count of functions 15 and 16 is a byte.
ByteCount(a) == IF a.fn = 16 THEN (2 * a.count) % 256 ELSE ((a.count + 7) \div 8) % 256
RequestLen(a) == IF a.fn \in 1 .. 6 THEN 6 ELSE 7 + ByteCount(a)
\* it_modbus_request_check of the slave, with the crc
CheckedLen(a) == IF a.fn \in 1 .. 6 THEN 8 ELSE 9 + ByteCount(a)
\* modbus_response_lenght, with the MBAP header in place of the crc
TcpResponseLen(a) ==
  6 + (CASE a.fn \in 1 .. 2 -> (a.count + 7) \div 8 + 3 [] a.fn \in 3 .. 4 -> 2 * a.count + 3 [] OTHER -> 6)
\* "should never occur": functions other than these have no packet.
Makeable(a) ==
  /\ a.fn \in (1 .. 6) \cup {15, 16}
  /\ a.fn = 16 => a.count <= 127
  /\ a.fn = 15 => a.count <= 254
  /\ TcpResponseLen(a) <= 256

Old(s) == [i \in 1 .. Len(s) |-> [s[i] EXCEPT !.old = TRUE]]

\* modbus_master_execute_request, up to send: INTERNAL_ERROR, a send that fails, or a
\* request on its way.
Send ==
  /\ task = "send"
  /\ \/ /\ (~ Makeable(ask) \/ sock = "dead") /\ Failed
        /\ UNCHANGED <<nextId, asked>>
     \/ /\ Makeable(ask) /\ sock = "open"
        /\ asked' = nextId /\ nextId' = (nextId + 1) % IdSpace /\ task' = "await"
        /\ reqs' = Append(Old(reqs), [id |-> nextId, good |-> TRUE, old |-> FALSE])
        /\ wire' = Old(wire)
        /\ UNCHANGED <<sock, errors>>
  /\ UNCHANGED <<outside, serverIp, seenIp, ask, stored>>

\* Between the send and the answer: select times out, recv reports the end, or the
\* socket has an error.
Timeout ==
  /\ task = "await" /\ (wire = <<>> \/ sock = "dead") /\ Failed
  /\ UNCHANGED <<outside, serverIp, seenIp, nextId, asked, ask, stored>>

AnyId(head) == TRUE   \* mutant: the identifier is not compared
OwnId(head) == head.id = asked

\* recv takes one answer or several at once and looks at the first: another identifier
\* means to wait on. A body that does not fit the request, an exception, has the result 0
\* and counts as a success.
Receive(k) ==
  /\ task = "await" /\ sock = "open" /\ k \in 1 .. Len(wire)
  /\ wire' = SubSeq(wire, k + 1, Len(wire))
  /\ LET head == wire[1] IN
     IF OwnId(head)
     THEN /\ task' = "round" /\ errors' = 0
          /\ stored' = IF ~ head.good THEN stored ELSE IF head.old THEN "stale" ELSE "fresh"
     ELSE UNCHANGED <<task, errors, stored>>
  /\ UNCHANGED <<outside, serverIp, seenIp, sock, nextId, asked, ask, reqs>>

-----------------------------------------------------------------------------
(* Outside                                                                  *)

\* The slave answers its requests in order, however late.
Answer(good) ==
  /\ sock = "open" /\ reqs # <<>>
  /\ wire' = Append(wire, [Head(reqs) EXCEPT !.good = good]) /\ reqs' = Tail(reqs)
  /\ UNCHANGED <<outside, seenIp, task, serverIp, sock, errors, nextId, asked, ask, stored>>

PeerCloses ==
  /\ sock = "open" /\ sock' = "dead" /\ reqs' = <<>> /\ wire' = <<>>
  /\ UNCHANGED <<outside, seenIp, task, serverIp, errors, nextId, asked, ask, stored>>

Notify(s) ==
  /\ task # "gone" /\ signal = "none" /\ signal' = s
  /\ UNCHANGED <<spaces, blocks, slaves, ownIp, seenIp, task, serverIp, sock, errors, nextId, asked, ask, net, stored>>

TaskStep == MasterStart \/ Round \/ Signalled \/ Send \/ Timeout \/ \E k \in 1 .. Len(wire) : Receive(k)

MasterNext ==
  \/ TaskStep \/ CleanTable \/ OwnIpChanges \/ PeerCloses
  \/ \E ip \in Ips, id \in Ids : AddSlave(ip, id)
  \/ \E good \in BOOLEAN : Answer(good)
  \/ \E s \in {"close", "stop"} : Notify(s)

MasterSpec == MasterInit /\ [][MasterNext]_masterVars

-----------------------------------------------------------------------------
(* Properties                                                               *)

\* Every variable of the client table is read by exactly one task, whose block holds all of
\* its words, and the blocks fit into their array. From two variables on, and for as many
\* spaces as there is room for: the loop tests its bound before it may add two blocks.
Holds(b, v) ==
  LET f == spaces[b.first] IN v.space = f.space /\ v.addr >= f.addr /\ v.addr + v.words <= f.addr + b.words
SpacesTo(n) == {spaces[i].space : i \in 1 .. n}
BlocksCover ==
  task # "init" /\ Len(spaces) > 1 /\ Cardinality(SpacesTo(Len(spaces))) <= MaxSpaces =>
    /\ Len(blocks) <= MaxSpaces
    /\ \A i \in 1 .. Len(spaces) : \E b \in 1 .. Len(blocks) :
         /\ Holds(blocks[b], spaces[i])
         /\ \A c \in 1 .. Len(blocks) : Holds(blocks[c], spaces[i]) => c = b

\* A request that is sent has the length the slave's check computes from it.
AskAccepted == task = "await" => RequestLen(ask) + 2 = CheckedLen(ask) /\ CheckedLen(ask) <= 266

\* The registers hold the answer to the last request, never one to a request whose time
\* had run out, whatever was late and however many times the task gave up.
FreshAnswer == stored # "stale"

\* What the master asks for covers every variable of its table once, is a request the checks
\* of a slave accept, and what it stores is the answer to it.
AnswersRight == MasterTypeOK /\ BlocksCover /\ AskAccepted /\ FreshAnswer

\* A connection the slave has closed is dropped, and not used for ever.
DeadDropped == (sock = "dead") ~> (sock # "dead")

\* The task goes to the address its slave has in the newest entry of the table.
Newest(ip) == Matching # {} /\ slaves[CHOOSE i \in Matching : \A j \in Matching : i >= j].ip = ip
FollowsTable ==
  \A ip \in Ips : (Newest(ip) /\ task # "gone") ~> (serverIp = ip \/ ~ Newest(ip) \/ task = "gone")

\* A signal ends the task, also while it waits for an answer.
EndsOnSignal == (signal # "none") ~> (task = "gone" /\ sock = "none")

-----------------------------------------------------------------------------
(* The inductive invariant behind FreshAnswer                               *)

\* The identifier given k requests before the last one.
Ago(k) == IF k < nextId THEN nextId - 1 - k ELSE nextId - 1 - k + IdSpace

Messages == [id : Int, good : BOOLEAN, old : BOOLEAN]
NetTypeOK ==
  /\ wire \in Seq(Messages) /\ reqs \in Seq(Messages)
  /\ errors \in 0 .. MaxErrors /\ nextId \in 0 .. IdSpace - 1 /\ asked \in Int

\* There is one message for each error in a row, and one for the request that is waited for.
FewOnTheirWay == Len(wire) + Len(reqs) <= errors + IF task = "await" THEN 1 ELSE 0

\* The messages on their way are those of the last requests, in the order they were asked in.
OfAge(m, age) == m.id = Ago(age) /\ (m.old => age > 0)
LastAsked ==
  /\ \A i \in 1 .. Len(reqs) : OfAge(reqs[i], Len(reqs) - i)
  /\ \A i \in 1 .. Len(wire) : OfAge(wire[i], Len(reqs) + Len(wire) - i)
  /\ task = "await" => asked = Ago(0)

MasterIInv == NetTypeOK /\ FewOnTheirWay /\ LastAsked /\ FreshAnswer

\* What the tables hold, behind the rest of AnswersRight.
TablesKept ==
  /\ MasterTypeOK /\ BlocksCover
  /\ spaces \in ClientTables /\ ask \in Lens /\ slaves \in Seq([ip : Ips, id : Ids])
============================================================================
