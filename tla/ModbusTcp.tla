----------------------------- MODULE ModbusTcp -----------------------------
(***************************************************************************)
(* The Modbus TCP server on port 502: its connections, the pool of         *)
(* modbus_tcp_state blocks and the receive buffers in them.                *)
(*                                                                         *)
(* Every function here is a callback of the lwIP thread, so a callback is  *)
(* one action; what is hard is the order in which lwIP calls them.  lwIP   *)
(* itself (when a pcb exists, when it reports an error) is external.       *)
(*                                                                         *)
(* A receive buffer is not cleared between segments and the checks of a    *)
(* request look at the length its function code implies, not at the length *)
(* received: the first bytes of a frame can complete themselves with what  *)
(* an earlier segment left.  Of the requests, a write of one register or   *)
(* coil (functions 5 and 6) in RTU framing is the one whose answer leaves  *)
(* its own bytes in the buffer.                                            *)
(***************************************************************************)
EXTENDS Naturals, Sequences

CONSTANTS
  Pcb,         \* connections lwIP may offer, each of them once
  State,       \* the blocks of the pool MODBUS_TCP_STATE
  Null,        \* NULL: no block, no connection
  MaxRetries,  \* MODBUS_TCP_MAX_RETRIES_WITHOUT_RECV
  MaxSegments  \* bound on the segments the clients send

ASSUME Structure ==
  /\ Null \notin Pcb \cup State
  /\ "zeros" \notin Pcb /\ "other" \notin Pcb
  /\ MaxRetries \in Nat \ {0} /\ MaxSegments \in Nat

VARIABLES
  fresh,      \* pcbs not yet offered
  alive,      \* pcbs that lwIP still has and calls back for
  hooked,     \* pcbs with recv, err and sent callbacks registered
  polled,     \* pcbs with the poll callback registered
  arg,        \* [Pcb -> the argument of its callbacks]
  allocated,  \* blocks taken from the pool
  list,       \* modbus_tcp_connections, newest first
  pcbOf, retries,  \* fields of a block
  buffer,     \* [State -> what is in buff_received]
  unacked,    \* pcbs with an answer that the client has not acknowledged
  segments,   \* segments received so far
  executed    \* history: <<p, q>>, p had a write executed that q had received

conn    == <<fresh, alive, hooked, polled, arg>>
blocks  == <<allocated, list, pcbOf, retries>>
traffic == <<buffer, unacked, segments, executed>>
vars    == <<conn, blocks, traffic>>

\* buff_received: zeros, the write request that this pcb received, or bytes that
\* complete no request.
Content == Pcb \cup {"zeros", "other"}

Segment ==
  {"write",    \* a write of one register for this device, in RTU framing
   "request",  \* any other request for this device
   "foreign",  \* a request for another unit
   "head",     \* the first bytes of a write request
   "broken",   \* not a request
   "long"}     \* MODBUS_TCP_MAX_PACKET_SIZE bytes or more

Listed == {list[i] : i \in DOMAIN list}

TypeOK ==
  /\ fresh \subseteq Pcb /\ alive \subseteq Pcb
  /\ hooked \subseteq Pcb /\ polled \subseteq Pcb
  /\ arg \in [Pcb -> State \cup {Null}]
  /\ allocated \subseteq State
  /\ list \in Seq(State)
  /\ pcbOf \in [State -> Pcb \cup {Null}]
  /\ retries \in [State -> 0 .. (MaxRetries - 1)]
  /\ buffer \in [State -> Content]
  /\ unacked \subseteq Pcb
  /\ segments \in 0 .. MaxSegments
  /\ executed \subseteq Pcb \X Pcb

\* modbus_tcp_init
Init ==
  /\ fresh = Pcb /\ alive = {} /\ hooked = {} /\ polled = {}
  /\ arg = [p \in Pcb |-> Null]
  /\ allocated = {} /\ list = <<>>
  /\ pcbOf = [s \in State |-> Null]
  /\ retries = [s \in State |-> 0]
  /\ buffer = [s \in State |-> "zeros"]
  /\ unacked = {} /\ segments = 0 /\ executed = {}

-----------------------------------------------------------------------------
\* modbus_tcp_remove_connection: list l without block s.
RemovedHeadOnly(l, s) ==  \* mutant: only the head of the list is looked at
  IF l # <<>> /\ Head(l) = s THEN Tail(l) ELSE l
Removed(l, s) ==
  IF \E i \in DOMAIN l : l[i] = s
    THEN LET k == CHOOSE i \in DOMAIN l : l[i] = s IN
         [i \in 1 .. (Len(l) - 1) |-> IF i < k THEN l[i] ELSE l[i + 1]]
    ELSE l

\* modbus_tcp_state_free
StateFree(s) ==
  /\ list' = Removed(list, s)
  /\ allocated' = allocated \ {s}
  /\ UNCHANGED <<pcbOf, retries>>

\* The first half of modbus_tcp_close_or_abort_conn: the callbacks are taken away.
UnhookArgKept(p) ==  \* mutant: altcp_arg(pcb, NULL) is left out
  hooked' = hooked \ {p} /\ UNCHANGED arg
Unhook(p) ==
  /\ arg' = [arg EXCEPT ![p] = Null]
  /\ hooked' = hooked \ {p}

\* altcp_close: the pcb is gone, or the close fails and is tried again in poll.
TryLaterForgotten(p) ==  \* mutant: the poll callback is not registered again
  polled' = polled \ {p} /\ UNCHANGED alive
TryLater(p) == polled' = polled \cup {p} /\ UNCHANGED alive
Gone(p) == polled' = polled \ {p} /\ alive' = alive \ {p}

-----------------------------------------------------------------------------
\* modbus_tcp_kill_oldest_connection picks the last block of a list of two or more.
OldestIsNewest ==  \* mutant: the wrong end of the list
  IF Len(list) > 1 THEN {list[1]} ELSE {}
Oldest == IF Len(list) > 1 THEN {list[Len(list)]} ELSE {}

\* modbus_tcp_state_init: memset of the block, the buffer included.
InitBufferKept(s) == buffer' = buffer  \* mutant: the buffer is left as it was
InitBuffer(s) == buffer' = [buffer EXCEPT ![s] = "zeros"]

\* modbus_tcp_state_alloc: a block from the pool or, when it is empty, the block of
\* the oldest connection, which is aborted.
Killed == IF allocated = State THEN Oldest ELSE {}
Usable == (State \ allocated) \cup Killed

\* modbus_tcp_accept.  Without a block the pcb is closed.
Accept(p) ==
  LET gone == {pcbOf[s] : s \in Killed} IN
  /\ p \in fresh
  /\ fresh' = fresh \ {p}
  /\ IF Usable = {}
       THEN UNCHANGED <<alive, hooked, polled, arg, blocks, buffer>>
       ELSE \E s \in Usable :
              /\ alive' = (alive \ gone) \cup {p}
              /\ hooked' = (hooked \ gone) \cup {p}
              /\ polled' = (polled \ gone) \cup {p}
              /\ arg' = [q \in Pcb |-> IF q = p THEN s
                                       ELSE IF q \in gone THEN Null ELSE arg[q]]
              /\ list' = <<s>> \o (IF Killed = {} THEN list ELSE Removed(list, s))
              /\ allocated' = allocated \cup {s}
              /\ pcbOf' = [pcbOf EXCEPT ![s] = p]
              /\ retries' = [retries EXCEPT ![s] = 0]
              /\ InitBuffer(s)
  /\ UNCHANGED <<unacked, segments, executed>>

\* modbus_tcp_recv with data.  A head completes itself with the write that the
\* buffer still holds and is executed; otherwise it is answered as broken, or not
\* at all when the bytes complete it to a request for another unit.
Recv(p, segment) ==
  LET s == arg[p]
      stale == segment = "head" /\ buffer[s] \in Pcb
      origin == IF segment = "write" THEN p ELSE buffer[s]
      answered == CASE segment \in {"foreign", "long"} -> {FALSE}
                    [] segment = "head" /\ buffer[s] = "other" -> BOOLEAN
                    [] OTHER -> {TRUE}
  IN
  /\ p \in alive \cap hooked /\ segments < MaxSegments
  /\ segments' = segments + 1
  /\ retries' = [retries EXCEPT ![s] = 0]
  /\ buffer' = [buffer EXCEPT ![s] = CASE segment = "write" -> p
                                       [] stale \/ segment = "long" -> @
                                       [] OTHER -> "other"]
  /\ executed' = IF segment = "write" \/ stale THEN executed \cup {<<p, origin>>}
                                               ELSE executed
  /\ \E a \in answered : unacked' = IF a THEN unacked \cup {p} ELSE unacked
  /\ UNCHANGED <<conn, allocated, list, pcbOf>>

\* modbus_tcp_recv with an error or without data: the client closed.
RecvClosed(p) ==
  /\ p \in alive \cap hooked
  /\ Unhook(p)
  /\ StateFree(arg[p])
  /\ Gone(p) \/ TryLater(p)
  /\ UNCHANGED <<fresh, traffic>>

\* modbus_tcp_sent: an answer is acknowledged.
Sent(p) ==
  /\ p \in alive \cap hooked \cap unacked
  /\ retries' = [retries EXCEPT ![arg[p]] = 0]
  /\ unacked' = unacked \ {p}
  /\ UNCHANGED <<conn, allocated, list, pcbOf, buffer, segments, executed>>

\* modbus_tcp_err: lwIP has already dropped the pcb.
Err(p) ==
  /\ p \in alive
  /\ alive' = alive \ {p}
  /\ hooked' = hooked \ {p} /\ polled' = polled \ {p}
  /\ arg' = [arg EXCEPT ![p] = Null]
  /\ IF p \in hooked THEN StateFree(arg[p]) ELSE UNCHANGED blocks
  /\ UNCHANGED <<fresh, traffic>>

\* This poll is the last one of a connection that stays silent.
Silent(s) == retries[s] + 1 >= MaxRetries

\* modbus_tcp_poll.  Without an argument the close is tried again, and a close that
\* fails again is an abort; with one, a connection silent for MaxRetries is aborted.
Poll(p) ==
  /\ p \in alive \cap polled
  /\ \/ /\ arg[p] = Null
        /\ Unhook(p) /\ Gone(p)
        /\ UNCHANGED blocks
     \/ /\ arg[p] # Null /\ ~Silent(arg[p])
        /\ retries' = [retries EXCEPT ![arg[p]] = @ + 1]
        /\ UNCHANGED <<alive, hooked, polled, arg, allocated, list, pcbOf>>
     \/ /\ arg[p] # Null /\ Silent(arg[p])
        /\ Unhook(p) /\ Gone(p)
        /\ StateFree(arg[p])
  /\ UNCHANGED <<fresh, traffic>>

Next ==
  \E p \in Pcb :
    \/ Accept(p)
    \/ \E segment \in Segment : Recv(p, segment)
    \/ RecvClosed(p)
    \/ Sent(p)
    \/ Err(p)
    \/ Poll(p)

Spec == Init /\ [][Next]_vars

\* tcp_slowtmr calls the poll callback of every pcb that has one, again and again.
FairSpec == Spec /\ \A p \in Pcb : WF_vars(Poll(p))

-----------------------------------------------------------------------------
(* Properties                                                               *)

\* Every block of the pool that is in use is on modbus_tcp_connections, exactly
\* once, and belongs to one connection that lwIP still has: no block leaks from the
\* pool of MEMP_NUM_PARALLEL_MODBUS_TCP_CONNS, and none is freed twice.
BlocksOwned ==
  /\ Listed = allocated
  /\ \A i, j \in DOMAIN list : list[i] = list[j] => i = j
  /\ \A s \in allocated : pcbOf[s] \in alive \cap hooked /\ arg[pcbOf[s]] = s

\* No callback ever runs on a block that went back to the pool or to another
\* connection: the argument lwIP holds is NULL or a block in use by that very pcb.
\* About the order altcp_arg(NULL), free, abort in modbus_tcp_close_or_abort_conn.
NoDanglingArg ==
  \A p \in alive :
    arg[p] # Null => arg[p] \in allocated /\ pcbOf[arg[p]] = p /\ p \in hooked \cap polled

\* What a connection executes arrived on that connection: a recycled block brings no
\* request of its former owner along, although a head is completed with old bytes.
OwnRequestsOnly == \A e \in executed : e[1] = e[2]

\* A connection that was accepted later is never given up for a new one while an
\* older one stays.  About the end of the list modbus_tcp_kill_oldest_connection takes.
OldestGivenUp ==
  [][\A p \in fresh \ fresh' : \A i, j \in DOMAIN list :
       (i < j /\ pcbOf[list[j]] \in alive') => pcbOf[list[i]] \in alive']_vars

\* Every connection is reclaimed once its client falls silent, a failed close
\* included: the pool refills without the client's help.
SilentReclaimed == \A p \in Pcb : p \in alive ~> p \notin alive

-----------------------------------------------------------------------------
(* The inductive invariant of the proofs in ModbusTcpProofs.                *)

\* The callbacks of a pcb agree with its argument.
Hooks ==
  /\ alive \cap fresh = {}
  /\ hooked \subseteq alive /\ polled \subseteq alive
  /\ \A p \in Pcb : p \in hooked <=> arg[p] # Null

\* A request that waits in the buffer of a block came from the owner of the block.
BufferOwned == \A s \in allocated : buffer[s] \in Pcb => buffer[s] = pcbOf[s]

IInv ==
  TypeOK /\ Hooks /\ BlocksOwned /\ NoDanglingArg /\ BufferOwned /\ OwnRequestsOnly
============================================================================
