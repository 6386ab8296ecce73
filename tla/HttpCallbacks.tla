--------------------------- MODULE HttpCallbacks ---------------------------
(***************************************************************************)
(* The web server as callbacks of the lwIP thread, the build without       *)
(* LWIP_HTTPD_USE_SOCKS.  Each connection has one http_state of a pool;    *)
(* the list http_connections, newest first, decides who is aborted when    *)
(* the pool is empty.  An action is one callback and runs to its end.      *)
(***************************************************************************)
EXTENDS HttpRequest

CONSTANTS
  PoolSizes,    \* the values of MEMP_NUM_PARALLEL_HTTPD_CONNS to look at
  MaxRetries    \* HTTPD_MAX_RETRIES

ASSUME Pools == PoolSizes \subseteq Nat /\ MaxRetries \in Nat \ {0}

VARIABLES
  conn,         \* conn[c]: pcb and http_state of the connection of c
  list,         \* http_connections
  blocks,       \* MEMP_NUM_PARALLEL_HTTPD_CONNS of this build
  pool,         \* free blocks of HTTPD_STATE
  sends,        \* sends[c]: segments that c has sent
  killed        \* history: the connections aborted for another one

cbOwn == <<conn, list, blocks, pool, sends, killed>>
cbVars == <<shared, cbOwn>>

New == [pcb |-> "new", got |-> 0, handle |-> None, left |-> 0, retries |-> 0, written |-> <<>>, unacked |-> 0]

\* pcb: "open" has its callbacks, "closing" only http_poll, after altcp_close failed.
CbTypeOK ==
  /\ \A c \in Clients :
       /\ conn[c].pcb \in {"new", "open", "closing", "closed"}
       /\ conn[c].got \in 0 .. sends[c] /\ (conn[c].handle = None => conn[c].got <= QueueLen)
       /\ conn[c].retries \in 0 .. MaxRetries - 1
       /\ conn[c].handle \in Handles /\ conn[c].left >= 0 /\ conn[c].unacked >= 0
  /\ pool \in 0 .. blocks

CbInit ==
  /\ SharedInit
  /\ conn = [c \in Clients |-> New] /\ list = <<>> /\ blocks \in PoolSizes /\ pool = blocks
  /\ sends = [c \in Clients |-> 0] /\ killed = {}

Open(c) == conn[c].pcb = "open"

\* http_remove_connection: the element of c is unlinked.
Without(s, c) ==
  IF \E k \in 1 .. Len(s) : s[k] = c
    THEN LET at == CHOOSE k \in 1 .. Len(s) : s[k] = c
         IN [k \in 1 .. Len(s) - 1 |-> IF k < at THEN s[k] ELSE s[k + 1]]
    ELSE s

\* http_state_free: the block goes back to the pool.  The shared buffer stays as it is.
FreeState(c) == list' = Without(list, c) /\ pool' = pool + 1

-----------------------------------------------------------------------------
(* http_accept, with http_state_alloc and http_kill_oldest_connection       *)

Oldest == list[Len(list)]
Accepted(l, c) == <<c>> \o l

AcceptFree(c) ==
  /\ pool > 0 /\ pool' = pool - 1 /\ list' = Accepted(list, c)
  /\ conn' = [conn EXCEPT ![c] = [New EXCEPT !.pcb = "open"]]
  /\ UNCHANGED killed

\* The only connection is never killed.
AcceptKills(c) ==
  /\ pool = 0 /\ Len(list) >= 2
  /\ list' = Accepted(Without(list, Oldest), c)
  /\ conn' = [conn EXCEPT ![Oldest].pcb = "closed", ![c] = [New EXCEPT !.pcb = "open"]]
  /\ killed' = killed \cup {Oldest} /\ UNCHANGED pool

AcceptRefused(c) ==
  /\ pool = 0 /\ Len(list) < 2
  /\ conn' = [conn EXCEPT ![c].pcb = "closed"]
  /\ UNCHANGED <<list, pool, killed>>

CbAccept(c) ==
  /\ conn[c].pcb = "new" /\ (AcceptFree(c) \/ AcceptKills(c) \/ AcceptRefused(c))
  /\ UNCHANGED <<shared, sends>>

-----------------------------------------------------------------------------
(* Sending and closing                                                      *)

\* http_close_or_abort_conn; altcp_close may fail for want of memory.
CloseConn(c) ==
  /\ \E p \in {"closing", "closed"} : conn' = [conn EXCEPT ![c].pcb = p]
  /\ FreeState(c)

WriteLost(state, k, owner) == [state EXCEPT !.left = 0, !.unacked = @ + k,  \* mutant: taken for written
  !.written = @ \o [i \in 1 .. k |-> Chunk(state.handle, state.left - i + 1, owner)]]
\* http_send_data_nonssi: http_write takes k chunks, none when there is no memory.
Write(state, k, owner) == [state EXCEPT !.left = @ - k, !.unacked = @ + k,
  !.written = @ \o [i \in 1 .. k |-> Chunk(state.handle, state.left - i + 1, owner)]]

\* The last chunk of any file frees the buffer, http_send.
Ends(state, k) == state.left = k

\* http_send of an http_state with a file: at the end the connection is closed.
Send(c, state) ==
  \/ state.left = 0 /\ CloseConn(c) /\ UNCHANGED shared
  \/ /\ state.left > 0
     /\ \E k \in 0 .. state.left :
          /\ conn' = [conn EXCEPT ![c] = Write(state, k, buffer)]
          /\ busy' = IF Ends(state, k) THEN "free" ELSE busy
     /\ UNCHANGED <<buffer, permission, commands, list, pool>>

-----------------------------------------------------------------------------
(* The callbacks                                                            *)

CbClientSends(c) ==
  /\ Open(c) /\ sends[c] < Req[c].ends
  /\ sends' = [sends EXCEPT ![c] = @ + 1]
  /\ UNCHANGED <<shared, conn, list, pool, killed>>

\* http_recv of a segment while the request is incomplete
Recv(c) ==
  LET got == conn[c].got + 1
      result == Parse(Req[c], got)
      state == [conn[c] EXCEPT !.got = got, !.handle = result, !.left = Length(c, result)]
  IN
  /\ Open(c) /\ conn[c].handle = None /\ sends[c] > conn[c].got
  /\ \/ result = "more" /\ Parsed(c, got) /\ conn' = [conn EXCEPT ![c].got = got] /\ UNCHANGED <<list, pool>>
     \/ result \in {"bad", None} /\ Parsed(c, got) /\ CloseConn(c)
     \/ /\ result \notin {"more", "bad", None}
        /\ \E k \in 0 .. state.left :
             /\ ParsedAnd(c, got, Ends(state, k))
             /\ conn' = [conn EXCEPT ![c] = Write(state, k, c)]
        /\ UNCHANGED <<list, pool>>
  /\ UNCHANGED <<sends, killed>>

\* http_recv of data while the answer is sent: dropped.
RecvSending(c) ==
  /\ Open(c) /\ conn[c].handle # None /\ sends[c] > conn[c].got
  /\ conn' = [conn EXCEPT ![c].got = @ + 1]
  /\ UNCHANGED <<shared, list, pool, sends, killed>>

\* http_recv with p = NULL: the client has closed.
RecvClosed(c) == Open(c) /\ CloseConn(c) /\ UNCHANGED <<shared, sends, killed>>

\* http_sent
Sent(c) ==
  /\ Open(c) /\ conn[c].unacked > 0
  /\ Send(c, [conn[c] EXCEPT !.unacked = 0, !.retries = 0])
  /\ UNCHANGED <<sends, killed>>

PollPatient(c) ==  \* mutant: a connection without a request is never given up
  LET tried == [conn[c] EXCEPT !.retries = @ + 1] IN
  /\ Open(c)
  /\ \/ tried.retries = MaxRetries /\ tried.handle # None /\ CloseConn(c) /\ UNCHANGED shared
     \/ tried.retries # MaxRetries /\ tried.handle # None /\ Send(c, tried)
     \/ tried.handle = None /\ UNCHANGED <<conn, shared, list, pool>>
  /\ UNCHANGED <<sends, killed>>
\* http_poll of an open connection
Poll(c) ==
  LET tried == [conn[c] EXCEPT !.retries = @ + 1] IN
  /\ Open(c)
  /\ \/ tried.retries = MaxRetries /\ CloseConn(c) /\ UNCHANGED shared
     \/ tried.retries # MaxRetries /\ tried.handle # None /\ Send(c, tried)
     \/ /\ tried.retries # MaxRetries /\ tried.handle = None
        /\ conn' = [conn EXCEPT ![c] = tried] /\ UNCHANGED <<shared, list, pool>>
  /\ UNCHANGED <<sends, killed>>

\* http_poll of a connection whose close has failed: again, until it succeeds.
PollClosing(c) ==
  /\ conn[c].pcb = "closing" /\ conn' = [conn EXCEPT ![c].pcb = "closed"]
  /\ UNCHANGED <<shared, list, pool, sends, killed>>

\* http_err: lwIP has freed the pcb.
Err(c) ==
  /\ Open(c) /\ conn' = [conn EXCEPT ![c].pcb = "closed"] /\ FreeState(c)
  /\ UNCHANGED <<shared, sends, killed>>

CbNext ==
  /\ UNCHANGED blocks
  /\ \E c \in Clients :
       \/ CbAccept(c) \/ CbClientSends(c) \/ Recv(c) \/ RecvSending(c) \/ RecvClosed(c)
       \/ Sent(c) \/ Poll(c) \/ PollClosing(c) \/ Err(c)

CbSpec == CbInit /\ [][CbNext]_cbVars

-----------------------------------------------------------------------------
(* Properties                                                               *)

\* The list holds exactly the open connections, each once, and every block of the pool
\* is free or in the list: no callback leaks a block, frees one twice or leaves a
\* freed one linked, in whatever order closes, errors and kills come.
StatesListed ==
  /\ pool + Len(list) = blocks
  /\ \A c \in Clients : Open(c) <=> \E k \in 1 .. Len(list) : list[k] = c
  /\ \A j, k \in 1 .. Len(list) : list[j] = list[k] => j = k

\* What is written of a file is a prefix of it, without holes or repetitions, however
\* writes are cut short, retried by poll and continued by acknowledgements; while the
\* connection is open it still knows the rest.
PrefixInOrder ==
  \A c \in Clients :
    LET state == conn[c]  length == Length(c, state.handle) IN
    state.handle # None =>
      /\ \A i \in 1 .. Len(state.written) :
           state.written[i].part = i + Chunks[state.handle] - length /\ state.written[i].file = state.handle
      /\ Open(c) => Len(state.written) + state.left = length

\* Only the connection that has been open longest is aborted for a new one, and never
\* the only one.
OldestKilled ==
  [][\A c \in killed' \ killed : list # <<>> /\ c = Oldest /\ Len(list) >= 2 /\ Len(list') = Len(list)]_cbOwn

\* Every connection that is accepted is closed in the end, also if it sends nothing or
\* acknowledges nothing.
EveryConnectionEnds == \A c \in Clients : conn[c].pcb \in {"open", "closing"} ~> conn[c].pcb = "closed"

\* The callbacks give the clients the service HttpService specifies; a connection whose
\* altcp_close failed is closed to it: nothing is sent any more.
Service == INSTANCE HttpService WITH
  phase <- [c \in Clients |-> IF conn[c].pcb = "closing" THEN "closed" ELSE conn[c].pcb],
  out <- [c \in Clients |-> Outline(conn[c].written)]
ImplementsService == Service!ServiceSpec

\* The states in use are those of the list, and what a client got is the beginning of its
\* answer, in order, whatever altcp_write refused: the callbacks implement HttpService.
ConnectionsRight == [](CbTypeOK /\ StatesListed /\ PrefixInOrder) /\ ImplementsService

\* Only the oldest connection is given up for a new one, and every connection ends: its
\* client closes it or polls run out.
ConnectionsEnd == OldestKilled /\ EveryConnectionEnds

-----------------------------------------------------------------------------
(* The inductive invariant of the proofs in HttpCallbacksProofs.            *)

StateType ==
  [pcb : {"new", "open", "closing", "closed"}, got : Nat, handle : Handles, left : Nat,
   retries : 0 .. (MaxRetries - 1), written : Seq(ChunkType), unacked : Nat]

\* What an http_state has written and what it has left make one answer of its client.
Coherent(c, s) ==
  /\ s.pcb = "new" => s.handle = None
  /\ s.handle = None => s.written = <<>> /\ s.left = 0 /\ s.got <= QueueLen
  /\ s.handle # None =>
       /\ Len(s.written) <= Length(c, s.handle)
       /\ s.pcb = "open" => Len(s.written) + s.left = Length(c, s.handle)
       /\ \A i \in 1 .. Len(s.written) :
            /\ s.written[i].file = s.handle
            /\ s.written[i].part = i + Chunks[s.handle] - Length(c, s.handle)

CbInv ==
  /\ conn \in [Clients -> StateType] /\ buffer \in Clients \cup {None}
  /\ list \in Seq(Clients) /\ pool \in Nat /\ blocks \in Nat /\ sends \in [Clients -> Nat]
  /\ StatesListed
  /\ \A c \in Clients : Coherent(c, conn[c]) /\ conn[c].got <= sends[c]
=============================================================================
