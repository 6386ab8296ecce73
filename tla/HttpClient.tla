----------------------------- MODULE HttpClient -----------------------------
(***************************************************************************)
(* The HTTP client, http_client.c: one request from httpc_get_file*, by     *)
(* address or by name, to memory or to a file, until its state is freed.   *)
(* A reply is a status line, the end of the headers and body pieces; the   *)
(* pieces arrive in segments of any size.                                  *)
(***************************************************************************)
EXTENDS Integers, Sequences, FiniteSets

CONSTANTS
  Replies,      \* [status, length, body]: is the status line valid, the Content-Length or
                \* Invalid, and how many pieces of body come
  Invalid,      \* HTTPC_CONTENT_LEN_INVALID
  PollTimeout   \* HTTPC_POLL_TIMEOUT

ASSUME ReplyNumbers ==
  /\ Replies \subseteq [status : BOOLEAN, length : Nat, body : Nat]
  /\ PollTimeout \in Nat \ {0}

VARIABLES
  stage,        \* "idle", "dns", "connecting", "up", "over"
  reply,        \* what the server will send
  arrived,      \* pieces of it that have arrived
  held,         \* the memory that is allocated: request, hdrs, state, pcb, file
  parse,        \* parse_state: "first", "headers", "data"
  rxLen, hdrLen, ticks,
  given,        \* the pieces recv_fn got
  returned,     \* what httpc_get_file* returned: "none", "ok", "error"
  results       \* the calls of result_fn

clientVars == <<stage, reply, arrived, held, parse, rxLen, hdrLen, ticks, given, returned, results>>

ClientTypeOK ==
  /\ stage \in {"idle", "dns", "connecting", "up", "over"}
  /\ parse \in {"first", "headers", "data"} /\ ticks \in 0 .. PollTimeout
  /\ held \subseteq {"state", "request", "hdrs", "pcb", "file"}
  /\ rxLen \in 0 .. reply.body /\ returned \in {"none", "ok", "error"}

ClientInit ==
  /\ stage = "idle" /\ reply \in Replies /\ arrived = 0 /\ held = {} /\ parse = "first"
  /\ rxLen = 0 /\ hdrLen = Invalid /\ ticks = 0 /\ given = <<>> /\ returned = "none" /\ results = <<>>

-----------------------------------------------------------------------------
(* The start                                                                *)

\* httpc_free_state, httpc_fs_free
FreeState(h) == h \ {"request", "hdrs", "state", "pcb"}
FsFree(h) == h \ {"file"}

Clients == {{}, {"file"}}     \* to memory, or to a file after httpc_fs_init
Prefixes == {{}, {"state"}, {"state", "request"}, {"state", "request", "pcb"}}

\* httpc_get_file and its variants: any allocation may fail, altcp_connect too; what
\* there is of the file and of the state is freed.
StartFails ==
  /\ stage = "idle" /\ stage' = "over" /\ returned' = "error"
  /\ \E file \in Clients, have \in Prefixes : held' = FreeState(FsFree(file \cup have))
  /\ UNCHANGED <<reply, arrived, parse, rxLen, hdrLen, ticks, given, results>>

\* first is what name resolution and altcp_connect leave behind.
Start(first) ==
  /\ stage = "idle" /\ stage' = first /\ returned' = "ok" /\ ticks' = PollTimeout
  /\ \E file \in Clients : held' = file \cup {"state", "request", "pcb"}
  /\ UNCHANGED <<reply, arrived, parse, rxLen, hdrLen, given, results>>

\* httpc_close: result_fn, for a file httpc_fs_result, then httpc_free_state.
Close(result) ==
  /\ stage' = "over" /\ held' = FreeState(FsFree(held))
  /\ results' = Append(results, result)

\* httpc_dns_found
DnsFound ==
  /\ stage = "dns"
  /\ \/ stage' = "connecting" /\ UNCHANGED <<held, results>>
     \/ \E r \in {"hostname", "connect"} : Close(r)
  /\ UNCHANGED <<reply, arrived, parse, rxLen, hdrLen, ticks, given, returned>>

\* httpc_tcp_connected writes the request.
Connected ==
  /\ stage = "connecting"
  /\ \/ stage' = "up" /\ held' = held \ {"request"} /\ UNCHANGED results
     \/ Close("mem")
  /\ UNCHANGED <<reply, arrived, parse, rxLen, hdrLen, ticks, given, returned>>

-----------------------------------------------------------------------------
(* httpc_tcp_recv                                                           *)

Pieces == 2 + reply.body
\* http_parse_response_status and http_wait_headers over all that has arrived
Parsed(total) ==
  IF parse = "data" \/ (reply.status /\ total > 1) THEN "data"
  ELSE IF reply.status THEN "headers" ELSE "first"

\* The body in this segment: the headers before it are hidden.
Body(total) == {i \in arrived + 1 .. total : i > 2}

Recv(k) ==
  LET total == arrived + k  now == Parsed(total)
      body == IF now = "data" THEN Body(total) ELSE {} IN
  /\ stage = "up" /\ total <= Pieces /\ k > 0
  /\ arrived' = total /\ parse' = now
  /\ hdrLen' = IF now # parse /\ now = "data" THEN reply.length ELSE hdrLen
  /\ rxLen' = rxLen + Cardinality(body)
  /\ given' = given \o [i \in 1 .. Cardinality(body) |-> total - Cardinality(body) + i]
  /\ held' = IF now = "data" THEN held \ {"hdrs"} ELSE held \cup {"hdrs"}
  /\ UNCHANGED <<stage, reply, ticks, returned, results>>

\* headers_done_fn refuses.
HeadersRefused(k) ==
  /\ stage = "up" /\ arrived + k <= Pieces /\ k > 0 /\ parse # "data" /\ Parsed(arrived + k) = "data"
  /\ Close("local_abort")
  /\ arrived' = arrived + k
  /\ UNCHANGED <<reply, parse, rxLen, hdrLen, ticks, given, returned>>

VerdictShort == IF parse # "data" THEN "closed" ELSE "ok"  \* mutant: the length is not compared
\* p = NULL: the server has closed.
Verdict ==
  IF parse # "data" THEN "closed"
  ELSE IF hdrLen # Invalid /\ hdrLen # rxLen THEN "content_len" ELSE "ok"

RecvClosed ==
  /\ stage = "up" /\ Close(Verdict)
  /\ UNCHANGED <<reply, arrived, parse, rxLen, hdrLen, ticks, given, returned>>

\* httpc_tcp_err: the pcb is gone already.
Err ==
  /\ stage \in {"connecting", "up"} /\ Close("closed")
  /\ UNCHANGED <<reply, arrived, parse, rxLen, hdrLen, ticks, given, returned>>

Counts == stage \in {"connecting", "up"}
\* httpc_tcp_poll: the time counts from the start, whether data comes or not.
Poll ==
  /\ Counts /\ ticks' = ticks - 1
  /\ IF ticks = 1 THEN Close("timeout") ELSE UNCHANGED <<stage, held, results>>
  /\ UNCHANGED <<reply, arrived, parse, rxLen, hdrLen, given, returned>>

ClientNext ==
  \/ StartFails \/ Start("dns") \/ Start("connecting") \/ DnsFound \/ Connected
  \/ \E k \in 1 .. Pieces : Recv(k) \/ HeadersRefused(k)
  \/ RecvClosed \/ Err \/ Poll

ClientSpec == ClientInit /\ [][ClientNext]_clientVars

-----------------------------------------------------------------------------
(* Properties                                                               *)

\* "ERR_OK if starting the request succeeds (callback_fn will be called later) or an
\* error code": result_fn is called once for a started request, never for another, and
\* then nothing of the request is allocated any more.
OneResult ==
  /\ Len(results) <= 1
  /\ returned # "ok" => results = <<>>
  /\ stage = "over" => held = {} /\ (returned = "ok" => Len(results) = 1)

\* A request reported as done has its status line and headers, and as many pieces of
\* body as announced.
OkIsWhole ==
  results = <<"ok">> =>
    /\ reply.status /\ arrived >= 2
    /\ reply.length # Invalid => Len(given) = reply.length

\* The application gets the body and nothing of the headers, in order and without a
\* hole, however the segments cut the reply.
BodyInOrder == given = [i \in 1 .. Len(given) |-> i + 2] /\ Len(given) = rxLen

\* A request is reported once, as a success only for all of a good answer, and its bytes
\* are handed over in order and without a gap.
ResultRight == ClientTypeOK /\ OneResult /\ OkIsWhole /\ BodyInOrder

\* A request that was started gets its result, also if the server says nothing.
ResultComes == returned = "ok" ~> results # <<>>

-----------------------------------------------------------------------------
(* The inductive invariant behind ResultRight                               *)

Results == {"ok", "hostname", "connect", "mem", "local_abort", "closed", "content_len", "timeout"}
\* What is reported and allocated goes with the stage.
StagesKept ==
  /\ held \subseteq {"state", "request", "hdrs", "pcb", "file"}
  /\ stage = "idle" => returned = "none" /\ results = <<>>
  /\ stage \in {"dns", "connecting", "up"} =>
       returned = "ok" /\ results = <<>> /\ ticks \in 1 .. PollTimeout
  /\ stage = "over" =>
       /\ held = {}
       /\ \/ returned = "ok" /\ \E r \in Results : results = <<r>>
          \/ returned = "error" /\ results = <<>>

\* Where the body begins: nothing of it is given before the headers have ended.
HeadersFirst ==
  /\ arrived \in 0 .. Pieces
  /\ IF parse = "data"
     THEN /\ reply.status /\ hdrLen = reply.length /\ rxLen = arrived - 2 /\ arrived >= 2
          /\ stage \in {"up", "over"}
     ELSE rxLen = 0 /\ (stage = "up" /\ reply.status => arrived <= 1)
  /\ stage \in {"idle", "dns", "connecting"} => arrived = 0

ClientIInv ==
  /\ stage \in {"idle", "dns", "connecting", "up", "over"} /\ parse \in {"first", "headers", "data"}
  /\ reply \in Replies /\ ticks \in 0 .. PollTimeout
  /\ StagesKept /\ HeadersFirst /\ OkIsWhole /\ BodyInOrder
============================================================================
