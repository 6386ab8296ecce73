---------------------------- MODULE HttpSockets ----------------------------
(***************************************************************************)
(* The web server of the socket build: http_sock_task accepts clients and  *)
(* hands them to worker tasks through a queue; a worker receives one       *)
(* request and answers it while it holds http_request_mutex.  A stop       *)
(* notification ends the workers and deletes queue and mutexes.            *)
(***************************************************************************)
EXTENDS HttpRequest

CONSTANTS
  Workers,     \* the worker tasks that could be created
  MaxConns,    \* HTTP_SOCK_MAX_CONNECTIONS: length of the queue, stop messages
  Quit,        \* HTTP_SOCK_WORKER_STOP_FD
  MaxWaits,    \* select timeouts until a silent client is given up, 70 in the code
  MaxStopWaits \* HTTP_SOCK_STOP_TIMEOUT_MS / HTTP_SOCK_ACCEPT_TIMEOUT_MS

\* http_sock_init creates no more workers than the queue has places.
ASSUME Tasks ==
  /\ IsFiniteSet(Workers) /\ None \notin Workers /\ Quit \notin Clients
  /\ MaxConns \in Nat \ {0} /\ Cardinality(Workers) <= MaxConns
  /\ MaxWaits \in Nat \ {0} /\ MaxStopWaits \in Nat

VARIABLES
  acceptor,    \* where http_sock_task is
  listening,   \* its socket is open
  taken,       \* the client between accept and queue_send
  stops,       \* stop messages it has dealt with, or rounds it has waited
  queue, clientNumber, workers,   \* http_client_queue, client_number, http_workers
  tasksMutex, requestMutex,       \* their holders
  deleted,     \* queue and mutexes are deleted
  place,       \* place[w]: where worker w is
  fd, waits, got, handle, left,   \* its client, its counter i, its http_state
  sock,        \* sock[c]: "new", "pending", "open", "closed"
  sent,        \* sent[c]: segments c has sent
  gone,        \* gone[c]: c has closed its side
  received,    \* received[c]: the chunks that c was sent
  failed       \* history: failed[c]: a write to c failed

own == <<acceptor, listening, taken, stops, queue, clientNumber, workers, tasksMutex, requestMutex,
         deleted, place, fd, waits, got, handle, left, sock, sent, gone, received, failed>>
sockVars == <<shared, own>>

SockTypeOK ==
  /\ acceptor \in {"loop", "accept", "enqueue", "quit", "wait", "ended"}
  /\ taken \in Clients \cup {None} /\ stops \in 0 .. (IF MaxConns > MaxStopWaits THEN MaxConns ELSE MaxStopWaits)
  /\ Len(queue) <= MaxConns /\ clientNumber \in 0 .. Cardinality(Workers) /\ workers \in 0 .. Cardinality(Workers)
  /\ requestMutex \in Workers \cup {None} /\ tasksMutex \in Workers \cup {None}
  /\ \A w \in Workers : /\ waits[w] \in 0 .. MaxWaits /\ got[w] \in 0 .. (QueueLen + 1)
                        /\ handle[w] \in Handles /\ left[w] >= 0
  /\ busy \in {"free", "sending"} /\ buffer \in Clients \cup {None}

SockInit ==
  /\ SharedInit
  /\ acceptor = "loop" /\ listening = FALSE /\ taken = None /\ stops = 0 /\ queue = <<>>
  /\ clientNumber = 0 /\ tasksMutex = None /\ requestMutex = None /\ deleted = FALSE
  /\ place \in [Workers -> {"idle", "gone"}]                 \* task_create may fail
  /\ workers = Cardinality({w \in Workers : place[w] = "idle"})
  /\ fd = [w \in Workers |-> None]
  /\ waits = [w \in Workers |-> 0] /\ got = [w \in Workers |-> 0]
  /\ handle = [w \in Workers |-> None] /\ left = [w \in Workers |-> 0]
  /\ sock = [c \in Clients |-> "new"] /\ sent = [c \in Clients |-> 0] /\ gone = [c \in Clients |-> FALSE]
  /\ received = [c \in Clients |-> <<>>] /\ failed = [c \in Clients |-> FALSE]

-----------------------------------------------------------------------------
(* The clients                                                              *)

Connect(c) ==
  /\ listening /\ sock[c] = "new"
  /\ sock' = [sock EXCEPT ![c] = "pending"]
  /\ UNCHANGED <<shared, acceptor, listening, taken, stops, queue, clientNumber, workers, tasksMutex, requestMutex,
                 deleted, place, fd, waits, got, handle, left, sent, gone, received, failed>>

ClientSends(c) ==
  /\ sock[c] \in {"pending", "open"} /\ ~gone[c] /\ sent[c] < Req[c].ends
  /\ sent' = [sent EXCEPT ![c] = @ + 1]
  /\ UNCHANGED <<shared, acceptor, listening, taken, stops, queue, clientNumber, workers, tasksMutex, requestMutex,
                 deleted, place, fd, waits, got, handle, left, sock, gone, received, failed>>

ClientLeaves(c) ==
  /\ sock[c] \in {"pending", "open"} /\ ~gone[c]
  /\ gone' = [gone EXCEPT ![c] = TRUE]
  /\ UNCHANGED <<shared, acceptor, listening, taken, stops, queue, clientNumber, workers, tasksMutex, requestMutex,
                 deleted, place, fd, waits, got, handle, left, sock, sent, received, failed>>

-----------------------------------------------------------------------------
(* http_sock_task                                                           *)

AcceptorKeeps == UNCHANGED <<shared, tasksMutex, requestMutex, place, fd, waits, got, handle, left,
                             sent, gone, received, failed>>

\* socket, bind, listen; tried again in the next round.  Every round ends with
\* task_notify_wait, which StopSignal interrupts.
OpenSocket ==
  /\ acceptor = "loop" /\ ~listening
  /\ listening' = TRUE
  /\ AcceptorKeeps /\ UNCHANGED <<acceptor, taken, stops, queue, clientNumber, workers, deleted, sock>>

ReadCountsClosed ==  \* mutant: one client more than there are workers
  /\ acceptor = "loop" /\ listening /\ tasksMutex = None /\ clientNumber <= workers
  /\ acceptor' = "accept"
  /\ AcceptorKeeps /\ UNCHANGED <<listening, taken, stops, queue, clientNumber, workers, deleted, sock>>
\* A client is accepted only while a worker is free for it.
ReadCounts ==
  /\ acceptor = "loop" /\ listening /\ tasksMutex = None /\ clientNumber < workers
  /\ acceptor' = "accept"
  /\ AcceptorKeeps /\ UNCHANGED <<listening, taken, stops, queue, clientNumber, workers, deleted, sock>>

AcceptNobody ==
  /\ acceptor = "accept" /\ acceptor' = "loop"
  /\ AcceptorKeeps /\ UNCHANGED <<listening, taken, stops, queue, clientNumber, workers, deleted, sock>>

Accept(c) ==
  /\ acceptor = "accept" /\ sock[c] = "pending" /\ tasksMutex = None
  /\ sock' = [sock EXCEPT ![c] = "open"] /\ taken' = c
  /\ clientNumber' = clientNumber + 1 /\ acceptor' = "enqueue"
  /\ AcceptorKeeps /\ UNCHANGED <<listening, stops, queue, workers, deleted>>

\* queue_send without waiting; if the queue is full the client is closed.
Enqueue ==
  /\ acceptor = "enqueue" /\ tasksMutex = None
  /\ IF Len(queue) < MaxConns
       THEN queue' = Append(queue, taken) /\ UNCHANGED <<sock, clientNumber>>
       ELSE /\ UNCHANGED queue
            /\ sock' = [sock EXCEPT ![taken] = "closed"] /\ clientNumber' = clientNumber - 1
  /\ taken' = None /\ acceptor' = "loop"
  /\ AcceptorKeeps /\ UNCHANGED <<listening, stops, workers, deleted>>

\* STOP_CHILD_PROCCES: the socket is closed, what waits in its backlog with it.
StopSignal ==
  /\ acceptor = "loop" /\ acceptor' = "quit" /\ listening' = FALSE
  /\ sock' = [c \in Clients |-> IF sock[c] = "pending" THEN "closed" ELSE sock[c]]
  /\ AcceptorKeeps /\ UNCHANGED <<taken, stops, queue, clientNumber, workers, deleted>>

\* http_sock_deinit: one stop message per connection, given up when the queue stays full.
SendQuit ==
  /\ acceptor = "quit"
  /\ queue' = IF Len(queue) < MaxConns THEN Append(queue, Quit) ELSE queue
  /\ IF stops + 1 < MaxConns THEN stops' = stops + 1 /\ UNCHANGED acceptor
                             ELSE stops' = 0 /\ acceptor' = "wait"
  /\ AcceptorKeeps /\ UNCHANGED <<listening, taken, clientNumber, workers, deleted, sock>>

\* Queue and mutexes are deleted if the workers end in time, else kept for them.
StopWait ==
  /\ acceptor = "wait" /\ tasksMutex = None
  /\ deleted' = (workers = 0)
  /\ IF workers = 0 \/ stops = MaxStopWaits THEN acceptor' = "ended" /\ UNCHANGED stops
                                            ELSE stops' = stops + 1 /\ UNCHANGED acceptor
  /\ AcceptorKeeps /\ UNCHANGED <<listening, taken, queue, clientNumber, workers, sock>>

-----------------------------------------------------------------------------
(* http_sock_client_task and http_sock_handle_client                        *)

WorkerKeeps == UNCHANGED <<acceptor, listening, taken, stops, deleted, sent, gone>>
Goes(w, p) == place' = [place EXCEPT ![w] = p]

\* queue_receive: a stop message ends the task, a client gets a new http_state.
Take(w) ==
  /\ place[w] = "idle" /\ queue # <<>>
  /\ queue' = Tail(queue)
  /\ IF Head(queue) = Quit THEN Goes(w, "leave") /\ UNCHANGED <<fd, waits, got, handle, left>>
       ELSE /\ Goes(w, "select") /\ fd' = [fd EXCEPT ![w] = Head(queue)]
            /\ waits' = [waits EXCEPT ![w] = 0] /\ got' = [got EXCEPT ![w] = 0]
            /\ handle' = [handle EXCEPT ![w] = None] /\ left' = [left EXCEPT ![w] = 0]
  /\ WorkerKeeps /\ UNCHANGED <<shared, clientNumber, workers, tasksMutex, requestMutex, sock, received, failed>>

SelectForever(w) ==  \* mutant: a silent client is not given up
  LET c == fd[w] IN
  /\ place[w] = "select"
  /\ \/ sent[c] > got[w] /\ Goes(w, "lock") /\ UNCHANGED waits
     \/ sent[c] = got[w] /\ gone[c] /\ Goes(w, "close") /\ UNCHANGED waits
  /\ WorkerKeeps
  /\ UNCHANGED <<shared, queue, clientNumber, workers, tasksMutex, requestMutex, fd, got, handle, left, sock,
                 received, failed>>
\* select and recv: data, the end of the connection, or nothing for 100 ms.
Select(w) ==
  LET c == fd[w] IN
  /\ place[w] = "select"
  /\ \/ sent[c] > got[w] /\ Goes(w, "lock") /\ UNCHANGED waits
     \/ sent[c] = got[w] /\ gone[c] /\ Goes(w, "close") /\ UNCHANGED waits
     \/ /\ sent[c] = got[w] /\ ~gone[c]
        /\ waits' = [waits EXCEPT ![w] = @ + 1]
        /\ Goes(w, IF waits[w] + 1 = MaxWaits THEN "close" ELSE "select")
  /\ WorkerKeeps
  /\ UNCHANGED <<shared, queue, clientNumber, workers, tasksMutex, requestMutex, fd, got, handle, left, sock,
                 received, failed>>

\* http_sock_recv up to the first write.  The mutex is held while something is sent.
HandleSegment(w) ==
  LET c == fd[w]  result == Parse(Req[c], got[w] + 1) IN
  /\ place[w] = "lock" /\ requestMutex = None
  /\ Parsed(c, got[w] + 1) /\ got' = [got EXCEPT ![w] = @ + 1] /\ waits' = [waits EXCEPT ![w] = 0]
  /\ IF result \in {"more", "bad"}
       THEN Goes(w, IF result = "more" THEN "select" ELSE "close") /\ UNCHANGED <<requestMutex, handle, left>>
       ELSE /\ Goes(w, "send") /\ requestMutex' = w
            /\ handle' = [handle EXCEPT ![w] = result] /\ left' = [left EXCEPT ![w] = Length(c, result)]
  /\ WorkerKeeps /\ UNCHANGED <<queue, clientNumber, workers, tasksMutex, fd, sock, received, failed>>

SendDone(w) == Goes(w, "close") /\ requestMutex' = None
ReleaseAny == busy' = "free" /\ UNCHANGED <<buffer, permission, commands>>
ReleaseOwn(w) ==
  /\ busy' = IF handle[w] = JsonFile THEN "free" ELSE busy
  /\ UNCHANGED <<buffer, permission, commands>>

SendChunkAgain(w) ==  \* mutant: the position in the file is not moved on
  /\ place[w] = "send" /\ left[w] > 0
  /\ received' = [received EXCEPT ![fd[w]] = Append(@, Chunk(handle[w], Chunks[handle[w]], buffer))]
  /\ left' = [left EXCEPT ![w] = @ - 1]
  /\ IF left[w] = 1 THEN SendDone(w) /\ ReleaseAny ELSE UNCHANGED <<place, requestMutex, shared>>
  /\ WorkerKeeps
  /\ UNCHANGED <<queue, clientNumber, workers, tasksMutex, fd, waits, got, handle, sock, failed>>
\* http_sock_send writes a chunk.  The end of any file frees the buffer.
SendChunk(w) ==
  /\ place[w] = "send" /\ left[w] > 0
  /\ received' = [received EXCEPT ![fd[w]] = Append(@, Chunk(handle[w], left[w], buffer))]
  /\ left' = [left EXCEPT ![w] = @ - 1]
  /\ IF left[w] = 1 THEN SendDone(w) /\ ReleaseAny ELSE UNCHANGED <<place, requestMutex, shared>>
  /\ WorkerKeeps
  /\ UNCHANGED <<queue, clientNumber, workers, tasksMutex, fd, waits, got, handle, sock, failed>>

\* http_sock_write: the client does not take the chunk within the timeout.
SendFails(w) ==
  /\ place[w] = "send" /\ left[w] > 0
  /\ failed' = [failed EXCEPT ![fd[w]] = TRUE] /\ SendDone(w) /\ ReleaseOwn(w)
  /\ WorkerKeeps
  /\ UNCHANGED <<queue, clientNumber, workers, tasksMutex, fd, waits, got, handle, left, sock, received>>

\* http_sock_check_eof: there is nothing to send.
SendNothing(w) ==
  /\ place[w] = "send" /\ left[w] = 0 /\ SendDone(w)
  /\ WorkerKeeps
  /\ UNCHANGED <<shared, queue, clientNumber, workers, tasksMutex, fd, waits, got, handle, left, sock, received, failed>>

\* The socket is closed, then the http_state under the mutex.
CloseClient(w) ==
  /\ place[w] = "close" /\ Goes(w, "tail") /\ sock' = [sock EXCEPT ![fd[w]] = "closed"]
  /\ WorkerKeeps
  /\ UNCHANGED <<shared, queue, clientNumber, workers, tasksMutex, requestMutex, fd, waits, got, handle, left, received, failed>>

FreeState(w) ==
  /\ place[w] = "tail" /\ requestMutex = None
  /\ Goes(w, "count") /\ ReleaseOwn(w) /\ handle' = [handle EXCEPT ![w] = None]
  /\ WorkerKeeps
  /\ UNCHANGED <<queue, clientNumber, workers, tasksMutex, requestMutex, fd, waits, got, left, sock, received, failed>>

CountDown(w) ==
  /\ place[w] = "count" /\ tasksMutex = None
  /\ clientNumber' = clientNumber - 1 /\ Goes(w, "idle") /\ fd' = [fd EXCEPT ![w] = None]
  /\ WorkerKeeps
  /\ UNCHANGED <<shared, queue, workers, tasksMutex, requestMutex, waits, got, handle, left, sock, received, failed>>

\* The last thing a worker touches is http_tasks_mutex.
Leave(w) ==
  /\ \/ place[w] = "leave" /\ tasksMutex = None /\ tasksMutex' = w /\ workers' = workers - 1 /\ Goes(w, "left")
     \/ place[w] = "left" /\ tasksMutex' = None /\ Goes(w, "gone") /\ UNCHANGED workers
  /\ WorkerKeeps
  /\ UNCHANGED <<shared, queue, clientNumber, requestMutex, fd, waits, got, handle, left, sock, received, failed>>

Worker(w) ==
  \/ Take(w) \/ Select(w) \/ HandleSegment(w) \/ SendChunk(w) \/ SendFails(w) \/ SendNothing(w)
  \/ CloseClient(w) \/ FreeState(w) \/ CountDown(w) \/ Leave(w)

Acceptor ==
  \/ OpenSocket \/ ReadCounts \/ AcceptNobody \/ (\E c \in Clients : Accept(c)) \/ Enqueue
  \/ SendQuit \/ StopWait

SockNext ==
  \/ \E c \in Clients : Connect(c) \/ ClientSends(c) \/ ClientLeaves(c)
  \/ Acceptor \/ StopSignal
  \/ \E w \in Workers : Worker(w)

SockSpec == SockInit /\ [][SockNext]_sockVars

\* Every task gets the processor again and again; http_request_mutex is handed over.
SockFairness == WF_sockVars(Acceptor) /\ \A w \in Workers : WF_sockVars(Worker(w))

-----------------------------------------------------------------------------
(* Properties                                                               *)

Serving(w) == fd[w] # None
Queued == {k \in 1 .. Len(queue) : queue[k] # Quit}

\* client_number counts exactly the clients that are queued or with a worker, whatever
\* the order in which workers and http_sock_task change it; so the queue has a place for
\* every client that is accepted, and a worker for every client in it.
ClientsCounted ==
  /\ clientNumber = Cardinality(Queued) + Cardinality({w \in Workers : Serving(w)})
                      + (IF acceptor = "enqueue" THEN 1 ELSE 0)
  /\ acceptor = "enqueue" => Len(queue) < MaxConns
  /\ acceptor \in {"loop", "accept", "enqueue"} => clientNumber <= workers

\* Outside of http_request_mutex the shared buffer is free: no request of the socket
\* build ever waits for it, also after a write that failed half way.
BufferFreeOutside == requestMutex = None => busy = "free"

\* A client that was answered to the end got one file, whole and in order, and a JSON
\* answer that was built for it, although all workers share one buffer.
OwnAnswer ==
  \A c \in Clients :
    received[c] # <<>> =>
      LET file == received[c][1].file IN
      /\ received[c] = SubSeq(Whole(c, file), 1, Len(received[c]))
      /\ sock[c] = "closed" /\ ~failed[c] => received[c] = Whole(c, file)

\* Queue and mutexes are deleted only when no worker can use them any more.
DeletedUnused == deleted => \A w \in Workers : place[w] = "gone"

\* Every client that was accepted is closed in the end, also if it says nothing, does
\* not take its answer, or the server is stopped meanwhile.
EveryClientClosed == \A c \in Clients : sock[c] = "open" ~> sock[c] = "closed"

\* The tasks of this build give the clients the service HttpService specifies: a client
\* that waits for accept is new to it.
Service == INSTANCE HttpService WITH
  phase <- [c \in Clients |-> IF sock[c] = "pending" THEN "new" ELSE sock[c]],
  out <- [c \in Clients |-> Outline(received[c])]
ImplementsService == Service!ServiceSpec

\* The counter of clients is true whatever the order of the tasks, and nothing is deleted
\* that a worker may still use.
SocketsCounted == SockTypeOK /\ ClientsCounted /\ DeletedUnused

\* The workers share one buffer and one set of registers, yet a client gets its own
\* answer, whole and in order, and the buffer is free again for the next request: the
\* tasks implement the service of HttpService.
AnswersOwn == [](BufferFreeOutside /\ OwnAnswer) /\ ImplementsService

-----------------------------------------------------------------------------
(* The inductive invariant of the proofs in HttpSocketsProofs.              *)

Places == {"idle", "select", "lock", "send", "close", "tail", "count", "leave", "left", "gone"}
Listens == acceptor \in {"loop", "accept", "enqueue"}

AcceptorTypes ==
  /\ acceptor \in {"loop", "accept", "enqueue", "quit", "wait", "ended"} /\ deleted \in BOOLEAN
  /\ taken \in Clients \cup {None} /\ stops \in Nat /\ queue \in Seq(Clients \cup {Quit})
  /\ clientNumber \in Int /\ workers \in Int
  /\ requestMutex \in Workers \cup {None} /\ tasksMutex \in Workers \cup {None}
  /\ busy \in {"free", "sending"} /\ buffer \in Clients \cup {None}
WorkerTypes ==
  /\ place \in [Workers -> Places] /\ fd \in [Workers -> Clients \cup {None}]
  /\ waits \in [Workers -> 0 .. MaxWaits] /\ got \in [Workers -> 0 .. (QueueLen + 1)]
  /\ handle \in [Workers -> Handles] /\ left \in [Workers -> Nat]
ClientTypes ==
  /\ sock \in [Clients -> {"new", "pending", "open", "closed"}]
  /\ received \in [Clients -> Seq(ChunkType)]
  /\ failed \in [Clients -> BOOLEAN] /\ gone \in [Clients -> BOOLEAN]
SockTypes == AcceptorTypes /\ WorkerTypes /\ ClientTypes

\* Where a worker is says what it holds, and bounds what it counts.
Holding ==
  \A w \in Workers :
    /\ place[w] = "left" <=> tasksMutex = w
    /\ place[w] = "send" <=> requestMutex = w
    /\ Serving(w) <=> place[w] \in {"select", "lock", "send", "close", "tail", "count"}
    /\ place[w] \in {"select", "lock"} => waits[w] < MaxWaits /\ got[w] <= QueueLen

\* The phases of http_sock_task: no worker is told to stop while it listens.
Phases ==
  /\ Len(queue) <= MaxConns
  /\ Listens => /\ \A k \in 1 .. Len(queue) : queue[k] # Quit
                /\ \A w \in Workers : place[w] \notin {"leave", "left"}
                /\ stops = 0 /\ clientNumber <= workers
  /\ acceptor = "accept" => clientNumber < workers
  /\ acceptor = "quit" => stops < MaxConns
  /\ acceptor \in {"wait", "ended"} => stops <= MaxStopWaits
  /\ acceptor = "enqueue" <=> taken # None
  /\ deleted => acceptor = "ended" /\ \A w \in Workers : place[w] = "gone"

Counted ==
  /\ workers = Cardinality({w \in Workers : place[w] \notin {"left", "gone"}})
  /\ clientNumber = Cardinality(Queued) + Cardinality({w \in Workers : Serving(w)})
                      + (IF acceptor = "enqueue" THEN 1 ELSE 0)
  /\ clientNumber <= Cardinality(Workers)

\* An accepted client is in one place.
OnePlace ==
  /\ \A j, k \in 1 .. Len(queue) : queue[j] = queue[k] /\ queue[k] # Quit => j = k
  /\ \A v, w \in Workers : fd[v] = fd[w] /\ Serving(w) => v = w
  /\ \A k \in 1 .. Len(queue) : queue[k] # Quit =>
       sock[queue[k]] = "open" /\ queue[k] # taken /\ \A w \in Workers : fd[w] # queue[k]
  /\ taken # None => sock[taken] = "open" /\ \A w \in Workers : fd[w] # taken
  /\ \A w \in Workers : Serving(w) => sock[fd[w]] = IF place[w] \in {"tail", "count"} THEN "closed" ELSE "open"

\* Nothing was sent to a client before its worker is at "send", ...
Untold(c) == received[c] = <<>> /\ ~failed[c]
Untouched ==
  /\ \A c \in Clients : sock[c] \in {"new", "pending"} => Untold(c)
  /\ \A k \in 1 .. Len(queue) : queue[k] # Quit => Untold(queue[k])
  /\ taken # None => Untold(taken)
  /\ \A w \in Workers : place[w] \in {"select", "lock"} => Untold(fd[w])

\* ... and there all but the chunks that are left; a chunk of the buffer is its own.
Sending ==
  \A w \in Workers : place[w] = "send" =>
    LET c == fd[w]  all == Length(c, handle[w]) IN
    /\ left[w] \in 0 .. all /\ (left[w] = 0 => all = 0) /\ ~failed[c]
    /\ received[c] = SubSeq(Whole(c, handle[w]), 1, all - left[w])
    /\ handle[w] = JsonFile => left[w] > 0 /\ buffer = c
Held == busy = "sending" => \E w \in Workers : place[w] = "send" /\ handle[w] = JsonFile

\* What was sent is the beginning of one answer, all of it when it is over.
Told(c, f, n) == received[c] = SubSeq(Whole(c, f), 1, n)
Answered ==
  \A c \in Clients : received[c] # <<>> =>
    \E f \in Files \cup {JsonFile} : \E n \in 1 .. Length(c, f) :
      Told(c, f, n) /\ (n = Length(c, f) \/ failed[c] \/ \E w \in Workers : place[w] = "send" /\ fd[w] = c)

IInv == SockTypes /\ Holding /\ Phases /\ Counted /\ OnePlace /\ Untouched /\ Sending /\ Held /\ Answered
=============================================================================
