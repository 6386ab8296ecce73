-------------------------- MODULE HttpSocketsProofs --------------------------
(***************************************************************************)
(* Proofs for HttpSockets, for every number of clients and workers, every  *)
(* file system and every request.                                          *)
(***************************************************************************)
EXTENDS HttpSockets, HttpRequestProofs, FiniteSetTheorems, TLAPS

-----------------------------------------------------------------------------
(* Names.                                                                   *)

\* The names that the model tells apart.
LEMMA Names ==
  /\ None \notin Clients /\ None \notin Workers /\ Quit \notin Clients
  /\ JsonFile # None /\ JsonFile \in Handles /\ None \in Handles
  /\ "more" \notin Handles /\ "bad" \notin Handles
  /\ MaxConns \in Nat \ {0} /\ MaxWaits \in Nat \ {0} /\ MaxStopWaits \in Nat /\ QueueLen \in Nat
  BY Answering, Tasks DEF Handles

-----------------------------------------------------------------------------
(* Counting.                                                                *)

Entries(q) == {k \in 1 .. Len(q) : q[k] # Quit}

\* The clients in a queue.
LEMMA EntriesCount ==
  ASSUME NEW S, NEW q \in Seq(S)
  PROVE  /\ IsFiniteSet(Entries(q)) /\ Cardinality(Entries(q)) \in Nat /\ Cardinality(Entries(q)) <= Len(q)
         /\ (\A k \in 1 .. Len(q) : q[k] # Quit) => Cardinality(Entries(q)) = Len(q)
<1>1. Len(q) \in Nat /\ Entries(q) \in SUBSET (1 .. Len(q))
  BY DEF Entries
<1>2. IsFiniteSet(1 .. Len(q)) /\ Cardinality(1 .. Len(q)) = Len(q)
  <2>1. 1 \in Int /\ Len(q) \in Int /\ (IF 1 > Len(q) THEN 0 ELSE Len(q) - 1 + 1) = Len(q)
    BY <1>1
  <2>2. IsFiniteSet(1 .. Len(q)) /\ Cardinality(1 .. Len(q)) = (IF 1 > Len(q) THEN 0 ELSE Len(q) - 1 + 1)
    BY <2>1, FS_Interval, Zenon
  <2> QED
    BY <2>1, <2>2
<1>3. IsFiniteSet(Entries(q)) /\ Cardinality(Entries(q)) <= Len(q)
  BY <1>1, <1>2, FS_Subset
<1>4. (\A k \in 1 .. Len(q) : q[k] # Quit) => Entries(q) = 1 .. Len(q)
  BY DEF Entries
<1> QED
  BY <1>2, <1>3, <1>4, FS_CardinalityType

\* One more of them, unless it is a stop message, ...
LEMMA AppendCounts ==
  ASSUME NEW S, NEW q \in Seq(S), NEW x \in S
  PROVE  Cardinality(Entries(Append(q, x))) = Cardinality(Entries(q)) + (IF x = Quit THEN 0 ELSE 1)
<1>1. IsFiniteSet(Entries(q)) /\ Cardinality(Entries(q)) \in Nat
  BY EntriesCount
<1>2. CASE x = Quit
  <2>1. Entries(Append(q, x)) = Entries(q)
    BY <1>2 DEF Entries
  <2> QED
    BY <1>1, <1>2, <2>1
<1>3. CASE x # Quit
  <2>1. Entries(Append(q, x)) = Entries(q) \cup {Len(q) + 1}
    BY <1>3 DEF Entries
  <2>2. Len(q) + 1 \notin Entries(q)
    BY DEF Entries
  <2> QED
    BY <1>1, <1>3, <2>1, <2>2, FS_AddElement
<1> QED
  BY <1>2, <1>3

\* ... and one less.
LEMMA TailCounts ==
  ASSUME NEW S, NEW q \in Seq(S), q # <<>>
  PROVE  Cardinality(Entries(q)) = Cardinality(Entries(Tail(q))) + (IF Head(q) = Quit THEN 0 ELSE 1)
<1> DEFINE A == Entries(q) \ {1}
           B == Entries(Tail(q))
           f == [k \in A |-> k - 1]
<1>1. IsFiniteSet(Entries(q)) /\ Cardinality(Entries(q)) \in Nat
  BY EntriesCount
<1>2. IsFiniteSet(A) /\ Cardinality(A) = Cardinality(Entries(q)) - (IF Head(q) = Quit THEN 0 ELSE 1)
  <2>1. 1 \in Entries(q) <=> Head(q) # Quit
    BY DEF Entries
  <2> QED
    BY <1>1, <2>1, FS_RemoveElement
<1>3. f \in Bijection(A, B)
  <2>1. Len(Tail(q)) = Len(q) - 1 /\ \A k \in 1 .. Len(Tail(q)) : Tail(q)[k] = q[k + 1]
    OBVIOUS
  <2>2. Len(q) \in Nat \ {0}
    OBVIOUS
  <2>3. \A k \in A : k - 1 \in B
    BY <2>1, <2>2 DEF Entries
  <2>4. \A k \in B : k + 1 \in A /\ (k + 1) - 1 = k
    BY <2>1, <2>2 DEF Entries
  <2>5. \A k \in A : k \in Nat
    BY DEF Entries
  <2>6. \A j, k \in A : f[j] = f[k] => j = k
    BY <2>5
  <2>7. \A k \in B : \E j \in A : f[j] = k
    BY <2>4
  <2> HIDE DEF A, B
  <2>8. f \in [A -> B]
    BY <2>3
  <2> QED
    BY <2>6, <2>7, <2>8 DEF Bijection, Injection, Surjection, IsInjective
<1>4. Cardinality(B) = Cardinality(A)
  BY <1>2, <1>3, FS_Bijection DEF ExistsBijection
<1> QED
  BY <1>1, <1>2, <1>4

\* One worker joins a set of workers, or leaves it.
LEMMA OneMore ==
  ASSUME NEW S \in SUBSET Workers, NEW w \in Workers
  PROVE  /\ IsFiniteSet(S) /\ Cardinality(S) \in Nat /\ Cardinality(S) <= Cardinality(Workers)
         /\ Cardinality(Workers) \in Nat
         /\ w \notin S => Cardinality(S \cup {w}) = Cardinality(S) + 1
         /\ w \in S => Cardinality(S \ {w}) = Cardinality(S) - 1
         /\ Cardinality(S) = 0 <=> S = {}
<1>1. IsFiniteSet(S) /\ Cardinality(S) <= Cardinality(Workers)
  BY Tasks, FS_Subset
<1>2. w \notin S => Cardinality(S \cup {w}) = Cardinality(S) + 1
  BY <1>1, FS_AddElement
<1>3. w \in S => Cardinality(S \ {w}) = Cardinality(S) - 1
  BY <1>1, FS_RemoveElement
<1> QED
  BY <1>1, <1>2, <1>3, Tasks, FS_CardinalityType, FS_EmptySet

-----------------------------------------------------------------------------
(* Where a client is.                                                       *)

\* A client in the queue.
LEMMA Waiting ==
  ASSUME IInv, NEW k \in 1 .. Len(queue), queue[k] # Quit
  PROVE  /\ queue[k] \in Clients /\ sock[queue[k]] = "open" /\ queue[k] # taken /\ Untold(queue[k])
         /\ \A j \in 1 .. Len(queue) : queue[j] = queue[k] => j = k
         /\ \A w \in Workers : fd[w] # queue[k]
  BY DEF IInv, SockTypes, AcceptorTypes, OnePlace, Untouched

\* A client between accept and the queue.
LEMMA Arrived ==
  ASSUME IInv, acceptor = "enqueue" \/ taken # None
  PROVE  /\ acceptor = "enqueue" /\ taken \in Clients /\ taken # None /\ taken # Quit /\ Untold(taken)
         /\ sock[taken] = "open" /\ Len(queue) \in Nat
         /\ \A k \in 1 .. Len(queue) : queue[k] # taken
         /\ \A w \in Workers : fd[w] # taken
<1>1. acceptor = "enqueue" /\ taken # None /\ taken \in Clients /\ taken # Quit
  BY Names DEF IInv, SockTypes, AcceptorTypes, Phases
<1>2. sock[taken] = "open" /\ (\A w \in Workers : fd[w] # taken) /\ Untold(taken)
  BY <1>1 DEF IInv, OnePlace, Untouched
<1>3. \A k \in 1 .. Len(queue) : queue[k] # taken
  BY <1>1, Waiting
<1> QED
  BY <1>1, <1>2, <1>3 DEF IInv, SockTypes, AcceptorTypes

\* A client with a worker.
LEMMA Served ==
  ASSUME IInv, NEW w \in Workers, Serving(w)
  PROVE  /\ fd[w] \in Clients /\ fd[w] # None /\ fd[w] # Quit /\ taken # fd[w]
         /\ place[w] \in {"select", "lock", "send", "close", "tail", "count"}
         /\ sock[fd[w]] = IF place[w] \in {"tail", "count"} THEN "closed" ELSE "open"
         /\ \A k \in 1 .. Len(queue) : queue[k] # fd[w]
         /\ \A v \in Workers : fd[v] = fd[w] => v = w
<1>1. fd[w] \in Clients /\ fd[w] # None /\ fd[w] # Quit
  BY Names DEF Serving, IInv, SockTypes, WorkerTypes
<1>2. taken # fd[w]
  BY <1>1, Arrived
<1>3. \A k \in 1 .. Len(queue) : queue[k] # fd[w]
  BY <1>1, Waiting
<1>4. /\ sock[fd[w]] = IF place[w] \in {"tail", "count"} THEN "closed" ELSE "open"
      /\ \A v \in Workers : fd[v] = fd[w] => v = w
  BY DEF IInv, OnePlace
<1>5. place[w] \in {"select", "lock", "send", "close", "tail", "count"}
  BY DEF IInv, Holding
<1> QED
  BY <1>1, <1>2, <1>3, <1>4, <1>5

\* A chunk that is sent is the next one of the answer of the client.
LEMMA ChunkSent ==
  ASSUME IInv, NEW w \in Workers, SendChunk(w)
  PROVE  /\ Serving(w) /\ place[w] = "send" /\ fd[w] \in Clients /\ handle[w] \in Files \cup {JsonFile} /\ sock[fd[w]] = "open"
         /\ left[w] \in 1 .. Length(fd[w], handle[w]) /\ Length(fd[w], handle[w]) \in Nat /\ ~failed[fd[w]]
         /\ received[fd[w]] = SubSeq(Whole(fd[w], handle[w]), 1, Length(fd[w], handle[w]) - left[w])
         /\ received' = [received EXCEPT ![fd[w]] =
                           SubSeq(Whole(fd[w], handle[w]), 1, Length(fd[w], handle[w]) - (left[w] - 1))]
         /\ UNCHANGED <<fd, handle, failed, buffer, sock>> /\ left'[w] = left[w] - 1
         /\ handle[w] = JsonFile => buffer = fd[w]
         /\ \A u \in Workers : u # w => fd[u] # fd[w] /\ place[u] # "send" /\ place'[u] = place[u]
         /\ place'[w] = (IF left[w] = 1 THEN "close" ELSE "send")
<1>1. Serving(w) /\ place[w] = "send" /\ left[w] > 0
  BY DEF SendChunk, IInv, Holding
<1>2. /\ fd[w] \in Clients /\ handle[w] \in Handles /\ sock[fd[w]] = "open"
      /\ \A u \in Workers : u # w => fd[u] # fd[w] /\ place[u] # "send"
  BY <1>1, Served DEF IInv, Holding, SockTypes, WorkerTypes
<1> DEFINE c == fd[w]
           all == Length(c, handle[w])
<1>3. all \in Nat /\ left[w] \in 1 .. all /\ ~failed[c] /\ received[c] = SubSeq(Whole(c, handle[w]), 1, all - left[w])
      /\ (handle[w] = JsonFile => buffer = c) /\ handle[w] # None
  BY <1>1, <1>2, Lengths DEF IInv, Sending
<1>4. /\ UNCHANGED <<fd, handle, failed, sock>> /\ buffer' = buffer /\ left'[w] = left[w] - 1
      /\ \A u \in Workers : u # w => place'[u] = place[u]
      /\ place'[w] = (IF left[w] = 1 THEN "close" ELSE "send")
  BY <1>1 DEF SendChunk, SendDone, Goes, ReleaseAny, shared, IInv, SockTypes, WorkerTypes
<1>5. received' = [received EXCEPT ![c] = Append(received[c], Chunk(handle[w], left[w], buffer))]
  BY DEF SendChunk
<1>6. Append(SubSeq(Whole(c, handle[w]), 1, all - left[w]), Chunk(handle[w], left[w], buffer)) =
        SubSeq(Whole(c, handle[w]), 1, all - (left[w] - 1))
  BY <1>2, <1>3, Continues
<1>7. received' = [received EXCEPT ![c] = SubSeq(Whole(c, handle[w]), 1, all - (left[w] - 1))]
  BY <1>3, <1>5, <1>6, Zenon
<1> QED
  BY <1>1, <1>2, <1>3, <1>4, <1>7 DEF Handles

-----------------------------------------------------------------------------
(* The counters.                                                            *)

Present == {w \in Workers : place[w] \notin {"left", "gone"}}
Busy == {w \in Workers : Serving(w)}

\* Counted in the terms of the lemmas on counting.
LEMMA Counting ==
  /\ Counted <=> /\ workers = Cardinality(Present) /\ clientNumber <= Cardinality(Workers)
                 /\ clientNumber = Cardinality(Entries(queue)) + Cardinality(Busy)
                                     + (IF acceptor = "enqueue" THEN 1 ELSE 0)
  /\ Counted' <=> /\ workers' = Cardinality(Present') /\ clientNumber' <= Cardinality(Workers)
                  /\ clientNumber' = Cardinality(Entries(queue')) + Cardinality(Busy')
                                      + (IF acceptor' = "enqueue" THEN 1 ELSE 0)
<1>1. Queued = Entries(queue) /\ Queued' = Entries(queue')
  BY DEF Queued, Entries
<1>2. /\ {w \in Workers : place[w] \notin {"left", "gone"}} = Present
      /\ {w \in Workers : place'[w] \notin {"left", "gone"}} = Present'
      /\ {w \in Workers : Serving(w)} = Busy /\ {w \in Workers : Serving(w)'} = Busy'
  BY DEF Present, Busy
<1> QED
  BY <1>1, <1>2 DEF Counted

\* A worker gets a client, or is done with it.
LEMMA BusyChanges ==
  ASSUME IInv, NEW w \in Workers, NEW x, fd' = [fd EXCEPT ![w] = x]
  PROVE  Busy' = IF x = None THEN Busy \ {w} ELSE Busy \cup {w}
<1>1. fd'[w] = x /\ \A v \in Workers : v # w => fd'[v] = fd[v]
  BY DEF IInv, SockTypes, WorkerTypes
<1> QED
  BY <1>1 DEF Busy, Serving

\* The numbers that are counted.
LEMMA Numbers ==
  ASSUME IInv
  PROVE  /\ Cardinality(Present) \in Nat /\ Cardinality(Busy) \in Nat /\ Cardinality(Entries(queue)) \in Nat
         /\ Cardinality(Workers) \in Nat /\ Cardinality(Present) <= Cardinality(Workers)
         /\ queue \in Seq(Clients \cup {Quit}) /\ clientNumber \in Int /\ workers \in Int
<1>1. Present \in SUBSET Workers /\ Busy \in SUBSET Workers
  BY DEF Present, Busy
<1>2. \A S \in SUBSET Workers : Cardinality(S) \in Nat /\ Cardinality(S) <= Cardinality(Workers)
  BY Tasks, FS_Subset, FS_CardinalityType
<1>3. Cardinality(Workers) \in Nat
  BY Tasks, FS_CardinalityType
<1>4. queue \in Seq(Clients \cup {Quit}) /\ clientNumber \in Int /\ workers \in Int
  BY DEF IInv, SockTypes, AcceptorTypes
<1> QED
  BY <1>1, <1>2, <1>3, <1>4, EntriesCount


\* The queue has a place for a client that was accepted.
LEMMA Room ==
  ASSUME IInv, acceptor = "enqueue"
  PROVE  Len(queue) < MaxConns
<1>1. clientNumber = Cardinality(Entries(queue)) + Cardinality(Busy) + 1 /\ clientNumber <= Cardinality(Workers)
  BY Counting DEF IInv
<1>2. \A k \in 1 .. Len(queue) : queue[k] # Quit
  BY DEF IInv, Phases, Listens
<1>3. Cardinality(Entries(queue)) = Len(queue)
  BY <1>2, Numbers, EntriesCount
<1>4. Len(queue) \in Nat /\ Cardinality(Workers) <= MaxConns /\ MaxConns \in Nat
  BY Numbers, Tasks
<1> QED
  BY <1>1, <1>3, <1>4, Numbers

\* http_sock_task puts the client that it accepted at the end of the queue.
LEMMA Enqueued ==
  ASSUME IInv, Enqueue
  PROVE  /\ acceptor = "enqueue" /\ acceptor' = "loop" /\ taken' = None
         /\ UNCHANGED <<place, fd, stops, workers, clientNumber, deleted, sock, received, failed>>
         /\ taken \in Clients /\ taken # Quit
         /\ queue \in Seq(Clients \cup {Quit}) /\ queue' = Append(queue, taken) /\ Len(queue') <= MaxConns
         /\ \A k \in 1 .. Len(queue') : \/ k = Len(queue) + 1 /\ queue'[k] = taken
                                        \/ k \in 1 .. Len(queue) /\ queue'[k] = queue[k]
<1>1. acceptor = "enqueue" /\ acceptor' = "loop" /\ taken' = None
      /\ UNCHANGED <<place, fd, stops, workers, deleted, received, failed>>
  BY DEF Enqueue, AcceptorKeeps
<1>2. Len(queue) < MaxConns /\ MaxConns \in Nat
  BY <1>1, Room, Names
<1>3. queue' = Append(queue, taken) /\ UNCHANGED <<sock, clientNumber>>
  BY <1>2 DEF Enqueue
<1>4. queue \in Seq(Clients \cup {Quit}) /\ taken \in Clients /\ taken # Quit
  BY <1>1, Numbers, Arrived
<1>5. Len(queue') = Len(queue) + 1 /\ Len(queue) \in Nat
  BY <1>3, <1>4
<1>6. Len(queue') <= MaxConns
  BY <1>2, <1>5
<1>7. \A k \in 1 .. Len(queue') : \/ k = Len(queue) + 1 /\ queue'[k] = taken
                                  \/ k \in 1 .. Len(queue) /\ queue'[k] = queue[k]
  <2> SUFFICES ASSUME NEW k \in 1 .. Len(queue')
               PROVE  \/ k = Len(queue) + 1 /\ queue'[k] = taken
                      \/ k \in 1 .. Len(queue) /\ queue'[k] = queue[k]
    OBVIOUS
  <2>1. k = Len(queue) + 1 \/ k \in 1 .. Len(queue)
    BY <1>5
  <2> QED
    BY <1>3, <1>4, <2>1
<1> QED
  BY <1>1, <1>3, <1>4, <1>6, <1>7

\* The types of what http_sock_task and the workers share.
LEMMA AcceptorTypesKeeps ==
  ASSUME IInv, SockNext
  PROVE  AcceptorTypes'
<1> USE DEF IInv, SockTypes, AcceptorTypes
<1>1. ASSUME NEW c \in Clients, Connect(c) \/ ClientSends(c) \/ ClientLeaves(c) PROVE AcceptorTypes'
  BY <1>1, Names DEF Connect, shared, ClientSends, ClientLeaves
<1>2. CASE OpenSocket
  BY <1>2, Names DEF OpenSocket, AcceptorKeeps, shared
<1>3. CASE ReadCounts
  BY <1>3, Names DEF ReadCounts, AcceptorKeeps, shared
<1>4. CASE AcceptNobody
  BY <1>4, Names DEF AcceptNobody, AcceptorKeeps, shared
<1>5. ASSUME NEW c \in Clients, Accept(c) PROVE AcceptorTypes'
  BY <1>5, Names DEF Accept, AcceptorKeeps, shared
<1>6. CASE Enqueue
  <2>1. taken \in Clients
    BY <1>6, Names DEF Enqueue, Phases
  <2>2. queue' \in Seq(Clients \cup {Quit})
    BY <1>6, <2>1 DEF Enqueue
  <2> QED
    BY <1>6, <2>1, <2>2 DEF Enqueue, AcceptorKeeps, shared
<1>7. CASE StopSignal
  BY <1>7, Names DEF StopSignal, AcceptorKeeps, shared
<1>8. CASE SendQuit
  BY <1>8, Names DEF SendQuit, AcceptorKeeps, shared
<1>9. CASE StopWait
  BY <1>9, Names DEF StopWait, AcceptorKeeps, shared
<1>10. ASSUME NEW w \in Workers, Take(w) PROVE AcceptorTypes'
  BY <1>10, Names DEF Take, WorkerKeeps, Goes, shared
<1>11. ASSUME NEW w \in Workers, Select(w) PROVE AcceptorTypes'
  BY <1>11, Names DEF Select, WorkerKeeps, Goes, shared
<1>12. ASSUME NEW w \in Workers, HandleSegment(w) PROVE AcceptorTypes'
  <2>1. fd[w] \in Clients
    BY <1>12 DEF HandleSegment, Holding, Serving, WorkerTypes
  <2> QED
    BY <1>12, <2>1 DEF HandleSegment, WorkerKeeps, Parsed, ParsedAnd
<1>13. ASSUME NEW w \in Workers, SendChunk(w) PROVE AcceptorTypes'
  BY <1>13, Names DEF SendChunk, WorkerKeeps, Goes, SendDone, ReleaseAny, shared
<1>14. ASSUME NEW w \in Workers, SendFails(w) PROVE AcceptorTypes'
  BY <1>14, Names DEF SendFails, WorkerKeeps, Goes, SendDone, ReleaseOwn, shared
<1>15. ASSUME NEW w \in Workers, SendNothing(w) PROVE AcceptorTypes'
  BY <1>15, Names DEF SendNothing, WorkerKeeps, Goes, SendDone, shared
<1>16. ASSUME NEW w \in Workers, CloseClient(w) PROVE AcceptorTypes'
  BY <1>16, Names DEF CloseClient, WorkerKeeps, Goes, shared
<1>17. ASSUME NEW w \in Workers, FreeState(w) PROVE AcceptorTypes'
  BY <1>17, Names DEF FreeState, WorkerKeeps, Goes, ReleaseOwn, shared
<1>18. ASSUME NEW w \in Workers, CountDown(w) PROVE AcceptorTypes'
  BY <1>18, Names DEF CountDown, WorkerKeeps, Goes, shared
<1>19. ASSUME NEW w \in Workers, Leave(w) PROVE AcceptorTypes'
  BY <1>19, Names DEF Leave, WorkerKeeps, Goes, shared
<1> QED
  BY <1>1, <1>2, <1>3, <1>4, <1>5, <1>6, <1>7, <1>8, <1>9, <1>10, <1>11, <1>12, <1>13, <1>14, <1>15, <1>16, <1>17, <1>18, <1>19 DEF SockNext, Acceptor, Worker

\* The types of what a worker keeps, the counters of its timeout and of its segments too.
LEMMA WorkerTypesKeeps ==
  ASSUME IInv, SockNext
  PROVE  WorkerTypes'
<1> USE DEF IInv, SockTypes, WorkerTypes, Places, Holding, Handles
<1>1. ASSUME NEW c \in Clients, Connect(c) \/ ClientSends(c) \/ ClientLeaves(c) PROVE WorkerTypes'
  BY <1>1, Names DEF Connect, shared, ClientSends, ClientLeaves
<1>2. CASE OpenSocket
  BY <1>2, Names DEF OpenSocket, AcceptorKeeps, shared
<1>3. CASE ReadCounts
  BY <1>3, Names DEF ReadCounts, AcceptorKeeps, shared
<1>4. CASE AcceptNobody
  BY <1>4, Names DEF AcceptNobody, AcceptorKeeps, shared
<1>5. ASSUME NEW c \in Clients, Accept(c) PROVE WorkerTypes'
  BY <1>5, Names DEF Accept, AcceptorKeeps, shared
<1>6. CASE Enqueue
  BY <1>6, Names DEF Enqueue, AcceptorKeeps, shared
<1>7. CASE StopSignal
  BY <1>7, Names DEF StopSignal, AcceptorKeeps, shared
<1>8. CASE SendQuit
  BY <1>8, Names DEF SendQuit, AcceptorKeeps, shared
<1>9. CASE StopWait
  BY <1>9, Names DEF StopWait, AcceptorKeeps, shared
<1>10. ASSUME NEW w \in Workers, Take(w) PROVE WorkerTypes'
  <2>1. Head(queue) \in Clients \cup {Quit}
    BY <1>10 DEF Take, AcceptorTypes
  <2>2. \/ place' = [place EXCEPT ![w] = "leave"] /\ UNCHANGED <<fd, waits, got, handle, left>>
        \/ /\ place' = [place EXCEPT ![w] = "select"] /\ Head(queue) \in Clients
           /\ fd' = [fd EXCEPT ![w] = Head(queue)]
           /\ waits' = [waits EXCEPT ![w] = 0] /\ got' = [got EXCEPT ![w] = 0]
           /\ handle' = [handle EXCEPT ![w] = None] /\ left' = [left EXCEPT ![w] = 0]
    BY <1>10, <2>1 DEF Take, Goes
  <2> QED
    BY <2>2, Names
<1>11. ASSUME NEW w \in Workers, Select(w) PROVE WorkerTypes'
  BY <1>11, Names DEF Select, WorkerKeeps, Goes, shared
<1>12. ASSUME NEW w \in Workers, HandleSegment(w) PROVE WorkerTypes'
  <2>1. fd[w] \in Clients /\ got[w] + 1 \in 0 .. (QueueLen + 1) /\ got[w] + 1 \in Nat
    BY <1>12, Names DEF HandleSegment, Serving
  <2> DEFINE result == Parse(Req[fd[w]], got[w] + 1)
  <2>2. result \in Handles \cup {"more", "bad"}
    BY <2>1, Parses
  <2>3. result \in Handles => Length(fd[w], result) \in Nat
    BY <2>1, Lengths
  <2> HIDE DEF result
  <2>4. /\ \E p \in {"select", "close", "send"} : place' = [place EXCEPT ![w] = p]
        /\ got' = [got EXCEPT ![w] = got[w] + 1] /\ waits' = [waits EXCEPT ![w] = 0] /\ fd' = fd
        /\ \/ handle' = handle /\ left' = left
           \/ /\ result \in Handles
              /\ handle' = [handle EXCEPT ![w] = result] /\ left' = [left EXCEPT ![w] = Length(fd[w], result)]
    BY <1>12, <2>2 DEF HandleSegment, Goes, result
  <2> QED
    BY <2>1, <2>3, <2>4, Names
<1>13. ASSUME NEW w \in Workers, SendChunk(w) PROVE WorkerTypes'
  <2>1. /\ \E p \in {"send", "close"} : place' = [place EXCEPT ![w] = p]
        /\ left[w] > 0 /\ left' = [left EXCEPT ![w] = left[w] - 1]
        /\ UNCHANGED <<fd, waits, got, handle>>
    BY <1>13 DEF SendChunk, SendDone, Goes
  <2> QED
    BY <2>1
<1>14. ASSUME NEW w \in Workers, SendFails(w) PROVE WorkerTypes'
  BY <1>14, Names DEF SendFails, WorkerKeeps, Goes, SendDone, ReleaseOwn, shared
<1>15. ASSUME NEW w \in Workers, SendNothing(w) PROVE WorkerTypes'
  BY <1>15, Names DEF SendNothing, WorkerKeeps, Goes, SendDone, shared
<1>16. ASSUME NEW w \in Workers, CloseClient(w) PROVE WorkerTypes'
  BY <1>16, Names DEF CloseClient, WorkerKeeps, Goes, shared
<1>17. ASSUME NEW w \in Workers, FreeState(w) PROVE WorkerTypes'
  BY <1>17, Names DEF FreeState, WorkerKeeps, Goes, ReleaseOwn, shared
<1>18. ASSUME NEW w \in Workers, CountDown(w) PROVE WorkerTypes'
  BY <1>18, Names DEF CountDown, WorkerKeeps, Goes, shared
<1>19. ASSUME NEW w \in Workers, Leave(w) PROVE WorkerTypes'
  BY <1>19, Names DEF Leave, WorkerKeeps, Goes, shared
<1> QED
  BY <1>1, <1>2, <1>3, <1>4, <1>5, <1>6, <1>7, <1>8, <1>9, <1>10, <1>11, <1>12, <1>13, <1>14, <1>15, <1>16, <1>17, <1>18, <1>19 DEF SockNext, Acceptor, Worker

\* The types of what is known of a client.
LEMMA ClientTypesKeeps ==
  ASSUME IInv, SockNext
  PROVE  ClientTypes'
<1> USE DEF IInv, SockTypes, ClientTypes
<1>1. ASSUME NEW c \in Clients, Connect(c) \/ ClientSends(c) \/ ClientLeaves(c) PROVE ClientTypes'
  BY <1>1, Names DEF Connect, shared, ClientSends, ClientLeaves
<1>2. CASE OpenSocket
  BY <1>2, Names DEF OpenSocket, AcceptorKeeps, shared
<1>3. CASE ReadCounts
  BY <1>3, Names DEF ReadCounts, AcceptorKeeps, shared
<1>4. CASE AcceptNobody
  BY <1>4, Names DEF AcceptNobody, AcceptorKeeps, shared
<1>5. ASSUME NEW c \in Clients, Accept(c) PROVE ClientTypes'
  BY <1>5, Names DEF Accept, AcceptorKeeps, shared
<1>6. CASE Enqueue
  BY <1>6, Names DEF Enqueue, AcceptorKeeps, shared
<1>7. CASE StopSignal
  BY <1>7, Names DEF StopSignal, AcceptorKeeps, shared
<1>8. CASE SendQuit
  BY <1>8, Names DEF SendQuit, AcceptorKeeps, shared
<1>9. CASE StopWait
  BY <1>9, Names DEF StopWait, AcceptorKeeps, shared
<1>10. ASSUME NEW w \in Workers, Take(w) PROVE ClientTypes'
  BY <1>10, Names DEF Take, WorkerKeeps, Goes, shared
<1>11. ASSUME NEW w \in Workers, Select(w) PROVE ClientTypes'
  BY <1>11, Names DEF Select, WorkerKeeps, Goes, shared
<1>12. ASSUME NEW w \in Workers, HandleSegment(w) PROVE ClientTypes'
  BY <1>12, Names DEF HandleSegment, WorkerKeeps, Goes, Parsed, ParsedAnd, shared
<1>13. ASSUME NEW w \in Workers, SendChunk(w) PROVE ClientTypes'
  <2>1. /\ received' = [received EXCEPT ![fd[w]] =
                           SubSeq(Whole(fd[w], handle[w]), 1, Length(fd[w], handle[w]) - (left[w] - 1))]
        /\ fd[w] \in Clients /\ handle[w] \in Files \cup {JsonFile}
        /\ left[w] \in 1 .. Length(fd[w], handle[w]) /\ Length(fd[w], handle[w]) \in Nat
        /\ UNCHANGED <<sock, failed>>
    BY <1>13, ChunkSent
  <2>2. Length(fd[w], handle[w]) - (left[w] - 1) \in 0 .. Length(fd[w], handle[w]) /\ handle[w] \in Handles
    BY <2>1 DEF Handles
  <2>3. SubSeq(Whole(fd[w], handle[w]), 1, Length(fd[w], handle[w]) - (left[w] - 1)) \in Seq(ChunkType)
    BY <2>1, <2>2, Beginnings
  <2>4. gone' = gone
    BY <1>13 DEF SendChunk, WorkerKeeps
  <2> QED
    BY <2>1, <2>3, <2>4 DEF ClientTypes
<1>14. ASSUME NEW w \in Workers, SendFails(w) PROVE ClientTypes'
  BY <1>14, Names DEF SendFails, WorkerKeeps, Goes, SendDone, ReleaseOwn, shared
<1>15. ASSUME NEW w \in Workers, SendNothing(w) PROVE ClientTypes'
  BY <1>15, Names DEF SendNothing, WorkerKeeps, Goes, SendDone, shared
<1>16. ASSUME NEW w \in Workers, CloseClient(w) PROVE ClientTypes'
  BY <1>16, Names DEF CloseClient, WorkerKeeps, Goes, shared
<1>17. ASSUME NEW w \in Workers, FreeState(w) PROVE ClientTypes'
  BY <1>17, Names DEF FreeState, WorkerKeeps, Goes, ReleaseOwn, shared
<1>18. ASSUME NEW w \in Workers, CountDown(w) PROVE ClientTypes'
  BY <1>18, Names DEF CountDown, WorkerKeeps, Goes, shared
<1>19. ASSUME NEW w \in Workers, Leave(w) PROVE ClientTypes'
  BY <1>19, Names DEF Leave, WorkerKeeps, Goes, shared
<1> QED
  BY <1>1, <1>2, <1>3, <1>4, <1>5, <1>6, <1>7, <1>8, <1>9, <1>10, <1>11, <1>12, <1>13, <1>14, <1>15, <1>16, <1>17, <1>18, <1>19 DEF SockNext, Acceptor, Worker

\* The mutexes are where the workers say they are.
LEMMA HoldingKeeps ==
  ASSUME IInv, SockNext
  PROVE  Holding'
<1> USE DEF IInv, SockTypes, AcceptorTypes, WorkerTypes, Holding, Serving
<1>1. ASSUME NEW c \in Clients, Connect(c) \/ ClientSends(c) \/ ClientLeaves(c) PROVE Holding'
  BY <1>1, Names DEF Connect, shared, ClientSends, ClientLeaves
<1>2. CASE OpenSocket
  BY <1>2, Names DEF OpenSocket, AcceptorKeeps, shared
<1>3. CASE ReadCounts
  BY <1>3, Names DEF ReadCounts, AcceptorKeeps, shared
<1>4. CASE AcceptNobody
  BY <1>4, Names DEF AcceptNobody, AcceptorKeeps, shared
<1>5. ASSUME NEW c \in Clients, Accept(c) PROVE Holding'
  BY <1>5, Names DEF Accept, AcceptorKeeps, shared
<1>6. CASE Enqueue
  BY <1>6, Names DEF Enqueue, AcceptorKeeps, shared
<1>7. CASE StopSignal
  BY <1>7, Names DEF StopSignal, AcceptorKeeps, shared
<1>8. CASE SendQuit
  BY <1>8, Names DEF SendQuit, AcceptorKeeps, shared
<1>9. CASE StopWait
  BY <1>9, Names DEF StopWait, AcceptorKeeps, shared
<1>10. ASSUME NEW w \in Workers, Take(w) PROVE Holding'
  <2>1. /\ place[w] = "idle" /\ queue # <<>> /\ UNCHANGED <<tasksMutex, requestMutex>>
        /\ \/ place' = [place EXCEPT ![w] = "leave"] /\ UNCHANGED <<fd, waits, got>>
           \/ /\ Head(queue) # Quit /\ place' = [place EXCEPT ![w] = "select"] /\ fd' = [fd EXCEPT ![w] = Head(queue)]
              /\ waits' = [waits EXCEPT ![w] = 0] /\ got' = [got EXCEPT ![w] = 0]
    BY <1>10 DEF Take, Goes
  <2>2. Head(queue) # Quit => Head(queue) # None
    BY <2>1, Names
  <2>3. \A v \in Workers : v # w => /\ place'[v] = place[v] /\ fd'[v] = fd[v]
                                    /\ waits'[v] = waits[v] /\ got'[v] = got[v]
    BY <2>1
  <2>4. tasksMutex # w /\ requestMutex # w /\ fd[w] = None
    BY <2>1
  <2>5. \/ place'[w] = "leave" /\ fd'[w] = None
        \/ place'[w] = "select" /\ fd'[w] # None /\ waits'[w] = 0 /\ got'[w] = 0
    BY <2>1, <2>2, <2>4
  <2>6. Holding /\ 0 < MaxWaits /\ 0 <= QueueLen
    BY Names
  <2> HIDE DEF IInv, SockTypes, AcceptorTypes, WorkerTypes, Holding
  <2>7. ASSUME NEW v \in Workers, v # w
        PROVE  /\ place'[v] = "left" <=> tasksMutex' = v
               /\ place'[v] = "send" <=> requestMutex' = v
               /\ Serving(v)' <=> place'[v] \in {"select", "lock", "send", "close", "tail", "count"}
               /\ place'[v] \in {"select", "lock"} => waits'[v] < MaxWaits /\ got'[v] <= QueueLen
    BY <2>1, <2>3, <2>6, <2>7 DEF Holding
  <2>8. /\ place'[w] = "left" <=> tasksMutex' = w
        /\ place'[w] = "send" <=> requestMutex' = w
        /\ Serving(w)' <=> place'[w] \in {"select", "lock", "send", "close", "tail", "count"}
        /\ place'[w] \in {"select", "lock"} => waits'[w] < MaxWaits /\ got'[w] <= QueueLen
    BY <2>1, <2>4, <2>5, <2>6
  <2> QED
    BY <2>7, <2>8 DEF Holding
<1>11. ASSUME NEW w \in Workers, Select(w) PROVE Holding'
  BY <1>11, Names DEF Select, WorkerKeeps, Goes, shared
<1>12. ASSUME NEW w \in Workers, HandleSegment(w) PROVE Holding'
  <2>1. fd[w] \in Clients /\ got[w] + 1 \in Nat
    BY <1>12, Names DEF HandleSegment, Holding, Serving, WorkerTypes
  <2> DEFINE result == Parse(Req[fd[w]], got[w] + 1)
  <2>2. result = "more" => got[w] + 1 <= QueueLen
    BY <2>1, Parses
  <2> HIDE DEF result
  <2>3. /\ place[w] = "lock" /\ requestMutex = None /\ UNCHANGED <<tasksMutex, fd>>
        /\ got' = [got EXCEPT ![w] = got[w] + 1] /\ waits' = [waits EXCEPT ![w] = 0]
        /\ \/ result = "more" /\ place' = [place EXCEPT ![w] = "select"] /\ requestMutex' = None
           \/ place' = [place EXCEPT ![w] = "close"] /\ requestMutex' = None
           \/ place' = [place EXCEPT ![w] = "send"] /\ requestMutex' = w
    BY <1>12 DEF HandleSegment, WorkerKeeps, Goes, result
  <2> QED
    BY <2>1, <2>2, <2>3, Names
<1>13. ASSUME NEW w \in Workers, SendChunk(w) PROVE Holding'
  BY <1>13, Names DEF SendChunk, WorkerKeeps, Goes, SendDone, ReleaseAny, shared
<1>14. ASSUME NEW w \in Workers, SendFails(w) PROVE Holding'
  BY <1>14, Names DEF SendFails, WorkerKeeps, Goes, SendDone, ReleaseOwn, shared
<1>15. ASSUME NEW w \in Workers, SendNothing(w) PROVE Holding'
  BY <1>15, Names DEF SendNothing, WorkerKeeps, Goes, SendDone, shared
<1>16. ASSUME NEW w \in Workers, CloseClient(w) PROVE Holding'
  BY <1>16, Names DEF CloseClient, WorkerKeeps, Goes, shared
<1>17. ASSUME NEW w \in Workers, FreeState(w) PROVE Holding'
  BY <1>17, Names DEF FreeState, WorkerKeeps, Goes, ReleaseOwn, shared
<1>18. ASSUME NEW w \in Workers, CountDown(w) PROVE Holding'
  BY <1>18, Names DEF CountDown, WorkerKeeps, Goes, shared
<1>19. ASSUME NEW w \in Workers, Leave(w) PROVE Holding'
  <2>1. UNCHANGED <<requestMutex, fd, waits, got>>
    BY <1>19 DEF Leave
  <2>2. CASE place[w] = "leave" /\ tasksMutex = None /\ tasksMutex' = w /\ place' = [place EXCEPT ![w] = "left"]
    BY <2>1, <2>2, Names
  <2>3. CASE place[w] = "left" /\ tasksMutex' = None /\ place' = [place EXCEPT ![w] = "gone"]
    BY <2>1, <2>3, Names
  <2> QED
    BY <1>19, <2>2, <2>3 DEF Leave, Goes
<1> QED
  BY <1>1, <1>2, <1>3, <1>4, <1>5, <1>6, <1>7, <1>8, <1>9, <1>10, <1>11, <1>12, <1>13, <1>14, <1>15, <1>16, <1>17, <1>18, <1>19 DEF SockNext, Acceptor, Worker

\* http_sock_task tells no worker to stop while it listens, and deletes nothing that is used.
LEMMA PhasesKeeps ==
  ASSUME IInv, SockNext
  PROVE  Phases'
<1> USE DEF IInv, SockTypes, AcceptorTypes, WorkerTypes, Phases, Listens, Holding
<1>1. ASSUME NEW c \in Clients, Connect(c) \/ ClientSends(c) \/ ClientLeaves(c) PROVE Phases'
  BY <1>1, Names DEF Connect, shared, ClientSends, ClientLeaves
<1>2. CASE OpenSocket
  BY <1>2, Names DEF OpenSocket, AcceptorKeeps, shared
<1>3. CASE ReadCounts
  BY <1>3, Names DEF ReadCounts, AcceptorKeeps, shared
<1>4. CASE AcceptNobody
  BY <1>4, Names DEF AcceptNobody, AcceptorKeeps, shared
<1>5. ASSUME NEW c \in Clients, Accept(c) PROVE Phases'
  BY <1>5, Names DEF Accept, AcceptorKeeps, shared
<1>6. CASE Enqueue
  <2>1. /\ acceptor = "enqueue" /\ acceptor' = "loop" /\ taken' = None
        /\ UNCHANGED <<place, stops, workers, clientNumber, deleted>>
    BY <1>6, Enqueued
  <2>2. Len(queue') <= MaxConns /\ \A k \in 1 .. Len(queue') : queue'[k] # Quit
    <3>1. \A k \in 1 .. Len(queue) : queue[k] # Quit
      BY <2>1
    <3> HIDE DEF IInv, SockTypes, AcceptorTypes, WorkerTypes, Phases, Holding
    <3> QED
      BY <1>6, <3>1, Enqueued
  <2> QED
    BY <2>1, <2>2
<1>7. CASE StopSignal
  BY <1>7, Names DEF StopSignal, AcceptorKeeps, shared
<1>8. CASE SendQuit
  BY <1>8, Names DEF SendQuit, AcceptorKeeps, shared
<1>9. CASE StopWait
  <2>1. /\ acceptor = "wait" /\ tasksMutex = None /\ deleted' = (workers = 0)
        /\ UNCHANGED <<place, queue, taken, clientNumber, workers>>
        /\ \/ acceptor' = "ended" /\ stops' = stops
           \/ workers # 0 /\ acceptor' = "wait" /\ stops' = stops + 1 /\ stops # MaxStopWaits
    BY <1>9 DEF StopWait, AcceptorKeeps
  <2>2. workers = 0 => \A w \in Workers : place[w] = "gone"
    <3> DEFINE S == {w \in Workers : place[w] \notin {"left", "gone"}}
    <3>1. ASSUME workers = 0, NEW w \in Workers PROVE w \notin S
      BY <3>1, OneMore DEF Counted
    <3>2. \A w \in Workers : place[w] # "left"
      BY <2>1, Names
    <3> QED
      BY <3>1, <3>2
  <2> QED
    BY <2>1, <2>2, Names
<1>10. ASSUME NEW w \in Workers, Take(w) PROVE Phases'
  BY <1>10, Names DEF Take, WorkerKeeps, Goes, shared
<1>11. ASSUME NEW w \in Workers, Select(w) PROVE Phases'
  BY <1>11, Names DEF Select, WorkerKeeps, Goes, shared
<1>12. ASSUME NEW w \in Workers, HandleSegment(w) PROVE Phases'
  BY <1>12, Names DEF HandleSegment, WorkerKeeps, Goes, Parsed, ParsedAnd, shared
<1>13. ASSUME NEW w \in Workers, SendChunk(w) PROVE Phases'
  BY <1>13, Names DEF SendChunk, WorkerKeeps, Goes, SendDone, ReleaseAny, shared
<1>14. ASSUME NEW w \in Workers, SendFails(w) PROVE Phases'
  BY <1>14, Names DEF SendFails, WorkerKeeps, Goes, SendDone, ReleaseOwn, shared
<1>15. ASSUME NEW w \in Workers, SendNothing(w) PROVE Phases'
  BY <1>15, Names DEF SendNothing, WorkerKeeps, Goes, SendDone, shared
<1>16. ASSUME NEW w \in Workers, CloseClient(w) PROVE Phases'
  BY <1>16, Names DEF CloseClient, WorkerKeeps, Goes, shared
<1>17. ASSUME NEW w \in Workers, FreeState(w) PROVE Phases'
  BY <1>17, Names DEF FreeState, WorkerKeeps, Goes, ReleaseOwn, shared
<1>18. ASSUME NEW w \in Workers, CountDown(w) PROVE Phases'
  BY <1>18, Names DEF CountDown, WorkerKeeps, Goes, shared
<1>19. ASSUME NEW w \in Workers, Leave(w) PROVE Phases'
  BY <1>19, Names DEF Leave, WorkerKeeps, Goes, shared
<1> QED
  BY <1>1, <1>2, <1>3, <1>4, <1>5, <1>6, <1>7, <1>8, <1>9, <1>10, <1>11, <1>12, <1>13, <1>14, <1>15, <1>16, <1>17, <1>18, <1>19 DEF SockNext, Acceptor, Worker

\* client_number and http_workers stay true.
LEMMA CountedKeeps ==
  ASSUME IInv, SockNext
  PROVE  Counted'
<1> USE DEF IInv, SockTypes
<1>1. ASSUME NEW c \in Clients, Connect(c) \/ ClientSends(c) \/ ClientLeaves(c) PROVE Counted'
  <2>1. UNCHANGED <<queue, place, fd, clientNumber, workers>> /\ (acceptor = "enqueue" <=> acceptor' = "enqueue")
    BY <1>1 DEF Connect, ClientSends, ClientLeaves
  <2>2. Present' = Present /\ Busy' = Busy
    BY <2>1 DEF Present, Busy, Serving
  <2> QED
    BY <2>1, <2>2, Counting
<1>2. CASE OpenSocket \/ ReadCounts \/ AcceptNobody \/ StopSignal \/ StopWait
  <2>1. UNCHANGED <<queue, place, fd, clientNumber, workers>> /\ (acceptor = "enqueue" <=> acceptor' = "enqueue")
    BY <1>2 DEF OpenSocket, AcceptorKeeps, ReadCounts, AcceptNobody, StopSignal, StopWait
  <2>2. Present' = Present /\ Busy' = Busy
    BY <2>1 DEF Present, Busy, Serving
  <2> QED
    BY <2>1, <2>2, Counting
<1>3. ASSUME NEW c \in Clients, Accept(c) PROVE Counted'
  <2>1. /\ UNCHANGED <<queue, place, fd, workers>> /\ clientNumber' = clientNumber + 1 /\ clientNumber < workers
        /\ acceptor # "enqueue" /\ acceptor' = "enqueue"
    BY <1>3 DEF Accept, AcceptorKeeps, Phases
  <2>2. Present' = Present /\ Busy' = Busy
    BY <2>1 DEF Present, Busy, Serving
  <2> QED
    BY <2>1, <2>2, Counting, Numbers
<1>4. CASE Enqueue
  <2>1. /\ UNCHANGED <<place, fd, workers, clientNumber>> /\ acceptor = "enqueue" /\ acceptor' # "enqueue"
        /\ queue' = Append(queue, taken) /\ taken \in Clients /\ taken # Quit /\ queue \in Seq(Clients \cup {Quit})
    BY <1>4, Enqueued
  <2>2. Present' = Present /\ Busy' = Busy
    BY <2>1 DEF Present, Busy, Serving
  <2>3. Cardinality(Entries(queue')) = Cardinality(Entries(queue)) + 1
    <3>1. Cardinality(Entries(Append(queue, taken))) = Cardinality(Entries(queue)) + 1
      BY <2>1, AppendCounts
    <3> QED
      BY <2>1, <3>1, Zenon
  <2>4. clientNumber = Cardinality(Entries(queue)) + Cardinality(Busy) + 1 /\ workers = Cardinality(Present)
        /\ clientNumber <= Cardinality(Workers)
    BY <2>1, Counting
  <2> HIDE DEF IInv, SockTypes
  <2> QED
    BY <2>1, <2>2, <2>3, <2>4, Counting, Numbers
<1>5. CASE SendQuit
  <2>1. /\ UNCHANGED <<place, fd, workers, clientNumber>> /\ acceptor = "quit" /\ acceptor' # "enqueue"
        /\ queue' = queue \/ queue' = Append(queue, Quit)
    BY <1>5 DEF SendQuit, AcceptorKeeps
  <2>2. Present' = Present /\ Busy' = Busy
    BY <2>1 DEF Present, Busy, Serving
  <2>3. queue \in Seq(Clients \cup {Quit})
    BY Numbers
  <2>4. Cardinality(Entries(Append(queue, Quit))) = Cardinality(Entries(queue)) + 0
    BY <2>3, AppendCounts
  <2>5. Cardinality(Entries(queue')) = Cardinality(Entries(queue))
    <3>1. CASE queue' = Append(queue, Quit)
      <4>1. Cardinality(Entries(queue)) + 0 = Cardinality(Entries(queue))
        BY Numbers
      <4> QED
        BY <2>4, <3>1, <4>1, Zenon
    <3>2. CASE queue' = queue
      BY <3>2, Zenon
    <3> QED
      BY <2>1, <3>1, <3>2
  <2>6. clientNumber' = clientNumber /\ workers' = workers /\ acceptor # "enqueue" /\ acceptor' # "enqueue"
    BY <2>1
  <2>7. Counted
    OBVIOUS
  <2> HIDE DEF IInv, SockTypes
  <2> QED
    BY <2>2, <2>5, <2>6, <2>7, Counting
<1>6. ASSUME NEW w \in Workers, Take(w) PROVE Counted'
  <2>1. /\ UNCHANGED <<acceptor, workers, clientNumber>> /\ place[w] = "idle" /\ queue # <<>> /\ queue' = Tail(queue)
        /\ \/ Head(queue) = Quit /\ place' = [place EXCEPT ![w] = "leave"] /\ fd' = fd
           \/ Head(queue) # Quit /\ place' = [place EXCEPT ![w] = "select"] /\ fd' = [fd EXCEPT ![w] = Head(queue)]
    BY <1>6 DEF Take, Goes, WorkerKeeps
  <2>2. Present' = Present
    BY <2>1 DEF Present, WorkerTypes
  <2>3. queue \in Seq(Clients \cup {Quit})
    BY Numbers
  <2>4. Cardinality(Entries(queue)) = Cardinality(Entries(Tail(queue))) + (IF Head(queue) = Quit THEN 0 ELSE 1)
    BY <2>1, <2>3, TailCounts
  <2>5. Cardinality(Busy') = Cardinality(Busy) + (IF Head(queue) = Quit THEN 0 ELSE 1)
    <3>1. CASE Head(queue) = Quit
      <4>1. Busy' = Busy
        BY <2>1, <3>1 DEF Busy, Serving
      <4> QED
        BY <3>1, <4>1, Numbers
    <3>2. CASE Head(queue) # Quit
      <4>1. Head(queue) # None
        BY <2>1, <2>3, <3>2, Names
      <4>2. place[w] = "idle" /\ fd' = [fd EXCEPT ![w] = Head(queue)]
        BY <2>1, <3>2
      <4>3. w \notin Busy /\ Busy \in SUBSET Workers
        BY <4>2 DEF Busy, Holding
      <4>4. Busy' = Busy \cup {w}
        BY <4>1, <4>2, BusyChanges
      <4> QED
        BY <3>2, <4>3, <4>4, OneMore
    <3> QED
      BY <3>1, <3>2
  <2>6. Cardinality(Entries(queue')) \in Nat
    <3>1. queue' \in Seq(Clients \cup {Quit})
      BY <2>1, <2>3
    <3> QED
      BY <3>1, EntriesCount
  <2> QED
    BY <2>1, <2>2, <2>4, <2>5, <2>6, Counting, Numbers
<1>7. ASSUME NEW w \in Workers, Select(w) \/ HandleSegment(w) \/ SendChunk(w) \/ SendFails(w) \/ SendNothing(w)
                                \/ CloseClient(w) \/ FreeState(w)
      PROVE Counted'
  <2>1. /\ UNCHANGED <<queue, fd, clientNumber, workers, acceptor>>
        /\ place[w] \notin {"left", "gone"}
        /\ \E p \in {"select", "lock", "send", "close", "tail", "count"} : place' = [place EXCEPT ![w] = p]
    <3>1. CASE Select(w)
      BY <3>1 DEF Select, Goes, WorkerKeeps
    <3>2. CASE HandleSegment(w)
      BY <3>2 DEF HandleSegment, Goes, WorkerKeeps
    <3>3. CASE SendChunk(w)
      <4>1. place = [place EXCEPT ![w] = place[w]]
        BY DEF WorkerTypes
      <4> QED
        BY <3>3, <4>1 DEF SendChunk, SendDone, Goes, WorkerKeeps
    <3>4. CASE SendFails(w) \/ SendNothing(w)
      BY <3>4 DEF SendFails, SendNothing, SendDone, Goes, WorkerKeeps
    <3>5. CASE CloseClient(w) \/ FreeState(w)
      BY <3>5 DEF CloseClient, FreeState, Goes, WorkerKeeps
    <3> QED
      BY <1>7, <3>1, <3>2, <3>3, <3>4, <3>5
  <2>2. Present' = Present /\ Busy' = Busy
    BY <2>1 DEF Present, Busy, Serving, WorkerTypes
  <2> QED
    BY <2>1, <2>2, Counting
<1>8. ASSUME NEW w \in Workers, CountDown(w) PROVE Counted'
  <2>1. /\ UNCHANGED <<queue, workers, acceptor>> /\ place[w] = "count" /\ clientNumber' = clientNumber - 1
        /\ place' = [place EXCEPT ![w] = "idle"] /\ fd' = [fd EXCEPT ![w] = None]
    BY <1>8 DEF CountDown, Goes, WorkerKeeps
  <2>2. Present' = Present
    BY <2>1 DEF Present, WorkerTypes
  <2>3. w \in Busy /\ Busy' = Busy \ {w} /\ Busy \in SUBSET Workers
    <3>1. w \in Busy /\ Busy \in SUBSET Workers
      BY <2>1 DEF Busy, Holding
    <3>2. Busy' = Busy \ {w}
      BY <2>1, BusyChanges
    <3> QED
      BY <3>1, <3>2
  <2>4. Cardinality(Busy') = Cardinality(Busy) - 1
    BY <2>3, OneMore
  <2> QED
    BY <2>1, <2>2, <2>4, Counting, Numbers
<1>9. ASSUME NEW w \in Workers, Leave(w) PROVE Counted'
  <2>1. UNCHANGED <<queue, fd, clientNumber, acceptor>> /\ Busy' = Busy
    BY <1>9 DEF Leave, WorkerKeeps, Busy, Serving
  <2>2. CASE place[w] = "leave" /\ workers' = workers - 1 /\ place' = [place EXCEPT ![w] = "left"]
    <3>1. w \in Present /\ Present' = Present \ {w} /\ Present \in SUBSET Workers
      BY <2>2 DEF Present, WorkerTypes
    <3>2. Cardinality(Present') = Cardinality(Present) - 1
      BY <3>1, OneMore
    <3> QED
      BY <2>1, <2>2, <3>2, Counting, Numbers
  <2>3. CASE place[w] = "left" /\ workers' = workers /\ place' = [place EXCEPT ![w] = "gone"]
    <3>1. Present' = Present
      BY <2>3 DEF Present, WorkerTypes
    <3> QED
      BY <2>1, <2>3, <3>1, Counting
  <2> QED
    BY <1>9, <2>2, <2>3 DEF Leave, Goes
<1> QED
  BY <1>1, <1>2, <1>3, <1>4, <1>5, <1>6, <1>7, <1>8, <1>9 DEF SockNext, Acceptor, Worker

\* A step of a client or of http_sock_task that leaves the accepted sockets alone, ...
LEMMA OnePlaceStays ==
  ASSUME IInv, UNCHANGED <<queue, taken, fd>>,
         \A c \in Clients : sock[c] \in {"open", "closed"} => sock'[c] = sock[c],
         \A w \in Workers : place'[w] \in {"tail", "count"} <=> place[w] \in {"tail", "count"}
  PROVE  OnePlace'
<1>1. \A k \in 1 .. Len(queue) : queue[k] # Quit => sock'[queue[k]] = "open"
  BY Waiting
<1>2. taken # None => sock'[taken] = "open"
  BY Arrived
<1>3. \A w \in Workers : Serving(w) => sock'[fd[w]] = IF place'[w] \in {"tail", "count"} THEN "closed" ELSE "open"
  BY Served
<1>4. OnePlace
  BY DEF IInv
<1> QED
  BY <1>1, <1>2, <1>3, <1>4 DEF OnePlace, Serving

\* ... and a worker that goes on with a client whose socket is open, or ends.
LEMMA OnePlaceMoves ==
  ASSUME IInv, UNCHANGED <<queue, taken, fd, sock>>, NEW w \in Workers, place[w] \notin {"tail", "count"},
         NEW p \in {"select", "lock", "send", "close", "left", "gone"}, place' = [place EXCEPT ![w] = p]
  PROVE  OnePlace'
<1>1. \A v \in Workers : place'[v] \in {"tail", "count"} <=> place[v] \in {"tail", "count"}
  BY DEF IInv, SockTypes, WorkerTypes
<1> QED
  BY <1>1, OnePlaceStays

\* An accepted client stays in one place.
LEMMA OnePlaceKeeps ==
  ASSUME IInv, SockNext
  PROVE  OnePlace'
<1>0. /\ place \in [Workers -> Places] /\ fd \in [Workers -> Clients \cup {None}]
      /\ queue \in Seq(Clients \cup {Quit}) /\ taken \in Clients \cup {None}
      /\ sock \in [Clients -> {"new", "pending", "open", "closed"}]
  BY DEF IInv, SockTypes, AcceptorTypes, WorkerTypes, ClientTypes
<1>1. ASSUME NEW c \in Clients, Connect(c) PROVE OnePlace'
  <2>1. /\ UNCHANGED <<queue, taken, fd, place>>
        /\ \A d \in Clients : sock[d] \in {"open", "closed"} => sock'[d] = sock[d]
    BY <1>0, <1>1 DEF Connect
  <2> QED
    BY <2>1, OnePlaceStays
<1>2. ASSUME NEW c \in Clients, ClientSends(c) PROVE OnePlace'
  BY <1>2, OnePlaceStays DEF ClientSends
<1>3. ASSUME NEW c \in Clients, ClientLeaves(c) PROVE OnePlace'
  BY <1>3, OnePlaceStays DEF ClientLeaves
<1>4. CASE OpenSocket
  BY <1>4, OnePlaceStays DEF OpenSocket, AcceptorKeeps
<1>5. CASE ReadCounts
  BY <1>5, OnePlaceStays DEF ReadCounts, AcceptorKeeps
<1>6. CASE AcceptNobody
  BY <1>6, OnePlaceStays DEF AcceptNobody, AcceptorKeeps
<1>7. ASSUME NEW c \in Clients, Accept(c) PROVE OnePlace'
  <2>1. /\ sock[c] = "pending" /\ taken' = c /\ acceptor = "accept" /\ sock' = [sock EXCEPT ![c] = "open"]
        /\ UNCHANGED <<queue, fd, place>>
    BY <1>7 DEF Accept, AcceptorKeeps
  <2>2. c # Quit /\ c # None
    BY Names
  <2>3. ASSUME NEW k \in 1 .. Len(queue), queue[k] # Quit
        PROVE  queue[k] # c /\ sock'[queue[k]] = "open" /\ \A v \in Workers : fd[v] # queue[k]
    <3>1. queue[k] \in Clients /\ sock[queue[k]] = "open" /\ \A v \in Workers : fd[v] # queue[k]
      BY <2>3, Waiting
    <3> QED
      BY <1>0, <2>1, <3>1
  <2>4. ASSUME NEW v \in Workers, Serving(v)
        PROVE  fd[v] # c /\ sock'[fd[v]] = IF place[v] \in {"tail", "count"} THEN "closed" ELSE "open"
    <3>1. fd[v] \in Clients /\ sock[fd[v]] = IF place[v] \in {"tail", "count"} THEN "closed" ELSE "open"
      BY <2>4, Served
    <3> QED
      BY <1>0, <2>1, <3>1
  <2>5. sock'[c] = "open"
    BY <1>0, <2>1
  <2>6. \A v \in Workers : fd[v] # c
    BY <2>2, <2>4 DEF Serving
  <2>7. OnePlace
    BY DEF IInv
  <2> QED
    BY <2>1, <2>3, <2>4, <2>5, <2>6, <2>7 DEF OnePlace, Serving
<1>8. CASE Enqueue
  <2>1. acceptor = "enqueue" /\ taken' = None /\ fd' = fd /\ place' = place /\ sock' = sock
    BY <1>8, Enqueued
  <2>2. \A k \in 1 .. Len(queue') : \/ k = Len(queue) + 1 /\ queue'[k] = taken
                                    \/ k \in 1 .. Len(queue) /\ queue'[k] = queue[k]
    BY <1>8, Enqueued
  <2>3. /\ taken \in Clients /\ taken # Quit /\ taken # None /\ sock[taken] = "open"
        /\ (\A k \in 1 .. Len(queue) : queue[k] # taken) /\ \A v \in Workers : fd[v] # taken
    BY <2>1, Arrived
  <2>4. ASSUME NEW j \in 1 .. Len(queue'), NEW k \in 1 .. Len(queue'), queue'[j] = queue'[k], queue'[k] # Quit
        PROVE  j = k
    <3>1. CASE j \in 1 .. Len(queue) /\ queue'[j] = queue[j]
      <4>1. queue'[k] # taken
        BY <2>3, <2>4, <3>1
      <4>2. k \in 1 .. Len(queue) /\ queue'[k] = queue[k] /\ queue[j] = queue[k] /\ queue[k] # Quit
        BY <2>2, <2>4, <3>1, <4>1
      <4> QED
        BY <3>1, <4>2, Waiting
    <3>2. CASE j = Len(queue) + 1 /\ queue'[j] = taken
      <4>1. ~(k \in 1 .. Len(queue) /\ queue'[k] = queue[k])
        BY <2>3, <2>4, <3>2
      <4> QED
        BY <2>2, <3>2, <4>1
    <3> QED
      BY <2>2, <3>1, <3>2
  <2>5. ASSUME NEW k \in 1 .. Len(queue'), queue'[k] # Quit
        PROVE  sock'[queue'[k]] = "open" /\ queue'[k] # taken' /\ \A v \in Workers : fd'[v] # queue'[k]
    <3>1. CASE queue'[k] = taken
      BY <2>1, <2>3, <3>1
    <3>2. CASE k \in 1 .. Len(queue) /\ queue'[k] = queue[k]
      <4>1. /\ queue[k] \in Clients /\ sock[queue[k]] = "open"
            /\ \A v \in Workers : fd[v] # queue[k]
        BY <2>5, <3>2, Waiting
      <4> QED
        BY <2>1, <3>2, <4>1, Names
    <3> QED
      BY <2>2, <3>1, <3>2
  <2>6. \A v \in Workers : /\ \A u \in Workers : fd[u] = fd[v] /\ Serving(v) => u = v
                           /\ Serving(v) => sock[fd[v]] = IF place[v] \in {"tail", "count"} THEN "closed" ELSE "open"
    BY Served
  <2>7. \A v \in Workers : Serving(v)' => sock'[fd'[v]] = IF place'[v] \in {"tail", "count"} THEN "closed" ELSE "open"
    BY <2>1, <2>6 DEF Serving
  <2>8. \A u, v \in Workers : fd'[u] = fd'[v] /\ Serving(v)' => u = v
    BY <2>1, <2>6 DEF Serving
  <2> QED
    BY <2>1, <2>4, <2>5, <2>7, <2>8 DEF OnePlace
<1>9. CASE StopSignal
  <2>1. /\ UNCHANGED <<queue, taken, fd, place>>
        /\ \A d \in Clients : sock[d] \in {"open", "closed"} => sock'[d] = sock[d]
    BY <1>9 DEF StopSignal, AcceptorKeeps
  <2> QED
    BY <2>1, OnePlaceStays
<1>10. CASE SendQuit
  <2>1. UNCHANGED <<taken, fd, place, sock>> /\ queue' = IF Len(queue) < MaxConns THEN Append(queue, Quit) ELSE queue
    BY <1>10 DEF SendQuit, AcceptorKeeps
  <2>2. \A k \in 1 .. Len(queue') : queue'[k] # Quit => k \in 1 .. Len(queue) /\ queue'[k] = queue[k]
    BY <1>0, <2>1
  <2>3. OnePlace
    BY DEF IInv
  <2>4. ASSUME NEW k \in 1 .. Len(queue'), queue'[k] # Quit
        PROVE  sock'[queue'[k]] = "open" /\ queue'[k] # taken' /\ \A w \in Workers : fd'[w] # queue'[k]
    <3>1. k \in 1 .. Len(queue) /\ queue'[k] = queue[k] /\ queue[k] # Quit
      BY <2>2, <2>4
    <3>2. sock[queue[k]] = "open" /\ queue[k] # taken /\ \A w \in Workers : fd[w] # queue[k]
      BY <3>1, Waiting
    <3> QED
      BY <2>1, <3>1, <3>2
  <2>5. ASSUME NEW j \in 1 .. Len(queue'), NEW k \in 1 .. Len(queue'), queue'[j] = queue'[k], queue'[k] # Quit
        PROVE  j = k
    <3>1. /\ j \in 1 .. Len(queue) /\ queue'[j] = queue[j] /\ k \in 1 .. Len(queue) /\ queue'[k] = queue[k]
          /\ queue[k] # Quit
      BY <2>2, <2>5
    <3> QED
      BY <2>5, <3>1, Waiting
  <2> QED
    BY <2>1, <2>3, <2>4, <2>5 DEF OnePlace, Serving
<1>11. CASE StopWait
  BY <1>11, OnePlaceStays DEF StopWait, AcceptorKeeps
<1>12. ASSUME NEW w \in Workers, Take(w) PROVE OnePlace'
  <2>1. /\ place[w] = "idle" /\ queue # <<>> /\ queue' = Tail(queue) /\ UNCHANGED <<taken, sock>>
        /\ \/ Head(queue) = Quit /\ place' = [place EXCEPT ![w] = "leave"] /\ fd' = fd
           \/ Head(queue) # Quit /\ place' = [place EXCEPT ![w] = "select"] /\ fd' = [fd EXCEPT ![w] = Head(queue)]
    BY <1>12 DEF Take, Goes, WorkerKeeps
  <2>2. /\ \A k \in 1 .. Len(queue') : queue'[k] = queue[k + 1] /\ k + 1 \in 1 .. Len(queue) /\ k \in Nat
        /\ Head(queue) = queue[1] /\ 1 \in 1 .. Len(queue)
    BY <1>0, <2>1
  <2> DEFINE h == Head(queue)
  <2>3. h # Quit => /\ sock[h] = "open" /\ h # taken /\ h \in Clients /\ \A v \in Workers : fd[v] # h
    BY <2>2, Waiting
  <2>4. \A v \in Workers : v # w => fd'[v] = fd[v] /\ place'[v] = place[v]
    BY <1>0, <2>1
  <2>5. fd'[w] = fd[w] \/ (h # Quit /\ fd'[w] = h /\ place'[w] = "select")
    BY <1>0, <2>1
  <2>6. fd[w] = None
    BY <2>1 DEF IInv, Holding, Serving
  <2>7. OnePlace
    BY DEF IInv
  <2>8. ASSUME NEW k \in 1 .. Len(queue'), queue'[k] # Quit
        PROVE  /\ sock'[queue'[k]] = "open" /\ queue'[k] # taken'
               /\ \A j \in 1 .. Len(queue') : queue'[j] = queue'[k] => j = k
               /\ \A v \in Workers : fd'[v] # queue'[k]
    <3>1. queue[k + 1] # Quit /\ k + 1 \in 1 .. Len(queue) /\ queue'[k] = queue[k + 1] /\ k \in Nat
      BY <2>2, <2>8
    <3>2. /\ sock[queue[k + 1]] = "open" /\ queue[k + 1] # taken
          /\ \A j \in 1 .. Len(queue) : queue[j] = queue[k + 1] => j = k + 1
          /\ \A v \in Workers : fd[v] # queue[k + 1]
      BY <3>1, Waiting
    <3>3. queue[1] # queue[k + 1]
      BY <2>2, <3>1, <3>2
    <3>4. \A v \in Workers : fd'[v] # queue[k + 1]
      BY <2>2, <2>4, <2>5, <3>2, <3>3
    <3>5. \A j \in 1 .. Len(queue') : queue'[j] = queue'[k] => j = k
      BY <2>2, <3>1, <3>2
    <3> QED
      BY <2>1, <3>1, <3>2, <3>4, <3>5
  <2> HIDE DEF h
  <2>9. ASSUME NEW u \in Workers, NEW v \in Workers, fd'[u] = fd'[v], fd'[v] # None PROVE u = v
    <3>1. CASE u # w /\ v # w
      BY <2>4, <2>7, <2>9, <3>1 DEF OnePlace, Serving
    <3>2. CASE u = w /\ v # w
      BY <2>3, <2>4, <2>5, <2>6, <2>9, <3>2
    <3>3. CASE u # w /\ v = w
      BY <2>3, <2>4, <2>5, <2>6, <2>9, <3>3
    <3> QED
      BY <3>1, <3>2, <3>3
  <2>10. ASSUME NEW v \in Workers, fd'[v] # None
         PROVE  sock'[fd'[v]] = IF place'[v] \in {"tail", "count"} THEN "closed" ELSE "open"
    <3>1. CASE v # w
      BY <2>1, <2>4, <2>7, <2>10, <3>1 DEF OnePlace, Serving
    <3>2. CASE v = w
      BY <2>1, <2>3, <2>5, <2>6, <2>10, <3>2
    <3> QED
      BY <3>1, <3>2
  <2>11. taken' # None => sock'[taken'] = "open" /\ \A v \in Workers : fd'[v] # taken'
    <3>1. taken # None => sock[taken] = "open" /\ \A v \in Workers : fd[v] # taken
      BY <2>7 DEF OnePlace
    <3> QED
      BY <2>1, <2>3, <2>4, <2>5, <2>6, <3>1
  <2>12. OnePlace' <=>
           /\ \A j, k \in 1 .. Len(queue') : queue'[j] = queue'[k] /\ queue'[k] # Quit => j = k
           /\ \A u, v \in Workers : fd'[u] = fd'[v] /\ fd'[v] # None => u = v
           /\ \A k \in 1 .. Len(queue') : queue'[k] # Quit =>
                sock'[queue'[k]] = "open" /\ queue'[k] # taken' /\ \A v \in Workers : fd'[v] # queue'[k]
           /\ taken' # None => sock'[taken'] = "open" /\ \A v \in Workers : fd'[v] # taken'
           /\ \A v \in Workers : fd'[v] # None => sock'[fd'[v]] = IF place'[v] \in {"tail", "count"} THEN "closed" ELSE "open"
    BY DEF OnePlace, Serving
  <2> QED
    BY <2>8, <2>9, <2>10, <2>11, <2>12
<1>13. ASSUME NEW w \in Workers, Select(w) PROVE OnePlace'
  <2>1. /\ UNCHANGED <<queue, taken, sock, fd>> /\ place[w] \notin {"tail", "count"}
        /\ \E p \in {"select", "lock", "send", "close"} : place' = [place EXCEPT ![w] = p]
    BY <1>13 DEF Select, Goes, WorkerKeeps
  <2> QED
    BY <2>1, OnePlaceMoves
<1>14. ASSUME NEW w \in Workers, HandleSegment(w) PROVE OnePlace'
  <2>1. /\ UNCHANGED <<queue, taken, sock, fd>> /\ place[w] \notin {"tail", "count"}
        /\ \E p \in {"select", "lock", "send", "close"} : place' = [place EXCEPT ![w] = p]
    BY <1>14 DEF HandleSegment, Goes, WorkerKeeps
  <2> QED
    BY <2>1, OnePlaceMoves
<1>15. ASSUME NEW w \in Workers, SendChunk(w) PROVE OnePlace'
  <2>1. /\ UNCHANGED <<queue, taken, sock, fd>> /\ place[w] \notin {"tail", "count"}
        /\ place' = place \/ place' = [place EXCEPT ![w] = "close"]
    BY <1>15 DEF SendChunk, SendDone, Goes, WorkerKeeps
  <2> QED
    BY <2>1, OnePlaceMoves, OnePlaceStays
<1>16. ASSUME NEW w \in Workers, SendFails(w) \/ SendNothing(w) PROVE OnePlace'
  <2>1. /\ UNCHANGED <<queue, taken, sock, fd>> /\ place[w] \notin {"tail", "count"}
        /\ place' = [place EXCEPT ![w] = "close"]
    BY <1>16 DEF SendFails, SendNothing, SendDone, Goes, WorkerKeeps
  <2> QED
    BY <2>1, OnePlaceMoves
<1>17. ASSUME NEW w \in Workers, CloseClient(w) PROVE OnePlace'
  <2>1. /\ UNCHANGED <<queue, taken, fd>> /\ place[w] = "close" /\ place' = [place EXCEPT ![w] = "tail"]
        /\ sock' = [sock EXCEPT ![fd[w]] = "closed"]
    BY <1>17 DEF CloseClient, Goes, WorkerKeeps
  <2>2. Serving(w)
    BY <2>1 DEF IInv, Holding
  <2>3. /\ fd[w] \in Clients /\ taken # fd[w] /\ \A k \in 1 .. Len(queue) : queue[k] # fd[w]
        /\ \A v \in Workers : v # w => fd[v] # fd[w]
    BY <2>2, Served
  <2>4. /\ \A k \in 1 .. Len(queue) : queue[k] # Quit => sock'[queue[k]] = "open"
    BY <1>0, <2>1, <2>3, Waiting
  <2>5. taken # None => sock'[taken] = "open"
    BY <1>0, <2>1, <2>3, Arrived
  <2>6. ASSUME NEW v \in Workers, Serving(v)
        PROVE  sock'[fd[v]] = IF place'[v] \in {"tail", "count"} THEN "closed" ELSE "open"
    <3>1. CASE v = w
      BY <1>0, <2>1, <2>3, <3>1
    <3>2. CASE v # w
      <4>1. fd[v] \in Clients /\ fd[v] # fd[w] /\ sock[fd[v]] = IF place[v] \in {"tail", "count"} THEN "closed" ELSE "open"
        BY <2>3, <2>6, <3>2, Served
      <4>2. place'[v] = place[v] /\ sock'[fd[v]] = sock[fd[v]]
        BY <1>0, <2>1, <2>3, <3>2, <4>1
      <4> QED
        BY <4>1, <4>2
    <3> QED
      BY <3>1, <3>2
  <2>7. OnePlace
    BY DEF IInv
  <2> QED
    BY <2>1, <2>4, <2>5, <2>6, <2>7 DEF OnePlace, Serving
<1>18. ASSUME NEW w \in Workers, FreeState(w) PROVE OnePlace'
  <2>1. UNCHANGED <<queue, taken, sock, fd>> /\ place[w] = "tail" /\ place' = [place EXCEPT ![w] = "count"]
    BY <1>18 DEF FreeState, Goes, WorkerKeeps
  <2>2. \A v \in Workers : place'[v] \in {"tail", "count"} <=> place[v] \in {"tail", "count"}
    BY <1>0, <2>1
  <2> QED
    BY <2>1, <2>2, OnePlaceStays
<1>20. ASSUME NEW w \in Workers, CountDown(w) PROVE OnePlace'
  <2>1. /\ UNCHANGED <<queue, taken, sock>> /\ place[w] = "count"
        /\ place' = [place EXCEPT ![w] = "idle"] /\ fd' = [fd EXCEPT ![w] = None]
    BY <1>20 DEF CountDown, Goes, WorkerKeeps
  <2>2. \A v \in Workers : v # w => fd'[v] = fd[v] /\ place'[v] = place[v]
    BY <1>0, <2>1
  <2>3. fd'[w] = None
    BY <1>0, <2>1
  <2>4. \A k \in 1 .. Len(queue) : queue[k] # Quit => queue[k] # None
    BY Waiting, Names
  <2>5. OnePlace
    BY DEF IInv
  <2>6. \A v \in Workers : Serving(v)' => v # w /\ Serving(v)
    BY <2>2, <2>3 DEF Serving
  <2>7. /\ \A u, v \in Workers : fd'[u] = fd'[v] /\ Serving(v)' => u = v
        /\ \A v \in Workers : Serving(v)' => sock'[fd'[v]] = IF place'[v] \in {"tail", "count"} THEN "closed" ELSE "open"
    <3>1. ASSUME NEW u \in Workers, NEW v \in Workers, fd'[u] = fd'[v], Serving(v)' PROVE u = v
      <4>1. u # w
        BY <2>3, <3>1 DEF Serving
      <4> QED
        BY <2>2, <2>5, <2>6, <3>1, <4>1 DEF OnePlace
    <3>2. ASSUME NEW v \in Workers, Serving(v)'
          PROVE  sock'[fd'[v]] = IF place'[v] \in {"tail", "count"} THEN "closed" ELSE "open"
      BY <2>1, <2>2, <2>5, <2>6, <3>2 DEF OnePlace
    <3> QED
      BY <3>1, <3>2
  <2>8. /\ \A j, k \in 1 .. Len(queue') : queue'[j] = queue'[k] /\ queue'[k] # Quit => j = k
        /\ \A k \in 1 .. Len(queue') : queue'[k] # Quit =>
             sock'[queue'[k]] = "open" /\ queue'[k] # taken' /\ \A v \in Workers : fd'[v] # queue'[k]
    <3>1. ASSUME NEW k \in 1 .. Len(queue), queue[k] # Quit, NEW v \in Workers PROVE fd'[v] # queue[k]
      BY <2>2, <2>3, <2>4, <3>1, Waiting
    <3> QED
      BY <2>1, <2>5, <3>1 DEF OnePlace
  <2>9. taken' # None => sock'[taken'] = "open" /\ \A v \in Workers : fd'[v] # taken'
    BY <2>1, <2>2, <2>3, <2>5 DEF OnePlace
  <2> QED
    BY <2>7, <2>8, <2>9 DEF OnePlace
<1>21. ASSUME NEW w \in Workers, Leave(w) PROVE OnePlace'
  <2>1. /\ UNCHANGED <<queue, taken, sock, fd>> /\ place[w] \notin {"tail", "count"}
        /\ \E p \in {"left", "gone"} : place' = [place EXCEPT ![w] = p]
    BY <1>21 DEF Leave, Goes, WorkerKeeps
  <2> QED
    BY <2>1, OnePlaceMoves
<1> QED
  BY <1>1, <1>2, <1>3, <1>4, <1>5, <1>6, <1>7, <1>8, <1>9, <1>10, <1>11, <1>12, <1>13, <1>14, <1>15, <1>16, <1>17, <1>18, <1>20, <1>21 DEF SockNext, Acceptor, Worker

\* A step that sends nothing, queues nothing and brings no worker to its client.
LEMMA UntouchedStays ==
  ASSUME IInv, UNCHANGED <<queue, taken, received, failed>>,
         \A c \in Clients : sock'[c] \in {"new", "pending"} => sock[c] \in {"new", "pending"},
         \A w \in Workers : place'[w] \in {"select", "lock"} => place[w] \in {"select", "lock"} /\ fd'[w] = fd[w]
  PROVE  Untouched'
<1>1. Untouched
  BY DEF IInv
<1> QED
  BY <1>1 DEF Untouched, Untold

\* A worker that sends to its client, whose request is parsed.
LEMMA UntouchedSends ==
  ASSUME IInv, NEW w \in Workers, place[w] = "send", UNCHANGED <<queue, taken, sock, fd>>,
         \A d \in Clients : d # fd[w] => received'[d] = received[d] /\ failed'[d] = failed[d],
         \A v \in Workers : place'[v] \in {"select", "lock"} => v # w /\ place[v] \in {"select", "lock"}
  PROVE  Untouched'
<1>1. Serving(w) /\ \A v \in Workers : place[v] \in {"select", "lock"} => Serving(v)
  BY DEF IInv, Holding
<1>2. /\ sock[fd[w]] = "open" /\ taken # fd[w] /\ \A k \in 1 .. Len(queue) : queue[k] # fd[w]
      /\ \A v \in Workers : fd[v] = fd[w] => v = w
  <2>1. place[w] \notin {"tail", "count"}
    OBVIOUS
  <2> QED
    BY <1>1, <2>1, Served
<1>3. Untouched
  BY DEF IInv
<1>4. \A d \in Clients : d # fd[w] /\ Untold(d) => Untold(d)'
  BY DEF Untold
<1>5. \A c \in Clients : sock'[c] \in {"new", "pending"} => Untold(c)'
  BY <1>2, <1>3, <1>4 DEF Untouched
<1>6. ASSUME NEW k \in 1 .. Len(queue), queue[k] # Quit PROVE Untold(queue[k])'
  <2>1. queue[k] \in Clients /\ Untold(queue[k]) /\ queue[k] # fd[w]
    BY <1>2, <1>6, Waiting
  <2> QED
    BY <1>4, <2>1 DEF Untold
<1>7. ASSUME taken # None PROVE Untold(taken)'
  <2>1. taken \in Clients /\ Untold(taken) /\ taken # fd[w]
    BY <1>2, <1>7, Arrived
  <2> QED
    BY <1>4, <2>1 DEF Untold
<1>8. ASSUME NEW v \in Workers, place'[v] \in {"select", "lock"} PROVE Untold(fd[v])'
  <2>1. v # w /\ place[v] \in {"select", "lock"} /\ Untold(fd[v])
    BY <1>3, <1>8 DEF Untouched
  <2>2. fd[v] \in Clients /\ fd[v] # fd[w]
    BY <1>1, <1>2, <2>1, Served
  <2> QED
    BY <1>4, <2>1, <2>2 DEF Untold
<1> QED
  BY <1>5, <1>6, <1>7, <1>8 DEF Untouched, Untold

\* Nothing is sent to a client before its request is parsed.
LEMMA UntouchedKeeps ==
  ASSUME IInv, SockNext
  PROVE  Untouched'
<1>0. /\ place \in [Workers -> Places] /\ fd \in [Workers -> Clients \cup {None}]
      /\ queue \in Seq(Clients \cup {Quit}) /\ taken \in Clients \cup {None}
      /\ sock \in [Clients -> {"new", "pending", "open", "closed"}]
  BY DEF IInv, SockTypes, AcceptorTypes, WorkerTypes, ClientTypes
<1>1. ASSUME NEW c \in Clients, Connect(c) \/ ClientSends(c) \/ ClientLeaves(c) PROVE Untouched'
  <2>1. /\ UNCHANGED <<queue, taken, place, fd, received, failed>>
        /\ \A d \in Clients : sock'[d] \in {"new", "pending"} => sock[d] \in {"new", "pending"}
    BY <1>0, <1>1 DEF Connect, ClientSends, ClientLeaves
  <2> QED
    BY <2>1, UntouchedStays
<1>2. CASE OpenSocket \/ ReadCounts \/ AcceptNobody \/ StopWait
  <2>1. UNCHANGED <<queue, taken, sock, place, fd, received, failed>>
    BY <1>2 DEF OpenSocket, ReadCounts, AcceptNobody, StopWait, AcceptorKeeps
  <2> QED
    BY <2>1, UntouchedStays
<1>5. ASSUME NEW c \in Clients, Accept(c) PROVE Untouched'
  <2>1. /\ UNCHANGED <<queue, place, fd, received, failed>> /\ sock[c] = "pending" /\ taken' = c
        /\ sock' = [sock EXCEPT ![c] = "open"]
    BY <1>5 DEF Accept, AcceptorKeeps
  <2>2. Untouched
    BY DEF IInv
  <2>3. Untold(c)
    BY <2>1, <2>2 DEF Untouched
  <2>4. \A d \in Clients : sock'[d] \in {"new", "pending"} => sock[d] \in {"new", "pending"}
    BY <1>0, <2>1
  <2> QED
    BY <2>1, <2>2, <2>3, <2>4 DEF Untouched, Untold
<1>6. CASE Enqueue
  <2>1. Untouched
    BY DEF IInv
  <2>2. acceptor = "enqueue" /\ taken' = None /\ UNCHANGED <<place, fd, sock, received, failed>>
    BY <1>6, Enqueued
  <2>3. Untold(taken)
    BY <2>2, Arrived
  <2>4. \A k \in 1 .. Len(queue') : queue'[k] = taken \/ (k \in 1 .. Len(queue) /\ queue'[k] = queue[k])
    BY <1>6, Enqueued
  <2>5. \A k \in 1 .. Len(queue') : queue'[k] # Quit => received'[queue'[k]] = <<>> /\ ~failed'[queue'[k]]
    BY <2>2, <2>3, <2>4, Waiting DEF Untold
  <2> QED
    BY <2>1, <2>2, <2>5 DEF Untouched, Untold
<1>7. CASE StopSignal
  <2>1. /\ UNCHANGED <<queue, taken, place, fd, received, failed>>
        /\ \A d \in Clients : sock'[d] \in {"new", "pending"} => sock[d] \in {"new", "pending"}
    BY <1>7 DEF StopSignal, AcceptorKeeps
  <2> QED
    BY <2>1, UntouchedStays
<1>8. CASE SendQuit
  <2>1. /\ UNCHANGED <<taken, fd, place, sock, received, failed>>
        /\ queue' = IF Len(queue) < MaxConns THEN Append(queue, Quit) ELSE queue
    BY <1>8 DEF SendQuit, AcceptorKeeps
  <2>2. \A k \in 1 .. Len(queue') : queue'[k] # Quit => k \in 1 .. Len(queue) /\ queue'[k] = queue[k]
    BY <1>0, <2>1
  <2>3. Untouched
    BY DEF IInv
  <2>4. \A k \in 1 .. Len(queue') : queue'[k] # Quit => received'[queue'[k]] = <<>> /\ ~failed'[queue'[k]]
    BY <2>1, <2>2, Waiting DEF Untold
  <2> QED
    BY <2>1, <2>3, <2>4 DEF Untouched, Untold
<1>10. ASSUME NEW w \in Workers, Take(w) PROVE Untouched'
  <2>1. /\ queue # <<>> /\ queue' = Tail(queue) /\ UNCHANGED <<taken, sock, received, failed>>
        /\ \/ place' = [place EXCEPT ![w] = "leave"] /\ fd' = fd
           \/ Head(queue) # Quit /\ place' = [place EXCEPT ![w] = "select"] /\ fd' = [fd EXCEPT ![w] = Head(queue)]
    BY <1>10 DEF Take, Goes, WorkerKeeps
  <2>2. /\ \A k \in 1 .. Len(queue') : queue'[k] = queue[k + 1] /\ k + 1 \in 1 .. Len(queue)
        /\ Head(queue) = queue[1] /\ 1 \in 1 .. Len(queue)
    BY <1>0, <2>1
  <2>3. Untouched
    BY DEF IInv
  <2>4. \A k \in 1 .. Len(queue) : queue[k] # Quit => Untold(queue[k])
    BY Waiting
  <2>5. \A k \in 1 .. Len(queue') : queue'[k] # Quit => received'[queue'[k]] = <<>> /\ ~failed'[queue'[k]]
    BY <2>1, <2>2, <2>4 DEF Untold
  <2>6. Head(queue) # Quit => received[Head(queue)] = <<>> /\ ~failed[Head(queue)]
    BY <2>1, <2>2, <2>4 DEF Untold
  <2>7. place \in [Workers -> Places] /\ fd \in [Workers -> Clients \cup {None}]
    BY DEF IInv, SockTypes, WorkerTypes
  <2>8. \A v \in Workers : place'[v] \in {"select", "lock"} => received'[fd'[v]] = <<>> /\ ~failed'[fd'[v]]
    BY <2>1, <2>3, <2>6, <2>7 DEF Untouched, Untold
  <2> QED
    BY <2>1, <2>3, <2>5, <2>8 DEF Untouched, Untold
<1>11. ASSUME NEW w \in Workers, Select(w) PROVE Untouched'
  <2>1. /\ UNCHANGED <<queue, taken, sock, fd, received, failed>> /\ place[w] = "select"
        /\ \E p \in Places : place' = [place EXCEPT ![w] = p]
    BY <1>11 DEF Select, Goes, WorkerKeeps, Places
  <2>2. \A v \in Workers : v # w => place'[v] = place[v]
    BY <1>0, <2>1
  <2> QED
    BY <2>1, <2>2, UntouchedStays
<1>12. ASSUME NEW w \in Workers, HandleSegment(w) PROVE Untouched'
  <2>1. /\ UNCHANGED <<queue, taken, sock, fd, received, failed>> /\ place[w] = "lock"
        /\ \E p \in Places : place' = [place EXCEPT ![w] = p]
    BY <1>12 DEF HandleSegment, Goes, WorkerKeeps, Places
  <2>2. \A v \in Workers : v # w => place'[v] = place[v]
    BY <1>0, <2>1
  <2> QED
    BY <2>1, <2>2, UntouchedStays
<1>13. ASSUME NEW w \in Workers, SendChunk(w) \/ SendFails(w) PROVE Untouched'
  <2>1. place[w] = "send" /\ UNCHANGED <<queue, taken, sock, fd>>
    BY <1>13 DEF SendChunk, SendFails, WorkerKeeps
  <2>2. \A d \in Clients : d # fd[w] => received'[d] = received[d] /\ failed'[d] = failed[d]
    <3>1. received \in [Clients -> Seq(ChunkType)] /\ failed \in [Clients -> BOOLEAN]
      BY DEF IInv, SockTypes, ClientTypes
    <3> QED
      BY <1>13, <3>1 DEF SendChunk, SendFails
  <2>3. place' = place \/ place' = [place EXCEPT ![w] = "close"]
    BY <1>13 DEF SendChunk, SendFails, SendDone, Goes
  <2>4. \A v \in Workers : place'[v] \in {"select", "lock"} => v # w /\ place[v] \in {"select", "lock"}
    BY <1>0, <2>1, <2>3
  <2> QED
    BY <2>1, <2>2, <2>4, UntouchedSends
<1>15. ASSUME NEW w \in Workers, SendNothing(w) \/ CloseClient(w) \/ FreeState(w) PROVE Untouched'
  <2>1. /\ UNCHANGED <<queue, taken, fd, received, failed>>
        /\ \E p \in {"close", "tail", "count"} : place' = [place EXCEPT ![w] = p]
    BY <1>15 DEF SendNothing, CloseClient, FreeState, SendDone, Goes, WorkerKeeps
  <2>2. sock' = sock \/ sock' = [sock EXCEPT ![fd[w]] = "closed"]
    BY <1>15 DEF SendNothing, CloseClient, FreeState
  <2>3. \A d \in Clients : sock'[d] \in {"new", "pending"} => sock[d] \in {"new", "pending"}
    BY <1>0, <2>2
  <2>4. \A v \in Workers : place'[v] \in {"select", "lock"} => place[v] \in {"select", "lock"}
    BY <1>0, <2>1
  <2> QED
    BY <2>1, <2>3, <2>4, UntouchedStays
<1>18. ASSUME NEW w \in Workers, CountDown(w) PROVE Untouched'
  <2>1. /\ UNCHANGED <<queue, taken, sock, received, failed>>
        /\ place' = [place EXCEPT ![w] = "idle"] /\ fd' = [fd EXCEPT ![w] = None]
    BY <1>18 DEF CountDown, Goes, WorkerKeeps
  <2>2. \A v \in Workers : place'[v] \in {"select", "lock"} => place[v] \in {"select", "lock"} /\ fd'[v] = fd[v]
    BY <1>0, <2>1
  <2> QED
    BY <2>1, <2>2, UntouchedStays
<1>19. ASSUME NEW w \in Workers, Leave(w) PROVE Untouched'
  <2>1. /\ UNCHANGED <<queue, taken, sock, fd, received, failed>>
        /\ \E p \in {"left", "gone"} : place' = [place EXCEPT ![w] = p]
    BY <1>19 DEF Leave, Goes, WorkerKeeps
  <2>2. \A v \in Workers : place'[v] \in {"select", "lock"} => place[v] \in {"select", "lock"}
    BY <1>0, <2>1
  <2> QED
    BY <2>1, <2>2, UntouchedStays
<1> QED
  BY <1>1, <1>2, <1>5, <1>6, <1>7, <1>8, <1>10, <1>11, <1>12, <1>13, <1>15, <1>18, <1>19 DEF SockNext, Acceptor, Worker

\* The worker that sends knows what is left of the answer.
LEMMA SendingKeeps ==
  ASSUME IInv, SockNext
  PROVE  Sending'
<1> USE DEF IInv, SockTypes
<1>1. ASSUME NEW c \in Clients, Connect(c) \/ ClientSends(c) \/ ClientLeaves(c) PROVE Sending'
  <2>1. /\ \A u \in Workers : place'[u] = "send" =>
              place[u] = "send" /\ fd'[u] = fd[u] /\ handle'[u] = handle[u] /\ left'[u] = left[u]
        /\ UNCHANGED <<received, failed, buffer>>
    BY <1>1, Names DEF Connect, shared, ClientSends, ClientLeaves
  <2> QED
    BY <2>1 DEF Sending
<1>2. CASE OpenSocket \/ ReadCounts \/ AcceptNobody \/ Enqueue \/ StopSignal \/ SendQuit \/ StopWait
  <2>1. /\ \A u \in Workers : place'[u] = "send" =>
              place[u] = "send" /\ fd'[u] = fd[u] /\ handle'[u] = handle[u] /\ left'[u] = left[u]
        /\ UNCHANGED <<received, failed, buffer>>
    BY <1>2, Names DEF OpenSocket, AcceptorKeeps, shared, ReadCounts, AcceptNobody, Enqueue, StopSignal, SendQuit,
         StopWait
  <2> QED
    BY <2>1 DEF Sending
<1>3. ASSUME NEW c \in Clients, Accept(c) PROVE Sending'
  <2>1. /\ \A u \in Workers : place'[u] = "send" =>
              place[u] = "send" /\ fd'[u] = fd[u] /\ handle'[u] = handle[u] /\ left'[u] = left[u]
        /\ UNCHANGED <<received, failed, buffer>>
    BY <1>3, Names DEF Accept, AcceptorKeeps, shared
  <2> QED
    BY <2>1 DEF Sending
<1>4. ASSUME NEW w \in Workers, Take(w) \/ Select(w) \/ SendNothing(w) \/ CloseClient(w) \/ FreeState(w)
                                \/ CountDown(w) \/ Leave(w)
      PROVE Sending'
  <2>1. /\ \A u \in Workers : place'[u] = "send" =>
              place[u] = "send" /\ fd'[u] = fd[u] /\ handle'[u] = handle[u] /\ left'[u] = left[u]
        /\ UNCHANGED <<received, failed, buffer>>
    BY <1>4, Names DEF Take, WorkerKeeps, Goes, shared, WorkerTypes, Select, SendNothing, SendDone, CloseClient,
         FreeState, ReleaseOwn, CountDown, Leave
  <2> QED
    BY <2>1 DEF Sending
<1>5. ASSUME NEW w \in Workers, HandleSegment(w) PROVE Sending'
  <2>1. Serving(w) /\ place[w] = "lock" /\ requestMutex = None
    BY <1>5 DEF HandleSegment, Holding
  <2>2. fd[w] \in Clients /\ \A u \in Workers : u # w => fd[u] # fd[w] /\ place[u] # "send"
    BY <2>1, Served, Names DEF Holding
  <2> DEFINE result == Parse(Req[fd[w]], got[w] + 1)
  <2>3. received[fd[w]] = <<>> /\ ~failed[fd[w]]
    BY <2>1 DEF Untouched, Untold
  <2>4. UNCHANGED <<received, failed, fd>> /\ buffer' = IF result = JsonFile THEN fd[w] ELSE buffer
    BY <1>5 DEF HandleSegment, Parsed, ParsedAnd
  <2>5. \A u \in Workers : u # w => place'[u] = place[u]
    BY <1>5 DEF HandleSegment, Goes, WorkerTypes
  <2>6. place'[w] = "send" => result \in Handles /\ handle'[w] = result /\ left'[w] = Length(fd[w], result)
    <3>1. got[w] + 1 \in Nat
      BY Names DEF WorkerTypes
    <3>2. result \in Handles \cup {"more", "bad"}
      BY <2>2, <3>1, Parses
    <3> QED
      BY <1>5, <3>2 DEF HandleSegment, Goes, WorkerTypes
  <2> HIDE DEF result
  <2>7. result \in Handles => Length(fd[w], result) \in Nat /\ (result = JsonFile => Length(fd[w], result) > 0)
                              /\ SubSeq(Whole(fd[w], result), 1, 0) = <<>>
    BY <2>2, Lengths
  <2>8. ASSUME place'[w] = "send"
        PROVE  LET c == fd'[w]  all == Length(c, handle'[w]) IN
               /\ left'[w] \in 0 .. all /\ (left'[w] = 0 => all = 0) /\ ~failed'[c]
               /\ received'[c] = SubSeq(Whole(c, handle'[w]), 1, all - left'[w])
               /\ handle'[w] = JsonFile => left'[w] > 0 /\ buffer' = c
    <3>1. /\ fd'[w] = fd[w] /\ handle'[w] = result /\ left'[w] = Length(fd[w], result)
          /\ received'[fd[w]] = <<>> /\ ~failed'[fd[w]] /\ result \in Handles
      BY <2>3, <2>4, <2>6, <2>8
    <3>2. Length(fd[w], result) \in Nat /\ Length(fd[w], result) - Length(fd[w], result) = 0
      BY <2>7, <3>1
    <3>3. left'[w] \in 0 .. Length(fd[w], result) /\ received'[fd[w]] = SubSeq(Whole(fd[w], result), 1, 0)
      BY <2>7, <3>1, <3>2
    <3>4. result = JsonFile => left'[w] > 0 /\ buffer' = fd[w]
      BY <2>4, <2>7, <3>1
    <3> HIDE DEF IInv, SockTypes
    <3> QED
      BY <3>1, <3>2, <3>3, <3>4
  <2> QED
    BY <2>2, <2>5, <2>8 DEF Sending
<1>6. ASSUME NEW w \in Workers, SendChunk(w) PROVE Sending'
  <2> DEFINE c == fd[w]
             all == Length(c, handle[w])
  <2>1. /\ UNCHANGED <<fd, handle, failed, buffer>> /\ left'[w] = left[w] - 1 /\ left[w] \in 1 .. all /\ all \in Nat
        /\ ~failed[c] /\ c \in Clients /\ (handle[w] = JsonFile => buffer = c)
        /\ \A u \in Workers : u # w => place[u] # "send" /\ place'[u] = place[u]
        /\ place'[w] = (IF left[w] = 1 THEN "close" ELSE "send")
    BY <1>6, ChunkSent
  <2>2. received'[c] = SubSeq(Whole(c, handle[w]), 1, all - (left[w] - 1))
    BY <1>6, ChunkSent DEF ClientTypes
  <2>3. ASSUME place'[w] = "send"
        PROVE  /\ left'[w] \in 0 .. all /\ (left'[w] = 0 => all = 0) /\ ~failed'[c]
               /\ received'[c] = SubSeq(Whole(c, handle[w]), 1, all - left'[w])
               /\ handle[w] = JsonFile => left'[w] > 0 /\ buffer' = c
    <3>1. left[w] # 1
      BY <2>1, <2>3
    <3> HIDE DEF all
    <3> QED
      BY <2>1, <2>2, <3>1
  <2> QED
    BY <2>1, <2>3 DEF Sending
<1>7. ASSUME NEW w \in Workers, SendFails(w) PROVE Sending'
  <2>1. Serving(w) /\ place[w] = "send"
    BY <1>7 DEF SendFails, Holding
  <2>2. \A u \in Workers : u # w => place[u] # "send"
    BY <2>1 DEF Holding
  <2>3. place'[w] = "close" /\ \A u \in Workers : u # w => place'[u] = place[u]
    BY <1>7 DEF SendFails, SendDone, Goes, WorkerTypes
  <2> QED
    BY <2>2, <2>3 DEF Sending
<1> QED
  BY <1>1, <1>2, <1>3, <1>4, <1>5, <1>6, <1>7 DEF SockNext, Acceptor, Worker

\* The buffer is busy only for the worker that sends it.
LEMMA HeldKeeps ==
  ASSUME IInv, SockNext
  PROVE  Held'
<1> USE DEF IInv, SockTypes, AcceptorTypes, WorkerTypes, Held, Holding, Sending
<1>1. ASSUME NEW c \in Clients, Connect(c) \/ ClientSends(c) \/ ClientLeaves(c) PROVE Held'
  BY <1>1, Names DEF Connect, shared, ClientSends, ClientLeaves
<1>2. CASE OpenSocket
  BY <1>2, Names DEF OpenSocket, AcceptorKeeps, shared
<1>3. CASE ReadCounts
  BY <1>3, Names DEF ReadCounts, AcceptorKeeps, shared
<1>4. CASE AcceptNobody
  BY <1>4, Names DEF AcceptNobody, AcceptorKeeps, shared
<1>5. ASSUME NEW c \in Clients, Accept(c) PROVE Held'
  BY <1>5, Names DEF Accept, AcceptorKeeps, shared
<1>6. CASE Enqueue
  BY <1>6, Names DEF Enqueue, AcceptorKeeps, shared
<1>7. CASE StopSignal
  BY <1>7, Names DEF StopSignal, AcceptorKeeps, shared
<1>8. CASE SendQuit
  BY <1>8, Names DEF SendQuit, AcceptorKeeps, shared
<1>9. CASE StopWait
  BY <1>9, Names DEF StopWait, AcceptorKeeps, shared
<1>10. ASSUME NEW w \in Workers, Take(w) PROVE Held'
  BY <1>10, Names DEF Take, WorkerKeeps, Goes, shared
<1>11. ASSUME NEW w \in Workers, Select(w) PROVE Held'
  BY <1>11, Names DEF Select, WorkerKeeps, Goes, shared
<1>12. ASSUME NEW w \in Workers, HandleSegment(w) PROVE Held'
  BY <1>12, Names DEF HandleSegment, WorkerKeeps, Goes, Parsed, ParsedAnd, shared
<1>13. ASSUME NEW w \in Workers, SendChunk(w) PROVE Held'
  BY <1>13, Names DEF SendChunk, WorkerKeeps, Goes, SendDone, ReleaseAny, shared
<1>14. ASSUME NEW w \in Workers, SendFails(w) PROVE Held'
  BY <1>14, Names DEF SendFails, WorkerKeeps, Goes, SendDone, ReleaseOwn, shared
<1>15. ASSUME NEW w \in Workers, SendNothing(w) PROVE Held'
  BY <1>15, Names DEF SendNothing, WorkerKeeps, Goes, SendDone, shared
<1>16. ASSUME NEW w \in Workers, CloseClient(w) PROVE Held'
  BY <1>16, Names DEF CloseClient, WorkerKeeps, Goes, shared
<1>17. ASSUME NEW w \in Workers, FreeState(w) PROVE Held'
  BY <1>17, Names DEF FreeState, WorkerKeeps, Goes, ReleaseOwn, shared
<1>18. ASSUME NEW w \in Workers, CountDown(w) PROVE Held'
  BY <1>18, Names DEF CountDown, WorkerKeeps, Goes, shared
<1>19. ASSUME NEW w \in Workers, Leave(w) PROVE Held'
  BY <1>19, Names DEF Leave, WorkerKeeps, Goes, shared
<1> QED
  BY <1>1, <1>2, <1>3, <1>4, <1>5, <1>6, <1>7, <1>8, <1>9, <1>10, <1>11, <1>12, <1>13, <1>14, <1>15, <1>16, <1>17, <1>18, <1>19 DEF SockNext, Acceptor, Worker

\* What a client was sent stays the beginning of one answer.
LEMMA AnsweredKeeps ==
  ASSUME IInv, SockNext
  PROVE  Answered'
<1> USE DEF IInv, SockTypes
<1>1. ASSUME NEW c \in Clients, Connect(c) \/ ClientSends(c) \/ ClientLeaves(c) PROVE Answered'
  <2>1. /\ \A u \in Workers : place[u] = "send" => place'[u] = "send" /\ fd'[u] = fd[u]
        /\ UNCHANGED <<received, failed>>
    BY <1>1, Names DEF Connect, shared, ClientSends, ClientLeaves
  <2> QED
    BY <2>1 DEF Answered, Told
<1>2. CASE OpenSocket \/ ReadCounts \/ AcceptNobody \/ Enqueue \/ StopSignal \/ SendQuit \/ StopWait
  <2>1. /\ \A u \in Workers : place[u] = "send" => place'[u] = "send" /\ fd'[u] = fd[u]
        /\ UNCHANGED <<received, failed>>
    BY <1>2, Names DEF OpenSocket, AcceptorKeeps, shared, ReadCounts, AcceptNobody, Enqueue, StopSignal, SendQuit,
         StopWait
  <2> QED
    BY <2>1 DEF Answered, Told
<1>3. ASSUME NEW c \in Clients, Accept(c) PROVE Answered'
  <2>1. /\ \A u \in Workers : place[u] = "send" => place'[u] = "send" /\ fd'[u] = fd[u]
        /\ UNCHANGED <<received, failed>>
    BY <1>3, Names DEF Accept, AcceptorKeeps, shared
  <2> QED
    BY <2>1 DEF Answered, Told
<1>4. ASSUME NEW w \in Workers, Take(w) \/ Select(w) \/ HandleSegment(w) \/ CloseClient(w) \/ FreeState(w)
                                \/ CountDown(w) \/ Leave(w)
      PROVE Answered'
  <2>1. /\ \A u \in Workers : place[u] = "send" => place'[u] = "send" /\ fd'[u] = fd[u]
        /\ UNCHANGED <<received, failed>>
    BY <1>4, Names DEF Take, WorkerKeeps, Goes, shared, WorkerTypes, Select, HandleSegment, CloseClient, FreeState,
         ReleaseOwn, CountDown, Leave
  <2> QED
    BY <2>1 DEF Answered, Told
<1>5. ASSUME NEW w \in Workers, SendChunk(w) PROVE Answered'
  <2>1. /\ fd[w] \in Clients /\ handle[w] \in Files \cup {JsonFile} /\ left[w] \in 1 .. Length(fd[w], handle[w])
        /\ Length(fd[w], handle[w]) \in Nat
        /\ UNCHANGED <<fd, failed>> /\ place'[w] = (IF left[w] = 1 THEN "close" ELSE "send")
        /\ \A u \in Workers : u # w => fd[u] # fd[w] /\ place[u] # "send"
    BY <1>5, ChunkSent
  <2>2. /\ received'[fd[w]] = SubSeq(Whole(fd[w], handle[w]), 1, Length(fd[w], handle[w]) - (left[w] - 1))
        /\ \A d \in Clients : d # fd[w] => received'[d] = received[d]
    BY <1>5, ChunkSent DEF ClientTypes
  <2>3. PICK n \in 1 .. Length(fd[w], handle[w]) :
          /\ received'[fd[w]] = SubSeq(Whole(fd[w], handle[w]), 1, n)
          /\ n = Length(fd[w], handle[w]) \/ \E u \in Workers : place'[u] = "send" /\ fd'[u] = fd[w]
    <3>1. /\ Length(fd[w], handle[w]) - (left[w] - 1) \in 1 .. Length(fd[w], handle[w])
          /\ left[w] = 1 => Length(fd[w], handle[w]) - (left[w] - 1) = Length(fd[w], handle[w])
      BY <2>1
    <3>2. left[w] # 1 => place'[w] = "send" /\ fd'[w] = fd[w]
      BY <2>1
    <3> QED
      BY <2>2, <3>1, <3>2
  <2>4. \A d \in Clients : d # fd[w] /\ received[d] # <<>> =>
          \E f \in Files \cup {JsonFile} : \E m \in 1 .. Length(d, f) :
            received[d] = SubSeq(Whole(d, f), 1, m) /\ (m = Length(d, f) \/ failed[d])
    BY <2>1 DEF Answered, Told
  <2> HIDE DEF IInv, SockTypes
  <2>5. ASSUME NEW d \in Clients, received'[d] # <<>>
        PROVE  \E f \in Files \cup {JsonFile} : \E m \in 1 .. Length(d, f) :
                 /\ received'[d] = SubSeq(Whole(d, f), 1, m)
                 /\ m = Length(d, f) \/ failed'[d] \/ \E u \in Workers : place'[u] = "send" /\ fd'[u] = d
    <3>1. CASE d = fd[w]
      <4>1. /\ n \in 1 .. Length(d, handle[w]) /\ received'[d] = SubSeq(Whole(d, handle[w]), 1, n)
            /\ n = Length(d, handle[w]) \/ \E u \in Workers : place'[u] = "send" /\ fd'[u] = d
        BY <2>3, <3>1
      <4> QED
        BY <2>1, <4>1, Zenon
    <3>2. CASE d # fd[w]
      BY <2>1, <2>2, <2>4, <2>5, <3>2
    <3> QED
      BY <3>1, <3>2
  <2> QED
    BY <2>5 DEF Answered, Told
<1>6. ASSUME NEW w \in Workers, SendFails(w) PROVE Answered'
  <2>1. Serving(w) /\ place[w] = "send"
    BY <1>6 DEF SendFails, Holding
  <2>2. fd[w] \in Clients /\ \A u \in Workers : u # w => place[u] # "send"
    BY <2>1, Served DEF Holding
  <2>3. /\ received' = received /\ failed'[fd[w]] /\ \A c \in Clients : failed[c] => failed'[c]
    BY <1>6, <2>2 DEF SendFails, ClientTypes
  <2>4. \A u \in Workers : place[u] = "send" => failed'[fd[u]]
    BY <2>2, <2>3
  <2> QED
    BY <2>3, <2>4 DEF Answered, Told
<1>7. ASSUME NEW w \in Workers, SendNothing(w) PROVE Answered'
  <2>1. Serving(w) /\ place[w] = "send" /\ left[w] = 0
    BY <1>7 DEF SendNothing, Holding
  <2>2. fd[w] \in Clients /\ handle[w] \in Handles /\ \A u \in Workers : u # w => place[u] # "send"
    BY <2>1, Served DEF Holding, WorkerTypes
  <2>3. received[fd[w]] = <<>>
    <3>1. received[fd[w]] = SubSeq(Whole(fd[w], handle[w]), 1, 0 - 0)
      BY <2>1 DEF Sending
    <3> QED
      BY <2>2, <3>1, Beginnings, Lengths
  <2>4. UNCHANGED <<received, failed>>
    BY <1>7 DEF SendNothing
  <2> QED
    BY <2>2, <2>3, <2>4 DEF Answered, Told
<1> QED
  BY <1>1, <1>2, <1>3, <1>4, <1>5, <1>6, <1>7 DEF SockNext, Acceptor, Worker

-----------------------------------------------------------------------------
(* The inductive invariant.                                                 *)

\* It holds before the first client comes, however many workers could be created.
LEMMA Starts == SockInit => IInv
<1> SUFFICES ASSUME SockInit PROVE IInv
  OBVIOUS
<1> USE DEF SockInit, SharedInit
<1>1. AcceptorTypes
  <2>1. {w \in Workers : place[w] = "idle"} \in SUBSET Workers
    OBVIOUS
  <2>2. workers \in Int
    BY <2>1, Tasks, FS_Subset, FS_CardinalityType
  <2>3. queue \in Seq(Clients \cup {Quit}) /\ clientNumber \in Int /\ stops \in Nat
    OBVIOUS
  <2>4. acceptor \in {"loop", "accept", "enqueue", "quit", "wait", "ended"} /\ deleted \in BOOLEAN
        /\ busy \in {"free", "sending"}
    OBVIOUS
  <2> QED
    BY <2>2, <2>3, <2>4 DEF AcceptorTypes
<1>2. WorkerTypes
  <2>1. place \in [Workers -> Places]
    BY DEF Places
  <2> QED
    BY <2>1, Names DEF WorkerTypes, Handles
<1>3. ClientTypes
  BY DEF ClientTypes
<1>4. Holding
  BY Names DEF Holding, Serving
<1>5. Counted
  <2>1. Present = {w \in Workers : place[w] = "idle"}
    BY DEF Present
  <2>2. Busy = {} /\ Entries(queue) = {}
    BY DEF Busy, Serving, Entries
  <2>3. Cardinality(Busy) = 0 /\ Cardinality(Entries(queue)) = 0
    BY <2>2, FS_EmptySet
  <2>4. Cardinality(Workers) \in Nat
    BY Tasks, FS_CardinalityType
  <2> QED
    BY <2>1, <2>3, <2>4, Counting
<1>6. Phases
  <2>1. {w \in Workers : place[w] = "idle"} \in SUBSET Workers
    OBVIOUS
  <2>2. workers \in Nat
    BY <2>1, Tasks, FS_Subset, FS_CardinalityType
  <2> QED
    BY <2>2, Names DEF Phases, Listens
<1>7. OnePlace
  BY DEF OnePlace, Serving
<1>8. Untouched
  BY DEF Untouched, Untold
<1>9. Sending /\ Held
  BY DEF Sending, Held
<1>10. Answered
  BY DEF Answered
<1> QED
  BY <1>1, <1>2, <1>3, <1>4, <1>5, <1>6, <1>7, <1>8, <1>9, <1>10 DEF IInv, SockTypes

\* Every step keeps it.
LEMMA Keeps == IInv /\ [SockNext]_sockVars => IInv'
<1> SUFFICES ASSUME IInv, [SockNext]_sockVars PROVE IInv'
  OBVIOUS
<1>1. CASE SockNext
  BY <1>1, AcceptorTypesKeeps, WorkerTypesKeeps, ClientTypesKeeps, HoldingKeeps, PhasesKeeps, CountedKeeps,
     OnePlaceKeeps, UntouchedKeeps, SendingKeeps, HeldKeeps, AnsweredKeeps DEF IInv, SockTypes
<1>2. CASE UNCHANGED sockVars
  <2> USE <1>2 DEF sockVars, shared, own
  <2>1. SockTypes'
    BY DEF IInv, SockTypes, AcceptorTypes, WorkerTypes, ClientTypes
  <2>2. Holding' /\ Held'
    BY DEF IInv, Holding, Held, Serving
  <2>3. Phases'
    BY DEF IInv, Phases, Listens
  <2>4. Counted'
    <3>1. Present' = Present /\ Busy' = Busy
      BY DEF Present, Busy, Serving
    <3> QED
      BY <3>1, Counting DEF IInv
  <2>5. OnePlace'
    BY DEF IInv, OnePlace, Serving
  <2>6. Untouched'
    BY DEF IInv, Untouched, Untold
  <2>7. Sending'
    BY DEF IInv, Sending
  <2>8. Answered'
    BY DEF IInv, Answered, Told
  <2> QED
    BY <2>1, <2>2, <2>3, <2>4, <2>5, <2>6, <2>7, <2>8 DEF IInv
<1> QED
  BY <1>1, <1>2

\* The inductive invariant holds in every run of the tasks.
THEOREM SocketsInv == SockSpec => []IInv
  BY Starts, Keeps, PTL DEF SockSpec

\* client_number counts the clients that wait or are served, whatever the order in which
\* the tasks change it; the queue has room for every client that is accepted; and what
\* the workers may use is not deleted.
THEOREM SocketsCountedHolds == SockSpec => []SocketsCounted
<1>1. IInv => SockTypeOK
  <2> SUFFICES ASSUME IInv PROVE SockTypeOK
    OBVIOUS
  <2>1. clientNumber \in 0 .. Cardinality(Workers) /\ workers \in 0 .. Cardinality(Workers)
    BY Counting, Numbers DEF IInv
  <2>2. stops \in 0 .. (IF MaxConns > MaxStopWaits THEN MaxConns ELSE MaxStopWaits)
    BY Names DEF IInv, SockTypes, AcceptorTypes, Phases, Listens
  <2>3. \A w \in Workers : /\ waits[w] \in 0 .. MaxWaits /\ got[w] \in 0 .. (QueueLen + 1)
                           /\ handle[w] \in Handles /\ left[w] >= 0
    BY DEF IInv, SockTypes, WorkerTypes
  <2> QED
    BY <2>1, <2>2, <2>3 DEF SockTypeOK, IInv, SockTypes, AcceptorTypes, Phases
<1>2. IInv => ClientsCounted
  <2> SUFFICES ASSUME IInv PROVE ClientsCounted
    OBVIOUS
  <2>1. acceptor \in {"loop", "accept", "enqueue"} => clientNumber <= workers
    BY DEF IInv, Phases, Listens
  <2>2. acceptor = "enqueue" => Len(queue) < MaxConns
    BY Room
  <2> QED
    BY <2>1, <2>2 DEF ClientsCounted, IInv, Counted
<1>3. IInv => DeletedUnused
  BY DEF DeletedUnused, IInv, Phases
<1> QED
  BY <1>1, <1>2, <1>3, SocketsInv, PTL DEF SocketsCounted

-----------------------------------------------------------------------------
(* The service.                                                             *)

\* A client gets one file, in order, and all of it unless a write to it failed.
LEMMA OneFile == IInv => OwnAnswer
<1> SUFFICES ASSUME IInv, NEW c \in Clients, received[c] # <<>>
             PROVE  LET file == received[c][1].file IN
                    /\ received[c] = SubSeq(Whole(c, file), 1, Len(received[c]))
                    /\ sock[c] = "closed" /\ ~failed[c] => received[c] = Whole(c, file)
  BY DEF OwnAnswer
<1>1. PICK f \in Files \cup {JsonFile} : \E n \in 1 .. Length(c, f) :
        /\ received[c] = SubSeq(Whole(c, f), 1, n)
        /\ n = Length(c, f) \/ failed[c] \/ \E w \in Workers : place[w] = "send" /\ fd[w] = c
  BY DEF IInv, Answered, Told
<1>2. PICK n \in 1 .. Length(c, f) :
        /\ received[c] = SubSeq(Whole(c, f), 1, n)
        /\ n = Length(c, f) \/ failed[c] \/ \E w \in Workers : place[w] = "send" /\ fd[w] = c
  BY <1>1
<1>3. f \in Handles /\ Length(c, f) \in Nat /\ n \in 0 .. Length(c, f)
  BY Lengths DEF Handles
<1>4. Len(received[c]) = n /\ received[c][1].file = f /\ Whole(c, f) = SubSeq(Whole(c, f), 1, Length(c, f))
  BY <1>2, <1>3, Beginnings
<1>5. ASSUME sock[c] = "closed", NEW w \in Workers, place[w] = "send" PROVE fd[w] # c
  <2>1. Serving(w)
    BY <1>5 DEF IInv, Holding
  <2> QED
    BY <1>5, <2>1, Served
<1> QED
  BY <1>2, <1>4, <1>5

\* Outside of http_request_mutex nothing is sent, so the buffer is free.
LEMMA FreeOutside == IInv => BufferFreeOutside
  BY Names DEF IInv, BufferFreeOutside, Held, Holding, SockTypes, AcceptorTypes

\* What HttpService knows of a client.
PhaseSeen == [c \in Clients |-> IF sock[c] = "pending" THEN "new" ELSE sock[c]]
OutSeen == [c \in Clients |-> Outline(received[c])]

\* The steps of HttpService in these terms.
LEMMA Seen ==
  /\ PhaseSeen' = PhaseSeen /\ OutSeen' = OutSeen => UNCHANGED Service!serviceVars
  /\ \A c \in Clients : /\ PhaseSeen[c] = "new" /\ PhaseSeen' = [PhaseSeen EXCEPT ![c] = "open"] /\ OutSeen' = OutSeen
                         => Service!AcceptFor(c, c)
  /\ \A waiting \in SUBSET Clients :
       /\ \A c \in waiting : PhaseSeen[c] = "new"
       /\ PhaseSeen' = [c \in Clients |-> IF c \in waiting THEN "closed" ELSE PhaseSeen[c]]
       /\ OutSeen' = OutSeen
       => Service!Refuse(waiting)
  /\ \A c \in Clients : /\ PhaseSeen[c] = "open" /\ PhaseSeen' = [PhaseSeen EXCEPT ![c] = "closed"] /\ OutSeen' = OutSeen
                         => Service!Close(c)
<1>1. PhaseSeen' = PhaseSeen /\ OutSeen' = OutSeen => UNCHANGED Service!serviceVars
  BY DEF PhaseSeen, OutSeen, Service!serviceVars
<1>2. ASSUME NEW c \in Clients, PhaseSeen[c] = "new", PhaseSeen' = [PhaseSeen EXCEPT ![c] = "open"], OutSeen' = OutSeen
      PROVE  Service!AcceptFor(c, c)
  <2>1. PhaseSeen' = [PhaseSeen EXCEPT ![c] = "closed", ![c] = "open"]
    BY <1>2 DEF PhaseSeen
  <2> QED
    BY <1>2, <2>1 DEF PhaseSeen, OutSeen, Service!AcceptFor
<1>3. ASSUME NEW waiting \in SUBSET Clients, \A c \in waiting : PhaseSeen[c] = "new",
             PhaseSeen' = [c \in Clients |-> IF c \in waiting THEN "closed" ELSE PhaseSeen[c]], OutSeen' = OutSeen
      PROVE  Service!Refuse(waiting)
  BY <1>3 DEF PhaseSeen, OutSeen, Service!Refuse
<1>4. ASSUME NEW c \in Clients, PhaseSeen[c] = "open", PhaseSeen' = [PhaseSeen EXCEPT ![c] = "closed"], OutSeen' = OutSeen
      PROVE  Service!Close(c)
  BY <1>4 DEF PhaseSeen, OutSeen, Service!Close
<1> QED
  BY <1>1, <1>2, <1>3, <1>4

\* A chunk that is sent is a SendMore of the service.
LEMMA Sends ==
  ASSUME IInv, NEW w \in Workers, SendChunk(w)
  PROVE  Service!SendMore(fd[w])
<1> DEFINE c == fd[w]
           f == handle[w]
           O == Outline(Whole(c, f))
           n == Length(c, f) - left[w]
<1>1. /\ c \in Clients /\ f \in Files \cup {JsonFile} /\ sock[c] = "open" /\ sock' = sock
      /\ n \in 0 .. Length(c, f) /\ n + 1 \in 0 .. Length(c, f) /\ n + 1 = Length(c, f) - (left[w] - 1)
      /\ Length(c, f) \in Nat
  <2>1. left[w] \in 1 .. Length(c, f) /\ Length(c, f) \in Nat
    BY ChunkSent
  <2>2. n \in 0 .. Length(c, f) /\ n + 1 \in 0 .. Length(c, f) /\ n + 1 = Length(c, f) - (left[w] - 1)
    BY <2>1
  <2> QED
    BY <2>1, <2>2, ChunkSent
<1>2. received[c] = SubSeq(Whole(c, f), 1, n) /\ received' = [received EXCEPT ![c] = SubSeq(Whole(c, f), 1, n + 1)]
  BY <1>1, ChunkSent
<1>3. received \in [Clients -> Seq(ChunkType)]
  BY DEF IInv, SockTypes, ClientTypes
<1> HIDE DEF c, f, n
<1>4. /\ Outline(SubSeq(Whole(c, f), 1, n)) = SubSeq(O, 1, n) /\ Len(O) = Length(c, f)
      /\ Len(SubSeq(O, 1, n)) = n /\ SubSeq(SubSeq(O, 1, n), 1, n) = SubSeq(O, 1, n)
      /\ Outline(SubSeq(Whole(c, f), 1, n + 1)) = SubSeq(O, 1, n + 1)
  BY <1>1, OutlineBegins
<1> HIDE DEF O
<1>5. OutSeen[c] = SubSeq(O, 1, n)
  BY <1>1, <1>2, <1>4 DEF OutSeen
<1>6. OutSeen' = [OutSeen EXCEPT ![c] = SubSeq(O, 1, n + 1)]
  BY <1>1, <1>2, <1>3, <1>4 DEF OutSeen
<1>7. PhaseSeen[c] = "open" /\ PhaseSeen' = PhaseSeen
  BY <1>1 DEF PhaseSeen
<1>8. O \in Answers[c]
  BY <1>1 DEF Answers, O
<1>9. Service!IsPrefix(OutSeen[c], O)
  BY <1>1, <1>4, <1>5 DEF Service!IsPrefix
<1>10. n + 1 \in Len(OutSeen[c]) + 1 .. Len(O)
  BY <1>1, <1>4, <1>5
<1>11. \E a \in Answers[c] : /\ Service!IsPrefix(OutSeen[c], a)
                             /\ \E m \in Len(OutSeen[c]) + 1 .. Len(a) : OutSeen' = [OutSeen EXCEPT ![c] = SubSeq(a, 1, m)]
  BY <1>6, <1>8, <1>9, <1>10
<1> QED
  BY <1>7, <1>11 DEF OutSeen, PhaseSeen, Service!SendMore, c

\* Every step of the tasks is a step of the service, or none that a client sees.
LEMMA Implements == IInv /\ [SockNext]_sockVars => [Service!ServiceNext]_(Service!serviceVars)
<1> SUFFICES ASSUME IInv, [SockNext]_sockVars PROVE [Service!ServiceNext]_(Service!serviceVars)
  OBVIOUS
<1>1. sock \in [Clients -> {"new", "pending", "open", "closed"}]
  BY DEF IInv, SockTypes, ClientTypes
<1>2. ASSUME received' = received, sock' = sock PROVE UNCHANGED Service!serviceVars
  <2>1. PhaseSeen' = PhaseSeen /\ OutSeen' = OutSeen
    BY <1>2 DEF PhaseSeen, OutSeen
  <2> QED
    BY <2>1, Seen
<1>3. ASSUME NEW c \in Clients, Connect(c) PROVE UNCHANGED Service!serviceVars
  <2>1. PhaseSeen' = PhaseSeen /\ OutSeen' = OutSeen
    BY <1>1, <1>3 DEF Connect, PhaseSeen, OutSeen
  <2> QED
    BY <2>1, Seen
<1>4. ASSUME NEW c \in Clients, Accept(c) PROVE Service!ServiceNext
  <2>1. received' = received /\ sock[c] = "pending" /\ sock' = [sock EXCEPT ![c] = "open"]
    BY <1>4 DEF Accept, AcceptorKeeps
  <2>2. PhaseSeen[c] = "new" /\ PhaseSeen' = [PhaseSeen EXCEPT ![c] = "open"] /\ OutSeen' = OutSeen
    BY <1>1, <2>1 DEF PhaseSeen, OutSeen
  <2>3. Service!AcceptFor(c, c)
    BY <2>2, Seen
  <2> QED
    BY <2>3 DEF Service!ServiceNext
<1>5. CASE Enqueue
  BY <1>2, <1>5, Room DEF Enqueue, AcceptorKeeps
<1>6. CASE StopSignal
  <2>1. PICK waiting \in SUBSET Clients : waiting = {c \in Clients : sock[c] = "pending"}
    OBVIOUS
  <2>2. received' = received /\ sock' = [c \in Clients |-> IF c \in waiting THEN "closed" ELSE sock[c]]
    BY <1>6, <2>1 DEF StopSignal, AcceptorKeeps
  <2>3. /\ \A c \in waiting : PhaseSeen[c] = "new"
        /\ PhaseSeen' = [c \in Clients |-> IF c \in waiting THEN "closed" ELSE PhaseSeen[c]] /\ OutSeen' = OutSeen
    BY <1>1, <2>1, <2>2 DEF PhaseSeen, OutSeen
  <2>4. Service!Refuse(waiting)
    BY <2>3, Seen
  <2> QED
    BY <2>4 DEF Service!ServiceNext
<1>7. ASSUME NEW w \in Workers, SendChunk(w) PROVE Service!ServiceNext
  BY <1>7, Sends, ChunkSent DEF Service!ServiceNext
<1>8. ASSUME NEW w \in Workers, CloseClient(w) PROVE Service!ServiceNext
  <2>1. Serving(w) /\ place[w] = "close"
    BY <1>8 DEF CloseClient, IInv, Holding
  <2>2. fd[w] \in Clients /\ sock[fd[w]] = "open"
    BY <2>1, Served
  <2>3. PICK c \in Clients : c = fd[w] /\ sock[c] = "open"
    BY <2>2
  <2>4. received' = received /\ sock' = [sock EXCEPT ![c] = "closed"]
    BY <1>8, <2>3 DEF CloseClient
  <2>5. PhaseSeen[c] = "open" /\ PhaseSeen' = [PhaseSeen EXCEPT ![c] = "closed"] /\ OutSeen' = OutSeen
    BY <1>1, <2>3, <2>4 DEF PhaseSeen, OutSeen
  <2>6. Service!Close(c)
    BY <2>5, Seen
  <2> QED
    BY <2>6 DEF Service!ServiceNext
<1>9. ASSUME NEW c \in Clients, ClientSends(c) \/ ClientLeaves(c) PROVE UNCHANGED Service!serviceVars
  BY <1>2, <1>9 DEF ClientSends, ClientLeaves
<1>10. ASSUME OpenSocket \/ ReadCounts \/ AcceptNobody \/ SendQuit \/ StopWait PROVE UNCHANGED Service!serviceVars
  BY <1>2, <1>10 DEF OpenSocket, ReadCounts, AcceptNobody, SendQuit, StopWait, AcceptorKeeps
<1>11. ASSUME NEW w \in Workers, Take(w) \/ Select(w) \/ HandleSegment(w) \/ SendFails(w) \/ SendNothing(w)
       PROVE  UNCHANGED Service!serviceVars
  BY <1>2, <1>11 DEF Take, Select, HandleSegment, SendFails, SendNothing
<1>12. ASSUME NEW w \in Workers, FreeState(w) \/ CountDown(w) \/ Leave(w) PROVE UNCHANGED Service!serviceVars
  BY <1>2, <1>12 DEF FreeState, CountDown, Leave
<1>13. CASE UNCHANGED sockVars
  BY <1>2, <1>13 DEF sockVars, own
<1> QED
  BY <1>3, <1>4, <1>5, <1>6, <1>7, <1>8, <1>9, <1>10, <1>11, <1>12, <1>13 DEF SockNext, Acceptor, Worker

\* Although all workers share one buffer and one set of registers, a client is given one
\* answer, its own and in order, and the buffer is free again for the next request: the
\* tasks are an implementation of HttpService.
THEOREM AnswersOwnHolds == SockSpec => AnswersOwn
<1>1. SockInit => Service!ServiceInit
  <2> SUFFICES ASSUME SockInit PROVE Service!ServiceInit
    OBVIOUS
  <2>1. /\ [c \in Clients |-> IF sock[c] = "pending" THEN "new" ELSE sock[c]] = [c \in Clients |-> "new"]
        /\ [c \in Clients |-> Outline(received[c])] = [c \in Clients |-> <<>>]
    BY DEF SockInit, Outline
  <2> QED
    BY <2>1 DEF Service!ServiceInit
<1>2. SockSpec => ImplementsService
  BY <1>1, SocketsInv, Implements, PTL DEF SockSpec, ImplementsService, Service!ServiceSpec
<1>3. SockSpec => [](BufferFreeOutside /\ OwnAnswer)
  BY SocketsInv, OneFile, FreeOutside, PTL
<1> QED
  BY <1>2, <1>3 DEF AnswersOwn
=============================================================================
