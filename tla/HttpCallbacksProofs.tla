------------------------ MODULE HttpCallbacksProofs -------------------------
(***************************************************************************)
(* Proofs for HttpCallbacks, for every pool, every number of connections,  *)
(* every file system and every request.                                    *)
(***************************************************************************)
EXTENDS HttpCallbacks, HttpRequestProofs, TLAPS

-----------------------------------------------------------------------------
(* Names and lists.                                                         *)

LEMMA Names ==
  /\ None \notin Clients /\ None \notin Files \cup {JsonFile} /\ None \in Handles /\ JsonFile \in Handles
  /\ "more" \notin Handles /\ "bad" \notin Handles
  /\ Handles = Files \cup {JsonFile, None}
  /\ QueueLen \in Nat /\ MaxRetries \in Nat /\ MaxRetries > 0 /\ PoolSizes \subseteq Nat
  BY Answering, Pools DEF Handles

Members(l) == {l[k] : k \in 1 .. Len(l)}
Distinct(l) == \A j, k \in 1 .. Len(l) : l[j] = l[k] => j = k

\* http_remove_connection unlinks the http_state it is given and no other one.
LEMMA WithoutContent ==
  ASSUME NEW l \in Seq(Clients), NEW c \in Members(l), Distinct(l)
  PROVE  /\ Without(l, c) \in Seq(Clients) /\ Len(Without(l, c)) = Len(l) - 1 /\ Len(l) \in Nat \ {0}
         /\ Distinct(Without(l, c)) /\ Members(Without(l, c)) = Members(l) \ {c}
<1> DEFINE at == CHOOSE k \in 1 .. Len(l) : l[k] = c
           r == [k \in 1 .. (Len(l) - 1) |-> IF k < at THEN l[k] ELSE l[k + 1]]
<1>1. \E k \in 1 .. Len(l) : l[k] = c
  BY DEF Members
<1>2. at \in 1 .. Len(l) /\ l[at] = c
  BY <1>1
<1>3. Without(l, c) = r
  BY <1>1 DEF Without
<1> HIDE DEF at
<1>4. Len(l) - 1 \in Nat /\ Len(l) \in Nat \ {0} /\ \A k \in 1 .. (Len(l) - 1) : r[k] \in Clients
  BY <1>2
<1>5. r \in Seq(Clients) /\ Len(r) = Len(l) - 1
  BY <1>4
<1>6. Distinct(r)
  BY <1>2, <1>5 DEF Distinct
<1>7. ASSUME NEW k \in 1 .. Len(r) PROVE r[k] \in Members(l) \ {c}
  <2>1. PICK j \in 1 .. Len(l) : r[k] = l[j] /\ j # at
    BY <1>2, <1>5
  <2> QED
    BY <1>2, <2>1 DEF Members, Distinct
<1>8. ASSUME NEW k \in 1 .. Len(l), l[k] # c
      PROVE  l[k] \in Members(r)
  <2>1. CASE k < at
    BY <1>2, <1>5, <2>1 DEF Members
  <2>2. CASE k > at
    <3>1. k - 1 \in 1 .. Len(r) /\ r[k - 1] = l[k]
      BY <1>2, <1>5, <2>2
    <3> QED
      BY <3>1 DEF Members
  <2> QED
    BY <1>2, <1>8, <2>1, <2>2
<1>9. Members(r) = Members(l) \ {c}
  BY <1>7, <1>8 DEF Members
<1> QED
  BY <1>3, <1>4, <1>5, <1>6, <1>9

\* http_add_connection puts an http_state in front.
LEMMA AcceptedContent ==
  ASSUME NEW l \in Seq(Clients), NEW c \in Clients, c \notin Members(l), Distinct(l)
  PROVE  /\ Accepted(l, c) \in Seq(Clients) /\ Len(Accepted(l, c)) = Len(l) + 1 /\ Len(l) \in Nat
         /\ Distinct(Accepted(l, c)) /\ Members(Accepted(l, c)) = Members(l) \cup {c}
<1> DEFINE r == Accepted(l, c)
<1>1. /\ r \in Seq(Clients) /\ Len(r) = Len(l) + 1 /\ r[1] = c /\ Len(l) \in Nat
      /\ \A k \in 1 .. Len(l) : r[k + 1] = l[k]
      /\ \A k \in 2 .. (Len(l) + 1) : r[k] = l[k - 1]
  BY DEF Accepted
<1> HIDE DEF r
<1>2. \A k \in 1 .. Len(r) : k = 1 \/ (k \in 2 .. (Len(l) + 1) /\ k - 1 \in 1 .. Len(l) /\ r[k] = l[k - 1])
  BY <1>1
<1>3. ASSUME NEW j \in 1 .. Len(r), NEW k \in 1 .. Len(r), r[j] = r[k]
      PROVE  j = k
  <2>1. j = 1 <=> k = 1
    BY <1>1, <1>2, <1>3 DEF Members
  <2>2. ASSUME j # 1, k # 1 PROVE j = k
    <3>1. l[j - 1] = l[k - 1] /\ j - 1 \in 1 .. Len(l) /\ k - 1 \in 1 .. Len(l)
      BY <1>2, <1>3, <2>2
    <3>2. j - 1 = k - 1
      BY <3>1 DEF Distinct
    <3> QED
      BY <3>2
  <2> QED
    BY <2>1, <2>2
<1>4. \A k \in 1 .. Len(r) : r[k] \in Members(l) \cup {c}
  BY <1>1, <1>2 DEF Members
<1>5. ASSUME NEW k \in 1 .. Len(l) PROVE l[k] \in Members(r)
  <2>1. k + 1 \in 1 .. Len(r) /\ r[k + 1] = l[k]
    BY <1>1
  <2> QED
    BY <2>1 DEF Members
<1>6. c \in Members(r)
  <2>1. 1 \in 1 .. Len(r)
    BY <1>1
  <2> QED
    BY <1>1, <2>1 DEF Members
<1>7. Members(r) = Members(l) \cup {c}
  BY <1>4, <1>5, <1>6 DEF Members
<1> QED
  BY <1>1, <1>3, <1>7 DEF r, Distinct

\* StatesListed in these terms.
LEMMA Listed ==
  /\ list \in Seq(Clients) =>
       (StatesListed <=> pool + Len(list) = blocks /\ Distinct(list) /\ Members(list) = {c \in Clients : Open(c)})
  /\ list' \in Seq(Clients) =>
       (StatesListed' <=> /\ pool' + Len(list') = blocks' /\ Distinct(list')
                          /\ Members(list') = {c \in Clients : Open(c)'})
<1>1. ASSUME list \in Seq(Clients)
      PROVE  StatesListed <=>
               pool + Len(list) = blocks /\ Distinct(list) /\ Members(list) = {c \in Clients : Open(c)}
  <2>1. (\A c \in Clients : Open(c) <=> \E k \in 1 .. Len(list) : list[k] = c) <=> Members(list) = {c \in Clients : Open(c)}
    BY <1>1 DEF Members
  <2> QED
    BY <2>1 DEF StatesListed, Distinct
<1>2. ASSUME list' \in Seq(Clients)
      PROVE  StatesListed' <=> /\ pool' + Len(list') = blocks' /\ Distinct(list')
                               /\ Members(list') = {c \in Clients : Open(c)'}
  <2>1. (\A c \in Clients : Open(c)' <=> \E k \in 1 .. Len(list') : list'[k] = c) <=>
          Members(list') = {c \in Clients : Open(c)'}
    BY <1>2 DEF Members
  <2> QED
    BY <2>1 DEF StatesListed, Distinct
<1> QED
  BY <1>1, <1>2

-----------------------------------------------------------------------------
(* One http_state.                                                          *)

\* What changes nothing that was written keeps an http_state coherent.
LEMMA SameAnswer ==
  ASSUME NEW c \in Clients, NEW s \in StateType, Coherent(c, s), NEW t \in StateType,
         t.handle = s.handle, t.written = s.written, t.left = s.left, s.pcb # "new",
         t.pcb = s.pcb \/ t.pcb \in {"closing", "closed"},
         s.handle = None => t.got <= QueueLen
  PROVE  Coherent(c, t)
  BY DEF Coherent, StateType

\* http_write of k chunks keeps it coherent too.
LEMMA WriteKeeps ==
  ASSUME NEW c \in Clients, NEW s \in StateType, Coherent(c, s), s.pcb = "open", s.handle # None,
         NEW k \in 0 .. s.left, NEW owner \in Clients \cup {None}
  PROVE  /\ Write(s, k, owner) \in StateType /\ Coherent(c, Write(s, k, owner))
         /\ Write(s, k, owner).handle = s.handle /\ Write(s, k, owner).pcb = "open" /\ Write(s, k, owner).got = s.got
         /\ Len(Write(s, k, owner).written) = Len(s.written) + k
<1> DEFINE f == s.handle
           more == [i \in 1 .. k |-> Chunk(f, s.left - i + 1, owner)]
           t == Write(s, k, owner)
<1>1. /\ f \in Handles /\ f # None /\ s.left \in Nat /\ s.unacked \in Nat /\ s.written \in Seq(ChunkType) /\ k \in Nat
      /\ Len(s.written) \in Nat
  BY DEF StateType
<1>2. Length(c, f) \in Nat /\ Chunks[f] \in Nat /\ Length(c, f) <= Chunks[f]
  BY <1>1, Lengths
<1>3. /\ Len(s.written) + s.left = Length(c, f)
      /\ \A i \in 1 .. Len(s.written) : s.written[i].file = f /\ s.written[i].part = i + Chunks[f] - Length(c, f)
  BY <1>1 DEF Coherent
<1>4. ASSUME NEW i \in 1 .. k
      PROVE  /\ more[i] \in ChunkType /\ more[i].file = f
             /\ more[i].part = (Len(s.written) + i) + Chunks[f] - Length(c, f)
  <2>1. more[i] = Chunk(f, s.left - i + 1, owner)
    OBVIOUS
  <2>2. Chunks[f] - (s.left - i + 1) + 1 = (Len(s.written) + i) + Chunks[f] - Length(c, f)
        /\ Chunks[f] - (s.left - i + 1) + 1 \in Nat
    <3>1. i \in Nat /\ 1 <= i /\ i <= s.left
      BY <1>1
    <3>2. s.left <= Length(c, f) /\ s.left = Length(c, f) - Len(s.written)
      BY <1>1, <1>2, <1>3
    <3> DEFINE all == Chunks[f]
               full == Length(c, f)
               done == Len(s.written)
               left == s.left
    <3>3. all \in Nat /\ full \in Nat /\ done \in Nat /\ left \in Nat /\ full <= all /\ left = full - done
      BY <1>1, <1>2, <3>2
    <3>4. i <= left
      BY <3>1
    <3> HIDE DEF all, full, done, left
    <3>5. all - (left - i + 1) + 1 = (done + i) + all - full /\ all - (left - i + 1) + 1 \in Nat
      BY <3>1, <3>3, <3>4
    <3> QED
      BY <3>5 DEF all, full, done, left
  <2>3. (IF f = JsonFile THEN owner ELSE None) \in Clients \cup {None}
    OBVIOUS
  <2> QED
    BY <1>1, <2>1, <2>2, <2>3 DEF Chunk, ChunkType
<1>5. more \in Seq(ChunkType) /\ Len(more) = k
  BY <1>1, <1>4
<1> HIDE DEF more
<1>6. /\ s.written \o more \in Seq(ChunkType) /\ Len(s.written \o more) = Len(s.written) + k
      /\ \A i \in 1 .. Len(s.written) : (s.written \o more)[i] = s.written[i]
      /\ \A i \in 1 .. k : (s.written \o more)[Len(s.written) + i] = more[i]
  BY <1>1, <1>5
<1>7. t = [s EXCEPT !.left = s.left - k, !.unacked = s.unacked + k, !.written = s.written \o more]
  BY DEF Write, more
<1> HIDE DEF t
<1>8. /\ t \in StateType /\ t.written = s.written \o more /\ t.left = s.left - k /\ t.handle = f /\ t.pcb = "open"
      /\ t.got = s.got
  <2>1. s.left - k \in Nat /\ s.unacked + k \in Nat
    BY <1>1
  <2>2. PICK a \in Nat, b \in Nat, w \in Seq(ChunkType) :
               a = s.left - k /\ b = s.unacked + k /\ w = s.written \o more
    BY <1>6, <2>1
  <2>3. t = [s EXCEPT !.left = a, !.unacked = b, !.written = w]
    BY <1>7, <2>2
  <2>4. t \in StateType /\ t.written = w /\ t.left = a /\ t.handle = f /\ t.pcb = "open" /\ t.got = s.got
    BY <2>3 DEF StateType
  <2> QED
    BY <2>2, <2>4
<1>9. ASSUME NEW i \in 1 .. Len(t.written)
      PROVE  t.written[i].file = f /\ t.written[i].part = i + Chunks[f] - Length(c, f)
  <2>1. CASE i \in 1 .. Len(s.written)
    BY <1>3, <1>6, <1>8, <2>1
  <2>2. CASE i \notin 1 .. Len(s.written)
    <3>1. i - Len(s.written) \in 1 .. k /\ Len(s.written) + (i - Len(s.written)) = i
      BY <1>1, <1>6, <1>8, <2>2
    <3>2. t.written[i] = more[i - Len(s.written)]
      BY <1>6, <1>8, <3>1
    <3> QED
      BY <1>4, <3>1, <3>2
  <2> QED
    BY <2>1, <2>2
<1>10. Len(t.written) + t.left = Length(c, f) /\ Len(t.written) <= Length(c, f)
  BY <1>1, <1>3, <1>6, <1>8
<1> QED
  BY <1>1, <1>6, <1>8, <1>9, <1>10 DEF Coherent, t

\* An http_state that a request was found for.
Found(c, s, g, f) == [s EXCEPT !.got = g, !.handle = f, !.left = Length(c, f)]
LEMMA FoundStarts ==
  ASSUME NEW c \in Clients, NEW s \in StateType, Coherent(c, s), s.pcb = "open", s.handle = None,
         NEW f \in Handles \ {None}, NEW g \in Nat
  PROVE  /\ Found(c, s, g, f) \in StateType /\ Coherent(c, Found(c, s, g, f)) /\ Found(c, s, g, f).pcb = "open"
         /\ Found(c, s, g, f).handle = f /\ Found(c, s, g, f).got = g /\ Found(c, s, g, f).written = <<>>
         /\ Found(c, s, g, f).left = Length(c, f)
<1> DEFINE t == Found(c, s, g, f)
<1>1. s.written = <<>> /\ Length(c, f) \in Nat
  BY Lengths DEF Coherent
<1>2. t \in StateType /\ t.pcb = "open" /\ t.handle = f /\ t.got = g /\ t.written = <<>> /\ t.left = Length(c, f)
  BY <1>1 DEF StateType, Found
<1> HIDE DEF t
<1>3. Coherent(c, t)
  BY <1>1, <1>2 DEF Coherent
<1> QED
  BY <1>2, <1>3 DEF t

-----------------------------------------------------------------------------
(* What HttpService sees of a step.                                         *)

PhaseOf(s) == IF s.pcb = "closing" THEN "closed" ELSE s.pcb
PhaseSeen == [c \in Clients |-> PhaseOf(conn[c])]
OutSeen == [c \in Clients |-> Outline(conn[c].written)]
Serves == [Service!ServiceNext]_(Service!serviceVars)

\* The steps of HttpService in these terms.
LEMMA Seen ==
  /\ PhaseSeen' = PhaseSeen /\ OutSeen' = OutSeen => Serves
  /\ \A c, d \in Clients :
       /\ PhaseSeen[c] = "new" /\ (d # c => PhaseSeen[d] = "open")
       /\ PhaseSeen' = [PhaseSeen EXCEPT ![d] = "closed", ![c] = "open"] /\ OutSeen' = OutSeen
       => Serves
  /\ \A c \in Clients : PhaseSeen[c] = "new" /\ PhaseSeen' = [PhaseSeen EXCEPT ![c] = "closed"] /\ OutSeen' = OutSeen
                          => Serves
  /\ \A c \in Clients : PhaseSeen[c] = "open" /\ PhaseSeen' = [PhaseSeen EXCEPT ![c] = "closed"] /\ OutSeen' = OutSeen
                          => Serves
<1>1. PhaseSeen' = PhaseSeen /\ OutSeen' = OutSeen => Serves
  BY DEF PhaseSeen, OutSeen, PhaseOf, Serves, Service!serviceVars
<1>2. ASSUME NEW c \in Clients, NEW d \in Clients, PhaseSeen[c] = "new", d # c => PhaseSeen[d] = "open",
             PhaseSeen' = [PhaseSeen EXCEPT ![d] = "closed", ![c] = "open"], OutSeen' = OutSeen
      PROVE  Serves
  <2>1. Service!AcceptFor(c, d)
    BY <1>2 DEF PhaseSeen, OutSeen, PhaseOf, Service!AcceptFor
  <2> QED
    BY <2>1 DEF Serves, Service!ServiceNext
<1>3. ASSUME NEW c \in Clients, PhaseSeen[c] = "new", PhaseSeen' = [PhaseSeen EXCEPT ![c] = "closed"], OutSeen' = OutSeen
      PROVE  Serves
  <2>1. PhaseSeen' = [d \in Clients |-> IF d \in {c} THEN "closed" ELSE PhaseSeen[d]]
    BY <1>3 DEF PhaseSeen
  <2>2. Service!Refuse({c})
    BY <1>3, <2>1 DEF PhaseSeen, OutSeen, PhaseOf, Service!Refuse
  <2> QED
    BY <2>2 DEF Serves, Service!ServiceNext
<1>4. ASSUME NEW c \in Clients, PhaseSeen[c] = "open", PhaseSeen' = [PhaseSeen EXCEPT ![c] = "closed"], OutSeen' = OutSeen
      PROVE  Serves
  <2>1. Service!Close(c)
    BY <1>4 DEF PhaseSeen, OutSeen, PhaseOf, Service!Close
  <2> QED
    BY <2>1 DEF Serves, Service!ServiceNext
<1> QED
  BY <1>1, <1>2, <1>3, <1>4

\* A step of one connection.
LEMMA SeenOfOne ==
  ASSUME CbInv, NEW c \in Clients, NEW s \in StateType, conn' = [conn EXCEPT ![c] = s]
  PROVE  /\ PhaseSeen' = [PhaseSeen EXCEPT ![c] = PhaseOf(s)]
         /\ OutSeen' = [OutSeen EXCEPT ![c] = Outline(s.written)]
         /\ PhaseSeen[c] = PhaseOf(conn[c]) /\ OutSeen[c] = Outline(conn[c].written)
<1>1. conn \in [Clients -> StateType]
  BY DEF CbInv
<1>2. conn' = [d \in Clients |-> IF d = c THEN s ELSE conn[d]]
  BY <1>1
<1> QED
  BY <1>2 DEF PhaseSeen, OutSeen

\* A step that writes nothing is unseen, a refusal, or the end of a connection.
LEMMA NothingWritten ==
  ASSUME CbInv, NEW c \in Clients, NEW s \in StateType, conn' = [conn EXCEPT ![c] = s], s.written = conn[c].written,
         s.pcb = conn[c].pcb \/ s.pcb \in {"closing", "closed"}
  PROVE  Serves
<1>1. PhaseSeen' = [PhaseSeen EXCEPT ![c] = PhaseOf(s)] /\ OutSeen' = OutSeen /\ PhaseSeen[c] = PhaseOf(conn[c])
  <2>1. OutSeen' = [OutSeen EXCEPT ![c] = Outline(s.written)] /\ OutSeen[c] = Outline(conn[c].written)
    BY SeenOfOne
  <2>2. Outline(s.written) = Outline(conn[c].written)
    OBVIOUS
  <2>3. [OutSeen EXCEPT ![c] = OutSeen[c]] = OutSeen
    BY DEF OutSeen
  <2>4. OutSeen' = OutSeen
    BY <2>1, <2>2, <2>3
  <2> QED
    BY <2>4, SeenOfOne
<1>2. PhaseOf(conn[c]) \in {"new", "open", "closed"}
  BY DEF PhaseOf, CbInv, StateType
<1>3. PhaseOf(s) = PhaseOf(conn[c]) \/ PhaseOf(s) = "closed"
  BY DEF PhaseOf
<1>4. CASE PhaseOf(s) = PhaseOf(conn[c])
  <2>1. [PhaseSeen EXCEPT ![c] = PhaseSeen[c]] = PhaseSeen
    BY DEF PhaseSeen
  <2>2. PhaseSeen' = PhaseSeen
    BY <1>1, <1>4, <2>1
  <2> QED
    BY <1>1, <2>2, Seen
<1>5. CASE PhaseOf(s) = "closed" /\ PhaseOf(conn[c]) \in {"new", "open"}
  BY <1>1, <1>5, Seen
<1> QED
  BY <1>2, <1>3, <1>4, <1>5

\* What a coherent http_state has written is the beginning of an answer.
LEMMA WrittenBegins ==
  ASSUME NEW c \in Clients, NEW s \in StateType, Coherent(c, s), s.handle # None
  PROVE  LET O == Outline(Whole(c, s.handle)) IN
         /\ O \in Answers[c] /\ Len(O) = Length(c, s.handle) /\ Len(s.written) \in 0 .. Len(O)
         /\ Outline(s.written) = SubSeq(O, 1, Len(s.written))
         /\ Len(SubSeq(O, 1, Len(s.written))) = Len(s.written)
         /\ SubSeq(SubSeq(O, 1, Len(s.written)), 1, Len(s.written)) = SubSeq(O, 1, Len(s.written))
<1> DEFINE f == s.handle
           n == Len(s.written)
           W == Whole(c, f)
<1>1. f \in Files \cup {JsonFile} /\ s.written \in Seq(ChunkType) /\ n \in Nat
  BY Names DEF StateType
<1>2. n \in 0 .. Length(c, f) /\ Length(c, f) \in Nat
      /\ \A i \in 1 .. n : s.written[i].file = f /\ s.written[i].part = i + Chunks[f] - Length(c, f)
  <2>1. Length(c, f) \in Nat
    BY <1>1, Lengths DEF Handles
  <2> QED
    BY <1>1, <2>1 DEF Coherent
<1>3. \A i \in 1 .. n : W[i].file = f /\ W[i].part = i + Chunks[f] - Length(c, f)
  BY <1>2 DEF Whole
<1> HIDE DEF f, W
<1>4. SubSeq(W, 1, n) \in Seq(ChunkType) /\ Len(SubSeq(W, 1, n)) = n /\ \A i \in 1 .. n : SubSeq(W, 1, n)[i] = W[i]
  BY <1>1, <1>2, Beginnings DEF W, Handles
<1>5. Outline(s.written) = Outline(SubSeq(W, 1, n))
  <2>1. DOMAIN s.written = 1 .. n /\ DOMAIN SubSeq(W, 1, n) = 1 .. n
    BY <1>1, <1>4
  <2>2. \A i \in 1 .. n : [file |-> s.written[i].file, part |-> s.written[i].part] =
                          [file |-> SubSeq(W, 1, n)[i].file, part |-> SubSeq(W, 1, n)[i].part]
    BY <1>2, <1>3, <1>4
  <2> HIDE DEF n
  <2> QED
    BY <2>1, <2>2 DEF Outline
<1>6. /\ Outline(SubSeq(W, 1, n)) = SubSeq(Outline(W), 1, n) /\ Len(Outline(W)) = Length(c, f)
      /\ Len(SubSeq(Outline(W), 1, n)) = n
      /\ SubSeq(SubSeq(Outline(W), 1, n), 1, n) = SubSeq(Outline(W), 1, n)
  BY <1>1, <1>2, OutlineBegins DEF W
<1>7. Outline(W) \in Answers[c]
  BY <1>1 DEF Answers, W
<1> QED
  BY <1>2, <1>5, <1>6, <1>7 DEF f, W

\* http_write of chunks that follow is a SendMore, of none it is unseen.
LEMMA WriteSends ==
  ASSUME CbInv, NEW c \in Clients, NEW s \in StateType, NEW t \in StateType, Coherent(c, s), Coherent(c, t),
         s.handle # None, t.handle = s.handle, conn[c].pcb = "open", t.pcb = "open",
         s.written = conn[c].written, NEW k \in Nat, Len(t.written) = Len(s.written) + k, conn' = [conn EXCEPT ![c] = t]
  PROVE  Serves
<1> DEFINE O == Outline(Whole(c, s.handle))
           n == Len(s.written)
<1>1. O \in Answers[c] /\ n \in 0 .. Len(O) /\ Outline(s.written) = SubSeq(O, 1, n) /\ Len(SubSeq(O, 1, n)) = n
      /\ SubSeq(SubSeq(O, 1, n), 1, n) = SubSeq(O, 1, n)
  BY WrittenBegins
<1>2. n + k \in 0 .. Len(O) /\ Outline(t.written) = SubSeq(O, 1, n + k)
  <2>1. Len(t.written) \in 0 .. Len(O) /\ Outline(t.written) = SubSeq(O, 1, Len(t.written))
    BY WrittenBegins
  <2>2. Len(t.written) = n + k
    OBVIOUS
  <2> HIDE DEF O, n
  <2> QED
    BY <2>1, <2>2
<1>3. /\ PhaseSeen' = [PhaseSeen EXCEPT ![c] = "open"] /\ PhaseSeen[c] = "open"
      /\ OutSeen' = [OutSeen EXCEPT ![c] = SubSeq(O, 1, n + k)] /\ OutSeen[c] = SubSeq(O, 1, n)
  <2>1. PhaseOf(t) = "open" /\ PhaseOf(conn[c]) = "open"
    BY DEF PhaseOf
  <2>2. OutSeen[c] = Outline(s.written)
    BY SeenOfOne
  <2>3. PhaseSeen' = [PhaseSeen EXCEPT ![c] = PhaseOf(t)] /\ OutSeen' = [OutSeen EXCEPT ![c] = Outline(t.written)]
        /\ PhaseSeen[c] = PhaseOf(conn[c])
    BY SeenOfOne
  <2> HIDE DEF O, n
  <2> QED
    BY <1>1, <1>2, <2>1, <2>2, <2>3
<1>4. PhaseSeen' = PhaseSeen
  BY <1>3 DEF PhaseSeen
<1> HIDE DEF O, n
<1>5. CASE k = 0
  <2>1. n + k = n
    BY <1>1, <1>5
  <2>2. OutSeen' = [OutSeen EXCEPT ![c] = OutSeen[c]]
    BY <1>3, <2>1
  <2>3. OutSeen' = OutSeen
    BY <2>2 DEF OutSeen
  <2> QED
    BY <1>4, <2>3, Seen
<1>6. CASE k # 0
  <2>1. Service!IsPrefix(OutSeen[c], O)
    BY <1>1, <1>3 DEF Service!IsPrefix
  <2>2. n + k \in Len(OutSeen[c]) + 1 .. Len(O)
    BY <1>1, <1>2, <1>3, <1>6
  <2>3. \E a \in Answers[c] : /\ Service!IsPrefix(OutSeen[c], a)
                              /\ \E m \in Len(OutSeen[c]) + 1 .. Len(a) : OutSeen' = [OutSeen EXCEPT ![c] = SubSeq(a, 1, m)]
    BY <1>1, <1>3, <2>1, <2>2
  <2>4. Service!SendMore(c)
    BY <1>3, <1>4, <2>3 DEF OutSeen, PhaseSeen, PhaseOf, Service!SendMore
  <2> QED
    BY <2>4 DEF Serves, Service!ServiceNext
<1> QED
  BY <1>5, <1>6

-----------------------------------------------------------------------------
(* The steps of the inductive invariant.                                    *)

\* The list before and after a step, as sets.
LEMMA Assembled ==
  ASSUME CbInv, blocks' = blocks, conn' \in [Clients -> StateType], buffer' \in Clients \cup {None},
         sends' \in [Clients -> Nat], \A c \in Clients : Coherent(c, conn'[c]) /\ conn'[c].got <= sends'[c],
         list' \in Seq(Clients), pool' \in Nat, pool' + Len(list') = blocks, Distinct(list'),
         Members(list') = {c \in Clients : conn'[c].pcb = "open"}
  PROVE  CbInv'
<1>1. StatesListed'
  BY Listed DEF Open
<1>2. blocks' \in Nat
  BY DEF CbInv
<1>3. (\A c \in Clients : Coherent(c, conn[c]) /\ conn[c].got <= sends[c])'
  BY DEF Coherent
<1> QED
  BY <1>1, <1>2, <1>3 DEF CbInv

LEMMA ListNow ==
  ASSUME CbInv
  PROVE  /\ list \in Seq(Clients) /\ Len(list) \in Nat /\ pool \in Nat /\ blocks \in Nat /\ pool + Len(list) = blocks
         /\ Distinct(list) /\ Members(list) = {c \in Clients : Open(c)}
         /\ sends \in [Clients -> Nat] /\ conn \in [Clients -> StateType] /\ buffer \in Clients \cup {None}
         /\ \A c \in Clients : Coherent(c, conn[c]) /\ conn[c] \in StateType /\ conn[c].got <= sends[c]
<1>1. list \in Seq(Clients) /\ StatesListed
  BY DEF CbInv
<1> QED
  BY <1>1, Listed DEF CbInv

\* A callback that works on one connection keeps the invariant, if it keeps the connection
\* open or gives the block back.
LEMMA OneChanges ==
  ASSUME CbInv, NEW c \in Clients, NEW s \in StateType, Coherent(c, s), s.got <= sends[c],
         conn' = [conn EXCEPT ![c] = s], blocks' = blocks, sends' = sends, buffer' \in Clients \cup {None},
         \/ list' = list /\ pool' = pool /\ (s.pcb = "open" <=> conn[c].pcb = "open")
         \/ FreeState(c) /\ conn[c].pcb = "open" /\ s.pcb # "open"
  PROVE  CbInv'
<1>1. conn' \in [Clients -> StateType] /\ conn'[c] = s /\ \A d \in Clients : d # c => conn'[d] = conn[d]
  BY ListNow
<1>2. \A d \in Clients : Coherent(d, conn'[d]) /\ conn'[d].got <= sends'[d]
  BY <1>1, ListNow
<1>3. CASE list' = list /\ pool' = pool /\ (s.pcb = "open" <=> conn[c].pcb = "open")
  <2>1. {d \in Clients : conn'[d].pcb = "open"} = {d \in Clients : Open(d)}
    BY <1>1, <1>3 DEF Open
  <2> QED
    BY <1>1, <1>2, <1>3, <2>1, ListNow, Assembled
<1>4. CASE FreeState(c) /\ conn[c].pcb = "open" /\ s.pcb # "open"
  <2>1. c \in Members(list)
    BY <1>4, ListNow DEF Open
  <2>2. list' = Without(list, c) /\ pool' = pool + 1
    BY <1>4 DEF FreeState
  <2>3. list' \in Seq(Clients) /\ Len(list') = Len(list) - 1 /\ Distinct(list') /\ Members(list') = Members(list) \ {c}
    BY <2>1, <2>2, ListNow, WithoutContent
  <2>4. Members(list') = {d \in Clients : conn'[d].pcb = "open"}
    BY <1>1, <1>4, <2>3, ListNow DEF Open
  <2>5. pool' \in Nat /\ pool' + Len(list') = blocks
    <3>1. pool \in Nat /\ Len(list) \in Nat /\ pool + Len(list) = blocks
      BY ListNow
    <3> QED
      BY <2>2, <2>3, <3>1
  <2> QED
    BY <1>1, <1>2, <2>3, <2>4, <2>5, ListNow, Assembled
<1> QED
  BY <1>3, <1>4

\* The http_state of a new connection.
LEMMA NewStarts ==
  ASSUME NEW c \in Clients
  PROVE  LET s == [New EXCEPT !.pcb = "open"]
         IN s \in StateType /\ s.pcb = "open" /\ s.got = 0 /\ s.written = <<>> /\ Coherent(c, s)
<1> DEFINE s == [New EXCEPT !.pcb = "open"]
<1>1. s = [pcb |-> "open", got |-> 0, handle |-> None, left |-> 0, retries |-> 0, written |-> <<>>, unacked |-> 0]
  BY DEF New
<1> HIDE DEF s
<1>2. 0 \in 0 .. (MaxRetries - 1) /\ None \in Handles /\ <<>> \in Seq(ChunkType) /\ 0 <= QueueLen
  BY Names
<1>3. s \in StateType
  BY <1>1, <1>2 DEF StateType
<1>4. Coherent(c, s)
  BY <1>1, <1>2 DEF Coherent
<1>5. s.pcb = "open" /\ s.got = 0 /\ s.written = <<>>
  BY <1>1
<1> QED
  BY <1>3, <1>4, <1>5 DEF s

\* A connection with a block of its own.
LEMMA AcceptFreeKeeps ==
  ASSUME CbInv, NEW c \in Clients, conn[c].pcb = "new", AcceptFree(c), UNCHANGED <<shared, sends, blocks>>
  PROVE  CbInv'
<1> DEFINE s == [New EXCEPT !.pcb = "open"]
<1>1. s \in StateType /\ s.pcb = "open" /\ s.got = 0 /\ Coherent(c, s)
  BY NewStarts
<1> HIDE DEF s
<1>2. conn' = [conn EXCEPT ![c] = s] /\ pool' = pool - 1 /\ pool > 0 /\ list' = Accepted(list, c)
      /\ blocks' = blocks /\ sends' = sends /\ buffer' = buffer
  BY DEF AcceptFree, shared, s
<1>3. conn' \in [Clients -> StateType] /\ conn'[c] = s /\ \A d \in Clients : d # c => conn'[d] = conn[d]
  BY <1>1, <1>2, ListNow
<1>4. \A d \in Clients : Coherent(d, conn'[d]) /\ conn'[d].got <= sends'[d]
  BY <1>1, <1>2, <1>3, ListNow
<1>5. c \notin Members(list)
  BY ListNow DEF Open
<1>6. list' \in Seq(Clients) /\ Len(list') = Len(list) + 1 /\ Distinct(list') /\ Members(list') = Members(list) \cup {c}
  BY <1>2, <1>5, ListNow, AcceptedContent
<1>7. Members(list') = {d \in Clients : conn'[d].pcb = "open"}
  BY <1>1, <1>3, <1>6, ListNow DEF Open
<1>8. pool' \in Nat /\ pool' + Len(list') = blocks
  BY <1>2, <1>6, ListNow
<1> QED
  BY <1>2, <1>3, <1>4, <1>6, <1>7, <1>8, ListNow, Assembled

\* The oldest connection is open, and another one than the new one.
LEMMA OldestOpen ==
  ASSUME CbInv, Len(list) >= 2
  PROVE  Oldest \in Clients /\ Oldest \in Members(list) /\ conn[Oldest].pcb = "open"
<1>1. Len(list) \in 1 .. Len(list) /\ list \in Seq(Clients)
  BY ListNow
<1>2. Oldest \in Clients /\ Oldest \in Members(list)
  BY <1>1 DEF Oldest, Members
<1> QED
  BY <1>2, ListNow DEF Open

\* A connection with the block of the oldest one.
LEMMA AcceptKillsKeeps ==
  ASSUME CbInv, NEW c \in Clients, conn[c].pcb = "new", AcceptKills(c), UNCHANGED <<shared, sends, blocks>>
  PROVE  CbInv' /\ Len(list') = Len(list)
<1> DEFINE s == [New EXCEPT !.pcb = "open"]
<1>1. s \in StateType /\ s.pcb = "open" /\ s.got = 0 /\ Coherent(c, s)
  BY NewStarts
<1> HIDE DEF s
<1>2. PICK d \in Clients : d = Oldest /\ d \in Members(list) /\ conn[d].pcb = "open"
  BY OldestOpen DEF AcceptKills
<1> DEFINE t == [conn[d] EXCEPT !.pcb = "closed"]
<1>3. t \in StateType /\ t.pcb = "closed" /\ t.got = conn[d].got /\ Coherent(d, t)
  <2>1. conn[d] \in StateType /\ Coherent(d, conn[d])
    BY ListNow
  <2>2. t \in StateType /\ t.pcb = "closed" /\ t.got = conn[d].got /\ t.handle = conn[d].handle
        /\ t.written = conn[d].written /\ t.left = conn[d].left
    BY <2>1 DEF StateType
  <2>3. conn[d].handle = None => t.got <= QueueLen
    BY <2>1, <2>2 DEF Coherent
  <2> HIDE DEF t
  <2> QED
    BY <1>2, <2>1, <2>2, <2>3, SameAnswer
<1>4. conn' = [conn EXCEPT ![d].pcb = "closed", ![c] = s] /\ pool = 0 /\ pool' = pool
      /\ list' = Accepted(Without(list, d), c) /\ blocks' = blocks /\ sends' = sends /\ buffer' = buffer
  BY <1>2 DEF AcceptKills, shared, s
<1>5. conn' \in [Clients -> StateType] /\ conn'[c] = s /\ conn'[d] = t /\ c # d
      /\ \A e \in Clients : e # c /\ e # d => conn'[e] = conn[e]
  <2>1. c # d
    BY <1>2
  <2>2. conn' = [e \in Clients |-> IF e = c THEN s ELSE IF e = d THEN t ELSE conn[e]]
    BY <1>4, <2>1, ListNow
  <2> HIDE DEF t
  <2> QED
    BY <1>1, <1>3, <2>1, <2>2, ListNow
<1> HIDE DEF t
<1>6. ASSUME NEW e \in Clients PROVE Coherent(e, conn'[e]) /\ conn'[e].got <= sends'[e]
  <2>1. Coherent(e, conn[e]) /\ conn[e].got <= sends[e] /\ sends[e] \in Nat
    BY ListNow
  <2>2. CASE e = c
    BY <1>1, <1>4, <1>5, <2>1, <2>2
  <2>3. CASE e = d
    BY <1>3, <1>4, <1>5, <2>1, <2>3
  <2>4. CASE e # c /\ e # d
    BY <1>4, <1>5, <2>1, <2>4
  <2> QED
    BY <2>2, <2>3, <2>4
<1>7. Without(list, d) \in Seq(Clients) /\ Len(Without(list, d)) = Len(list) - 1 /\ Distinct(Without(list, d))
      /\ Members(Without(list, d)) = Members(list) \ {d}
  <2>1. list \in Seq(Clients) /\ Distinct(list) /\ d \in Members(list)
    BY <1>2, ListNow
  <2> QED
    BY <2>1, WithoutContent
<1>8. c \notin Members(list)
  BY ListNow DEF Open
<1>9. list' \in Seq(Clients) /\ Len(list') = Len(list) /\ Distinct(list')
      /\ Members(list') = (Members(list) \ {d}) \cup {c}
  <2> DEFINE rest == Without(list, d)
  <2>1. rest \in Seq(Clients) /\ Distinct(rest) /\ c \notin Members(rest)
    BY <1>7, <1>8
  <2>2. Len(rest) = Len(list) - 1 /\ Members(rest) = Members(list) \ {d} /\ list' = Accepted(rest, c)
    BY <1>4, <1>7
  <2>3. Len(list) \in Nat
    BY ListNow
  <2> HIDE DEF rest
  <2>4. /\ Accepted(rest, c) \in Seq(Clients) /\ Len(Accepted(rest, c)) = Len(rest) + 1
        /\ Distinct(Accepted(rest, c)) /\ Members(Accepted(rest, c)) = Members(rest) \cup {c}
    BY <2>1, AcceptedContent
  <2> QED
    BY <2>2, <2>3, <2>4
<1>10. Members(list') = {e \in Clients : conn'[e].pcb = "open"}
  BY <1>1, <1>3, <1>5, <1>9, ListNow DEF Open
<1>11. pool' \in Nat /\ pool' + Len(list') = blocks
  BY <1>4, <1>9, ListNow
<1> QED
  BY <1>4, <1>5, <1>6, <1>9, <1>10, <1>11, ListNow, Assembled

\* The end of a connection: http_close_or_abort_conn, http_err.
LEMMA CloseKeeps ==
  ASSUME CbInv, NEW c \in Clients, Open(c), CloseConn(c), blocks' = blocks, sends' = sends,
         buffer' \in Clients \cup {None}
  PROVE  CbInv' /\ Serves
<1>1. PICK p \in {"closing", "closed"} : conn' = [conn EXCEPT ![c].pcb = p]
  BY DEF CloseConn
<1> DEFINE s == [conn[c] EXCEPT !.pcb = p]
<1>2. conn[c] \in StateType /\ Coherent(c, conn[c]) /\ conn[c].got <= sends[c] /\ conn[c].pcb = "open"
  BY ListNow DEF Open
<1>3. s \in StateType /\ s.pcb = p /\ s.got = conn[c].got /\ s.handle = conn[c].handle
      /\ s.written = conn[c].written /\ s.left = conn[c].left
  BY <1>2 DEF StateType
<1>4. conn' = [conn EXCEPT ![c] = s]
  BY <1>1, ListNow
<1> HIDE DEF s
<1>5. Coherent(c, s)
  <2>1. conn[c].handle = None => s.got <= QueueLen
    BY <1>2, <1>3 DEF Coherent
  <2> QED
    BY <1>2, <1>3, <2>1, SameAnswer
<1>6. FreeState(c)
  BY DEF CloseConn
<1> QED
  BY <1>2, <1>3, <1>4, <1>5, <1>6, OneChanges, NothingWritten

\* A part of an answer goes out.
LEMMA SendKeeps ==
  ASSUME CbInv, NEW c \in Clients, Open(c), NEW s \in StateType, Coherent(c, s), s.pcb = "open", s.handle # None,
         s.got <= sends[c], s.written = conn[c].written, NEW k \in 0 .. s.left, NEW owner \in Clients \cup {None},
         conn' = [conn EXCEPT ![c] = Write(s, k, owner)],
         UNCHANGED <<list, pool, blocks, sends>>, buffer' \in Clients \cup {None}
  PROVE  CbInv' /\ Serves
<1>1. Write(s, k, owner) \in StateType /\ Coherent(c, Write(s, k, owner)) /\ Write(s, k, owner).pcb = "open"
      /\ Write(s, k, owner).got = s.got
  BY WriteKeeps
<1>2. list' = list /\ pool' = pool /\ (Write(s, k, owner).pcb = "open" <=> conn[c].pcb = "open")
  BY <1>1 DEF Open
<1>3. CbInv'
  BY <1>1, <1>2, OneChanges
<1>4. Serves
  <2> DEFINE t == Write(s, k, owner)
  <2>1. t \in StateType /\ Coherent(c, t) /\ t.handle = s.handle /\ t.pcb = "open" /\ Len(t.written) = Len(s.written) + k
    BY WriteKeeps
  <2>2. k \in Nat /\ conn[c].pcb = "open" /\ conn' = [conn EXCEPT ![c] = t]
    BY DEF StateType, Open
  <2>3. CbInv /\ s \in StateType /\ Coherent(c, s) /\ s.handle # None /\ s.written = conn[c].written
    OBVIOUS
  <2> HIDE DEF t
  <2> QED
    BY ONLY <2>1, <2>2, <2>3, c \in Clients, WriteSends
<1> QED
  BY <1>3, <1>4

\* http_send of an http_state that is coherent.
LEMMA SendStepKeeps ==
  ASSUME CbInv, NEW c \in Clients, Open(c), NEW s \in StateType, Coherent(c, s), s.pcb = "open",
         s.got <= sends[c], s.written = conn[c].written, Send(c, s), UNCHANGED <<blocks, sends>>
  PROVE  CbInv' /\ Serves
<1>1. CASE s.left = 0 /\ CloseConn(c) /\ UNCHANGED shared
  BY <1>1, CloseKeeps, ListNow DEF shared
<1>2. CASE s.left > 0 /\ \E k \in 0 .. s.left : /\ conn' = [conn EXCEPT ![c] = Write(s, k, buffer)]
                                               /\ UNCHANGED <<buffer, list, pool>>
  <2>1. PICK k \in 0 .. s.left : conn' = [conn EXCEPT ![c] = Write(s, k, buffer)] /\ UNCHANGED <<buffer, list, pool>>
    BY <1>2
  <2>2. s.handle # None
    BY <1>2 DEF Coherent
  <2> QED
    BY <2>1, <2>2, ListNow, SendKeeps
<1> QED
  BY <1>1, <1>2 DEF Send

\* http_recv, while the request is incomplete.
LEMMA RecvKeeps ==
  ASSUME CbInv, NEW c \in Clients, Recv(c), blocks' = blocks
  PROVE  CbInv' /\ Serves
<1> DEFINE got == conn[c].got + 1
           result == Parse(Req[c], got)
<1>1. /\ Open(c) /\ conn[c].pcb = "open" /\ conn[c].handle = None /\ conn[c] \in StateType /\ Coherent(c, conn[c])
      /\ got \in Nat /\ got <= sends[c] /\ sends' = sends /\ buffer \in Clients \cup {None}
  <2>1. Open(c) /\ conn[c].handle = None /\ sends' = sends /\ sends[c] > conn[c].got
    BY DEF Recv
  <2>2. conn[c] \in StateType /\ Coherent(c, conn[c]) /\ sends[c] \in Nat /\ buffer \in Clients \cup {None}
    BY ListNow
  <2>3. conn[c].got \in Nat
    BY <2>2 DEF StateType
  <2> QED
    BY <2>1, <2>2, <2>3 DEF Open
<1>2. result \in Handles \cup {"more", "bad"} /\ (result = "more" => got <= QueueLen)
  BY <1>1, Parses
<1>3. \/ result = "more" /\ Parsed(c, got) /\ conn' = [conn EXCEPT ![c].got = got] /\ UNCHANGED <<list, pool>>
      \/ Parsed(c, got) /\ CloseConn(c)
      \/ /\ result \notin {"more", "bad", None} /\ UNCHANGED <<list, pool>>
         /\ \E k \in 0 .. Length(c, result) :
              /\ buffer' = IF result = JsonFile THEN c ELSE buffer
              /\ conn' = [conn EXCEPT ![c] = Write(Found(c, conn[c], got, result), k, c)]
  <2> DEFINE t == Found(c, conn[c], got, result)
  <2>1. t.left = Length(c, result)
    BY <1>1 DEF StateType, Found
  <2>2. \/ result = "more" /\ Parsed(c, got) /\ conn' = [conn EXCEPT ![c].got = got] /\ UNCHANGED <<list, pool>>
        \/ Parsed(c, got) /\ CloseConn(c)
        \/ /\ result \notin {"more", "bad", None} /\ UNCHANGED <<list, pool>>
           /\ \E k \in 0 .. t.left : ParsedAnd(c, got, Ends(t, k)) /\ conn' = [conn EXCEPT ![c] = Write(t, k, c)]
    BY DEF Recv, Found
  <2>3. \A b : ParsedAnd(c, got, b) => buffer' = IF result = JsonFile THEN c ELSE buffer
    BY DEF ParsedAnd
  <2> HIDE DEF t, result
  <2>4. (\E k \in 0 .. t.left : ParsedAnd(c, got, Ends(t, k)) /\ conn' = [conn EXCEPT ![c] = Write(t, k, c)]) =>
          \E k \in 0 .. Length(c, result) :
             buffer' = (IF result = JsonFile THEN c ELSE buffer) /\ conn' = [conn EXCEPT ![c] = Write(t, k, c)]
    BY <2>1, <2>3
  <2> QED
    BY <2>2, <2>4 DEF t
<1>4. Parsed(c, got) => buffer' \in Clients \cup {None}
  BY <1>1 DEF Parsed, ParsedAnd
<1> HIDE DEF result, got
<1>5. CASE result = "more" /\ Parsed(c, got) /\ conn' = [conn EXCEPT ![c].got = got] /\ UNCHANGED <<list, pool>>
  <2> DEFINE s == [conn[c] EXCEPT !.got = got]
  <2>1. s \in StateType /\ s.pcb = "open" /\ s.got = got /\ s.handle = conn[c].handle /\ s.written = conn[c].written
        /\ s.left = conn[c].left
    BY <1>1 DEF StateType
  <2>2. conn' = [conn EXCEPT ![c] = s]
    BY <1>5, ListNow
  <2> HIDE DEF s
  <2>3. Coherent(c, s)
    BY <1>1, <1>2, <1>5, <2>1, SameAnswer
  <2> QED
    BY <1>1, <1>4, <1>5, <2>1, <2>2, <2>3, OneChanges, NothingWritten
<1>6. CASE Parsed(c, got) /\ CloseConn(c)
  BY <1>1, <1>4, <1>6, CloseKeeps
<1>7. ASSUME result \notin {"more", "bad", None}, UNCHANGED <<list, pool>>, NEW k \in 0 .. Length(c, result),
             buffer' = IF result = JsonFile THEN c ELSE buffer,
             conn' = [conn EXCEPT ![c] = Write(Found(c, conn[c], got, result), k, c)]
      PROVE  CbInv' /\ Serves
  <2> DEFINE s == Found(c, conn[c], got, result)
  <2>1. result \in Handles \ {None}
    BY <1>2, <1>7
  <2>2. /\ s \in StateType /\ Coherent(c, s) /\ s.pcb = "open" /\ s.handle = result /\ s.got = got
        /\ s.left = Length(c, result)
    BY <1>1, <2>1, FoundStarts
  <2>3. conn' = [conn EXCEPT ![c] = Write(s, k, c)] /\ UNCHANGED <<list, pool, blocks, sends>>
        /\ buffer' \in Clients \cup {None}
    BY <1>1, <1>7
  <2>4. s.handle # None /\ s.got <= sends[c] /\ k \in 0 .. s.left /\ c \in Clients \cup {None} /\ Open(c)
    BY <1>1, <1>7, <2>1, <2>2
  <2>5. s.written = conn[c].written
    BY <1>1, <2>1, FoundStarts DEF Coherent
  <2> HIDE DEF s
  <2> QED
    BY <2>2, <2>3, <2>4, <2>5, SendKeeps
<1> QED
  BY <1>3, <1>5, <1>6, <1>7

\* http_poll.
LEMMA PollKeeps ==
  ASSUME CbInv, NEW c \in Clients, Poll(c), blocks' = blocks
  PROVE  CbInv' /\ Serves
<1> DEFINE tried == [conn[c] EXCEPT !.retries = conn[c].retries + 1]
<1>1. /\ Open(c) /\ conn[c].pcb = "open" /\ conn[c] \in StateType /\ Coherent(c, conn[c]) /\ conn[c].got <= sends[c]
      /\ sends' = sends
  BY ListNow DEF Poll, Open
<1>2. \/ tried.retries = MaxRetries /\ CloseConn(c) /\ UNCHANGED shared
      \/ tried.retries # MaxRetries /\ Send(c, tried)
      \/ /\ tried.retries # MaxRetries /\ conn' = [conn EXCEPT ![c] = tried] /\ UNCHANGED <<shared, list, pool>>
  BY DEF Poll
<1>3. tried.retries # MaxRetries =>
        /\ tried \in StateType /\ tried.pcb = "open" /\ tried.got = conn[c].got /\ tried.handle = conn[c].handle
        /\ tried.written = conn[c].written /\ tried.left = conn[c].left
  <2>1. conn[c].retries \in 0 .. (MaxRetries - 1) /\ MaxRetries \in Nat \ {0}
    BY <1>1, Names DEF StateType
  <2>2. PICK n \in Nat : n = conn[c].retries + 1
    BY <2>1
  <2>3. tried = [conn[c] EXCEPT !.retries = n] /\ tried.retries = n
    BY <1>1, <2>2 DEF StateType
  <2>4. tried.retries # MaxRetries => n \in 0 .. (MaxRetries - 1)
    BY <2>1, <2>2, <2>3
  <2> HIDE DEF tried
  <2> QED
    BY <1>1, <2>3, <2>4 DEF StateType
<1> HIDE DEF tried
<1>4. tried.retries # MaxRetries => Coherent(c, tried)
  <2>1. conn[c].handle = None => conn[c].got <= QueueLen
    BY <1>1 DEF Coherent
  <2> QED
    BY <1>1, <1>3, <2>1, SameAnswer
<1>5. CASE tried.retries = MaxRetries /\ CloseConn(c) /\ UNCHANGED shared
  BY <1>1, <1>5, ListNow, CloseKeeps DEF shared
<1>6. CASE tried.retries # MaxRetries /\ Send(c, tried)
  BY <1>1, <1>3, <1>4, <1>6, SendStepKeeps
<1>7. CASE tried.retries # MaxRetries /\ conn' = [conn EXCEPT ![c] = tried] /\ UNCHANGED <<shared, list, pool>>
  <2>1. buffer' \in Clients \cup {None}
    BY <1>7, ListNow DEF shared
  <2> QED
    BY <1>1, <1>3, <1>4, <1>7, <2>1, OneChanges, NothingWritten
<1> QED
  BY <1>2, <1>5, <1>6, <1>7

\* An http_state that did not change: http_sent, data that is dropped.
LEMMA SentKeeps ==
  ASSUME CbInv, NEW c \in Clients, Sent(c), blocks' = blocks
  PROVE  CbInv' /\ Serves
<1> DEFINE s == [conn[c] EXCEPT !.unacked = 0, !.retries = 0]
<1>1. /\ Open(c) /\ conn[c].pcb = "open" /\ conn[c] \in StateType /\ Coherent(c, conn[c]) /\ conn[c].got <= sends[c]
      /\ sends' = sends /\ Send(c, s)
  BY ListNow DEF Sent, Open
<1>2. 0 \in 0 .. (MaxRetries - 1)
  BY Names
<1>3. /\ s \in StateType /\ s.pcb = "open" /\ s.got = conn[c].got /\ s.handle = conn[c].handle
      /\ s.written = conn[c].written /\ s.left = conn[c].left
  BY <1>1, <1>2 DEF StateType
<1> HIDE DEF s
<1>4. Coherent(c, s)
  <2>1. conn[c].handle = None => s.got <= QueueLen
    BY <1>1, <1>3 DEF Coherent
  <2> QED
    BY <1>1, <1>3, <2>1, SameAnswer
<1> QED
  BY <1>1, <1>3, <1>4, SendStepKeeps

\* Data that is dropped.
LEMMA RecvSendingKeeps ==
  ASSUME CbInv, NEW c \in Clients, RecvSending(c), blocks' = blocks
  PROVE  CbInv' /\ Serves
<1> DEFINE got == conn[c].got + 1
           s == [conn[c] EXCEPT !.got = got]
<1>1. /\ conn[c].pcb = "open" /\ conn[c] \in StateType /\ Coherent(c, conn[c]) /\ conn[c].handle # None
      /\ sends' = sends /\ conn' = [conn EXCEPT ![c] = s] /\ UNCHANGED <<shared, list, pool>>
  BY ListNow DEF RecvSending, Open
<1>2. got \in Nat /\ got <= sends[c]
  <2>1. conn[c].got \in Nat /\ sends[c] \in Nat /\ sends[c] > conn[c].got
    BY <1>1, ListNow DEF StateType, RecvSending
  <2> QED
    BY <2>1
<1>3. /\ s \in StateType /\ s.pcb = "open" /\ s.got = got /\ s.handle = conn[c].handle
      /\ s.written = conn[c].written /\ s.left = conn[c].left
  BY <1>1, <1>2 DEF StateType
<1> HIDE DEF s, got
<1>4. Coherent(c, s)
  BY <1>1, <1>3, SameAnswer
<1>5. buffer' \in Clients \cup {None}
  BY <1>1, ListNow DEF shared
<1> QED
  BY <1>1, <1>2, <1>3, <1>4, <1>5, OneChanges, NothingWritten

\* A pcb that lwIP closes, refuses or frees itself.
LEMMA ClosedKeeps ==
  ASSUME CbInv, NEW c \in Clients, conn' = [conn EXCEPT ![c].pcb = "closed"], blocks' = blocks, sends' = sends,
         buffer' = buffer, conn[c].pcb # "new" \/ conn[c].handle = None,
         \/ list' = list /\ pool' = pool /\ conn[c].pcb # "open"
         \/ FreeState(c) /\ conn[c].pcb = "open"
  PROVE  CbInv' /\ Serves
<1> DEFINE s == [conn[c] EXCEPT !.pcb = "closed"]
<1>1. conn[c] \in StateType /\ Coherent(c, conn[c]) /\ conn[c].got <= sends[c] /\ buffer' \in Clients \cup {None}
  BY ListNow
<1>2. s \in StateType /\ s.pcb = "closed" /\ s.got = conn[c].got /\ s.handle = conn[c].handle
      /\ s.written = conn[c].written /\ s.left = conn[c].left
  BY <1>1 DEF StateType
<1>3. conn' = [conn EXCEPT ![c] = s]
  BY ListNow
<1> HIDE DEF s
<1>4. Coherent(c, s)
  BY <1>1, <1>2 DEF Coherent
<1> QED
  BY <1>1, <1>2, <1>3, <1>4, OneChanges, NothingWritten

LEMMA AcceptKeeps ==
  ASSUME CbInv, NEW c \in Clients, CbAccept(c), blocks' = blocks
  PROVE  CbInv' /\ Serves
<1> DEFINE s == [New EXCEPT !.pcb = "open"]
<1>1. /\ conn[c].pcb = "new" /\ UNCHANGED <<shared, sends, blocks>> /\ conn \in [Clients -> StateType]
      /\ conn[c].handle = None /\ conn[c].written = <<>> /\ PhaseSeen[c] = "new"
  BY ListNow DEF CbAccept, Coherent, PhaseSeen, PhaseOf
<1>2. s.pcb = "open" /\ s.written = <<>>
  BY NewStarts
<1> HIDE DEF s
<1>3. ASSUME NEW d \in Clients, conn' = [conn EXCEPT ![d].pcb = "closed", ![c] = s], conn[d].pcb = "open"
      PROVE  Serves
  <2> DEFINE t == [conn[d] EXCEPT !.pcb = "closed"]
  <2>1. t.pcb = "closed" /\ t.written = conn[d].written /\ c # d
    BY <1>1, <1>3 DEF StateType
  <2>2. conn' = [e \in Clients |-> IF e = c THEN s ELSE IF e = d THEN t ELSE conn[e]]
    BY <1>1, <1>3, <2>1
  <2> HIDE DEF t
  <2>3. PhaseSeen' = [PhaseSeen EXCEPT ![d] = "closed", ![c] = "open"] /\ PhaseSeen[d] = "open"
    BY <1>2, <1>3, <2>1, <2>2 DEF PhaseSeen, PhaseOf
  <2>4. OutSeen' = OutSeen
    BY <1>1, <1>2, <2>1, <2>2 DEF OutSeen
  <2> QED
    BY <1>1, <2>3, <2>4, Seen
<1>4. CASE AcceptFree(c)
  <2>1. conn' = [e \in Clients |-> IF e = c THEN s ELSE conn[e]]
    BY <1>1, <1>4 DEF AcceptFree, s
  <2>2. PhaseSeen' = [PhaseSeen EXCEPT ![c] = "closed", ![c] = "open"]
    BY <1>2, <2>1 DEF PhaseSeen, PhaseOf
  <2>3. OutSeen' = OutSeen
    BY <1>1, <1>2, <2>1 DEF OutSeen
  <2>4. Serves
    BY <1>1, <2>2, <2>3, Seen
  <2> QED
    BY <1>1, <1>4, <2>4, AcceptFreeKeeps
<1>5. CASE AcceptKills(c)
  <2>1. PICK d \in Clients : d = Oldest /\ conn[d].pcb = "open"
    BY <1>5, OldestOpen DEF AcceptKills
  <2>2. conn' = [conn EXCEPT ![d].pcb = "closed", ![c] = s]
    BY <1>5, <2>1 DEF AcceptKills, s
  <2>3. Serves
    BY <1>3, <2>1, <2>2
  <2> QED
    BY <1>1, <1>5, <2>3, AcceptKillsKeeps
<1>6. CASE AcceptRefused(c)
  <2>1. conn' = [conn EXCEPT ![c].pcb = "closed"] /\ list' = list /\ pool' = pool /\ buffer' = buffer
        /\ blocks' = blocks /\ sends' = sends /\ conn[c].pcb # "open"
    BY <1>1, <1>6 DEF AcceptRefused, shared
  <2> QED
    BY <1>1, <2>1, ClosedKeeps
<1> QED
  BY <1>4, <1>5, <1>6 DEF CbAccept

\* A segment on its way.
LEMMA ClientSendsKeeps ==
  ASSUME CbInv, NEW c \in Clients, CbClientSends(c), blocks' = blocks
  PROVE  CbInv' /\ Serves
<1>1. /\ conn' = conn /\ list' = list /\ pool' = pool /\ buffer' = buffer
      /\ sends' = [sends EXCEPT ![c] = sends[c] + 1]
  BY DEF CbClientSends, shared
<1>2. sends' \in [Clients -> Nat] /\ \A d \in Clients : sends[d] <= sends'[d]
  BY <1>1, ListNow
<1>3. \A d \in Clients : Coherent(d, conn'[d]) /\ conn'[d].got <= sends'[d]
  <2> TAKE d \in Clients
  <2>1. conn[d].got \in Nat /\ conn[d].got <= sends[d] /\ Coherent(d, conn[d])
    BY ListNow DEF StateType
  <2> QED
    BY <1>1, <1>2, <2>1, ListNow
<1>4. Members(list) = {d \in Clients : conn[d].pcb = "open"}
  BY ListNow DEF Open
<1>5. CbInv'
  BY <1>1, <1>2, <1>3, <1>4, ListNow, Assembled
<1>6. PhaseSeen' = PhaseSeen /\ OutSeen' = OutSeen
  BY <1>1 DEF PhaseSeen, OutSeen
<1> QED
  BY <1>5, <1>6, Seen

\* Every step keeps the invariant and is a step of HttpService, or unseen.
LEMMA Keeps ==
  ASSUME CbInv, [CbNext]_cbVars
  PROVE  CbInv' /\ Serves
<1>1. CASE UNCHANGED cbVars
  <2>1. conn' = conn /\ list' = list /\ pool' = pool /\ blocks' = blocks /\ sends' = sends /\ buffer' = buffer
    BY <1>1 DEF cbVars, cbOwn, shared
  <2>2. Members(list) = {d \in Clients : conn[d].pcb = "open"}
    BY ListNow DEF Open
  <2>3. CbInv'
    BY <2>1, <2>2, ListNow, Assembled
  <2>4. PhaseSeen' = PhaseSeen /\ OutSeen' = OutSeen
    BY <2>1 DEF PhaseSeen, OutSeen
  <2> QED
    BY <2>3, <2>4, Seen
<1>2. ASSUME NEW c \in Clients, blocks' = blocks,
             \/ CbAccept(c) \/ CbClientSends(c) \/ Recv(c) \/ RecvSending(c) \/ RecvClosed(c)
             \/ Sent(c) \/ Poll(c) \/ PollClosing(c) \/ Err(c)
      PROVE  CbInv' /\ Serves
  <2>1. CASE CbAccept(c)
    BY <1>2, <2>1, AcceptKeeps
  <2>2. CASE CbClientSends(c)
    BY <1>2, <2>2, ClientSendsKeeps
  <2>3. CASE Recv(c)
    BY <1>2, <2>3, RecvKeeps
  <2>4. CASE RecvSending(c)
    BY <1>2, <2>4, RecvSendingKeeps
  <2>5. CASE RecvClosed(c)
    <3>1. Open(c) /\ CloseConn(c) /\ sends' = sends /\ buffer' \in Clients \cup {None}
      BY <2>5, ListNow DEF RecvClosed, shared
    <3> QED
      BY <1>2, <3>1, CloseKeeps
  <2>6. CASE Sent(c)
    BY <1>2, <2>6, SentKeeps
  <2>7. CASE Poll(c)
    BY <1>2, <2>7, PollKeeps
  <2>8. CASE PollClosing(c)
    <3>1. /\ conn[c].pcb = "closing" /\ conn' = [conn EXCEPT ![c].pcb = "closed"]
          /\ list' = list /\ pool' = pool /\ sends' = sends /\ buffer' = buffer
      BY <2>8 DEF PollClosing, shared
    <3> QED
      BY <1>2, <3>1, ClosedKeeps
  <2>9. CASE Err(c)
    <3>1. /\ conn[c].pcb = "open" /\ conn' = [conn EXCEPT ![c].pcb = "closed"] /\ FreeState(c)
          /\ sends' = sends /\ buffer' = buffer
      BY <2>9 DEF Err, Open, shared
    <3> QED
      BY <1>2, <3>1, ClosedKeeps
  <2> QED
    BY <1>2, <2>1, <2>2, <2>3, <2>4, <2>5, <2>6, <2>7, <2>8, <2>9
<1> QED
  BY <1>1, <1>2 DEF CbNext

LEMMA Starts == CbInit => CbInv /\ Service!ServiceInit
<1> SUFFICES ASSUME CbInit PROVE CbInv /\ Service!ServiceInit
  OBVIOUS
<1>1. /\ conn = [c \in Clients |-> New] /\ list = <<>> /\ blocks \in Nat /\ pool = blocks
      /\ sends = [c \in Clients |-> 0] /\ buffer \in Clients \cup {None}
  BY Names DEF CbInit, SharedInit
<1>2. New \in StateType /\ New.pcb = "new" /\ New.got = 0 /\ New.written = <<>>
  <2>1. 0 \in 0 .. (MaxRetries - 1) /\ None \in Handles /\ <<>> \in Seq(ChunkType)
    BY Names
  <2> QED
    BY <2>1 DEF New, StateType
<1>3. \A c \in Clients : Coherent(c, New)
  BY Names DEF Coherent, New
<1>4. StatesListed
  <2>1. Len(list) = 0 /\ 1 .. Len(list) = {}
    BY <1>1
  <2> QED
    BY <1>1, <1>2, <2>1 DEF StatesListed, Open
<1>5. CbInv
  BY <1>1, <1>2, <1>3, <1>4 DEF CbInv
<1>6. Outline(<<>>) = <<>>
  BY DEF Outline
<1>7. Service!ServiceInit
  BY <1>1, <1>2, <1>6 DEF Service!ServiceInit
<1> QED
  BY <1>5, <1>7

-----------------------------------------------------------------------------
(* The theorems.                                                            *)

\* The inductive invariant holds: in every state of the web server each http_state is
\* coherent with what its client was sent, and the list, the pool and the callbacks agree
\* on which connections are open.
THEOREM CallbacksInv == CbSpec => []CbInv
<1>1. CbInv /\ [CbNext]_cbVars => CbInv'
  BY Keeps
<1> QED
  BY <1>1, Starts, PTL DEF CbSpec

\* The properties of states that the runs check follow from it.
LEMMA CbSafety == CbInv => CbTypeOK /\ StatesListed /\ PrefixInOrder
<1> SUFFICES ASSUME CbInv PROVE CbTypeOK /\ StatesListed /\ PrefixInOrder
  OBVIOUS
<1>1. StatesListed
  BY DEF CbInv
<1>2. CbTypeOK
  <2>1. pool \in 0 .. blocks
    BY ListNow
  <2>2. ASSUME NEW c \in Clients
        PROVE  /\ conn[c].pcb \in {"new", "open", "closing", "closed"}
               /\ conn[c].got \in 0 .. sends[c] /\ (conn[c].handle = None => conn[c].got <= QueueLen)
               /\ conn[c].retries \in 0 .. MaxRetries - 1
               /\ conn[c].handle \in Handles /\ conn[c].left >= 0 /\ conn[c].unacked >= 0
    <3>1. conn[c] \in StateType /\ Coherent(c, conn[c]) /\ conn[c].got <= sends[c] /\ sends[c] \in Nat
      BY ListNow
    <3> QED
      BY <3>1 DEF StateType, Coherent
  <2> QED
    BY <2>1, <2>2 DEF CbTypeOK
<1>3. PrefixInOrder
  <2> SUFFICES ASSUME NEW c \in Clients, conn[c].handle # None
               PROVE  /\ \A i \in 1 .. Len(conn[c].written) :
                           /\ conn[c].written[i].part = i + Chunks[conn[c].handle] - Length(c, conn[c].handle)
                           /\ conn[c].written[i].file = conn[c].handle
                      /\ Open(c) => Len(conn[c].written) + conn[c].left = Length(c, conn[c].handle)
    BY DEF PrefixInOrder
  <2>1. Coherent(c, conn[c])
    BY ListNow
  <2> QED
    BY <2>1 DEF Coherent, Open
<1> QED
  BY <1>1, <1>2, <1>3

\* Whatever closes, errors, kills and refused writes come: every block of the pool is free
\* or in the list of the open connections, what a client was sent is a prefix of its
\* answer, and the callbacks implement HttpService.
THEOREM ConnectionsRightHolds == CbSpec => ConnectionsRight
<1>1. CbInv /\ [CbNext]_cbVars => [Service!ServiceNext]_(Service!serviceVars)
  BY Keeps DEF Serves
<1>2. CbSpec => [](CbTypeOK /\ StatesListed /\ PrefixInOrder)
  BY CallbacksInv, CbSafety, PTL
<1>3. CbSpec => Service!ServiceSpec
  BY <1>1, CallbacksInv, Starts, PTL DEF CbSpec, Service!ServiceSpec
<1> QED
  BY <1>2, <1>3 DEF ConnectionsRight, ImplementsService

\* http_kill_oldest_connection aborts the connection at the end of the list, never the only
\* one, and the new connection takes its place.
THEOREM OldestKilledHolds == CbSpec => OldestKilled
<1> DEFINE Kills == \A c \in killed' \ killed : list # <<>> /\ c = Oldest /\ Len(list) >= 2 /\ Len(list') = Len(list)
<1>1. ASSUME CbInv, [CbNext]_cbVars PROVE [Kills]_cbOwn
  <2>1. CASE killed' = killed
    BY <2>1
  <2>2. CASE killed' # killed
    <3>1. PICK c \in Clients : CbAccept(c) /\ AcceptKills(c) /\ blocks' = blocks
      BY <1>1, <2>2 DEF CbNext, cbVars, cbOwn, CbAccept, AcceptFree, AcceptRefused, CbClientSends, Recv, RecvSending,
                        RecvClosed, Sent, Poll, PollClosing, Err
    <3>2. Len(list') = Len(list) /\ Len(list) >= 2 /\ killed' = killed \cup {Oldest}
      BY <1>1, <3>1, AcceptKillsKeeps DEF CbAccept, AcceptKills
    <3>3. list # <<>>
      BY <3>2
    <3> QED
      BY <3>2, <3>3
  <2> QED
    BY <2>1, <2>2
<1> QED
  BY <1>1, CallbacksInv, PTL DEF CbSpec, OldestKilled
=============================================================================
