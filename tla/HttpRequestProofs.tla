------------------------- MODULE HttpRequestProofs --------------------------
(***************************************************************************)
(* What the proofs for the two builds of the web server use of the         *)
(* requests and their answers.                                             *)
(***************************************************************************)
EXTENDS HttpRequest, WellFoundedInduction, TLAPS

\* A set of numbers has a least one.
LEMMA Least ==
  ASSUME NEW S \in SUBSET Nat, S # {}
  PROVE  \E k \in S : \A m \in S : k <= m
<1> DEFINE R == OpToRel(<, Nat)
<1>1. IsWellFoundedOn(R, Nat)
  BY NatLessThanWellFounded
<1>2. \A k, m \in Nat : m < k => <<m, k>> \in R
  BY DEF OpToRel
<1> HIDE DEF R
<1>3. PICK k \in S : \A m \in S : ~ (<<m, k>> \in R)
  BY <1>1, WFMin
<1>4. ASSUME NEW m \in S PROVE k <= m
  <2>1. ~ (m < k)
    BY <1>2, <1>3
  <2> QED
    BY <2>1
<1> QED
  BY <1>4

\* fs_open finds a file of the file system or none.
LEMMA FirstOpens ==
  ASSUME NEW names, Len(names) \in Nat
  PROVE  FirstOpen(names) \in Files \cup {None}
<1> DEFINE found == {k \in 1 .. Len(names) : names[k] \in Files}
<1>1. CASE found = {}
  BY <1>1 DEF FirstOpen
<1>2. CASE found # {}
  <2>1. found \in SUBSET Nat
    OBVIOUS
  <2>2. \E k \in found : \A m \in found : k <= m
    BY <1>2, <2>1, Least
  <2> QED
    BY <1>2, <2>2 DEF FirstOpen
<1> QED
  BY <1>1, <1>2

\* The files of an answer; a request that is not whole leaves room in the queue.
LEMMA Parses ==
  ASSUME NEW c \in Clients, NEW n \in Nat
  PROVE  /\ Parse(Req[c], n) \in Handles \cup {"more", "bad"}
         /\ Parse(Req[c], n) = "more" => n <= QueueLen
<1>1. \A p \in {Req[c].path, PostBegin} : FirstOpen(DefaultsOf[p]) \in Files \cup {None}
  BY Answering, FirstOpens
<1>2. NotFound \in Files \cup {None}
  BY FirstOpens DEF NotFound
<1>3. \A p \in {Req[c].path, PostBegin} : FindFile(Req[c], p) \in Handles
  BY <1>1, <1>2 DEF FindFile, Handles
<1>4. TooLong(n) \in {"more", "bad"} /\ (TooLong(n) = "more" => n <= QueueLen)
  BY DEF TooLong
<1>5. "more" \notin Handles /\ "bad" \notin Handles /\ NotFound \in Handles /\ JsonFile \in Handles
  BY <1>2, Answering DEF Handles
<1>6. PostRequest(Req[c], n) \in Handles \cup {"more", "bad"}
      /\ (PostRequest(Req[c], n) = "more" => n <= QueueLen)
  BY <1>3, <1>4, <1>5 DEF PostRequest
<1> QED
  BY <1>3, <1>4, <1>5, <1>6 DEF Parse

\* The length of an answer.
LEMMA Lengths ==
  ASSUME NEW c \in Clients
  PROVE  /\ \A f \in Handles : Length(c, f) \in Nat
         /\ \A f \in Handles \ {None} : Chunks[f] \in Nat /\ Length(c, f) <= Chunks[f]
         /\ Length(c, None) = 0 /\ Length(c, JsonFile) > 0
  BY Answering DEF Length, Handles

\* The first n chunks of an answer.
LEMMA Beginnings ==
  ASSUME NEW c \in Clients, NEW f \in Handles, NEW n \in 0 .. Length(c, f)
  PROVE  /\ SubSeq(Whole(c, f), 1, n) \in Seq(ChunkType) /\ Len(SubSeq(Whole(c, f), 1, n)) = n
         /\ \A i \in 1 .. n : SubSeq(Whole(c, f), 1, n)[i] = Whole(c, f)[i] /\ Whole(c, f)[i].file = f
         /\ Whole(c, f) = SubSeq(Whole(c, f), 1, Length(c, f)) /\ Len(Whole(c, f)) = Length(c, f)
<1>1. Length(c, f) \in Nat /\ (f # None => Chunks[f] \in Nat /\ Length(c, f) <= Chunks[f])
      /\ (f = None => Length(c, f) = 0)
  BY Lengths
<1>2. \A i \in 1 .. Length(c, f) :
        Whole(c, f)[i] = [file |-> f, part |-> i + Chunks[f] - Length(c, f), for |-> IF f = JsonFile THEN c ELSE None]
  BY DEF Whole
<1>3. ASSUME NEW i \in 1 .. Length(c, f) PROVE Whole(c, f)[i] \in ChunkType /\ Whole(c, f)[i].file = f
  <2>1. f # None
    BY <1>1
  <2>2. i + Chunks[f] - Length(c, f) \in Nat
    BY <1>1, <2>1
  <2>3. (IF f = JsonFile THEN c ELSE None) \in Clients \cup {None}
    OBVIOUS
  <2>4. \A p, o : p \in Nat /\ o \in Clients \cup {None} => [file |-> f, part |-> p, for |-> o] \in ChunkType
    BY DEF ChunkType
  <2>5. Whole(c, f)[i] \in ChunkType
    BY <1>2, <2>2, <2>3, <2>4, Zenon
  <2>6. Whole(c, f)[i] = [file |-> f, part |-> i + Chunks[f] - Length(c, f),
                          for |-> IF f = JsonFile THEN c ELSE None]
    BY <1>2
  <2>7. Whole(c, f)[i].file = f
    BY <2>6
  <2> QED
    BY <2>5, <2>7
<1>4. Whole(c, f) \in Seq(ChunkType) /\ Len(Whole(c, f)) = Length(c, f)
  BY <1>1, <1>3 DEF Whole
<1> QED
  BY <1>1, <1>3, <1>4

\* The next chunk of an answer that is sent in order.
LEMMA Continues ==
  ASSUME NEW c \in Clients, NEW f \in Handles, NEW l \in 1 .. Length(c, f), NEW owner,
         f = JsonFile => owner = c
  PROVE  /\ Append(SubSeq(Whole(c, f), 1, Length(c, f) - l), Chunk(f, l, owner)) =
              SubSeq(Whole(c, f), 1, Length(c, f) - (l - 1))
         /\ Chunk(f, l, owner) \in ChunkType /\ f # None
<1> DEFINE n == Length(c, f) - l
           W == Whole(c, f)
<1>1. Length(c, f) \in Nat /\ f # None /\ Chunks[f] \in Nat /\ Length(c, f) <= Chunks[f]
  BY Lengths
<1>2. n \in 0 .. Length(c, f) /\ n + 1 \in 1 .. Length(c, f) /\ n + 1 = Length(c, f) - (l - 1)
  BY <1>1
<1>3. W[n + 1] = Chunk(f, l, owner)
  <2>1. (n + 1) + Chunks[f] - Length(c, f) = Chunks[f] - l + 1
    BY <1>1, <1>2
  <2> QED
    BY <1>2, <2>1 DEF Whole, Chunk
<1>4. W \in Seq(ChunkType) /\ Len(W) = Length(c, f)
  <2>1. Length(c, f) \in 0 .. Length(c, f)
    BY <1>1
  <2> QED
    BY <2>1, Beginnings
<1>5. W[n + 1] \in ChunkType
  BY <1>2, <1>4
<1>6. Append(SubSeq(W, 1, n), W[n + 1]) = SubSeq(W, 1, n + 1)
  BY <1>1, <1>2, <1>4
<1> QED
  BY <1>1, <1>2, <1>3, <1>5, <1>6

\* The outline of a beginning is the beginning of the outline.
LEMMA OutlineBegins ==
  ASSUME NEW c \in Clients, NEW f \in Files \cup {JsonFile}, NEW n \in 0 .. Length(c, f)
  PROVE  /\ Outline(SubSeq(Whole(c, f), 1, n)) = SubSeq(Outline(Whole(c, f)), 1, n)
         /\ Len(Outline(Whole(c, f))) = Length(c, f) /\ Len(SubSeq(Outline(Whole(c, f)), 1, n)) = n
         /\ SubSeq(SubSeq(Outline(Whole(c, f)), 1, n), 1, n) = SubSeq(Outline(Whole(c, f)), 1, n)
<1> DEFINE W == Whole(c, f)
           O == [i \in 1 .. Length(c, f) |-> [file |-> W[i].file, part |-> W[i].part]]
<1>1. Length(c, f) \in Nat /\ f \in Handles
  BY Lengths DEF Handles
<1>2. W \in Seq(ChunkType) /\ Len(W) = Length(c, f)
  <2>1. Length(c, f) \in 0 .. Length(c, f)
    BY <1>1
  <2> QED
    BY <1>1, <2>1, Beginnings
<1>3. Outline(W) = O
  BY <1>1, <1>2 DEF Outline
<1>4. SubSeq(W, 1, n) = [i \in 1 .. n |-> W[i]]
  BY <1>1, <1>2
<1>5. Outline(SubSeq(W, 1, n)) = [i \in 1 .. n |-> [file |-> W[i].file, part |-> W[i].part]]
  BY <1>4 DEF Outline
<1>6. Len(O) = Length(c, f) /\ SubSeq(O, 1, n) = [i \in 1 .. n |-> [file |-> W[i].file, part |-> W[i].part]]
      /\ Len(SubSeq(O, 1, n)) = n /\ SubSeq(SubSeq(O, 1, n), 1, n) = SubSeq(O, 1, n)
  <2> DEFINE X == [i \in 1 .. n |-> [file |-> W[i].file, part |-> W[i].part]]
  <2>1. SubSeq(O, 1, n) = [i \in 1 .. n |-> O[i]] /\ Len(O) = Length(c, f)
    BY <1>1
  <2>2. SubSeq(O, 1, n) = X
    BY <1>1, <2>1
  <2>3. Len(X) = n /\ SubSeq(X, 1, n) = X
    <3> HIDE DEF W
    <3> QED
      BY <1>1
  <2> QED
    BY <2>1, <2>2, <2>3
<1> QED
  BY <1>3, <1>5, <1>6, Zenon
=============================================================================
