-------------------------- MODULE MCModbusRequest --------------------------
(* Four registers with limits, text, a read only one and a read only       *)
(* credential that may be written, and nine coils.                         *)
EXTENDS ModbusRequest

MCStart == [a \in Addr |-> CASE a < 4 -> 0 [] a \in {6, 7} -> 6 [] a > 7 -> 8 [] OTHER -> a]
MCSize == [a \in Addr |-> CASE a < 4 -> 4 [] a > 5 -> 2 [] OTHER -> 1]
MCLowest == [a \in Addr |-> IF a < 4 THEN 2 ELSE 0]
MCHighest == [a \in Addr |-> CASE a < 4 -> 12 [] a \in Text -> 1 [] OTHER -> 3]
MCMemory == {[a \in Addr |-> IF a \in {1, 4, 5} THEN 1 ELSE 0]}

R(addr0, bytes, fn, mdb) ==
  [name |-> "r", guid |-> addr0, addr |-> addr0, bytes |-> bytes, fn |-> fn, mdb |-> mdb]
MCDesc == [t \in Tables |->
  IF t = "global" THEN <<R(0, 4, 3, 0), R(4, 2, 3, 2), R(6, 2, 3, 3), R(8, 2, 3, 4)>>
                  ELSE <<R(20, 6, 1, 0), R(26, 12, 1, 3)>>]
MCOrder == <<"global", "coils">>

P(fn, start, num, bytes, sent) ==
  [fn |-> fn, start |-> start, num |-> num, bytes |-> bytes, data |-> sent, whole |-> TRUE, mine |-> TRUE]
Alternate(n) == [i \in 1 .. n |-> i % 2]
Reads  == {P(3, m, n, 0, <<>>) : m \in {0, 2, 4}, n \in {1, 2}}
            \cup {P(4, 0, 1, 0, <<>>), P(3, 0, 0, 0, <<>>), P(3, 9, 6, 0, <<>>), P(3, 9, 1, 0, <<>>)}
Single == {P(6, m, 1, 2, <<b, 1>>) : m \in {0, 1, 2, 3, 4, 9}, b \in Byte}
Blocks == {P(16, m, n, 2 * n, [i \in 1 .. (2 * n) |-> IF i % 2 = 1 THEN b ELSE 1]) :
             m \in {0, 4}, n \in {1, 2}, b \in Byte}
            \cup {P(16, 2, 2, 4, <<1, 1, 1, 1>>), P(16, 2, 1, 2, <<1, 0>>), P(16, 0, 2, 2, <<1, 0>>), P(16, 0, 0, 0, <<>>)}
Coils  == {P(1, 0, 9, 0, <<>>), P(1, 2, 3, 0, <<>>), P(1, 8, 2, 0, <<>>), P(1, 0, 0, 0, <<>>),
           P(1, 1, 0, 0, <<>>), P(2, 0, 1, 0, <<>>),
           P(5, 3, 1, 0, <<1>>), P(5, 0, 1, 0, <<2>>), P(5, 9, 1, 0, <<1>>),
           P(15, 0, 9, 2, Alternate(9)), P(15, 2, 2, 1, <<1, 1>>), P(15, 8, 2, 1, <<1, 1>>),
           P(15, 0, 9, 1, Alternate(9)), P(15, 1, 0, 0, <<>>)}
Broken == {[P(3, 0, 1, 0, <<>>) EXCEPT !.whole = FALSE], [P(6, 0, 1, 2, <<1, 1>>) EXCEPT !.mine = FALSE],
           P(65, 0, 1, 0, <<>>)}
MCPdus == Reads \cup Single \cup Blocks \cup Coils \cup Broken

Web(a, chunks) == [addr |-> a, chunks |-> chunks, stops |-> FALSE]
MCRequests ==
  {Web(0, << <<b, c, c, b>> >>) : b \in Byte, c \in Byte} \cup {Web(4, << <<b>>, <<1>> >>) : b \in Byte}
    \cup {WriteTo(a, p, junk) : a \in WordAddrs, p \in {q \in MCPdus : q.fn = 6 \/ (q.fn = 16 /\ RegsFit(q))}, junk \in Byte}
============================================================================
