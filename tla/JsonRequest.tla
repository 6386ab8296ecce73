---------------------------- MODULE JsonRequest ----------------------------
(***************************************************************************)
(* get_json_handle: a pack of pairs from the web page is read pair by      *)
(* pair, registers are written on the way, then one answer is put into the *)
(* buffer that all connections share.                                      *)
(*                                                                         *)
(* A pack is a sequence of pairs [param, value]; what the text of a value  *)
(* says (a number, a list, a name) is the value itself.  The answer is a   *)
(* sequence of pieces with their lengths, each ending in a character that  *)
(* json_out_replace_last may overwrite.                                    *)
(***************************************************************************)
EXTENDS Integers, Sequences, FiniteSets

CONSTANTS
  NumRegs,     \* registers have the indices 0 .. NumRegs - 1
  Size,        \* Size[i]: number of elements of register i
  Top,         \* Top[i]: an element of register i holds numbers below Top[i]
  Writable,    \* the registers regs_set accepts
  IndexOf,     \* IndexOf[name]: regs_description_get_index_by_name, -1 if there is none
  Packs,       \* the packs that pages send
  MaxPairs,    \* MAX_JSON_PAIRS
  MaxAsked,    \* MAX_REGS_REQUEST_NUM
  MaxLen,      \* MAX_DINAMIC_JSON_FILE_LEN
  HeaderLen, ItemLen, FullLen, ElementLen,  \* lengths of the pieces of an answer
  MaxPacks     \* bound on the number of requests

VARIABLES
  values,   \* values[i]: the elements of register i
  pack,     \* the last pack
  parsed,   \* what its pairs said
  answer,   \* the answer to it
  packs     \* number of packs so far

vars == <<values, pack, parsed, answer, packs>>

Regs == 0 .. (NumRegs - 1)
Slots == 0 .. (MaxAsked - 1)
Addressing == {"regs", "regs_set", "set_string"}
Requests == Addressing \cup {"os_param", "task_param", "regs_num", "user_task_regs_num"}

-----------------------------------------------------------------------------
(* Reading the pairs                                                        *)

NothingParsed ==
  [request |-> "none", num |-> 0, full |-> FALSE, index |-> [k \in Slots |-> 0],
   mem |-> values, written |-> {}, stop |-> FALSE]

\* json_get_elements and the width of the register: what is left of a number.
Fit(i, n) == n % Top[i]

\* Elements are written one by one while the list has them.
WriteElements(s, list) ==
  LET i == s.index[0] IN
  IF i \in Regs
    THEN [s EXCEPT !.written = @ \cup {i},
                   !.mem = IF i \in Writable
                             THEN [@ EXCEPT ![i] = [j \in 1 .. Size[i] |->
                                                      IF j <= Len(list) THEN Fit(i, list[j]) ELSE @[j]]]
                             ELSE @]
    ELSE s

\* set_string writes the whole register: behind the end of the string it writes zeros.
WriteString(s, list) ==
  WriteElements(s, [j \in 1 .. (IF s.index[0] \in Regs THEN Size[s.index[0]] ELSE 0) |->
                      IF j <= Len(list) THEN list[j] ELSE 0])

\* reg_num is a u8, and at most MaxAsked registers are answered.
ReadNum(s, n) == [s EXCEPT !.num = IF n % 256 > MaxAsked THEN MaxAsked ELSE n % 256]

ReadIndexFirst(s, list, array) ==  \* mutant: the list is not gone through
  IF ~array THEN [s EXCEPT !.index[0] = list[1] % 65536]
  ELSE [s EXCEPT !.index = [k \in Slots |-> IF k < s.num THEN list[1] ELSE s.index[k]]]
\* A list has to be as long as reg_num said before, else the rest of the pack is ignored.
ReadIndex(s, list, array) ==
  IF ~array THEN [s EXCEPT !.index[0] = list[1] % 65536]
  ELSE IF Len(list) # s.num THEN [s EXCEPT !.stop = TRUE]
  ELSE [s EXCEPT !.index = [k \in Slots |-> IF k < s.num THEN list[k + 1] ELSE s.index[k]]]

\* An unknown name stands for the register 0.
ReadName(s, name) == [s EXCEPT !.index[0] = IF IndexOf[name] >= 0 THEN IndexOf[name] ELSE 0]

ReadValueFree(s, list) == WriteElements(s, list)  \* mutant: whatever was requested
ReadValue(s, list) ==
  CASE s.request = "set_string" -> WriteString(s, list)
    [] s.request \in {"regs", "regs_set"} -> WriteElements(s, list)
    [] OTHER -> s

\* One pair, as far as the pairs before it make it count.
ReadPair(s, p) ==
  CASE s.stop -> s
    [] p.param = "request" -> IF p.value \in Requests THEN [s EXCEPT !.request = p.value] ELSE s
    [] p.param = "reg_num" -> ReadNum(s, p.value)
    [] p.param = "get_type" -> [s EXCEPT !.full = IF p.value = "only_value" THEN FALSE
                                                  ELSE (p.value = "full" \/ @)]
    [] p.param = "index" /\ s.request \in Addressing -> ReadIndex(s, p.value, p.array)
    [] p.param = "name" /\ s.request \in {"regs", "regs_set"} -> ReadName(s, p.value)
    [] p.param = "value" -> ReadValue(s, p.value)
    [] OTHER -> s

\* json_parse and the loop over its pairs.
ReadPack(pairs) ==
  LET n == IF Len(pairs) < MaxPairs THEN Len(pairs) ELSE MaxPairs
      after[k \in 0 .. n] == IF k = 0 THEN NothingParsed ELSE ReadPair(after[k - 1], pairs[k])
  IN after[n]

-----------------------------------------------------------------------------
(* Writing the answer                                                       *)

Empty == [len |-> 0, full |-> FALSE, pieces |-> <<>>]

Piece(what, of, end) == [what |-> what, of |-> of, end |-> end]

\* json_out_append: nothing is written any more once a piece did not fit.
OutAppend(out, n, piece) ==
  IF out.full \/ MaxLen - out.len <= 1 \/ n >= MaxLen - out.len THEN [out EXCEPT !.full = TRUE]
  ELSE [out EXCEPT !.len = @ + n, !.pieces = Append(@, piece)]

\* json_out_replace_last
ReplaceLast(out, symbol) ==
  IF out.pieces = <<>> THEN out ELSE [out EXCEPT !.pieces[Len(out.pieces)].end = symbol]

\* The elements of a register, in brackets if there are several.
OutElements(out, i, mem) ==
  LET list == mem[i]
      open == IF Size[i] > 1 THEN OutAppend(out, 1, Piece("open", i, "[")) ELSE out
      upto[j \in 0 .. Size[i]] ==
        IF j = 0 THEN open ELSE OutAppend(upto[j - 1], ElementLen, Piece("element", list[j], ","))
  IN IF Size[i] > 1 THEN OutAppend(ReplaceLast(upto[Size[i]], "]"), 1, Piece("close", i, ","))
                    ELSE upto[Size[i]]

\* A register that does not exist is answered without a value.
OutItem(out, i, full, mem) ==
  LET index == OutAppend(out, ItemLen, Piece("index", i, ","))
      more  == IF full /\ i \in Regs THEN OutAppend(index, FullLen, Piece("more", i, ",")) ELSE index
      value == OutAppend(more, ItemLen, Piece("value", i, ":"))
  IN IF i \in Regs THEN OutElements(value, i, mem) ELSE value

OutBody(out, s) ==
  LET items[k \in 0 .. s.num] ==
        IF k = 0 THEN out ELSE OutItem(items[k - 1], s.index[k - 1], s.full, s.mem)
  IN CASE s.request = "regs" -> items[s.num]
       [] s.request \in {"regs_set", "set_string"} -> OutAppend(out, ItemLen, Piece("ok", 0, ","))
       [] s.request = "regs_num" -> OutAppend(out, ItemLen, Piece("regs_num", NumRegs, ","))
       [] s.request \in {"os_param", "user_task_regs_num"} ->
            OutAppend(out, ItemLen, Piece(s.request, 0, ","))
       [] s.request = "task_param" -> out
       [] OTHER -> OutAppend(out, ItemLen, Piece("error", 0, ","))

Header(out) == OutAppend(out, HeaderLen, Piece("header", 0, "{"))

\* What does not fit is replaced by an error.
Response(s) ==
  LET out == ReplaceLast(OutBody(Header(Empty), s), "}")
  IN IF out.full THEN OutAppend(Header(Empty), ItemLen, Piece("too large", 0, "}")) ELSE out

-----------------------------------------------------------------------------
TypeOK ==
  /\ \A i \in Regs : values[i] \in [1 .. Size[i] -> 0 .. (Top[i] - 1)]
  /\ pack \in Packs \cup {<<>>} /\ packs \in 0 .. MaxPacks
  /\ parsed.num \in 0 .. MaxAsked /\ answer.len \in 0 .. (MaxLen - 1)

Init ==
  /\ values = [i \in Regs |-> [j \in 1 .. Size[i] |-> 0]]
  /\ pack = <<>> /\ packs = 0 /\ parsed = NothingParsed /\ answer = Empty

\* A pack without pairs is not answered.
Handle(pairs) ==
  /\ packs < MaxPacks /\ pairs # <<>>
  /\ parsed' = ReadPack(pairs)
  /\ values' = parsed'.mem
  /\ answer' = Response(parsed')
  /\ pack' = pairs /\ packs' = packs + 1

Next == \E pairs \in Packs : Handle(pairs)
Spec == Init /\ [][Next]_vars

-----------------------------------------------------------------------------
(* Properties                                                               *)

Params == {pack[k].param : k \in 1 .. Len(pack)}
ValueOf(param) == (CHOOSE k \in 1 .. Len(pack) : pack[k].param = param)

Count(what) == Cardinality({j \in 1 .. Len(answer.pieces) : answer.pieces[j].what = what})
\* The number of elements of the first k registers asked for.
ElementsAsked[k \in 0 .. MaxAsked] ==
  IF k = 0 THEN 0
  ELSE ElementsAsked[k - 1] + (IF parsed.index[k - 1] \in Regs THEN Size[parsed.index[k - 1]] ELSE 0)

\* An answer is never cut: it is what was asked for, piece by piece, or one of the
\* errors, whatever the lengths (json_out_append, the overflow at the end).
NeverCut ==
  answer # Empty =>
    /\ answer.pieces[1].what = "header" /\ answer.pieces[Len(answer.pieces)].end = "}"
    /\ \/ Count("too large") = 1
       \/ parsed.request = "regs" =>
            /\ Count("index") = parsed.num /\ Count("value") = parsed.num
            /\ Count("element") = ElementsAsked[parsed.num]

\* The elements that follow the k-th index of the answer.
ElementsAfter(k) ==
  LET idx == {j \in 1 .. Len(answer.pieces) : answer.pieces[j].what = "index"}
      start == CHOOSE j \in idx : Cardinality({i \in idx : i < j}) = k - 1
      next  == {i \in idx : i > start}
      end   == IF next = {} THEN Len(answer.pieces) ELSE (CHOOSE i \in next : \A m \in next : i <= m) - 1
  IN SelectSeq(SubSeq(answer.pieces, start, end), LAMBDA p : p.what = "element")

\* A page that asks for a list of registers gets their values in the order of its
\* list, also when the same request wrote one of them.
ListAnswered ==
  (/\ parsed.request = "regs" /\ ~parsed.stop /\ "index" \in Params
   /\ Count("too large") = 0 /\ pack[ValueOf("index")].array
   /\ Len(pack[ValueOf("index")].value) = parsed.num)
  => \A k \in 1 .. parsed.num :
       LET i == pack[ValueOf("index")].value[k] IN
       i \in Regs => /\ Len(ElementsAfter(k)) = Size[i]
                     /\ \A j \in 1 .. Size[i] : ElementsAfter(k)[j].of = values[i][j]

\* If every register asked for exists and there is at least one, the answer is JSON:
\* its opening brace is there and every value is followed by something.
AnswerIsJson ==
  (/\ answer # Empty /\ parsed.request # "task_param"
   /\ (parsed.request = "regs" => parsed.num > 0 /\ \A k \in 0 .. (parsed.num - 1) : parsed.index[k] \in Regs))
  => /\ answer.pieces[1].end = "{"
     /\ \A j \in 1 .. (Len(answer.pieces) - 1) :
          answer.pieces[j].what = "value" => answer.pieces[j + 1].what \in {"open", "element"}
     /\ answer.pieces[Len(answer.pieces)].what # "value"

\* A pack that does not set registers changes none, and one that does changes at most
\* the one register that its index stood at, never a read only one.
WritesOne ==
  [][ /\ \A i \in Regs : values'[i] # values[i] => i \in Writable /\ i \in parsed'.written
      /\ (parsed'.request \notin Addressing => values' = values)]_vars

============================================================================
