------------------------------ MODULE RegsText ------------------------------
(***************************************************************************)
(* The text of a register: ssi_handler puts its values into a page, each   *)
(* taken by regs_get under regs_access_mutex;                              *)
(* regs_description_get_regs_string_value puts them into a message through *)
(* a buffer of its own and takes them as they are.  Meanwhile a client     *)
(* writes values of two words.                                             *)
(*                                                                         *)
(* And the text that names registers, the parameters of a URI:             *)
(* extract_uri_parameters cuts them apart in place, zeros take the place   *)
(* of separators, and the names and values are pointers into the text.     *)
(* A round of its loop is one step.                                        *)
(***************************************************************************)
EXTENDS Integers, Sequences, SequencesExt

CONSTANTS
  Size,       \* values of the register
  Written,    \* the values a client writes, <<low word, high word>>
  Shown(_),   \* the text snprintf makes of a value
  Names,      \* the texts "name: "
  TempSize,   \* sizeof(temp_buf), 128 in the code
  BufferSizes, \* what is left of the buffer of the caller
  MaxWrites,  \* bound on the writes of the client
  MaxParams,  \* LWIP_HTTPD_MAX_CGI_PARAMETERS
  Texts       \* the texts behind the ? of a URI

Null == <<>>
Values == 1 .. Size

VARIABLES
  value, mutex, writing, writes,        \* the register, regs_access_mutex, the client
  webAt, insert, webRead,               \* ssi_handler: i, pc_insert, history of what it took
  name, room, word, tempAt, temp, tempLen, top, tempRead, answer
    \* the message: the low word taken so far, i, temp_buf, temp_buf_len, the highest offset
    \* written, history of what it took, and what is copied to the caller

textVars == <<value, mutex, writing, writes, webAt, insert, webRead,
              name, room, word, tempAt, temp, tempLen, top, tempRead, answer>>
clientVars == <<value, mutex, writing, writes>>
webVars == <<webAt, insert, webRead>>
messageVars == <<name, room, word, tempAt, temp, tempLen, top, tempRead, answer>>

AtMost(a, b) == IF a < b THEN a ELSE b

\* snprintf(&temp_buf[temp_buf_len], sizeof(temp_buf) - temp_buf_len, ...): the size is unsigned
Fits(text, len) ==
  IF len > TempSize THEN Len(text) ELSE IF len = TempSize THEN 0 ELSE AtMost(Len(text), TempSize - len - 1)
Snprintf(text, len) ==
  /\ temp' = temp \o SubSeq(text, 1, Fits(text, len))
  /\ top' = IF len = TempSize THEN top ELSE len + Fits(text, len)
  /\ tempLen' = len + Len(text)

TextInit ==
  /\ value \in [Values -> Written] /\ mutex = "free" /\ writing = Null /\ writes = 0
  /\ webAt = 1 /\ insert = <<>> /\ webRead = <<>>
  /\ name \in Names /\ room \in BufferSizes /\ word = Null /\ tempAt = 0
  /\ temp = <<>> /\ tempLen = 0 /\ top = 0 /\ tempRead = <<>> /\ answer = <<>>

\* regs_set under the mutex: one word, then the other
WriteLow(i, v) ==
  /\ mutex = "free" /\ writes < MaxWrites
  /\ mutex' = "client" /\ writing' = <<i, v>> /\ writes' = writes + 1
  /\ value' = [value EXCEPT ![i][1] = v[1]]
  /\ UNCHANGED <<webVars, messageVars>>
WriteHigh ==
  /\ writing # Null
  /\ mutex' = "free" /\ writing' = Null
  /\ value' = [value EXCEPT ![writing[1]][2] = writing[2][2]]
  /\ UNCHANGED <<writes, webVars, messageVars>>

\* a round of ssi_handler: regs_get waits for the mutex; a comma between two values
GetUnlocked == TRUE  \* mutant: the mutex is not taken
MayGet == mutex = "free"
SsiValue ==
  /\ webAt <= Size /\ MayGet
  /\ insert' = insert \o Shown(value[webAt]) \o IF webAt < Size THEN <<",">> ELSE <<>>
  /\ webRead' = Append(webRead, value[webAt])
  /\ webAt' = webAt + 1
  /\ UNCHANGED <<clientVars, messageVars>>

\* the name and ": "
TextStart ==
  /\ tempAt = 0 /\ tempAt' = 1
  /\ Snprintf(name, 0)
  /\ UNCHANGED <<clientVars, webVars, name, room, word, tempRead, answer>>

\* a round of the loop: memcpy takes the low word, then the high one; a comma follows each value
GoesOn == tempLen < TempSize - 1
TextLow ==
  /\ tempAt \in Values /\ GoesOn /\ word = Null
  /\ word' = <<value[tempAt][1]>>
  /\ UNCHANGED <<clientVars, webVars, name, room, tempAt, temp, tempLen, top, tempRead, answer>>
TextHigh ==
  /\ word # Null
  /\ LET v == <<word[1], value[tempAt][2]>> IN
     /\ Snprintf(Append(Shown(v), ","), tempLen)
     /\ tempRead' = Append(tempRead, v)
  /\ word' = Null /\ tempAt' = tempAt + 1
  /\ UNCHANGED <<clientVars, webVars, name, room, answer>>

\* all of it or nothing is copied
Capped == AtMost(tempLen, TempSize - 1)
HasRoom == Capped < room
TextEnd ==
  /\ tempAt > 0 /\ word = Null /\ ~(tempAt \in Values /\ GoesOn)
  /\ answer' = IF HasRoom THEN SubSeq(temp, 1, Capped) ELSE <<>>
  /\ tempAt' = -1
  /\ UNCHANGED <<clientVars, webVars, name, room, word, temp, tempLen, top, tempRead>>

TextNext ==
  \/ \E i \in Values, v \in Written : WriteLow(i, v)
  \/ WriteHigh \/ SsiValue \/ TextStart \/ TextLow \/ TextHigh \/ TextEnd

-----------------------------------------------------------------------------
(* extract_uri_parameters                                                   *)

VARIABLES
  asSent,   \* history: the text
  uri,      \* the text, with the zeros
  pair,     \* where the next pair begins, NoPointer for NULL
  names,    \* http_cgi_params
  values    \* http_cgi_param_vals

uriVars == <<asSent, uri, pair, names, values>>

NoPointer == 0
Zero == "0"

\* strchr of the C string that begins at p: zeros end it
ToEnd(p) == {k \in p .. Len(uri) : \A m \in p .. k - 1 : uri[m] # Zero}
Smallest(s) == CHOOSE k \in s : \A m \in s : k <= m
Strchr(p, c) == LET at == {k \in ToEnd(p) : uri[k] = c} IN IF at = {} THEN NoPointer ELSE Smallest(at)

UriInit ==
  /\ asSent \in Texts /\ uri = asSent /\ pair = IF asSent = <<>> THEN NoPointer ELSE 1
  /\ names = <<>> /\ values = <<>>

\* the = of the pair, looked for after the pair has been ended
Equals(end) ==
  LET at == Strchr(pair, "=") IN IF end # NoPointer /\ at > end THEN NoPointer ELSE at

NextPair ==
  LET amp == Strchr(pair, "&")
      blank == Strchr(pair, " ")
      end == IF amp # NoPointer THEN amp ELSE blank
      equals == Equals(end)
  IN /\ pair # NoPointer /\ Len(names) < MaxParams
     /\ names' = Append(names, pair)
     /\ pair' = IF amp = NoPointer THEN NoPointer ELSE amp + 1
     /\ uri' = [k \in DOMAIN uri |-> IF k \in {end, equals} THEN Zero ELSE uri[k]]
     /\ values' = Append(values, IF equals = NoPointer THEN NoPointer ELSE equals + 1)
     /\ UNCHANGED asSent

UriNext == NextPair

(***************************************************************************)
(* Properties.                                                             *)
(***************************************************************************)

TextTypeOK ==
  /\ mutex = "client" <=> writing # Null
  /\ webAt \in 1 .. Size + 1 /\ Len(webRead) = webAt - 1
  /\ tempAt \in -1 .. Size + 1 /\ writes \in 0 .. MaxWrites

(* What a page shows of a register are values a client wrote, never the    *)
(* low word of one write with the high word of another, and the text is    *)
(* theirs with commas between.                                             *)
SsiWhole ==
  /\ \A i \in DOMAIN webRead : webRead[i] \in Written
  /\ webAt > Size => insert = FlattenSeq([i \in Values |-> Shown(webRead[i]) \o IF i < Size THEN <<",">> ELSE <<>>])

(* The message is put together inside temp_buf, its terminating zero       *)
(* included, however long the name and the values are.                     *)
InsideTemp == top < TempSize

(* The caller gets the beginning of the whole text, as much as temp_buf    *)
(* holds, or nothing when that does not fit into what is left of its own   *)
(* buffer.                                                                 *)
TextIsPrefix ==
  tempAt = -1 =>
    LET text == name \o FlattenSeq([i \in DOMAIN tempRead |-> Append(Shown(tempRead[i]), ",")])
        held == SubSeq(text, 1, AtMost(Len(text), TempSize - 1))
    IN /\ answer = IF Len(held) < room THEN held ELSE <<>>
       /\ Len(text) < TempSize - 1 => Len(tempRead) = Size

UriTypeOK == Len(names) = Len(values) /\ Len(names) <= MaxParams /\ pair \in 0 .. Len(uri) + 1

\* the C string at p
CString(p) == SubSeq(uri, p, CHOOSE n \in p - 1 .. Len(uri) :
                 (n = Len(uri) \/ uri[n + 1] = Zero) /\ \A m \in p .. n : uri[m] # Zero)

\* the k-th piece between the & of the text; the last one ends at a blank
Amps == {k \in DOMAIN asSent : asSent[k] = "&"}
Nth(k) == CHOOSE m \in Amps : k = 1 + Len(SelectSeq(SubSeq(asSent, 1, m - 1), LAMBDA c : c = "&"))
Count == Len(SelectSeq(asSent, LAMBDA c : c = "&")) + 1
UpTo(s, c) ==
  IF \E k \in DOMAIN s : s[k] = c
    THEN SubSeq(s, 1, (CHOOSE k \in DOMAIN s : s[k] = c /\ \A m \in 1 .. k - 1 : s[m] # c) - 1) ELSE s
Piece(k) ==
  LET piece == SubSeq(asSent, (IF k = 1 THEN 0 ELSE Nth(k - 1)) + 1, (IF k = Count THEN Len(asSent) + 1 ELSE Nth(k)) - 1)
  IN IF k = Count THEN UpTo(piece, " ") ELSE piece

(* When the loop ends the names and values are those of the pieces between *)
(* the separators, for the parameters the table has room for: a name ends  *)
(* before the first = of its own piece, a piece without one has no value,  *)
(* and cutting one pair never reaches into the next.                       *)
ParamsSplit ==
  pair = NoPointer \/ Len(names) = MaxParams =>
    /\ Len(names) = IF asSent = <<>> THEN 0 ELSE IF Count < MaxParams THEN Count ELSE MaxParams
    /\ \A k \in DOMAIN names :
         LET itsName == UpTo(Piece(k), "=") IN
         /\ CString(names[k]) = itsName
         /\ IF itsName = Piece(k) THEN values[k] = NoPointer
            ELSE CString(values[k]) = SubSeq(Piece(k), Len(itsName) + 2, Len(Piece(k)))
=============================================================================
