------------------------------- MODULE Morse -------------------------------
(***************************************************************************)
(* morse_task: the button is keyed, a walk over the tree of morse_node     *)
(* finds the letter, and handle_next_letter puts it into morse_message or  *)
(* obeys it as a command.  In the build with a display common_duty_task    *)
(* draws a cursor, which comes and goes, into morse_message at             *)
(* morse_message_position; without a display DrawCursor is never taken.    *)
(*                                                                         *)
(* A press longer than DASH_LENGTH is a dah; a pause longer than           *)
(* SPACE_LETTERS ends the letter.  morse_message and morse_send are        *)
(* neighbours in a packed struct: cell RegLen of the one is cell 0 of the  *)
(* other.                                                                  *)
(***************************************************************************)
EXTENDS Integers, Sequences

CONSTANTS
  RegLen,      \* bytes of morse_message and of morse_send
  MessageLen,  \* the register morse_message_len
  Again,       \* bound: the nodes later letters stop at and others follow,
  Later,       \* and the ones they lead through; the first letter is any
  MaxLetters   \* bound on letters

VARIABLES
  active,    \* CS0_TASK_ACTIVE_MORSE
  node,      \* where the walk is; "null" is NULL, "idle" outside of a letter; at the end
             \* of handle_next_letter "copied" after the broadcast's copy and "done"
  keyed,     \* history: the signals of this letter, 0 a dit and 1 a dah
  cells,     \* morse_message followed by morse_send
  pointer,   \* log_pointer
  position,  \* morse_message_position
  blink,     \* the lowest bit of counter in display_morse
  light,     \* NOKIA_PIN_BL
  told,      \* SLEEP_TASK_DEEP_SLEEP was sent to sleep_control_task
  count,     \* morse_counter
  letters,   \* letters so far
  typed,     \* history: the bytes keyed since the last broadcast
  whole,     \* history: they fit, with the cursor that was drawn, and none was drawn into a letter
  sent       \* history: what was keyed before the last broadcast, if it was whole

taskVars == <<active, node, keyed, pointer, position, light, told, count, letters, typed, sent>>
morseVars == <<taskVars, cells, blink, whole>>

Blank == "0"

\* the children of the nodes that have them
Dit == [root |-> "E", E |-> "I", I |-> "S", S |-> "H", H |-> "d5", d5 |-> "bl_enable",
        bl_enable |-> "sleep", U |-> "F", Ut |-> "Dt", Dt |-> "question", A |-> "R", R |-> "L",
        Et |-> "quotes", At |-> "plus", W |-> "P", Ab |-> "dog", J |-> "Jt", d1 |-> "quote", T |-> "N",
        N |-> "D", D |-> "B", B |-> "d6", X |-> "slash", K |-> "C", new_line |-> "semicolon",
        Y |-> "open_bracket", M |-> "G", G |-> "Z", Z |-> "d7", O |-> "Ot", Ot |-> "d8", d8 |-> "colon",
        chapter |-> "d9"]

Dah == [root |-> "T", E |-> "A", I |-> "U", S |-> "V", H |-> "d4", d5 |-> "bl_disable", V |-> "d3",
        U |-> "Ut", Ut |-> "d2", Dt |-> "underscore", A |-> "W", R |-> "At", L |-> "Et", plus |-> "dot",
        W |-> "J", P |-> "Ab", J |-> "d1", T |-> "M", N |-> "K", D |-> "X", B |-> "equal", d6 |-> "minus",
        X |-> "space", K |-> "Y", C |-> "new_line", new_line |-> "exclamation",
        open_bracket |-> "close_bracket", M |-> "O", G |-> "Q", Z |-> "Zt", Zt |-> "comma",
        O |-> "chapter", Ot |-> "remove_last", chapter |-> "d0", d0 |-> "broadcast"]

Commands == {"bl_enable", "bl_disable", "sleep", "remove_last", "broadcast"}

\* bytes of .letter
Width(n) ==
  IF n = "chapter" THEN 3
  ELSE IF n \in {"Ut", "Dt", "At", "Ab", "Jt", "Zt", "Ot", "quotes"} THEN 2 ELSE 1

Child(n, long) ==
  LET t == IF long THEN Dah ELSE Dit IN IF n \in DOMAIN t THEN t[n] ELSE "null"

MorseInit ==
  /\ active = FALSE /\ node = "idle" /\ keyed = <<>> /\ cells = [i \in 0 .. 2 * RegLen - 1 |-> Blank]
  /\ pointer = 0 /\ position = 0 /\ blink = FALSE /\ light = FALSE /\ told = FALSE /\ count = 0 /\ letters = 0
  /\ typed = <<>> /\ whole = TRUE /\ sent = <<>>

\* morse_init: the table is registered, its saved registers are restored
Start ==
  /\ ~active /\ letters = 0 /\ active' = TRUE
  /\ UNCHANGED <<node, keyed, pointer, position, light, told, count, letters, typed, sent, cells, blink, whole>>

\* STOP_CHILD_PROCCES, seen between two letters
Stop ==
  /\ active /\ node = "idle" /\ letters = MaxLetters /\ active' = FALSE
  /\ UNCHANGED <<node, keyed, pointer, position, light, told, count, letters, typed, sent, cells, blink, whole>>

\* a press and the pause after it: the walk goes one node down
Signal(long) ==
  /\ active /\ letters < MaxLetters /\ node \notin {"null", "copied", "done"}
  /\ node' = Child(IF node = "idle" THEN "root" ELSE node, long)
  /\ letters > 0 => node' \in Later /\ \A i \in DOMAIN typed : typed[i] \in Again
  /\ keyed' = Append(keyed, IF long THEN 1 ELSE 0)
  /\ UNCHANGED <<active, pointer, position, light, told, count, letters, typed, sent, cells, blink, whole>>

\* fill_morse_log_buffer: the index is bounded by morse_message_len after the byte is written
Advance(p) == IF p < MessageLen THEN p + 1 ELSE 0

RECURSIVE Fill(_, _, _, _)
Fill(c, p, byte, n) ==
  IF n = 0 THEN <<c, p>> ELSE Fill([c EXCEPT ![p] = byte], Advance(p), byte, n - 1)

AddLetter ==
  LET f == Fill(cells, pointer, node, Width(node))
      t == typed \o [i \in 1 .. Width(node) |-> node]
  IN /\ node \notin Commands \cup {"idle", "copied", "done"} /\ node' = "done"
     /\ cells' = f[1] /\ pointer' = f[2] /\ typed' = t /\ whole' = (whole /\ Len(t) <= MessageLen)
     /\ UNCHANGED <<light, told, sent>>

RemoveLast ==
  LET p == IF pointer > 0 THEN pointer - 1 ELSE 0
  IN /\ node = "remove_last" /\ node' = "done"
     /\ pointer' = p /\ cells' = [cells EXCEPT ![p] = Blank]
     /\ typed' = SubSeq(typed, 1, Len(typed) - 1)
     /\ UNCHANGED <<light, told, whole, sent>>

\* the copy into morse_send under regs_access_mutex; the message is cleared after it
Unknown == <<"unknown">>
Broadcast ==
  /\ node = "broadcast" /\ node' = "copied" /\ pointer' = 0
  /\ cells' = [i \in DOMAIN cells |-> IF i \in RegLen .. RegLen + MessageLen - 1 THEN cells[i - RegLen] ELSE cells[i]]
  /\ sent' = (IF whole THEN typed ELSE Unknown) /\ typed' = <<>> /\ whole' = TRUE
  /\ UNCHANGED <<light, told>>

Light ==
  /\ node \in {"bl_enable", "bl_disable"} /\ node' = "done" /\ light' = (node = "bl_enable")
  /\ UNCHANGED <<cells, pointer, told, typed, whole, sent>>

Sleep ==
  /\ node = "sleep" /\ node' = "done" /\ told' = TRUE
  /\ UNCHANGED <<cells, pointer, light, typed, whole, sent>>

Nothing == node = "null" /\ node' = "done" /\ UNCHANGED <<cells, pointer, light, told, typed, whole, sent>>

\* the pause that ends the letter, or the walk left the tree: handle_next_letter
HandleNextLetter ==
  /\ node # "idle" /\ (letters > 0 => node \in Again)
  /\ IF node = "null" THEN Nothing ELSE AddLetter \/ RemoveLast \/ Broadcast \/ Light \/ Sleep
  /\ keyed' = <<>> /\ letters' = letters + 1
  /\ UNCHANGED <<active, position, blink, count>>

\* the broadcast command clears the message and, under the mutex, counts
Clear ==
  /\ node = "copied" /\ node' = "done" /\ count' = count + 1
  /\ cells' = [i \in DOMAIN cells |-> IF i < MessageLen THEN Blank ELSE cells[i]]
  /\ UNCHANGED <<active, keyed, pointer, position, blink, light, told, letters, typed, whole, sent>>

\* handle_next_letter ends with the position
ShowPosition ==
  /\ node = "done" /\ node' = "idle" /\ position' = pointer
  /\ UNCHANGED <<active, keyed, cells, pointer, blink, light, told, count, letters, typed, whole, sent>>

\* nothing was keyed for TIME_BEFORE_SLEEP_MS
Idle ==
  /\ active /\ node = "idle" /\ told' = TRUE
  /\ UNCHANGED <<node, active, keyed, pointer, position, light, count, letters, typed, sent, cells, blink, whole>>

\* display_morse, once a second and at any point of morse_task, which writes without the mutex
Cursor == "_"
DrawCursor ==
  /\ active /\ cells' = [cells EXCEPT ![position] = IF blink THEN Blank ELSE Cursor] /\ blink' = ~blink
  /\ whole' = (whole /\ position < MessageLen /\ position >= Len(typed))
  /\ UNCHANGED taskVars

MorseNext ==
  \/ Start \/ Stop \/ (\E long \in BOOLEAN : Signal(long)) \/ HandleNextLetter \/ Clear \/ ShowPosition \/ Idle
  \/ DrawCursor

(***************************************************************************)
(* Properties.                                                             *)
(***************************************************************************)

MorseTypeOK ==
  /\ {pointer, position} \subseteq 0 .. MessageLen /\ DOMAIN cells = 0 .. 2 * RegLen - 1
  /\ count \in 0 .. MaxLetters /\ letters \in 0 .. MaxLetters

\* international Morse code
Standard ==
  [A |-> <<0, 1>>, B |-> <<1, 0, 0, 0>>, C |-> <<1, 0, 1, 0>>, D |-> <<1, 0, 0>>, E |-> <<0>>,
   F |-> <<0, 0, 1, 0>>, G |-> <<1, 1, 0>>, H |-> <<0, 0, 0, 0>>, I |-> <<0, 0>>, J |-> <<0, 1, 1, 1>>,
   K |-> <<1, 0, 1>>, L |-> <<0, 1, 0, 0>>, M |-> <<1, 1>>, N |-> <<1, 0>>, O |-> <<1, 1, 1>>,
   P |-> <<0, 1, 1, 0>>, Q |-> <<1, 1, 0, 1>>, R |-> <<0, 1, 0>>, S |-> <<0, 0, 0>>, T |-> <<1>>,
   U |-> <<0, 0, 1>>, V |-> <<0, 0, 0, 1>>, W |-> <<0, 1, 1>>, X |-> <<1, 0, 0, 1>>,
   Y |-> <<1, 0, 1, 1>>, Z |-> <<1, 1, 0, 0>>]
\* the digits: d dits followed by dahs up to five, from 6 on the other way round
Digits == <<"d1", "d2", "d3", "d4", "d5", "d6", "d7", "d8", "d9", "d0">>
DigitCode(d) == [i \in 1 .. 5 |-> IF d <= 5 THEN (IF i <= d THEN 0 ELSE 1) ELSE (IF i <= d - 5 THEN 1 ELSE 0)]

(* The tree agrees with the international code: the walk stands at a       *)
(* letter or a digit exactly when its code was keyed.                      *)
KeyedIsStandard ==
  /\ \A l \in DOMAIN Standard : node = l <=> keyed = Standard[l]
  /\ \A d \in 1 .. 10 : node = Digits[d] <=> keyed = DigitCode(d)

(* morse_send is what was keyed: as long as the text, with the cursor,     *)
(* never was longer than morse_message_len and no cursor was drawn between *)
(* a letter and its new position, the broadcast command leaves exactly the *)
(* keyed bytes, less the removed ones, in morse_send, and after them only  *)
(* cursors, whatever the former texts were; it stays so while the next     *)
(* text is keyed, until that one is broadcast.                             *)
SentAsKeyed ==
  whole /\ sent # Unknown =>
    LET ends == {i \in 0 .. RegLen : i = RegLen \/ cells[RegLen + i] = Blank}
        n == CHOOSE i \in ends : \A j \in ends : i <= j
    IN /\ n >= Len(sent)
       /\ \A i \in 0 .. n - 1 : cells[RegLen + i] = IF i < Len(sent) THEN sent[i + 1] ELSE Cursor
============================================================================
