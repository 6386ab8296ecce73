------------------------------ MODULE Display -------------------------------
(***************************************************************************)
(* The display in the build that shows the Morse lines: display_morse of   *)
(* common_duty_task draws, the driver u8g2_esp32_hal sends the buffer over *)
(* I2C, as a list of commands that is carried out at its end, or over SPI, *)
(* byte by byte.  The graphics library is seen as the calls it makes: one  *)
(* transfer for each row.                                                  *)
(*                                                                         *)
(* The lines are shared with udp_broadcast_server_recv, which writes them  *)
(* under regs_access_mutex, and the message with morse_task, which writes  *)
(* it without.  A text has two cells.                                      *)
(***************************************************************************)
EXTENDS Integers, Sequences

CONSTANTS
  Buses,     \* {"i2c", "spi"}: which of NOKIA_5110 is built
  LinesNum,  \* DISPLAY_LINES_NUM
  Letters,   \* texts of other devices, each the same letter twice
  MaxKeys    \* bound on letters, broadcasts and received texts

VARIABLES
  bus,       \* the constant bus of the build
  pins,      \* pins of the bus, of dc, cs and reset that are set up
  draw,      \* "off", "wait", "own", "lines", "send", "end", "crashed"
  row,       \* the line or the row that is next
  buffer,    \* the buffer of u8g2
  link,      \* handle_i2c: the bytes so far, NoLink before the first
  links,     \* command lists on the heap
  selected,  \* cs is low
  panel,     \* what is seen
  line,      \* morse_line_1 ...
  mutexAt,   \* regs_access_mutex: Free, or the line a text is being received for
  message,   \* morse_message
  position,  \* morse_message_position
  logAt,     \* log_pointer of morse_task
  own,       \* morse_counter modulo the lines
  blink, keys

displayVars == <<bus, pins, draw, row, buffer, link, links, selected, panel, line, mutexAt,
                 message, position, logAt, own, blink, keys>>

NoLink == <<"none">>
Free == -1
Blank == "blank"
Empty == <<Blank, Blank>>
Rows == 0 .. LinesNum - 1
shown == <<buffer, link, links, selected, panel>>
texts == <<line, message, position, logAt, own, blink, keys>>

DisplayInit ==
  /\ bus \in Buses /\ pins = {} /\ draw = "off" /\ row = 0
  /\ buffer = [r \in Rows |-> Empty] /\ panel = buffer /\ line = buffer
  /\ link = NoLink /\ links = 0 /\ selected = FALSE /\ mutexAt = Free
  /\ message = <<Blank, Blank, Blank>> /\ position = 0 /\ logAt = 0 /\ own = 0 /\ blink = FALSE /\ keys = 0

\* init_display: u8g2_esp32_hal_init with the pins of the bus, then the library asks for
\* GPIO_AND_DELAY_INIT, which sets up those of dc, cs and reset that exist, and BYTE_INIT
BusPins == IF bus = "i2c" THEN {"sda", "scl"} ELSE {"mosi", "clk", "reset", "dc", "cs"}
InitDisplay ==
  /\ draw = "off" /\ draw' = "wait" /\ pins' = BusPins
  /\ UNCHANGED <<bus, row, shown, mutexAt, texts>>

\* display_update clears the buffer, display_morse starts
StartDraw ==
  /\ draw = "wait" /\ draw' = "own" /\ row' = 0 /\ buffer' = [r \in Rows |-> Empty]
  /\ UNCHANGED <<bus, pins, link, links, selected, panel, mutexAt, texts>>

\* ... puts the cursor into the message and the message into its line, under the mutex
OwnLine ==
  LET m == [message EXCEPT ![position + 1] = IF blink THEN Blank ELSE "_"] IN
  /\ draw = "own" /\ mutexAt = Free /\ draw' = "lines"
  /\ message' = m /\ blink' = ~blink
  /\ line' = [line EXCEPT ![own] = <<m[1], IF m[1] = Blank THEN Blank ELSE m[2]>>]
  /\ UNCHANGED <<bus, pins, row, shown, mutexAt, position, logAt, own, keys>>

\* ... and draws each line, copied under the mutex
LineFree == mutexAt = Free
DrawLine ==
  /\ draw = "lines" /\ LineFree /\ buffer' = [buffer EXCEPT ![row] = line[row]]
  /\ row' = (row + 1) % LinesNum /\ draw' = IF row + 1 = LinesNum THEN "send" ELSE "lines"
  /\ UNCHANGED <<bus, pins, link, links, selected, panel, mutexAt, texts>>

\* START_TRANSFER: a new command list with the address, or the chip select
StartTransfer ==
  /\ draw = "send" /\ link = NoLink /\ ~selected
  /\ IF bus = "i2c" THEN link' = <<>> /\ links' = links + 1 /\ UNCHANGED selected
     ELSE "cs" \in pins /\ selected' = TRUE /\ UNCHANGED <<link, links>>
  /\ UNCHANGED <<bus, pins, draw, row, buffer, panel, mutexAt, texts>>

\* BYTE_SEND of the cells of the row: appended to the list, or transmitted
CellsSent(cells) == cells
Shows(r, cells) == [panel EXCEPT ![r] = cells \o SubSeq(@, Len(cells) + 1, 2)]
SendBytes ==
  /\ draw = "send" /\ (link = <<>> \/ selected) /\ draw' = "end"
  /\ IF bus = "i2c" THEN link' = CellsSent(buffer[row]) /\ UNCHANGED panel
     ELSE panel' = Shows(row, CellsSent(buffer[row])) /\ UNCHANGED link
  /\ UNCHANGED <<bus, pins, row, buffer, links, selected, mutexAt, texts>>

\* END_TRANSFER: the list is carried out and deleted; ESP_ERROR_CHECK restarts the device
Deleted == links - 1
EndTransfer ==
  /\ draw = "end"
  /\ IF bus = "i2c" THEN panel' = Shows(row, link) /\ link' = NoLink /\ links' = Deleted /\ UNCHANGED selected
     ELSE selected' = FALSE /\ UNCHANGED <<panel, link, links>>
  /\ row' = (row + 1) % LinesNum /\ draw' = IF row + 1 = LinesNum THEN "wait" ELSE "send"
  /\ UNCHANGED <<bus, pins, buffer, mutexAt, texts>>

TransferFails ==
  /\ draw \in {"send", "end"} /\ (link # NoLink \/ selected) /\ draw' = "crashed"
  /\ UNCHANGED <<bus, pins, row, shown, mutexAt, texts>>

\* udp_broadcast_server_recv: the mutex is taken, the text copied, the mutex given
ReceiveText(r, l) ==
  /\ draw # "crashed" /\ keys < MaxKeys /\ keys' = keys + 1 /\ mutexAt = Free /\ mutexAt' = r
  /\ line' = [line EXCEPT ![r][1] = l]
  /\ UNCHANGED <<bus, pins, draw, row, shown, message, position, logAt, own, blink>>
TextDone ==
  /\ mutexAt \in Rows /\ mutexAt' = Free /\ line' = [line EXCEPT ![mutexAt][2] = line[mutexAt][1]]
  /\ UNCHANGED <<bus, pins, draw, row, shown, message, position, logAt, own, blink, keys>>

\* handle_next_letter: the letter, and later the position; a broadcast empties the message
KeyLetter ==
  /\ draw # "crashed" /\ keys < MaxKeys /\ keys' = keys + 1 /\ logAt = position
  /\ message' = [message EXCEPT ![logAt + 1] = "m"] /\ logAt' = (logAt + 1) % 3
  /\ UNCHANGED <<bus, pins, draw, row, shown, mutexAt, line, position, own, blink>>
KeyBroadcast ==
  /\ draw # "crashed" /\ keys < MaxKeys /\ keys' = keys + 1 /\ logAt = position
  /\ message' = <<Blank, Blank, message[3]>> /\ logAt' = 0 /\ own' = (own + 1) % LinesNum
  /\ UNCHANGED <<bus, pins, draw, row, shown, mutexAt, line, position, blink>>
ShowPosition ==
  /\ logAt # position /\ position' = logAt
  /\ UNCHANGED <<bus, pins, draw, row, shown, mutexAt, line, message, logAt, own, blink, keys>>

DisplayNext ==
  \/ InitDisplay \/ StartDraw \/ OwnLine \/ DrawLine \/ StartTransfer \/ SendBytes \/ EndTransfer \/ TransferFails
  \/ TextDone \/ KeyLetter \/ KeyBroadcast \/ ShowPosition
  \/ \E r \in Rows, l \in Letters : ReceiveText(r, l)

(***************************************************************************)
(* Properties.                                                             *)
(***************************************************************************)

Cells == Letters \cup {Blank, "m", "_"}
DisplayTypeOK ==
  /\ row \in Rows /\ links \in 0 .. 1 /\ position \in 0 .. 2 /\ own \in Rows
  /\ \A r \in Rows : panel[r] \in Cells \X Cells /\ line[r] \in Cells \X Cells

(* After every round the panel shows what was drawn, on either bus: the    *)
(* rows of the buffer, each whole.                                         *)
PanelIsBuffer == draw = "wait" => panel = buffer

(* A row never shows the beginning of one received text and the end of     *)
(* another: the drawing task copies a line only while nobody writes it.    *)
RowsWhole ==
  \A r \in Rows : panel[r][1] \in Letters \/ panel[r][2] \in Letters => panel[r][1] = panel[r][2]

(* A transfer leaves nothing on the heap, and never begins while the       *)
(* former one holds the bus.                                               *)
NoLinkLeft == draw \in {"wait", "own", "lines"} => links = 0 /\ ~selected
============================================================================
