-------------------------------- MODULE Slip --------------------------------
(***************************************************************************)
(* SLIP over the UART, slip_handle.c. Outwards: tasks take a buffer, fill  *)
(* it and queue it for slip_flow_control_task. Inwards: the bytes of       *)
(* slip_handle_uart_rx_task, read in chunks of any size. The settings a    *)
(* peer sends are compared with the registers before they are written.     *)
(***************************************************************************)
EXTENDS Integers, Sequences, FiniteSets

CONSTANTS
  Senders,      \* tasks that transmit: the lwIP thread, slip_handle_uart_rx_task
  Buffers,      \* flow_control_slip_memory, 1 .. SLIP_FLOW_CONTROL_QUEUE_LENGTH
  MaxSends,     \* bound: packets per sender
  Packets,      \* what the peer sends: sequences of bytes
  BufferLen,    \* SLIP_HANDLE_RX_BUFFER_LEN
  MaxStream,    \* bound: packets of the peer
  Modes, Values,\* settings: wifi_setting, and the names, sequences of bytes of one length
  MaxResets     \* bound: PREPARE_TO_RESET

VARIABLES
  at, mine,             \* where a sender is, and its buffer
  length,               \* of a buffer: is it > 0?
  queue, sent,          \* slip_flow_control_queue; packets of each sender
  writing,              \* the message slip_flow_control_task works on
  stream, peer,         \* bytes not read yet, packets the peer has sent
  recvState, rxBuffer, delivered, drops,
  settings, resets, last   \* registers, PREPARE_TO_RESET sent, the last packet of settings

txVars == <<at, mine, length, queue, sent, writing>>
rxVars == <<stream, peer, recvState, rxBuffer, delivered, drops>>
setVars == <<settings, resets, last>>
slipVars == <<txVars, rxVars, setVars>>

END == "END"
ESC == "ESC"
None == 0
Zero == "zero"

SlipInit ==
  /\ at = [s \in Senders |-> "idle"] /\ mine = [s \in Senders |-> None]
  /\ length = [b \in Buffers |-> FALSE]
  /\ queue = <<>> /\ sent = [s \in Senders |-> 0] /\ writing = None
  /\ stream = <<>> /\ peer = <<>> /\ recvState = "normal" /\ rxBuffer = <<>> /\ delivered = <<>> /\ drops = 0
  /\ settings \in [mode : Modes, ap : Values, router : Values] /\ resets = 0 /\ last = {}

-----------------------------------------------------------------------------
(* slip_add_to_send_queue: slip_get_buffer, slip_fill_buffer, queue_send    *)

\* The last free buffer; without one the packet is dropped, and ESP_OK returned.
GetBuffer(s) ==
  /\ at[s] = "idle" /\ sent[s] < MaxSends /\ sent' = [sent EXCEPT ![s] = @ + 1]
  /\ LET free == {b \in Buffers : ~ length[b]} IN
     IF free = {} THEN UNCHANGED <<at, mine>>
     ELSE /\ at' = [at EXCEPT ![s] = "got"]
          /\ mine' = [mine EXCEPT ![s] = CHOOSE b \in free : \A c \in free : b >= c]
  /\ UNCHANGED <<length, queue, writing, rxVars, setVars>>

FillBuffer(s) ==
  /\ at[s] = "got" /\ at' = [at EXCEPT ![s] = "filled"]
  /\ length' = [length EXCEPT ![mine[s]] = TRUE]
  /\ UNCHANGED <<mine, queue, sent, writing, rxVars, setVars>>

QueueSend(s) ==
  /\ at[s] = "filled" /\ Len(queue) < Cardinality(Buffers)
  /\ queue' = Append(queue, mine[s]) /\ at' = [at EXCEPT ![s] = "idle"]
  /\ UNCHANGED <<mine, length, sent, writing, rxVars, setVars>>

\* The queue stays full for SLIP_FLOW_CONTROL_QUEUE_TIMEOUT_MS.
QueueFails(s) ==
  /\ at[s] = "filled" /\ Len(queue) = Cardinality(Buffers) /\ at' = [at EXCEPT ![s] = "idle"]
  /\ length' = [length EXCEPT ![mine[s]] = FALSE]
  /\ UNCHANGED <<mine, queue, sent, writing, rxVars, setVars>>

\* slip_flow_control_task
FlowReceive ==
  /\ writing = None /\ queue # <<>> /\ writing' = Head(queue) /\ queue' = Tail(queue)
  /\ UNCHANGED <<at, mine, length, sent, rxVars, setVars>>

\* uart_write_bytes if there is a length, *msg.length = 0 in any case
FlowDone ==
  /\ writing # None /\ writing' = None /\ length' = [length EXCEPT ![writing] = FALSE]
  /\ UNCHANGED <<at, mine, queue, sent, rxVars, setVars>>

-----------------------------------------------------------------------------
(* slip_handle_uart_rx_task                                                 *)

\* slip_modem_transmit, and the peer: a frame between two END
Escaped(c) == IF c = END THEN <<ESC, "ESC_END">> ELSE IF c = ESC THEN <<ESC, "ESC_ESC">> ELSE <<c>>
Frame(p) ==
  LET body[i \in 0 .. Len(p)] == IF i = 0 THEN <<>> ELSE body[i - 1] \o Escaped(p[i])
  IN  <<END>> \o body[Len(p)] \o <<END>>

PeerSends(p) ==
  /\ Len(peer) < MaxStream /\ peer' = Append(peer, p) /\ stream' = stream \o Frame(p)
  /\ UNCHANGED <<txVars, setVars, recvState, rxBuffer, delivered, drops>>

\* One byte; st is [state, buf, out].
Step(st, c) ==
  IF st.state = "normal" THEN
    CASE c = END -> [st EXCEPT !.buf = <<>>, !.out = IF st.buf = <<>> THEN @ ELSE Append(@, st.buf)]
      [] c = ESC -> [st EXCEPT !.state = "escape"]
      [] OTHER   -> [st EXCEPT !.buf = Append(@, c)]
  ELSE [st EXCEPT !.state = "normal",
                  !.buf = CASE c = "ESC_END" -> Append(@, END) [] c = "ESC_ESC" -> Append(@, ESC)
                            [] OTHER -> <<>>]

Decoded(chunk) ==
  LET d[i \in 0 .. Len(chunk)] ==
        IF i = 0 THEN [state |-> recvState, buf |-> rxBuffer, out |-> <<>>]
        ELSE Step(d[i - 1], chunk[i])
  IN  d[Len(chunk)]

\* rx_filter looks at the chunk as it was read: exactly "!S" is a command.
IsCommand(chunk) == chunk = <<"!", "S">>

Read(n) ==
  LET chunk == SubSeq(stream, 1, n)  d == Decoded(chunk) IN
  /\ n \in 1 .. Len(stream) /\ n < BufferLen /\ stream' = SubSeq(stream, n + 1, Len(stream))
  /\ IF IsCommand(chunk)
     THEN rxBuffer' = <<>> /\ drops' = drops + 1 /\ UNCHANGED <<recvState, delivered>>
     ELSE IF Len(rxBuffer) + n < BufferLen
     THEN /\ recvState' = d.state /\ rxBuffer' = d.buf /\ delivered' = delivered \o d.out
          /\ UNCHANGED drops
     ELSE rxBuffer' = <<>> /\ drops' = drops + 1 /\ UNCHANGED <<recvState, delivered>>
  /\ UNCHANGED <<txVars, setVars, peer>>

-----------------------------------------------------------------------------
(* rx_filter, "!I": slip_write_setting for each setting of the mode         *)

\* regs_set_buffer writes a name byte by byte up to one that is no letter or digit, a zero
\* at its end for instance: what came before is stored, the rest is not.
Accepts(v) == \A i \in DOMAIN v : v[i] # Zero
Stored(old, v) == [i \in DOMAIN v |-> IF Accepts(SubSeq(v, 1, i)) THEN v[i] ELSE old[i]]

HasAp(p) == p.mode \in {"ap", "ap_sta"}
HasRouter(p) == p.mode \in {"client", "ap_sta"}

Written(p) ==
  [mode |-> p.mode,
   ap |-> IF HasAp(p) THEN Stored(settings.ap, p.ap) ELSE settings.ap,
   router |-> IF HasRouter(p) THEN Stored(settings.router, p.router) ELSE settings.router]

\* slip_write_setting: a setting that differs and was stored to its end
Changed(p) ==
  \/ p.mode # settings.mode
  \/ HasAp(p) /\ p.ap # settings.ap /\ Accepts(p.ap)
  \/ HasRouter(p) /\ p.router # settings.router /\ Accepts(p.router)

Settings(p) ==
  /\ resets < MaxResets /\ settings' = Written(p) /\ last' = {p}
  /\ resets' = IF Changed(p) THEN resets + 1 ELSE resets
  /\ UNCHANGED <<txVars, rxVars>>

TxNext ==
  \/ \E s \in Senders : GetBuffer(s) \/ FillBuffer(s) \/ QueueSend(s) \/ QueueFails(s)
  \/ FlowReceive \/ FlowDone
RxNext == (\E p \in Packets : PeerSends(p)) \/ (\E n \in 1 .. Len(stream) : Read(n))
SetNext == \E p \in [mode : Modes, ap : Values, router : Values] : Settings(p)

-----------------------------------------------------------------------------
(* Properties                                                               *)

\* Every buffer comes back, also when two senders have taken the same one between
\* slip_get_buffer and slip_fill_buffer: a lost buffer would never be used again.
BuffersReturn == \A b \in Buffers : length[b] ~> ~ length[b]

Wrong == {i \in 1 .. Len(delivered) : \A j \in 1 .. Len(peer) : peer[j] # delivered[i]}
\* However the bytes are cut into chunks, what is delivered is what the peer has sent; a
\* chunk that is dropped, because the buffer is full or because it looks like a
\* command, spoils at most one packet more than it loses.
ResyncAfterDrop ==
  /\ drops = 0 => delivered = SubSeq(peer, 1, Len(delivered))
  /\ Cardinality(Wrong) <= drops
  /\ drops = 0 /\ stream = <<>> => Len(delivered) = Len(peer)

\* The peer repeats its settings every time it is asked: the same settings again change
\* nothing and do not reset the device again, also when a name of theirs is stored in part.
SameSettingsQuiet == [][last' = last /\ last # {} => UNCHANGED <<settings, resets>>]_slipVars
============================================================================
