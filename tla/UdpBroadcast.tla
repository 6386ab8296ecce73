---------------------------- MODULE UdpBroadcast ----------------------------
(***************************************************************************)
(* Devices find each other and exchange texts by UDP broadcast.  Every     *)
(* device asks with ADVERTISMENT_REQUEST and is answered with the device's *)
(* Modbus address; it also broadcasts its text, signed with an HMAC, again *)
(* and again.  udp_broadcast_server_recv puts a new text, with the last    *)
(* number of the sender's address before it, into the line of the counter. *)
(* With a display, display_morse writes the own message, with its cursor,  *)
(* into the same line once a second; without one DrawOwn is never taken.   *)
(*                                                                         *)
(* A packet is a sequence of symbols; the field names are one symbol each, *)
(* the separators ": ", the HMAC and the bytes of a text keep their        *)
(* number, since the receiver counts positions.  The network loses,        *)
(* repeats and reorders packets: net only grows.  The lines lie one after  *)
(* the other; Memory goes on behind the last.  A target without an HMAC    *)
(* takes the one of a packet for text.                                     *)
(***************************************************************************)
EXTENDS Integers, Sequences, FiniteSets

CONSTANTS
  Self, Peers,    \* this device and the others: the last number of an IP address
  Ids,            \* Modbus addresses
  Texts,          \* texts, sequences of symbols
  Drawn,          \* what display_morse may find in morse_message
  MacLen,         \* 32: bytes of an HMAC, and the longest packet that needs none
  LinesNum,       \* DISPLAY_LINES_NUM
  LineLen,        \* MAX_MORSE_MESSAGE_LEN
  Memory,         \* bytes from morse_line_1 on
  ByteMod,        \* 2^8
  CounterMod,     \* 2^32
  MaxKeyed,       \* bound on texts a device keys
  MaxNet,         \* bound on different packets
  MaxPackets      \* bound on packets to receive

VARIABLES
  pcb,       \* udp_broadcast_pcb is there
  net,       \* packets sent, [from, data], and in says the sender's text as history
  hmac,      \* hmac[d]: SOC_HMAC_SUPPORTED where device d is built
  text,      \* text[d]: morse_send of the peer d
  mdb,       \* mdb[d]: its Modbus address
  keyedTexts,\* texts keyed so far
  lines,     \* the lines of this device, one after the other
  counter,   \* morse_counter
  found,     \* add_ip_to_slave_table calls: address by IP
  received,  \* packets received
  accepted,  \* a text found new and not stored yet: with its prefix, and as sent
  newest,    \* history: newest[i] is the text last written to line i, as sent or drawn
  allFit,    \* history: no text written to a line was longer than it
  heard      \* history: UDB_BROADCAST_MSG_RECEIVED sent

stored == <<lines, counter, accepted, newest, allFit>>
udpVars == <<pcb, net, hmac, text, mdb, keyedTexts, found, received, heard, stored>>

Zero == "0"
Request == <<"UDP_REQUEST">>
Mac == [i \in 1 .. MacLen |-> "mac"]
NoText == [m |-> <<>>, says |-> <<>>]
Prefix(d) == <<d, d, d, ":">>
Separator == <<"q", ":", " ", "q">>

\* udp_broadcast_advertisement_send, UDP_BROADCAST_OPTION_INFORMATION
Saying(t) == <<"message">> \o Separator \o t \o <<"q", "}">>
Advertisement(d) ==
  <<"{", "device_name", ":", ",">> \o Saying(text[d]) \o (IF hmac[d] THEN Mac ELSE <<>>)
\* the answer to a request
Answer(d) == <<"{", "modbus_address", "q", ":", " ", mdb[d], ",", "}">>

UdpInit ==
  /\ pcb = FALSE /\ net = {[from |-> d, data |-> Request, says |-> <<>>] : d \in Peers}
  /\ hmac \in [Peers \cup {Self} -> BOOLEAN] /\ text = [d \in Peers |-> <<>>]
  /\ mdb \in [Peers \cup {Self} -> Ids] /\ keyedTexts = 0
  /\ lines = [i \in 0 .. Memory - 1 |-> Zero] /\ counter = 0
  /\ found = [d \in Peers |-> "0"] /\ received = 0 /\ heard = FALSE
  /\ accepted = NoText /\ newest = [i \in 0 .. LinesNum - 1 |-> <<>>] /\ allFit = TRUE

\* udp_broadcast_init; a bind or a pcb that is refused leaves the device deaf
Bind ==
  /\ ~pcb /\ received = 0 /\ pcb' \in BOOLEAN
  /\ UNCHANGED <<net, hmac, text, mdb, keyedTexts, found, received, heard, stored>>

\* udp_broadcast_deinit
Unbind ==
  /\ pcb /\ received = MaxPackets /\ accepted = NoText /\ pcb' = FALSE
  /\ UNCHANGED <<net, hmac, text, mdb, keyedTexts, found, received, heard, stored>>

\* a text keyed at a peer, or here, where it counts
Keyed(d, t) ==
  /\ keyedTexts < MaxKeyed /\ keyedTexts' = keyedTexts + 1 /\ text' = [text EXCEPT ![d] = t]
  /\ UNCHANGED <<pcb, net, hmac, mdb, found, received, heard, stored>>
KeyedHere ==
  /\ keyedTexts < MaxKeyed /\ keyedTexts' = keyedTexts + 1 /\ counter' = (counter + 1) % CounterMod
  /\ UNCHANGED <<pcb, net, hmac, text, mdb, lines, found, received, heard, accepted, newest, allFit>>

Sent(d, data, t) ==
  /\ net' = net \cup {[from |-> d, data |-> data, says |-> t]} /\ Cardinality(net') <= MaxNet

\* a peer broadcasts its text; this device's own broadcasts are its peers'
Advertise(d) ==
  /\ Sent(d, Advertisement(d), text[d])
  /\ UNCHANGED <<pcb, hmac, text, mdb, keyedTexts, found, received, heard, stored>>

\* another program there sends no more than the field
Speak(d, t) ==
  /\ keyedTexts < MaxKeyed /\ keyedTexts' = keyedTexts + 1 /\ Sent(d, Saying(t), t)
  /\ UNCHANGED <<pcb, hmac, text, mdb, found, received, heard, stored>>

\* UDP_BROADCAST_OPTION_UDP_REQUEST
Ask ==
  /\ pcb /\ Sent(Self, Request, <<>>)
  /\ UNCHANGED <<pcb, hmac, text, mdb, keyedTexts, found, received, heard, stored>>

\* a peer receives this device's request
PeerAnswers(d) ==
  /\ [from |-> Self, data |-> Request, says |-> <<>>] \in net /\ Sent(d, Answer(d), <<>>)
  /\ UNCHANGED <<pcb, hmac, text, mdb, keyedTexts, found, received, heard, stored>>

\* the first position of a symbol, -1 when it is not there
IndexOf(data, s) ==
  LET at == {i \in DOMAIN data : data[i] = s}
  IN IF at = {} THEN -1 ELSE (CHOOSE i \in at : \A j \in at : i <= j) - 1

\* the HMAC is looked for in packets that are longer than one, by a target that has it
Checked(data) == hmac[Self] /\ Len(data) > MacLen
Valid(data) == Checked(data) => SubSeq(data, Len(data) - MacLen + 1, Len(data)) = Mac

\* the text of a packet by its positions: a u8 for its end and for its length
LastOf(data) == (Len(data) - (IF Checked(data) THEN MacLen ELSE 0) - 2) % ByteMod
MessageOf(data) ==
  LET at == IndexOf(data, "message") + 1 + 4
      n == (LastOf(data) - at) % ByteMod
  IN SubSeq(data, at + 1, at + n)

\* strncmp of the new text with as many bytes of a line; a text has no zero
SameAt(m, i) == \A j \in 1 .. Len(m) : lines[i * LineLen + j - 1] = m[j]

\* message_is_new
IsNewSkipsOne(m) == \A i \in 0 .. LinesNum - 2 : ~SameAt(m, i)  \* mutant: the last line is not compared
IsNew(m) == \A i \in 0 .. LinesNum - 1 : ~SameAt(m, i)

\* message_is_new compares under the mutex, and gives it back
StoreText(d, t, says) ==
  LET m == Prefix(d) \o t
  IN /\ accepted' = IF t # <<>> /\ IsNew(m) THEN [m |-> m, says |-> Prefix(d) \o says] ELSE accepted
     /\ UNCHANGED <<lines, counter, newest, allFit>>

\* bytes copied to the beginning of a line, whatever its length is
Over(i, m, ls) ==
  [k \in DOMAIN ls |-> IF k \in i * LineLen .. i * LineLen + Len(m) - 1 THEN m[k - i * LineLen + 1] ELSE ls[k]]
Line == counter % LinesNum
Cleared == [j \in 1 .. LineLen |-> Zero]

\* ... and taken again, the line of the counter is cleared, then the text is copied
Store ==
  /\ accepted # NoText /\ accepted' = NoText
  /\ lines' = Over(Line, accepted.m, Over(Line, Cleared, lines)) /\ counter' = (counter + 1) % CounterMod
  /\ newest' = [newest EXCEPT ![Line] = accepted.says] /\ allFit' = (allFit /\ Len(accepted.m) <= LineLen)
  /\ UNCHANGED <<pcb, net, hmac, text, mdb, keyedTexts, found, received, heard>>

\* display_morse copies the own message with the zero at its end, and clears nothing
DrawOwn(t) ==
  /\ lines' = Over(Line, Append(t, Zero), lines)
  /\ newest' = [newest EXCEPT ![Line] = t] /\ allFit' = (allFit /\ Len(t) < LineLen)
  /\ UNCHANGED <<pcb, net, hmac, text, mdb, keyedTexts, counter, found, received, heard, accepted>>

\* add_ip_to_slave_table with the number behind the field
Discover(d, data) ==
  LET at == IndexOf(data, "modbus_address")
  IN found' = IF at >= 0 /\ at + 1 + 3 < Len(data) THEN [found EXCEPT ![d] = data[at + 1 + 3 + 1]] ELSE found

\* udp_broadcast_server_recv; the packet may come again, or never
Receive(p) ==
  /\ pcb /\ received < MaxPackets /\ p \in net /\ p.from # Self /\ accepted = NoText
  /\ received' = received + 1
  /\ IF p.data = Request
     THEN /\ Sent(Self, Answer(Self), <<>>)
          /\ UNCHANGED <<found, stored, heard>>
     ELSE /\ UNCHANGED net
          /\ Discover(p.from, p.data) /\ heard' = TRUE
          /\ IF Valid(p.data) /\ IndexOf(p.data, "message") >= 0
             THEN StoreText(p.from, MessageOf(p.data), p.says)
             ELSE UNCHANGED stored
  /\ UNCHANGED <<pcb, hmac, text, mdb, keyedTexts>>

UdpNext ==
  \/ Bind \/ Unbind
  \/ Ask \/ \E d \in Peers : Advertise(d) \/ PeerAnswers(d)
  \/ KeyedHere \/ \E d \in Peers, t \in Texts : Keyed(d, t) \/ Speak(d, t)
  \/ \E p \in net : Receive(p)
  \/ Store \/ \E t \in Drawn : DrawOwn(t)

(***************************************************************************)
(* Properties.                                                             *)
(***************************************************************************)

UdpTypeOK ==
  /\ pcb \in BOOLEAN /\ counter \in 0 .. CounterMod - 1 /\ received \in 0 .. MaxPackets
  /\ DOMAIN lines = 0 .. Memory - 1

\* what is read from a line: up to its first zero, or all of it
Reads(i, m) ==
  /\ \A j \in 1 .. Len(m) : lines[i * LineLen + j - 1] = m[j]
  /\ Len(m) < LineLen => lines[i * LineLen + Len(m)] = Zero

(* A line shows exactly the text that was put there last, the one another  *)
(* device broadcast with that device before it, or the own message: as     *)
(* long as nothing was longer than a line, whatever was in the line or in  *)
(* the neighbouring ones before, with and without an HMAC (the sender's    *)
(* layout and the receiver's positions agree, what is left over of longer  *)
(* texts is cut off).                                                      *)
LinesWhole == allFit => \A i \in 0 .. LinesNum - 1 : Reads(i, newest[i])

(* A broadcast is repeated until its text changes; it is stored once: no   *)
(* two lines show the same text of the same sender.                        *)
NoTwinLines ==
  allFit =>
    \A i, j \in 0 .. LinesNum - 1 :
      i # j /\ lines[i * LineLen] \in Peers => ~(Reads(i, newest[i]) /\ Reads(j, newest[i]))

(* What the slave table learns is the address the device at that IP has.   *)
FoundIsTrue == \A d \in Peers : found[d] \in {"0", mdb[d]}
============================================================================
