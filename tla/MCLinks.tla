------------------------------ MODULE MCLinks ------------------------------
(* The links to other devices and the memory pool, each on its own: part    *)
(* says which one runs.                                                     *)
EXTENDS HttpClient, ModbusMaster, MemoryPool

VARIABLES
  part,
  at, mine, length, queue, sent, writing,                                               \* Slip
  stream, peer, recvState, rxBuffer, delivered, drops, settings, resets, last

slipV == <<at, mine, length, queue, sent, writing,
           stream, peer, recvState, rxBuffer, delivered, drops, settings, resets, last>>

MCReplies == [status : BOOLEAN, length : {0, 1, 2, 99}, body : 0 .. 2]
V(s, a, w) == [space |-> s, addr |-> a, words |-> w]
A(f, n) == [fn |-> f, count |-> n]
MCTables ==
  {<<V(12, 0, 1)>>, <<V(12, 0, 2), V(12, 2, 1), V(13, 63, 4)>>,
             <<V(12, 0, 1), V(13, 63, 4), V(14, 80, 1), V(14, 81, 1)>>}
MCLens == {A(1, 9), A(3, 2), A(3, 126), A(7, 1), A(15, 12), A(16, 128)}

Slip == INSTANCE Slip WITH
  Senders <- {"lwip", "rx"}, Buffers <- 1 .. 2, MaxSends <- 3,
  Packets <- {<<"!", "S">>, <<"END", "x">>, <<"ESC">>}, BufferLen <- 7, MaxStream <- 3,
  Modes <- {"ap", "client", "ap_sta", "off"}, Values <- {<<"u", "u">>, <<"v", "u">>, <<"v", "zero">>}, MaxResets <- 2

Init ==
  /\ part \in {"client", "master", "pool", "tx", "rx", "set"}
  /\ ClientInit /\ MasterInit /\ PoolInit /\ Slip!SlipInit
  /\ part = "client" \/ reply = [status |-> TRUE, length |-> 2, body |-> 2]
  /\ part = "master" \/ (Len(spaces) = 1 /\ ask.fn = 1)
  /\ Len(spaces) = 4 => ask = A(3, 2)
  /\ Len(spaces) = 3 => ask = A(3, 126)
  /\ Len(spaces) = 1 => ask \notin {A(3, 2), A(3, 126)}
  /\ part = "set" \/ settings = [mode |-> "ap", ap |-> <<"u", "u">>, router |-> <<"u", "u">>]

Next ==
  \/ part = "client" /\ ClientNext /\ UNCHANGED <<part, masterVars, poolVars, slipV>>
  \/ part = "master" /\ MasterNext /\ UNCHANGED <<part, clientVars, poolVars, slipV>>
  \/ part = "pool" /\ PoolNext /\ UNCHANGED <<part, clientVars, masterVars, slipV>>
  \/ part = "tx" /\ Slip!TxNext /\ UNCHANGED <<part, clientVars, masterVars, poolVars>>
  \/ part = "rx" /\ Slip!RxNext /\ UNCHANGED <<part, clientVars, masterVars, poolVars>>
  \/ part = "set" /\ Slip!SetNext /\ UNCHANGED <<part, clientVars, masterVars, poolVars>>

vars == <<part, clientVars, masterVars, poolVars, slipV>>
others(p, v) == part = p /\ UNCHANGED v
ClientTurn == others("client", <<part, masterVars, poolVars, slipV>>) /\ (Poll \/ DnsFound)
MasterTurn == others("master", <<part, clientVars, poolVars, slipV>>) /\ TaskStep
SenderTurn(s) ==
  /\ others("tx", <<part, clientVars, masterVars, poolVars>>)
  /\ (Slip!FillBuffer(s) \/ Slip!QueueSend(s) \/ Slip!QueueFails(s))
FlowTurn == others("tx", <<part, clientVars, masterVars, poolVars>>) /\ (Slip!FlowReceive \/ Slip!FlowDone)

Fairness ==
  /\ WF_vars(ClientTurn) /\ WF_vars(MasterTurn) /\ WF_vars(FlowTurn)
  /\ \A s \in {"lwip", "rx"} : WF_vars(SenderTurn(s))
Spec == Init /\ [][Next]_vars /\ Fairness

(* A request that was started gets its result. A dead connection is        *)
(* dropped, the task of a slave goes to the address its table names, and   *)
(* it ends when it is told to. Every buffer of the SLIP driver comes back, *)
(* a packet that does not fit takes none of the next ones with it, and     *)
(* settings that stay as they were do not restart anything.                *)
LinksRecover ==
  /\ ResultComes /\ DeadDropped /\ FollowsTable /\ EndsOnSignal
  /\ []Slip!ResyncAfterDrop /\ Slip!BuffersReturn /\ Slip!SameSettingsQuiet
============================================================================
