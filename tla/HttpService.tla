---------------------------- MODULE HttpService ----------------------------
(***************************************************************************)
(* What the web server promises to a client, whichever way it is built: a  *)
(* connection that is accepted gets a beginning of one answer, in order,   *)
(* until it is closed, once.  Nothing is sent to a connection that was     *)
(* refused or closed.  HttpSockets and HttpCallbacks implement it.         *)
(***************************************************************************)
EXTENDS Integers, Sequences, SequencesExt

CONSTANTS
  Clients,   \* one connection each
  Answers    \* Answers[c]: the answers c may be given, as sequences of chunks

VARIABLES
  phase,   \* phase[c]: "new", "open", "closed"
  out      \* out[c]: what was sent to c

serviceVars == <<phase, out>>

ServiceInit == phase = [c \in Clients |-> "new"] /\ out = [c \in Clients |-> <<>>]

\* A connection is accepted; d makes room for it if it has to.
AcceptFor(c, d) ==
  /\ phase[c] = "new" /\ (d # c => phase[d] = "open")
  /\ phase' = [phase EXCEPT ![d] = "closed", ![c] = "open"]
  /\ UNCHANGED out

\* A stop refuses all that wait at once.
Refuse(waiting) ==
  /\ \A c \in waiting : phase[c] = "new"
  /\ phase' = [c \in Clients |-> IF c \in waiting THEN "closed" ELSE phase[c]]
  /\ UNCHANGED out

\* More of one answer goes out.
SendMore(c) ==
  /\ phase[c] = "open"
  /\ \E a \in Answers[c] :
       /\ IsPrefix(out[c], a)
       /\ \E n \in Len(out[c]) + 1 .. Len(a) : out' = [out EXCEPT ![c] = SubSeq(a, 1, n)]
  /\ UNCHANGED phase

Close(c) == phase[c] = "open" /\ phase' = [phase EXCEPT ![c] = "closed"] /\ UNCHANGED out

ServiceNext ==
  \/ \E waiting \in SUBSET Clients : Refuse(waiting)
  \/ \E c \in Clients : (\E d \in Clients : AcceptFor(c, d)) \/ SendMore(c) \/ Close(c)

ServiceSpec == ServiceInit /\ [][ServiceNext]_serviceVars
============================================================================
