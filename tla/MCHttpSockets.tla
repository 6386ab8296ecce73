--------------------------- MODULE MCHttpSockets ---------------------------
(* Two clients for two worker tasks, or for one when a task is not created. *)
(* There is no page for errors: without the permission to use the web       *)
(* interface, c1 gets nothing.                                              *)
EXTENDS HttpSockets

R(method, path, line, ends) ==
  [method |-> method, path |-> path, params |-> FALSE, line |-> line, ends |-> ends,
   pack |-> TRUE, known |-> TRUE, length |-> TRUE, v09 |-> FALSE]
MCFiles == {"/index.html"}
MCChunks == [f \in MCFiles \cup {"json"} |-> 2]
MCDefaults == [p \in {"/get_json.cgi", "/", PostBegin} |-> IF p = "/" THEN <<"/index.shtml", "/index.html">> ELSE <<>>]
MCReq == [c \in Clients |-> IF c = "c1" THEN R("GET", "/get_json.cgi", 1, 2) ELSE R("OPTIONS", "/", 1, 1)]
MCPermissions == {{"http"}, {}}

\* Without the permission one worker will do.
Init == SockInit /\ (permission = {} => workers <= 1)
Spec == Init /\ [][SockNext]_sockVars /\ SockFairness
=============================================================================
