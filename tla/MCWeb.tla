------------------------------- MODULE MCWeb -------------------------------
(* The parts of the web server, each on its own: part says which one runs.  *)
EXTENDS HttpCallbacks

VARIABLES
  part,
  values, pack, parsed, answer, packs      \* JsonRequest

jsonVars == <<values, pack, parsed, answer, packs>>

\* Three registers: a number, a list of two and a read only number.
Pair(param, value) == [param |-> param, value |-> value, array |-> FALSE]
List(value) == [param |-> "index", value |-> value, array |-> TRUE]
Ask(n, which) == <<Pair("request", "regs"), Pair("reg_num", n), List(which)>>
Set(i, which) == <<Pair("request", "regs_set"), Pair("index", <<i>>), Pair("value", which)>>
SetNamed(name, which) == <<Pair("request", "regs_set"), Pair("name", name), Pair("value", which)>>
Swapped(p) == <<p[2], p[1], p[3]>>
JsonPacks ==
  {Ask(n, <<0>>) : n \in {0, 1, 257, 266}}
    \cup {Ask(2, <<i, j>>) : i \in 0 .. 3, j \in {0, 1}} \cup {Ask(3, <<1, 1, 1>>), Ask(2, <<1>>)}
    \cup {Append(<<Pair("get_type", t)>> \o Ask(n, l), Pair("value", <<2>>)) :
            t \in {"full", "only_value"}, n \in {1, 2}, l \in {<<1>>, <<0, 1>>}}
    \cup {Set(i, l) : i \in 0 .. 3, l \in {<<1>>, <<7, 2>>, <<>>}}
    \cup {Swapped(Set(1, <<1, 2>>)), Swapped(Ask(2, <<1, 2>>))}
    \cup {SetNamed(n, <<3>>) : n \in {"a", "b", "c"}}
    \cup {<<Pair("request", "set_string"), Pair("index", <<1>>), Pair("value", <<2>>)>>}
    \cup {<<Pair("request", r), Pair("index", <<1>>), Pair("value", <<1>>)>> :
            r \in {"os_param", "task_param", "regs_num", "user_task_regs_num", "what"}}

JsonSize == <<1, 2, 1>>
Json == INSTANCE JsonRequest WITH
  NumRegs <- 3, Size <- [i \in 0 .. 2 |-> JsonSize[i + 1]], Top <- [i \in 0 .. 2 |-> 4], Writable <- {0, 1},
  IndexOf <- [n \in {"a", "b", "c"} |-> CASE n = "a" -> 0 [] n = "b" -> 1 [] n = "c" -> 2],
  Packs <- JsonPacks, MaxPairs <- 5, MaxAsked <- 3, MaxLen <- 30, HeaderLen <- 5,
  ItemLen <- 2, FullLen <- 4, ElementLen <- 2, MaxPacks <- 3

-----------------------------------------------------------------------------
(* The callback build: three connections for one or two blocks.             *)

R(method, path, line, ends) ==
  [method |-> method, path |-> path, params |-> FALSE, line |-> line, ends |-> ends,
   pack |-> TRUE, known |-> TRUE, length |-> TRUE, v09 |-> FALSE]
WebFiles == {"/404.html", "/index.html", "/incorrect_command.html"}
WebChunks == [f \in WebFiles \cup {"json"} |-> IF f = "/incorrect_command.html" THEN 1 ELSE 2]
WebPaths == WebFiles \cup {"/", "/get_json.cgi", "/command.cgi", "/credential.html", "/download_error.html"}
WebDefaults == [p \in WebPaths |-> IF p = "/" THEN <<"/index.shtml", "/index.html">> ELSE <<>>]

CbClients == {"c1", "c2", "c3"}
CbReq == [c \in CbClients |->
  CASE c = "c1" -> R("GET", "/get_json.cgi", 1, 1)
    [] c = "c2" -> [R("POST", "/", 1, 1) EXCEPT !.v09 = TRUE]
    [] OTHER -> R("OPTIONS", "/", 1, 2)]
CbPermissions == {{"http"}}
CbPoolSizes == {1, 2}

-----------------------------------------------------------------------------
Init == part \in {"json", "callbacks"} /\ Json!Init /\ CbInit /\ (part = "callbacks" \/ blocks = 1)

JsonNext == part = "json" /\ Json!Next /\ UNCHANGED <<part, cbVars>>
CallbackNext == part = "callbacks" /\ CbNext /\ UNCHANGED <<part, jsonVars>>
Next == JsonNext \/ CallbackNext

vars == <<part, jsonVars, cbVars>>
CbPoll(c) == part = "callbacks" /\ (Poll(c) \/ PollClosing(c)) /\ UNCHANGED <<part, jsonVars, blocks>>
Spec == /\ Init /\ [][Next]_vars
        /\ \A c \in CbClients : WF_vars(CbPoll(c))
(* The answer to a JSON request lists what was asked for, each element as  *)
(* it is now, is never cut and is JSON.                                    *)
AnswerRight == Json!TypeOK /\ Json!NeverCut /\ Json!ListAnswered /\ Json!AnswerIsJson

(* A request changes the one register it names, and nothing when that is   *)
(* read only or not there.                                                 *)
WritesOne == Json!WritesOne
============================================================================
