---------------------------- MODULE HttpRequest ----------------------------
(***************************************************************************)
(* What the web server makes of a request, in both builds: the socket      *)
(* build (HttpSockets, LWIP_HTTPD_USE_SOCKS of lwipopts.h) and the         *)
(* callback build (HttpCallbacks).  The answers to JSON requests and to    *)
(* OPTIONS share one buffer, which busy protects.                          *)
(*                                                                         *)
(* A request arrives in segments: line is the segment that ends its first  *)
(* line, ends the one that ends its headers.  Files and answers are sent   *)
(* in chunks; the first chunk of a file holds its headers.                 *)
(***************************************************************************)
EXTENDS Integers, Sequences, FiniteSets

CONSTANTS
  Clients,      \* one connection each
  Req,          \* Req[c]: the request of c
  Files,        \* the names in the file system
  Chunks,       \* Chunks[f]: length of f; Chunks[JsonFile] for the shared buffer
  DefaultsOf,   \* DefaultsOf[path]: the files tried for a directory, <<>> for a file
  QueueLen,     \* LWIP_HTTPD_REQ_QUEUELEN
  Permissions,  \* the values of the register permission to look at
  JsonFile,         \* the shared buffer as a file
  None

VARIABLES
  busy,       \* dynamic_json_file.busy: "free" or "sending"
  buffer,     \* dynamical_file_databuf: the client it was built for
  permission, \* the flags of the register permission that allow pages
  commands    \* the os commands written to the register command

shared == <<busy, buffer, permission, commands>>

SharedInit ==
  /\ busy = "free" /\ buffer = None /\ commands = {}
  /\ permission \in Permissions

\* fs_open for the first name that exists.
FirstOpen(names) ==
  LET found == {k \in 1 .. Len(names) : names[k] \in Files}
  IN IF found = {} THEN None ELSE names[CHOOSE k \in found : \A m \in found : k <= m]

\* http_get_404_file
NotFound == FirstOpen(<<"/404.html", "/404.htm", "/404.shtml">>)

\* The comparison is with the whole URI, parameters included.
Permitted(r) ==
  "http" \in permission /\ (r.path # "/credential.html" \/ r.params \/ "credential" \in permission)

\* A JSON request is answered if it has a pack and the buffer becomes free in time.
\* Nobody frees it while the request waits.
GetsBuffer(r) == r.pack /\ busy = "free"

\* The file that is sent for a URI, http_find_file, fs_open of what the handlers return.
FindFile(r, path) ==
  LET default == FirstOpen(DefaultsOf[path]) IN
  IF ~Permitted([r EXCEPT !.path = path]) THEN NotFound
  ELSE IF default # None THEN default
  ELSE IF path = "/get_json.cgi" /\ GetsBuffer(r) THEN JsonFile
  ELSE IF path = "/command.cgi" /\ r.pack /\ r.known /\ "/os_change_applyed.html" \in Files
    THEN "/os_change_applyed.html"
  ELSE IF path = "/command.cgi" /\ r.pack /\ ~r.known /\ "/incorrect_command.html" \in Files
    THEN "/incorrect_command.html"
  ELSE IF path \in Files THEN path ELSE NotFound

\* httpd_post_begin takes no upload: whatever the path, ERR_ABRT and the page to answer with.
PostBegin == "/download_error.html"

\* Of the constants: the answers have names of their own, a file its headers and the shared
\* buffer a body behind them, and every path a list of the defaults.
ASSUME Answering ==
  /\ None \notin Clients \cup {JsonFile, "more", "bad"} /\ JsonFile \notin {"more", "bad"}
  /\ Files \cap {JsonFile, None, "more", "bad"} = {}
  /\ Chunks \in [Files \cup {JsonFile} -> Nat \ {0}] /\ Chunks[JsonFile] > 1
  /\ QueueLen \in Nat
  /\ \A c \in Clients : \A p \in {Req[c].path, PostBegin} : Len(DefaultsOf[p]) \in Nat

\* http_post_request: the headers must be whole and name a length.
TooLong(got) == IF got <= QueueLen THEN "more" ELSE "bad"
PostRequest(r, got) ==
  IF got < r.ends THEN TooLong(got) ELSE IF ~r.length THEN "bad" ELSE FindFile(r, PostBegin)

\* http_parse_request with the first got segments: the file to send, "more" for
\* ERR_INPROGRESS or "bad" for ERR_ARG.
Parse(r, got) ==
  IF got < r.line THEN TooLong(got)
  ELSE IF r.method = "other" THEN "bad"
  ELSE IF r.method = "OPTIONS" /\ busy = "free" THEN JsonFile
  ELSE IF r.method = "POST" /\ r.v09 THEN "bad"
  ELSE IF r.method = "POST" THEN PostRequest(r, got)
  ELSE IF got < r.ends THEN TooLong(got)
  ELSE IF r.method = "OPTIONS" THEN NotFound                 \* read as a URI that no file has
  ELSE FindFile(r, r.path)

\* command_handle runs whatever becomes of its page.
Commanded(r, result) ==
  IF r.method = "GET" /\ r.path = "/command.cgi" /\ r.pack /\ r.known /\ Permitted(r)
     /\ result \notin {"more", "bad"} THEN {r} ELSE {}

\* The effects of http_parse_request on the shared state; freed if the whole answer
\* is written before the call returns.
ParsedAnd(c, got, freed) ==
  LET result == Parse(Req[c], got) IN
  /\ busy' = IF freed THEN "free" ELSE IF result = JsonFile THEN "sending" ELSE busy
  /\ buffer' = IF result = JsonFile THEN c ELSE buffer
  /\ commands' = commands \cup Commanded(Req[c], result)
  /\ UNCHANGED permission
Parsed(c, got) == ParsedAnd(c, got, FALSE)

\* http_init_file: HTTP/0.9 gets the file without its headers.
Length(c, file) ==
  IF file = None THEN 0 ELSE IF Req[c].v09 THEN Chunks[file] - 1 ELSE Chunks[file]

\* hs->handle of a connection, and what is sent of it.
Handles == Files \cup {JsonFile, None}
ChunkType == [file : Handles, part : Nat, for : Clients \cup {None}]

\* The chunk that follows when left chunks are left; owner is the one the buffer was built for.
Chunk(file, left, owner) == [file |-> file, part |-> Chunks[file] - left + 1,
                             for |-> IF file = JsonFile THEN owner ELSE None]

\* What c should receive from a file.
Whole(c, file) ==
  [i \in 1 .. Length(c, file) |->
     [file |-> file, part |-> i + Chunks[file] - Length(c, file), for |-> IF file = JsonFile THEN c ELSE None]]

\* The same without the owner, and all answers c may be given: what HttpService speaks of.
Outline(chunks) == [i \in DOMAIN chunks |-> [file |-> chunks[i].file, part |-> chunks[i].part]]
Answers == [c \in Clients |-> {Outline(Whole(c, f)) : f \in Files \cup {JsonFile}}]
============================================================================
