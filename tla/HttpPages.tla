----------------------------- MODULE HttpPages -----------------------------
(***************************************************************************)
(* http_send with the options LWIP_HTTPD_DYNAMIC_HEADERS and               *)
(* LWIP_HTTPD_SSI of httpd_opts.h, which the shipped build leaves off: the *)
(* header strings are sent first, then the file, and an insert follows     *)
(* every tag of an SSI file.  The tag itself is sent too                   *)
(* (LWIP_HTTPD_SSI_INCLUDE_TAG).                                           *)
(*                                                                         *)
(* A write takes a part of what it is offered, or fails.  A page is given  *)
(* as the pieces its author put together: texts and tags.  A text that is  *)
(* no tag, such as an empty or a too long one, is a text.                  *)
(***************************************************************************)
EXTENDS Integers, Sequences, SequencesExt

CONSTANTS
  Pages,        \* the requests: [pieces, status, type, persistent, ssi]
  LeadIn,       \* http_ssi_tag_desc, two kinds of tags
  LeadOut,
  MaxName,      \* LWIP_HTTPD_MAX_TAG_NAME_LEN
  Inserts       \* Inserts[name]: what ssi_handler makes of a known tag

VARIABLES
  page,       \* the request
  at,         \* "called", "headers", "data", "parse", "tail", "end", "closed"
  hdrIndex,   \* hdr_index, from 1
  hdrPos,
  sentTo,     \* hs->file as an offset; left is the rest of the file
  parsed,     \* ssi->parsed; parse_left is the rest
  tag,        \* the other fields of http_ssi_state
  out         \* what was written to the connection

pageVars == <<page, at, hdrIndex, hdrPos, sentTo, parsed, tag, out>>

Space == " "
Text(chars) == [tag |-> FALSE, chars |-> chars]
Tag(kind, name, inner) ==
  [tag |-> TRUE, name |-> name, chars |-> LeadIn[kind] \o inner \o name \o inner \o LeadOut[kind]]
File(p) == FlattenSeq([k \in 1 .. Len(p.pieces) |-> p.pieces[k].chars])

\* get_http_headers, and get_http_content_length for an SSI file or one without
\* FS_FILE_FLAGS_HEADER_PERSISTENT: the strings that are not NULL.  The answer without a
\* file carries its text in the last string.
Headers(p) ==
  IF p.persistent /\ ~p.ssi
  THEN <<p.status, <<"server">>, <<"length", ":">>, <<"n">>, p.type>>
  ELSE <<p.status, <<"server">>, p.type>>

NoTag == [state |-> "none", index |-> 0, kind |-> 1, name |-> <<>>, insert |-> <<>>, end |-> 0]

PagesInit ==
  /\ page \in Pages /\ at = "called" /\ hdrIndex = 1 /\ hdrPos = 0
  /\ sentTo = 0 /\ parsed = 0 /\ tag = NoTag /\ out = <<>>

\* Type: positions stay inside what they point into; the file is sent up to parsed at most.
PagesTypeOK ==
  /\ at \in {"called", "headers", "data", "parse", "tail", "end", "closed"}
  /\ hdrIndex \in 1 .. Len(Headers(page)) + 1 /\ hdrPos \in 0 .. 2
  /\ parsed \in 0 .. Len(File(page)) /\ sentTo \in 0 .. Len(File(page))
  /\ page.ssi => sentTo <= parsed
  /\ tag.state \in {"none", "leadin", "found", "leadout", "sending"}
  /\ Len(tag.name) <= MaxName /\ tag.index <= Len(tag.insert) + MaxName + 8

-----------------------------------------------------------------------------
(* http_write and http_sock_write: took of the offered characters are      *)
(* written.  The send buffer may be full, took = 0.                        *)

Taken(offered) == {SubSeq(offered, 1, n) : n \in 0 .. Len(offered)}
Wrote(chars) == out' = out \o chars

\* http_send, called again whenever the connection may take more.
Call == at = "called" /\ at' = "headers" /\ UNCHANGED <<page, hdrIndex, hdrPos, sentTo, parsed, tag, out>>

HeadersSent == hdrIndex > Len(Headers(page))

\* http_send_headers after a write of s: position in the string, or the next string.
NextHeader(s) ==
  IF hdrPos + Len(s) = Len(Headers(page)[hdrIndex])
  THEN hdrIndex' = hdrIndex + 1 /\ hdrPos' = 0
  ELSE hdrIndex' = hdrIndex /\ hdrPos' = hdrPos + Len(s)

SendHeader ==
  /\ at = "headers" /\ ~HeadersSent
  /\ \E s \in Taken(SubSeq(Headers(page)[hdrIndex], hdrPos + 1, Len(Headers(page)[hdrIndex]))) :
       /\ Wrote(s) /\ NextHeader(s)
       /\ at' = IF Len(s) > 0 THEN "headers" ELSE "called"        \* HTTP_DATA_TO_SEND_BREAK
  /\ UNCHANGED <<page, sentTo, parsed, tag>>

\* http_check_eof: nothing left closes the connection, whatever the tag state.
HeadersDone ==
  /\ at = "headers" /\ HeadersSent
  /\ at' = IF sentTo = Len(File(page)) THEN "closed" ELSE "data"
  /\ UNCHANGED <<page, hdrIndex, hdrPos, sentTo, parsed, tag, out>>

\* Characters of the file up to a place, as far as the connection takes them.
SendTo(place, ok(_), full) ==
  \/ \E s \in Taken(SubSeq(File(page), sentTo + 1, place)) :
       Wrote(s) /\ sentTo' = sentTo + Len(s) /\ ok(Len(s))
  \/ full /\ UNCHANGED <<sentTo, out>>

-----------------------------------------------------------------------------
(* http_send_data_nonssi                                                    *)

SendPlain ==
  /\ at = "data" /\ ~page.ssi /\ at' = "end"
  /\ SendTo(Len(File(page)), LAMBDA n : TRUE, TRUE)
  /\ UNCHANGED <<page, hdrIndex, hdrPos, parsed, tag>>

-----------------------------------------------------------------------------
(* http_send_data_ssi                                                       *)

\* What was parsed is sent before more is parsed; an error skips the parsing.
SendParsed ==
  /\ at = "data" /\ page.ssi
  /\ IF parsed > sentTo
     THEN SendTo(parsed, LAMBDA n : at' \in IF n > 0 THEN {"parse", "end"} ELSE {"end"}, at' = "tail")
     ELSE at' = "parse" /\ UNCHANGED <<sentTo, out>>
  /\ UNCHANGED <<page, hdrIndex, hdrPos, parsed, tag>>

Parsing(state) == at = "parse" /\ tag.state = state
Char == File(page)[parsed + 1]
More == parsed < Len(File(page))
Consumed(t) ==
  /\ parsed' = parsed + 1 /\ tag' = t
  /\ UNCHANGED <<page, at, hdrIndex, hdrPos, sentTo, out>>
Kept(t) == tag' = t /\ UNCHANGED <<page, at, hdrIndex, hdrPos, sentTo, parsed, out>>
Idle == [tag EXCEPT !.state = "none"]

TagNone ==
  /\ Parsing("none") /\ More
  /\ LET kinds == {k \in DOMAIN LeadIn : LeadIn[k][1] = Char} IN
     Consumed(IF kinds = {} THEN tag
              ELSE [tag EXCEPT !.state = "leadin", !.index = 1, !.kind = CHOOSE k \in kinds : TRUE])

TagLeadIn ==
  /\ Parsing("leadin") /\ More
  /\ LET in == LeadIn[tag.kind] IN
     \/ tag.index = Len(in) /\ Kept([tag EXCEPT !.state = "found", !.index = 0, !.name = <<>>])
     \/ tag.index < Len(in) /\ Char = in[tag.index + 1] /\ Consumed([tag EXCEPT !.index = @ + 1])
     \/ tag.index < Len(in) /\ Char # in[tag.index + 1] /\ Consumed(Idle)

TagFound ==
  /\ Parsing("found") /\ More
  /\ LET ends == Char = Space \/ Char = LeadOut[tag.kind][1] IN
     Consumed(
       CASE Char = Space /\ tag.index = 0 -> tag
         [] ends /\ ~(Char = Space /\ tag.index = 0) ->
              IF tag.index = 0 THEN Idle
              ELSE [tag EXCEPT !.state = "leadout", !.index = IF Char = Space THEN 0 ELSE 1]
         [] ~ends /\ tag.index < MaxName -> [tag EXCEPT !.index = @ + 1, !.name = Append(@, Char)]
         [] ~ends /\ tag.index >= MaxName -> Idle)

\* get_tag_insert: ssi_handler knows the names of registers.
GetTagInsert(name) ==
  IF name \in DOMAIN Inserts THEN Inserts[name] ELSE <<"unknown">> \o name

FoundAt(t) == [t EXCEPT !.state = "sending", !.index = 0, !.end = parsed + 1, !.insert = GetTagInsert(t.name)]

\* At the end of a tag what the file has up to it is sent at once.
TagLeadOut ==
  /\ Parsing("leadout") /\ More
  /\ LET lead == LeadOut[tag.kind] IN
     \/ Char = Space /\ tag.index = 0 /\ Consumed(tag)
     \/ Char = lead[tag.index + 1] /\ tag.index + 1 < Len(lead) /\ Consumed([tag EXCEPT !.index = @ + 1])
     \/ /\ Char = lead[tag.index + 1] /\ tag.index + 1 = Len(lead)
        /\ tag' = FoundAt(tag) /\ parsed' = parsed + 1
        /\ SendTo(parsed + 1, LAMBDA n : at' = IF n > 0 THEN "parse" ELSE "end", at' = "tail")
        /\ UNCHANGED <<page, hdrIndex, hdrPos>>
     \/ ~(Char = Space /\ tag.index = 0) /\ Char # lead[tag.index + 1] /\ Consumed(Idle)

TagSendingFile ==
  /\ Parsing("sending") /\ tag.end > sentTo
  /\ SendTo(tag.end, LAMBDA n : at' = IF n > 0 THEN "parse" ELSE "end", at' = "tail")
  /\ UNCHANGED <<page, hdrIndex, hdrPos, parsed, tag>>

SentInsertAll(n) == [tag EXCEPT !.index = Len(tag.insert)]   \* mutant: a part counts as the whole
SentInsert(n) == [tag EXCEPT !.index = @ + n]

TagSendingInsert ==
  /\ Parsing("sending") /\ tag.end <= sentTo
  /\ \/ /\ tag.index < Len(tag.insert)
        /\ \/ \E s \in Taken(SubSeq(tag.insert, tag.index + 1, Len(tag.insert))) :
                Wrote(s) /\ tag' = SentInsert(Len(s)) /\ at' = IF Len(s) > 0 THEN "parse" ELSE "end"
           \/ at' = "tail" /\ UNCHANGED <<tag, out>>
     \/ tag.index = Len(tag.insert) /\ tag' = [Idle EXCEPT !.index = 0] /\ UNCHANGED <<at, out>>
  /\ UNCHANGED <<page, hdrIndex, hdrPos, sentTo, parsed>>

ParseEnds ==
  /\ at = "parse" /\ tag.state # "sending" /\ ~More /\ at' = "tail"
  /\ UNCHANGED <<page, hdrIndex, hdrPos, sentTo, parsed, tag, out>>

TailSends == tag.state # "sending" /\ parsed > sentTo

\* What remains parsed and unsent, except between a tag and its insert.
SendTail ==
  /\ at = "tail" /\ at' = "end"
  /\ IF TailSends THEN SendTo(parsed, LAMBDA n : TRUE, TRUE) ELSE UNCHANGED <<sentTo, out>>
  /\ UNCHANGED <<page, hdrIndex, hdrPos, parsed, tag>>

\* The end of http_send; the next call finds the end of the file.
SendEnds == at = "end" /\ at' = "called" /\ UNCHANGED <<page, hdrIndex, hdrPos, sentTo, parsed, tag, out>>

PagesNext ==
  \/ Call \/ SendHeader \/ HeadersDone \/ SendPlain \/ SendParsed
  \/ TagNone \/ TagLeadIn \/ TagFound \/ TagLeadOut \/ TagSendingFile \/ TagSendingInsert
  \/ ParseEnds \/ SendTail \/ SendEnds

-----------------------------------------------------------------------------
(* Properties                                                               *)

\* The page its author wrote: headers, then the pieces, each tag with its insert.
PageOf(p) ==
  LET shown(k) == IF p.pieces[k].tag /\ p.ssi
                  THEN p.pieces[k].chars \o GetTagInsert(p.pieces[k].name)
                  ELSE p.pieces[k].chars
  IN FlattenSeq(Headers(p)) \o FlattenSeq([k \in 1 .. Len(p.pieces) |-> shown(k)])

\* However the writes of http_send split and fail, what went out is a beginning of that page:
\* nothing is lost, doubled or out of place.
PageInOrder == IsPrefix(out, PageOf(page))

\* A connection is closed with the whole page out, unless the page ends in a tag: then left is 0
\* before the insert is sent, and http_check_eof closes.
PageWhole ==
  (at = "closed" /\ ~(page.ssi /\ page.pieces # <<>> /\ Last(page.pieces).tag)) => out = PageOf(page)
=============================================================================
