---------------------------- MODULE HttpResponse ----------------------------
(***************************************************************************)
(* The response writer of src/ad_http_handler.c: what a hook puts in the   *)
(* out-buffer of one connection by calling ad_http_response and the set_   *)
(* and send_ functions, one call per action, request after request.        *)
(*                                                                         *)
(* Contents are counted, not spelt.  The out-buffer is the sequence of     *)
(* what was put: a header block with the framing headers it contains, data *)
(* of some size, a chunk with the size line it was given, the last chunk.  *)
(* Memory is not short, and what the calls return is left out.             *)
(***************************************************************************)
EXTENDS Integers, Sequences, FiniteSets, FiniteSetsExt

CONSTANTS
  Lengths,      \* content lengths a hook may announce
  Sizes,        \* sizes of the data a hook may send at once
  ContentFirst, \* hooks say what the content is before they send anything
  MaxCalls      \* bound: calls per connection

ASSUME ResponseAssumption ==
  /\ Lengths \subseteq Nat /\ Sizes \subseteq Nat
  /\ ContentFirst \in BOOLEAN /\ MaxCalls \in Nat

VARIABLES
  resp,    \* the response part of the session's ad_http_t
  out,     \* what was put in the out-buffer
  calls,   \* number of calls so far
  answered \* number of sessions before this one that sent their header

vars == <<resp, out, calls, answered>>

Chunked == -1
Unset   == -2

\* cl and te are the framing headers in the header table, the rest is as in
\* ad_http_s.
Response ==
  [frozen : BOOLEAN, contentlength : Nat \cup {Chunked}, bodyout : Nat,
   cl : Nat \cup {Unset}, te : BOOLEAN]

NewResponse ==
  [frozen |-> FALSE, contentlength |-> Chunked, bodyout |-> 0,
   cl |-> Unset, te |-> FALSE]

HeadOf(r)    == [kind |-> "head", cl |-> r.cl, te |-> r.te]
DataOf(n)    == [kind |-> "data", size |-> n]
LastChunk    == [kind |-> "last"]
ChunkOf(n, line) == [kind |-> "chunk", size |-> n, line |-> line]

TypeOK ==
  /\ resp \in Response
  /\ \A i \in DOMAIN out : out[i].kind \in {"head", "data", "chunk", "last"}
  /\ calls \in 0..MaxCalls /\ answered \in 0..MaxCalls

Init ==
  /\ resp = NewResponse /\ out = <<>> /\ calls = 0 /\ answered = 0

-----------------------------------------------------------------------------
(* Sizes on the wire.                                                      *)

\* printf("%zu"): the decimal digits of n.
Decimal[n \in Nat] ==
  IF n < 10 THEN <<n>> ELSE Append(Decimal[n \div 10], n % 10)

\* sscanf("%x"), as parse_chunked_body and any client reads a chunk size.
HexValue[digits \in Seq(0..15)] ==
  IF digits = <<>> THEN 0
  ELSE 16 * HexValue[SubSeq(digits, 1, Len(digits) - 1)] + digits[Len(digits)]

-----------------------------------------------------------------------------
(* The calls.                                                              *)

\* A call that leaves the response as r and puts some items.
Call(r, put) ==
  /\ calls < MaxCalls /\ calls' = calls + 1
  /\ resp' = r
  /\ out' = out \o put
  /\ UNCHANGED answered

\* ad_http_set_response_content, before the header was sent.
WithContent(r, length) ==
  IF length >= 0 THEN [r EXCEPT !.cl = length, !.contentlength = length]
                 ELSE [r EXCEPT !.te = TRUE, !.contentlength = Chunked]

HasContent(r) == r.cl # Unset \/ r.te

\* Slip: the header is not frozen.
NotFroze(r) == r

\* ad_http_send_header, called by the others too.
Froze(r)    == [r EXCEPT !.frozen = TRUE]
HeaderOf(r) == IF r.frozen THEN <<>> ELSE <<HeadOf(r)>>

\* Slip: the content is set although the header is out.
SetContentLate(length) ==
  Call(WithContent(resp, length), <<>>)

SetContent(length) ==
  IF resp.frozen THEN Call(resp, <<>>)
  ELSE Call(WithContent(resp, length), <<>>)

SendHeader ==
  /\ ContentFirst => HasContent(resp)
  /\ Call(Froze(resp), HeaderOf(resp))

\* Slips: the data sent before does not count, or a missing length does not.
RefusesByPiece(r, n)  == r.contentlength < 0 \/ n > r.contentlength
RefusesTooMuch(r, n)  == r.contentlength >= 0 /\ r.bodyout + n > r.contentlength

\* What ad_http_send_data refuses: no length, or more than the length.
Refuses(r, n) == r.contentlength < 0 \/ r.bodyout + n > r.contentlength

\* ad_http_send_data with the response as r, which ad_http_response has changed.
Sends(r, n) ==
  IF Refuses(r, n) THEN Call(r, <<>>)
  ELSE Call([Froze(r) EXCEPT !.bodyout = @ + n],
            HeaderOf(r) \o (IF n > 0 THEN <<DataOf(n)>> ELSE <<>>))

SendData(n) == Sends(resp, n)

\* ad_http_send_chunk adds up what evbuffer_add_printf returns, which is a
\* number of bytes, takes a sum that is not 0 for a failure, and so never
\* counts the chunk in bodyout.
SendChunk(n) ==
  /\ ContentFirst => HasContent(resp)
  /\ IF resp.contentlength >= 0 THEN Call(resp, <<>>)
     ELSE Call(Froze(resp),
               HeaderOf(resp) \o
               (IF n > 0 THEN <<ChunkOf(n, Decimal[n])>> ELSE <<LastChunk>>))

\* ad_http_response: content and data at once.
Respond(length) ==
  IF resp.frozen THEN Call(resp, <<>>)
  ELSE Sends(WithContent(resp, length), length)

HeadersDue == IF resp.frozen THEN 1 ELSE 0

\* A hook answered AD_DONE, with its response sent or not: the session is
\* renewed (http_free, http_new), what was put stays.
Renew ==
  /\ resp' = NewResponse
  /\ answered' = answered + HeadersDue
  /\ UNCHANGED <<out, calls>>

Next ==
  \/ \E length \in Lengths \cup {Chunked} : SetContent(length) \/ Respond(length)
  \/ SendHeader
  \/ \E n \in Sizes : SendData(n) \/ SendChunk(n)
  \/ Renew

Spec == Init /\ [][Next]_vars

-----------------------------------------------------------------------------
(* Properties.                                                             *)

IsHead(i) == out[i].kind = "head"

\* The header block that the i-th item belongs to.
HeadBefore(i) ==
  CHOOSE h \in 1..i : IsHead(h) /\ \A j \in (h + 1)..i : ~IsHead(j)

\* The items of the i-th header block's response.
ItemsOf(h) ==
  {i \in DOMAIN out : i > h /\ \A j \in (h + 1)..i : ~IsHead(j)}

\* Every response has one header block, put before everything else of it,
\* whichever call comes first and however many follow.
OneHeaderEach ==
  /\ Cardinality({i \in DOMAIN out : IsHead(i)}) = answered + HeadersDue
  /\ out # <<>> => IsHead(1)

\* The content sent under a Content-Length never exceeds it, in however many
\* pieces it is sent, and whatever was announced before.
WithinLength ==
  \A h \in DOMAIN out :
    IsHead(h) /\ out[h].cl # Unset =>
      MapThenSumSet(LAMBDA i : out[i].size,
                    {i \in ItemsOf(h) : out[i].kind = "data"}) <= out[h].cl

\* The items that follow a header block are announced by it: data by a
\* Content-Length, chunks by a Transfer-Encoding.
FramedAsAnnounced ==
  \A h \in DOMAIN out : IsHead(h) =>
    \A i \in ItemsOf(h) : IF out[i].kind = "data" THEN out[h].cl # Unset ELSE out[h].te

\* What was sent stays sent: the header block of the session is the one its
\* calls go on to rely on.
HeaderBinds ==
  resp.frozen =>
    LET h == HeadBefore(Len(out))
    IN  resp.cl = out[h].cl /\ resp.te = out[h].te

\* README.md:26, "support chunked transfer-encoding": a chunk's size line
\* reads as the size of the chunk.
ChunkSizeReadable ==
  \A i \in DOMAIN out : out[i].kind = "chunk" => HexValue[out[i].line] = out[i].size
=============================================================================
