----------------------------- MODULE MCHttpConn -----------------------------
(* Short requests for HttpConn.                                            *)
EXTENDS HttpConn

LengthSymbols == [L2 |-> 2]
SizeSymbols   == [s0 |-> 0, s1 |-> 1]
LineSymbols ==
  [GET |-> [method |-> "GET", path |-> <<"/">>],
   PUT |-> [method |-> "PUT", path |-> <<"/", "a">>]]
BadLineSymbols == [bad |-> "GET"]

\* How a content is sent: not at all, after its length, or in chunks.  The
\* request line of a bad one is refused.
Msg(line, headers, framing, content) ==
  [line |-> line, headers |-> headers, framing |-> framing, content |-> content,
   last |-> "s0", eol |-> <<"CR", "LF">>]

Get   == Msg("GET", <<>>, "none", <<>>)
Long  == Msg("GET", <<"L2">>, "length", <<<<"LF", "d">>>>)
Parts == Msg("GET", <<"chunked">>, "chunked", <<<<"d">>>>)
Put   == Msg("PUT", <<>>, "none", <<>>)
Bad   == Msg("bad", <<>>, "none", <<>>)

MCDialogues ==
  {<<Get, Long, Put>>, <<Long, Get>>, <<Put, Get>>, <<Get, Bad>>, <<Parts, Get, Get>>}
=============================================================================
