---------------------------- MODULE MCHttpStream ----------------------------
(***************************************************************************)
(* Requests for model checking HttpStream: every method and every way to   *)
(* frame a content, with contents that hold the bytes the parser looks for.*)
(***************************************************************************)
EXTENDS HttpStream

LengthSymbols == [L0 |-> 0, L2 |-> 2, L3 |-> 3]
SizeSymbols   == [s0 |-> 0, s1 |-> 1, s2 |-> 2]
BadLineSymbols == [bad |-> "GET"]

\* Request lines: the same path written in two ways, and paths that are
\* refused: a name or a path that is too long, a drive.
LineOf(m, p) == [method |-> m, path |-> p]
LineSymbols ==
  [GET    |-> LineOf("GET", <<"/">>),
   PUT    |-> LineOf("PUT", <<"/", "a", "/", "bb">>),
   sloppy |-> LineOf("GET", <<"/", "/", "/", "a", "/", "/", "bb", "/", " ">>),
   name   |-> LineOf("GET", <<"/", "a", "a", "a", "a">>),
   long   |-> LineOf("GET", <<"/", "a", "/", "a", "/", "a", "/", "a", "/", "a">>),
   drive  |-> LineOf("GET", <<"/", "a", ":">>)]

Msg(line, headers, framing, content) ==
  [line |-> line, headers |-> headers, framing |-> framing, content |-> content,
   last |-> "s0", eol |-> <<"CR", "LF">>]

Get(line)        == Msg(line, <<"other">>, "none", <<>>)
Put(length, c)   == Msg("PUT", <<length>>, "length", <<c>>)
InChunks(pieces) == Msg("PUT", <<"chunked">>, "chunked", pieces)

Plain   == Get("GET")
Empty   == Put("L0", <<>>)
Static  == Put("L2", <<"d", "LF">>)
Static3 == Put("L3", <<"CR", "LF", "GET">>)
InChunk == InChunks(<<<<"CR", "LF">>>>)
Chunks2 == InChunks(<<<<"d", "s0">>, <<"LF">>>>)
NoChunk == InChunks(<<>>)
ByLf    == [Chunks2 EXCEPT !.eol = <<"LF">>, !.headers = <<"other", "chunked">>]
Twice   == [Static EXCEPT !.headers = <<"L2", "other", "L2">>]

BadLine == Get("bad")
BadSize == [InChunks(<<<<"d">>>>) EXCEPT !.last = "other"]
Sloppy   == Get("sloppy")
BadPaths == {Get(l) : l \in {"name", "long", "drive"}}

Kinds == {Plain, Empty, Static, Static3, InChunk, Chunks2, NoChunk, ByLf, Twice,
          Sloppy, BadLine, BadSize} \cup BadPaths

\* Every kind before and after a request with content.
Pairs == {<<m, Static>> : m \in Kinds} \cup {<<InChunk, m>> : m \in Kinds}
Trios == {<<Static, Plain, InChunk>>, <<Chunks2, Plain, Empty>>}
PairsAndTrios == Pairs \cup Trios
TwoPlain == {<<Plain, Plain>>}

\* correctPathname against the form, and the limits against the names, for
\* every path of up to six characters.
ASSUME SmallPathsHaveOneForm ==
  \A p \in BoundedSeq({"/", " ", "a"}, 6) :
    /\ IsValidPathname(p) <=> ValidPath(p)
    /\ ValidPath(p) => CorrectPathname(p) = OneForm(p)
=============================================================================
