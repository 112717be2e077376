----------------------------- MODULE HttpFormat -----------------------------
(***************************************************************************)
(* What HTTP clients send: requests as clients mean them, and the bytes    *)
(* that the protocol writes them with.  Nothing here is taken from the     *)
(* parser; HttpStream and HttpConn hold the parser against it.             *)
(***************************************************************************)
EXTENDS HttpRequest, SequencesExt

Ends == {<<"CR", "LF">>, <<"LF">>}

\* A request: its request line, its headers, how the content is delimited, and
\* the content, in pieces if it is sent in chunks.  last is what stands in the
\* place of the size of the last chunk: 0, or what is no number.  A request
\* ends all its lines in one way.
Message ==
  [line : DOMAIN Lines \cup DOMAIN BadLines,
   headers : Seq(DOMAIN Lengths \cup {Chunked} \cup Data),
   framing : {"none", "length", "chunked"},
   content : Seq(Bytes),
   last : DOMAIN Sizes \cup Data,
   eol : Ends]

Body(m) == FlattenSeq(m.content)

\* The headers say how the content is delimited.
Announced(m) ==
  LET names == {m.headers[i] : i \in DOMAIN m.headers}
      lengths == names \cap DOMAIN Lengths
  IN  CASE m.framing = "none"    -> lengths = {} /\ Chunked \notin names
        [] m.framing = "length"  -> /\ {Lengths[h] : h \in lengths} = {Len(Body(m))}
                                    /\ Chunked \notin names
        [] m.framing = "chunked" -> lengths = {} /\ Chunked \in names

\* What is sent in chunks is not sent in empty ones, which would end it.
Chunkable(m) ==
  /\ \A i \in DOMAIN m.content :
       m.content[i] # <<>> /\ \E s \in DOMAIN Sizes : Sizes[s] = Len(m.content[i])
  /\ m.last \in DOMAIN Sizes => Sizes[m.last] = 0

Requests ==
  {m \in Message :
     /\ Announced(m)
     /\ m.framing = "none" => m.content = <<>>
     /\ m.framing = "chunked" => Chunkable(m)}

-----------------------------------------------------------------------------
(* The bytes of a request.                                                 *)

SizeOf(data) == CHOOSE s \in DOMAIN Sizes : Sizes[s] = Len(data)

HeaderLines(m) ==
  FlattenSeq([i \in DOMAIN m.headers |-> <<m.headers[i]>> \o m.eol])

Chunks(m) ==
  FlattenSeq([i \in DOMAIN m.content |->
                <<SizeOf(m.content[i])>> \o m.eol \o m.content[i] \o m.eol])

Content(m) ==
  IF m.framing = "chunked" THEN Chunks(m) \o <<m.last>> \o m.eol \o m.eol ELSE Body(m)

Wire(m) ==
  <<m.line>> \o m.eol \o HeaderLines(m) \o m.eol \o Content(m)

-----------------------------------------------------------------------------
(* What the server should make of it.                                      *)

\* No name in the path is longer than FilenameMax.
NamesFit(p) ==
  \A i, j \in DOMAIN p : (\A k \in i..j : p[k] # Slash) => j - i < FilenameMax

ValidPath(p) ==
  /\ Len(p) > 0 /\ Len(p) < PathMax /\ p[1] = Slash
  /\ \A i \in DOMAIN p : p[i] \notin Forbidden
  /\ NamesFit(p)

Sound(m) ==
  /\ m.line \in DOMAIN Lines /\ ValidPath(Lines[m.line].path)
  /\ m.framing = "chunked" => m.last \in DOMAIN Sizes

\* A slash is kept if a name follows it.
Names[p \in Paths] ==
  IF p = <<>> THEN <<>>
  ELSE IF p[1] = Slash /\ (Len(p) = 1 \/ p[2] = Slash) THEN Names[Tail(p)]
  ELSE <<p[1]>> \o Names[Tail(p)]

\* The one form of a path: its names, or a slash if there is none.
OneForm(p) == IF Names[Trim(p)] = <<>> THEN <<Slash>> ELSE Names[Trim(p)]

Path(m) == OneForm(Lines[m.line].path)
=============================================================================
