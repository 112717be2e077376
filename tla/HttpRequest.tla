----------------------------- MODULE HttpRequest -----------------------------
(***************************************************************************)
(* The incremental request parser of src/ad_http_handler.c (http_parser    *)
(* and the parse_* functions), fed by TCP in pieces of any size.           *)
(*                                                                         *)
(* A byte is a symbol.  A request line, a header or a chunk size is one    *)
(* symbol, because the parser only ever looks at whole lines; "CR" and     *)
(* "LF" are symbols of their own, because a piece may end between them;    *)
(* everything else is data.  The parser is a function of the request and   *)
(* of conn->in, so that its steps can be compared with each other.         *)
(***************************************************************************)
EXTENDS PathName

CONSTANTS
  Methods,    \* request methods
  Lines,      \* request line symbols, as a function to the method and to the
              \* path of the URI, without host and query and decoded
  BadLines,   \* symbols of an unknown version, or of a URI without a path and a
              \* host, as a function to the method
  Lengths,    \* header symbols "Content-Length: n", as a function to n
  Chunked,    \* the header symbol "Transfer-Encoding: chunked"
  Sizes,      \* chunk size symbols, as a function to the size
  Data,       \* every other symbol, header lines that are passed over included
  NoMethod    \* request.method == NULL

ASSUME SymbolAssumption ==
  /\ Lines \in [DOMAIN Lines -> [method : Methods, path : Paths]]
  /\ BadLines \in [DOMAIN BadLines -> Methods]
  /\ Lengths \in [DOMAIN Lengths -> Nat]
  /\ Sizes \in [DOMAIN Sizes -> Nat]
  /\ NoMethod \notin Methods
  /\ \A kind \in {DOMAIN Lines, DOMAIN BadLines, DOMAIN Lengths, {Chunked},
                  DOMAIN Sizes, Data} : {"CR", "LF"} \cap kind = {}
  /\ DOMAIN Lines \cap DOMAIN BadLines = {}
  /\ DOMAIN Lengths \cap ({Chunked} \cup Data) = {}
  /\ DOMAIN Sizes \cap Data = {} /\ Chunked \notin Data

Symbols == DOMAIN Lines \cup DOMAIN BadLines \cup DOMAIN Lengths \cup {Chunked}
           \cup DOMAIN Sizes \cup Data \cup {"CR", "LF"}

Bytes == Seq(Symbols)

\* enum ad_http_request_status_e, and the answers to the hook chain.
REQ_INIT == 0
REQUESTLINE_DONE == 1
HEADER_DONE == 2
REQ_DONE == 3
HTTP_ERROR == 4

AD_OK       == 0
AD_TAKEOVER == 1
AD_CLOSE    == 3

NoLength == -1

\* The request part of ad_http_t.  length is the Content-Length header that
\* was put last, contentlength what parse_headers made of it.
\* An empty path is none.
Request ==
  [status : REQ_INIT..HTTP_ERROR, method : Methods \cup {NoMethod}, path : Paths,
   length : Nat \cup {NoLength}, chunked : BOOLEAN,
   contentlength : Nat \cup {NoLength}, inbuf : Bytes, bodyin : Nat]

\* http_new.
NewRequest ==
  [status |-> REQ_INIT, method |-> NoMethod, path |-> <<>>, length |-> NoLength,
   chunked |-> FALSE, contentlength |-> NoLength, inbuf |-> <<>>, bodyin |-> 0]

\* What a function that takes bytes from conn->in leaves: the request, and in.
State == [req : Request, in : Bytes]
St(req, in) == [req |-> req, in |-> in]

-----------------------------------------------------------------------------
(* Lines of an evbuffer, EVBUFFER_EOL_CRLF: "\n", or "\r\n" if it is there. *)

LineFeeds(in) == {i \in DOMAIN in : in[i] = "LF"}
HasLine(in) == LineFeeds(in) # {}
LineFeed(in) == CHOOSE i \in LineFeeds(in) : \A j \in LineFeeds(in) : i <= j

EolLength(in) ==
  IF LineFeed(in) > 1 /\ in[LineFeed(in) - 1] = "CR" THEN 2 ELSE 1

Line(in) == SubSeq(in, 1, LineFeed(in) - EolLength(in))

Skip(in, n) == SubSeq(in, n + 1, Len(in))

\* evbuffer_readln and evbuffer_drainln: nothing happens without a line.
DrainLine(in) == IF HasLine(in) THEN Skip(in, LineFeed(in)) ELSE in

Least(a, b) == IF a <= b THEN a ELSE b

-----------------------------------------------------------------------------
(* The four stages.                                                        *)

\* What becomes of the request line of each symbol: its status and its path.
LineStatus ==
  [l \in DOMAIN Lines |->
     IF IsValidPathname(Lines[l].path) THEN REQUESTLINE_DONE ELSE HTTP_ERROR]
LinePath ==
  [l \in DOMAIN Lines |->
     IF IsValidPathname(Lines[l].path)
       THEN CorrectPathname(Lines[l].path) ELSE Lines[l].path]

\* parse_requestline: an unknown version or a bad URI leaves the method set,
\* too few or too many words do not.
ParseRequestLine(req, line) ==
  CASE Len(line) = 1 /\ line[1] \in DOMAIN Lines ->
         [req EXCEPT !.status = LineStatus[line[1]],
                     !.method = Lines[line[1]].method, !.path = LinePath[line[1]]]
    [] Len(line) = 1 /\ line[1] \in DOMAIN BadLines ->
         [req EXCEPT !.status = HTTP_ERROR, !.method = BadLines[line[1]]]
    [] OTHER -> [req EXCEPT !.status = HTTP_ERROR]

\* The header table keeps one entry per name, the last.
PutHeader(req, line) ==
  CASE line[1] \in DOMAIN Lengths -> [req EXCEPT !.length = Lengths[line[1]]]
    [] line[1] = Chunked          -> [req EXCEPT !.chunked = TRUE]
    [] OTHER                      -> req

EndHeaders(req) ==
  [req EXCEPT !.status = HEADER_DONE, !.contentlength = req.length]

\* parse_headers: line by line, as far as the lines have arrived.
ParseHeaders[s \in State] ==
  IF ~HasLine(s.in) THEN s
  ELSE LET line == Line(s.in)
           rest == DrainLine(s.in)
       IN  IF line = <<>> THEN St(EndHeaders(s.req), rest)
           ELSE ParseHeaders[St(PutHeader(s.req, line), rest)]

\* Slip: the bytes are copied and stay in conn->in.
AddInbufCopies(s, n) ==
  St([s.req EXCEPT !.inbuf = @ \o SubSeq(s.in, 1, Least(n, Len(s.in)))], s.in)

\* http_add_inbuf: at most n bytes move to the request.
AddInbuf(s, n) ==
  St([s.req EXCEPT !.inbuf = @ \o SubSeq(s.in, 1, Least(n, Len(s.in)))],
     Skip(s.in, Least(n, Len(s.in))))

\* sscanf("%x"): a line that is no number leaves the size at -1.
ChunkSize(line) ==
  IF Len(line) >= 1 /\ line[1] \in DOMAIN Sizes THEN Sizes[line[1]] ELSE -1

\* Slip: one byte more than the chunk is waited for.
ChunkLengthOver(in) ==
  Len(Line(in)) + EolLength(in) + ChunkSize(Line(in)) + EolLength(in) + 1

\* What parse_chunked_body expects of a whole chunk: the line end after the
\* data is taken to be as long as the one after the size.
ChunkLength(in) ==
  Len(Line(in)) + EolLength(in) + ChunkSize(Line(in)) + EolLength(in)

\* Slips: the line end after the data stays, or becomes content.
TakeChunkKeepsEol(s) ==
  AddInbuf(St(s.req, DrainLine(s.in)), ChunkSize(Line(s.in)))

TakeChunkWithEol(s) ==
  AddInbuf(St(s.req, DrainLine(s.in)), ChunkSize(Line(s.in)) + EolLength(s.in))

\* Both calls of evbuffer_drainln and the move between them.
TakeChunk(s) ==
  LET moved == AddInbuf(St(s.req, DrainLine(s.in)), ChunkSize(Line(s.in)))
  IN  St(moved.req, DrainLine(moved.in))

SetStatus(s, status) == St([s.req EXCEPT !.status = status], s.in)

\* parse_chunked_body, called in the loop of parse_body.
ParseChunks[s \in State] ==
  IF ~HasLine(s.in) THEN s
  ELSE LET size == ChunkSize(Line(s.in))
       IN  IF size < 0 THEN SetStatus(s, HTTP_ERROR)
           ELSE IF Len(s.in) < ChunkLength(s.in) THEN s
           ELSE IF size = 0 THEN SetStatus(TakeChunk(s), REQ_DONE)
           ELSE ParseChunks[TakeChunk(s)]

\* Slip: what came with earlier pieces is asked for again.
ParseStaticAgain(s) ==
  LET moved  == AddInbuf(s, s.req.contentlength)
      bodyin == s.req.bodyin + Least(s.req.contentlength, Len(s.in))
      after  == St([moved.req EXCEPT !.bodyin = bodyin], moved.in)
  IN  IF bodyin = s.req.contentlength THEN SetStatus(after, REQ_DONE) ELSE after

\* The branch of parse_body for a Content-Length: what is missing is taken.
ParseStatic(s) ==
  LET wanted == s.req.contentlength - s.req.bodyin
      moved  == AddInbuf(s, wanted)
      bodyin == s.req.bodyin + Least(wanted, Len(s.in))
      after  == St([moved.req EXCEPT !.bodyin = bodyin], moved.in)
  IN  IF bodyin = s.req.contentlength THEN SetStatus(after, REQ_DONE) ELSE after

ParseBody(s) ==
  CASE s.req.contentlength >= 0 -> ParseStatic(s)
    [] s.req.contentlength < 0 /\ s.req.chunked -> ParseChunks[s]
    [] OTHER -> SetStatus(s, REQ_DONE)

-----------------------------------------------------------------------------
(* http_parser: each stage runs if the one before it got so far.           *)

AtRequestLine(s) ==
  IF s.req.status = REQ_INIT /\ HasLine(s.in)
    THEN St(ParseRequestLine(s.req, Line(s.in)), DrainLine(s.in)) ELSE s

AtHeaders(s) ==
  IF s.req.status = REQUESTLINE_DONE THEN ParseHeaders[s] ELSE s

AtBody(s) == IF s.req.status = HEADER_DONE THEN ParseBody(s) ELSE s

HttpParser(s) == AtBody(AtHeaders(AtRequestLine(s)))

\* Slip: the status of the request is the answer.
AnswerIsStatus(req) == req.status

\* The value http_parser returns.  Without a whole request line it returns
\* the request's status, and AD_HTTP_REQ_INIT is the same number as AD_OK.
Answer(req) ==
  CASE req.status = REQ_INIT -> REQ_INIT
    [] req.status \in {REQUESTLINE_DONE, HEADER_DONE} -> AD_TAKEOVER
    [] req.status = REQ_DONE -> AD_OK
    [] req.status = HTTP_ERROR -> AD_CLOSE
=============================================================================
