-------------------------- MODULE HttpRequestProofs --------------------------
(***************************************************************************)
(* Proofs about the parser of HttpRequest and about the paths of PathName, *)
(* for every alphabet, every request and every number of headers and       *)
(* chunks.                                                                 *)
(*                                                                         *)
(* The parser and the protocol are recursive functions.  What a recursive  *)
(* function gives for every argument follows by the induction lemmas of    *)
(* Recursion, on the length of the in-buffer or on the number of headers,  *)
(* chunks or characters that are left.                                     *)
(*                                                                         *)
(* ParserInPieces: to read in two pieces is to read in one.  RequestSent:  *)
(* what the parser makes of a whole request.  RequestArrives joins them:   *)
(* what it can have made of the part that has arrived.                     *)
(***************************************************************************)
EXTENDS HttpFormat, Recursion, SequenceTheorems

(* Sequences.                                                              *)

\* A sequence is cut in two, and what is cut from its front is cut from any
\* longer one.
LEMMA CutLemma ==
  ASSUME NEW S, NEW a \in Seq(S), NEW n \in 0..Len(a)
  PROVE  /\ SubSeq(a, 1, n) \in Seq(S) /\ Len(SubSeq(a, 1, n)) = n
         /\ Skip(a, n) \in Seq(S) /\ Len(Skip(a, n)) = Len(a) - n
         /\ \A i \in 1..(Len(a) - n) : Skip(a, n)[i] = a[n + i]
         /\ SubSeq(a, 1, n) \o Skip(a, n) = a
         /\ Skip(a, 0) = a /\ Skip(a, Len(a)) = <<>> /\ SubSeq(a, 1, Len(a)) = a
<1>1. /\ SubSeq(a, 1, n) \in Seq(S) /\ Len(SubSeq(a, 1, n)) = n
      /\ Skip(a, n) \in Seq(S) /\ Len(Skip(a, n)) = Len(a) - n
      /\ \A i \in 1..(Len(a) - n) : Skip(a, n)[i] = a[n + i]
      /\ \A i \in 1..n : SubSeq(a, 1, n)[i] = a[i]
  BY DEF Skip
<1>2. SubSeq(a, 1, n) \o Skip(a, n) = a
  <2> DEFINE b == SubSeq(a, 1, n) \o Skip(a, n)
  <2>1. b \in Seq(S) /\ Len(b) = Len(a)
    BY <1>1, ConcatProperties
  <2>2. ASSUME NEW i \in 1..Len(a)
        PROVE  b[i] = a[i]
    BY <1>1
  <2> HIDE DEF b
  <2>3. b = a
    BY <2>1, <2>2, SeqEqual
  <2> QED
    BY <2>3 DEF b
<1>3. Skip(a, 0) = a /\ Skip(a, Len(a)) = <<>> /\ SubSeq(a, 1, Len(a)) = a
  BY SubSeqFull, SubSeqEmpty DEF Skip
<1> QED
  BY <1>1, <1>2, <1>3

\* Two sequences in a row: where their elements are, and what is cut off.
LEMMA CutJoinLemma ==
  ASSUME NEW S, NEW a \in Seq(S), NEW b \in Seq(S)
  PROVE  /\ a \o b \in Seq(S) /\ Len(a \o b) = Len(a) + Len(b)
         /\ \A i \in 1..Len(a) : (a \o b)[i] = a[i]
         /\ \A i \in 1..Len(b) : (a \o b)[Len(a) + i] = b[i]
         /\ \A n \in 0..Len(a) : /\ SubSeq(a \o b, 1, n) = SubSeq(a, 1, n)
                                 /\ Skip(a \o b, n) = Skip(a, n) \o b
         /\ Skip(a \o b, Len(a)) = b
         /\ a \o <<>> = a /\ <<>> \o a = a
<1>1. /\ a \o b \in Seq(S) /\ Len(a \o b) = Len(a) + Len(b)
      /\ \A i \in 1..Len(a) : (a \o b)[i] = a[i]
      /\ \A i \in 1..Len(b) : (a \o b)[Len(a) + i] = b[i]
  OBVIOUS
<1>2. a \o <<>> = a /\ <<>> \o a = a
  OBVIOUS
<1>3. ASSUME NEW n \in 0..Len(a)
      PROVE  SubSeq(a \o b, 1, n) = SubSeq(a, 1, n)
  BY <1>1
<1>4. ASSUME NEW n \in 0..Len(a)
      PROVE  Skip(a \o b, n) = Skip(a, n) \o b
  <2> DEFINE x == Skip(a \o b, n)
             y == Skip(a, n) \o b
  <2>1. /\ Skip(a, n) \in Seq(S) /\ Len(Skip(a, n)) = Len(a) - n
        /\ \A i \in 1..(Len(a) - n) : Skip(a, n)[i] = a[n + i]
    BY CutLemma
  <2>2. n \in 0..Len(a \o b)
    BY <1>1
  <2>3. /\ x \in Seq(S) /\ Len(x) = Len(a) + Len(b) - n
        /\ \A i \in 1..(Len(a) + Len(b) - n) : x[i] = (a \o b)[n + i]
    <3> DEFINE c == a \o b
    <3>1. c \in Seq(S) /\ Len(c) = Len(a) + Len(b) /\ n \in 0..Len(c)
      BY <1>1
    <3> HIDE DEF c
    <3>2. /\ Skip(c, n) \in Seq(S) /\ Len(Skip(c, n)) = Len(c) - n
          /\ \A i \in 1..(Len(c) - n) : Skip(c, n)[i] = c[n + i]
      BY <3>1, CutLemma
    <3> QED
      BY <3>1, <3>2 DEF c
  <2>4. /\ y \in Seq(S) /\ Len(y) = Len(a) + Len(b) - n
        /\ \A i \in 1..(Len(a) + Len(b) - n) :
             y[i] = IF i <= Len(a) - n THEN a[n + i] ELSE b[i - (Len(a) - n)]
    <3> DEFINE d == Skip(a, n)
    <3>1. /\ d \in Seq(S) /\ Len(d) = Len(a) - n
          /\ \A i \in 1..(Len(a) - n) : d[i] = a[n + i]
      BY <2>1
    <3> HIDE DEF d
    <3>2. /\ d \o b \in Seq(S) /\ Len(d \o b) = Len(d) + Len(b)
          /\ \A i \in 1..(Len(d) + Len(b)) :
               (d \o b)[i] = IF i <= Len(d) THEN d[i] ELSE b[i - Len(d)]
      BY <3>1, ConcatProperties
    <3>3. /\ d \o b \in Seq(S) /\ Len(d \o b) = Len(a) + Len(b) - n
          /\ \A i \in 1..(Len(a) + Len(b) - n) :
             (d \o b)[i] = IF i <= Len(a) - n THEN a[n + i] ELSE b[i - (Len(a) - n)]
      BY <3>1, <3>2
    <3> QED
      BY <3>3 DEF d
  <2>5. ASSUME NEW i \in 1..(Len(a) + Len(b) - n)
        PROVE  (a \o b)[n + i] = IF i <= Len(a) - n THEN a[n + i] ELSE b[i - (Len(a) - n)]
    <3>1. n + i \in 1..(Len(a) + Len(b)) /\ (n + i) - Len(a) = i - (Len(a) - n)
      OBVIOUS
    <3> QED
      BY <3>1, ConcatProperties
  <2> HIDE DEF x, y
  <2>6. x = y
    <3>1. Len(x) = Len(y) /\ \A i \in 1..Len(x) : x[i] = y[i]
      BY <2>3, <2>4, <2>5
    <3> QED
      BY <2>3, <2>4, <3>1, SeqEqual
  <2> QED
    BY <2>6 DEF x, y
<1>5. Skip(a \o b, Len(a)) = b
  BY <1>4, <1>2, CutLemma
<1> QED
  BY <1>1, <1>2, <1>3, <1>4, <1>5

\* Joining sequences is associative.
LEMMA JoinAssoc ==
  ASSUME NEW S, NEW a \in Seq(S), NEW b \in Seq(S), NEW c \in Seq(S)
  PROVE  (a \o b) \o c = a \o (b \o c)
BY ConcatAssociative

\* To skip twice is to skip the sum.
LEMMA SkipSkip ==
  ASSUME NEW S, NEW a \in Seq(S), NEW m \in 0..Len(a), NEW n \in 0..(Len(a) - m)
  PROVE  Skip(Skip(a, m), n) = Skip(a, m + n)
BY DEF Skip

-----------------------------------------------------------------------------
(* Lines.                                                                  *)

\* The first LF ends the line; the line and what is behind it are bytes.
LEMMA LineLemma ==
  ASSUME NEW a \in Bytes
  PROVE  /\ \A n \in DOMAIN a : a[n] = "LF" /\ (\A j \in 1..(n - 1) : a[j] # "LF")
              => HasLine(a) /\ LineFeed(a) = n
         /\ HasLine(a) =>
              /\ LineFeed(a) \in DOMAIN a /\ a[LineFeed(a)] = "LF"
              /\ \A j \in 1..(LineFeed(a) - 1) : a[j] # "LF"
              /\ EolLength(a) \in 1..2 /\ EolLength(a) <= LineFeed(a)
              /\ Line(a) \in Bytes /\ Len(Line(a)) = LineFeed(a) - EolLength(a)
              /\ DrainLine(a) \in Bytes /\ Len(DrainLine(a)) = Len(a) - LineFeed(a)
<1>1. LineFeeds(a) \subseteq 1..Len(a) /\ DOMAIN a = 1..Len(a) /\ Len(a) \in Nat
  BY DEF LineFeeds, Bytes
<1>2. ASSUME NEW n \in DOMAIN a, a[n] = "LF", \A j \in 1..(n - 1) : a[j] # "LF"
      PROVE  HasLine(a) /\ LineFeed(a) = n
  <2>1. n \in LineFeeds(a) /\ \A j \in LineFeeds(a) : n <= j
    BY <1>1, <1>2 DEF LineFeeds
  <2>2. \A k \in LineFeeds(a) : (\A j \in LineFeeds(a) : k <= j) => k = n
    BY <1>1, <2>1
  <2> QED
    BY <2>1, <2>2 DEF HasLine, LineFeed
<1>3. ASSUME HasLine(a)
      PROVE  /\ LineFeed(a) \in DOMAIN a /\ a[LineFeed(a)] = "LF"
             /\ \A j \in 1..(LineFeed(a) - 1) : a[j] # "LF"
  <2>1. LineFeeds(a) # {} /\ LineFeeds(a) \subseteq Nat
    BY <1>1, <1>3 DEF HasLine
  <2>2. \E n \in LineFeeds(a) : \A j \in LineFeeds(a) : n <= j
    BY <2>1, LeastNatural
  <2>3. LineFeed(a) \in LineFeeds(a) /\ \A j \in LineFeeds(a) : LineFeed(a) <= j
    BY <2>2, Zenon DEF LineFeed
  <2> QED
    BY <1>1, <2>3 DEF LineFeeds
<1>4. ASSUME HasLine(a)
      PROVE  /\ EolLength(a) \in 1..2 /\ EolLength(a) <= LineFeed(a)
             /\ Line(a) \in Bytes /\ Len(Line(a)) = LineFeed(a) - EolLength(a)
             /\ DrainLine(a) \in Bytes /\ Len(DrainLine(a)) = Len(a) - LineFeed(a)
  <2>1. EolLength(a) \in 1..2 /\ EolLength(a) <= LineFeed(a)
    BY <1>1, <1>3, <1>4 DEF EolLength
  <2>2. LineFeed(a) \in 0..Len(a) /\ LineFeed(a) - EolLength(a) \in 0..Len(a)
    BY <1>1, <1>3, <1>4, <2>1
  <2>3. Line(a) \in Bytes /\ Len(Line(a)) = LineFeed(a) - EolLength(a)
    BY <2>2, CutLemma DEF Line, Bytes
  <2>4. DrainLine(a) \in Bytes /\ Len(DrainLine(a)) = Len(a) - LineFeed(a)
    BY <1>4, <2>2, CutLemma DEF DrainLine, Bytes
  <2> QED
    BY <2>1, <2>3, <2>4
<1> QED
  BY <1>2, <1>3, <1>4

\* A line that has arrived does not change when more arrives.
LEMMA LineJoin ==
  ASSUME NEW a \in Bytes, NEW b \in Bytes, HasLine(a)
  PROVE  /\ a \o b \in Bytes /\ HasLine(a \o b)
         /\ LineFeed(a \o b) = LineFeed(a) /\ EolLength(a \o b) = EolLength(a)
         /\ Line(a \o b) = Line(a) /\ DrainLine(a \o b) = DrainLine(a) \o b
<1> DEFINE c == a \o b
           n == LineFeed(a)
<1>1. /\ c \in Bytes /\ Len(c) = Len(a) + Len(b) /\ Len(a) \in Nat /\ Len(b) \in Nat
      /\ \A i \in 1..Len(a) : c[i] = a[i]
      /\ DOMAIN a = 1..Len(a) /\ DOMAIN c = 1..Len(c)
  BY CutJoinLemma DEF Bytes
<1>2. /\ n \in 1..Len(a) /\ a[n] = "LF" /\ \A j \in 1..(n - 1) : a[j] # "LF"
      /\ EolLength(a) \in 1..2 /\ EolLength(a) <= n
  BY <1>1, LineLemma
<1> HIDE DEF c, n
<1>3. HasLine(c) /\ LineFeed(c) = n
  <2>1. n \in DOMAIN c /\ c[n] = "LF" /\ \A j \in 1..(n - 1) : c[j] # "LF"
    BY <1>1, <1>2
  <2> QED
    BY <1>1, <2>1, LineLemma
<1>4. EolLength(c) = EolLength(a)
  <2>1. n > 1 => c[n - 1] = a[n - 1]
    BY <1>1, <1>2
  <2> QED
    BY <1>3, <2>1 DEF EolLength, n
<1>5. n \in 0..Len(a) /\ n - EolLength(a) \in 0..Len(a)
  BY <1>1, <1>2
<1>6. Line(c) = Line(a)
  BY <1>3, <1>4, <1>5, CutJoinLemma DEF Line, Bytes, c, n
<1>7. DrainLine(c) = DrainLine(a) \o b
  <2>1. Skip(c, n) = Skip(a, n) \o b
    BY <1>5, CutJoinLemma DEF Bytes, c
  <2> QED
    BY <1>3, <2>1 DEF DrainLine, n
<1> QED
  BY <1>1, <1>3, <1>4, <1>6, <1>7 DEF c, n

-----------------------------------------------------------------------------
(* Types.                                                                  *)

\* A state of the parser is a request and a buffer.
LEMMA StateLemma ==
  /\ \A req \in Request, in \in Bytes :
       St(req, in) \in State /\ St(req, in).req = req /\ St(req, in).in = in
  /\ \A s \in State : s.req \in Request /\ s.in \in Bytes /\ s = St(s.req, s.in)
BY DEF State, St

\* Methods and paths of the request lines.
LEMMA PathTypes ==
  /\ \A l \in DOMAIN Lines : Lines[l].method \in Methods /\ Lines[l].path \in Paths
  /\ \A l \in DOMAIN BadLines : BadLines[l] \in Methods
BY SymbolAssumption

\* parse_headers keeps the types of a request.
LEMMA HeaderTypes ==
  ASSUME NEW req \in Request
  PROVE  /\ EndHeaders(req) \in Request
         /\ \A line : PutHeader(req, line) \in Request
<1>1. EndHeaders(req) \in Request
  <2>1. HEADER_DONE \in REQ_INIT..HTTP_ERROR
    BY DEF HEADER_DONE, REQ_INIT, HTTP_ERROR
  <2>2. req.length \in Nat \cup {NoLength}
    BY DEF Request
  <2> HIDE DEF REQ_INIT, HTTP_ERROR, NoLength, HEADER_DONE
  <2> QED
    BY <2>1, <2>2, Zenon DEF EndHeaders, Request
<1>2. ASSUME NEW line PROVE PutHeader(req, line) \in Request
  <2>1. CASE line[1] \in DOMAIN Lengths
    <3>1. Lengths[line[1]] \in Nat \cup {NoLength}
      BY <2>1, SymbolAssumption
    <3>2. line[1] # Chunked
      BY <2>1, SymbolAssumption
    <3>3. [req EXCEPT !.length = Lengths[line[1]]] \in Request
      BY <3>1, Zenon DEF Request
    <3> QED
      BY <2>1, <3>2, <3>3 DEF PutHeader
  <2>2. CASE line[1] = Chunked
    <3>1. line[1] \notin DOMAIN Lengths
      BY <2>2, SymbolAssumption
    <3>2. [req EXCEPT !.chunked = TRUE] \in Request
      BY Zenon DEF Request
    <3> QED
      BY <2>2, <3>1, <3>2 DEF PutHeader
  <2>3. CASE line[1] \notin DOMAIN Lengths /\ line[1] # Chunked
    BY <2>3 DEF PutHeader
  <2> QED
    BY <2>1, <2>2, <2>3
<1> QED
  BY <1>1, <1>2

-----------------------------------------------------------------------------
(* The headers.                                                            *)

\* What one more line of the headers makes of the state.
HeaderStep(s) == St(PutHeader(s.req, Line(s.in)), DrainLine(s.in))

\* One header takes its line and no more.
LEMMA HeaderStepLemma ==
  ASSUME NEW s \in State, HasLine(s.in)
  PROVE  HeaderStep(s) \in State /\ Len(HeaderStep(s).in) < Len(s.in)
         /\ HeaderStep(s).in = DrainLine(s.in)
         /\ HeaderStep(s).req = PutHeader(s.req, Line(s.in))
<1>1. s.req \in Request /\ s.in \in Bytes
  BY StateLemma
<1>2. DrainLine(s.in) \in Bytes /\ Len(DrainLine(s.in)) < Len(s.in)
  BY <1>1, LineLemma DEF Bytes
<1> QED
  BY <1>1, <1>2, HeaderTypes, StateLemma DEF HeaderStep

\* The loop of parse_headers, unfolded once.
LEMMA ParseHeadersDef ==
  /\ ParseHeaders \in [State -> State]
  /\ \A s \in State :
       ParseHeaders[s] =
         IF ~HasLine(s.in) THEN s
         ELSE IF Line(s.in) = <<>> THEN St(EndHeaders(s.req), DrainLine(s.in))
         ELSE ParseHeaders[HeaderStep(s)]
<1> DEFINE T == {s \in State : HasLine(s.in) /\ Line(s.in) # <<>>}
           step == [s \in T |-> HeaderStep(s)]
           comb == [s \in T |-> [v \in State |-> v]]
           end(s) == IF ~HasLine(s.in) THEN s ELSE St(EndHeaders(s.req), DrainLine(s.in))
           out == [s \in State |-> end(s)]
           size == [s \in State |-> Len(s.in)]
           F(g) == [s \in State |->
                      IF ~HasLine(s.in) THEN s
                      ELSE IF Line(s.in) = <<>> THEN St(EndHeaders(s.req), DrainLine(s.in))
                      ELSE g[HeaderStep(s)]]
<1>1. Descends(State, State, T, step, comb, out, size)
  <2>1. step \in [T -> State] /\ \A s \in T : size[step[s]] < size[s]
    BY HeaderStepLemma
  <2>2. comb \in [T -> [State -> State]]
    OBVIOUS
  <2>3. out \in [State -> State]
    <3> SUFFICES ASSUME NEW s \in State PROVE end(s) \in State
      OBVIOUS
    <3> QED
      BY StateLemma, HeaderTypes, LineLemma
  <2>4. size \in [State -> Nat]
    BY StateLemma DEF Bytes
  <2> HIDE DEF T, step, comb, out, size
  <2>5. T \subseteq State
    BY DEF T
  <2> QED
    BY <2>1, <2>2, <2>3, <2>4, <2>5 DEF Descends
<1>2. PICK g \in [State -> State] :
        \A s \in State : g[s] = IF s \in T THEN comb[s][g[step[s]]] ELSE out[s]
  <2> HIDE DEF T, step, comb, out, size
  <2> QED
    BY ONLY <1>1, LinearRecursion
<1>3. g = F(g)
  <2> SUFFICES ASSUME NEW s \in State PROVE g[s] = F(g)[s]
    OBVIOUS
  <2>1. CASE s \in T
    <3>1. step[s] = HeaderStep(s) /\ g[HeaderStep(s)] \in State
      BY <2>1, HeaderStepLemma
    <3> QED
      BY <2>1, <1>2, <3>1
  <2>2. CASE s \notin T
    BY <2>2, <1>2
  <2> QED
    BY <2>1, <2>2
<1>4. ParseHeaders = CHOOSE h : h = F(h)
  BY DEF ParseHeaders, HeaderStep
<1>5. ParseHeaders = F(ParseHeaders)
  BY <1>3, <1>4
<1>6. State \subseteq {s \in State : ParseHeaders[s] \in State}
  <2> DEFINE H == {s \in State : ParseHeaders[s] \in State}
  <2>1. ASSUME NEW s \in State, \A t \in State : size[t] < size[s] => t \in H
        PROVE  s \in H
    <3>1. CASE s \in T
      <4>1. HeaderStep(s) \in State /\ size[HeaderStep(s)] < size[s]
        BY <3>1, HeaderStepLemma
      <4>2. ParseHeaders[s] = ParseHeaders[HeaderStep(s)]
        BY <3>1, <1>5
      <4> QED
        BY <2>1, <4>1, <4>2
    <3>2. CASE s \notin T
      <4>1. ParseHeaders[s] = end(s) /\ end(s) = out[s]
        BY <3>2, <1>5
      <4> QED
        BY <4>1, <1>1 DEF Descends
    <3> QED
      BY <3>1, <3>2
  <2>2. size \in [State -> Nat]
    BY <1>1 DEF Descends
  <2> HIDE DEF H, size
  <2>3. State \subseteq H
    BY <2>1, <2>2, InductionOnSize
  <2> QED
    BY <2>3 DEF H
<1>7. ParseHeaders \in [State -> State]
  BY <1>5, <1>6
<1> QED
  BY <1>5, <1>7

\* More bytes arrive.
Grown(s, x) == St(s.req, s.in \o x)

\* A buffer that grows twice has grown by both pieces.
LEMMA GrownLemma ==
  ASSUME NEW s \in State, NEW x \in Bytes
  PROVE  /\ Grown(s, x) \in State
         /\ Grown(s, x).req = s.req /\ Grown(s, x).in = s.in \o x
         /\ \A y \in Bytes : Grown(Grown(s, x), y) = Grown(s, x \o y)
         /\ Grown(s, <<>>) = s
<1>1. s.req \in Request /\ s.in \in Bytes /\ s.in \o x \in Bytes /\ s = St(s.req, s.in)
  BY StateLemma, CutJoinLemma DEF Bytes
<1>2. Grown(s, x) \in State /\ Grown(s, x).req = s.req /\ Grown(s, x).in = s.in \o x
  BY <1>1, StateLemma DEF Grown
<1>3. ASSUME NEW y \in Bytes PROVE Grown(Grown(s, x), y) = Grown(s, x \o y)
  <2>1. (s.in \o x) \o y = s.in \o (x \o y)
    <3> DEFINE a == s.in
    <3>1. a \in Seq(Symbols) /\ x \in Seq(Symbols) /\ y \in Seq(Symbols)
      BY <1>1 DEF Bytes
    <3> HIDE DEF a
    <3>2. (a \o x) \o y = a \o (x \o y)
      BY <3>1, JoinAssoc
    <3> QED
      BY <3>2 DEF a
  <2> QED
    BY <1>2, <2>1 DEF Grown
<1>4. Grown(s, <<>>) = s
  BY <1>1, CutJoinLemma DEF Grown, Bytes
<1> QED
  BY <1>2, <1>3, <1>4

\* What parse_headers changes in a request, and what it leaves.
LEMMA HeaderFields ==
  ASSUME NEW req \in Request
  PROVE  /\ EndHeaders(req) = [req EXCEPT !.status = HEADER_DONE, !.contentlength = req.length]
         /\ EndHeaders(req).status = HEADER_DONE /\ EndHeaders(req).contentlength = req.length
         /\ EndHeaders(req).inbuf = req.inbuf /\ EndHeaders(req).bodyin = req.bodyin
         /\ EndHeaders(req).path = req.path /\ EndHeaders(req).method = req.method
         /\ EndHeaders(req).chunked = req.chunked
         /\ \A line :
              /\ PutHeader(req, line).status = req.status
              /\ PutHeader(req, line).contentlength = req.contentlength
              /\ PutHeader(req, line).inbuf = req.inbuf
              /\ PutHeader(req, line).bodyin = req.bodyin
              /\ PutHeader(req, line).path = req.path
              /\ PutHeader(req, line).method = req.method
              /\ PutHeader(req, line).length
                   = IF line[1] \in DOMAIN Lengths THEN Lengths[line[1]] ELSE req.length
              /\ PutHeader(req, line).chunked = (line[1] = Chunked \/ req.chunked)
<1>1. /\ EndHeaders(req) = [req EXCEPT !.status = HEADER_DONE, !.contentlength = req.length]
      /\ EndHeaders(req).status = HEADER_DONE /\ EndHeaders(req).contentlength = req.length
      /\ EndHeaders(req).inbuf = req.inbuf /\ EndHeaders(req).bodyin = req.bodyin
      /\ EndHeaders(req).path = req.path /\ EndHeaders(req).method = req.method
      /\ EndHeaders(req).chunked = req.chunked
  BY DEF EndHeaders, Request
<1>2. ASSUME NEW line
      PROVE  /\ PutHeader(req, line).status = req.status
             /\ PutHeader(req, line).contentlength = req.contentlength
             /\ PutHeader(req, line).inbuf = req.inbuf
             /\ PutHeader(req, line).bodyin = req.bodyin
             /\ PutHeader(req, line).path = req.path
             /\ PutHeader(req, line).method = req.method
             /\ PutHeader(req, line).length
                  = IF line[1] \in DOMAIN Lengths THEN Lengths[line[1]] ELSE req.length
             /\ PutHeader(req, line).chunked = (line[1] = Chunked \/ req.chunked)
  <2>1. CASE line[1] \in DOMAIN Lengths
    <3>1. line[1] # Chunked
      BY <2>1, SymbolAssumption
    <3>2. PutHeader(req, line) = [req EXCEPT !.length = Lengths[line[1]]]
      BY <2>1, <3>1 DEF PutHeader
    <3> QED
      BY <2>1, <3>1, <3>2 DEF Request
  <2>2. CASE line[1] = Chunked
    <3>1. line[1] \notin DOMAIN Lengths
      BY <2>2, SymbolAssumption
    <3>2. PutHeader(req, line) = [req EXCEPT !.chunked = TRUE]
      BY <2>2, <3>1 DEF PutHeader
    <3> QED
      BY <2>2, <3>1, <3>2 DEF Request
  <2>3. CASE line[1] \notin DOMAIN Lengths /\ line[1] # Chunked
    <3>1. PutHeader(req, line) = req
      BY <2>3 DEF PutHeader
    <3> QED
      BY <2>3, <3>1 DEF Request
  <2> QED
    BY <2>1, <2>2, <2>3
<1> QED
  BY <1>1, <1>2

\* Headers that arrive in two pieces are read as if they arrived in one.
LEMMA HeadersInPieces ==
  ASSUME NEW s \in State, s.req.status = REQUESTLINE_DONE, NEW x \in Bytes
  PROVE  LET r == ParseHeaders[s]
         IN  /\ r \in State /\ r.req.status \in {REQUESTLINE_DONE, HEADER_DONE}
             /\ r.req.bodyin = s.req.bodyin
             /\ r.req.status = REQUESTLINE_DONE =>
                  r.req.contentlength = s.req.contentlength
             /\ r.req.status = HEADER_DONE =>
                  ParseHeaders[Grown(s, x)] = Grown(r, x)
             /\ r.req.status = REQUESTLINE_DONE =>
                  ParseHeaders[Grown(r, x)] = ParseHeaders[Grown(s, x)]
<1> DEFINE Good(t) ==
             LET r == ParseHeaders[t]
             IN  /\ r.req.status \in {REQUESTLINE_DONE, HEADER_DONE}
                 /\ r.req.bodyin = t.req.bodyin
                 /\ r.req.status = REQUESTLINE_DONE =>
                      r.req.contentlength = t.req.contentlength
                 /\ r.req.status = HEADER_DONE =>
                      ParseHeaders[Grown(t, x)] = Grown(r, x)
                 /\ r.req.status = REQUESTLINE_DONE =>
                      ParseHeaders[Grown(r, x)] = ParseHeaders[Grown(t, x)]
           H == {t \in State : t.req.status = REQUESTLINE_DONE => Good(t)}
           size == [t \in State |-> Len(t.in)]
<1>0. REQUESTLINE_DONE # HEADER_DONE
  BY DEF REQUESTLINE_DONE, HEADER_DONE
<1>1. ASSUME NEW t \in State, \A u \in State : size[u] < size[t] => u \in H,
             t.req.status = REQUESTLINE_DONE
      PROVE  Good(t)
  <2>1. t.req \in Request /\ t.in \in Bytes /\ Grown(t, x) \in State
        /\ Grown(t, x).req = t.req /\ Grown(t, x).in = t.in \o x
    BY StateLemma, GrownLemma
  <2>2. CASE ~HasLine(t.in)
    BY <1>0, <1>1, <2>2, ParseHeadersDef
  <2>3. CASE HasLine(t.in) /\ Line(t.in) = <<>>
    <3>1. ParseHeaders[t] = St(EndHeaders(t.req), DrainLine(t.in))
      BY <2>3, ParseHeadersDef
    <3>2. ParseHeaders[Grown(t, x)] = St(EndHeaders(t.req), DrainLine(t.in) \o x)
      BY <2>1, <2>3, LineJoin, ParseHeadersDef
    <3>3. DrainLine(t.in) \in Bytes /\ EndHeaders(t.req) \in Request
      BY <2>1, <2>3, LineLemma, HeaderTypes
    <3>4. EndHeaders(t.req).status = HEADER_DONE /\ EndHeaders(t.req).bodyin = t.req.bodyin
      BY <2>1, HeaderFields
    <3>5. ParseHeaders[t].req = EndHeaders(t.req) /\ ParseHeaders[t].in = DrainLine(t.in)
      BY <3>1, <3>3, StateLemma
    <3> QED
      BY <1>0, <3>2, <3>4, <3>5 DEF Grown
  <2>4. CASE HasLine(t.in) /\ Line(t.in) # <<>>
    <3> DEFINE u == HeaderStep(t)
    <3>1. /\ u \in State /\ size[u] < size[t] /\ u.in = DrainLine(t.in)
          /\ u.req = PutHeader(t.req, Line(t.in))
      BY <2>4, HeaderStepLemma
    <3>3. ParseHeaders[t] = ParseHeaders[u]
      BY <2>4, ParseHeadersDef
    <3>4. ParseHeaders[Grown(t, x)] = ParseHeaders[Grown(u, x)]
      <4>1. /\ HasLine(t.in \o x) /\ Line(t.in \o x) = Line(t.in)
            /\ DrainLine(t.in \o x) = DrainLine(t.in) \o x
        BY <2>1, <2>4, LineJoin
      <4>2. HeaderStep(Grown(t, x)) = Grown(u, x)
        BY <2>1, <3>1, <4>1 DEF HeaderStep, Grown
      <4> QED
        BY <2>1, <2>4, <4>1, <4>2, ParseHeadersDef
    <3> HIDE DEF u
    <3>2. /\ u.req.status = REQUESTLINE_DONE /\ u.req.bodyin = t.req.bodyin
          /\ u.req.contentlength = t.req.contentlength
      <4> DEFINE l == Line(t.in)
                 q == t.req
      <4>1. u.req = PutHeader(q, l) /\ q \in Request /\ q.status = REQUESTLINE_DONE
        BY <1>1, <2>1, <3>1
      <4> HIDE DEF l, q
      <4>2. /\ PutHeader(q, l).status = q.status /\ PutHeader(q, l).bodyin = q.bodyin
            /\ PutHeader(q, l).contentlength = q.contentlength
        BY <4>1, HeaderFields
      <4> QED
        BY <4>1, <4>2 DEF q
    <3>5. Good(u)
      BY <1>1, <3>1, <3>2
    <3> QED
      BY <3>2, <3>3, <3>4, <3>5
  <2> QED
    BY <2>2, <2>3, <2>4
<1>2. size \in [State -> Nat]
  BY StateLemma DEF Bytes
<1>3. \A t \in State : (\A u \in State : size[u] < size[t] => u \in H) => t \in H
  BY <1>1
<1>4. State \subseteq H
  <2> HIDE DEF H, size
  <2> QED
    BY <1>2, <1>3, InductionOnSize
<1>5. Good(s) /\ ParseHeaders[s] \in State
  BY <1>4, ParseHeadersDef
<1> QED
  BY <1>5

-----------------------------------------------------------------------------
(* Chunks.                                                                 *)

\* A chunk has arrived, by the number of bytes that parse_chunked_body counts.
WholeChunk(in) ==
  HasLine(in) /\ ChunkSize(Line(in)) >= 0 /\ Len(in) >= ChunkLength(in)

\* What follows the data of a whole chunk, and what follows its line end.
AfterData(in)  == Skip(DrainLine(in), ChunkSize(Line(in)))
AfterChunk(in) == DrainLine(AfterData(in))

\* The data of a whole chunk.
ChunkData(in) == SubSeq(DrainLine(in), 1, ChunkSize(Line(in)))

\* The bytes counted hold the line end behind the data.
ChunkEnds(in) == HasLine(AfterData(in)) /\ LineFeed(AfterData(in)) <= EolLength(in)

\* They do so for every chunk from here on.
ChunksEnd(in) ==
  \E G \in SUBSET Bytes :
    /\ in \in G
    /\ \A c \in G : WholeChunk(c) =>
         ChunkEnds(c) /\ (ChunkSize(Line(c)) # 0 => AfterChunk(c) \in G)

\* The parts of a chunk that is in the buffer as a whole.
LEMMA ChunkLemma ==
  ASSUME NEW a \in Bytes, WholeChunk(a)
  PROVE  /\ ChunkSize(Line(a)) \in Nat
         /\ DrainLine(a) \in Bytes /\ ChunkSize(Line(a)) \in 0..Len(DrainLine(a))
         /\ AfterData(a) \in Bytes /\ Len(AfterData(a)) >= EolLength(a)
         /\ ChunkData(a) \in Bytes /\ Len(ChunkData(a)) = ChunkSize(Line(a))
         /\ EolLength(a) \in 1..2
         /\ AfterChunk(a) \in Bytes /\ Len(AfterChunk(a)) < Len(a)
<1>1. /\ HasLine(a) /\ LineFeed(a) \in 1..Len(a) /\ EolLength(a) \in 1..2
      /\ EolLength(a) <= LineFeed(a) /\ Len(a) \in Nat
      /\ Len(Line(a)) = LineFeed(a) - EolLength(a)
      /\ DrainLine(a) \in Bytes /\ Len(DrainLine(a)) = Len(a) - LineFeed(a)
  BY LineLemma DEF WholeChunk, Bytes
<1>2. ChunkSize(Line(a)) \in Nat
  BY SymbolAssumption DEF WholeChunk, ChunkSize
<1>3. ChunkSize(Line(a)) + EolLength(a) <= Len(DrainLine(a))
  BY <1>1, <1>2 DEF WholeChunk, ChunkLength
<1>4. ChunkSize(Line(a)) \in 0..Len(DrainLine(a))
  BY <1>1, <1>2, <1>3
<1>5. /\ AfterData(a) \in Bytes /\ Len(AfterData(a)) = Len(DrainLine(a)) - ChunkSize(Line(a))
      /\ ChunkData(a) \in Bytes /\ Len(ChunkData(a)) = ChunkSize(Line(a))
  <2> DEFINE d == DrainLine(a)
             n == ChunkSize(Line(a))
  <2>1. d \in Seq(Symbols) /\ n \in 0..Len(d)
    BY <1>1, <1>4 DEF Bytes
  <2> HIDE DEF d, n
  <2>2. /\ Skip(d, n) \in Seq(Symbols) /\ Len(Skip(d, n)) = Len(d) - n
        /\ SubSeq(d, 1, n) \in Seq(Symbols) /\ Len(SubSeq(d, 1, n)) = n
    BY <2>1, CutLemma
  <2> QED
    BY <2>2 DEF d, n, AfterData, ChunkData, Bytes
<1>6. AfterChunk(a) \in Bytes /\ Len(AfterChunk(a)) <= Len(AfterData(a))
  <2> DEFINE r == AfterData(a)
  <2>1. r \in Bytes /\ Len(r) \in Nat
    BY <1>5 DEF Bytes
  <2> HIDE DEF r
  <2>2. DrainLine(r) \in Bytes /\ Len(DrainLine(r)) <= Len(r)
    <3>1. CASE HasLine(r)
      BY <2>1, <3>1, LineLemma
    <3>2. CASE ~HasLine(r)
      BY <2>1, <3>2 DEF DrainLine
    <3> QED
      BY <3>1, <3>2
  <2> QED
    BY <2>2 DEF AfterChunk, r
<1> QED
  BY <1>1, <1>2, <1>3, <1>4, <1>5, <1>6

\* A whole chunk does not change when more arrives.
LEMMA ChunkJoin ==
  ASSUME NEW a \in Bytes, NEW b \in Bytes, WholeChunk(a)
  PROVE  /\ a \o b \in Bytes /\ WholeChunk(a \o b)
         /\ ChunkSize(Line(a \o b)) = ChunkSize(Line(a))
         /\ ChunkData(a \o b) = ChunkData(a)
         /\ ChunkEnds(a \o b) => ChunkEnds(a)
         /\ ChunkEnds(a) => /\ ChunkEnds(a \o b)
                            /\ AfterChunk(a \o b) = AfterChunk(a) \o b
<1> DEFINE d == DrainLine(a)
           n == ChunkSize(Line(a))
           r == AfterData(a)
<1>1. /\ a \o b \in Bytes /\ HasLine(a \o b) /\ EolLength(a \o b) = EolLength(a)
      /\ Line(a \o b) = Line(a) /\ DrainLine(a \o b) = d \o b
      /\ Len(a \o b) = Len(a) + Len(b) /\ Len(a) \in Nat /\ Len(b) \in Nat
  BY LineJoin, CutJoinLemma DEF WholeChunk, Bytes
<1>2. /\ d \in Bytes /\ n \in 0..Len(d) /\ r \in Bytes /\ EolLength(a) \in 1..2
      /\ Len(r) >= EolLength(a)
  BY ChunkLemma
<1>3. WholeChunk(a \o b)
  <2>1. Len(Line(a)) \in Nat /\ n \in Nat
    BY <1>1, LineLemma, ChunkLemma DEF WholeChunk, Bytes
  <2>2. ChunkLength(a \o b) = ChunkLength(a) /\ ChunkLength(a) \in Nat
    BY <1>1, <1>2, <2>1 DEF ChunkLength
  <2> QED
    BY <1>1, <2>2 DEF WholeChunk
<1>4. ChunkData(a \o b) = ChunkData(a) /\ AfterData(a \o b) = r \o b
  <2>1. d \o b = DrainLine(a \o b) /\ n = ChunkSize(Line(a \o b))
    BY <1>1
  <2> HIDE DEF d, n, r
  <2>2. SubSeq(d \o b, 1, n) = SubSeq(d, 1, n) /\ Skip(d \o b, n) = Skip(d, n) \o b
    BY <1>2, CutJoinLemma DEF Bytes
  <2> QED
    BY <2>1, <2>2 DEF ChunkData, AfterData, d, n, r
<1> HIDE DEF r
<1>5. ASSUME ChunkEnds(a)
      PROVE  ChunkEnds(a \o b) /\ AfterChunk(a \o b) = AfterChunk(a) \o b
  <2>1. HasLine(r) /\ LineFeed(r) <= EolLength(a)
    BY <1>5 DEF ChunkEnds, r
  <2>2. HasLine(r \o b) /\ LineFeed(r \o b) = LineFeed(r) /\ DrainLine(r \o b) = DrainLine(r) \o b
    BY <1>2, <2>1, LineJoin
  <2> QED
    BY <1>1, <1>4, <2>1, <2>2 DEF ChunkEnds, AfterChunk, r
<1>6. ASSUME ChunkEnds(a \o b)
      PROVE  ChunkEnds(a)
  <2> DEFINE c == r \o b
             k == LineFeed(c)
  <2>1. HasLine(c) /\ k <= EolLength(a)
    BY <1>1, <1>4, <1>6 DEF ChunkEnds
  <2>2. /\ c \in Bytes /\ Len(r) \in Nat
        /\ \A i \in 1..Len(r) : c[i] = r[i]
    BY <1>2, CutJoinLemma DEF Bytes
  <2> HIDE DEF c
  <2>3. k \in DOMAIN c /\ c[k] = "LF" /\ \A j \in 1..(k - 1) : c[j] # "LF"
    BY <2>1, <2>2, LineLemma
  <2>4. k \in 1..Len(r)
    BY <1>2, <2>1, <2>2, <2>3 DEF Bytes
  <2>5. k \in DOMAIN r /\ r[k] = "LF" /\ \A j \in 1..(k - 1) : r[j] # "LF"
    BY <1>2, <2>2, <2>3, <2>4 DEF Bytes
  <2> HIDE DEF k
  <2>6. HasLine(r) /\ LineFeed(r) = k
    BY <1>2, <2>5, LineLemma
  <2> QED
    BY <2>1, <2>6 DEF ChunkEnds, r
<1> QED
  BY <1>1, <1>3, <1>4, <1>5, <1>6

\* The chunks that have arrived end if they do when more has arrived.
LEMMA ChunksPrefix ==
  ASSUME NEW a \in Bytes, NEW b \in Bytes, ChunksEnd(a \o b)
  PROVE  ChunksEnd(a)
<1>1. PICK G \in SUBSET Bytes :
        /\ a \o b \in G
        /\ \A c \in G : WholeChunk(c) =>
             ChunkEnds(c) /\ (ChunkSize(Line(c)) # 0 => AfterChunk(c) \in G)
  BY DEF ChunksEnd
<1> DEFINE F == {c \in Bytes : c \o b \in G}
<1>2. ASSUME NEW c \in F, WholeChunk(c)
      PROVE  ChunkEnds(c) /\ (ChunkSize(Line(c)) # 0 => AfterChunk(c) \in F)
  <2>1. ChunkEnds(c \o b) /\ ChunkEnds(c)
    BY <1>1, <1>2, ChunkJoin
  <2>2. ChunkSize(Line(c)) # 0 => AfterChunk(c) \o b \in G
    BY <1>1, <1>2, <2>1, ChunkJoin
  <2> QED
    BY <1>2, <2>1, <2>2, ChunkLemma
<1> QED
  BY <1>1, <1>2 DEF ChunksEnd

\* What holds of all chunks holds of those behind the first.
LEMMA ChunksNext ==
  ASSUME NEW a \in Bytes, ChunksEnd(a), WholeChunk(a)
  PROVE  ChunkEnds(a) /\ (ChunkSize(Line(a)) # 0 => ChunksEnd(AfterChunk(a)))
BY DEF ChunksEnd

\* Content is added to the request.
WithData(req, data) == [req EXCEPT !.inbuf = @ \o data]

\* A chunk adds its data to the content and changes nothing else.
LEMMA DataFields ==
  ASSUME NEW req \in Request, NEW data \in Bytes
  PROVE  LET w == WithData(req, data)
         IN  /\ w \in Request /\ w.inbuf = req.inbuf \o data /\ w.status = req.status
             /\ w.method = req.method /\ w.path = req.path /\ w.length = req.length
             /\ w.chunked = req.chunked /\ w.contentlength = req.contentlength
             /\ w.bodyin = req.bodyin
<1>1. req.inbuf \in Bytes /\ req.inbuf \o data \in Bytes
  BY CutJoinLemma DEF Request, Bytes
<1>2. [req EXCEPT !.inbuf = @ \o data] \in Request
  <2> HIDE DEF Bytes
  <2> QED
    BY <1>1, Zenon DEF Request
<1> QED
  BY <1>2 DEF WithData, Request

\* A new status changes nothing else, and does not look at the buffer.
LEMMA StatusFields ==
  ASSUME NEW s \in State, NEW status \in REQ_INIT..HTTP_ERROR
  PROVE  LET t == SetStatus(s, status)
         IN  /\ t \in State /\ t.in = s.in /\ t.req.status = status
             /\ t.req.inbuf = s.req.inbuf /\ t.req.method = s.req.method
             /\ t.req.path = s.req.path /\ t.req.length = s.req.length
             /\ t.req.chunked = s.req.chunked /\ t.req.bodyin = s.req.bodyin
             /\ t.req.contentlength = s.req.contentlength
             /\ \A x \in Bytes : SetStatus(Grown(s, x), status) = Grown(t, x)
<1> DEFINE q == [s.req EXCEPT !.status = status]
<1>1. s.req \in Request /\ s.in \in Bytes
  BY StateLemma
<1>2. q \in Request
  <2> HIDE DEF REQ_INIT, HTTP_ERROR
  <2> QED
    BY <1>1, Zenon DEF Request
<1>3. /\ q.status = status /\ q.inbuf = s.req.inbuf /\ q.method = s.req.method
      /\ q.path = s.req.path /\ q.length = s.req.length /\ q.chunked = s.req.chunked
      /\ q.bodyin = s.req.bodyin /\ q.contentlength = s.req.contentlength
  BY <1>1 DEF Request
<1>4. SetStatus(s, status) = St(q, s.in)
  BY DEF SetStatus
<1> HIDE DEF q
<1>5. St(q, s.in) \in State /\ St(q, s.in).req = q /\ St(q, s.in).in = s.in
  BY <1>1, <1>2, StateLemma
<1>6. ASSUME NEW x \in Bytes
      PROVE  SetStatus(Grown(s, x), status) = St(q, s.in \o x)
  BY GrownLemma DEF SetStatus, q
<1> QED
  BY <1>3, <1>4, <1>5, <1>6 DEF Grown

\* What TakeChunk does to a whole chunk, whatever is behind it.
LEMMA TakeChunkLemma ==
  ASSUME NEW s \in State, WholeChunk(s.in)
  PROVE  /\ TakeChunk(s) = St(WithData(s.req, ChunkData(s.in)), AfterChunk(s.in))
         /\ TakeChunk(s) \in State
         /\ TakeChunk(s).req = WithData(s.req, ChunkData(s.in))
         /\ TakeChunk(s).in = AfterChunk(s.in)
         /\ \A x \in Bytes : ChunkEnds(s.in) => TakeChunk(Grown(s, x)) = Grown(TakeChunk(s), x)
<1> DEFINE Taken(t) == St(WithData(t.req, ChunkData(t.in)), AfterChunk(t.in))
<1>1. ASSUME NEW t \in State, WholeChunk(t.in)
      PROVE  /\ TakeChunk(t) = Taken(t) /\ Taken(t) \in State
             /\ Taken(t).req = WithData(t.req, ChunkData(t.in))
             /\ Taken(t).in = AfterChunk(t.in)
  <2> DEFINE d == DrainLine(t.in)
             n == ChunkSize(Line(t.in))
             u == St(t.req, d)
             moved == AddInbuf(u, n)
  <2>1. t.req \in Request /\ t.in \in Bytes
    BY StateLemma
  <2>2. /\ d \in Bytes /\ n \in 0..Len(d) /\ AfterChunk(t.in) \in Bytes
        /\ ChunkData(t.in) \in Bytes /\ Len(d) \in Nat
    BY <1>1, <2>1, ChunkLemma DEF Bytes
  <2>3. u.req = t.req /\ u.in = d
    BY <2>1, <2>2, StateLemma
  <2>4. Least(n, Len(d)) = n
    BY <2>2 DEF Least
  <2>5. moved = St(WithData(t.req, ChunkData(t.in)), AfterData(t.in))
    <3> HIDE DEF u, d, n
    <3>1. moved = St([t.req EXCEPT !.inbuf = @ \o SubSeq(d, 1, n)], Skip(d, n))
      BY <2>3, <2>4 DEF AddInbuf
    <3> QED
      BY <3>1 DEF WithData, ChunkData, AfterData, d, n
  <2>6. TakeChunk(t) = St(moved.req, DrainLine(moved.in))
    BY DEF TakeChunk
  <2> HIDE DEF moved
  <2>7. TakeChunk(t) = Taken(t)
    BY <2>5, <2>6 DEF St, AfterChunk
  <2> QED
    BY <2>1, <2>2, <2>7, DataFields, StateLemma
<1>2. ASSUME NEW x \in Bytes, ChunkEnds(s.in)
      PROVE  TakeChunk(Grown(s, x)) = Grown(TakeChunk(s), x)
  <2>1. /\ Grown(s, x) \in State /\ Grown(s, x).req = s.req
        /\ Grown(s, x).in = s.in \o x /\ s.in \in Bytes
    BY GrownLemma, StateLemma
  <2>2. /\ WholeChunk(s.in \o x) /\ ChunkData(s.in \o x) = ChunkData(s.in)
        /\ AfterChunk(s.in \o x) = AfterChunk(s.in) \o x
    BY <1>2, <2>1, ChunkJoin
  <2>3. TakeChunk(Grown(s, x)) = Taken(Grown(s, x))
    BY <1>1, <2>1, <2>2
  <2>4. Taken(Grown(s, x)) = St(WithData(s.req, ChunkData(s.in)), AfterChunk(s.in) \o x)
    BY <2>1, <2>2
  <2> QED
    BY <1>1, <2>3, <2>4 DEF Grown
<1> QED
  BY <1>1, <1>2

\* The loop of parse_chunked_body, unfolded once.
LEMMA ParseChunksDef ==
  /\ ParseChunks \in [State -> State]
  /\ \A s \in State :
       /\ ~HasLine(s.in) => ParseChunks[s] = s
       /\ HasLine(s.in) /\ ChunkSize(Line(s.in)) < 0 =>
            ParseChunks[s] = SetStatus(s, HTTP_ERROR)
       /\ HasLine(s.in) /\ ChunkSize(Line(s.in)) >= 0 /\ ~WholeChunk(s.in) =>
            ParseChunks[s] = s
       /\ WholeChunk(s.in) /\ ChunkSize(Line(s.in)) = 0 =>
            ParseChunks[s] = SetStatus(TakeChunk(s), REQ_DONE)
       /\ WholeChunk(s.in) /\ ChunkSize(Line(s.in)) # 0 =>
            ParseChunks[s] = ParseChunks[TakeChunk(s)]
<1> DEFINE T == {s \in State : WholeChunk(s.in) /\ ChunkSize(Line(s.in)) # 0}
           step == [s \in T |-> TakeChunk(s)]
           comb == [s \in T |-> [v \in State |-> v]]
           end(s) == IF ~HasLine(s.in) THEN s
                     ELSE IF ChunkSize(Line(s.in)) < 0 THEN SetStatus(s, HTTP_ERROR)
                     ELSE IF Len(s.in) < ChunkLength(s.in) THEN s
                     ELSE SetStatus(TakeChunk(s), REQ_DONE)
           out == [s \in State |-> IF s \in T THEN s ELSE end(s)]
           size == [s \in State |-> Len(s.in)]
           F(g) == [s \in State |->
                      IF ~HasLine(s.in) THEN s
                      ELSE IF ChunkSize(Line(s.in)) < 0 THEN SetStatus(s, HTTP_ERROR)
                      ELSE IF Len(s.in) < ChunkLength(s.in) THEN s
                      ELSE IF ChunkSize(Line(s.in)) = 0 THEN SetStatus(TakeChunk(s), REQ_DONE)
                      ELSE g[TakeChunk(s)]]
<1>0. HTTP_ERROR \in REQ_INIT..HTTP_ERROR /\ REQ_DONE \in REQ_INIT..HTTP_ERROR
  BY DEF HTTP_ERROR, REQ_DONE, REQ_INIT
<1>1. ASSUME NEW s \in State
      PROVE  /\ s.in \in Bytes /\ Len(s.in) \in Nat
             /\ HasLine(s.in) => ChunkSize(Line(s.in)) \in Int /\ ChunkLength(s.in) \in Int
             /\ WholeChunk(s.in) =>
                  /\ ChunkSize(Line(s.in)) \in Nat
                  /\ TakeChunk(s) \in State /\ Len(TakeChunk(s).in) < Len(s.in)
  <2>1. s.in \in Bytes /\ Len(s.in) \in Nat
    BY StateLemma DEF Bytes
  <2>2. ChunkSize(Line(s.in)) \in Int
    BY SymbolAssumption DEF ChunkSize
  <2>3. HasLine(s.in) => ChunkLength(s.in) \in Int
    <3> SUFFICES ASSUME HasLine(s.in) PROVE ChunkLength(s.in) \in Int
      OBVIOUS
    <3>1. Line(s.in) \in Bytes /\ EolLength(s.in) \in 1..2
      BY <2>1, LineLemma
    <3>2. Len(Line(s.in)) \in Nat
      BY <3>1 DEF Bytes
    <3> QED
      BY <2>2, <3>1, <3>2 DEF ChunkLength
  <2> QED
    BY <2>1, <2>2, <2>3, ChunkLemma, TakeChunkLemma
<1>2. Descends(State, State, T, step, comb, out, size)
  <2>1. step \in [T -> State] /\ \A s \in T : size[step[s]] < size[s]
    BY <1>1
  <2>2. comb \in [T -> [State -> State]]
    OBVIOUS
  <2>3. out \in [State -> State]
    <3> SUFFICES ASSUME NEW s \in State, s \notin T PROVE end(s) \in State
      OBVIOUS
    <3>1. HasLine(s.in) /\ ~(ChunkSize(Line(s.in)) < 0) /\ ~(Len(s.in) < ChunkLength(s.in))
            => WholeChunk(s.in)
      BY <1>1 DEF WholeChunk
    <3> QED
      BY <1>0, <1>1, <3>1, StatusFields
  <2>4. size \in [State -> Nat]
    BY <1>1
  <2> HIDE DEF T, step, comb, out, size
  <2>5. T \subseteq State
    BY DEF T
  <2> QED
    BY <2>1, <2>2, <2>3, <2>4, <2>5 DEF Descends
<1>3. PICK g \in [State -> State] :
        \A s \in State : g[s] = IF s \in T THEN comb[s][g[step[s]]] ELSE out[s]
  <2> HIDE DEF T, step, comb, out, size
  <2> QED
    BY ONLY <1>2, LinearRecursion
<1>4. ASSUME NEW s \in State, NEW h
      PROVE  F(h)[s] = IF s \in T THEN h[TakeChunk(s)] ELSE end(s)
  <2>1. WholeChunk(s.in) <=>
          HasLine(s.in) /\ ~(ChunkSize(Line(s.in)) < 0) /\ ~(Len(s.in) < ChunkLength(s.in))
    BY <1>1 DEF WholeChunk
  <2> QED
    BY <2>1
<1>5. g = F(g)
  <2> SUFFICES ASSUME NEW s \in State PROVE g[s] = F(g)[s]
    OBVIOUS
  <2>1. CASE s \in T
    <3>1. step[s] = TakeChunk(s) /\ g[TakeChunk(s)] \in State
      BY <2>1, <1>1
    <3>2. g[s] = g[TakeChunk(s)]
      BY <2>1, <1>3, <3>1
    <3> HIDE DEF F, T
    <3> QED
      BY <2>1, <1>4, <3>2
  <2>2. CASE s \notin T
    <3>1. g[s] = end(s)
      BY <2>2, <1>3
    <3> HIDE DEF F, T
    <3> QED
      BY <2>2, <1>4, <3>1
  <2> QED
    BY <2>1, <2>2
<1>6. ParseChunks = F(ParseChunks)
  <2>1. ParseChunks = CHOOSE h : h = F(h)
    BY DEF ParseChunks
  <2> HIDE DEF F
  <2> QED
    BY <1>5, <2>1
<1>7. ASSUME NEW s \in State
      PROVE  ParseChunks[s] = IF s \in T THEN ParseChunks[TakeChunk(s)] ELSE end(s)
  <2> HIDE DEF F, T
  <2> QED
    BY <1>4, <1>6
<1>8. State \subseteq {s \in State : ParseChunks[s] \in State}
  <2> DEFINE H == {s \in State : ParseChunks[s] \in State}
  <2>1. ASSUME NEW s \in State, \A t \in State : size[t] < size[s] => t \in H
        PROVE  s \in H
    <3>1. CASE s \in T
      <4>1. TakeChunk(s) \in State /\ size[TakeChunk(s)] < size[s]
        BY <3>1, <1>1
      <4> HIDE DEF T
      <4> QED
        BY <2>1, <3>1, <4>1, <1>7
    <3>2. CASE s \notin T
      <4>1. ParseChunks[s] = end(s) /\ end(s) = out[s]
        BY <3>2, <1>7
      <4> QED
        BY <4>1, <1>2 DEF Descends
    <3> QED
      BY <3>1, <3>2
  <2>2. size \in [State -> Nat]
    BY <1>1
  <2> HIDE DEF H, size
  <2>3. State \subseteq H
    BY <2>1, <2>2, InductionOnSize
  <2> QED
    BY <2>3 DEF H
<1>9. ParseChunks \in [State -> State]
  BY <1>6, <1>8
<1>10. ASSUME NEW s \in State
       PROVE  /\ ~HasLine(s.in) => ParseChunks[s] = s
              /\ HasLine(s.in) /\ ChunkSize(Line(s.in)) < 0 =>
                   ParseChunks[s] = SetStatus(s, HTTP_ERROR)
              /\ HasLine(s.in) /\ ChunkSize(Line(s.in)) >= 0 /\ ~WholeChunk(s.in) =>
                   ParseChunks[s] = s
              /\ WholeChunk(s.in) /\ ChunkSize(Line(s.in)) = 0 =>
                   ParseChunks[s] = SetStatus(TakeChunk(s), REQ_DONE)
              /\ WholeChunk(s.in) /\ ChunkSize(Line(s.in)) # 0 =>
                   ParseChunks[s] = ParseChunks[TakeChunk(s)]
  BY <1>1, <1>7 DEF WholeChunk
<1> QED
  BY <1>9, <1>10

\* Chunks that arrive in two pieces are read as if they arrived in one, if the
\* bytes counted for each chunk hold its line end.
LEMMA ChunksInPieces ==
  ASSUME NEW s \in State, s.req.status = HEADER_DONE, ChunksEnd(s.in), NEW x \in Bytes
  PROVE  LET r == ParseChunks[s]
         IN  /\ r \in State /\ r.req.status \in {HEADER_DONE, REQ_DONE, HTTP_ERROR}
             /\ r.req.contentlength = s.req.contentlength
             /\ r.req.chunked = s.req.chunked
             /\ r.req.status # HEADER_DONE => ParseChunks[Grown(s, x)] = Grown(r, x)
             /\ r.req.status = HEADER_DONE =>
                  ParseChunks[Grown(r, x)] = ParseChunks[Grown(s, x)]
<1> DEFINE Good(t) ==
             LET r == ParseChunks[t]
             IN  /\ r.req.status \in {HEADER_DONE, REQ_DONE, HTTP_ERROR}
                 /\ r.req.contentlength = t.req.contentlength
                 /\ r.req.chunked = t.req.chunked
                 /\ r.req.status # HEADER_DONE => ParseChunks[Grown(t, x)] = Grown(r, x)
                 /\ r.req.status = HEADER_DONE =>
                      ParseChunks[Grown(r, x)] = ParseChunks[Grown(t, x)]
           H == {t \in State : t.req.status = HEADER_DONE /\ ChunksEnd(t.in) => Good(t)}
           size == [t \in State |-> Len(t.in)]
<1>0. /\ HEADER_DONE # REQ_DONE /\ HEADER_DONE # HTTP_ERROR
      /\ REQ_DONE \in REQ_INIT..HTTP_ERROR /\ HTTP_ERROR \in REQ_INIT..HTTP_ERROR
  BY DEF HEADER_DONE, REQ_DONE, HTTP_ERROR, REQ_INIT
<1>1. ASSUME NEW t \in State, \A u \in State : size[u] < size[t] => u \in H,
             t.req.status = HEADER_DONE, ChunksEnd(t.in)
      PROVE  Good(t)
  <2>1. /\ t.req \in Request /\ t.in \in Bytes /\ Grown(t, x) \in State
        /\ Grown(t, x).req = t.req /\ Grown(t, x).in = t.in \o x
    BY StateLemma, GrownLemma
  <2>2. CASE ParseChunks[t] = t
    BY <1>0, <1>1, <2>2
  <2>3. CASE HasLine(t.in) /\ ChunkSize(Line(t.in)) < 0
    <3>1. HasLine(t.in \o x) /\ Line(t.in \o x) = Line(t.in)
      BY <2>1, <2>3, LineJoin
    <3>2. /\ ParseChunks[t] = SetStatus(t, HTTP_ERROR)
          /\ ParseChunks[Grown(t, x)] = SetStatus(Grown(t, x), HTTP_ERROR)
      BY <2>1, <2>3, <3>1, ParseChunksDef
    <3> QED
      BY <1>0, <3>2, StatusFields
  <2>4. CASE WholeChunk(t.in)
    <3> DEFINE u == TakeChunk(t)
    <3>1. /\ WholeChunk(t.in \o x) /\ ChunkSize(Line(t.in \o x)) = ChunkSize(Line(t.in))
          /\ ChunkEnds(t.in) /\ ChunkData(t.in) \in Bytes
          /\ ChunkSize(Line(t.in)) # 0 => ChunksEnd(AfterChunk(t.in))
      BY <1>1, <2>1, <2>4, ChunkJoin, ChunkLemma, ChunksNext
    <3>2. /\ u \in State /\ u.in = AfterChunk(t.in) /\ u.req = WithData(t.req, ChunkData(t.in))
          /\ TakeChunk(Grown(t, x)) = Grown(u, x)
      BY <2>4, <3>1, TakeChunkLemma
    <3> HIDE DEF u
    <3>3. /\ u.req.status = HEADER_DONE /\ u.req.contentlength = t.req.contentlength
          /\ u.req.chunked = t.req.chunked
      <4> DEFINE q == t.req
                 d == ChunkData(t.in)
      <4>1. u.req = WithData(q, d) /\ q \in Request /\ q.status = HEADER_DONE /\ d \in Bytes
        BY <1>1, <2>1, <3>1, <3>2
      <4> HIDE DEF q, d
      <4>2. /\ WithData(q, d).status = q.status /\ WithData(q, d).chunked = q.chunked
            /\ WithData(q, d).contentlength = q.contentlength
        BY <4>1, DataFields
      <4> QED
        BY <4>1, <4>2 DEF q
    <3>4. CASE ChunkSize(Line(t.in)) = 0
      <4>1. ParseChunks[t] = SetStatus(u, REQ_DONE)
        BY <2>4, <3>4, ParseChunksDef DEF u
      <4>2. ParseChunks[Grown(t, x)] = SetStatus(Grown(u, x), REQ_DONE)
        BY <2>1, <3>1, <3>2, <3>4, ParseChunksDef
      <4> QED
        BY <1>0, <3>2, <3>3, <4>1, <4>2, StatusFields
    <3>5. CASE ChunkSize(Line(t.in)) # 0
      <4>1. ParseChunks[t] = ParseChunks[u]
        BY <2>4, <3>5, ParseChunksDef DEF u
      <4>2. ParseChunks[Grown(t, x)] = ParseChunks[Grown(u, x)]
        BY <2>1, <3>1, <3>2, <3>5, ParseChunksDef
      <4>3. size[u] < size[t]
        BY <2>1, <2>4, <3>2, ChunkLemma
      <4>4. Good(u)
        BY <1>1, <3>1, <3>2, <3>3, <3>5, <4>3
      <4> QED
        BY <3>3, <4>1, <4>2, <4>4
    <3> QED
      BY <3>4, <3>5
  <2> QED
    <3>1. ParseChunks[t] = t \/ (HasLine(t.in) /\ ChunkSize(Line(t.in)) < 0) \/ WholeChunk(t.in)
      <4>1. ChunkSize(Line(t.in)) \in Int
        BY SymbolAssumption DEF ChunkSize
      <4> QED
        BY <4>1, ParseChunksDef
    <3> QED
      BY <2>2, <2>3, <2>4, <3>1
<1>2. size \in [State -> Nat]
  BY StateLemma DEF Bytes
<1>3. \A t \in State : (\A u \in State : size[u] < size[t] => u \in H) => t \in H
  BY <1>1
<1>4. State \subseteq H
  <2> HIDE DEF H, size
  <2> QED
    BY <1>2, <1>3, InductionOnSize
<1>5. Good(s) /\ ParseChunks[s] \in State
  BY <1>4, ParseChunksDef
<1> QED
  BY <1>5

-----------------------------------------------------------------------------
(* A content of known length.                                              *)

Missing(s) == s.req.contentlength - s.req.bodyin

\* The content goes on with data.
StaticData(req, data) == [WithData(req, data) EXCEPT !.bodyin = @ + Len(data)]

\* Content under a length is added and counted, piece by piece.
LEMMA StaticFields ==
  ASSUME NEW req \in Request, NEW data \in Bytes
  PROVE  LET w == StaticData(req, data)
         IN  /\ w \in Request /\ w.inbuf = req.inbuf \o data /\ w.status = req.status
             /\ w.method = req.method /\ w.path = req.path /\ w.length = req.length
             /\ w.chunked = req.chunked /\ w.contentlength = req.contentlength
             /\ w.bodyin = req.bodyin + Len(data)
             /\ \A more \in Bytes : StaticData(w, more) = StaticData(req, data \o more)
<1> DEFINE Same(w, d) ==
             /\ w \in Request /\ w.inbuf = req.inbuf \o d /\ w.status = req.status
             /\ w.method = req.method /\ w.path = req.path /\ w.length = req.length
             /\ w.chunked = req.chunked /\ w.contentlength = req.contentlength
             /\ w.bodyin = req.bodyin + Len(d)
<1>1. ASSUME NEW q \in Request, NEW d \in Bytes
      PROVE  LET w == StaticData(q, d)
             IN  /\ w \in Request /\ w.inbuf = q.inbuf \o d /\ w.status = q.status
                 /\ w.method = q.method /\ w.path = q.path /\ w.length = q.length
                 /\ w.chunked = q.chunked /\ w.contentlength = q.contentlength
                 /\ w.bodyin = q.bodyin + Len(d)
  <2> DEFINE v == WithData(q, d)
             n == v.bodyin + Len(d)
             w == [v EXCEPT !.bodyin = n]
  <2>1. /\ v \in Request /\ v.inbuf = q.inbuf \o d /\ v.status = q.status
        /\ v.method = q.method /\ v.path = q.path /\ v.length = q.length
        /\ v.chunked = q.chunked /\ v.contentlength = q.contentlength
        /\ v.bodyin = q.bodyin
    BY DataFields
  <2> HIDE DEF v
  <2>2. n \in Nat
    BY <2>1 DEF Request, Bytes
  <2> HIDE DEF n
  <2>3. w \in Request
    BY <2>1, <2>2, Zenon DEF Request
  <2>4. StaticData(q, d) = w
    BY DEF StaticData, n, v
  <2>5. /\ w.inbuf = v.inbuf /\ w.status = v.status /\ w.method = v.method
        /\ w.path = v.path /\ w.length = v.length /\ w.chunked = v.chunked
        /\ w.contentlength = v.contentlength /\ w.bodyin = n
    BY <2>1 DEF Request
  <2> HIDE DEF w
  <2> QED
    BY <2>1, <2>3, <2>4, <2>5 DEF n
<1>2. ASSUME NEW more \in Bytes
      PROVE  StaticData(StaticData(req, data), more) = StaticData(req, data \o more)
  <2> DEFINE w == StaticData(req, data)
             y == StaticData(w, more)
             z == StaticData(req, data \o more)
  <2>1. req.inbuf \in Bytes /\ req.bodyin \in Nat /\ data \o more \in Bytes
        /\ Len(data \o more) = Len(data) + Len(more)
        /\ Len(data) \in Nat /\ Len(more) \in Nat
    BY CutJoinLemma DEF Request, Bytes
  <2>2. (req.inbuf \o data) \o more = req.inbuf \o (data \o more)
    <3> DEFINE a == req.inbuf
    <3>1. a \in Bytes
      BY <2>1
    <3> HIDE DEF a
    <3>2. (a \o data) \o more = a \o (data \o more)
      BY <3>1, JoinAssoc DEF Bytes
    <3> QED
      BY <3>2 DEF a
  <2>3. Same(w, data)
    BY <1>1
  <2>4. /\ y \in Request /\ y.inbuf = w.inbuf \o more /\ y.status = w.status
        /\ y.method = w.method /\ y.path = w.path /\ y.length = w.length
        /\ y.chunked = w.chunked /\ y.contentlength = w.contentlength
        /\ y.bodyin = w.bodyin + Len(more)
    <3> HIDE DEF w
    <3> QED
      BY <1>1, <2>3
  <2>5. Same(z, data \o more)
    BY <1>1, <2>1
  <2> HIDE DEF w, y, z
  <2>6. /\ y.inbuf = z.inbuf /\ y.status = z.status /\ y.method = z.method
        /\ y.path = z.path /\ y.length = z.length /\ y.chunked = z.chunked
        /\ y.contentlength = z.contentlength /\ y.bodyin = z.bodyin
    BY <2>1, <2>2, <2>3, <2>4, <2>5
  <2>7. y = z
    <3>1. ASSUME NEW r \in Request
          PROVE  r = [status |-> r.status, method |-> r.method, path |-> r.path,
                      length |-> r.length, chunked |-> r.chunked,
                      contentlength |-> r.contentlength, inbuf |-> r.inbuf,
                      bodyin |-> r.bodyin]
      BY DEF Request
    <3> QED
      BY <2>4, <2>5, <2>6, <3>1
  <2> QED
    BY <2>7 DEF w, y, z
<1> QED
  BY <1>1, <1>2

\* A request never takes more than its length.
Sane(req) == req.contentlength >= 0 => req.bodyin <= req.contentlength

\* The branch of parse_body for a Content-Length, in terms of what is taken.
LEMMA StaticLemma ==
  ASSUME NEW s \in State, s.req.contentlength >= 0, Sane(s.req)
  PROVE  LET k == Least(Missing(s), Len(s.in))
             t == St(StaticData(s.req, SubSeq(s.in, 1, k)), Skip(s.in, k))
         IN  /\ k \in 0..Len(s.in) /\ Missing(s) \in Nat
             /\ t \in State /\ Sane(t.req) /\ Missing(t) = Missing(s) - k
             /\ t.req = StaticData(s.req, SubSeq(s.in, 1, k)) /\ t.in = Skip(s.in, k)
             /\ SubSeq(s.in, 1, k) \in Bytes /\ Len(SubSeq(s.in, 1, k)) = k
             /\ ParseStatic(s) = IF k = Missing(s) THEN SetStatus(t, REQ_DONE) ELSE t
<1> DEFINE k == Least(Missing(s), Len(s.in))
           a == SubSeq(s.in, 1, k)
           t == St(StaticData(s.req, a), Skip(s.in, k))
<1>1. /\ s.req \in Request /\ s.in \in Bytes /\ Len(s.in) \in Nat
      /\ s.req.contentlength \in Nat /\ s.req.bodyin \in Nat /\ Missing(s) \in Nat
  <2>1. s.req \in Request /\ s.in \in Bytes
    BY StateLemma
  <2>2. s.req.contentlength \in Nat \cup {NoLength} /\ s.req.bodyin \in Nat
    BY <2>1 DEF Request
  <2> DEFINE m == s.req.contentlength
             b == s.req.bodyin
  <2>3. m \in Nat \cup {NoLength} /\ b \in Nat /\ m >= 0 /\ b <= m
    BY <2>2 DEF Sane
  <2>4. m - b = Missing(s)
    BY DEF Missing
  <2> HIDE DEF m, b
  <2>5. m \in Nat /\ m - b \in Nat
    BY <2>3 DEF NoLength
  <2>6. Len(s.in) \in Nat
    BY <2>1 DEF Bytes
  <2> QED
    BY <2>1, <2>2, <2>4, <2>5, <2>6 DEF m
<1>2. k \in 0..Len(s.in) /\ k <= Missing(s)
  BY <1>1 DEF Least
<1> HIDE DEF k
<1>3. a \in Bytes /\ Len(a) = k /\ Skip(s.in, k) \in Bytes
  <2> DEFINE b == s.in
  <2>1. b \in Seq(Symbols) /\ k \in 0..Len(b)
    BY <1>1, <1>2 DEF Bytes
  <2> HIDE DEF b
  <2>2. /\ SubSeq(b, 1, k) \in Seq(Symbols) /\ Len(SubSeq(b, 1, k)) = k
        /\ Skip(b, k) \in Seq(Symbols)
    BY <2>1, CutLemma
  <2> QED
    BY <2>2 DEF b, Bytes
<1> DEFINE w == StaticData(s.req, a)
<1>4. /\ w \in Request /\ w.contentlength = s.req.contentlength
      /\ w.bodyin = s.req.bodyin + k
  <2> HIDE DEF a
  <2>1. /\ w \in Request /\ w.contentlength = s.req.contentlength
        /\ w.bodyin = s.req.bodyin + Len(a)
    BY <1>1, <1>3, StaticFields
  <2> QED
    BY <1>3, <2>1
<1>5. t \in State /\ t.req = w /\ t.in = Skip(s.in, k)
  <2> DEFINE r == Skip(s.in, k)
  <2>1. w \in Request /\ r \in Bytes
    BY <1>3, <1>4
  <2>2. t = St(w, r)
    OBVIOUS
  <2> HIDE DEF w, r, t
  <2>3. t \in State /\ t.req = w /\ t.in = r
    BY <2>1, <2>2, StateLemma
  <2> QED
    BY <2>3 DEF r
<1>6. Sane(t.req) /\ Missing(t) = Missing(s) - k
  <2> HIDE DEF w, t
  <2> QED
    BY <1>1, <1>2, <1>4, <1>5 DEF Sane, Missing
<1>7. ParseStatic(s) = IF k = Missing(s) THEN SetStatus(t, REQ_DONE) ELSE t
  <2> DEFINE moved == AddInbuf(s, Missing(s))
             v == WithData(s.req, a)
  <2>1. moved = St(v, Skip(s.in, k))
    BY DEF AddInbuf, WithData, k
  <2>2. moved.req = v /\ moved.in = Skip(s.in, k)
    BY <2>1 DEF St
  <2>3. v.bodyin = s.req.bodyin
    BY <1>1, <1>3, DataFields
  <2> HIDE DEF v, moved
  <2>4. w = [v EXCEPT !.bodyin = s.req.bodyin + k]
    BY <1>3, <2>3 DEF StaticData, v
  <2>5. k = Missing(s) <=> s.req.bodyin + k = s.req.contentlength
    BY <1>1, <1>2 DEF Missing
  <2> QED
    BY <2>2, <2>4, <2>5 DEF ParseStatic, moved, k, Missing
<1> QED
  BY <1>1, <1>2, <1>3, <1>5, <1>6, <1>7 DEF k

\* A cut behind the first of two sequences is one in the second.
LEMMA JoinCut ==
  ASSUME NEW S, NEW a \in Seq(S), NEW b \in Seq(S), NEW n \in 0..Len(b)
  PROVE  /\ SubSeq(a \o b, 1, Len(a) + n) = a \o SubSeq(b, 1, n)
         /\ Skip(a \o b, Len(a) + n) = Skip(b, n)
<1> DEFINE c == a \o b
           d == SubSeq(b, 1, n)
           x == SubSeq(c, 1, Len(a) + n)
           y == a \o d
<1>1. /\ c \in Seq(S) /\ Len(c) = Len(a) + Len(b) /\ Skip(c, Len(a)) = b
      /\ Len(a) \in Nat /\ Len(b) \in Nat
      /\ \A i \in 1..Len(a) : c[i] = a[i]
      /\ \A i \in 1..(Len(a) + Len(b)) : c[i] = IF i <= Len(a) THEN a[i] ELSE b[i - Len(a)]
  BY CutJoinLemma, ConcatProperties
<1>2. d \in Seq(S) /\ Len(d) = n /\ \A i \in 1..n : d[i] = b[i]
  BY CutLemma
<1>3. /\ y \in Seq(S) /\ Len(y) = Len(a) + n
      /\ \A i \in 1..(Len(a) + n) : y[i] = IF i <= Len(a) THEN a[i] ELSE d[i - Len(a)]
  <2> HIDE DEF d
  <2> QED
    BY <1>2, ConcatProperties
<1>4. Len(a) + n \in 0..Len(c)
  BY <1>1
<1>5. x \in Seq(S) /\ Len(x) = Len(a) + n /\ \A i \in 1..(Len(a) + n) : x[i] = c[i]
  <2> HIDE DEF c
  <2> QED
    BY <1>1, <1>4
<1>6. ASSUME NEW i \in 1..(Len(a) + n) PROVE x[i] = y[i]
  <2> HIDE DEF x, y, c, d
  <2>1. CASE i <= Len(a)
    BY <1>1, <1>3, <1>5, <2>1
  <2>2. CASE i > Len(a)
    <3>1. i - Len(a) \in 1..n /\ i \in 1..(Len(a) + Len(b))
      BY <1>1, <2>2
    <3>2. x[i] = b[i - Len(a)] /\ y[i] = d[i - Len(a)]
      BY <1>1, <1>3, <1>5, <2>2, <3>1
    <3> QED
      BY <1>2, <3>1, <3>2
  <2> QED
    BY <1>1, <2>1, <2>2
<1>7. x = y
  <2> HIDE DEF x, y
  <2> QED
    BY <1>3, <1>5, <1>6, SeqEqual
<1>8. Skip(c, Len(a) + n) = Skip(b, n)
  <2> HIDE DEF c
  <2>1. Len(a) \in 0..Len(c) /\ n \in 0..(Len(c) - Len(a))
    BY <1>1
  <2> QED
    BY <1>1, <2>1, SkipSkip
<1> QED
  BY <1>7, <1>8

\* Content of a known length that arrives in two pieces is taken as if it
\* arrived in one.
LEMMA StaticInPieces ==
  ASSUME NEW s \in State, s.req.status = HEADER_DONE, s.req.contentlength >= 0,
         Sane(s.req), NEW x \in Bytes
  PROVE  LET r == ParseStatic(s)
         IN  /\ r \in State /\ r.req.status \in {HEADER_DONE, REQ_DONE}
             /\ Sane(r.req) /\ r.req.contentlength = s.req.contentlength
             /\ r.req.status = REQ_DONE => ParseStatic(Grown(s, x)) = Grown(r, x)
             /\ r.req.status = HEADER_DONE =>
                  ParseStatic(Grown(r, x)) = ParseStatic(Grown(s, x))
<1> DEFINE k(u) == Least(Missing(u), Len(u.in))
           t(u) == St(StaticData(u.req, SubSeq(u.in, 1, k(u))), Skip(u.in, k(u)))
           g == Grown(s, x)
<1>0. HEADER_DONE # REQ_DONE /\ REQ_DONE \in REQ_INIT..HTTP_ERROR
  BY DEF HEADER_DONE, REQ_DONE, REQ_INIT, HTTP_ERROR
<1>1. ASSUME NEW u \in State, u.req.contentlength >= 0, Sane(u.req)
      PROVE  /\ k(u) \in 0..Len(u.in) /\ Missing(u) \in Nat
             /\ t(u) \in State /\ Sane(t(u).req) /\ Missing(t(u)) = Missing(u) - k(u)
             /\ t(u).req = StaticData(u.req, SubSeq(u.in, 1, k(u)))
             /\ t(u).in = Skip(u.in, k(u))
             /\ SubSeq(u.in, 1, k(u)) \in Bytes /\ Len(SubSeq(u.in, 1, k(u))) = k(u)
             /\ ParseStatic(u) = IF k(u) = Missing(u) THEN SetStatus(t(u), REQ_DONE) ELSE t(u)
             /\ t(u).req.contentlength = u.req.contentlength
             /\ t(u).req.status = u.req.status
  <2>1. /\ k(u) \in 0..Len(u.in) /\ Missing(u) \in Nat
        /\ t(u) \in State /\ Sane(t(u).req) /\ Missing(t(u)) = Missing(u) - k(u)
        /\ t(u).req = StaticData(u.req, SubSeq(u.in, 1, k(u)))
        /\ t(u).in = Skip(u.in, k(u))
        /\ SubSeq(u.in, 1, k(u)) \in Bytes /\ Len(SubSeq(u.in, 1, k(u))) = k(u)
        /\ ParseStatic(u) = IF k(u) = Missing(u) THEN SetStatus(t(u), REQ_DONE) ELSE t(u)
    BY <1>1, StaticLemma
  <2> DEFINE q == u.req
             d == SubSeq(u.in, 1, k(u))
  <2>2. q \in Request /\ d \in Bytes
    BY <2>1, StateLemma
  <2> HIDE DEF q, d
  <2>3. /\ StaticData(q, d).contentlength = q.contentlength
        /\ StaticData(q, d).status = q.status
    BY <2>2, StaticFields
  <2> QED
    BY <2>1, <2>3 DEF q, d
<1>2. /\ g \in State /\ g.req = s.req /\ g.in = s.in \o x
      /\ s.req \in Request /\ s.in \in Bytes /\ Missing(g) = Missing(s)
      /\ Len(g.in) = Len(s.in) + Len(x) /\ Len(s.in) \in Nat /\ Len(x) \in Nat
  <2>1. g \in State /\ g.req = s.req /\ g.in = s.in \o x
    BY GrownLemma
  <2>2. s.req \in Request /\ s.in \in Bytes
    BY StateLemma
  <2>3. Len(s.in \o x) = Len(s.in) + Len(x) /\ Len(s.in) \in Nat /\ Len(x) \in Nat
    BY <2>2 DEF Bytes
  <2> HIDE DEF g
  <2> QED
    BY <2>1, <2>2, <2>3 DEF Missing
<1> HIDE DEF g
<1>3. k(s) \in 0..Len(s.in) /\ Missing(s) \in Nat
  BY <1>1
<1>4. CASE k(s) = Missing(s)
  <2>1. k(g) = k(s)
    BY <1>2, <1>3, <1>4 DEF Least
  <2>2. SubSeq(g.in, 1, k(s)) = SubSeq(s.in, 1, k(s)) /\ Skip(g.in, k(s)) = Skip(s.in, k(s)) \o x
    <3> DEFINE a == s.in
               n == k(s)
    <3>1. a \in Seq(Symbols) /\ x \in Seq(Symbols) /\ n \in 0..Len(a) /\ g.in = a \o x
      BY <1>2, <1>3 DEF Bytes
    <3> HIDE DEF a, n
    <3>2. SubSeq(a \o x, 1, n) = SubSeq(a, 1, n) /\ Skip(a \o x, n) = Skip(a, n) \o x
      BY <3>1, CutJoinLemma
    <3> QED
      BY <3>1, <3>2 DEF a, n
  <2>3. t(g) = Grown(t(s), x)
    <3>1. t(g) = St(StaticData(s.req, SubSeq(s.in, 1, k(s))), Skip(s.in, k(s)) \o x)
      BY <1>2, <2>1, <2>2
    <3>2. /\ t(s).req = StaticData(s.req, SubSeq(s.in, 1, k(s)))
          /\ t(s).in = Skip(s.in, k(s))
      BY <1>1
    <3> HIDE DEF t, k
    <3> QED
      BY <3>1, <3>2 DEF Grown
  <2>4. ParseStatic(s) = SetStatus(t(s), REQ_DONE) /\ ParseStatic(g) = SetStatus(t(g), REQ_DONE)
    BY <1>1, <1>2, <1>4, <2>1
  <2>5. t(s) \in State /\ Sane(t(s).req) /\ t(s).req.contentlength = s.req.contentlength
    BY <1>1
  <2> HIDE DEF t, k
  <2>6. LET r == SetStatus(t(s), REQ_DONE)
        IN  /\ r \in State /\ r.req.status = REQ_DONE /\ r.req.bodyin = t(s).req.bodyin
            /\ r.req.contentlength = t(s).req.contentlength
            /\ SetStatus(Grown(t(s), x), REQ_DONE) = Grown(r, x)
    BY <1>0, <2>5, StatusFields
  <2> QED
    BY <1>0, <2>3, <2>4, <2>5, <2>6 DEF Sane, g
<1>5. CASE k(s) # Missing(s)
  <2> DEFINE h == Grown(t(s), x)
             e == SubSeq(x, 1, k(h))
  <2>1. k(s) = Len(s.in) /\ k(s) < Missing(s)
    BY <1>2, <1>3, <1>5 DEF Least
  <2>2. t(s).in = <<>> /\ t(s).req = StaticData(s.req, s.in)
    <3> DEFINE a == s.in
    <3>1. a \in Seq(Symbols) /\ k(s) = Len(a)
      BY <1>2, <2>1 DEF Bytes
    <3>2. t(s).in = Skip(a, k(s)) /\ t(s).req = StaticData(s.req, SubSeq(a, 1, k(s)))
      BY <1>1
    <3> HIDE DEF a, t, k
    <3>3. Skip(a, Len(a)) = <<>> /\ SubSeq(a, 1, Len(a)) = a
      BY <3>1, CutLemma
    <3> QED
      BY <3>1, <3>2, <3>3 DEF a
  <2>3. /\ t(s) \in State /\ Sane(t(s).req) /\ t(s).req.contentlength = s.req.contentlength
        /\ t(s).req.status = HEADER_DONE /\ Missing(t(s)) = Missing(s) - Len(s.in)
        /\ ParseStatic(s) = t(s)
    BY <1>1, <1>5, <2>1
  <2>4. h \in State /\ h.req = t(s).req /\ h.in = x /\ Missing(h) = Missing(s) - Len(s.in)
    <3> DEFINE b == t(s)
    <3>1. b \in State /\ b.in = <<>> /\ Missing(b) = Missing(s) - Len(s.in)
      BY <2>2, <2>3
    <3> HIDE DEF b, t, k
    <3>2. Grown(b, x) \in State /\ Grown(b, x).req = b.req /\ Grown(b, x).in = b.in \o x
      BY <3>1, GrownLemma
    <3>3. <<>> \o x = x
      BY CutJoinLemma DEF Bytes
    <3> QED
      BY <3>1, <3>2, <3>3 DEF b, Missing
  <2> HIDE DEF h
  <2>5. k(g) = Len(s.in) + k(h) /\ k(h) \in 0..Len(x) /\ (k(g) = Missing(g) <=> k(h) = Missing(h))
    BY <1>2, <1>3, <2>1, <2>4 DEF Least
  <2>6. SubSeq(g.in, 1, k(g)) = s.in \o e /\ Skip(g.in, k(g)) = Skip(x, k(h))
    <3> DEFINE a == s.in
               n == k(h)
    <3>1. a \in Seq(Symbols) /\ x \in Seq(Symbols) /\ n \in 0..Len(x) /\ g.in = a \o x
          /\ k(g) = Len(a) + n
      BY <1>2, <2>5 DEF Bytes
    <3> HIDE DEF a, n, k
    <3>2. /\ SubSeq(a \o x, 1, Len(a) + n) = a \o SubSeq(x, 1, n)
          /\ Skip(a \o x, Len(a) + n) = Skip(x, n)
      BY <3>1, JoinCut
    <3> QED
      BY <3>1, <3>2 DEF a, n
  <2>7. e \in Bytes
    BY <2>5, CutLemma DEF Bytes
  <2>8. t(g) = t(h)
    <3>1. t(g) = St(StaticData(s.req, s.in \o e), Skip(x, k(h)))
      BY <1>2, <2>6
    <3>2. t(h) = St(StaticData(StaticData(s.req, s.in), e), Skip(x, k(h)))
      BY <2>2, <2>4
    <3> DEFINE q == s.req
               a == s.in
    <3>3. q \in Request /\ a \in Bytes
      BY <1>2
    <3> HIDE DEF q, a, e, t, k
    <3>4. StaticData(StaticData(q, a), e) = StaticData(q, a \o e)
      BY <2>7, <3>3, StaticFields
    <3> QED
      BY <3>1, <3>2, <3>4 DEF q, a
  <2>9. ParseStatic(g) = ParseStatic(h)
    <3>1. h.req.contentlength >= 0 /\ Sane(h.req)
      BY <2>3, <2>4
    <3> HIDE DEF t, k
    <3>2. /\ ParseStatic(g) = IF k(g) = Missing(g) THEN SetStatus(t(g), REQ_DONE) ELSE t(g)
          /\ ParseStatic(h) = IF k(h) = Missing(h) THEN SetStatus(t(h), REQ_DONE) ELSE t(h)
      BY <1>1, <1>2, <2>4, <3>1
    <3> QED
      BY <2>5, <2>8, <3>2
  <2> HIDE DEF t, k
  <2> QED
    BY <1>0, <2>3, <2>9 DEF g, h
<1> QED
  BY <1>4, <1>5

-----------------------------------------------------------------------------
(* The stages.                                                             *)

\* Every chunk that stands at the start of what is there ends where the parser
\* expects it to.
BodyEnds(s) == s.req.contentlength < 0 /\ s.req.chunked => ChunksEnd(s.in)

\* A content that arrives in two pieces is read as if it came in one.
LEMMA BodyInPieces ==
  ASSUME NEW s \in State, s.req.status = HEADER_DONE, Sane(s.req), BodyEnds(s),
         NEW x \in Bytes
  PROVE  LET r == ParseBody(s)
         IN  /\ r \in State /\ r.req.status \in {HEADER_DONE, REQ_DONE, HTTP_ERROR}
             /\ r.req.status = HEADER_DONE => Sane(r.req)
             /\ r.req.status # HEADER_DONE => ParseBody(Grown(s, x)) = Grown(r, x)
             /\ r.req.status = HEADER_DONE =>
                  ParseBody(Grown(r, x)) = ParseBody(Grown(s, x))
<1> DEFINE g == Grown(s, x)
<1>0. /\ HEADER_DONE # REQ_DONE /\ HEADER_DONE # HTTP_ERROR /\ REQ_DONE # HTTP_ERROR
      /\ REQ_DONE \in REQ_INIT..HTTP_ERROR
  BY DEF HEADER_DONE, REQ_DONE, HTTP_ERROR, REQ_INIT
<1>1. g \in State /\ g.req = s.req /\ s.req.contentlength \in Nat \cup {NoLength}
  BY GrownLemma, StateLemma DEF Request
<1>2. CASE s.req.contentlength >= 0
  <2> DEFINE r == ParseStatic(s)
  <2>1. /\ r \in State /\ r.req.status \in {HEADER_DONE, REQ_DONE} /\ Sane(r.req)
        /\ r.req.contentlength = s.req.contentlength
        /\ r.req.status = REQ_DONE => ParseStatic(g) = Grown(r, x)
        /\ r.req.status = HEADER_DONE => ParseStatic(Grown(r, x)) = ParseStatic(g)
    BY <1>2, StaticInPieces
  <2> HIDE DEF r, g
  <2>2. Grown(r, x).req = r.req
    BY <2>1, GrownLemma
  <2>3. ASSUME NEW u, u.req.contentlength = s.req.contentlength
        PROVE  ParseBody(u) = ParseStatic(u)
    <3>1. ~(u.req.contentlength < 0)
      BY <1>1, <1>2, <2>3 DEF NoLength
    <3> QED
      BY <1>2, <2>3, <3>1 DEF ParseBody
  <2>4. ParseBody(s) = r /\ ParseBody(g) = ParseStatic(g)
        /\ ParseBody(Grown(r, x)) = ParseStatic(Grown(r, x))
    BY <1>1, <2>1, <2>2, <2>3 DEF r
  <2> QED
    BY <1>0, <2>1, <2>4 DEF g
<1>3. CASE ~(s.req.contentlength >= 0) /\ s.req.chunked
  <2> DEFINE r == ParseChunks[s]
  <2>0. s.req.contentlength < 0
    BY <1>1, <1>3 DEF NoLength
  <2>1. /\ r \in State /\ r.req.status \in {HEADER_DONE, REQ_DONE, HTTP_ERROR}
        /\ r.req.contentlength = s.req.contentlength /\ r.req.chunked = s.req.chunked
        /\ r.req.status # HEADER_DONE => ParseChunks[g] = Grown(r, x)
        /\ r.req.status = HEADER_DONE => ParseChunks[Grown(r, x)] = ParseChunks[g]
    BY <1>3, <2>0, ChunksInPieces DEF BodyEnds
  <2> HIDE DEF r, g
  <2>2. Grown(r, x).req = r.req
    BY <2>1, GrownLemma
  <2>3. ASSUME NEW u, u.req.contentlength = s.req.contentlength,
               u.req.chunked = s.req.chunked
        PROVE  ParseBody(u) = ParseChunks[u]
    BY <1>3, <2>0, <2>3 DEF ParseBody
  <2>4. ParseBody(s) = r /\ ParseBody(g) = ParseChunks[g]
        /\ ParseBody(Grown(r, x)) = ParseChunks[Grown(r, x)]
    BY <1>1, <2>1, <2>2, <2>3 DEF r
  <2>5. Sane(r.req)
    BY <1>3, <2>1 DEF Sane
  <2> QED
    BY <1>0, <2>1, <2>4, <2>5 DEF g
<1>4. CASE ~(s.req.contentlength >= 0) /\ ~s.req.chunked
  <2> DEFINE r == SetStatus(s, REQ_DONE)
  <2>1. r \in State /\ r.req.status = REQ_DONE /\ SetStatus(g, REQ_DONE) = Grown(r, x)
    BY <1>0, StatusFields
  <2> HIDE DEF g, r
  <2>2. ParseBody(s) = r /\ ParseBody(g) = SetStatus(g, REQ_DONE)
    BY <1>1, <1>4 DEF ParseBody, r
  <2> QED
    BY <1>0, <2>1, <2>2 DEF g
<1> QED
  BY <1>2, <1>3, <1>4

-----------------------------------------------------------------------------
(* Paths.                                                                  *)

\* A sequence is its first element and its tail.
LEMMA TailLemma ==
  ASSUME NEW S, NEW a \in Seq(S), a # <<>>
  PROVE  /\ a[1] \in S /\ Tail(a) \in Seq(S) /\ Len(a) > 0 /\ Len(Tail(a)) = Len(a) - 1
         /\ \A i \in 1..(Len(a) - 1) : Tail(a)[i] = a[i + 1]
         /\ <<a[1]>> \o Tail(a) = a
<1>1. Len(a) \in Nat /\ Len(a) > 0
  BY EmptySeq
<1>2. /\ a[1] \in S /\ Tail(a) \in Seq(S) /\ Len(Tail(a)) = Len(a) - 1
      /\ \A i \in 1..(Len(a) - 1) : Tail(a)[i] = a[i + 1]
  BY <1>1
<1>3. <<a[1]>> \o Tail(a) = a
  <2> DEFINE b == <<a[1]>> \o Tail(a)
  <2>1. b \in Seq(S) /\ Len(b) = Len(a) /\ \A i \in 1..Len(a) : b[i] = a[i]
    BY <1>1, <1>2
  <2> HIDE DEF b
  <2>2. b = a
    BY <2>1, SeqEqual
  <2> QED
    BY <2>2 DEF b
<1> QED
  BY <1>1, <1>2, <1>3

\* An element put in front of a sequence is its first.
LEMMA ConsLemma ==
  ASSUME NEW S, NEW c \in S, NEW a \in Seq(S)
  PROVE  /\ <<c>> \o a \in Seq(S) /\ Len(<<c>> \o a) = Len(a) + 1 /\ Len(a) \in Nat
         /\ (<<c>> \o a)[1] = c /\ Tail(<<c>> \o a) = a /\ <<c>> \o a # <<>>
         /\ \A i \in 1..Len(a) : (<<c>> \o a)[i + 1] = a[i]
<1> DEFINE b == <<c>> \o a
<1>1. /\ b \in Seq(S) /\ Len(b) = Len(a) + 1 /\ Len(a) \in Nat
      /\ b[1] = c /\ \A i \in 1..Len(a) : b[i + 1] = a[i]
  OBVIOUS
<1> HIDE DEF b
<1>2. b # <<>>
  BY <1>1, EmptySeq
<1>3. Tail(b) \in Seq(S) /\ Len(Tail(b)) = Len(a) /\ \A i \in 1..Len(a) : Tail(b)[i] = a[i]
  BY <1>1, <1>2, TailLemma
<1>4. Tail(b) = a
  BY <1>3, SeqEqual
<1> QED
  BY <1>1, <1>2, <1>4 DEF b

\* What Halve goes on with.
HalveRest(p) == IF p[1] = Slash /\ p[2] = Slash THEN SubSeq(p, 3, Len(p)) ELSE Tail(p)

\* Two slashes at the front are read as one.
LEMMA HalveRestLemma ==
  ASSUME NEW p \in Paths, Len(p) >= 2
  PROVE  /\ p[1] \in PathChars /\ p[2] \in PathChars
         /\ HalveRest(p) \in Paths /\ Len(HalveRest(p)) < Len(p)
         /\ IF p[1] = Slash /\ p[2] = Slash
              THEN Tail(p) = <<Slash>> \o HalveRest(p)
              ELSE Tail(p) = HalveRest(p)
<1>1. p \in Seq(PathChars) /\ p # <<>> /\ Len(p) \in Nat
  BY DEF Paths
<1>2. /\ p[1] \in PathChars /\ Tail(p) \in Seq(PathChars) /\ Len(Tail(p)) = Len(p) - 1
      /\ \A i \in 1..(Len(p) - 1) : Tail(p)[i] = p[i + 1]
  BY <1>1, TailLemma
<1>3. CASE p[1] = Slash /\ p[2] = Slash
  <2> DEFINE r == SubSeq(p, 3, Len(p))
             t == Tail(p)
  <2>1. /\ r \in Seq(PathChars) /\ Len(r) = Len(p) - 2
        /\ \A i \in 1..(Len(p) - 2) : r[i] = p[i + 2]
    <3>1. 2 \in 0..Len(p) /\ r = Skip(p, 2)
      BY <1>1 DEF Skip
    <3>2. /\ Skip(p, 2) \in Seq(PathChars) /\ Len(Skip(p, 2)) = Len(p) - 2
          /\ \A i \in 1..(Len(p) - 2) : Skip(p, 2)[i] = p[2 + i]
      BY <1>1, <3>1, CutLemma
    <3> HIDE DEF r
    <3> QED
      BY <1>1, <3>1, <3>2
  <2>2. t # <<>> /\ t \in Seq(PathChars) /\ t[1] = Slash
    BY <1>2, <1>3
  <2> HIDE DEF t
  <2>3. /\ <<t[1]>> \o Tail(t) = t /\ Tail(t) \in Seq(PathChars)
        /\ Len(Tail(t)) = Len(t) - 1
        /\ \A i \in 1..(Len(t) - 1) : Tail(t)[i] = t[i + 1]
    BY <2>2, TailLemma
  <2>4. Tail(t) = r
    <3> HIDE DEF r
    <3>1. Len(Tail(t)) = Len(r) /\ \A i \in 1..Len(r) : Tail(t)[i] = r[i]
      BY <1>1, <1>2, <2>1, <2>3 DEF t
    <3> QED
      BY <2>1, <2>3, <3>1, SeqEqual
  <2>5. HalveRest(p) = r
    BY <1>3 DEF HalveRest
  <2> HIDE DEF r
  <2>6. r \in Paths /\ Len(r) < Len(p) /\ t = <<Slash>> \o r
    <3>1. r \in Paths
      BY <2>1 DEF Paths
    <3>2. Len(r) < Len(p)
      BY <1>1, <2>1
    <3>3. t = <<Slash>> \o r
      BY <2>2, <2>3, <2>4, Zenon
    <3> QED
      BY <3>1, <3>2, <3>3
  <2>7. p[2] \in PathChars
    BY <1>1, SMTT(30)
  <2> QED
    BY <1>2, <1>3, <2>5, <2>6, <2>7 DEF t
<1>4. CASE ~(p[1] = Slash /\ p[2] = Slash)
  <2>1. HalveRest(p) = Tail(p)
    BY <1>4 DEF HalveRest
  <2>2. Len(Tail(p)) < Len(p) /\ Tail(p) \in Paths
    BY <1>1, <1>2 DEF Paths
  <2>3. p[2] \in PathChars
    BY <1>1
  <2> QED
    BY <1>2, <1>4, <2>1, <2>2, <2>3
<1> QED
  BY <1>3, <1>4, SMTT(30)

\* One round of correctPathname over double slashes, unfolded once.
LEMMA HalveDef ==
  /\ Halve \in [Paths -> Paths]
  /\ \A p \in Paths :
       Halve[p] = IF Len(p) < 2 THEN p ELSE <<p[1]>> \o Halve[HalveRest(p)]
<1> DEFINE T == {p \in Paths : Len(p) >= 2}
           step == [p \in T |-> HalveRest(p)]
           comb == [p \in T |-> [v \in Paths |-> <<p[1]>> \o v]]
           out == [p \in Paths |-> p]
           size == [p \in Paths |-> Len(p)]
           F(g) == [p \in Paths |->
                      IF Len(p) < 2 THEN p
                      ELSE IF p[1] = Slash /\ p[2] = Slash
                        THEN <<Slash>> \o g[SubSeq(p, 3, Len(p))]
                      ELSE <<p[1]>> \o g[Tail(p)]]
<1>0. ASSUME NEW p \in Paths PROVE Len(p) \in Nat
  BY DEF Paths
<1>1. Descends(Paths, Paths, T, step, comb, out, size)
  <2>1. step \in [T -> Paths] /\ \A p \in T : size[step[p]] < size[p]
    BY HalveRestLemma
  <2>2. comb \in [T -> [Paths -> Paths]]
    <3> SUFFICES ASSUME NEW p \in T, NEW v \in Paths PROVE <<p[1]>> \o v \in Paths
      OBVIOUS
    <3>1. p[1] \in PathChars
      BY HalveRestLemma
    <3> QED
      BY <3>1, ConsLemma DEF Paths
  <2>3. out \in [Paths -> Paths] /\ size \in [Paths -> Nat] /\ T \subseteq Paths
    BY <1>0
  <2> HIDE DEF T, step, comb, out, size
  <2> QED
    BY <2>1, <2>2, <2>3 DEF Descends
<1>2. PICK g \in [Paths -> Paths] :
        \A p \in Paths : g[p] = IF p \in T THEN comb[p][g[step[p]]] ELSE out[p]
  <2> HIDE DEF T, step, comb, out, size
  <2> QED
    BY ONLY <1>1, LinearRecursion
<1>3. ASSUME NEW p \in Paths
      PROVE  g[p] = IF Len(p) < 2 THEN p ELSE <<p[1]>> \o g[HalveRest(p)]
  <2>1. CASE Len(p) < 2
    <3>1. p \notin T /\ out[p] = p
      BY <1>0, <2>1
    <3> HIDE DEF T, step, comb, out
    <3> QED
      BY <1>2, <2>1, <3>1
  <2>2. CASE Len(p) >= 2
    <3>1. p \in T /\ step[p] = HalveRest(p) /\ g[HalveRest(p)] \in Paths
      BY <2>2, HalveRestLemma
    <3>2. comb[p][g[HalveRest(p)]] = <<p[1]>> \o g[HalveRest(p)]
      BY <3>1
    <3>3. ~(Len(p) < 2)
      BY <1>0, <2>2
    <3> HIDE DEF T, step, comb, out
    <3> QED
      BY <1>2, <3>1, <3>2, <3>3
  <2> QED
    BY <1>0, <2>1, <2>2
<1>4. g = F(g)
  <2>1. ASSUME NEW p \in Paths
        PROVE  F(g)[p] = IF Len(p) < 2 THEN p ELSE <<p[1]>> \o g[HalveRest(p)]
    BY DEF HalveRest
  <2>2. F(g) = [p \in Paths |-> F(g)[p]]
    OBVIOUS
  <2> HIDE DEF F
  <2> QED
    BY <1>3, <2>1, <2>2
<1>5. Halve = F(Halve)
  <2>1. Halve = CHOOSE h : h = F(h)
    BY DEF Halve
  <2> HIDE DEF F
  <2> QED
    BY <1>4, <2>1
<1>6. ASSUME NEW p \in Paths
      PROVE  Halve[p] = IF Len(p) < 2 THEN p ELSE <<p[1]>> \o Halve[HalveRest(p)]
  <2>1. Halve[p] = F(Halve)[p]
    BY <1>5
  <2> QED
    BY <2>1 DEF HalveRest
<1>7. Paths \subseteq {p \in Paths : Halve[p] \in Paths}
  <2> DEFINE H == {p \in Paths : Halve[p] \in Paths}
  <2>1. ASSUME NEW p \in Paths, \A q \in Paths : size[q] < size[p] => q \in H
        PROVE  p \in H
    <3>1. CASE Len(p) < 2
      BY <1>6, <3>1
    <3>2. CASE Len(p) >= 2
      <4>1. HalveRest(p) \in H /\ p[1] \in PathChars
        BY <2>1, <3>2, HalveRestLemma
      <4>2. <<p[1]>> \o Halve[HalveRest(p)] \in Paths
        BY <4>1, ConsLemma DEF Paths
      <4>3. Halve[p] = <<p[1]>> \o Halve[HalveRest(p)]
        <5>1. Len(p) \in Nat /\ ~(Len(p) < 2)
          BY <1>0, <3>2
        <5> QED
          BY <1>6, <5>1
      <4> QED
        BY <4>2, <4>3
    <3> QED
      BY <1>0, <3>1, <3>2
  <2>2. size \in [Paths -> Nat]
    BY <1>0
  <2> HIDE DEF H, size
  <2>3. Paths \subseteq H
    BY <2>1, <2>2, InductionOnSize
  <2> QED
    BY <2>3 DEF H
<1>8. Halve \in [Paths -> Paths]
  BY <1>5, <1>7
<1> QED
  BY <1>6, <1>8

\* The character at the front of a path belongs to no name.
Drops(p) == p[1] = Slash /\ (Len(p) = 1 \/ p[2] = Slash)

\* Names is defined, and unfolds by one character.
LEMMA NamesDef ==
  /\ Names \in [Paths -> Paths] /\ Names[<<>>] = <<>>
  /\ \A p \in Paths : p # <<>> =>
       Names[p] = IF Drops(p) THEN Names[Tail(p)] ELSE <<p[1]>> \o Names[Tail(p)]
<1> DEFINE T == {p \in Paths : p # <<>>}
           step == [p \in T |-> Tail(p)]
           comb == [p \in T |-> [v \in Paths |-> IF Drops(p) THEN v ELSE <<p[1]>> \o v]]
           out == [p \in Paths |-> <<>>]
           size == [p \in Paths |-> Len(p)]
           F(g) == [p \in Paths |->
                      IF p = <<>> THEN <<>>
                      ELSE IF p[1] = Slash /\ (Len(p) = 1 \/ p[2] = Slash) THEN g[Tail(p)]
                      ELSE <<p[1]>> \o g[Tail(p)]]
<1>0. ASSUME NEW p \in Paths, p # <<>>
      PROVE  p[1] \in PathChars /\ Tail(p) \in Paths /\ Len(Tail(p)) < Len(p)
  <2>1. p[1] \in PathChars /\ Tail(p) \in Paths /\ Len(Tail(p)) = Len(p) - 1
    BY <1>0, TailLemma DEF Paths
  <2>2. Len(p) \in Nat
    BY DEF Paths
  <2> QED
    BY <2>1, <2>2
<1>1. Descends(Paths, Paths, T, step, comb, out, size)
  <2>1. step \in [T -> Paths] /\ \A p \in T : size[step[p]] < size[p]
    BY <1>0
  <2>2. comb \in [T -> [Paths -> Paths]]
    <3> SUFFICES ASSUME NEW p \in T, NEW v \in Paths PROVE <<p[1]>> \o v \in Paths
      OBVIOUS
    <3>1. p[1] \in PathChars
      BY <1>0
    <3> QED
      BY <3>1, ConsLemma DEF Paths
  <2>3. out \in [Paths -> Paths] /\ size \in [Paths -> Nat] /\ T \subseteq Paths
    BY DEF Paths
  <2> HIDE DEF T, step, comb, out, size
  <2> QED
    BY <2>1, <2>2, <2>3 DEF Descends
<1>2. PICK g \in [Paths -> Paths] :
        \A p \in Paths : g[p] = IF p \in T THEN comb[p][g[step[p]]] ELSE out[p]
  <2> HIDE DEF T, step, comb, out, size
  <2> QED
    BY ONLY <1>1, LinearRecursion
<1>3. ASSUME NEW p \in Paths
      PROVE  g[p] = IF p = <<>> THEN <<>>
                    ELSE IF Drops(p) THEN g[Tail(p)] ELSE <<p[1]>> \o g[Tail(p)]
  <2>1. CASE p = <<>>
    <3>1. p \notin T /\ out[p] = <<>>
      BY <2>1
    <3> HIDE DEF T, step, comb, out
    <3> QED
      BY <1>2, <2>1, <3>1
  <2>2. CASE p # <<>>
    <3>1. p \in T /\ step[p] = Tail(p) /\ g[Tail(p)] \in Paths
      BY <2>2, <1>0
    <3>2. comb[p][g[Tail(p)]] = IF Drops(p) THEN g[Tail(p)] ELSE <<p[1]>> \o g[Tail(p)]
      BY <3>1
    <3> HIDE DEF T, step, comb, out
    <3> QED
      BY <1>2, <2>2, <3>1, <3>2
  <2> QED
    BY <2>1, <2>2
<1>4. g = F(g)
  <2>1. ASSUME NEW p \in Paths
        PROVE  F(g)[p] = IF p = <<>> THEN <<>>
                    ELSE IF Drops(p) THEN g[Tail(p)] ELSE <<p[1]>> \o g[Tail(p)]
    BY DEF Drops
  <2> SUFFICES ASSUME NEW p \in Paths PROVE g[p] = F(g)[p]
    OBVIOUS
  <2> HIDE DEF F
  <2> QED
    BY <1>3, <2>1
<1>5. Names = F(Names)
  <2>1. Names = CHOOSE h : h = F(h)
    BY DEF Names
  <2> HIDE DEF F
  <2> QED
    BY <1>4, <2>1
<1>6. ASSUME NEW p \in Paths
      PROVE  Names[p] = IF p = <<>> THEN <<>>
                        ELSE IF Drops(p) THEN Names[Tail(p)] ELSE <<p[1]>> \o Names[Tail(p)]
  <2>1. Names[p] = F(Names)[p]
    BY <1>5
  <2> QED
    BY <2>1 DEF Drops
<1>7. Paths \subseteq {p \in Paths : Names[p] \in Paths}
  <2> DEFINE H == {p \in Paths : Names[p] \in Paths}
  <2>1. ASSUME NEW p \in Paths, \A q \in Paths : size[q] < size[p] => q \in H
        PROVE  p \in H
    <3>1. CASE p = <<>>
      BY <1>6, <3>1
    <3>2. CASE p # <<>>
      <4>1. Tail(p) \in H /\ p[1] \in PathChars
        BY <1>0, <2>1, <3>2
      <4>2. <<p[1]>> \o Names[Tail(p)] \in Paths /\ Names[Tail(p)] \in Paths
        BY <4>1, ConsLemma DEF Paths
      <4>3. Names[p] = Names[Tail(p)] \/ Names[p] = <<p[1]>> \o Names[Tail(p)]
        BY <1>6, <3>2
      <4> QED
        BY <4>2, <4>3
    <3> QED
      BY <3>1, <3>2
  <2>2. size \in [Paths -> Nat]
    BY DEF Paths
  <2> HIDE DEF H, size
  <2>3. Paths \subseteq H
    BY <2>1, <2>2, InductionOnSize
  <2> QED
    BY <2>3 DEF H
<1>8. Names \in [Paths -> Paths]
  BY <1>5, <1>7
<1>9. <<>> \in Paths
  BY DEF Paths
<1> QED
  BY <1>6, <1>8, <1>9

\* Names of a path with one more character in front.
LEMMA NamesCons ==
  ASSUME NEW c \in PathChars, NEW a \in Paths
  PROVE  /\ <<c>> \o a \in Paths
         /\ Names[<<c>> \o a] = IF c = Slash /\ (a = <<>> \/ a[1] = Slash)
                                  THEN Names[a] ELSE <<c>> \o Names[a]
<1> DEFINE b == <<c>> \o a
<1>1. /\ b \in Seq(PathChars) /\ Len(b) = Len(a) + 1 /\ Len(a) \in Nat
      /\ b[1] = c /\ Tail(b) = a /\ b # <<>>
      /\ \A i \in 1..Len(a) : b[i + 1] = a[i]
  BY ConsLemma DEF Paths
<1> HIDE DEF b
<1>2. Drops(b) <=> c = Slash /\ (a = <<>> \/ a[1] = Slash)
  <2>1. CASE a = <<>>
    <3>1. Len(a) = 0
      BY <2>1
    <3> QED
      BY <1>1, <2>1, <3>1 DEF Drops
  <2>2. CASE a # <<>>
    <3>1. Len(a) # 0 /\ 1 \in 1..Len(a)
      BY <1>1, <2>2, EmptySeq DEF Paths
    <3>2. b[2] = a[1] /\ Len(b) # 1
      BY <1>1, <3>1
    <3> QED
      BY <1>1, <2>2, <3>2 DEF Drops
  <2> QED
    BY <2>1, <2>2
<1>3. Names[b] = IF Drops(b) THEN Names[a] ELSE <<c>> \o Names[a]
  BY <1>1, NamesDef DEF Paths
<1> QED
  BY <1>1, <1>2, <1>3 DEF b, Paths

\* One pass of qstrreplace shortens a path if it can, and keeps its names.
LEMMA HalveLemma ==
  ASSUME NEW p \in Paths
  PROVE  /\ Halve[p] \in Paths /\ Len(Halve[p]) <= Len(p)
         /\ HasDoubleSlash(p) => Len(Halve[p]) < Len(p)
         /\ p = <<>> => Halve[p] = <<>>
         /\ p # <<>> => Halve[p] # <<>> /\ Halve[p][1] = p[1]
         /\ Names[Halve[p]] = Names[p]
<1> DEFINE Good(q) ==
             /\ Len(Halve[q]) <= Len(q)
             /\ HasDoubleSlash(q) => Len(Halve[q]) < Len(q)
             /\ q = <<>> => Halve[q] = <<>>
             /\ q # <<>> => Halve[q] # <<>> /\ Halve[q][1] = q[1]
             /\ Names[Halve[q]] = Names[q]
           H == {q \in Paths : Good(q)}
           size == [q \in Paths |-> Len(q)]
<1>1. ASSUME NEW q \in Paths, \A r \in Paths : size[r] < size[q] => r \in H
      PROVE  Good(q)
  <2>0. Len(q) \in Nat
    BY DEF Paths
  <2>1. CASE Len(q) < 2
    <3>1. Halve[q] = q
      BY <2>1, HalveDef
    <3>2. ~HasDoubleSlash(q)
      BY <2>0, <2>1 DEF HasDoubleSlash
    <3> QED
      BY <2>0, <3>1, <3>2
  <2>2. CASE Len(q) >= 2
    <3> DEFINE r == HalveRest(q)
               h == Halve[r]
               c == q[1]
               t == Tail(q)
    <3>1. /\ c \in PathChars /\ r \in Paths /\ Len(r) < Len(q) /\ Len(r) \in Nat
          /\ c = Slash /\ q[2] = Slash => t = <<Slash>> \o r
          /\ ~(c = Slash /\ q[2] = Slash) => t = r
      BY <2>2, HalveRestLemma DEF Paths
    <3>2. Halve[q] = <<c>> \o h
      <4>1. ~(Len(q) < 2)
        BY <2>0, <2>2
      <4> QED
        BY <4>1, HalveDef
    <3>3. /\ t \in Seq(PathChars) /\ Len(t) = Len(q) - 1 /\ q = <<c>> \o t /\ q # <<>>
          /\ \A i \in 1..(Len(q) - 1) : t[i] = q[i + 1]
      <4>1. q # <<>>
        BY <2>2
      <4> QED
        BY <4>1, TailLemma DEF Paths
    <3>4. /\ h \in Paths /\ Len(h) <= Len(r) /\ Len(h) \in Nat
          /\ HasDoubleSlash(r) => Len(h) < Len(r)
          /\ r = <<>> => h = <<>>
          /\ r # <<>> => h # <<>> /\ h[1] = r[1]
          /\ Names[h] = Names[r]
      <4>1. r \in H
        BY <1>1, <3>1
      <4>2. h \in Paths
        BY <3>1, HalveDef
      <4> QED
        BY <4>1, <4>2 DEF Paths
    <3> HIDE DEF r, h, c, t
    <3>5. /\ Len(Halve[q]) = Len(h) + 1 /\ Halve[q][1] = c /\ Halve[q] # <<>>
      BY <3>1, <3>2, <3>4, ConsLemma DEF Paths
    <3>6. Names[Halve[q]] = IF c = Slash /\ (r = <<>> \/ r[1] = Slash)
                              THEN Names[r] ELSE <<c>> \o Names[r]
      BY <3>1, <3>2, <3>4, NamesCons
    <3>7. CASE c = Slash /\ q[2] = Slash
      <4>1. t = <<Slash>> \o r
        BY <3>1, <3>7
      <4>2. t # <<>> /\ t[1] = Slash /\ Len(t) = Len(r) + 1 /\ t \in Paths
        BY <3>1, <3>7, <4>1, ConsLemma DEF Paths
      <4>3. Names[q] = Names[t]
        BY <3>1, <3>3, <3>7, <4>2, NamesCons
      <4>4. Names[t] = Names[Halve[q]]
        BY <3>1, <3>6, <3>7, <4>1, NamesCons
      <4>5. Len(Halve[q]) < Len(q)
        BY <2>0, <3>1, <3>3, <3>4, <3>5, <4>2
      <4> QED
        BY <2>0, <3>3, <3>5, <4>3, <4>4, <4>5 DEF c
    <3>8. CASE ~(c = Slash /\ q[2] = Slash)
      <4>1. t = r
        BY <3>1, <3>8
      <4>2. Names[q] = Names[Halve[q]]
        BY <3>1, <3>3, <3>6, <4>1, NamesCons
      <4>3. HasDoubleSlash(q) => HasDoubleSlash(t)
        <5> SUFFICES ASSUME NEW i \in 1..(Len(q) - 1), q[i] = Slash, q[i + 1] = Slash
                     PROVE  \E j \in 1..(Len(t) - 1) : t[j] = Slash /\ t[j + 1] = Slash
          BY DEF HasDoubleSlash
        <5>1. i # 1
          BY <3>8 DEF c
        <5>2. i - 1 \in 1..(Len(t) - 1) /\ i - 1 \in 1..(Len(q) - 1) /\ i \in 1..(Len(q) - 1)
              /\ (i - 1) + 1 = i
          BY <2>0, <3>3, <5>1
        <5>3. t[i - 1] = q[i] /\ t[i] = q[i + 1]
          BY <3>3, <5>2
        <5> QED
          BY <5>2, <5>3
      <4>4. Len(Halve[q]) <= Len(q) /\ (HasDoubleSlash(q) => Len(Halve[q]) < Len(q))
        BY <2>0, <3>1, <3>3, <3>4, <3>5, <4>1, <4>3
      <4> QED
        BY <3>3, <3>5, <4>2, <4>4 DEF c
    <3> QED
      BY <3>7, <3>8
  <2> QED
    BY <2>0, <2>1, <2>2
<1>2. size \in [Paths -> Nat]
  BY DEF Paths
<1>3. Paths \subseteq H
  <2>1. \A q \in Paths : (\A r \in Paths : size[r] < size[q] => r \in H) => q \in H
    BY <1>1
  <2> HIDE DEF H, size
  <2> QED
    BY <1>2, <2>1, InductionOnSize
<1> QED
  BY <1>3, HalveDef

\* The loop ends: every pass shortens the path, and no double slash is left.
LEMMA SingleSlashesLemma ==
  ASSUME NEW p \in Paths
  PROVE  /\ SingleSlashes[p] \in Paths /\ ~HasDoubleSlash(SingleSlashes[p])
         /\ Names[SingleSlashes[p]] = Names[p]
         /\ p # <<>> => SingleSlashes[p] # <<>> /\ SingleSlashes[p][1] = p[1]
<1> DEFINE T == {q \in Paths : HasDoubleSlash(q)}
           step == [q \in T |-> Halve[q]]
           comb == [q \in T |-> [v \in Paths |-> v]]
           out == [q \in Paths |-> q]
           size == [q \in Paths |-> Len(q)]
           F(g) == [q \in Paths |-> IF HasDoubleSlash(q) THEN g[Halve[q]] ELSE q]
<1>1. step \in [T -> Paths] /\ \A q \in T : size[step[q]] < size[q]
  BY HalveLemma
<1>2. Descends(Paths, Paths, T, step, comb, out, size)
  <2>1. comb \in [T -> [Paths -> Paths]]
    OBVIOUS
  <2>2. out \in [Paths -> Paths] /\ size \in [Paths -> Nat] /\ T \subseteq Paths
    BY DEF Paths
  <2> HIDE DEF T, step, comb, out, size
  <2> QED
    BY <1>1, <2>1, <2>2 DEF Descends
<1>3. PICK g \in [Paths -> Paths] :
        \A q \in Paths : g[q] = IF q \in T THEN comb[q][g[step[q]]] ELSE out[q]
  <2> HIDE DEF T, step, comb, out, size
  <2> QED
    BY ONLY <1>2, LinearRecursion
<1>4. ASSUME NEW q \in Paths
      PROVE  g[q] = IF HasDoubleSlash(q) THEN g[Halve[q]] ELSE q
  <2>1. CASE q \in T
    <3>1. step[q] = Halve[q] /\ Halve[q] \in Paths /\ g[Halve[q]] \in Paths
      BY <2>1, HalveDef
    <3>2. comb[q][g[Halve[q]]] = g[Halve[q]]
      BY <2>1, <3>1
    <3>3. HasDoubleSlash(q)
      BY <2>1
    <3> HIDE DEF T, step, comb, out
    <3> QED
      BY <1>3, <2>1, <3>1, <3>2, <3>3
  <2>2. CASE q \notin T
    <3>1. ~HasDoubleSlash(q) /\ out[q] = q
      BY <2>2
    <3> HIDE DEF T, step, comb, out
    <3> QED
      BY <1>3, <2>2, <3>1
  <2> QED
    BY <2>1, <2>2
<1>5. g = F(g)
  BY <1>4
<1>6. SingleSlashes = F(SingleSlashes)
  <2>1. SingleSlashes = CHOOSE h : h = F(h)
    BY DEF SingleSlashes
  <2> HIDE DEF F
  <2> QED
    BY <1>5, <2>1
<1>7. ASSUME NEW q \in Paths
      PROVE  SingleSlashes[q] = IF HasDoubleSlash(q) THEN SingleSlashes[Halve[q]] ELSE q
  <2>1. SingleSlashes[q] = F(SingleSlashes)[q]
    BY <1>6
  <2> QED
    BY <2>1
<1> DEFINE Good(q) ==
             /\ SingleSlashes[q] \in Paths /\ ~HasDoubleSlash(SingleSlashes[q])
             /\ Names[SingleSlashes[q]] = Names[q]
             /\ q # <<>> => SingleSlashes[q] # <<>> /\ SingleSlashes[q][1] = q[1]
           H == {q \in Paths : Good(q)}
<1>8. ASSUME NEW q \in Paths, \A r \in Paths : size[r] < size[q] => r \in H
      PROVE  Good(q)
  <2>1. CASE HasDoubleSlash(q)
    <3>1. Halve[q] \in H
      <4>1. Halve[q] \in Paths /\ size[Halve[q]] < size[q]
        BY <2>1, HalveLemma
      <4> HIDE DEF H, size
      <4> QED
        BY <1>8, <4>1
    <3>2. /\ Names[Halve[q]] = Names[q]
          /\ q # <<>> => Halve[q] # <<>> /\ Halve[q][1] = q[1]
      BY HalveLemma
    <3>3. SingleSlashes[q] = SingleSlashes[Halve[q]]
      BY <1>7, <2>1
    <3> QED
      BY <3>1, <3>2, <3>3
  <2>2. CASE ~HasDoubleSlash(q)
    BY <1>7, <2>2
  <2> QED
    BY <2>1, <2>2
<1>9. size \in [Paths -> Nat]
  BY DEF Paths
<1>10. Paths \subseteq H
  <2>1. \A q \in Paths : (\A r \in Paths : size[r] < size[q] => r \in H) => q \in H
    BY <1>8
  <2> HIDE DEF H, size
  <2> QED
    BY <1>9, <2>1, InductionOnSize
<1> QED
  BY <1>10

\* Without the slash at its end.
Stripped(q) == IF q # <<>> /\ q[Len(q)] = Slash THEN SubSeq(q, 1, Len(q) - 1) ELSE q

\* Where no slash follows another, only one at the end precedes no name.
LEMMA NamesStripped ==
  ASSUME NEW p \in Paths, ~HasDoubleSlash(p)
  PROVE  Names[p] = Stripped(p)
<1> DEFINE H == {q \in Paths : ~HasDoubleSlash(q) => Names[q] = Stripped(q)}
           size == [q \in Paths |-> Len(q)]
<1>1. ASSUME NEW q \in Paths, \A r \in Paths : size[r] < size[q] => r \in H,
             ~HasDoubleSlash(q)
      PROVE  Names[q] = Stripped(q)
  <2>1. CASE q = <<>>
    BY <2>1, NamesDef DEF Stripped
  <2>2. CASE q # <<>>
    <3> DEFINE t == Tail(q)
               c == q[1]
               n == Len(q)
    <3>1. /\ c \in PathChars /\ t \in Seq(PathChars) /\ n > 0 /\ n \in Nat /\ Len(t) = n - 1
          /\ \A i \in 1..(n - 1) : t[i] = q[i + 1]
          /\ q = <<c>> \o t /\ t \in Paths
      BY <2>2, TailLemma DEF Paths
    <3>2. Names[q] = IF c = Slash /\ (t = <<>> \/ t[1] = Slash)
                       THEN Names[t] ELSE <<c>> \o Names[t]
      <4> HIDE DEF c, t
      <4> QED
        BY <3>1, NamesCons
    <3>3. ~HasDoubleSlash(t)
      BY <1>1, <3>1 DEF HasDoubleSlash
    <3>4. Names[t] = Stripped(t)
      <4>1. t \in Paths /\ size[t] < size[q]
        BY <3>1
      <4>2. t \in H
        <5> HIDE DEF H, size, t
        <5> QED
          BY <1>1, <4>1
      <4> QED
        BY <3>3, <4>2
    <3>5. CASE n = 1
      <4>1. t = <<>>
        BY <3>1, <3>5, EmptySeq
      <4>2. Stripped(t) = <<>> /\ <<c>> \o <<>> = <<c>> /\ q = <<c>>
        BY <3>1, <4>1, CutJoinLemma DEF Stripped
      <4>3. Stripped(q) = IF c = Slash THEN <<>> ELSE q
        <5>1. SubSeq(q, 1, 0) = <<>>
          BY SubSeqEmpty
        <5>2. Stripped(q) = IF q[1] = Slash THEN SubSeq(q, 1, 1 - 1) ELSE q
          BY <2>2, <3>5 DEF Stripped
        <5>3. 1 - 1 = 0
          OBVIOUS
        <5> QED
          BY <5>1, <5>2, <5>3
      <4> QED
        BY <3>2, <3>4, <4>1, <4>2, <4>3
    <3>6. CASE n > 1
      <4>1. t # <<>> /\ t[1] = q[2] /\ t[Len(t)] = q[n]
        <5>1. 1 \in 1..(n - 1) /\ n - 1 \in 1..(n - 1) /\ (n - 1) + 1 = n /\ Len(t) # 0
          BY <3>1, <3>6
        <5> HIDE DEF t, n
        <5>2. t[1] = q[1 + 1] /\ t[n - 1] = q[(n - 1) + 1] /\ 1 + 1 = 2
          BY <3>1, <5>1
        <5>3. t # <<>>
          BY <3>1, <5>1
        <5> QED
          BY <3>1, <5>1, <5>2, <5>3
      <4>2. ~(c = Slash /\ t[1] = Slash)
        BY <1>1, <3>1, <3>6, <4>1 DEF HasDoubleSlash
      <4>3. Names[q] = <<c>> \o Stripped(t)
        BY <3>2, <3>4, <4>1, <4>2
      <4>4. CASE q[n] = Slash
        <5>1. Stripped(t) = SubSeq(t, 1, Len(t) - 1) /\ Stripped(q) = SubSeq(q, 1, n - 1)
          BY <2>2, <4>1, <4>4 DEF Stripped
        <5>2. SubSeq(<<c>> \o t, 1, Len(<<c>>) + (n - 2)) = <<c>> \o SubSeq(t, 1, n - 2)
          <6>1. <<c>> \in Seq(PathChars) /\ n - 2 \in 0..Len(t) /\ t \in Seq(PathChars)
            BY <3>1, <3>6
          <6> HIDE DEF c, t, n
          <6> QED
            BY <6>1, JoinCut, SMTT(30)
        <5>3. Len(<<c>>) + (n - 2) = n - 1 /\ Len(t) - 1 = n - 2
          BY <3>1
        <5> HIDE DEF c, t, n
        <5> QED
          BY <3>1, <4>3, <5>1, <5>2, <5>3
      <4>5. CASE q[n] # Slash
        <5>1. Stripped(t) = t /\ Stripped(q) = q
          BY <4>1, <4>5 DEF Stripped
        <5> QED
          BY <3>1, <4>3, <5>1
      <4> QED
        BY <4>4, <4>5
    <3> QED
      BY <3>1, <3>5, <3>6
  <2> QED
    BY <2>1, <2>2
<1>2. size \in [Paths -> Nat]
  BY DEF Paths
<1>3. Paths \subseteq H
  <2>1. \A q \in Paths : (\A r \in Paths : size[r] < size[q] => r \in H) => q \in H
    BY <1>1
  <2> HIDE DEF H, size
  <2> QED
    BY <1>2, <2>1, InductionOnSize
<1> QED
  BY <1>3

\* The limits of isValidPathname are those on the path and on its names.
THEOREM ValidPathname ==
  ASSUME NEW p \in Paths
  PROVE  IsValidPathname(p) <=> ValidPath(p)
<1>1. p \in Seq(PathChars) /\ Len(p) \in Nat /\ DOMAIN p = 1..Len(p)
      /\ FilenameMax \in Nat /\ PathMax \in Nat
  BY PathAssumption DEF Paths
<1>2. Len(p) \in 1..(PathMax - 1) <=> Len(p) > 0 /\ Len(p) < PathMax
  BY <1>1
<1> DEFINE Dense == \A i \in 1..(Len(p) - FilenameMax) :
                      \E j \in i..(i + FilenameMax) : p[j] = Slash
<1>3. Dense <=> NamesFit(p)
  <2>1. ASSUME Dense, NEW i \in DOMAIN p, NEW j \in DOMAIN p, \A k \in i..j : p[k] # Slash
        PROVE  j - i < FilenameMax
    <3> SUFFICES ASSUME ~(j - i < FilenameMax) PROVE FALSE
      OBVIOUS
    <3>1. i \in 1..(Len(p) - FilenameMax)
      BY <1>1, <2>1
    <3>2. PICK k \in i..(i + FilenameMax) : p[k] = Slash
      BY <2>1, <3>1
    <3>3. k \in i..j
      BY <1>1
    <3> QED
      BY <2>1, <3>2, <3>3
  <2>2. ASSUME NamesFit(p), NEW i \in 1..(Len(p) - FilenameMax)
        PROVE  \E j \in i..(i + FilenameMax) : p[j] = Slash
    <3>1. i \in DOMAIN p /\ i + FilenameMax \in DOMAIN p
          /\ ~((i + FilenameMax) - i < FilenameMax)
      BY <1>1
    <3> QED
      BY <2>2, <3>1 DEF NamesFit
  <2> QED
    BY <2>1, <2>2 DEF NamesFit
<1> QED
  BY <1>2, <1>3 DEF IsValidPathname, ValidPath

\* qstrtrim leaves the slash at the front.
LEMMA TrimLemma ==
  ASSUME NEW p \in Paths, p # <<>>, p[1] = Slash
  PROVE  Trim(p) \in Paths /\ Trim(p) # <<>> /\ Trim(p)[1] = Slash
<1> DEFINE inked == {i \in DOMAIN p : p[i] \notin Blanks}
           first == CHOOSE i \in inked : \A j \in inked : i <= j
           last == CHOOSE i \in inked : \A j \in inked : i >= j
<1>1. p \in Seq(PathChars) /\ Len(p) \in Nat /\ Len(p) > 0 /\ DOMAIN p = 1..Len(p)
  BY EmptySeq DEF Paths
<1>2. 1 \in inked /\ inked \subseteq 1..Len(p)
  BY <1>1, PathAssumption
<1>3. Trim(p) = SubSeq(p, first, last)
  BY <1>2 DEF Trim
<1> HIDE DEF inked
<1>4. first = 1
  <2>1. \A j \in inked : 1 <= j
    BY <1>1, <1>2
  <2>2. first \in inked /\ \A j \in inked : first <= j
    <3>1. \E i \in inked : \A j \in inked : i <= j
      BY <1>2, <2>1
    <3> QED
      BY <3>1, Zenon
  <2> HIDE DEF first
  <2>3. first \in 1..Len(p) /\ first <= 1
    BY <1>2, <2>2
  <2> QED
    BY <1>1, <2>3
<1>5. last \in 1..Len(p)
  <2> DEFINE U == {Len(p) - i : i \in inked}
  <2>1. U # {} /\ U \subseteq Nat
    BY <1>1, <1>2
  <2>2. PICK n \in U : \A m \in U : n <= m
    <3> HIDE DEF U
    <3> QED
      BY <2>1, LeastNatural
  <2>3. PICK i \in inked : n = Len(p) - i
    BY <2>2
  <2>4. ASSUME NEW j \in inked PROVE i >= j
    <3>1. Len(p) - j \in U
      OBVIOUS
    <3>2. Len(p) - i <= Len(p) - j
      BY <2>2, <2>3, <3>1
    <3> QED
      BY <1>1, <1>2, <2>3, <3>2
  <2>5. last \in inked
    BY <2>3, <2>4, Zenon
  <2> QED
    BY <1>2, <2>5
<1> HIDE DEF first, last
<1>6. /\ SubSeq(p, 1, last) \in Seq(PathChars) /\ Len(SubSeq(p, 1, last)) = last
      /\ SubSeq(p, 1, last)[1] = p[1]
  BY <1>1, <1>5
<1> QED
  BY <1>3, <1>4, <1>5, <1>6 DEF Paths

\* correctPathname brings every path that is let through to its one form,
\* which is a path.
THEOREM CorrectPathnameForm ==
  ASSUME NEW p \in Paths, IsValidPathname(p)
  PROVE  CorrectPathname(p) = OneForm(p) /\ CorrectPathname(p) \in Paths
<1> DEFINE t == Trim(p)
           q == SingleSlashes[t]
<1>1. p # <<>> /\ p[1] = Slash
  BY DEF IsValidPathname, Paths
<1>2. t \in Paths /\ t # <<>> /\ t[1] = Slash
  BY <1>1, TrimLemma
<1> HIDE DEF t
<1>3. q \in Paths /\ q # <<>> /\ q[1] = Slash /\ Names[t] = Stripped(q)
  BY <1>2, SingleSlashesLemma, NamesStripped
<1>4. /\ CorrectPathname(p)
           = IF Len(q) > 1 /\ q[Len(q)] = Slash THEN SubSeq(q, 1, Len(q) - 1) ELSE q
      /\ OneForm(p) = IF Stripped(q) = <<>> THEN <<Slash>> ELSE Stripped(q)
  BY <1>3 DEF CorrectPathname, OneForm, t
<1> HIDE DEF q
<1>5. q \in Seq(PathChars) /\ Len(q) \in Nat /\ Len(q) > 0
  BY <1>3, EmptySeq DEF Paths
<1>6. CASE Len(q) = 1
  <2>1. q = <<Slash>>
    BY <1>3, <1>5, <1>6
  <2>2. Stripped(q) = SubSeq(q, 1, 0)
    BY <1>3, <1>6 DEF Stripped
  <2>3. SubSeq(q, 1, 0) = <<>>
    BY SubSeqEmpty
  <2> QED
    BY <1>3, <1>4, <1>6, <2>1, <2>2, <2>3
<1>7. CASE Len(q) > 1 /\ q[Len(q)] = Slash
  <2>1. /\ SubSeq(q, 1, Len(q) - 1) \in Seq(PathChars)
        /\ Len(SubSeq(q, 1, Len(q) - 1)) = Len(q) - 1
    BY <1>5, <1>7
  <2> DEFINE r == SubSeq(q, 1, Len(q) - 1)
  <2>2. Stripped(q) = r
    BY <1>3, <1>7 DEF Stripped
  <2>3. r \in Paths /\ Len(r) > 0
    BY <1>5, <1>7, <2>1 DEF Paths
  <2>4. CorrectPathname(p) = r
    BY <1>4, <1>7
  <2> HIDE DEF r
  <2>5. r # <<>>
    BY <2>3 DEF Paths
  <2> QED
    BY <1>4, <2>2, <2>3, <2>4, <2>5
<1>8. CASE Len(q) > 1 /\ q[Len(q)] # Slash
  BY <1>3, <1>4, <1>8 DEF Stripped
<1>9. Len(q) = 1 \/ Len(q) > 1
  <2> DEFINE n == Len(q)
  <2>1. n \in Nat /\ n > 0
    BY <1>5
  <2> HIDE DEF n
  <2>2. n = 1 \/ n > 1
    BY <2>1
  <2> QED
    BY <2>2 DEF n
<1> QED
  BY <1>6, <1>7, <1>8, <1>9

-----------------------------------------------------------------------------
(* The parser.                                                             *)

\* The body is untouched before it is reached.
GoodRequest(req) ==
  /\ req.status \in {REQ_INIT, REQUESTLINE_DONE} =>
       req.bodyin = 0 /\ req.contentlength = NoLength
  /\ req.status = HEADER_DONE => Sane(req)

\* The statuses are five different numbers.
LEMMA StatusNumbers ==
  /\ REQ_INIT = 0 /\ REQUESTLINE_DONE = 1 /\ HEADER_DONE = 2 /\ REQ_DONE = 3
  /\ HTTP_ERROR = 4 /\ REQ_INIT..HTTP_ERROR = {0, 1, 2, 3, 4}
BY DEF REQ_INIT, REQUESTLINE_DONE, HEADER_DONE, REQ_DONE, HTTP_ERROR

\* What parse_requestline makes of a line, and what it leaves alone.
LEMMA RequestLineLemma ==
  ASSUME NEW req \in Request, req.status = REQ_INIT, NEW line
  PROVE  LET r == ParseRequestLine(req, line)
         IN  /\ r \in Request /\ r.status \in {REQUESTLINE_DONE, HTTP_ERROR}
             /\ r.bodyin = req.bodyin /\ r.contentlength = req.contentlength
             /\ r.length = req.length /\ r.chunked = req.chunked /\ r.inbuf = req.inbuf
             /\ Len(line) = 1 /\ line[1] \in DOMAIN Lines =>
                  /\ r.status = LineStatus[line[1]]
                  /\ r.method = Lines[line[1]].method /\ r.path = LinePath[line[1]]
             /\ ~(Len(line) = 1 /\ line[1] \in DOMAIN Lines) => r.status = HTTP_ERROR
<1> DEFINE Others(r) ==
             /\ r.bodyin = req.bodyin /\ r.contentlength = req.contentlength
             /\ r.length = req.length /\ r.chunked = req.chunked /\ r.inbuf = req.inbuf
<1>1. CASE Len(line) = 1 /\ line[1] \in DOMAIN Lines
  <2> DEFINE l == line[1]
             st == LineStatus[l]
             me == Lines[l].method
             pa == LinePath[l]
             r == [req EXCEPT !.status = st, !.method = me, !.path = pa]
  <2>1. st \in {REQUESTLINE_DONE, HTTP_ERROR} /\ me \in Methods /\ pa \in Paths
    <3>1. Lines[l].method \in Methods /\ Lines[l].path \in Paths
      BY <1>1, PathTypes
    <3>2. st \in {REQUESTLINE_DONE, HTTP_ERROR}
      BY <1>1 DEF LineStatus
    <3>3. pa \in Paths
      <4>1. CASE IsValidPathname(Lines[l].path)
        <5>1. pa = CorrectPathname(Lines[l].path)
          BY <1>1, <4>1 DEF LinePath
        <5> QED
          BY <3>1, <4>1, <5>1, CorrectPathnameForm
      <4>2. CASE ~IsValidPathname(Lines[l].path)
        <5>1. pa = Lines[l].path
          BY <1>1, <4>2 DEF LinePath
        <5> QED
          BY <3>1, <5>1
      <4> QED
        BY <4>1, <4>2
    <3> QED
      BY <3>1, <3>2, <3>3
  <2>2. ~(Len(line) = 1 /\ l \in DOMAIN BadLines)
    BY <1>1, SymbolAssumption
  <2>3. ParseRequestLine(req, line) = r
    BY <1>1, <2>2 DEF ParseRequestLine
  <2> HIDE DEF st, me, pa
  <2>4. st \in REQ_INIT..HTTP_ERROR
    BY <2>1, StatusNumbers
  <2>5. r \in Request
    <3> HIDE DEF REQ_INIT, HTTP_ERROR
    <3> QED
      BY <2>1, <2>4, Zenon DEF Request
  <2>6. r.status = st /\ r.method = me /\ r.path = pa /\ Others(r)
    BY DEF Request
  <2> HIDE DEF r
  <2> QED
    BY <1>1, <2>1, <2>3, <2>5, <2>6 DEF st, me, pa
<1>2. CASE Len(line) = 1 /\ line[1] \in DOMAIN BadLines
  <2> DEFINE me == BadLines[line[1]]
             r == [req EXCEPT !.status = HTTP_ERROR, !.method = me]
  <2>1. me \in Methods /\ line[1] \notin DOMAIN Lines
    BY <1>2, PathTypes, SymbolAssumption
  <2>2. ParseRequestLine(req, line) = r
    BY <1>2, <2>1 DEF ParseRequestLine
  <2> HIDE DEF me
  <2>3. HTTP_ERROR \in REQ_INIT..HTTP_ERROR
    BY StatusNumbers
  <2>4. r \in Request
    <3> HIDE DEF REQ_INIT, HTTP_ERROR
    <3> QED
      BY <2>1, <2>3, Zenon DEF Request
  <2>5. r.status = HTTP_ERROR /\ Others(r)
    BY DEF Request
  <2> HIDE DEF r
  <2> QED
    BY <2>1, <2>2, <2>4, <2>5
<1>3. CASE ~(Len(line) = 1 /\ line[1] \in DOMAIN Lines)
           /\ ~(Len(line) = 1 /\ line[1] \in DOMAIN BadLines)
  <2> DEFINE r == [req EXCEPT !.status = HTTP_ERROR]
  <2>1. ParseRequestLine(req, line) = r
    BY <1>3 DEF ParseRequestLine
  <2>2. HTTP_ERROR \in REQ_INIT..HTTP_ERROR
    BY StatusNumbers
  <2>3. r \in Request
    <3> HIDE DEF REQ_INIT, HTTP_ERROR
    <3> QED
      BY <2>2, Zenon DEF Request
  <2>4. r.status = HTTP_ERROR /\ Others(r)
    BY DEF Request
  <2> HIDE DEF r
  <2> QED
    BY <1>3, <2>1, <2>3, <2>4
<1> QED
  BY <1>1, <1>2, <1>3

\* A request line that is there is read the same with more behind it.
LEMMA RequestLineInPieces ==
  ASSUME NEW s \in State, GoodRequest(s.req), NEW x \in Bytes
  PROVE  LET r == AtRequestLine(s)
         IN  /\ r \in State /\ GoodRequest(r.req)
             /\ r.req.status = REQ_INIT => r = s
             /\ r.req.status # REQ_INIT => AtRequestLine(Grown(s, x)) = Grown(r, x)
<1> DEFINE g == Grown(s, x)
           r == AtRequestLine(s)
<1>1. /\ s.req \in Request /\ s.in \in Bytes /\ s.req.status \in REQ_INIT..HTTP_ERROR
      /\ g \in State /\ g.req = s.req /\ g.in = s.in \o x
  BY StateLemma, GrownLemma DEF Request
<1>2. CASE s.req.status # REQ_INIT
  BY <1>1, <1>2 DEF AtRequestLine
<1>3. CASE s.req.status = REQ_INIT /\ ~HasLine(s.in)
  BY <1>3 DEF AtRequestLine
<1>4. CASE s.req.status = REQ_INIT /\ HasLine(s.in)
  <2> DEFINE q == s.req
             l == Line(s.in)
             d == DrainLine(s.in)
             p == ParseRequestLine(q, l)
  <2>1. d \in Bytes /\ HasLine(s.in \o x) /\ Line(s.in \o x) = l /\ DrainLine(s.in \o x) = d \o x
    BY <1>1, <1>4, LineLemma, LineJoin
  <2>2. q \in Request /\ q.status = REQ_INIT
    BY <1>1, <1>4
  <2>3. r = St(p, d)
    BY <1>4 DEF AtRequestLine
  <2>4. AtRequestLine(g) = St(p, d \o x)
    <3> HIDE DEF g, d, l
    <3> QED
      BY <1>1, <1>4, <2>1 DEF AtRequestLine
  <2>5. q.bodyin = 0 /\ q.contentlength = NoLength
    BY <1>4 DEF GoodRequest
  <2> HIDE DEF q, l, d, r, g
  <2>6. /\ p \in Request /\ p.status \in {REQUESTLINE_DONE, HTTP_ERROR}
        /\ p.bodyin = q.bodyin /\ p.contentlength = q.contentlength
    BY <2>2, RequestLineLemma
  <2> HIDE DEF p
  <2>7. r \in State /\ r.req = p /\ r.in = d
    BY <2>1, <2>3, <2>6, StateLemma
  <2>8. p.status # REQ_INIT /\ p.status # HEADER_DONE
    BY <2>6, StatusNumbers
  <2> QED
    BY <2>4, <2>5, <2>6, <2>7, <2>8 DEF GoodRequest, Grown, r, g
<1> QED
  BY <1>2, <1>3, <1>4

\* The stages before the body.
Before(s) == AtHeaders(AtRequestLine(s))

\* So are the request line and the headers together.
LEMMA BeforeInPieces ==
  ASSUME NEW s \in State, GoodRequest(s.req), NEW x \in Bytes
  PROVE  LET r == Before(s)
         IN  /\ r \in State /\ GoodRequest(r.req)
             /\ r.req.status \in {HEADER_DONE, REQ_DONE, HTTP_ERROR} =>
                  Before(Grown(s, x)) = Grown(r, x)
             /\ r.req.status \in {REQ_INIT, REQUESTLINE_DONE} =>
                  Before(Grown(r, x)) = Before(Grown(s, x))
<1> DEFINE l == AtRequestLine(s)
           r == Before(s)
           g == Grown(s, x)
<1>1. /\ l \in State /\ GoodRequest(l.req)
      /\ l.req.status = REQ_INIT => l = s
      /\ l.req.status # REQ_INIT => AtRequestLine(g) = Grown(l, x)
  BY RequestLineInPieces
<1>2. r = IF l.req.status = REQUESTLINE_DONE THEN ParseHeaders[l] ELSE l
  BY DEF Before, AtHeaders
<1> HIDE DEF l, r, g
<1>3. Grown(l, x) \in State /\ Grown(l, x).req = l.req
  BY <1>1, GrownLemma
<1>4. l.req.status \in REQ_INIT..HTTP_ERROR
  BY <1>1, StateLemma DEF Request
<1>5. CASE l.req.status = REQUESTLINE_DONE
  <2>1. /\ r \in State /\ r.req.status \in {REQUESTLINE_DONE, HEADER_DONE}
        /\ r.req.bodyin = l.req.bodyin
        /\ r.req.status = REQUESTLINE_DONE => r.req.contentlength = l.req.contentlength
        /\ r.req.status = HEADER_DONE => ParseHeaders[Grown(l, x)] = Grown(r, x)
        /\ r.req.status = REQUESTLINE_DONE =>
             ParseHeaders[Grown(r, x)] = ParseHeaders[Grown(l, x)]
    BY <1>1, <1>2, <1>5, HeadersInPieces
  <2>2. Before(g) = ParseHeaders[Grown(l, x)]
    BY <1>1, <1>3, <1>5, StatusNumbers DEF Before, AtHeaders
  <2>3. r.req.bodyin = 0 /\ l.req.contentlength = NoLength
    BY <1>1, <1>5, <2>1 DEF GoodRequest
  <2>4. GoodRequest(r.req)
    <3>1. Sane(r.req)
      BY <2>3 DEF Sane
    <3> QED
      BY <2>1, <2>3, <3>1, StatusNumbers DEF GoodRequest
  <2>5. Grown(r, x).req = r.req
    BY <2>1, GrownLemma
  <2>6. r.req.status = REQUESTLINE_DONE => Before(Grown(r, x)) = ParseHeaders[Grown(r, x)]
    BY <2>5, StatusNumbers DEF Before, AtHeaders, AtRequestLine
  <2>7. REQUESTLINE_DONE # REQ_INIT /\ REQUESTLINE_DONE # HEADER_DONE
        /\ r.req.status # REQ_INIT /\ r.req.status # REQ_DONE /\ r.req.status # HTTP_ERROR
    BY <2>1, StatusNumbers
  <2> QED
    BY <2>1, <2>2, <2>4, <2>6, <2>7 DEF r, g
<1>6. CASE l.req.status # REQUESTLINE_DONE /\ l.req.status # REQ_INIT
  <2>1. r = l /\ Before(g) = Grown(r, x)
    BY <1>1, <1>2, <1>3, <1>6 DEF Before, AtHeaders
  <2> QED
    BY <1>1, <1>6, <2>1 DEF r, g
<1>7. CASE l.req.status = REQ_INIT
  <2>1. r = s
    BY <1>1, <1>2, <1>7, StatusNumbers
  <2>2. r.req.status = REQ_INIT
    BY <1>1, <1>7, <2>1
  <2>3. r \in State /\ GoodRequest(r.req) /\ Before(Grown(r, x)) = Before(g)
    BY <2>1 DEF g
  <2> QED
    BY <2>2, <2>3, StatusNumbers DEF r, g
<1> QED
  BY <1>5, <1>6, <1>7

\* What is there keeps to the chunk format, as far as it is looked at.
ChunksOK(s) == Before(s).req.status = HEADER_DONE => BodyEnds(Before(s))

\* Chunks that are well formed are so when only a part has arrived.
LEMMA ChunksOKPrefix ==
  ASSUME NEW s \in State, GoodRequest(s.req), NEW x \in Bytes, ChunksOK(Grown(s, x))
  PROVE  ChunksOK(s)
<1> SUFFICES ASSUME Before(s).req.status = HEADER_DONE PROVE BodyEnds(Before(s))
  BY DEF ChunksOK
<1> DEFINE b == Before(s)
<1>1. b \in State /\ Before(Grown(s, x)) = Grown(b, x)
  BY BeforeInPieces
<1> HIDE DEF b
<1>2. Grown(b, x).req = b.req /\ Grown(b, x).in = b.in \o x /\ b.in \in Bytes
  BY <1>1, GrownLemma, StateLemma
<1>3. BodyEnds(Grown(b, x))
  BY <1>1, <1>2 DEF ChunksOK, b
<1>4. BodyEnds(b)
  BY <1>2, <1>3, ChunksPrefix DEF BodyEnds
<1> QED
  BY <1>4 DEF b

\* A request that arrives in two pieces is read as if it arrived in one, and
\* a request that is done or refused is not touched any more.
THEOREM ParserInPieces ==
  ASSUME NEW s \in State, GoodRequest(s.req), ChunksOK(s), NEW x \in Bytes
  PROVE  LET r == HttpParser(s)
         IN  /\ r \in State /\ GoodRequest(r.req)
             /\ HttpParser(Grown(r, x)) = HttpParser(Grown(s, x))
             /\ r.req.status \in {REQ_DONE, HTTP_ERROR} =>
                  HttpParser(Grown(s, x)) = Grown(r, x)
<1> DEFINE b == Before(s)
           r == HttpParser(s)
<1>1. /\ b \in State /\ GoodRequest(b.req)
      /\ b.req.status \in {HEADER_DONE, REQ_DONE, HTTP_ERROR} =>
           Before(Grown(s, x)) = Grown(b, x)
      /\ b.req.status \in {REQ_INIT, REQUESTLINE_DONE} =>
           Before(Grown(b, x)) = Before(Grown(s, x))
  BY BeforeInPieces
<1>2. \A u : HttpParser(u) = AtBody(Before(u))
  BY DEF HttpParser, Before
<1>3. r = AtBody(b)
  BY <1>2
<1>4. b.req.status = HEADER_DONE => BodyEnds(b)
  BY DEF ChunksOK
<1> HIDE DEF b, r
<1>5. b.req.status \in REQ_INIT..HTTP_ERROR
  BY <1>1, StateLemma DEF Request
<1>6. ASSUME NEW u \in State, u.req.status \in {HEADER_DONE, REQ_DONE, HTTP_ERROR}
      PROVE  HttpParser(Grown(u, x)) = AtBody(Grown(u, x))
  <2>1. Grown(u, x).req = u.req
    BY GrownLemma
  <2> QED
    BY <1>2, <1>6, <2>1, StatusNumbers DEF Before, AtHeaders, AtRequestLine
<1>7. ASSUME NEW u \in State, u.req.status \in {REQ_DONE, HTTP_ERROR}
      PROVE  AtBody(Grown(u, x)) = Grown(u, x)
  <2>1. Grown(u, x).req = u.req
    BY GrownLemma
  <2> QED
    BY <1>7, <2>1, StatusNumbers DEF AtBody
<1>8. CASE b.req.status \in {REQ_INIT, REQUESTLINE_DONE}
  <2>1. r = b
    BY <1>3, <1>8, StatusNumbers DEF AtBody
  <2>2. b.req.status # REQ_DONE /\ b.req.status # HTTP_ERROR
    BY <1>8, StatusNumbers
  <2>3. HttpParser(Grown(r, x)) = HttpParser(Grown(s, x))
    BY <1>1, <1>2, <1>8, <2>1
  <2> QED
    BY <1>1, <2>1, <2>2, <2>3 DEF r
<1>9. CASE b.req.status = HEADER_DONE
  <2>1. r = ParseBody(b)
    BY <1>3, <1>9 DEF AtBody
  <2>2. Sane(b.req)
    BY <1>1, <1>9 DEF GoodRequest
  <2>3. /\ r \in State /\ r.req.status \in {HEADER_DONE, REQ_DONE, HTTP_ERROR}
        /\ r.req.status = HEADER_DONE => Sane(r.req)
        /\ r.req.status # HEADER_DONE => ParseBody(Grown(b, x)) = Grown(r, x)
        /\ r.req.status = HEADER_DONE => ParseBody(Grown(r, x)) = ParseBody(Grown(b, x))
    BY <1>1, <1>4, <1>9, <2>1, <2>2, BodyInPieces
  <2>4. GoodRequest(r.req)
    BY <2>3, StatusNumbers DEF GoodRequest
  <2>5. Grown(b, x).req = b.req /\ Grown(r, x).req = r.req
    BY <1>1, <2>3, GrownLemma
  <2>6. HttpParser(Grown(s, x)) = ParseBody(Grown(b, x))
    BY <1>1, <1>2, <1>9, <2>5 DEF AtBody
  <2>7. HttpParser(Grown(r, x)) = AtBody(Grown(r, x))
    BY <1>6, <2>3
  <2>8. CASE r.req.status = HEADER_DONE
    <3>1. AtBody(Grown(r, x)) = ParseBody(Grown(r, x))
      BY <2>5, <2>8 DEF AtBody
    <3>2. r.req.status # REQ_DONE /\ r.req.status # HTTP_ERROR
      BY <2>8, StatusNumbers
    <3> QED
      BY <2>3, <2>4, <2>6, <2>7, <2>8, <3>1, <3>2 DEF r
  <2>9. CASE r.req.status # HEADER_DONE
    <3>1. AtBody(Grown(r, x)) = Grown(r, x)
      BY <1>7, <2>3, <2>9
    <3> QED
      BY <2>3, <2>4, <2>6, <2>7, <2>9, <3>1 DEF r
  <2> QED
    BY <2>8, <2>9
<1>10. CASE b.req.status \in {REQ_DONE, HTTP_ERROR}
  <2>1. r = b
    BY <1>3, <1>10, StatusNumbers DEF AtBody
  <2>2. AtBody(Grown(r, x)) = Grown(r, x) /\ HttpParser(Grown(r, x)) = AtBody(Grown(r, x))
    BY <1>1, <1>6, <1>7, <1>10, <2>1
  <2>3. HttpParser(Grown(s, x)) = AtBody(Grown(r, x))
    BY <1>1, <1>2, <1>10, <2>1
  <2> QED
    BY <1>1, <2>1, <2>2, <2>3 DEF r
<1> QED
  BY <1>5, <1>8, <1>9, <1>10, StatusNumbers

-----------------------------------------------------------------------------
(* Requests as they are sent.                                              *)

\* A flattened sequence, unfolded from its front.
Unfolds(f, ss, S) ==
  /\ f \in [1..(Len(ss) + 1) -> Seq(S)] /\ f[Len(ss) + 1] = <<>>
  /\ \A i \in 1..Len(ss) : f[i] = ss[i] \o f[i + 1]

\* FlattenSeq joins its sequences one by one, from the last.
LEMMA FlattenUnfolds ==
  ASSUME NEW S, NEW ss, ss \in Seq(Seq(S))
  PROVE  FlattenSeq(ss) \in Seq(S) /\ \E f : Unfolds(f, ss, S) /\ f[1] = FlattenSeq(ss)
<1> DEFINE n == Len(ss)
           D == 1..(n + 1)
           E == 1..n
<1>0. n \in Nat /\ (\A i \in E : ss[i] \in Seq(S)) /\ DOMAIN ss = E
  OBVIOUS
<1>1. \A a \in Seq(S), b \in Seq(S) :
        a \o b \in Seq(S) /\ \A d \in Seq(S) : (a \o b) \o d = a \o (b \o d)
  <2> SUFFICES ASSUME NEW a \in Seq(S), NEW b \in Seq(S)
               PROVE  a \o b \in Seq(S) /\ \A d \in Seq(S) : (a \o b) \o d = a \o (b \o d)
    OBVIOUS
  <2>1. a \o b \in Seq(S)
    BY CutJoinLemma
  <2> QED
    BY <2>1, JoinAssoc
<1> HIDE DEF n
<1>2. PICK f \in [D -> Seq(S)] : f[n + 1] = <<>> /\ \A i \in E : f[i] = ss[i] \o f[i + 1]
  <2> DEFINE V == Seq(S)
             step == [i \in E |-> i + 1]
             comb == [i \in E |-> [v \in V |-> ss[i] \o v]]
             out == [i \in D |-> <<>>]
             size == [i \in D |-> n + 1 - i]
  <2>1. /\ E \subseteq D /\ step \in [E -> D] /\ out \in [D -> V] /\ size \in [D -> Nat]
        /\ \A i \in E : size[step[i]] < size[i]
    BY <1>0
  <2>2. comb \in [E -> [V -> V]]
    BY <1>0, <1>1
  <2>3. Descends(D, V, E, step, comb, out, size)
    <3> HIDE DEF D, V, E, step, comb, out, size
    <3> QED
      BY <2>1, <2>2 DEF Descends
  <2>4. PICK f \in [D -> V] : \A i \in D : f[i] = IF i \in E THEN comb[i][f[step[i]]] ELSE out[i]
    <3> HIDE DEF D, V, E, step, comb, out, size
    <3> QED
      BY ONLY <2>3, LinearRecursion
  <2>5. n + 1 \in D /\ n + 1 \notin E
    BY <1>0
  <2>6. f[n + 1] = <<>>
    BY <2>4, <2>5
  <2>7. ASSUME NEW i \in E PROVE f[i] = ss[i] \o f[i + 1]
    <3>1. i \in D /\ step[i] = i + 1 /\ i + 1 \in D
      BY <1>0
    <3>2. f[i + 1] \in V
      BY <3>1
    <3>3. f[i] = comb[i][f[i + 1]]
      BY <2>4, <3>1
    <3> QED
      BY <3>2, <3>3
  <2> QED
    BY <2>6, <2>7
<1>3. PICK g \in [E -> Seq(S)] :
        \A i \in E : g[i] = IF i = 1 THEN ss[i] ELSE g[i - 1] \o ss[i]
  <2> DEFINE V == Seq(S)
             T == E \ {1}
             step == [i \in T |-> i - 1]
             comb == [i \in T |-> [v \in V |-> v \o ss[i]]]
             out == [i \in E |-> ss[i]]
             size == [i \in E |-> i]
  <2>1. /\ T \subseteq E /\ step \in [T -> E] /\ out \in [E -> V] /\ size \in [E -> Nat]
        /\ \A i \in T : size[step[i]] < size[i]
    BY <1>0
  <2>2. comb \in [T -> [V -> V]]
    BY <1>0, <1>1
  <2>3. Descends(E, V, T, step, comb, out, size)
    <3> HIDE DEF V, E, T, step, comb, out, size
    <3> QED
      BY <2>1, <2>2 DEF Descends
  <2>4. PICK g \in [E -> V] : \A i \in E : g[i] = IF i \in T THEN comb[i][g[step[i]]] ELSE out[i]
    <3> HIDE DEF V, E, T, step, comb, out, size
    <3> QED
      BY ONLY <2>3, LinearRecursion
  <2>5. ASSUME NEW i \in E PROVE g[i] = IF i = 1 THEN ss[i] ELSE g[i - 1] \o ss[i]
    <3>1. CASE i = 1
      BY <2>4, <3>1
    <3>2. CASE i # 1
      <4>1. i \in T /\ step[i] = i - 1 /\ i - 1 \in E
        BY <1>0, <3>2
      <4>2. g[i - 1] \in V /\ g[i] = comb[i][g[i - 1]]
        BY <2>4, <4>1
      <4> QED
        BY <3>2, <4>1, <4>2
    <3> QED
      BY <3>1, <3>2
  <2> QED
    BY <2>5
<1> DEFINE F(h) == [i \in E |-> IF i = 1 THEN ss[i] ELSE h[i - 1] \o ss[i]]
           c == CHOOSE h : h = F(h)
<1>4. c = F(c)
  <2>1. g = F(g)
    BY <1>3
  <2> HIDE DEF F
  <2> QED
    BY <2>1
<1>5. FlattenSeq(ss) = IF n = 0 THEN ss ELSE c[n]
  BY DEF FlattenSeq, n
<1> HIDE DEF c
<1>6. ASSUME NEW i \in E PROVE c[i] \in Seq(S) /\ c[i] \o f[i + 1] = f[1]
  <2> DEFINE P(k) == c[k] \in Seq(S) /\ c[k] \o f[k + 1] = f[1]
             H == {k \in Nat : k \in E => P(k)}
  <2>1. 0 \in H
    OBVIOUS
  <2>2. ASSUME NEW k \in Nat, k \in E => P(k), k + 1 \in E
        PROVE  P(k + 1)
    <3> DEFINE j == k + 1
               t == f[j + 1]
               u == ss[j]
    <3>0. j \in E /\ j + 1 \in D
      BY <1>0, <2>2
    <3>1. t \in Seq(S) /\ u \in Seq(S) /\ f[j] = u \o t
      <4> HIDE DEF j
      <4> QED
        BY <1>0, <1>2, <3>0
    <3>2. CASE k = 0
      <4>1. j = 1
        BY <3>2
      <4>2. c[j] = u
        BY <1>4, <3>0, <4>1
      <4> HIDE DEF j, u, t
      <4> QED
        BY <3>1, <4>1, <4>2 DEF j, t
    <3>3. CASE k # 0
      <4>1. k \in E /\ j # 1 /\ j - 1 = k
        BY <1>0, <2>2, <3>3
      <4> DEFINE v == c[k]
      <4>2. c[j] = v \o u
        <5> HIDE DEF j
        <5> QED
          BY <1>4, <3>0, <4>1
      <4>3. v \in Seq(S) /\ v \o f[j] = f[1]
        BY <2>2, <4>1
      <4> HIDE DEF j, u, t, v
      <4>4. (v \o u) \o t = v \o (u \o t) /\ v \o u \in Seq(S)
        <5>1. v \in Seq(S) /\ u \in Seq(S) /\ t \in Seq(S)
          BY <3>1, <4>3
        <5>2. (v \o u) \o t = v \o (u \o t)
          BY ONLY <1>1, <5>1, Zenon
        <5> QED
          BY <1>1, <5>1, <5>2, Zenon
      <4>5. c[j] \in Seq(S) /\ c[j] \o t = f[1]
        BY <3>1, <4>2, <4>3, <4>4
      <4> QED
        BY <4>5 DEF j, t
    <3> QED
      BY <3>2, <3>3
  <2> HIDE DEF P
  <2>3. \A k \in Nat : k \in H => k + 1 \in H
    BY <2>2
  <2>4. Nat \subseteq H
    <3> HIDE DEF H
    <3> QED
      BY <2>1, <2>3, Induction
  <2>5. P(i)
    <3>1. i \in Nat
      BY <1>0
    <3> QED
      BY <2>4, <3>1
  <2> QED
    BY <2>5 DEF P
<1>7. FlattenSeq(ss) = f[1] /\ f[1] \in Seq(S)
  <2>1. 1 \in D
    BY <1>0
  <2>2. CASE n = 0
    <3>1. ss = <<>> /\ f[1] = <<>>
      BY <1>2, <2>2, EmptySeq DEF n
    <3> QED
      BY <1>5, <2>2, <3>1
  <2>3. CASE n # 0
    <3>1. n \in E
      BY <1>0, <2>3
    <3>2. c[n] \in Seq(S) /\ c[n] \o <<>> = f[1]
      BY <1>2, <1>6, <3>1
    <3>3. c[n] \o <<>> = c[n]
      BY <3>2, CutJoinLemma
    <3> QED
      BY <1>5, <2>1, <2>3, <3>2, <3>3
  <2> QED
    BY <2>2, <2>3
<1>8. Unfolds(f, ss, S)
  BY <1>2 DEF Unfolds, n
<1> QED
  BY <1>7, <1>8

\* Bytes are closed under joining.
LEMMA BytesJoin ==
  /\ <<>> \in Bytes /\ Ends \subseteq Bytes /\ \A c \in Symbols : <<c>> \in Bytes
  /\ \A a \in Bytes : a \o <<>> = a /\ <<>> \o a = a /\ Len(a) \in Nat
  /\ \A a \in Bytes, b \in Bytes :
       /\ a \o b \in Bytes /\ Len(a \o b) = Len(a) + Len(b)
       /\ \A c \in Bytes : (a \o b) \o c = a \o (b \o c)
<1>1. "CR" \in Symbols /\ "LF" \in Symbols
  BY DEF Symbols
<1> HIDE DEF Symbols
<1>2. <<>> \in Bytes /\ Ends \subseteq Bytes /\ \A c \in Symbols : <<c>> \in Bytes
  BY <1>1 DEF Bytes, Ends
<1>3. ASSUME NEW a \in Bytes PROVE a \o <<>> = a /\ <<>> \o a = a /\ Len(a) \in Nat
  BY CutJoinLemma DEF Bytes
<1>4. ASSUME NEW a \in Bytes, NEW b \in Bytes
      PROVE  a \o b \in Bytes /\ Len(a \o b) = Len(a) + Len(b)
  BY CutJoinLemma DEF Bytes
<1>5. ASSUME NEW a \in Bytes, NEW b \in Bytes, NEW c \in Bytes
      PROVE  (a \o b) \o c = a \o (b \o c)
  BY JoinAssoc DEF Bytes
<1> QED
  BY <1>2, <1>3, <1>4, <1>5

\* Joining bytes is associative.
LEMMA BytesAssoc ==
  ASSUME NEW a \in Bytes, NEW b \in Bytes, NEW c \in Bytes
  PROVE  (a \o b) \o c = a \o (b \o c)
BY BytesJoin

\* A line that holds no symbol, and a line that holds one.
LEMMA BlankLine ==
  ASSUME NEW eol \in Ends, NEW y \in Bytes
  PROVE  LET a == eol \o y
         IN  /\ a \in Bytes /\ HasLine(a) /\ Line(a) = <<>> /\ DrainLine(a) = y
             /\ LineFeed(a) = Len(eol) /\ EolLength(a) = Len(eol) /\ Len(eol) \in 1..2
<1>0. eol \in Bytes
  BY BytesJoin
<1>1. /\ HasLine(eol) /\ Line(eol) = <<>> /\ DrainLine(eol) = <<>>
      /\ LineFeed(eol) = Len(eol) /\ EolLength(eol) = Len(eol) /\ Len(eol) \in 1..2
  <2> DEFINE n == Len(eol)
  <2>1. n \in 1..2 /\ eol[n] = "LF" /\ (n = 2 => eol[1] = "CR") /\ DOMAIN eol = 1..n
    BY DEF Ends
  <2>2. \A j \in 1..(n - 1) : eol[j] # "LF"
    BY <2>1
  <2>3. HasLine(eol) /\ LineFeed(eol) = n
    BY <1>0, <2>1, <2>2, LineLemma
  <2>4. EolLength(eol) = n
    BY <2>1, <2>3 DEF EolLength
  <2>5. SubSeq(eol, 1, 0) = <<>> /\ Skip(eol, n) = <<>>
    BY <1>0, SubSeqEmpty, CutLemma DEF Bytes
  <2>6. n - n = 0
    BY <2>1
  <2> QED
    BY <2>1, <2>3, <2>4, <2>5, <2>6 DEF Line, DrainLine
<1>2. /\ eol \o y \in Bytes /\ HasLine(eol \o y) /\ LineFeed(eol \o y) = LineFeed(eol)
      /\ EolLength(eol \o y) = EolLength(eol) /\ Line(eol \o y) = Line(eol)
      /\ DrainLine(eol \o y) = DrainLine(eol) \o y
  BY <1>0, <1>1, LineJoin
<1>3. <<>> \o y = y
  BY BytesJoin
<1> QED
  BY <1>1, <1>2, <1>3

\* A line of one symbol is read as that symbol.
LEMMA OneLine ==
  ASSUME NEW c \in Symbols, c \notin {"CR", "LF"}, NEW eol \in Ends, NEW y \in Bytes
  PROVE  LET a == <<c>> \o (eol \o y)
         IN  /\ a \in Bytes /\ HasLine(a) /\ Line(a) = <<c>> /\ DrainLine(a) = y
             /\ EolLength(a) = Len(eol) /\ Len(eol) \in 1..2
             /\ Len(a) = 1 + Len(eol) + Len(y)
<1> DEFINE b == <<c>> \o eol
<1>0. eol \in Bytes /\ <<c>> \in Bytes /\ b \in Bytes /\ eol \o y \in Bytes
      /\ <<c>> \o (eol \o y) = b \o y /\ Len(b) = 1 + Len(eol) /\ Len(<<c>>) = 1
      /\ Len(b \o y) = Len(b) + Len(y) /\ Len(eol) \in 1..2
  <2>1. eol \in Bytes /\ <<c>> \in Bytes
    BY BytesJoin, Zenon
  <2>2. b \in Bytes /\ Len(b) = Len(<<c>>) + Len(eol) /\ Len(<<c>>) = 1
    BY <2>1, BytesJoin
  <2>3. eol \o y \in Bytes /\ <<c>> \o (eol \o y) = b \o y
    BY <2>1, BytesJoin
  <2>4. Len(b \o y) = Len(b) + Len(y)
    BY <2>2, BytesJoin
  <2>5. Len(eol) \in 1..2
    BY DEF Ends
  <2> QED
    BY <2>1, <2>2, <2>3, <2>4, <2>5
<1>1. HasLine(b) /\ Line(b) = <<c>> /\ DrainLine(b) = <<>> /\ EolLength(b) = Len(eol)
  <2> DEFINE n == Len(eol)
  <2>1. /\ b[1] = c /\ b[n + 1] = "LF" /\ (n = 2 => b[2] = "CR") /\ DOMAIN b = 1..(n + 1)
        /\ n \in 1..2
    <3>1. n \in 1..2 /\ eol[n] = "LF" /\ (n = 2 => eol[1] = "CR")
      BY DEF Ends
    <3>2. /\ b[1] = c /\ Len(b) = n + 1 /\ b \in Seq(Symbols)
          /\ \A i \in 1..n : b[i + 1] = eol[i]
      BY <1>0, ConsLemma DEF Bytes
    <3> HIDE DEF b, n
    <3>3. b[n + 1] = eol[n] /\ (n = 2 => b[1 + 1] = eol[1]) /\ 1 + 1 = 2
      BY <3>1, <3>2
    <3> QED
      BY <3>1, <3>2, <3>3
  <2>2. \A j \in 1..((n + 1) - 1) : b[j] # "LF"
    BY <2>1
  <2>3. n + 1 \in DOMAIN b
    BY <2>1
  <2> HIDE DEF b, n
  <2>4. HasLine(b) /\ LineFeed(b) = n + 1
    BY <1>0, <2>1, <2>2, <2>3, LineLemma
  <2>5. EolLength(b) = n
    <3>1. CASE n = 1
      BY <2>1, <2>4, <3>1 DEF EolLength
    <3>2. CASE n = 2
      BY <2>1, <2>4, <3>2 DEF EolLength
    <3> QED
      BY <2>1, <3>1, <3>2
  <2>6. SubSeq(b, 1, 1) = <<c>>
    <3> DEFINE d == SubSeq(b, 1, 1)
    <3>1. d \in Seq(Symbols) /\ Len(d) = 1 /\ d[1] = b[1]
      BY <1>0, <2>1 DEF Bytes
    <3> HIDE DEF d
    <3>2. d = <<c>>
      BY <2>1, <3>1
    <3> QED
      BY <3>2 DEF d
  <2>7. Skip(b, n + 1) = <<>>
    <3>1. Len(b) = n + 1
      BY <1>0, <2>1 DEF n
    <3> QED
      BY <1>0, <3>1, CutLemma DEF Bytes
  <2>8. (n + 1) - n = 1
    BY <2>1
  <2> QED
    BY <2>4, <2>5, <2>6, <2>7, <2>8 DEF Line, DrainLine, n
<1> HIDE DEF b
<1>2. /\ HasLine(b \o y) /\ Line(b \o y) = Line(b) /\ DrainLine(b \o y) = DrainLine(b) \o y
      /\ EolLength(b \o y) = EolLength(b) /\ b \o y \in Bytes
  BY <1>0, <1>1, LineJoin
<1>3. Len(b \o y) = 1 + Len(eol) + Len(y) /\ <<>> \o y = y
  BY <1>0, BytesJoin
<1> QED
  BY <1>0, <1>1, <1>2, <1>3

\* What the headers from the i-th on make of a request.
HeadersRead(q, r, headers, i) ==
  /\ r.status = HEADER_DONE /\ r.inbuf = q.inbuf /\ r.bodyin = q.bodyin
  /\ r.path = q.path /\ r.method = q.method
  /\ r.chunked <=> q.chunked \/ \E j \in i..Len(headers) : headers[j] = Chunked
  /\ \/ /\ \A j \in i..Len(headers) : headers[j] \notin DOMAIN Lengths
        /\ r.contentlength = q.length
     \/ \E j \in i..Len(headers) :
          headers[j] \in DOMAIN Lengths /\ r.contentlength = Lengths[headers[j]]

\* The headers of a request are all read, and they decide the framing.
LEMMA HeadersSent ==
  ASSUME NEW m \in Message, NEW q \in Request
  PROVE  /\ HeaderLines(m) \in Bytes
         /\ \E r \in Request :
              /\ HeadersRead(q, r, m.headers, 1)
              /\ \A y \in Bytes :
                   ParseHeaders[St(q, HeaderLines(m) \o (m.eol \o y))] = St(r, y)
<1> DEFINE hs == m.headers
           eol == m.eol
           n == Len(hs)
           ss == [i \in 1..n |-> <<hs[i]>> \o eol]
<1>1. /\ hs \in Seq(DOMAIN Lengths \cup {Chunked} \cup Data) /\ eol \in Ends
      /\ n \in Nat /\ DOMAIN hs = 1..n
      /\ \A i \in 1..n : hs[i] \in DOMAIN Lengths \cup {Chunked} \cup Data
  BY DEF Message
<1>2. ASSUME NEW i \in 1..n
      PROVE  hs[i] \in Symbols /\ hs[i] \notin {"CR", "LF"}
  <2>1. hs[i] \in DOMAIN Lengths \cup {Chunked} \cup Data
    BY <1>1
  <2> DEFINE h == hs[i]
  <2> HIDE DEF h
  <2> QED
    BY <2>1, SymbolAssumption DEF Symbols, h
<1>3. HeaderLines(m) = FlattenSeq(ss)
  BY <1>1 DEF HeaderLines
<1> HIDE DEF hs, eol, n
<1>4. ASSUME NEW i \in 1..n PROVE <<hs[i]>> \o eol \in Seq(Symbols)
  BY <1>1, <1>2, BytesJoin DEF Bytes
<1>5. ss \in Seq(Seq(Symbols)) /\ Len(ss) = n
  <2> DEFINE T == Seq(Symbols)
  <2>1. ss \in [1..n -> T]
    BY <1>4
  <2> HIDE DEF ss, T
  <2>2. ss \in Seq(T) /\ Len(ss) = n
    BY <1>1, <2>1
  <2> QED
    BY <2>2 DEF T
<1>6. PICK f : Unfolds(f, ss, Symbols) /\ f[1] = FlattenSeq(ss)
  BY <1>5, FlattenUnfolds
<1>7. /\ \A i \in 1..(n + 1) : f[i] \in Bytes
      /\ f[n + 1] = <<>>
      /\ \A i \in 1..n : f[i] = (<<hs[i]>> \o eol) \o f[i + 1]
  BY <1>5, <1>6 DEF Unfolds, Bytes
<1> HIDE DEF ss
<1> DEFINE Read(p, r, i) ==
             /\ HeadersRead(p, r, hs, i)
             /\ \A y \in Bytes : ParseHeaders[St(p, f[i] \o (eol \o y))] = St(r, y)
           P(i) == \A p \in Request : \E r \in Request : Read(p, r, i)
<1>8. P(n + 1)
  <2> SUFFICES ASSUME NEW p \in Request PROVE Read(p, EndHeaders(p), n + 1)
    BY HeaderTypes
  <2>1. HeadersRead(p, EndHeaders(p), hs, n + 1)
    <3>1. (n + 1)..Len(hs) = {}
      BY <1>1 DEF n
    <3> QED
      BY <3>1, HeaderFields DEF HeadersRead
  <2>2. ASSUME NEW y \in Bytes
        PROVE  ParseHeaders[St(p, f[n + 1] \o (eol \o y))] = St(EndHeaders(p), y)
    <3> DEFINE a == eol \o y
    <3>1. a \in Bytes /\ HasLine(a) /\ Line(a) = <<>> /\ DrainLine(a) = y
      BY <1>1, BlankLine
    <3> HIDE DEF a
    <3>2. f[n + 1] \o a = a
      BY <1>7, <3>1, BytesJoin
    <3>3. St(p, a) \in State /\ St(p, a).req = p /\ St(p, a).in = a
      BY <3>1, StateLemma
    <3>4. ParseHeaders[St(p, a)] = St(EndHeaders(p), y)
      BY <3>1, <3>3, ParseHeadersDef
    <3> QED
      BY <3>2, <3>4 DEF a
  <2> QED
    BY <2>1, <2>2
<1>9. ASSUME NEW i \in 1..n, P(i + 1) PROVE P(i)
  <2> SUFFICES ASSUME NEW p \in Request PROVE \E r \in Request : Read(p, r, i)
    OBVIOUS
  <2> DEFINE h == hs[i]
             t == PutHeader(p, <<h>>)
             g == f[i + 1]
  <2>1. h \in Symbols /\ h \notin {"CR", "LF"} /\ g \in Bytes /\ f[i] = (<<h>> \o eol) \o g
        /\ eol \in Ends /\ eol \in Bytes /\ <<h>> \in Bytes
    <3>1. h \in Symbols /\ h \notin {"CR", "LF"} /\ eol \in Ends
      BY <1>1, <1>2
    <3>2. i + 1 \in 1..(n + 1)
      BY <1>1
    <3> QED
      BY <1>7, <3>1, <3>2, BytesJoin
  <2>2. t \in Request
    BY HeaderTypes
  <2>3. PICK r \in Request : Read(t, r, i + 1)
    BY <1>9, <2>2
  <2>4. ASSUME NEW y \in Bytes
        PROVE  ParseHeaders[St(p, f[i] \o (eol \o y))] = St(r, y)
    <3> DEFINE z == g \o (eol \o y)
               a == <<h>> \o (eol \o z)
    <3> HIDE DEF h, t, g
    <3>1. eol \o y \in Bytes /\ z \in Bytes /\ <<h>> \o eol \in Bytes
      BY <2>1, BytesJoin
    <3>2. ((<<h>> \o eol) \o g) \o (eol \o y) = a
      <4> DEFINE w == eol \o y
                 u == <<h>> \o eol
      <4>1. w \in Bytes /\ z = g \o w /\ u \in Bytes
        BY <3>1
      <4> HIDE DEF w, z, u
      <4>2. (u \o g) \o w = u \o (g \o w)
        BY ONLY <2>1, <4>1, BytesAssoc, ZenonT(30)
      <4>3. (<<h>> \o eol) \o z = <<h>> \o (eol \o z)
        BY ONLY <2>1, <3>1, BytesAssoc, ZenonT(30)
      <4> QED
        BY <4>1, <4>2, <4>3 DEF w, u
    <3>3. ParseHeaders[St(t, z)] = St(r, y)
      BY <2>3 DEF g
    <3> HIDE DEF z
    <3>4. a \in Bytes /\ HasLine(a) /\ Line(a) = <<h>> /\ DrainLine(a) = z
      BY <2>1, <3>1, OneLine
    <3> HIDE DEF a
    <3>5. St(p, a) \in State /\ St(p, a).req = p /\ St(p, a).in = a
      BY <3>4, StateLemma
    <3>6. HeaderStep(St(p, a)) = St(t, z)
      BY <3>4, <3>5 DEF HeaderStep, t
    <3>7. ParseHeaders[St(p, a)] = St(r, y)
      <4>1. <<h>> # <<>>
        OBVIOUS
      <4> QED
        BY <3>3, <3>4, <3>5, <3>6, <4>1, ParseHeadersDef
    <3> QED
      BY <2>1, <3>2, <3>7
  <2>5. HeadersRead(p, r, hs, i)
    <3> DEFINE J == (i + 1)..Len(hs)
    <3>1. i..Len(hs) = {i} \cup J
      BY <1>1 DEF n
    <3>2. HeadersRead(t, r, hs, i + 1)
      BY <2>3
    <3>3. /\ t.status = p.status /\ t.inbuf = p.inbuf /\ t.bodyin = p.bodyin
          /\ t.path = p.path /\ t.method = p.method
          /\ t.chunked = (h = Chunked \/ p.chunked)
          /\ t.length = IF h \in DOMAIN Lengths THEN Lengths[h] ELSE p.length
      <4> DEFINE l == <<h>>
      <4>1. l[1] = h
        OBVIOUS
      <4> HIDE DEF l, h
      <4>2. /\ PutHeader(p, l).status = p.status /\ PutHeader(p, l).inbuf = p.inbuf
            /\ PutHeader(p, l).bodyin = p.bodyin /\ PutHeader(p, l).path = p.path
            /\ PutHeader(p, l).method = p.method
            /\ PutHeader(p, l).length
                 = IF l[1] \in DOMAIN Lengths THEN Lengths[l[1]] ELSE p.length
            /\ PutHeader(p, l).chunked = (l[1] = Chunked \/ p.chunked)
        <5>1. /\ PutHeader(p, l).status = p.status /\ PutHeader(p, l).inbuf = p.inbuf
              /\ PutHeader(p, l).bodyin = p.bodyin /\ PutHeader(p, l).path = p.path
              /\ PutHeader(p, l).method = p.method
          BY HeaderFields, ZenonT(30)
        <5>2. PutHeader(p, l).length
                = IF l[1] \in DOMAIN Lengths THEN Lengths[l[1]] ELSE p.length
          BY HeaderFields, Zenon
        <5>3. PutHeader(p, l).chunked = (l[1] = Chunked \/ p.chunked)
          BY HeaderFields, ZenonT(30)
        <5> QED
          BY <5>1, <5>2, <5>3, Zenon
      <4>3. t = PutHeader(p, l)
        BY DEF l
      <4> HIDE DEF t
      <4> QED
        BY <4>1, <4>2, <4>3
    <3> HIDE DEF t, J
    <3> QED
      BY <3>1, <3>2, <3>3 DEF HeadersRead, J, h
  <2> QED
    BY <2>4, <2>5
<1> HIDE DEF P
<1>10. P(1)
  <2> DEFINE H == {i \in Nat : P(i)}
  <2>1. n + 1 \in H
    BY <1>1, <1>8
  <2>2. \A i \in 1..n : i + 1 \in H => i \in H
    BY <1>9
  <2>3. 1 \in H
    <3> HIDE DEF H
    <3> QED
      BY <1>1, <2>1, <2>2, DownwardInduction
  <2> QED
    BY <2>3
<1>11. HeaderLines(m) = f[1] /\ f[1] \in Bytes
  <2>1. 1 \in 1..(n + 1)
    BY <1>1
  <2> QED
    BY <1>3, <1>6, <1>7, <2>1
<1> QED
  BY <1>10, <1>11 DEF P, hs, eol

\* A chunk, and what follows it.
LEMMA ChunkSent ==
  ASSUME NEW c \in DOMAIN Sizes, NEW eol \in Ends, NEW d \in Bytes, Sizes[c] = Len(d),
         NEW y \in Bytes
  PROVE  LET a == <<c>> \o (eol \o (d \o (eol \o y)))
         IN  /\ a \in Bytes /\ WholeChunk(a) /\ ChunkSize(Line(a)) = Len(d)
             /\ ChunkData(a) = d /\ ChunkEnds(a) /\ AfterChunk(a) = y
<1> DEFINE w == eol \o y
           v == d \o w
           a == <<c>> \o (eol \o v)
           e == Len(eol)
<1>1. /\ w \in Bytes /\ HasLine(w) /\ DrainLine(w) = y /\ LineFeed(w) = e /\ e \in 1..2
      /\ Len(w) = e + Len(y) /\ Len(y) \in Nat /\ Len(d) \in Nat
  BY BlankLine, BytesJoin
<1> HIDE DEF w
<1>2. v \in Bytes /\ Len(v) = Len(d) + Len(w)
  BY <1>1, BytesJoin
<1>3. Skip(v, Len(d)) = w /\ SubSeq(v, 1, Len(d)) = d
  <2>1. /\ Skip(d \o w, Len(d)) = w
        /\ \A n \in 0..Len(d) : SubSeq(d \o w, 1, n) = SubSeq(d, 1, n)
    BY <1>1, CutJoinLemma DEF Bytes
  <2>2. SubSeq(d, 1, Len(d)) = d /\ Len(d) \in 0..Len(d)
    BY <1>1, CutLemma DEF Bytes
  <2> QED
    BY <2>1, <2>2
<1> HIDE DEF v
<1>4. c \in Symbols /\ c \notin {"CR", "LF"}
  BY SymbolAssumption DEF Symbols
<1>5. /\ a \in Bytes /\ HasLine(a) /\ Line(a) = <<c>> /\ DrainLine(a) = v
      /\ EolLength(a) = e /\ Len(a) = 1 + e + Len(v)
  BY <1>2, <1>4, OneLine
<1> HIDE DEF a, e
<1>6. ChunkSize(<<c>>) = Len(d) /\ Len(<<c>>) = 1
  BY DEF ChunkSize
<1>7. ChunkLength(a) = 1 + e + Len(d) + e
  BY <1>5, <1>6 DEF ChunkLength
<1>8. WholeChunk(a)
  BY <1>1, <1>2, <1>5, <1>6, <1>7 DEF WholeChunk
<1>9. AfterData(a) = w /\ ChunkData(a) = d
  BY <1>3, <1>5, <1>6 DEF AfterData, ChunkData
<1>10. ChunkEnds(a) /\ AfterChunk(a) = y
  BY <1>1, <1>5, <1>9 DEF ChunkEnds, AfterChunk
<1> QED
  BY <1>5, <1>6, <1>8, <1>9, <1>10 DEF a, v, w

\* Chunks are well formed if the first is and those behind it are.
LEMMA ChunksEndBack ==
  ASSUME NEW a \in Bytes,
         WholeChunk(a) =>
           ChunkEnds(a) /\ (ChunkSize(Line(a)) # 0 => ChunksEnd(AfterChunk(a)))
  PROVE  ChunksEnd(a)
<1>1. CASE WholeChunk(a) /\ ChunkSize(Line(a)) # 0
  <2>1. PICK G \in SUBSET Bytes :
          /\ AfterChunk(a) \in G
          /\ \A c \in G : WholeChunk(c) =>
               ChunkEnds(c) /\ (ChunkSize(Line(c)) # 0 => AfterChunk(c) \in G)
    BY <1>1 DEF ChunksEnd
  <2> DEFINE F == G \cup {a}
  <2>2. F \in SUBSET Bytes /\ a \in F
    OBVIOUS
  <2>3. \A c \in F : WholeChunk(c) =>
          ChunkEnds(c) /\ (ChunkSize(Line(c)) # 0 => AfterChunk(c) \in F)
    BY <1>1, <2>1
  <2> HIDE DEF F
  <2> QED
    BY <2>2, <2>3 DEF ChunksEnd
<1>2. CASE ~WholeChunk(a) \/ ChunkSize(Line(a)) = 0
  <2>1. {a} \in SUBSET Bytes /\ a \in {a}
    OBVIOUS
  <2>2. \A c \in {a} : WholeChunk(c) =>
          ChunkEnds(c) /\ (ChunkSize(Line(c)) # 0 => AfterChunk(c) \in {a})
    BY <1>2
  <2> QED
    BY <2>1, <2>2 DEF ChunksEnd
<1> QED
  BY <1>1, <1>2

\* A body was read whole.
BodyRead(q, r, data) ==
  /\ r.status = REQ_DONE /\ r.inbuf = q.inbuf \o data
  /\ r.path = q.path /\ r.method = q.method

\* The content of a request is bytes, piece by piece.
LEMMA ContentTypes ==
  ASSUME NEW m \in Message
  PROVE  /\ Body(m) \in Bytes /\ m.eol \in Ends
         /\ Len(m.content) \in Nat /\ \A i \in 1..Len(m.content) : m.content[i] \in Bytes
         /\ m.last \in Symbols /\ m.last \notin {"CR", "LF"}
         /\ \E g : Unfolds(g, m.content, Symbols) /\ g[1] = Body(m)
<1>1. m.content \in Seq(Bytes) /\ m.last \in DOMAIN Sizes \cup Data /\ m.eol \in Ends
  BY DEF Message
<1> DEFINE c == m.content
           l == m.last
<1>2. c \in Seq(Bytes) /\ l \in DOMAIN Sizes \cup Data
  BY <1>1
<1> HIDE DEF c, l
<1>3. l \in Symbols /\ l \notin {"CR", "LF"}
  BY <1>2, SymbolAssumption DEF Symbols
<1>4. Len(c) \in Nat /\ \A i \in 1..Len(c) : c[i] \in Bytes
  BY <1>2
<1>5. FlattenSeq(c) \in Bytes /\ \E g : Unfolds(g, c, Symbols) /\ g[1] = FlattenSeq(c)
  BY <1>2, FlattenUnfolds DEF Bytes
<1> QED
  BY <1>1, <1>3, <1>4, <1>5 DEF Body, c, l

\* A request that is given its content is done with that content.
LEMMA BodyReadFields ==
  ASSUME NEW q \in Request, NEW d \in Bytes
  PROVE  LET w == WithData(q, d)
             r == [w EXCEPT !.status = REQ_DONE]
         IN  /\ w \in Request /\ r \in Request /\ BodyRead(q, r, d)
             /\ \A y \in Bytes : SetStatus(St(w, y), REQ_DONE) = St(r, y)
<1> DEFINE w == WithData(q, d)
           r == [w EXCEPT !.status = REQ_DONE]
<1>1. w \in Request /\ w.inbuf = q.inbuf \o d /\ w.path = q.path /\ w.method = q.method
  BY DataFields
<1> HIDE DEF w
<1>2. REQ_DONE \in REQ_INIT..HTTP_ERROR
  BY StatusNumbers
<1>3. r \in Request
  <2> HIDE DEF REQ_INIT, HTTP_ERROR
  <2> QED
    BY <1>1, <1>2, Zenon DEF Request
<1>4. r.status = REQ_DONE /\ r.inbuf = w.inbuf /\ r.path = w.path /\ r.method = w.method
  BY <1>1 DEF Request
<1>5. \A y \in Bytes : SetStatus(St(w, y), REQ_DONE) = St(r, y)
  BY DEF SetStatus, St
<1> HIDE DEF r
<1> QED
  BY <1>1, <1>3, <1>4, <1>5 DEF BodyRead, r, w

\* A content that is sent in chunks is read to its end, unless what stands in
\* the place of the last size is none.
LEMMA ChunksSent ==
  ASSUME NEW m \in Requests, m.framing = "chunked",
         NEW q \in Request, q.status = HEADER_DONE
  PROVE  /\ Content(m) \in Bytes
         /\ \A y \in Bytes : ChunksEnd(Content(m) \o y)
         /\ m.last \in DOMAIN Sizes =>
              \E r \in Request :
                /\ BodyRead(q, r, Body(m))
                /\ \A y \in Bytes : ParseChunks[St(q, Content(m) \o y)] = St(r, y)
         /\ m.last \notin DOMAIN Sizes =>
              \A y \in Bytes :
                ParseChunks[St(q, Content(m) \o y)].req.status = HTTP_ERROR
<1> DEFINE c == m.content
           l == m.last
           eol == m.eol
           n == Len(c)
           s == [i \in 1..n |-> SizeOf(c[i])]
           ss == [i \in 1..n |-> <<s[i]>> \o eol \o c[i] \o eol]
           end == <<l>> \o (eol \o eol)
           z(y) == <<l>> \o (eol \o (eol \o y))
<1>1. m \in Message /\ Chunkable(m)
  BY DEF Requests
<1>2. /\ eol \in Ends /\ n \in Nat /\ l \in Symbols /\ l \notin {"CR", "LF"}
      /\ \A i \in 1..n : c[i] \in Bytes
  BY <1>1, ContentTypes
<1>3. PICK g : Unfolds(g, c, Symbols) /\ g[1] = Body(m)
  BY <1>1, ContentTypes
<1>4. /\ \A i \in 1..(n + 1) : g[i] \in Bytes
      /\ g[n + 1] = <<>> /\ \A i \in 1..n : g[i] = c[i] \o g[i + 1]
  BY <1>3 DEF Unfolds, Bytes
<1>5. ASSUME NEW i \in 1..n
      PROVE  s[i] \in DOMAIN Sizes /\ Sizes[s[i]] = Len(c[i]) /\ c[i] # <<>>
  <2>1. i \in DOMAIN m.content
    BY <1>1 DEF Message
  <2>2. c[i] # <<>> /\ \E t \in DOMAIN Sizes : Sizes[t] = Len(c[i])
    BY <1>1, <2>1 DEF Chunkable
  <2>3. SizeOf(c[i]) \in DOMAIN Sizes /\ Sizes[SizeOf(c[i])] = Len(c[i])
    <3> DEFINE d == Len(c[i])
    <3>1. \E t \in DOMAIN Sizes : Sizes[t] = d
      BY <2>2
    <3>2. SizeOf(c[i]) = CHOOSE t \in DOMAIN Sizes : Sizes[t] = d
      BY DEF SizeOf
    <3> HIDE DEF d
    <3>3. SizeOf(c[i]) \in DOMAIN Sizes /\ Sizes[SizeOf(c[i])] = d
      BY <3>1, <3>2, Zenon
    <3> QED
      BY <3>3 DEF d
  <2> QED
    BY <2>2, <2>3
<1>6. l \in DOMAIN Sizes => Sizes[l] = 0
  BY <1>1 DEF Chunkable
<1>7. l \notin DOMAIN Sizes => ChunkSize(<<l>>) = -1
  BY DEF ChunkSize
<1>8. Content(m) = Chunks(m) \o <<l>> \o eol \o eol /\ Chunks(m) = FlattenSeq(ss)
  <2>1. DOMAIN m.content = 1..n
    BY <1>1 DEF Message
  <2> QED
    BY <2>1 DEF Content, Chunks
<1> HIDE DEF c, l, eol, n, s
<1>9. ASSUME NEW i \in 1..n
      PROVE  /\ <<s[i]>> \in Bytes /\ <<s[i]>> \o eol \in Bytes
             /\ <<s[i]>> \o eol \o c[i] \in Bytes
             /\ <<s[i]>> \o eol \o c[i] \o eol \in Bytes
  <2>1. s[i] \in Symbols
    BY <1>5 DEF Symbols
  <2> QED
    BY <1>2, <2>1, BytesJoin
<1>10. ss \in Seq(Seq(Symbols)) /\ Len(ss) = n
  <2> DEFINE T == Seq(Symbols)
  <2>1. ss \in [1..n -> T]
    BY <1>9 DEF Bytes
  <2> HIDE DEF ss, T
  <2>2. ss \in Seq(T) /\ Len(ss) = n
    BY <1>2, <2>1
  <2> QED
    BY <2>2 DEF T
<1>11. PICK f : Unfolds(f, ss, Symbols) /\ f[1] = FlattenSeq(ss)
  BY <1>10, FlattenUnfolds
<1>12. /\ \A i \in 1..(n + 1) : f[i] \in Bytes
       /\ f[n + 1] = <<>>
       /\ \A i \in 1..n : f[i] = (<<s[i]>> \o eol \o c[i] \o eol) \o f[i + 1]
  BY <1>10, <1>11 DEF Unfolds, Bytes
<1> HIDE DEF ss
<1>13. eol \in Bytes /\ <<l>> \in Bytes /\ eol \o eol \in Bytes /\ end \in Bytes
  BY <1>2, BytesJoin
<1>14. ASSUME NEW y \in Bytes
       PROVE  z(y) \in Bytes /\ eol \o y \in Bytes /\ eol \o (eol \o y) \in Bytes
              /\ end \o y = z(y)
  <2> DEFINE k == <<l>>
             e == eol \o eol
             v == eol \o y
  <2>1. k \in Bytes /\ e \in Bytes /\ v \in Bytes /\ eol \o v \in Bytes
    BY <1>13, BytesJoin
  <2> HIDE DEF k, v
  <2>2. (k \o e) \o y = k \o (e \o y)
    <3> HIDE DEF e
    <3> QED
      BY ONLY <2>1, <1>14, BytesAssoc, ZenonT(30)
  <2>3. e \o y = eol \o v
    BY ONLY <1>13, <1>14, BytesAssoc, ZenonT(30) DEF v
  <2>4. k \o (eol \o v) \in Bytes
    BY <2>1, BytesJoin
  <2> QED
    BY <2>1, <2>2, <2>3, <2>4 DEF k, v
<1> DEFINE Done(p, r, i) ==
             /\ BodyRead(p, r, g[i])
             /\ \A y \in Bytes : ParseChunks[St(p, f[i] \o z(y))] = St(r, y)
           Fails(p, i) ==
             \A y \in Bytes : ParseChunks[St(p, f[i] \o z(y))].req.status = HTTP_ERROR
           P(i) ==
             /\ \A y \in Bytes : ChunksEnd(f[i] \o z(y))
             /\ \A p \in Request : p.status = HEADER_DONE =>
                  /\ l \in DOMAIN Sizes => \E r \in Request : Done(p, r, i)
                  /\ l \notin DOMAIN Sizes => Fails(p, i)
<1>15. P(n + 1)
  <2>1. ASSUME NEW y \in Bytes PROVE f[n + 1] \o z(y) = z(y)
    <3> DEFINE a == z(y)
    <3>1. a \in Bytes
      BY <1>14
    <3> HIDE DEF a
    <3> QED
      BY <1>12, <3>1, BytesJoin
  <2>2. CASE l \in DOMAIN Sizes
    <3>1. ASSUME NEW y \in Bytes
          PROVE  /\ WholeChunk(z(y)) /\ ChunkSize(Line(z(y))) = 0
                 /\ ChunkData(z(y)) = <<>> /\ ChunkEnds(z(y)) /\ AfterChunk(z(y)) = y
      <4> DEFINE d == <<>>
                 w == eol \o y
      <4>1. d \in Bytes /\ Sizes[l] = Len(d) /\ Len(d) = 0 /\ d \o w = w
        BY <1>6, <1>14, <2>2, BytesJoin
      <4> HIDE DEF d, w
      <4>2. l \in DOMAIN Sizes /\ eol \in Ends
        BY <1>2, <2>2
      <4> DEFINE a == <<l>> \o (eol \o (d \o (eol \o y)))
      <4>3. /\ WholeChunk(a) /\ ChunkSize(Line(a)) = Len(d)
            /\ ChunkData(a) = d /\ ChunkEnds(a) /\ AfterChunk(a) = y
        <5> HIDE DEF z, P, Done, Fails, end
        <5>1. l \in DOMAIN Sizes /\ eol \in Ends /\ d \in Bytes /\ Sizes[l] = Len(d)
          BY <4>1, <4>2
        <5> QED
          BY ONLY <5>1, <3>1, ChunkSent
      <4>4. a = z(y)
        BY <4>1 DEF w
      <4> HIDE DEF a, z
      <4> QED
        BY <4>1, <4>3, <4>4 DEF d
    <3>2. ASSUME NEW y \in Bytes PROVE ChunksEnd(z(y))
      <4> DEFINE a == z(y)
      <4>1. a \in Bytes /\ ChunkEnds(a) /\ ChunkSize(Line(a)) = 0
        BY <1>14, <3>1
      <4> HIDE DEF a
      <4>2. ChunksEnd(a)
        BY <4>1, ChunksEndBack
      <4> QED
        BY <4>2 DEF a
    <3>3. ASSUME NEW p \in Request, p.status = HEADER_DONE
          PROVE  \E r \in Request : Done(p, r, n + 1)
      <4> DEFINE w == WithData(p, <<>>)
                 r == [w EXCEPT !.status = REQ_DONE]
      <4>1. /\ w \in Request /\ r \in Request /\ BodyRead(p, r, <<>>)
            /\ \A y \in Bytes : SetStatus(St(w, y), REQ_DONE) = St(r, y)
        BY BytesJoin, BodyReadFields
      <4>2. ASSUME NEW y \in Bytes PROVE ParseChunks[St(p, z(y))] = St(r, y)
        <5> DEFINE a == z(y)
        <5>1. /\ a \in Bytes /\ WholeChunk(a) /\ ChunkSize(Line(a)) = 0
              /\ ChunkData(a) = <<>> /\ AfterChunk(a) = y
          BY <1>14, <3>1
        <5> HIDE DEF a, r
        <5>2. St(p, a) \in State /\ St(p, a).req = p /\ St(p, a).in = a
          BY <5>1, StateLemma
        <5> DEFINE u == St(p, a)
        <5> HIDE DEF u
        <5>3. u \in State /\ u.req = p /\ u.in = a
          BY <5>2 DEF u
        <5>4. TakeChunk(u) = St(w, y)
          BY <5>1, <5>3, TakeChunkLemma
        <5>5. ParseChunks[u] = SetStatus(TakeChunk(u), REQ_DONE)
          BY <5>1, <5>3, ParseChunksDef
        <5> HIDE DEF w
        <5> QED
          BY <4>1, <5>4, <5>5 DEF u, a
      <4>3. Done(p, r, n + 1)
        <5> HIDE DEF r, z
        <5> QED
          BY <1>4, <2>1, <4>1, <4>2
      <4> HIDE DEF Done, r
      <4> QED
        BY <4>1, <4>3
    <3> HIDE DEF Done, Fails, z
    <3> QED
      BY <2>1, <2>2, <3>2, <3>3
  <2>3. CASE l \notin DOMAIN Sizes
    <3>1. ASSUME NEW y \in Bytes
          PROVE  HasLine(z(y)) /\ ChunkSize(Line(z(y))) = -1 /\ ~WholeChunk(z(y))
      <4> DEFINE v == eol \o y
      <4>1. v \in Bytes
        BY <1>14
      <4> HIDE DEF v
      <4>2. HasLine(<<l>> \o (eol \o v)) /\ Line(<<l>> \o (eol \o v)) = <<l>>
        BY <1>2, <4>1, OneLine
      <4>3. HasLine(z(y)) /\ ChunkSize(Line(z(y))) = -1
        BY <1>7, <2>3, <4>2 DEF v
      <4> HIDE DEF z
      <4> QED
        BY <4>3 DEF WholeChunk
    <3>2. ASSUME NEW y \in Bytes PROVE ChunksEnd(z(y))
      <4> DEFINE a == z(y)
      <4>1. a \in Bytes /\ ~WholeChunk(a)
        BY <1>14, <3>1
      <4> HIDE DEF a
      <4>2. ChunksEnd(a)
        BY <4>1, ChunksEndBack
      <4> QED
        BY <4>2 DEF a
    <3>3. ASSUME NEW p \in Request, NEW y \in Bytes
          PROVE  ParseChunks[St(p, z(y))].req.status = HTTP_ERROR
      <4> DEFINE a == z(y)
                 u == St(p, a)
      <4>1. a \in Bytes /\ HasLine(a) /\ ChunkSize(Line(a)) < 0
        <5> HIDE DEF z
        <5>1. a \in Bytes /\ HasLine(a) /\ ChunkSize(Line(a)) = -1
          BY <1>14, <3>1
        <5> QED
          BY <5>1
      <4> HIDE DEF a
      <4>2. u \in State /\ u.in = a
        BY <4>1, StateLemma
      <4> HIDE DEF u
      <4>3. ParseChunks[u] = SetStatus(u, HTTP_ERROR)
        BY <4>1, <4>2, ParseChunksDef
      <4>4. HTTP_ERROR \in REQ_INIT..HTTP_ERROR
        BY StatusNumbers
      <4>5. SetStatus(u, HTTP_ERROR).req.status = HTTP_ERROR
        BY <4>2, <4>4, StatusFields
      <4> QED
        BY <4>3, <4>5 DEF u, a
    <3>4. ASSUME NEW p \in Request PROVE Fails(p, n + 1)
      <4> HIDE DEF z
      <4> QED
        BY <2>1, <3>3
    <3> HIDE DEF Done, Fails, z
    <3> QED
      BY <2>1, <2>3, <3>2, <3>4
  <2> QED
    BY <2>2, <2>3
<1>16. ASSUME NEW i \in 1..n, P(i + 1) PROVE P(i)
  <2> DEFINE h == s[i]
             d == c[i]
             F == f[i + 1]
             G == g[i + 1]
             rest(y) == F \o z(y)
             a(y) == <<h>> \o (eol \o (d \o (eol \o rest(y))))
  <2>1. /\ h \in DOMAIN Sizes /\ Sizes[h] = Len(d) /\ d # <<>> /\ d \in Bytes /\ F \in Bytes
        /\ G \in Bytes /\ g[i] = d \o G /\ f[i] = (<<h>> \o eol \o d \o eol) \o F
        /\ <<h>> \in Bytes /\ <<h>> \o eol \in Bytes
        /\ <<h>> \o eol \o d \in Bytes /\ <<h>> \o eol \o d \o eol \in Bytes
        /\ Len(d) \in Nat /\ Len(d) # 0
    <3>1. i + 1 \in 1..(n + 1) /\ i \in 1..n
      BY <1>2
    <3>2. d \in Bytes /\ d # <<>>
      BY <1>2, <1>5
    <3>3. Len(d) \in Nat /\ Len(d) # 0
      <4> HIDE DEF d
      <4> QED
        BY <3>2, EmptySeq DEF Bytes
    <3> QED
      BY <1>2, <1>4, <1>5, <1>9, <1>12, <3>1, <3>2, <3>3
  <2>2. ASSUME NEW y \in Bytes
        PROVE  /\ f[i] \o z(y) = a(y) /\ a(y) \in Bytes /\ rest(y) \in Bytes
               /\ WholeChunk(a(y)) /\ ChunkSize(Line(a(y))) = Len(d) /\ Len(d) # 0
               /\ ChunkData(a(y)) = d /\ ChunkEnds(a(y)) /\ AfterChunk(a(y)) = rest(y)
    <3> DEFINE v == rest(y)
               x == z(y)
               k == <<h>>
               W == k \o eol
               V == W \o d
               U == V \o eol
    <3>1. x \in Bytes /\ k \in Bytes /\ W \in Bytes /\ V \in Bytes /\ U \in Bytes
      BY <1>14, <2>1
    <3> HIDE DEF h, d, F, x
    <3>2. v \in Bytes /\ v = F \o x
      BY <2>1, <3>1, BytesJoin DEF x
    <3> HIDE DEF rest, v
    <3> DEFINE w == eol \o v
               e == d \o w
    <3>3. w \in Bytes /\ e \in Bytes
      BY <1>13, <2>1, <3>2, BytesJoin
    <3>4. (U \o F) \o x = U \o (F \o x)
      <4> HIDE DEF U
      <4>1. U \in Bytes /\ F \in Bytes /\ x \in Bytes
        BY <2>1, <3>1
      <4> QED
        BY ONLY <4>1, BytesAssoc, Zenon
    <3>5. U \o v = V \o w
      <4> HIDE DEF V
      <4>1. V \in Bytes /\ eol \in Bytes /\ v \in Bytes
        BY <1>13, <3>1, <3>2
      <4> QED
        BY ONLY <4>1, BytesAssoc, Zenon
    <3>6. V \o w = W \o e
      <4> HIDE DEF W, w
      <4>1. W \in Bytes /\ d \in Bytes /\ w \in Bytes
        BY <2>1, <3>1, <3>3
      <4> QED
        BY ONLY <4>1, BytesAssoc, Zenon
    <3>7. W \o e = k \o (eol \o e)
      <4> HIDE DEF k, e
      <4>1. k \in Bytes /\ eol \in Bytes /\ e \in Bytes
        BY <1>13, <3>1, <3>3
      <4> QED
        BY ONLY <4>1, BytesAssoc, Zenon
    <3>8. f[i] \o x = k \o (eol \o e)
      <4>1. f[i] = U \o F
        BY <2>1
      <4> HIDE DEF k, W, V, U, w, e
      <4> QED
        BY <3>2, <3>4, <3>5, <3>6, <3>7, <4>1
    <3> DEFINE b == <<h>> \o (eol \o (d \o (eol \o v)))
    <3>9. /\ b \in Bytes /\ WholeChunk(b) /\ ChunkSize(Line(b)) = Len(d)
          /\ ChunkData(b) = d /\ ChunkEnds(b) /\ AfterChunk(b) = v
      <4>1. h \in DOMAIN Sizes /\ eol \in Ends /\ d \in Bytes /\ Sizes[h] = Len(d) /\ v \in Bytes
        BY <1>2, <2>1, <3>2
      <4> QED
        BY ONLY <4>1, ChunkSent
    <3> HIDE DEF b
    <3>10. a(y) = b /\ f[i] \o z(y) = b /\ rest(y) = v
      <4>1. rest(y) = v
        BY DEF v
      <4> QED
        BY <3>8, <4>1 DEF b, x
    <3> HIDE DEF a, z
    <3> QED
      BY <2>1, <3>2, <3>9, <3>10
  <2>3. ASSUME NEW y \in Bytes PROVE ChunksEnd(f[i] \o z(y))
    <3>1. ChunksEnd(rest(y))
      BY <1>16
    <3> DEFINE b == a(y)
    <3>2. b \in Bytes /\ ChunkEnds(b) /\ AfterChunk(b) = rest(y) /\ f[i] \o z(y) = b
      BY <2>2
    <3> HIDE DEF b, rest
    <3>3. ChunksEnd(b)
      BY <3>1, <3>2, ChunksEndBack
    <3> QED
      BY <3>2, <3>3
  <2>4. ASSUME NEW p \in Request, p.status = HEADER_DONE
        PROVE  /\ WithData(p, d) \in Request /\ WithData(p, d).status = HEADER_DONE
               /\ WithData(p, d).inbuf = p.inbuf \o d
               /\ WithData(p, d).path = p.path /\ WithData(p, d).method = p.method
               /\ \A y \in Bytes :
                    ParseChunks[St(p, f[i] \o z(y))] = ParseChunks[St(WithData(p, d), rest(y))]
    <3>1. /\ WithData(p, d) \in Request /\ WithData(p, d).status = HEADER_DONE
          /\ WithData(p, d).inbuf = p.inbuf \o d
          /\ WithData(p, d).path = p.path /\ WithData(p, d).method = p.method
      BY <2>1, <2>4, DataFields
    <3>2. ASSUME NEW y \in Bytes
          PROVE  ParseChunks[St(p, f[i] \o z(y))] = ParseChunks[St(WithData(p, d), rest(y))]
      <4> DEFINE b == a(y)
                 v == rest(y)
                 u == St(p, b)
      <4>1. /\ b \in Bytes /\ WholeChunk(b) /\ ChunkSize(Line(b)) # 0 /\ ChunkData(b) = d
            /\ AfterChunk(b) = v /\ f[i] \o z(y) = b
        BY <2>2
      <4> HIDE DEF b, v, d
      <4>2. u \in State /\ u.req = p /\ u.in = b
        BY <4>1, StateLemma
      <4> HIDE DEF u
      <4>3. TakeChunk(u) = St(WithData(p, d), v)
        BY <4>1, <4>2, TakeChunkLemma
      <4>4. ParseChunks[u] = ParseChunks[TakeChunk(u)]
        BY <4>1, <4>2, ParseChunksDef
      <4> HIDE DEF rest, z
      <4> QED
        BY <4>1, <4>3, <4>4 DEF u, v
    <3> HIDE DEF rest, z, d
    <3> QED
      BY <3>1, <3>2
  <2>5. ASSUME NEW p \in Request, p.status = HEADER_DONE, l \in DOMAIN Sizes
        PROVE  \E r \in Request : Done(p, r, i)
    <3> DEFINE w == WithData(p, d)
    <3>1. w \in Request /\ w.status = HEADER_DONE
      BY <2>4, <2>5
    <3>2. PICK r \in Request : Done(w, r, i + 1)
      <4> HIDE DEF w, Done, Fails
      <4> QED
        BY <1>16, <2>5, <3>1
    <3>3. BodyRead(p, r, g[i])
      <4> DEFINE j == p.inbuf
      <4>1. BodyRead(w, r, G) /\ w.inbuf = j \o d /\ w.path = p.path /\ w.method = p.method
        BY <2>4, <2>5, <3>2
      <4>2. j \in Bytes /\ d \in Bytes /\ G \in Bytes
        BY <2>1 DEF Request
      <4> HIDE DEF j, d, G, w
      <4>3. (j \o d) \o G = j \o (d \o G)
        BY ONLY <4>2, BytesAssoc, Zenon
      <4> QED
        BY <2>1, <4>1, <4>3 DEF BodyRead, j, d, G
    <3>4. ASSUME NEW y \in Bytes PROVE ParseChunks[St(p, f[i] \o z(y))] = St(r, y)
      <4>1. ParseChunks[St(w, f[i + 1] \o z(y))] = St(r, y)
        BY <3>2
      <4>2. ParseChunks[St(p, f[i] \o z(y))] = ParseChunks[St(w, rest(y))]
        <5> HIDE DEF rest, z, d
        <5> QED
          BY <2>4, <2>5
      <4> HIDE DEF z
      <4> QED
        BY <4>1, <4>2
    <3> HIDE DEF z
    <3> QED
      BY <3>3, <3>4
  <2>6. ASSUME NEW p \in Request, p.status = HEADER_DONE, l \notin DOMAIN Sizes
        PROVE  Fails(p, i)
    <3> DEFINE w == WithData(p, d)
    <3>1. w \in Request /\ w.status = HEADER_DONE
      BY <2>4, <2>6
    <3>2. Fails(w, i + 1)
      <4> HIDE DEF w, Done, Fails
      <4> QED
        BY <1>16, <2>6, <3>1
    <3>3. ASSUME NEW y \in Bytes PROVE ParseChunks[St(p, f[i] \o z(y))].req.status = HTTP_ERROR
      <4>1. ParseChunks[St(w, f[i + 1] \o z(y))].req.status = HTTP_ERROR
        BY <3>2
      <4>2. ParseChunks[St(p, f[i] \o z(y))] = ParseChunks[St(w, rest(y))]
        <5> HIDE DEF rest, z, d
        <5> QED
          BY <2>4, <2>6
      <4> HIDE DEF z
      <4> QED
        BY <4>1, <4>2
    <3> HIDE DEF z
    <3> QED
      BY <3>3
  <2> HIDE DEF Done, Fails, z
  <2> QED
    BY <2>3, <2>5, <2>6
<1> HIDE DEF P
<1>17. P(1)
  <2> DEFINE H == {i \in Nat : P(i)}
  <2>1. n + 1 \in H
    BY <1>2, <1>15
  <2>2. \A i \in 1..n : i + 1 \in H => i \in H
    BY <1>16
  <2>3. 1 \in H
    <3> HIDE DEF H
    <3> QED
      BY <1>2, <2>1, <2>2, DownwardInduction
  <2> QED
    BY <2>3
<1>18. /\ Content(m) \in Bytes
       /\ \A y \in Bytes : Content(m) \o y = f[1] \o z(y)
  <2> DEFINE F == f[1]
             k == <<l>>
  <2>1. F \in Bytes /\ Content(m) = ((F \o k) \o eol) \o eol /\ k \in Bytes /\ F \o k \in Bytes
    <3>1. 1 \in 1..(n + 1)
      BY <1>2
    <3>2. F \in Bytes /\ k \in Bytes
      BY <1>12, <1>13, <3>1
    <3> HIDE DEF k
    <3>3. F \o k \in Bytes
      BY <3>2, BytesJoin
    <3> QED
      BY <1>8, <1>11, <3>2, <3>3 DEF k
  <2> HIDE DEF F, k
  <2> DEFINE Fk == F \o k
             ee == eol \o eol
  <2>2. (Fk \o eol) \o eol = Fk \o (eol \o eol)
    <3> HIDE DEF Fk
    <3>1. Fk \in Bytes /\ eol \in Bytes
      BY <1>13, <2>1 DEF Fk
    <3> QED
      BY ONLY <3>1, BytesAssoc, Zenon
  <2>3. (F \o k) \o ee = F \o (k \o ee)
    <3> HIDE DEF ee
    <3>1. F \in Bytes /\ k \in Bytes /\ ee \in Bytes
      BY <1>13, <2>1 DEF ee
    <3> QED
      BY ONLY <3>1, BytesAssoc, Zenon
  <2>4. Content(m) = F \o end
    BY <2>1, <2>2, <2>3 DEF k
  <2> HIDE DEF end
  <2>5. Content(m) \in Bytes
    BY <1>13, <2>1, <2>4, BytesJoin
  <2>6. ASSUME NEW y \in Bytes PROVE Content(m) \o y = f[1] \o z(y)
    <3>1. (F \o end) \o y = F \o (end \o y)
      <4>1. F \in Bytes /\ end \in Bytes /\ y \in Bytes
        BY <1>13, <2>1
      <4> QED
        BY ONLY <4>1, BytesAssoc, Zenon
    <3>2. end \o y = z(y)
      BY <1>14
    <3> HIDE DEF z
    <3> QED
      BY <2>4, <3>1, <3>2 DEF F
  <2> HIDE DEF z
  <2> QED
    BY <2>5, <2>6
<1>19. /\ \A y \in Bytes : ChunksEnd(Content(m) \o y)
       /\ l \in DOMAIN Sizes =>
            \E r \in Request :
              /\ BodyRead(q, r, Body(m))
              /\ \A y \in Bytes : ParseChunks[St(q, Content(m) \o y)] = St(r, y)
       /\ l \notin DOMAIN Sizes =>
            \A y \in Bytes : ParseChunks[St(q, Content(m) \o y)].req.status = HTTP_ERROR
  <2> HIDE DEF z
  <2>1. \A y \in Bytes : ChunksEnd(Content(m) \o y)
    BY <1>17, <1>18 DEF P
  <2>2. ASSUME l \in DOMAIN Sizes
        PROVE  \E r \in Request :
                 /\ BodyRead(q, r, Body(m))
                 /\ \A y \in Bytes : ParseChunks[St(q, Content(m) \o y)] = St(r, y)
    <3>1. PICK r \in Request : Done(q, r, 1)
      BY <1>17, <2>2 DEF P
    <3> QED
      BY <1>3, <1>18, <3>1
  <2>3. ASSUME l \notin DOMAIN Sizes
        PROVE  \A y \in Bytes : ParseChunks[St(q, Content(m) \o y)].req.status = HTTP_ERROR
    <3>1. Fails(q, 1)
      BY <1>17, <2>3 DEF P
    <3> QED
      BY <1>18, <3>1
  <2> QED
    BY <2>1, <2>2, <2>3
<1> QED
  BY <1>18, <1>19 DEF l

\* http_new makes a request that nothing has been read of.
LEMMA NewRequestFields ==
  /\ NewRequest \in Request /\ NewRequest.status = REQ_INIT /\ NewRequest.inbuf = <<>>
  /\ NewRequest.bodyin = 0 /\ NewRequest.contentlength = NoLength
  /\ NewRequest.length = NoLength /\ NewRequest.chunked = FALSE
  /\ NewRequest.path = <<>> /\ GoodRequest(NewRequest)
<1>1. NewRequest \in Request
  <2>1. <<>> \in Paths /\ <<>> \in Bytes
    BY DEF Paths, Bytes
  <2> HIDE DEF Paths, Bytes
  <2> QED
    BY <2>1, StatusNumbers DEF NewRequest, Request
<1> QED
  BY <1>1, StatusNumbers DEF NewRequest, GoodRequest

\* The parts of a request, from its front.
LEMMA WireParts ==
  ASSUME NEW m \in Requests
  PROVE  /\ Content(m) \in Bytes /\ HeaderLines(m) \in Bytes
         /\ m.eol \in Ends /\ m.eol \in Bytes
         /\ m.line \in Symbols /\ m.line \notin {"CR", "LF"}
         /\ Wire(m) \in Bytes /\ Len(Wire(m)) > 0
         /\ \A y \in Bytes :
              /\ Wire(m) \o y
                   = <<m.line>> \o (m.eol \o (HeaderLines(m) \o (m.eol \o (Content(m) \o y))))
              /\ Content(m) \o y \in Bytes /\ m.eol \o (Content(m) \o y) \in Bytes
              /\ HeaderLines(m) \o (m.eol \o (Content(m) \o y)) \in Bytes
<1> DEFINE l == m.line
           eol == m.eol
           H == HeaderLines(m)
           C == Content(m)
<1>1. /\ m \in Message /\ l \in DOMAIN Lines \cup DOMAIN BadLines /\ eol \in Ends
  BY DEF Requests, Message
<1>2. l \in Symbols /\ l \notin {"CR", "LF"}
  <2> HIDE DEF l
  <2> QED
    BY <1>1, SymbolAssumption DEF Symbols
<1>3. H \in Bytes
  <2>1. NewRequest \in Request
    BY NewRequestFields
  <2> QED
    BY <1>1, <2>1, HeadersSent
<1>4. C \in Bytes
  <2>1. CASE m.framing = "chunked"
    <3> DEFINE q == EndHeaders(NewRequest)
    <3>1. q \in Request /\ q.status = HEADER_DONE
      BY NewRequestFields, HeaderTypes, HeaderFields
    <3> HIDE DEF q
    <3> QED
      BY <2>1, <3>1, ChunksSent
  <2>2. CASE m.framing # "chunked"
    BY <1>1, <2>2, ContentTypes DEF Content
  <2> QED
    BY <2>1, <2>2
<1> DEFINE a == <<l>> \o eol
           b == a \o H
           c == b \o eol
<1>5. <<l>> \in Bytes /\ eol \in Bytes
  BY <1>1, <1>2, BytesJoin
<1>6. Wire(m) = c \o C
  BY DEF Wire
<1> DEFINE k == <<l>>
<1>11. Len(k) = 1
  OBVIOUS
<1> HIDE DEF l, eol, H, C, k
<1>7. k \in Bytes /\ a = k \o eol
  BY <1>5 DEF k
<1>8. a \in Bytes /\ Len(a) = Len(k) + Len(eol) /\ Len(eol) \in Nat
  BY <1>5, <1>7, BytesJoin
<1> HIDE DEF a
<1>9. b \in Bytes /\ Len(b) = Len(a) + Len(H) /\ Len(H) \in Nat
  BY <1>3, <1>8, BytesJoin
<1> HIDE DEF b
<1>10. c \in Bytes /\ Len(c) = Len(b) + Len(eol)
  BY <1>5, <1>9, BytesJoin
<1> HIDE DEF c
<1>12. c \o C \in Bytes /\ Len(c \o C) = Len(c) + Len(C) /\ Len(C) \in Nat
  BY <1>4, <1>10, BytesJoin
<1>13. Len(c \o C) > 0
  BY <1>8, <1>9, <1>10, <1>11, <1>12
<1>14. ASSUME NEW y \in Bytes
       PROVE  /\ (c \o C) \o y = <<l>> \o (eol \o (H \o (eol \o (C \o y))))
              /\ C \o y \in Bytes /\ eol \o (C \o y) \in Bytes
              /\ H \o (eol \o (C \o y)) \in Bytes
  <2> DEFINE u == C \o y
             v == eol \o u
             w == H \o v
  <2>1. u \in Bytes
    BY <1>4, BytesJoin
  <2>2. (c \o C) \o y = c \o u
    <3>1. c \in Bytes /\ C \in Bytes /\ y \in Bytes
      BY <1>4, <1>10
    <3> QED
      BY ONLY <3>1, BytesAssoc, Zenon
  <2> HIDE DEF u
  <2>3. v \in Bytes
    BY <1>5, <2>1, BytesJoin
  <2>4. (b \o eol) \o u = b \o v
    <3>1. b \in Bytes /\ eol \in Bytes /\ u \in Bytes
      BY <1>5, <1>9, <2>1
    <3> QED
      BY ONLY <3>1, BytesAssoc, Zenon
  <2> HIDE DEF v
  <2>5. w \in Bytes
    BY <1>3, <2>3, BytesJoin
  <2>6. (a \o H) \o v = a \o w
    <3>1. a \in Bytes /\ H \in Bytes /\ v \in Bytes
      BY <1>3, <1>8, <2>3
    <3> QED
      BY ONLY <3>1, BytesAssoc, Zenon
  <2> HIDE DEF w
  <2>7. (k \o eol) \o w = k \o (eol \o w)
    <3>1. k \in Bytes /\ eol \in Bytes /\ w \in Bytes
      BY <1>5, <1>7, <2>5
    <3> QED
      BY ONLY <3>1, BytesAssoc, Zenon
  <2>8. c = b \o eol /\ b = a \o H
    BY DEF c, b
  <2>9. (c \o C) \o y = k \o (eol \o w)
    BY <1>7, <2>2, <2>4, <2>6, <2>7, <2>8
  <2> QED
    BY <2>1, <2>3, <2>5, <2>9 DEF u, v, w, k
<1> QED
  BY <1>1, <1>2, <1>3, <1>4, <1>5, <1>6, <1>12, <1>13, <1>14 DEF l, eol, H, C

\* The request line is read first.
LEMMA LineSent ==
  ASSUME NEW m \in Requests
  PROVE  LET q == ParseRequestLine(NewRequest, <<m.line>>)
             good == m.line \in DOMAIN Lines /\ ValidPath(Lines[m.line].path)
         IN  /\ q \in Request /\ q.inbuf = <<>> /\ q.bodyin = 0
             /\ q.contentlength = NoLength /\ q.length = NoLength /\ q.chunked = FALSE
             /\ ~good => q.status = HTTP_ERROR
             /\ good => /\ q.status = REQUESTLINE_DONE /\ q.path = Path(m)
                        /\ q.method = Lines[m.line].method
             /\ \A y \in Bytes :
                  AtRequestLine(St(NewRequest, Wire(m) \o y))
                    = St(q, HeaderLines(m) \o (m.eol \o (Content(m) \o y)))
<1> DEFINE l == m.line
           k == <<l>>
           q == ParseRequestLine(NewRequest, k)
           good == l \in DOMAIN Lines /\ ValidPath(Lines[l].path)
<1>1. Len(k) = 1 /\ k[1] = l
  OBVIOUS
<1> HIDE DEF k
<1>2. /\ q \in Request /\ q.inbuf = <<>> /\ q.bodyin = 0
      /\ q.contentlength = NoLength /\ q.length = NoLength /\ q.chunked = FALSE
      /\ l \in DOMAIN Lines =>
           /\ q.status = LineStatus[l] /\ q.method = Lines[l].method /\ q.path = LinePath[l]
      /\ l \notin DOMAIN Lines => q.status = HTTP_ERROR
  <2>1. NewRequest \in Request /\ NewRequest.status = REQ_INIT
    BY NewRequestFields
  <2> DEFINE p == NewRequest
  <2>2. /\ p.bodyin = 0 /\ p.contentlength = NoLength
        /\ p.length = NoLength /\ p.chunked = FALSE /\ p.inbuf = <<>>
    BY NewRequestFields
  <2>3. p \in Request /\ p.status = REQ_INIT
    BY <2>1
  <2> HIDE DEF p, l
  <2>4. LET r == ParseRequestLine(p, k)
         IN  /\ r \in Request
             /\ r.bodyin = p.bodyin /\ r.contentlength = p.contentlength
             /\ r.length = p.length /\ r.chunked = p.chunked /\ r.inbuf = p.inbuf
             /\ Len(k) = 1 /\ k[1] \in DOMAIN Lines =>
                  /\ r.status = LineStatus[k[1]]
                  /\ r.method = Lines[k[1]].method /\ r.path = LinePath[k[1]]
             /\ ~(Len(k) = 1 /\ k[1] \in DOMAIN Lines) => r.status = HTTP_ERROR
    BY <2>3, RequestLineLemma
  <2> QED
    BY <1>1, <2>2, <2>4 DEF p
<1>3. /\ ~good => q.status = HTTP_ERROR
      /\ good => /\ q.status = REQUESTLINE_DONE /\ q.path = Path(m)
                 /\ q.method = Lines[l].method
  <2>1. CASE l \notin DOMAIN Lines
    BY <1>2, <2>1
  <2>2. CASE l \in DOMAIN Lines
    <3> DEFINE p == Lines[l].path
    <3>1. p \in Paths
      BY <2>2, PathTypes
    <3>2. /\ LineStatus[l] = IF IsValidPathname(p) THEN REQUESTLINE_DONE ELSE HTTP_ERROR
          /\ LinePath[l] = IF IsValidPathname(p) THEN CorrectPathname(p) ELSE p
      BY <2>2 DEF LineStatus, LinePath
    <3>3. Path(m) = OneForm(p)
      BY DEF Path
    <3> HIDE DEF p, q, l
    <3>4. IsValidPathname(p) <=> ValidPath(p)
      BY <3>1, ValidPathname
    <3>5. IsValidPathname(p) => CorrectPathname(p) = OneForm(p)
      BY <3>1, CorrectPathnameForm
    <3>6. CASE ValidPath(p)
      BY <1>2, <2>2, <3>2, <3>3, <3>4, <3>5, <3>6 DEF p
    <3>7. CASE ~ValidPath(p)
      BY <1>2, <2>2, <3>2, <3>4, <3>7 DEF p
    <3> QED
      BY <3>6, <3>7
  <2> QED
    BY <2>1, <2>2
<1>4. ASSUME NEW y \in Bytes
      PROVE  AtRequestLine(St(NewRequest, Wire(m) \o y))
               = St(q, HeaderLines(m) \o (m.eol \o (Content(m) \o y)))
  <2> DEFINE z == HeaderLines(m) \o (m.eol \o (Content(m) \o y))
             eol == m.eol
             a == <<l>> \o (eol \o z)
             s == St(NewRequest, a)
  <2>1. /\ z \in Bytes /\ eol \in Ends /\ l \in Symbols /\ l \notin {"CR", "LF"}
        /\ Wire(m) \o y = a
    BY WireParts
  <2> HIDE DEF z, eol, l
  <2>2. a \in Bytes /\ HasLine(a) /\ Line(a) = k /\ DrainLine(a) = z
    BY <2>1, OneLine DEF k
  <2> HIDE DEF a
  <2>3. s.req = NewRequest /\ s.in = a
    BY <2>2, NewRequestFields, StateLemma
  <2>4. NewRequest.status = REQ_INIT
    BY NewRequestFields
  <2>5. AtRequestLine(s) = St(q, z)
    <3> HIDE DEF s
    <3> QED
      BY <2>2, <2>3, <2>4 DEF AtRequestLine
  <2> QED
    BY <2>1, <2>5 DEF z
<1> QED
  BY <1>2, <1>3, <1>4 DEF k

\* Then the headers, which say how the content is delimited.
LEMMA HeadSent ==
  ASSUME NEW m \in Requests, m.line \in DOMAIN Lines, ValidPath(Lines[m.line].path)
  PROVE  \E r \in Request :
           /\ r.status = HEADER_DONE /\ r.inbuf = <<>> /\ r.bodyin = 0
           /\ r.path = Path(m) /\ r.method = Lines[m.line].method
           /\ m.framing = "none" => r.contentlength = NoLength /\ r.chunked = FALSE
           /\ m.framing = "length" => r.contentlength = Len(Body(m))
           /\ m.framing = "chunked" => r.contentlength = NoLength /\ r.chunked = TRUE
           /\ \A y \in Bytes : Before(St(NewRequest, Wire(m) \o y)) = St(r, Content(m) \o y)
<1> DEFINE q == ParseRequestLine(NewRequest, <<m.line>>)
           H == HeaderLines(m)
           eol == m.eol
           h == m.headers
<1>1. m \in Message /\ Announced(m) /\ h \in Seq(DOMAIN Lengths \cup {Chunked} \cup Data)
      /\ m.framing \in {"none", "length", "chunked"}
  BY DEF Requests, Message
<1>2. /\ q \in Request /\ q.inbuf = <<>> /\ q.bodyin = 0
      /\ q.contentlength = NoLength /\ q.length = NoLength /\ q.chunked = FALSE
      /\ q.status = REQUESTLINE_DONE /\ q.path = Path(m)
      /\ q.method = Lines[m.line].method
      /\ \A y \in Bytes : AtRequestLine(St(NewRequest, Wire(m) \o y))
                            = St(q, H \o (eol \o (Content(m) \o y)))
  BY LineSent
<1> HIDE DEF q
<1>3. PICK r \in Request :
        /\ HeadersRead(q, r, h, 1)
        /\ \A y \in Bytes : ParseHeaders[St(q, H \o (eol \o y))] = St(r, y)
  BY <1>1, <1>2, HeadersSent
<1>4. /\ r.status = HEADER_DONE /\ r.inbuf = <<>> /\ r.bodyin = 0
      /\ r.path = Path(m) /\ r.method = Lines[m.line].method
      /\ r.chunked <=> \E j \in 1..Len(h) : h[j] = Chunked
      /\ \/ /\ \A j \in 1..Len(h) : h[j] \notin DOMAIN Lengths
            /\ r.contentlength = NoLength
         \/ \E j \in 1..Len(h) :
              h[j] \in DOMAIN Lengths /\ r.contentlength = Lengths[h[j]]
  BY <1>2, <1>3 DEF HeadersRead
<1>5. r.chunked \in BOOLEAN
  BY DEF Request
<1> DEFINE names == {h[i] : i \in DOMAIN h}
           lengths == names \cap DOMAIN Lengths
<1>6. DOMAIN h = 1..Len(h)
  BY <1>1
<1>7. /\ m.framing = "none"    => lengths = {} /\ Chunked \notin names
      /\ m.framing = "length"  => /\ {Lengths[k] : k \in lengths} = {Len(Body(m))}
                                  /\ Chunked \notin names
      /\ m.framing = "chunked" => lengths = {} /\ Chunked \in names
  BY <1>1 DEF Announced
<1> HIDE DEF h
<1>8. lengths = {} => r.contentlength = NoLength
  BY <1>4, <1>6
<1>9. (Chunked \in names => r.chunked = TRUE) /\ (Chunked \notin names => r.chunked = FALSE)
  BY <1>4, <1>5, <1>6
<1>10. ASSUME m.framing = "length" PROVE r.contentlength = Len(Body(m))
  <2>1. {Lengths[k] : k \in lengths} = {Len(Body(m))}
    BY <1>7, <1>10
  <2>2. lengths # {}
    BY <2>1
  <2>3. PICK j \in 1..Len(h) : h[j] \in DOMAIN Lengths /\ r.contentlength = Lengths[h[j]]
    BY <1>4, <1>6, <2>2
  <2>4. h[j] \in lengths
    BY <1>6, <2>3
  <2> QED
    BY <2>1, <2>3, <2>4
<1>11. ASSUME NEW y \in Bytes
       PROVE  Before(St(NewRequest, Wire(m) \o y)) = St(r, Content(m) \o y)
  <2> DEFINE z == Content(m) \o y
             s == St(q, H \o (eol \o z))
  <2>1. z \in Bytes /\ H \o (eol \o z) \in Bytes
    BY WireParts
  <2>2. AtRequestLine(St(NewRequest, Wire(m) \o y)) = s
    BY <1>2
  <2> HIDE DEF z
  <2>3. s.req = q
    BY <1>2, <2>1, StateLemma
  <2>4. ParseHeaders[s] = St(r, z)
    BY <1>3, <2>1
  <2> HIDE DEF s
  <2>5. AtHeaders(s) = St(r, z)
    BY <1>2, <2>3, <2>4 DEF AtHeaders
  <2> QED
    BY <2>2, <2>5 DEF Before, z
<1> QED
  <2> HIDE DEF names, lengths
  <2> QED
    BY <1>4, <1>7, <1>8, <1>9, <1>10, <1>11

\* Then the content.
LEMMA ContentSent ==
  ASSUME NEW m \in Requests, NEW r \in Request, r.status = HEADER_DONE,
         r.inbuf = <<>>, r.bodyin = 0,
         m.framing = "none" => r.contentlength = NoLength /\ r.chunked = FALSE,
         m.framing = "length" => r.contentlength = Len(Body(m)),
         m.framing = "chunked" => r.contentlength = NoLength /\ r.chunked = TRUE
  PROVE  LET good == m.framing = "chunked" => m.last \in DOMAIN Sizes
         IN  /\ \A y \in Bytes : BodyEnds(St(r, Content(m) \o y))
             /\ good => \E t \in Request :
                  /\ t.status = REQ_DONE /\ t.inbuf = Body(m)
                  /\ t.path = r.path /\ t.method = r.method
                  /\ \A y \in Bytes : ParseBody(St(r, Content(m) \o y)) = St(t, y)
             /\ ~good => \A y \in Bytes :
                  ParseBody(St(r, Content(m) \o y)).req.status = HTTP_ERROR
<1> DEFINE C == Content(m)
           B == Body(m)
<1>1. m \in Message /\ m.framing \in {"none", "length", "chunked"}
      /\ (m.framing = "none" => m.content = <<>>)
  BY DEF Requests, Message
<1>2. B \in Bytes /\ Len(B) \in Nat
  BY <1>1, ContentTypes DEF Bytes
<1>3. C \in Bytes /\ \A y \in Bytes : C \o y \in Bytes
  BY WireParts
<1>4. \A y \in Bytes : /\ St(r, C \o y) \in State /\ St(r, C \o y).req = r
                       /\ St(r, C \o y).in = C \o y
  <2> HIDE DEF C
  <2> QED
    BY <1>3, StateLemma
<1>5. REQ_DONE \in REQ_INIT..HTTP_ERROR /\ NoLength = -1
  BY StatusNumbers DEF NoLength
<1>6. CASE m.framing = "chunked"
  <2>1. r.contentlength = -1 /\ r.chunked = TRUE
    BY <1>5, <1>6
  <2>2. \A y \in Bytes : BodyEnds(St(r, C \o y))
    <3>1. \A y \in Bytes : ChunksEnd(C \o y)
      BY <1>6, ChunksSent
    <3> HIDE DEF C
    <3> QED
      BY <1>4, <3>1 DEF BodyEnds
  <2>3. ASSUME NEW y \in Bytes PROVE ParseBody(St(r, C \o y)) = ParseChunks[St(r, C \o y)]
    <3> DEFINE s == St(r, C \o y)
    <3>1. s.req = r
      BY <1>4
    <3> HIDE DEF s
    <3>2. s.req.contentlength < 0 /\ s.req.chunked /\ ~(s.req.contentlength >= 0)
      BY <2>1, <3>1
    <3>3. ParseBody(s) = ParseChunks[s]
      BY <3>2 DEF ParseBody
    <3> QED
      BY <3>3 DEF s
  <2>4. ASSUME m.last \in DOMAIN Sizes
        PROVE  \E t \in Request :
                  /\ t.status = REQ_DONE /\ t.inbuf = B
                  /\ t.path = r.path /\ t.method = r.method
                  /\ \A y \in Bytes : ParseBody(St(r, C \o y)) = St(t, y)
    <3>1. PICK t \in Request :
            /\ BodyRead(r, t, B)
            /\ \A y \in Bytes : ParseChunks[St(r, C \o y)] = St(t, y)
      BY <1>6, <2>4, ChunksSent
    <3>2. <<>> \o B = B
      <4> HIDE DEF B
      <4> QED
        BY <1>2, BytesJoin
    <3> HIDE DEF B, C
    <3> QED
      BY <2>3, <3>1, <3>2 DEF BodyRead
  <2>5. ASSUME m.last \notin DOMAIN Sizes
        PROVE  \A y \in Bytes : ParseBody(St(r, C \o y)).req.status = HTTP_ERROR
    <3>1. \A y \in Bytes : ParseChunks[St(r, C \o y)].req.status = HTTP_ERROR
      BY <1>6, <2>5, ChunksSent
    <3> HIDE DEF C
    <3> QED
      BY <2>3, <3>1
  <2> HIDE DEF B, C
  <2> QED
    BY <1>6, <2>2, <2>4, <2>5 DEF B, C
<1>7. CASE m.framing # "chunked"
  <2>1. C = B /\ ~(r.contentlength < 0 /\ r.chunked)
    <3>1. C = B
      BY <1>7 DEF Content
    <3>2. CASE m.framing = "none"
      BY <3>1, <3>2
    <3>3. CASE m.framing = "length"
      <4> HIDE DEF B, C
      <4>1. r.contentlength = Len(B)
        BY <3>3 DEF B
      <4> QED
        BY <1>2, <3>1, <4>1
    <3> QED
      BY <1>1, <1>7, <3>1, <3>2, <3>3
  <2>2. \A y \in Bytes : BodyEnds(St(r, C \o y))
    <3> HIDE DEF B, C
    <3> QED
      BY <1>4, <2>1 DEF BodyEnds
  <2>3. \E t \in Request :
                  /\ t.status = REQ_DONE /\ t.inbuf = B
                  /\ t.path = r.path /\ t.method = r.method
                  /\ \A y \in Bytes : ParseBody(St(r, C \o y)) = St(t, y)
    <3>1. CASE m.framing = "none"
      <4>1. B = <<>> /\ r.contentlength = -1 /\ r.chunked = FALSE
        <5> DEFINE c == m.content
        <5>1. c = <<>>
          BY <1>1, <3>1
        <5>2. PICK g : Unfolds(g, c, Symbols) /\ g[1] = Body(m)
          BY <1>1, ContentTypes
        <5> HIDE DEF c
        <5>3. Len(c) = 0
          BY <5>1
        <5> QED
          BY <1>5, <3>1, <5>2, <5>3 DEF Unfolds
      <4> DEFINE t == [r EXCEPT !.status = REQ_DONE]
      <4>2. t \in Request
        <5> HIDE DEF REQ_INIT, HTTP_ERROR
        <5> QED
          BY <1>5, Zenon DEF Request
      <4>3. t.status = REQ_DONE /\ t.inbuf = <<>> /\ t.path = r.path /\ t.method = r.method
        BY DEF Request
      <4>4. ASSUME NEW y \in Bytes PROVE ParseBody(St(r, C \o y)) = St(t, y)
        <5> DEFINE s == St(r, y)
        <5>1. C \o y = y
          <6> HIDE DEF B, C
          <6> QED
            BY <2>1, <4>1, BytesJoin
        <5>2. s.req = r /\ s.in = y
          BY StateLemma
        <5> HIDE DEF s, C
        <5>3. ~(s.req.contentlength >= 0) /\ ~(s.req.contentlength < 0 /\ s.req.chunked)
          BY <4>1, <5>2
        <5>4. ParseBody(s) = SetStatus(s, REQ_DONE)
          BY <5>3 DEF ParseBody
        <5>5. SetStatus(s, REQ_DONE) = St(t, y)
          BY <5>2 DEF SetStatus
        <5> QED
          BY <5>1, <5>4, <5>5 DEF s
      <4> HIDE DEF t, B, C
      <4> QED
        BY <4>1, <4>2, <4>3, <4>4
    <3>2. CASE m.framing = "length"
      <4> DEFINE k == Len(B)
                 w == StaticData(r, B)
                 t == [w EXCEPT !.status = REQ_DONE]
      <4>1. r.contentlength = k /\ k \in Nat
        BY <1>2, <3>2
      <4>2. /\ w \in Request /\ w.inbuf = r.inbuf \o B /\ w.path = r.path
            /\ w.method = r.method
        <5> HIDE DEF B, w
        <5> QED
          BY <1>2, StaticFields DEF w
      <4> HIDE DEF w
      <4>3. t \in Request
        <5> HIDE DEF REQ_INIT, HTTP_ERROR
        <5> QED
          BY <1>5, <4>2, Zenon DEF Request
      <4>4. t.status = REQ_DONE /\ t.inbuf = w.inbuf /\ t.path = w.path /\ t.method = w.method
        BY <4>2 DEF Request
      <4>5. ASSUME NEW y \in Bytes PROVE ParseBody(St(r, C \o y)) = St(t, y)
        <5> DEFINE a == B \o y
                   s == St(r, a)
        <5>1. s \in State /\ s.req = r /\ s.in = a /\ a \in Bytes
          BY <1>3, <1>4, <2>1
        <5>2. Len(a) = k + Len(y) /\ Len(y) \in Nat
          <6> HIDE DEF B
          <6> QED
            BY <1>2, BytesJoin
        <5>3. SubSeq(a, 1, k) = B /\ Skip(a, k) = y
          <6> HIDE DEF B
          <6>1. B \in Seq(Symbols) /\ y \in Seq(Symbols)
            BY <1>2 DEF Bytes
          <6>2. Skip(B \o y, Len(B)) = y
            BY <6>1, CutJoinLemma
          <6>3. SubSeq(B \o y, 1, Len(B)) = SubSeq(B, 1, Len(B))
            BY <1>2, <6>1, CutJoinLemma
          <6>4. SubSeq(B, 1, Len(B)) = B
            BY <6>1, CutLemma
          <6> QED
            BY <6>2, <6>3, <6>4
        <5> HIDE DEF s, a, B, k, t
        <5>4. Missing(s) = k /\ Least(Missing(s), Len(s.in)) = k
          BY <4>1, <5>1, <5>2 DEF Missing, Least
        <5>5. /\ s.req.contentlength >= 0 /\ Sane(s.req)
              /\ ~(s.req.contentlength < 0 /\ s.req.chunked)
          BY <4>1, <5>1 DEF Sane
        <5>6. ParseStatic(s) = SetStatus(St(w, y), REQ_DONE)
          <6> DEFINE j == Least(Missing(s), Len(s.in))
                     v == St(StaticData(s.req, SubSeq(s.in, 1, j)), Skip(s.in, j))
          <6>1. ParseStatic(s) = IF j = Missing(s) THEN SetStatus(v, REQ_DONE) ELSE v
            BY <5>1, <5>5, StaticLemma
          <6>2. v = St(w, y)
            BY <5>1, <5>3, <5>4 DEF w
          <6> HIDE DEF v, j
          <6>3. j = Missing(s)
            BY <5>4 DEF j
          <6> QED
            BY <6>1, <6>2, <6>3
        <5>7. SetStatus(St(w, y), REQ_DONE) = St(t, y)
          BY <4>2, StateLemma DEF SetStatus, t
        <5>8. ParseBody(s) = ParseStatic(s)
          BY <5>5 DEF ParseBody
        <5> HIDE DEF C
        <5> QED
          BY <2>1, <5>6, <5>7, <5>8 DEF s, a
      <4>6. r.inbuf \o B = B
        <5> HIDE DEF B
        <5> QED
          BY <1>2, BytesJoin
      <4> HIDE DEF t, B, C
      <4> QED
        BY <4>2, <4>3, <4>4, <4>5, <4>6
    <3> QED
      BY <1>1, <1>7, <3>1, <3>2
  <2> HIDE DEF B, C
  <2> QED
    BY <1>7, <2>2, <2>3 DEF B, C
<1> QED
  BY <1>6, <1>7

\* A request that is sound is read to its last byte, whatever follows it: the
\* path in its one form, the content as it was meant; another is refused.
THEOREM RequestSent ==
  ASSUME NEW m \in Requests
  PROVE  /\ Wire(m) \in Bytes /\ Len(Wire(m)) > 0
         /\ \A y \in Bytes : ChunksOK(St(NewRequest, Wire(m) \o y))
         /\ Sound(m) => \E t \in Request :
              /\ t.status = REQ_DONE /\ t.path = Path(m) /\ t.inbuf = Body(m)
              /\ t.method = Lines[m.line].method
              /\ \A y \in Bytes : HttpParser(St(NewRequest, Wire(m) \o y)) = St(t, y)
         /\ ~Sound(m) => \A y \in Bytes :
              HttpParser(St(NewRequest, Wire(m) \o y)).req.status = HTTP_ERROR
<1> DEFINE s(y) == St(NewRequest, Wire(m) \o y)
           C == Content(m)
<1>1. Wire(m) \in Bytes /\ Len(Wire(m)) > 0 /\ \A y \in Bytes : C \o y \in Bytes
  BY WireParts
<1>2. \A u : HttpParser(u) = AtBody(Before(u))
  BY DEF HttpParser, Before
<1>3. CASE m.line \in DOMAIN Lines /\ ValidPath(Lines[m.line].path)
  <2>1. PICK r \in Request :
          /\ r.status = HEADER_DONE /\ r.inbuf = <<>> /\ r.bodyin = 0
          /\ r.path = Path(m) /\ r.method = Lines[m.line].method
          /\ m.framing = "none" => r.contentlength = NoLength /\ r.chunked = FALSE
          /\ m.framing = "length" => r.contentlength = Len(Body(m))
          /\ m.framing = "chunked" => r.contentlength = NoLength /\ r.chunked = TRUE
          /\ \A y \in Bytes : Before(s(y)) = St(r, C \o y)
    BY <1>3, HeadSent
  <2>2. \A y \in Bytes : St(r, C \o y).req = r
    <3> HIDE DEF C
    <3> QED
      BY <1>1, StateLemma
  <2>3. \A y \in Bytes : HttpParser(s(y)) = ParseBody(St(r, C \o y))
    <3> HIDE DEF s, C
    <3> QED
      BY <1>2, <2>1, <2>2 DEF AtBody
  <2> DEFINE good == m.framing = "chunked" => m.last \in DOMAIN Sizes
  <2>4. /\ \A y \in Bytes : BodyEnds(St(r, C \o y))
        /\ good => \E t \in Request :
             /\ t.status = REQ_DONE /\ t.inbuf = Body(m)
             /\ t.path = r.path /\ t.method = r.method
             /\ \A y \in Bytes : ParseBody(St(r, C \o y)) = St(t, y)
        /\ ~good => \A y \in Bytes : ParseBody(St(r, C \o y)).req.status = HTTP_ERROR
    BY <2>1, ContentSent
  <2>5. Sound(m) <=> good
    BY <1>3 DEF Sound
  <2> HIDE DEF good, C
  <2>6. \A y \in Bytes : ChunksOK(s(y))
    <3> HIDE DEF s
    <3> QED
      BY <2>1, <2>4 DEF ChunksOK
  <2>7. ASSUME good
        PROVE  \E t \in Request :
                 /\ t.status = REQ_DONE /\ t.path = Path(m) /\ t.inbuf = Body(m)
                 /\ t.method = Lines[m.line].method
                 /\ \A y \in Bytes : HttpParser(s(y)) = St(t, y)
    <3> HIDE DEF s
    <3> QED
      BY <2>1, <2>3, <2>4, <2>7
  <2>8. ASSUME ~good PROVE \A y \in Bytes : HttpParser(s(y)).req.status = HTTP_ERROR
    <3> HIDE DEF s
    <3> QED
      BY <2>3, <2>4, <2>8
  <2> QED
    BY <1>1, <2>5, <2>6, <2>7, <2>8
<1>4. CASE ~(m.line \in DOMAIN Lines /\ ValidPath(Lines[m.line].path))
  <2> DEFINE q == ParseRequestLine(NewRequest, <<m.line>>)
             z(y) == HeaderLines(m) \o (m.eol \o (C \o y))
  <2>1. q \in Request /\ q.status = HTTP_ERROR
    BY <1>4, LineSent
  <2>2. \A y \in Bytes : AtRequestLine(s(y)) = St(q, z(y)) /\ z(y) \in Bytes
    BY LineSent, WireParts
  <2> HIDE DEF s, q, z
  <2>3. \A y \in Bytes : St(q, z(y)).req = q
    BY <2>1, <2>2, StateLemma
  <2>4. ASSUME NEW y \in Bytes
        PROVE  Before(s(y)) = St(q, z(y)) /\ HttpParser(s(y)) = St(q, z(y))
    <3> DEFINE u == St(q, z(y))
    <3>1. AtRequestLine(s(y)) = u /\ u.req = q
      BY <2>2, <2>3
    <3> HIDE DEF u
    <3>2. Before(s(y)) = u
      BY <2>1, <3>1, StatusNumbers DEF Before, AtHeaders
    <3>3. HttpParser(s(y)) = u
      BY <1>2, <2>1, <3>1, <3>2, StatusNumbers DEF AtBody
    <3> QED
      BY <3>2, <3>3 DEF u
  <2>5. \A y \in Bytes : ChunksOK(s(y)) /\ HttpParser(s(y)).req.status = HTTP_ERROR
    BY <2>1, <2>3, <2>4, StatusNumbers DEF ChunksOK
  <2>6. ~Sound(m)
    BY <1>4 DEF Sound
  <2> QED
    BY <1>1, <2>5, <2>6 DEF s
<1> QED
  BY <1>3, <1>4

-----------------------------------------------------------------------------
(* Requests as they arrive.                                                *)

\* A session that has read the first bytes u of what is sent, m and then y,
\* of which w is still to come: if the request is done, what is left in the
\* buffer are the first bytes of y, and if it is refused, it deserved it.
THEOREM RequestArrives ==
  ASSUME NEW m \in Requests, NEW y \in Bytes, NEW u \in Bytes, NEW w \in Bytes,
         u \o w = Wire(m) \o y
  PROVE  LET r == HttpParser(St(NewRequest, u))
         IN  /\ ChunksOK(St(NewRequest, u)) /\ r \in State
             /\ r.req.status = REQ_DONE =>
                  /\ Sound(m) /\ r.req.path = Path(m) /\ r.req.inbuf = Body(m)
                  /\ r.req.method = Lines[m.line].method /\ r.in \o w = y
             /\ r.req.status = HTTP_ERROR => ~Sound(m)
<1> DEFINE W == Wire(m)
           s == St(NewRequest, u)
           r == HttpParser(s)
           k == Len(W)
<1>1. /\ W \in Bytes /\ Len(W) > 0
      /\ \A z \in Bytes : ChunksOK(St(NewRequest, W \o z))
      /\ ~Sound(m) => \A z \in Bytes :
           HttpParser(St(NewRequest, W \o z)).req.status = HTTP_ERROR
  BY RequestSent
<1>2. ASSUME Sound(m)
      PROVE  \E t \in Request :
               /\ t.status = REQ_DONE /\ t.path = Path(m) /\ t.inbuf = Body(m)
               /\ t.method = Lines[m.line].method
               /\ \A z \in Bytes : HttpParser(St(NewRequest, W \o z)) = St(t, z)
  BY <1>2, RequestSent
<1>3. /\ NewRequest \in Request /\ GoodRequest(NewRequest)
      /\ s \in State /\ s.req = NewRequest /\ s.in = u
  BY NewRequestFields, StateLemma
<1> HIDE DEF W
<1>4. u \o w = W \o y /\ Len(W) \in Nat /\ Len(u) \in Nat /\ <<>> \in Bytes
  BY <1>1, BytesJoin DEF W
<1>5. ChunksOK(s)
  <2>1. Grown(s, w) = St(NewRequest, W \o y)
    <3> HIDE DEF s
    <3> QED
      BY <1>3, <1>4 DEF Grown
  <2>2. ChunksOK(Grown(s, w))
    BY <1>1, <2>1
  <2> HIDE DEF s
  <2> QED
    BY <1>3, <2>2, ChunksOKPrefix
<1>6. r \in State
  <2> HIDE DEF s
  <2> QED
    BY <1>3, <1>4, <1>5, ParserInPieces
<1>7. CASE Len(u) >= Len(W)
  <2> DEFINE v == Skip(u, k)
  <2>1. u = W \o v /\ v \in Bytes /\ v \o w = y
    <3>0. k \in 0..Len(u) /\ k \in 0..Len(W)
      BY <1>4, <1>7
    <3>1. SubSeq(u, 1, k) \o v = u /\ v \in Bytes
      <4> HIDE DEF k
      <4>1. u \in Seq(Symbols)
        BY DEF Bytes
      <4> QED
        BY <3>0, <4>1, CutLemma DEF Bytes
    <3>2. SubSeq(u \o w, 1, k) = SubSeq(u, 1, k) /\ Skip(u \o w, k) = v \o w
      <4>1. \A n \in 0..Len(u) : /\ SubSeq(u \o w, 1, n) = SubSeq(u, 1, n)
                                 /\ Skip(u \o w, n) = Skip(u, n) \o w
        <5>1. u \in Seq(Symbols) /\ w \in Seq(Symbols)
          BY DEF Bytes
        <5> QED
          BY ONLY <5>1, CutJoinLemma
      <4> HIDE DEF k
      <4> QED
        BY <3>0, <4>1
    <3>3. SubSeq(W \o y, 1, k) = SubSeq(W, 1, k) /\ Skip(W \o y, k) = y
      BY <1>1, <3>0, CutJoinLemma DEF Bytes
    <3>4. SubSeq(W, 1, k) = W
      BY <1>1, <3>0, CutLemma DEF Bytes
    <3> HIDE DEF v, k
    <3> QED
      BY <1>4, <3>1, <3>2, <3>3, <3>4
  <2> HIDE DEF v, r
  <2>2. ASSUME Sound(m)
        PROVE  \E t \in Request :
                 /\ t.status = REQ_DONE /\ t.path = Path(m) /\ t.inbuf = Body(m)
                 /\ t.method = Lines[m.line].method /\ r = St(t, v)
    BY <1>2, <2>1, <2>2 DEF r
  <2>3. ASSUME Sound(m)
        PROVE  /\ r.req.status = REQ_DONE /\ r.req.path = Path(m)
               /\ r.req.inbuf = Body(m) /\ r.in = v
               /\ r.req.method = Lines[m.line].method
    BY <2>1, <2>2, <2>3, StateLemma
  <2>4. ~Sound(m) => r.req.status = HTTP_ERROR
    BY <1>1, <2>1 DEF r
  <2>5. /\ r.req.status = REQ_DONE =>
             /\ Sound(m) /\ r.req.path = Path(m) /\ r.req.inbuf = Body(m)
             /\ r.req.method = Lines[m.line].method /\ r.in \o w = y
        /\ r.req.status = HTTP_ERROR => ~Sound(m)
    <3>1. REQ_DONE # HTTP_ERROR
      BY StatusNumbers
    <3> QED
      BY <2>1, <2>3, <2>4, <3>1, Zenon
  <2> QED
    BY <1>5, <1>6, <2>5 DEF r
<1>8. CASE Len(u) < Len(W)
  <2> DEFINE j == Len(u)
             x == Skip(W, j)
  <2>0. j \in 0..Len(W) /\ j \in 0..Len(u)
    BY <1>4, <1>8
  <2>1. W = u \o x /\ x \in Bytes /\ Len(x) = Len(W) - j
    <3>1. SubSeq(W, 1, j) \o x = W /\ x \in Bytes /\ Len(x) = Len(W) - j
      <4> HIDE DEF j
      <4>1. W \in Seq(Symbols)
        BY <1>1 DEF Bytes
      <4> QED
        BY <2>0, <4>1, CutLemma DEF Bytes
    <3>2. SubSeq(u \o w, 1, j) = SubSeq(u, 1, j)
      BY <2>0, CutJoinLemma DEF Bytes
    <3>3. SubSeq(W \o y, 1, j) = SubSeq(W, 1, j)
      <4> HIDE DEF j
      <4> QED
        BY <1>1, <2>0, CutJoinLemma DEF Bytes
    <3>4. SubSeq(u, 1, j) = u
      BY <2>0, CutLemma DEF Bytes
    <3> HIDE DEF x, j
    <3> QED
      BY <1>4, <3>1, <3>2, <3>3, <3>4
  <2>2. x \in Bytes /\ Len(x) > 0
    BY <1>4, <1>8, <2>1
  <2> HIDE DEF x
  <2>3. Grown(s, x) = St(NewRequest, W \o <<>>)
    <3>1. W \o <<>> = u \o x
      BY <1>1, <2>1, BytesJoin
    <3> HIDE DEF s
    <3> QED
      BY <1>3, <3>1 DEF Grown
  <2>4. r.req.status \in {REQ_DONE, HTTP_ERROR} => HttpParser(Grown(s, x)) = Grown(r, x)
    <3> HIDE DEF s
    <3> QED
      BY <1>3, <1>5, <2>2, ParserInPieces
  <2> HIDE DEF s, r
  <2>5. Grown(r, x).req = r.req /\ Grown(r, x).in = r.in \o x /\ r.in \in Bytes
    BY <1>6, <2>2, GrownLemma, StateLemma
  <2>6. ASSUME Sound(m) PROVE r.req.status \notin {REQ_DONE, HTTP_ERROR}
    <3>1. PICK t \in Request : HttpParser(St(NewRequest, W \o <<>>)) = St(t, <<>>)
      BY <1>2, <1>4, <2>6
    <3>2. St(t, <<>>).in = <<>>
      BY <1>4, StateLemma
    <3>3. Len(r.in \o x) = Len(r.in) + Len(x) /\ Len(r.in) \in Nat /\ Len(x) \in Nat
      <4> DEFINE b == r.in
      <4>1. b \in Bytes
        BY <2>5
      <4> HIDE DEF b
      <4>2. Len(b \o x) = Len(b) + Len(x) /\ Len(b) \in Nat /\ Len(x) \in Nat
        BY <2>2, <4>1, BytesJoin
      <4> QED
        BY <4>2 DEF b
    <3>4. r.in \o x # <<>>
      BY <2>2, <3>3
    <3> QED
      BY <2>3, <2>4, <2>5, <3>1, <3>2, <3>4
  <2>7. ASSUME ~Sound(m) PROVE r.req.status # REQ_DONE
    <3> DEFINE g == HttpParser(Grown(s, x))
    <3>1. g.req.status = HTTP_ERROR
      BY <1>1, <1>4, <2>3, <2>7
    <3> HIDE DEF g
    <3>2. r.req.status = REQ_DONE => g.req = r.req
      BY <2>4, <2>5 DEF g
    <3> QED
      BY <3>1, <3>2, StatusNumbers
  <2> QED
    BY <1>5, <1>6, <2>6, <2>7 DEF r, s
<1> QED
  BY <1>4, <1>7, <1>8

\* The next piece is read as if it had come with the ones before it.
LEMMA NextPiece ==
  ASSUME NEW u \in Bytes, ChunksOK(St(NewRequest, u)), NEW q, NEW b,
         St(q, b) = HttpParser(St(NewRequest, u)), NEW x \in Bytes
  PROVE  /\ q \in Request /\ b \in Bytes
         /\ HttpParser(St(q, b \o x)) = HttpParser(St(NewRequest, u \o x))
<1> DEFINE s == St(NewRequest, u)
           r == HttpParser(s)
<1>1. s \in State /\ s.req = NewRequest /\ s.in = u /\ GoodRequest(NewRequest)
  BY NewRequestFields, StateLemma
<1>2. r.req = q /\ r.in = b /\ r = St(q, b)
  BY DEF St
<1> HIDE DEF s
<1>3. r \in State /\ HttpParser(Grown(r, x)) = HttpParser(Grown(s, x))
  BY <1>1, ParserInPieces DEF s
<1> HIDE DEF r
<1>4. r.req \in Request /\ r.in \in Bytes
  BY <1>3, StateLemma
<1> QED
  BY <1>1, <1>2, <1>3, <1>4 DEF Grown

\* An empty buffer leaves a new request as it is.
LEMMA NothingRead == HttpParser(St(NewRequest, <<>>)) = St(NewRequest, <<>>)
<1> DEFINE s == St(NewRequest, <<>>)
<1>1. s.req.status = REQ_INIT /\ s.in = <<>>
  BY NewRequestFields, BytesJoin, StateLemma
<1> HIDE DEF s
<1>2. ~HasLine(s.in)
  <2>1. DOMAIN s.in = {}
    BY <1>1
  <2> QED
    BY <2>1 DEF HasLine, LineFeeds
<1>3. AtRequestLine(s) = s
  BY <1>2 DEF AtRequestLine
<1>4. AtHeaders(s) = s /\ AtBody(s) = s
  BY <1>1, StatusNumbers DEF AtHeaders, AtBody
<1> QED
  BY <1>3, <1>4 DEF HttpParser, s

\* The answer of ad_http_handler tells refused, unfinished and other requests
\* apart.
LEMMA AnswerLemma ==
  ASSUME NEW q \in Request
  PROVE  /\ Answer(q) \in {AD_OK, AD_TAKEOVER, AD_CLOSE}
         /\ Answer(q) = AD_CLOSE <=> q.status = HTTP_ERROR
         /\ Answer(q) = AD_TAKEOVER <=> q.status \in {REQUESTLINE_DONE, HEADER_DONE}
<1> DEFINE st == q.status
<1>1. st \in {0, 1, 2, 3, 4}
  BY StatusNumbers DEF Request
<1>2. Answer(q) = CASE st = 0 -> 0
                    [] st \in {1, 2} -> 1
                    [] st = 3 -> 0
                    [] st = 4 -> 3
  BY StatusNumbers DEF Answer, AD_OK, AD_TAKEOVER, AD_CLOSE
<1> HIDE DEF st
<1>3. /\ st = 0 => Answer(q) = 0
      /\ st = 1 => Answer(q) = 1
      /\ st = 2 => Answer(q) = 1
      /\ st = 3 => Answer(q) = 0
      /\ st = 4 => Answer(q) = 3
  BY <1>2
<1>4. AD_OK = 0 /\ AD_TAKEOVER = 1 /\ AD_CLOSE = 3
  BY DEF AD_OK, AD_TAKEOVER, AD_CLOSE
<1> QED
  BY <1>1, <1>3, <1>4, StatusNumbers DEF st
=============================================================================
