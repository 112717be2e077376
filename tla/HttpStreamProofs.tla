--------------------------- MODULE HttpStreamProofs ---------------------------
(***************************************************************************)
(* Proofs about HttpStream for every dialogue of every client: any number  *)
(* of requests, sound or not, with any headers and contents, cut by TCP    *)
(* anywhere.                                                               *)
(*                                                                         *)
(* Pending(f) says what is between the client and the hook behind the      *)
(* parser: the bytes that the session has seen and those on their way are  *)
(* exactly the requests that are sent and not yet taken, and f[i] are      *)
(* those of the i-th and of the ones after it.  With it and with           *)
(* SplitInsensitive a step of the parser is one of HttpRequestProofs!      *)
(* RequestArrives.                                                         *)
(***************************************************************************)
EXTENDS HttpStream, HttpRequestProofs

Pending(f) ==
  /\ f \in [(Len(taken) + 1)..(sent + 1) -> Bytes]
  /\ f[sent + 1] = <<>>
  /\ \A i \in (Len(taken) + 1)..sent : f[i] = Wire(dialogue[i]) \o f[i + 1]
  /\ seen \o wire = f[Len(taken) + 1]

Inv ==
  /\ TypeOK /\ Len(taken) <= sent
  /\ \E f : Pending(f)
  /\ SplitInsensitive /\ TakesWhatWasSent /\ RefusesOnlyBad

-----------------------------------------------------------------------------
(* What each part of the state is.                                         *)

\* What the parts of the state are sequences and numbers of.
LEMMA StreamTypes ==
  ASSUME TypeOK
  PROVE  /\ Len(dialogue) \in Nat
         /\ \A i \in 1..Len(dialogue) : /\ dialogue[i] \in Requests
                                        /\ Wire(dialogue[i]) \in Bytes
         /\ sent \in Nat /\ sent <= Len(dialogue) /\ Len(taken) \in Nat
         /\ wire \in Bytes /\ in \in Bytes /\ seen \in Bytes
<1>1. dialogue \in Seq(Requests)
  BY DialogueAssumption DEF TypeOK
<1>2. \A i \in 1..Len(dialogue) : dialogue[i] \in Requests
  BY <1>1
<1>3. \A m \in Requests : Wire(m) \in Bytes
  BY RequestSent
<1>4. sent \in 0..Len(dialogue) /\ wire \in Bytes /\ in \in Bytes /\ seen \in Bytes
  BY DEF TypeOK
<1>5. Len(dialogue) \in Nat /\ Len(taken) \in Nat
  BY <1>1 DEF TypeOK
<1> QED
  BY <1>2, <1>3, <1>4, <1>5

\* The invariant holds before anything is sent.
LEMMA InvInit == Init => Inv
<1> SUFFICES ASSUME Init PROVE Inv
  OBVIOUS
<1>1. /\ dialogue \in Dialogues /\ habit \in Habits
      /\ sent = 0 /\ wire = <<>> /\ in = <<>> /\ seen = <<>>
      /\ req = NewRequest /\ answer = NoAnswer /\ taken = <<>>
  BY DEF Init
<1>2. <<>> \in Bytes /\ <<>> \o <<>> = <<>> /\ NewRequest \in Request
  BY BytesJoin, NewRequestFields
<1>3. Len(dialogue) \in Nat
  BY <1>1, DialogueAssumption
<1>4. TypeOK
  <2>1. taken \in Seq([path : Paths, content : Bytes]) /\ sent \in 0..Len(dialogue)
    BY <1>1, <1>3
  <2> HIDE DEF Paths, Bytes, Request, NewRequest
  <2> QED
    BY <1>1, <1>2, <2>1 DEF TypeOK
<1>5. Pending([i \in {1} |-> <<>>])
  <2>1. Len(taken) = 0 /\ sent = 0 /\ 1..0 = {} /\ 1..1 = {1} /\ 0 + 1 = 1
    BY <1>1
  <2> HIDE DEF Bytes
  <2> QED
    BY <1>1, <1>2, <2>1 DEF Pending
<1>6. /\ SplitInsensitive /\ Len(taken) <= sent /\ DOMAIN taken = {}
      /\ answer # AD_CLOSE
  BY <1>1 DEF SplitInsensitive, NoAnswer, AD_CLOSE
<1> QED
  BY <1>4, <1>5, <1>6 DEF Inv, TakesWhatWasSent, RefusesOnlyBad

\* The client sends its next request.
LEMMA ClientPending ==
  ASSUME Inv, Client, NEW f, Pending(f)
  PROVE  \E g : Pending(g)'
<1> DEFINE W == Wire(dialogue[sent + 1])
           t == Len(taken)
           g == [i \in (t + 1)..(sent + 2) |-> IF i = sent + 2 THEN <<>> ELSE f[i] \o W]
<1>1. /\ sent < Len(dialogue) /\ sent' = sent + 1 /\ wire' = wire \o W
      /\ UNCHANGED <<dialogue, seen, taken>>
  BY DEF Client
<1>2. /\ t \in Nat /\ sent \in Nat /\ t <= sent /\ seen \in Bytes /\ wire \in Bytes
      /\ Len(dialogue) \in Nat
      /\ \A i \in 1..Len(dialogue) : Wire(dialogue[i]) \in Bytes
  BY StreamTypes DEF Inv
<1>3. /\ f \in [(t + 1)..(sent + 1) -> Bytes] /\ f[sent + 1] = <<>>
      /\ \A i \in (t + 1)..sent : f[i] = Wire(dialogue[i]) \o f[i + 1]
      /\ seen \o wire = f[t + 1]
  BY DEF Pending
<1>4. W \in Bytes /\ <<>> \in Bytes
  BY <1>1, <1>2, BytesJoin
<1> HIDE DEF W, t
<1>5. ASSUME NEW i \in (t + 1)..(sent + 1)
      PROVE  f[i] \in Bytes /\ f[i] \o W \in Bytes /\ g[i] = f[i] \o W
  <2>1. f[i] \in Bytes /\ i # sent + 2 /\ i \in (t + 1)..(sent + 2)
    BY <1>2, <1>3
  <2> QED
    BY <1>4, <2>1, BytesJoin
<1>6. g \in [(t + 1)..(sent + 2) -> Bytes] /\ g[sent + 2] = <<>>
  <2>1. \A i \in (t + 1)..(sent + 2) : i = sent + 2 \/ i \in (t + 1)..(sent + 1)
    BY <1>2
  <2>2. sent + 2 \in (t + 1)..(sent + 2)
    BY <1>2
  <2> QED
    BY <1>4, <1>5, <2>1, <2>2
<1>7. ASSUME NEW i \in (t + 1)..(sent + 1)
      PROVE  g[i] = Wire(dialogue[i]) \o g[i + 1]
  <2> HIDE DEF g
  <2>1. CASE i = sent + 1
    <3>0. i + 1 = sent + 2 /\ i \in (t + 1)..(sent + 1) /\ Wire(dialogue[i]) = W
      BY <1>2, <2>1 DEF W
    <3>1. g[i] = <<>> \o W /\ g[i + 1] = <<>> /\ Wire(dialogue[i]) = W
      BY <1>3, <1>5, <1>6, <2>1, <3>0
    <3>2. <<>> \o W = W /\ W \o <<>> = W
      BY <1>4, BytesJoin
    <3> QED
      BY <3>1, <3>2
  <2>2. CASE i # sent + 1
    <3> DEFINE V == Wire(dialogue[i])
               b == f[i + 1]
    <3>1. i \in (t + 1)..sent /\ i + 1 \in (t + 1)..(sent + 1) /\ i \in 1..Len(dialogue)
      BY <1>1, <1>2, <2>2
    <3>2. /\ V \in Bytes /\ b \in Bytes /\ f[i] = V \o b
          /\ g[i] = f[i] \o W /\ g[i + 1] = b \o W
      BY <1>2, <1>3, <1>5, <3>1
    <3> HIDE DEF V, b
    <3>3. (V \o b) \o W = V \o (b \o W)
      <4>1. V \in Bytes /\ b \in Bytes /\ W \in Bytes
        BY <1>4, <3>2
      <4> QED
        BY ONLY <4>1, BytesAssoc, Zenon
    <3> QED
      BY <3>2, <3>3 DEF V
  <2> QED
    BY <2>1, <2>2
<1>8. seen \o (wire \o W) = g[t + 1]
  <2>1. t + 1 \in (t + 1)..(sent + 1)
    BY <1>2
  <2>2. (seen \o wire) \o W = seen \o (wire \o W)
    <3>1. seen \in Bytes /\ wire \in Bytes /\ W \in Bytes
      BY <1>2, <1>4
    <3> QED
      BY ONLY <3>1, BytesAssoc, Zenon
  <2> QED
    BY <1>3, <1>5, <2>1, <2>2
<1> HIDE DEF g
<1>9. /\ g \in [(t + 1)..((sent + 1) + 1) -> Bytes] /\ g[(sent + 1) + 1] = <<>>
      /\ (sent + 1) + 1 = sent + 2
  BY <1>2, <1>6
<1>10. PICK h : h = g
  OBVIOUS
<1>11. Pending(h)'
  <2>1. /\ Len(taken') = t /\ sent' = sent + 1 /\ wire' = wire \o W /\ seen' = seen
        /\ dialogue' = dialogue
    BY <1>1 DEF t
  <2>2. /\ h \in [(t + 1)..((sent + 1) + 1) -> Bytes] /\ h[(sent + 1) + 1] = <<>>
        /\ \A i \in (t + 1)..(sent + 1) : h[i] = Wire(dialogue[i]) \o h[i + 1]
        /\ seen \o (wire \o W) = h[t + 1]
    BY <1>7, <1>8, <1>9, <1>10
  <2> QED
    BY <2>1, <2>2 DEF Pending
<1> QED
  BY <1>11

\* The invariant is kept when the client sends its next request.
LEMMA ClientStep == Inv /\ Client => Inv'
<1> SUFFICES ASSUME Inv, Client PROVE Inv'
  OBVIOUS
<1>1. /\ sent < Len(dialogue) /\ sent' = sent + 1
      /\ wire' = wire \o Wire(dialogue[sent + 1])
      /\ UNCHANGED <<dialogue, habit, in, req, seen, answer, taken>>
  BY DEF Client
<1>2. /\ Len(dialogue) \in Nat /\ sent \in Nat /\ Len(taken) \in Nat /\ wire \in Bytes
      /\ \A i \in 1..Len(dialogue) : Wire(dialogue[i]) \in Bytes
  BY StreamTypes DEF Inv
<1>3. \E g : Pending(g)'
  <2>1. PICK f : Pending(f)
    BY DEF Inv
  <2> QED
    BY <2>1, ClientPending
<1>4. sent' \in 0..Len(dialogue) /\ wire' \in Bytes
  <2> DEFINE W == Wire(dialogue[sent + 1])
  <2>1. W \in Bytes
    BY <1>1, <1>2
  <2> HIDE DEF W
  <2>2. wire \o W \in Bytes
    BY <1>2, <2>1, BytesJoin
  <2> QED
    BY <1>1, <1>2, <2>2 DEF W
<1>5. TypeOK'
  BY <1>1, <1>4 DEF Inv, TypeOK
<1>6. SplitInsensitive'
  BY <1>1 DEF Inv, SplitInsensitive
<1>7. TakesWhatWasSent' /\ RefusesOnlyBad' /\ Len(taken') <= sent'
  BY <1>1, <1>2 DEF Inv, TakesWhatWasSent, RefusesOnlyBad
<1> QED
  BY <1>3, <1>5, <1>6, <1>7 DEF Inv

\* What a piece does: the parser is where the bytes of the session lead it in
\* one go, and they are the first bytes of the request that is not yet taken.
LEMMA PieceLemma ==
  ASSUME Inv, NEW n \in 1..Len(wire), NEW f, Pending(f)
  PROVE  LET t     == Len(taken)
             got   == SubSeq(wire, 1, n)
             w     == Skip(wire, n)
             m     == dialogue[t + 1]
             after == HttpParser(St(req, in \o got))
         IN  /\ t + 1 \in 1..sent /\ m \in Requests
             /\ w \in Bytes /\ seen \o got \in Bytes
             /\ (seen \o got) \o w = f[t + 1] /\ f[t + 2] \in Bytes
             /\ after = HttpParser(St(NewRequest, seen \o got)) /\ after \in State
             /\ after.req.status = REQ_DONE =>
                  /\ Sound(m) /\ after.req.path = Path(m) /\ after.req.inbuf = Body(m)
                  /\ after.in \o w = f[t + 2]
             /\ after.req.status = HTTP_ERROR => ~Sound(m)
<1> DEFINE t     == Len(taken)
           got   == SubSeq(wire, 1, n)
           w     == Skip(wire, n)
           m     == dialogue[t + 1]
           y     == f[t + 2]
           u     == seen \o got
           after == HttpParser(St(req, in \o got))
<1>1. /\ t \in Nat /\ sent \in Nat /\ t <= sent /\ sent <= Len(dialogue)
      /\ seen \in Bytes /\ wire \in Bytes /\ in \in Bytes /\ Len(dialogue) \in Nat
      /\ Len(wire) \in Nat /\ Len(seen) \in Nat
  BY StreamTypes, BytesJoin DEF Inv
<1>2. /\ f \in [(t + 1)..(sent + 1) -> Bytes] /\ f[sent + 1] = <<>>
      /\ \A i \in (t + 1)..sent : f[i] = Wire(dialogue[i]) \o f[i + 1]
      /\ seen \o wire = f[t + 1]
  BY DEF Pending
<1>3. got \in Bytes /\ w \in Bytes /\ got \o w = wire
  <2>1. n \in 0..Len(wire)
    BY <1>1
  <2> QED
    BY <1>1, <2>1, CutLemma DEF Bytes
<1>4. \A i \in 1..Len(dialogue) : dialogue[i] \in Requests
  BY StreamTypes DEF Inv
<1> HIDE DEF t, got, w
<1>5. t + 1 \in 1..sent
  <2> SUFFICES ASSUME t = sent PROVE FALSE
    BY <1>1
  <2>1. seen \o wire = <<>>
    BY <1>2
  <2>2. Len(seen \o wire) = Len(seen) + Len(wire)
    BY <1>1, BytesJoin
  <2> QED
    BY <1>1, <2>1, <2>2
<1>6. m \in Requests
  BY <1>1, <1>4, <1>5
<1>7. y \in Bytes /\ f[t + 1] = Wire(m) \o y
  <2>1. t + 1 \in (t + 1)..sent /\ t + 2 \in (t + 1)..(sent + 1) /\ (t + 1) + 1 = t + 2
    BY <1>1, <1>5
  <2>2. f[t + 1] = Wire(dialogue[t + 1]) \o f[(t + 1) + 1]
    BY <1>2, <2>1
  <2> QED
    BY <1>2, <2>1, <2>2
<1>8. u \in Bytes /\ u \o w = seen \o wire
  <2>1. (seen \o got) \o w = seen \o (got \o w)
    <3>1. seen \in Bytes /\ got \in Bytes /\ w \in Bytes
      BY <1>1, <1>3
    <3> QED
      BY ONLY <3>1, BytesAssoc, Zenon
  <2>2. u \in Bytes
    BY <1>1, <1>3, BytesJoin
  <2> QED
    BY <1>3, <2>1, <2>2
<1> HIDE DEF m, y
<1>9. ChunksOK(St(NewRequest, seen))
  <2>1. seen \o wire = Wire(m) \o y
    BY <1>2, <1>7
  <2>2. m \in Requests /\ y \in Bytes /\ seen \in Bytes /\ wire \in Bytes
    BY <1>1, <1>6, <1>7
  <2> QED
    BY ONLY <2>1, <2>2, RequestArrives, ZenonT(30)
<1>10. after = HttpParser(St(NewRequest, u))
  <2>1. CASE seen = in /\ req = NewRequest
    BY <2>1
  <2>2. CASE St(req, in) = HttpParser(St(NewRequest, seen))
    BY <1>1, <1>3, <1>9, <2>2, NextPiece
  <2> QED
    BY <2>1, <2>2 DEF Inv, SplitInsensitive
<1>11. /\ after \in State
       /\ after.req.status = REQ_DONE =>
            /\ Sound(m) /\ after.req.path = Path(m) /\ after.req.inbuf = Body(m)
            /\ after.in \o w = y
       /\ after.req.status = HTTP_ERROR => ~Sound(m)
  <2> HIDE DEF after, u
  <2>1. u \o w = Wire(m) \o y
    BY <1>2, <1>7, <1>8
  <2> DEFINE r == HttpParser(St(NewRequest, u))
  <2>2. /\ ChunksOK(St(NewRequest, u)) /\ r \in State
        /\ r.req.status = REQ_DONE =>
             /\ Sound(m) /\ r.req.path = Path(m) /\ r.req.inbuf = Body(m)
             /\ r.req.method = Lines[m.line].method /\ r.in \o w = y
        /\ r.req.status = HTTP_ERROR => ~Sound(m)
    <3>1. m \in Requests /\ y \in Bytes /\ u \in Bytes /\ w \in Bytes
      BY <1>3, <1>6, <1>7, <1>8
    <3> QED
      BY ONLY <2>1, <3>1, RequestArrives, ZenonT(30)
  <2> HIDE DEF r
  <2>3. after = r
    BY <1>10 DEF r
  <2> QED
    BY <2>2, <2>3
<1> HIDE DEF after
<1>12. (seen \o got) \o w = f[t + 1] /\ seen \o got \in Bytes
       /\ after = HttpParser(St(NewRequest, seen \o got))
  BY <1>2, <1>8, <1>10
<1> QED
  BY <1>3, <1>5, <1>6, <1>7, <1>11, <1>12 DEF t, got, w, m, y, after

\* The invariant is kept by a READ.
LEMMA ReadStep ==
  ASSUME Inv, NEW n \in 1..Len(wire), Read(n)
  PROVE  Inv'
<1> DEFINE t     == Len(taken)
           got   == SubSeq(wire, 1, n)
           w     == Skip(wire, n)
           u     == seen \o got
           m     == dialogue[t + 1]
           after == HttpParser(St(req, in \o got))
           q     == after.req
           took  == [path |-> Path(m), content |-> Body(m)]
<1>1. PICK f : Pending(f)
  BY DEF Inv
<1>2. /\ t + 1 \in 1..sent /\ m \in Requests
      /\ w \in Bytes /\ u \in Bytes /\ u \o w = f[t + 1] /\ f[t + 2] \in Bytes
      /\ after = HttpParser(St(NewRequest, u)) /\ after \in State
      /\ q.status = REQ_DONE =>
           /\ Sound(m) /\ q.path = Path(m) /\ q.inbuf = Body(m)
           /\ after.in \o w = f[t + 2]
      /\ q.status = HTTP_ERROR => ~Sound(m)
  BY <1>1, PieceLemma
<1>3. q \in Request /\ after.in \in Bytes /\ after = St(q, after.in)
  <2> HIDE DEF after
  <2> QED
    BY <1>2, StateLemma
<1>4. /\ t \in Nat /\ sent \in Nat /\ t <= sent
      /\ f \in [(t + 1)..(sent + 1) -> Bytes] /\ f[sent + 1] = <<>>
      /\ \A i \in (t + 1)..sent : f[i] = Wire(dialogue[i]) \o f[i + 1]
  BY <1>1, StreamTypes DEF Pending, Inv
<1> DEFINE done == Answer(q) = AD_OK /\ q.status = REQ_DONE
<1>5. /\ answer # AD_CLOSE /\ wire' = w /\ in' = after.in
      /\ req' = IF done THEN NewRequest ELSE q
      /\ seen' = IF done THEN after.in ELSE u
      /\ taken' = IF done THEN Append(taken, Took(q)) ELSE taken
      /\ answer' = Answer(q)
      /\ UNCHANGED <<dialogue, habit, sent>>
  BY DEF Read
<1>6. /\ Answer(q) \in {AD_OK, AD_TAKEOVER, AD_CLOSE}
      /\ Answer(q) = AD_CLOSE => q.status = HTTP_ERROR
      /\ done <=> q.status = REQ_DONE
      /\ AD_OK # AD_CLOSE /\ REQ_DONE # HTTP_ERROR
  <2>1. q.status \in {0, 1, 2, 3, 4}
    BY <1>3, StatusNumbers DEF Request
  <2> HIDE DEF q
  <2>2. /\ Answer(q) \in {AD_OK, AD_TAKEOVER, AD_CLOSE}
        /\ Answer(q) = AD_CLOSE <=> q.status = HTTP_ERROR
        /\ Answer(q) = AD_TAKEOVER <=> q.status \in {REQUESTLINE_DONE, HEADER_DONE}
    BY <1>3, AnswerLemma
  <2> QED
    BY <2>1, <2>2, StatusNumbers DEF AD_OK, AD_CLOSE
<1>7. Took(q) = [path |-> q.path, content |-> q.inbuf]
  BY DEF Took
<1>8. Took(q) \in [path : Paths, content : Bytes]
  <2>1. q.path \in Paths /\ q.inbuf \in Bytes
    BY <1>3 DEF Request
  <2> HIDE DEF q
  <2> QED
    BY <1>7, <2>1
<1>9. taken \in Seq([path : Paths, content : Bytes])
  BY DEF Inv, TypeOK
<1> HIDE DEF q, after, w, u, t, done
<1>10. TypeOK'
  <2>1. taken' \in Seq([path : Paths, content : Bytes])
    <3> DEFINE R == [path : Paths, content : Bytes]
    <3> HIDE DEF R
    <3>1. taken \in Seq(R) /\ Took(q) \in R
      BY <1>8, <1>9 DEF R
    <3>2. Append(taken, Took(q)) \in Seq(R)
      BY <3>1
    <3> QED
      BY <1>5, <3>1, <3>2 DEF R
  <2>2. req' \in Request /\ wire' \in Bytes /\ in' \in Bytes /\ seen' \in Bytes
    BY <1>2, <1>3, <1>5, NewRequestFields
  <2>3. answer' \in {NoAnswer, AD_OK, AD_TAKEOVER, AD_CLOSE}
    BY <1>5, <1>6
  <2>4. dialogue' \in Dialogues /\ habit' \in Habits /\ sent' \in 0..Len(dialogue')
    BY <1>5 DEF Inv, TypeOK
  <2> QED
    BY <2>1, <2>2, <2>3, <2>4 DEF TypeOK
<1>11. SplitInsensitive'
  BY <1>2, <1>3, <1>5 DEF SplitInsensitive
<1>12. CASE done
  <2>1. Sound(m) /\ Took(q) = took /\ after.in \o w = f[t + 2]
    BY <1>2, <1>6, <1>7, <1>12
  <2> HIDE DEF took, m
  <2>2. /\ taken' = Append(taken, took) /\ Len(taken') = t + 1 /\ seen' = after.in
        /\ taken'[t + 1] = took /\ DOMAIN taken' = 1..(t + 1) /\ DOMAIN taken = 1..t
        /\ \A i \in 1..t : taken'[i] = taken[i]
    BY <1>5, <1>9, <1>12, <2>1 DEF t
  <2>3. Len(taken') <= sent'
    BY <1>2, <1>4, <1>5, <2>2
  <2>4. \E g : Pending(g)'
    <3>1. PICK g : g = [i \in (t + 2)..(sent + 1) |-> f[i]]
      OBVIOUS
    <3>2. Len(taken') + 1 = t + 2 /\ t + 2 <= sent + 1
      BY <1>2, <1>4, <2>2
    <3>3. \A i \in (t + 2)..(sent + 1) : i \in (t + 1)..(sent + 1) /\ g[i] = f[i]
      BY <1>4, <3>1
    <3>4. \A i \in (t + 2)..sent : /\ i \in (t + 1)..sent /\ i \in (t + 2)..(sent + 1)
                                   /\ i + 1 \in (t + 2)..(sent + 1)
      BY <1>4
    <3>5. t + 2 \in (t + 2)..(sent + 1) /\ sent + 1 \in (t + 2)..(sent + 1)
      BY <1>4, <3>2
    <3>6. /\ g \in [(t + 2)..(sent + 1) -> Bytes] /\ g[sent + 1] = <<>>
          /\ \A i \in (t + 2)..sent : g[i] = Wire(dialogue[i]) \o g[i + 1]
          /\ after.in \o w = g[t + 2]
      BY <1>4, <2>1, <3>1, <3>3, <3>4, <3>5
    <3>7. sent' = sent /\ dialogue' = dialogue /\ wire' = w /\ seen' = after.in
      BY <1>5, <2>2
    <3>8. Pending(g)'
      BY <3>2, <3>6, <3>7 DEF Pending
    <3> QED
      BY <3>8
  <2>5. TakesWhatWasSent'
    <3>1. \A i \in 1..t : taken[i] = [path |-> Path(dialogue[i]), content |-> Body(dialogue[i])]
      BY <2>2 DEF Inv, TakesWhatWasSent
    <3>2. taken'[t + 1] = [path |-> Path(dialogue[t + 1]), content |-> Body(dialogue[t + 1])]
      BY <2>2 DEF took, m
    <3>3. \A i \in 1..(t + 1) : i \in 1..t \/ i = t + 1
      BY <1>4
    <3>4. \A i \in 1..(t + 1) :
            taken'[i] = [path |-> Path(dialogue[i]), content |-> Body(dialogue[i])]
      BY <2>2, <3>1, <3>2, <3>3, Zenon
    <3> QED
      BY <1>5, <2>2, <2>3, <3>4 DEF TakesWhatWasSent
  <2>6. RefusesOnlyBad'
    <3>1. answer' # AD_CLOSE
      BY <1>5, <1>6, <1>12
    <3>2. \A i \in 1..t : Sound(dialogue[i])
      BY <2>2 DEF Inv, RefusesOnlyBad
    <3>3. \A i \in 1..(t + 1) : i \in 1..t \/ i = t + 1
      BY <1>4
    <3>4. \A i \in 1..(t + 1) : Sound(dialogue[i])
      BY <2>1, <3>2, <3>3 DEF m
    <3> QED
      BY <1>5, <2>2, <3>1, <3>4 DEF RefusesOnlyBad
  <2> QED
    BY <1>10, <1>11, <2>3, <2>4, <2>5, <2>6 DEF Inv
<1>13. CASE ~done
  <2>1. taken' = taken /\ seen' = u /\ UNCHANGED <<dialogue, sent>> /\ wire' = w
    BY <1>5, <1>13
  <2>2. Pending(f)'
    BY <1>1, <1>2, <2>1 DEF Pending, t
  <2>3. TakesWhatWasSent' /\ Len(taken') <= sent'
    BY <2>1 DEF Inv, TakesWhatWasSent
  <2>4. RefusesOnlyBad'
    <3>1. answer' = AD_CLOSE => ~Sound(m)
      BY <1>2, <1>5, <1>6
    <3>2. t < sent
      BY <1>2, <1>4
    <3> QED
      BY <2>1, <3>1, <3>2 DEF Inv, RefusesOnlyBad, m, t
  <2> QED
    BY <1>10, <1>11, <2>2, <2>3, <2>4 DEF Inv
<1> QED
  BY <1>12, <1>13

\* What the client has sent and the hook behind the parser has not taken is in
\* the session or on its way, and http_parser is where the bytes that the
\* session has seen lead it in one go.  This is inductive.
THEOREM StreamInvariant == Spec => []Inv
<1>1. Init => Inv
  BY InvInit
<1>2. Inv /\ [Next]_vars => Inv'
  <2> SUFFICES ASSUME Inv, [Next]_vars PROVE Inv'
    OBVIOUS
  <2>1. CASE Client
    BY <2>1, ClientStep
  <2>2. ASSUME NEW n \in 1..Len(wire), Read(n) PROVE Inv'
    BY <2>2, ReadStep
  <2>3. CASE UNCHANGED vars
    <3>1. PICK f : Pending(f)
      BY DEF Inv
    <3>2. Pending(f)'
      BY <2>3, <3>1 DEF vars, Pending
    <3>3. TypeOK' /\ SplitInsensitive' /\ TakesWhatWasSent' /\ RefusesOnlyBad'
          /\ Len(taken') <= sent'
      BY <2>3 DEF vars, Inv, TypeOK, SplitInsensitive, TakesWhatWasSent, RefusesOnlyBad
    <3> QED
      BY <3>2, <3>3 DEF Inv
  <2> QED
    BY <2>1, <2>2, <2>3 DEF Next
<1> QED
  BY <1>1, <1>2, PTL DEF Spec

-----------------------------------------------------------------------------
(* The properties.                                                         *)

\* http_parser and the parse_* functions keep their types.
THEOREM StreamTypeCorrect == Spec => []TypeOK
<1>1. Inv => TypeOK
  BY DEF Inv
<1> QED
  BY <1>1, StreamInvariant, PTL

\* Wherever TCP cuts what a client sends, the state of http_parser is the one
\* it reaches from the same bytes in one piece.
THEOREM AlwaysSplitInsensitive == Spec => []SplitInsensitive
<1>1. Inv => SplitInsensitive
  BY DEF Inv
<1> QED
  BY <1>1, StreamInvariant, PTL

\* The hook behind the parser takes exactly the contents that were sent, in
\* order, each once, under the path that was meant.
THEOREM AlwaysTakesWhatWasSent == Spec => []TakesWhatWasSent
<1>1. Inv => TakesWhatWasSent
  BY DEF Inv
<1> QED
  BY <1>1, StreamInvariant, PTL

\* AD_CLOSE is the answer to malformed requests only, and no malformed request
\* passes the parser.
THEOREM AlwaysRefusesOnlyBad == Spec => []RefusesOnlyBad
<1>1. Inv => RefusesOnlyBad
  BY DEF Inv
<1> QED
  BY <1>1, StreamInvariant, PTL

\* When all requests have arrived and been taken, conn->in is empty: the
\* parser has taken every byte of a request and none of the next.
THEOREM AlwaysNothingSwallowed == Spec => []NothingSwallowed
<1>1. Inv => NothingSwallowed
  <2> SUFFICES ASSUME Inv, wire = <<>>, Len(taken) = sent PROVE in = <<>>
    BY DEF NothingSwallowed
  <2>1. PICK f : Pending(f)
    BY DEF Inv
  <2>2. seen \o wire = <<>>
    BY <2>1 DEF Pending
  <2>3. seen = <<>>
    BY <2>2, StreamTypes, BytesJoin DEF Inv
  <2>4. CASE seen = in
    BY <2>3, <2>4
  <2>5. CASE St(req, in) = HttpParser(St(NewRequest, seen))
    <3>1. St(req, in) = St(NewRequest, <<>>)
      BY <2>3, <2>5, NothingRead
    <3> QED
      BY <3>1 DEF St
  <2> QED
    BY <2>4, <2>5 DEF Inv, SplitInsensitive
<1> QED
  BY <1>1, StreamInvariant, PTL
=============================================================================
