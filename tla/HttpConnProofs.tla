---------------------------- MODULE HttpConnProofs ----------------------------
(***************************************************************************)
(* Proofs about HttpConn for every client and every dialogue, however TCP  *)
(* cuts it and whatever ends the connection, and that the connection       *)
(* implements AdConn.                                                      *)
(*                                                                         *)
(* The invariant ties the connection to its client.  Pending says that the *)
(* bytes the session has seen and those on their way are exactly the       *)
(* requests that are sent and not answered; Reads, that the parser is      *)
(* where those bytes lead it in one go, so that a READ is one of           *)
(* HttpRequestProofs!RequestArrives; Serves, that a session is open.       *)
(* They need not survive AD_CLOSE, after which no hook is asked again.     *)
(***************************************************************************)
EXTENDS HttpConn, HttpRequestProofs

\* The values of the connection's fields, and the events conn_cb is told.
MethodNames == Methods \cup {NoMethod}
Verdicts    == {AD_OK, AD_TAKEOVER, AD_DONE, AD_CLOSE}
CbEvents    == {{"READ"}, {"WRITE"}, {"CLOSE"}, {"CLOSE", "TIMEOUT"}}
Openings    == {{"INIT"}, {"INIT", "WRITE"}}
Closings    == {{"CLOSE"}, {"CLOSE", "TIMEOUT"}}

ConnRecord ==
  [live : {"none", "open", "freed"}, status : Verdicts, in : Bytes, out : Nat,
   rd : BOOLEAN, wr : {"idle", "armed", "failed"}, method : MethodNames,
   req : Request \cup {NoReq}, expired : BOOLEAN,
   told : [Hooks -> {"none", "init", "close"}]]

\* f[i] are the bytes of the i-th request and of those after it that are sent;
\* the session has seen, and the wire holds, those that no hook has answered.
Pending(seen, f) ==
  /\ f \in [(Len(answers) + 1)..(sent + 1) -> Bytes]
  /\ f[sent + 1] = <<>>
  /\ \A i \in (Len(answers) + 1)..sent : f[i] = Wire(dialogue[i]) \o f[i + 1]
  /\ seen \in Bytes /\ seen \o wire = f[Len(answers) + 1]

\* The parser is where the bytes that the session has seen lead it.
Reads(k, seen) ==
  \/ seen = k.in /\ k.req \in {NoReq, NewRequest}
  \/ k.req \in Request /\ St(k.req, k.in) = HttpParser(St(NewRequest, seen))

\* An open connection: the hooks without a method are inside a session.
Serves(k) ==
  /\ k.live = "open" /\ k.req \in Request
  /\ k.told[1] = "init" /\ k.told[3] = "init"

\* What answers records of a request.
Answer1 == [method : MethodNames, content : Bytes]

\* The inductive invariant.
Inv ==
  /\ dialogue \in Dialogues /\ habit \in Habits /\ sent \in 0..Len(dialogue)
  /\ wire \in Bytes /\ conn \in ConnRecord /\ calls \in Seq(Conn!CallType)
  /\ answers \in Seq(Answer1) /\ got \in Nat /\ got + conn.out = Len(answers)
  /\ AnswersInOrder
  /\ conn.live = "none" => conn = NoConn
  /\ conn.live = "open" => Serves(conn) /\ conn.status # AD_DONE
  /\ conn.live = "freed" => /\ conn.told[1] = "close" /\ conn.told[3] = "close"
                            /\ conn.req = NoReq
  /\ conn.live # "freed" /\ conn.status # AD_CLOSE =>
       \E seen, f : Pending(seen, f) /\ Reads(conn, seen)

-----------------------------------------------------------------------------
(* What hooks and conn_cb do to a connection.                              *)

\* An ad_conn_t without userdata is none with a request in it.
LEMMA ReqLemma == NoReq \notin Request /\ NewRequest \in Request /\ NewRequest # NoReq
<1>1. \A r \in Request : r.status \in 0..4
  BY StatusNumbers DEF Request
<1>2. NewRequest \in Request
  BY NewRequestFields
<1> QED
  BY <1>1, <1>2 DEF NoReq

\* The two modules number the answers of hooks alike.
LEMMA VerdictLemma ==
  /\ AD_OK = 0 /\ AD_TAKEOVER = 1 /\ AD_DONE = 2 /\ AD_CLOSE = 3
  /\ Conn!AD_OK = 0 /\ Conn!AD_TAKEOVER = 1 /\ Conn!AD_DONE = 2 /\ Conn!AD_CLOSE = 3
BY DEF AD_OK, AD_TAKEOVER, AD_DONE, AD_CLOSE,
       Conn!AD_OK, Conn!AD_TAKEOVER, Conn!AD_DONE, Conn!AD_CLOSE

\* t is k after the hooks hs were told of the event ev.
IsTold(t, ev, hs, k) ==
  /\ t \in ConnRecord
  /\ t.live = k.live /\ t.status = k.status /\ t.in = k.in /\ t.out = k.out
  /\ t.rd = k.rd /\ t.method = k.method /\ t.req = k.req /\ t.expired = k.expired
  /\ t.wr = IF k.out > conn.out /\ k.wr # "failed" THEN "armed" ELSE k.wr
  /\ \A h \in Hooks :
       t.told[h] = IF h \in hs THEN Conn!Told(ev, k.told[h]) ELSE k.told[h]

\* Told changes what the hooks heard last, and arms the write event if there is
\* new output.
LEMMA ToldLemma ==
  ASSUME NEW k \in ConnRecord, NEW hs \in SUBSET Hooks, NEW ev
  PROVE  IsTold(Told(ev, hs, k), ev, hs, k)
<1> DEFINE t1 == [h \in Hooks |-> IF h \in hs THEN Conn!Told(ev, k.told[h]) ELSE k.told[h]]
           w1 == IF k.out > conn.out /\ k.wr # "failed" THEN "armed" ELSE k.wr
           t  == Told(ev, hs, k)
<1>1. k.told \in [Hooks -> {"none", "init", "close"}] /\ k.wr \in {"idle", "armed", "failed"}
  BY DEF ConnRecord
<1>2. t1 \in [Hooks -> {"none", "init", "close"}]
  BY <1>1 DEF Conn!Told
<1>3. w1 \in {"idle", "armed", "failed"}
  BY <1>1
<1>4. t = [k EXCEPT !.told = t1, !.wr = w1]
  BY DEF Told, ConnRecord
<1> HIDE DEF t1, w1, t
<1>5. /\ t \in ConnRecord /\ t = [k EXCEPT !.told = t1, !.wr = w1]
      /\ t.live = k.live /\ t.status = k.status /\ t.in = k.in /\ t.out = k.out
      /\ t.rd = k.rd /\ t.method = k.method /\ t.req = k.req
      /\ t.expired = k.expired /\ t.told = t1 /\ t.wr = w1
  BY <1>2, <1>3, <1>4 DEF ConnRecord
<1> QED
  BY <1>5 DEF t, t1, w1, IsTold

\* conn_reset forgets the status, the request and the method.
LEMMA ResetLemma ==
  ASSUME NEW k \in ConnRecord
  PROVE  LET t == Reset(k)
         IN  /\ t \in ConnRecord
             /\ t.live = k.live /\ t.status = AD_OK /\ t.in = k.in /\ t.out = k.out
             /\ t.rd = k.rd /\ t.wr = k.wr /\ t.method = NoMethod /\ t.req = NoReq
             /\ t.expired = k.expired /\ t.told = k.told
<1> DEFINE t == Reset(k)
<1>1. AD_OK \in Verdicts /\ NoMethod \in MethodNames /\ NoReq \in Request \cup {NoReq}
  BY DEF Verdicts, MethodNames
<1>2. t = [k EXCEPT !.status = AD_OK, !.req = NoReq, !.method = NoMethod]
  BY DEF Reset
<1> HIDE DEF t
<1>3. /\ t \in ConnRecord
      /\ t.live = k.live /\ t.status = AD_OK /\ t.in = k.in /\ t.out = k.out
      /\ t.rd = k.rd /\ t.wr = k.wr /\ t.method = NoMethod /\ t.req = NoReq
      /\ t.expired = k.expired /\ t.told = k.told
  BY <1>1, <1>2 DEF ConnRecord
<1> QED
  BY <1>3 DEF t

\* The last hook is reached by every event, the one on the method GET by those
\* of a connection with that method or none.
LEMMA BehindLemma ==
  ASSUME NEW k
  PROVE  /\ Behind(k) \subseteq {2, 3} /\ 3 \in Behind(k)
         /\ {1} \cup Behind(k) \in SUBSET Hooks
         /\ 2 \in Behind(k) <=> k.method \in {NoMethod, GetMethod}
  BY DEF Behind, Hooks

\* ad_http_handler attaches a new request on INIT, parses on READ and lets the
\* other events pass.
LEMMA HandlerLemma ==
  ASSUME NEW k \in ConnRecord
  PROVE  /\ \A ev \in Openings :
              /\ Handler(ev, k).k = [k EXCEPT !.req = NewRequest]
              /\ Handler(ev, k).status = AD_OK
              /\ [k EXCEPT !.req = NewRequest] \in ConnRecord
         /\ \A ev \in Closings \cup {{"WRITE"}} :
              Handler(ev, k).k = k /\ Handler(ev, k).status = AD_OK
         /\ Handler({"READ"}, k).status = Answer(HttpParser(St(k.req, k.in)).req)
         /\ LET s == HttpParser(St(k.req, k.in))
            IN  Handler({"READ"}, k).k =
                  [k EXCEPT !.req = s.req, !.in = s.in,
                            !.method = IF k.method = NoMethod THEN s.req.method ELSE k.method]
<1>1. [k EXCEPT !.req = NewRequest] \in ConnRecord
  BY ReqLemma DEF ConnRecord
<1>2. /\ \A ev \in Openings : "INIT" \in ev
      /\ \A ev \in Closings \cup {{"WRITE"}} : "INIT" \notin ev /\ ev # {"READ"}
      /\ "INIT" \notin {"READ"}
  BY DEF Openings, Closings
<1>3. ASSUME NEW ev \in Openings
      PROVE  Handler(ev, k) = Ans([k EXCEPT !.req = NewRequest], AD_OK)
  BY <1>2 DEF Handler
<1>4. ASSUME NEW ev \in Closings \cup {{"WRITE"}}
      PROVE  Handler(ev, k) = Ans(k, AD_OK)
  BY <1>2 DEF Handler
<1> DEFINE s == HttpParser(St(k.req, k.in))
           j == [k EXCEPT !.req = s.req, !.in = s.in,
                          !.method = IF k.method = NoMethod THEN s.req.method ELSE k.method]
<1>5. Handler({"READ"}, k) = Ans(j, Answer(s.req))
  <2> DEFINE i == [k EXCEPT !.req = s.req, !.in = s.in,
                            !.method = IF @ = NoMethod THEN s.req.method ELSE @]
  <2>1. Handler({"READ"}, k) = Ans(i, Answer(s.req))
    BY <1>2, Zenon DEF Handler
  <2>2. i = j
    BY DEF ConnRecord
  <2> QED
    BY <2>1, <2>2
<1> HIDE DEF j
<1>6. \A x, y : Ans(x, y).k = x /\ Ans(x, y).status = y
  BY DEF Ans
<1> QED
  BY <1>1, <1>3, <1>4, <1>5, <1>6 DEF j

\* An event whose answer is dropped.
LEMMA DroppedLemma ==
  ASSUME NEW k \in ConnRecord, NEW ev \in Openings \cup Closings
  PROVE  LET t == Dropped(ev, k)
         IN  /\ t \in ConnRecord
             /\ t.live = k.live /\ t.status = k.status /\ t.in = k.in /\ t.out = k.out
             /\ t.rd = k.rd /\ t.method = k.method /\ t.expired = k.expired
             /\ t.req = IF ev \in Openings THEN NewRequest ELSE k.req
             /\ t.wr = IF k.out > conn.out /\ k.wr # "failed" THEN "armed" ELSE k.wr
             /\ \A h \in Hooks : t.told[h] = IF h \in {1} \cup Behind(k)
                                             THEN Conn!Told(ev, k.told[h]) ELSE k.told[h]
<1> DEFINE a == Handler(ev, k).k
           hs == {1} \cup Behind(k)
<1>1. hs \in SUBSET Hooks
  BY BehindLemma
<1>2. ev \in Openings => ev \notin Closings
  BY DEF Openings, Closings
<1>3. /\ a \in ConnRecord
      /\ a.live = k.live /\ a.status = k.status /\ a.in = k.in /\ a.out = k.out
      /\ a.rd = k.rd /\ a.wr = k.wr /\ a.method = k.method /\ a.expired = k.expired
      /\ a.told = k.told
      /\ a.req = IF ev \in Openings THEN NewRequest ELSE k.req
  <2>1. CASE ev \in Openings
    <3>1. a = [k EXCEPT !.req = NewRequest] /\ a \in ConnRecord
      BY <2>1, HandlerLemma
    <3> HIDE DEF a
    <3> QED
      BY <2>1, <3>1 DEF ConnRecord
  <2>2. CASE ev \in Closings
    <3>1. a = k
      BY <2>2, HandlerLemma
    <3> QED
      BY <1>2, <2>2, <3>1
  <2> QED
    BY <2>1, <2>2
<1>4. Dropped(ev, k) = Told(ev, hs, a)
  BY DEF Dropped
<1> HIDE DEF a, hs
<1>5. IsTold(Told(ev, hs, a), ev, hs, a)
  <2>1. a \in ConnRecord /\ hs \in SUBSET Hooks
    BY <1>1, <1>3
  <2> QED
    BY ONLY <2>1, ToldLemma, Zenon
<1> QED
  BY <1>3, <1>4, <1>5 DEF hs, IsTold

\* The hooks without a method hear of every beginning and every end.
LEMMA PairedLemma ==
  ASSUME NEW k \in ConnRecord, NEW ev \in Openings \cup Closings
  PROVE  /\ ev \in Openings => Dropped(ev, k).told[1] = "init" /\ Dropped(ev, k).told[3] = "init"
         /\ ev \in Closings => Dropped(ev, k).told[1] = "close" /\ Dropped(ev, k).told[3] = "close"
<1>1. \A h \in Hooks : Dropped(ev, k).told[h] = IF h \in {1} \cup Behind(k)
                                                 THEN Conn!Told(ev, k.told[h]) ELSE k.told[h]
  BY DroppedLemma
<1>2. 1 \in Hooks /\ 3 \in Hooks /\ {1, 3} \subseteq {1} \cup Behind(k)
  BY BehindLemma DEF Hooks
<1>3. /\ ev \in Openings => \A was : Conn!Told(ev, was) = "init"
      /\ ev \in Closings => \A was : Conn!Told(ev, was) = "close"
  BY DEF Conn!Told, Openings, Closings
<1> QED
  BY <1>1, <1>2, <1>3

\* Dispatches are such as AdConn records.
LEMMA CallLemma ==
  ASSUME NEW k
  PROVE  /\ \A ev \in Openings \cup Closings : Call(ev, k) \in Conn!CallType
         /\ \A ev \in CbEvents, hs \in SUBSET Hooks : Conn!Call(ev, hs) \in Conn!CallType
<1>1. Hooks = Conn!Hooks
  BY DEF Hooks, Conn!Hooks
<1>2. Openings \cup Closings \cup CbEvents \subseteq Conn!Events
  BY DEF Openings, Closings, CbEvents, Conn!Events, Conn!EvNew, Conn!EvRenew, Conn!EvRead,
         Conn!EvWrite, Conn!EvClose, Conn!EvTimeout
<1>3. {1} \cup Behind(k) \in SUBSET Hooks
  BY BehindLemma
<1>4. \A ev \in Conn!Events, hs \in SUBSET Hooks : Conn!Call(ev, hs) \in Conn!CallType
  BY <1>1 DEF Conn!Call, Conn!CallType
<1> QED
  BY <1>2, <1>3, <1>4 DEF Call

\* What the end of conn_cb leaves: the session is renewed, the connection is
\* freed, or it is left as it is.
LeftBy(left, k, new) ==
  LET c == left.conn
  IN  /\ left.answers = answers \o new
      /\ left.calls \in Seq(Conn!CallType)
      /\ c \in ConnRecord /\ c.out = k.out
      /\ k.status = AD_DONE =>
           Serves(c) /\ c.status = AD_OK /\ c.req = NewRequest /\ c.in = k.in
      /\ k.status = AD_CLOSE /\ k.out = 0 =>
           c.live = "freed" /\ c.told[1] = "close" /\ c.told[3] = "close"
           /\ c.req = NoReq
      /\ k.status # AD_DONE /\ ~(k.status = AD_CLOSE /\ k.out = 0) => c = k

\* The end of conn_cb renews the session, frees the connection or keeps it.
LEMMA SettledLemma ==
  ASSUME NEW ev \in CbEvents, NEW k \in ConnRecord, Serves(k), NEW new \in Seq(Answer1),
         NEW b \in Seq(Conn!CallType), answers \in Seq(Answer1)
  PROVE  LeftBy(Settled(ev, k, b, new), k, new)
<1> DEFINE left == Settled(ev, k, b, new)
           c    == left.conn
           last == IF "CLOSE" \in ev THEN ev ELSE {"CLOSE"}
           shut == Dropped({"CLOSE"}, k)
           next == Reset(shut)
           off  == Reset(Dropped(last, k))
           end  == [off EXCEPT !.live = "freed", !.rd = FALSE, !.wr = "idle"]
           mk(x, d) == [conn |-> x, calls |-> b \o d, answers |-> answers \o new]
<1>1. last \in Closings /\ {"CLOSE"} \in Closings /\ {"INIT"} \in Openings
  BY DEF Closings, Openings, CbEvents
<1>2. AD_DONE # AD_CLOSE
  BY VerdictLemma
<1>3. CASE k.status = AD_DONE
  <2>1. left = mk(Dropped({"INIT"}, next), <<Call({"CLOSE"}, k), Call({"INIT"}, next)>>)
    BY <1>2, <1>3 DEF Settled
  <2>2. /\ shut \in ConnRecord /\ shut.live = k.live /\ shut.in = k.in /\ shut.out = k.out
    BY <1>1, DroppedLemma
  <2> HIDE DEF shut
  <2>3. /\ next \in ConnRecord /\ next.live = k.live /\ next.in = k.in /\ next.out = k.out
        /\ next.status = AD_OK
    BY <2>2, ResetLemma
  <2>4. Call({"CLOSE"}, k) \in Conn!CallType /\ Call({"INIT"}, next) \in Conn!CallType
    BY <1>1, CallLemma
  <2> HIDE DEF next
  <2> DEFINE t == Dropped({"INIT"}, next)
  <2>5. /\ t \in ConnRecord /\ t.live = k.live /\ t.in = k.in /\ t.out = k.out
        /\ t.status = AD_OK /\ t.req = NewRequest
    BY <1>1, <2>3, DroppedLemma
  <2>6. t.told[1] = "init" /\ t.told[3] = "init"
    BY <1>1, <2>3, PairedLemma
  <2> HIDE DEF t
  <2>7. b \o <<Call({"CLOSE"}, k), Call({"INIT"}, next)>> \in Seq(Conn!CallType)
    BY <2>4
  <2>8. /\ left.conn = t /\ left.answers = answers \o new
        /\ left.calls = b \o <<Call({"CLOSE"}, k), Call({"INIT"}, next)>>
    BY <2>1 DEF t
  <2> HIDE DEF left
  <2>9. Serves(t)
    BY <2>5, <2>6, ReqLemma DEF Serves
  <2> QED
    BY <1>2, <1>3, <2>5, <2>7, <2>8, <2>9 DEF left, LeftBy
<1>4. CASE k.status = AD_CLOSE /\ k.out = 0
  <2>1. left = mk(end, <<Call(last, k)>>)
    BY <1>2, <1>4 DEF Settled
  <2> DEFINE t == Dropped(last, k)
  <2>2. t \in ConnRecord /\ t.out = k.out
    BY <1>1, DroppedLemma
  <2>3. t.told[1] = "close" /\ t.told[3] = "close"
    BY <1>1, PairedLemma
  <2> HIDE DEF t
  <2>4. off \in ConnRecord /\ off.out = k.out /\ off.told = t.told /\ off.req = NoReq
    BY <2>2, ResetLemma DEF t
  <2> HIDE DEF off
  <2>5. /\ end \in ConnRecord /\ end.out = k.out /\ end.live = "freed" /\ end.told = t.told
        /\ end.req = NoReq
    BY <2>4 DEF ConnRecord
  <2> HIDE DEF end
  <2>6. Call(last, k) \in Conn!CallType
    BY <1>1, CallLemma
  <2>7. b \o <<Call(last, k)>> \in Seq(Conn!CallType)
    BY <2>6
  <2>8. left.conn = end /\ left.calls = b \o <<Call(last, k)>> /\ left.answers = answers \o new
    BY <2>1
  <2> HIDE DEF left
  <2> QED
    BY <1>2, <1>4, <2>3, <2>5, <2>7, <2>8 DEF left, LeftBy
<1>5. CASE k.status # AD_DONE /\ ~(k.status = AD_CLOSE /\ k.out = 0)
  <2>1. left = mk(k, <<>>)
    BY <1>5, Zenon DEF Settled
  <2>2. left.conn = k /\ left.calls = b \o <<>> /\ left.answers = answers \o new
    BY <2>1
  <2>3. b \o <<>> \in Seq(Conn!CallType)
    OBVIOUS
  <2> HIDE DEF left
  <2> QED
    BY <1>5, <2>2, <2>3 DEF left, LeftBy
<1> QED
  BY <1>3, <1>4, <1>5

-----------------------------------------------------------------------------
(* The bytes of a session.                                                 *)

\* What the parts of the state are sequences and numbers of.
LEMMA ConnTypes ==
  ASSUME Inv
  PROVE  /\ Len(dialogue) \in Nat
         /\ \A i \in 1..Len(dialogue) : /\ dialogue[i] \in Requests
                                        /\ Wire(dialogue[i]) \in Bytes
         /\ sent \in Nat /\ sent <= Len(dialogue) /\ Len(answers) \in Nat
         /\ Len(answers) <= sent
         /\ wire \in Bytes /\ conn.in \in Bytes /\ conn.out \in Nat /\ got \in Nat
<1>1. dialogue \in Seq(Requests)
  BY DialogueAssumption DEF Inv
<1>2. \A i \in 1..Len(dialogue) : dialogue[i] \in Requests
  BY <1>1
<1>3. \A m \in Requests : Wire(m) \in Bytes
  BY RequestSent
<1>4. sent \in 0..Len(dialogue) /\ wire \in Bytes /\ conn.in \in Bytes /\ conn.out \in Nat
      /\ Len(answers) <= sent /\ got \in Nat
  BY DEF Inv, ConnRecord, AnswersInOrder
<1>5. Len(dialogue) \in Nat /\ Len(answers) \in Nat
  BY <1>1 DEF Inv
<1> QED
  BY <1>2, <1>3, <1>4, <1>5

\* What a piece does: the parser is where the bytes of the session lead it in
\* one go, and they are the first bytes of the request that is not answered.
LEMMA PieceLemma ==
  ASSUME Inv, Serves(conn), NEW n \in 1..Len(wire), NEW seen, NEW f,
         Pending(seen, f), Reads(conn, seen)
  PROVE  LET t     == Len(answers)
             piece == SubSeq(wire, 1, n)
             w     == Skip(wire, n)
             m     == dialogue[t + 1]
             after == HttpParser(St(conn.req, conn.in \o piece))
         IN  /\ t + 1 \in 1..sent /\ m \in Requests
             /\ w \in Bytes /\ seen \o piece \in Bytes /\ conn.in \o piece \in Bytes
             /\ Len(conn.in \o piece) > 0
             /\ (seen \o piece) \o w = f[t + 1] /\ f[t + 2] \in Bytes
             /\ after = HttpParser(St(NewRequest, seen \o piece)) /\ after \in State
             /\ after.req.status = REQ_DONE =>
                  /\ Sound(m) /\ after.req.method = Lines[m.line].method
                  /\ after.req.inbuf = Body(m) /\ after.in \o w = f[t + 2]
<1> DEFINE t     == Len(answers)
           piece == SubSeq(wire, 1, n)
           w     == Skip(wire, n)
           m     == dialogue[t + 1]
           y     == f[t + 2]
           u     == seen \o piece
           after == HttpParser(St(conn.req, conn.in \o piece))
<1>1. /\ t \in Nat /\ sent \in Nat /\ t <= sent /\ sent <= Len(dialogue)
      /\ seen \in Bytes /\ wire \in Bytes /\ conn.in \in Bytes /\ Len(dialogue) \in Nat
      /\ Len(wire) \in Nat /\ Len(seen) \in Nat
  <2>1. seen \in Bytes
    BY DEF Pending
  <2> QED
    BY <2>1, ConnTypes, BytesJoin
<1>2. /\ f \in [(t + 1)..(sent + 1) -> Bytes] /\ f[sent + 1] = <<>>
      /\ \A i \in (t + 1)..sent : f[i] = Wire(dialogue[i]) \o f[i + 1]
      /\ seen \o wire = f[t + 1]
  BY DEF Pending
<1>3. piece \in Bytes /\ w \in Bytes /\ piece \o w = wire /\ Len(piece) = n
  <2>1. n \in 0..Len(wire)
    BY <1>1
  <2> QED
    BY <1>1, <2>1, CutLemma DEF Bytes
<1>4. \A i \in 1..Len(dialogue) : dialogue[i] \in Requests
  BY ConnTypes
<1> HIDE DEF t, piece, w
<1>5. t + 1 \in 1..sent
  <2> SUFFICES ASSUME t = sent PROVE FALSE
    BY <1>1
  <2>1. seen \o wire = <<>>
    BY <1>2
  <2>2. Len(seen \o wire) = Len(seen) + Len(wire)
    BY <1>1, BytesJoin
  <2> QED
    BY <1>1, <2>1, <2>2
<1>6. m \in Requests
  BY <1>1, <1>4, <1>5
<1>7. y \in Bytes /\ f[t + 1] = Wire(m) \o y
  <2>1. t + 1 \in (t + 1)..sent /\ t + 2 \in (t + 1)..(sent + 1) /\ (t + 1) + 1 = t + 2
    BY <1>1, <1>5
  <2>2. f[t + 1] = Wire(dialogue[t + 1]) \o f[(t + 1) + 1]
    BY <1>2, <2>1
  <2> QED
    BY <1>2, <2>1, <2>2
<1>8. u \in Bytes /\ u \o w = seen \o wire
  <2>1. (seen \o piece) \o w = seen \o (piece \o w)
    <3>1. seen \in Bytes /\ piece \in Bytes /\ w \in Bytes
      BY <1>1, <1>3
    <3> QED
      BY ONLY <3>1, BytesAssoc, Zenon
  <2>2. u \in Bytes
    BY <1>1, <1>3, BytesJoin
  <2> QED
    BY <1>3, <2>1, <2>2
<1> HIDE DEF m, y
<1>9. ChunksOK(St(NewRequest, seen))
  <2>1. seen \o wire = Wire(m) \o y
    BY <1>2, <1>7
  <2>2. m \in Requests /\ y \in Bytes /\ seen \in Bytes /\ wire \in Bytes
    BY <1>1, <1>6, <1>7
  <2> QED
    BY ONLY <2>1, <2>2, RequestArrives, ZenonT(30)
<1>10. after = HttpParser(St(NewRequest, u))
  <2>1. CASE seen = conn.in /\ conn.req \in {NoReq, NewRequest}
    <3>1. conn.req = NewRequest
      BY <2>1, ReqLemma DEF Serves
    <3> QED
      BY <2>1, <3>1
  <2>2. CASE St(conn.req, conn.in) = HttpParser(St(NewRequest, seen))
    BY <1>1, <1>3, <1>9, <2>2, NextPiece
  <2> QED
    BY <2>1, <2>2 DEF Reads
<1>11. /\ after \in State
       /\ after.req.status = REQ_DONE =>
            /\ Sound(m) /\ after.req.method = Lines[m.line].method
            /\ after.req.inbuf = Body(m) /\ after.in \o w = y
  <2> HIDE DEF after, u
  <2>1. u \o w = Wire(m) \o y
    BY <1>2, <1>7, <1>8
  <2> DEFINE r == HttpParser(St(NewRequest, u))
  <2>2. /\ ChunksOK(St(NewRequest, u)) /\ r \in State
        /\ r.req.status = REQ_DONE =>
             /\ Sound(m) /\ r.req.path = Path(m) /\ r.req.inbuf = Body(m)
             /\ r.req.method = Lines[m.line].method /\ r.in \o w = y
        /\ r.req.status = HTTP_ERROR => ~Sound(m)
    <3>1. m \in Requests /\ y \in Bytes /\ u \in Bytes /\ w \in Bytes
      BY <1>3, <1>6, <1>7, <1>8
    <3> QED
      BY ONLY <2>1, <3>1, RequestArrives, ZenonT(30)
  <2> HIDE DEF r
  <2>3. after = r
    BY <1>10 DEF r
  <2> QED
    BY <2>2, <2>3
<1> HIDE DEF after
<1>12. (seen \o piece) \o w = f[t + 1] /\ seen \o piece \in Bytes
       /\ after = HttpParser(St(NewRequest, seen \o piece))
  BY <1>2, <1>8, <1>10
<1>13. conn.in \o piece \in Bytes /\ Len(conn.in \o piece) > 0
  <2> DEFINE i == conn.in
  <2>1. i \in Bytes
    BY <1>1
  <2> HIDE DEF i
  <2>2. i \o piece \in Bytes /\ Len(i \o piece) = Len(i) + Len(piece) /\ Len(i) \in Nat
    BY <1>3, <2>1, BytesJoin
  <2> QED
    BY <1>3, <2>2 DEF i
<1> QED
  BY <1>3, <1>5, <1>6, <1>7, <1>11, <1>12, <1>13 DEF t, piece, w, m, y, after

-----------------------------------------------------------------------------
(* The walks of the chain.                                                 *)

\* A walk changes of the connection what the parser has read, and adds an
\* answer if the request is done.
WalkOf(w, k, s) ==
  /\ w.k \in ConnRecord /\ w.hooks \in SUBSET Hooks /\ w.status \in Verdicts
  /\ w.k.live = k.live /\ w.k.status = k.status /\ w.k.rd = k.rd /\ w.k.wr = k.wr
  /\ w.k.expired = k.expired /\ w.k.told = k.told
  /\ w.k.req = s.req /\ w.k.in = s.in
  /\ w.k.method = IF k.method = NoMethod THEN s.req.method ELSE k.method

Answers(w, k, s) ==
  /\ s.req.status = REQ_DONE /\ w.k.out = k.out + 1 /\ w.status \in {AD_DONE, AD_CLOSE}
  /\ \/ w.hooks = {1, 2} /\ 2 \in Behind(w.k)
     \/ w.hooks = {1, 3} /\ 2 \notin Behind(w.k) /\ w.status = AD_CLOSE

AnswersNot(w, k, s) ==
  /\ s.req.status # REQ_DONE /\ w.k.out = k.out
  /\ \/ w.status \in {AD_TAKEOVER, AD_CLOSE} /\ w.hooks = {1}
     \/ w.status = AD_OK /\ w.hooks = {1} \cup Behind(w.k)

\* A READ is answered by the hooks behind the handler exactly if it finds the
\* request done.
LEMMA ReadWalks ==
  ASSUME NEW k \in ConnRecord, NEW s \in State, s = HttpParser(St(k.req, k.in)),
         NEW w \in Walks({"READ"}, k)
  PROVE  WalkOf(w, k, s) /\ (Answers(w, k, s) \/ AnswersNot(w, k, s))
<1> DEFINE ev == {"READ"}
           a == Handler(ev, k)
           j == a.k
           mk(hs, out, status) ==
             [k |-> [j EXCEPT !.out = j.out + out], status |-> status, hooks |-> hs]
           m == IF k.method = NoMethod THEN s.req.method ELSE k.method
<1>1. s.req \in Request /\ s.in \in Bytes /\ s.req.method \in MethodNames
  <2>1. s.req \in Request /\ s.in \in Bytes
    BY StateLemma
  <2> DEFINE q == s.req
  <2> HIDE DEF q
  <2>2. q \in Request => q.method \in MethodNames
    BY DEF Request, MethodNames
  <2> QED
    BY <2>1, <2>2 DEF q
<1>2. j = [k EXCEPT !.req = s.req, !.in = s.in, !.method = m] /\ a.status = Answer(s.req)
  BY HandlerLemma
<1>3. /\ j \in ConnRecord
      /\ j.live = k.live /\ j.status = k.status /\ j.rd = k.rd /\ j.wr = k.wr
      /\ j.expired = k.expired /\ j.told = k.told /\ j.out = k.out
      /\ j.req = s.req /\ j.in = s.in /\ j.method = m
  <2>1. m \in MethodNames
    BY <1>1 DEF ConnRecord
  <2> HIDE DEF j, m
  <2> QED
    BY <1>1, <1>2, <2>1 DEF ConnRecord
<1>4. /\ a.status \in {AD_OK, AD_TAKEOVER, AD_CLOSE}
      /\ a.status = AD_OK \/ a.status \in {AD_TAKEOVER, AD_CLOSE}
      /\ s.req.status = REQ_DONE => a.status = AD_OK
  <2> DEFINE q == s.req
             A == Answer(q)
  <2>1. /\ A \in {AD_OK, AD_TAKEOVER, AD_CLOSE}
        /\ A = AD_CLOSE <=> q.status = HTTP_ERROR
        /\ A = AD_TAKEOVER <=> q.status \in {REQUESTLINE_DONE, HEADER_DONE}
    BY <1>1, AnswerLemma
  <2> HIDE DEF A, q
  <2>2. q.status = REQ_DONE => A = AD_OK
    BY <2>1, StatusNumbers
  <2> QED
    BY <1>2, <2>1, <2>2 DEF A, q
<1>5. Done(ev, j) <=> s.req.status = REQ_DONE
  BY <1>3 DEF Done
<1> HIDE DEF j, m
<1>6. \A hs, n, status : /\ mk(hs, n, status).k = [j EXCEPT !.out = j.out + n]
                         /\ mk(hs, n, status).status = status
                         /\ mk(hs, n, status).hooks = hs
  OBVIOUS
<1>7. ASSUME NEW n \in {0, 1}
      PROVE  LET i == [j EXCEPT !.out = j.out + n]
             IN  /\ i \in ConnRecord
                 /\ i.live = k.live /\ i.status = k.status /\ i.rd = k.rd /\ i.wr = k.wr
                 /\ i.expired = k.expired /\ i.told = k.told /\ i.out = k.out + n
                 /\ i.req = s.req /\ i.in = s.in /\ i.method = m /\ Behind(i) = Behind(j)
                 /\ k.out + 0 = k.out
  <2>1. j.out \in Nat
    BY <1>3 DEF ConnRecord
  <2>2. j.out + n \in Nat
    BY <2>1
  <2> DEFINE i == [j EXCEPT !.out = j.out + n]
  <2>3. /\ i \in ConnRecord /\ i.out = j.out + n
        /\ i.live = j.live /\ i.status = j.status /\ i.rd = j.rd /\ i.wr = j.wr
        /\ i.expired = j.expired /\ i.told = j.told /\ i.req = j.req /\ i.in = j.in
        /\ i.method = j.method
    BY <1>3, <2>2 DEF ConnRecord
  <2> HIDE DEF i
  <2>4. Behind(i) = Behind(j)
    BY <2>3 DEF Behind
  <2> QED
    BY <1>3, <2>1, <2>3, <2>4 DEF i
<1> HIDE DEF a
<1>8. ASSUME NEW n \in {0, 1}, NEW hs \in SUBSET Hooks, NEW status \in Verdicts,
             w = mk(hs, n, status)
      PROVE  /\ WalkOf(w, k, s) /\ w.hooks = hs /\ w.status = status
             /\ w.k.out = k.out + n /\ Behind(w.k) = Behind(j) /\ k.out + 0 = k.out
  <2> DEFINE i == [j EXCEPT !.out = j.out + n]
  <2>1. w.k = i /\ w.hooks = hs /\ w.status = status
    BY <1>6, <1>8
  <2>2. /\ i \in ConnRecord
        /\ i.live = k.live /\ i.status = k.status /\ i.rd = k.rd /\ i.wr = k.wr
        /\ i.expired = k.expired /\ i.told = k.told /\ i.out = k.out + n
        /\ i.req = s.req /\ i.in = s.in /\ i.method = m /\ Behind(i) = Behind(j)
        /\ k.out + 0 = k.out
    BY <1>7
  <2> HIDE DEF i
  <2> QED
    BY <2>1, <2>2 DEF WalkOf, m
<1> HIDE DEF mk
<1>9. /\ {1} \in SUBSET Hooks /\ {1, 2} \in SUBSET Hooks /\ {1, 3} \in SUBSET Hooks
      /\ {1} \cup Behind(j) \in SUBSET Hooks
      /\ {AD_OK, AD_TAKEOVER, AD_DONE, AD_CLOSE} \subseteq Verdicts
  BY BehindLemma DEF Hooks, Verdicts
<1>10. CASE a.status # AD_OK
  <2>1. w = mk({1}, 0, a.status)
    BY <1>10 DEF Walks, mk, j, a
  <2>2. a.status \in Verdicts
    BY <1>4, <1>9
  <2> QED
    BY <1>4, <1>8, <1>9, <1>10, <2>1, <2>2 DEF AnswersNot
<1>11. CASE a.status = AD_OK /\ Done(ev, j) /\ 2 \in Behind(j)
  <2>1. PICK x \in {AD_DONE, AD_CLOSE} : w = mk({1, 2}, 1, x)
    BY <1>11 DEF Walks, mk, j, a
  <2>2. x \in Verdicts
    BY <1>9
  <2> QED
    BY <1>5, <1>8, <1>9, <1>11, <2>1, <2>2 DEF Answers
<1>12. CASE a.status = AD_OK /\ Done(ev, j) /\ 2 \notin Behind(j)
  <2>1. w = mk({1, 3}, 1, AD_CLOSE)
    BY <1>12 DEF Walks, mk, j, a
  <2> QED
    BY <1>5, <1>8, <1>9, <1>12, <2>1 DEF Answers
<1>13. CASE a.status = AD_OK /\ ~Done(ev, j)
  <2>1. w = mk({1} \cup Behind(j), 0, AD_OK)
    BY <1>13 DEF Walks, mk, j, a
  <2> QED
    BY <1>5, <1>8, <1>9, <1>13, <2>1 DEF AnswersNot
<1> QED
  BY <1>10, <1>11, <1>12, <1>13

\* A WRITE is heard by every hook that the method lets through.
LEMMA WriteWalks ==
  ASSUME NEW k \in ConnRecord, NEW w \in Walks({"WRITE"}, k)
  PROVE  w.k = k /\ w.hooks = {1} \cup Behind(k) /\ w.status = AD_OK
<1> DEFINE a == Handler({"WRITE"}, k)
<1>1. a.k = k /\ a.status = AD_OK /\ ~Done({"WRITE"}, a.k)
  BY HandlerLemma DEF Done, Closings
<1>2. w = [k |-> [a.k EXCEPT !.out = a.k.out + 0], status |-> AD_OK,
           hooks |-> {1} \cup Behind(a.k)]
  BY <1>1 DEF Walks
<1> HIDE DEF a
<1>3. [k EXCEPT !.out = k.out + 0] = k
  BY DEF ConnRecord
<1> QED
  BY <1>1, <1>2, <1>3

-----------------------------------------------------------------------------
(* The steps.                                                              *)

\* What hooks leave of an open connection that was told READ or WRITE: their
\* answer becomes the status.
AskedBy(t, k, x) ==
  /\ t \in ConnRecord /\ Serves(t) /\ t.status = x
  /\ t.in = k.in /\ t.out = k.out /\ t.req = k.req

\* The answer of the hooks becomes the status of a connection that asked them.
LEMMA AskedLemma ==
  ASSUME NEW ev \in {{"READ"}, {"WRITE"}}, NEW k \in ConnRecord, Serves(k),
         k.status \in {AD_OK, AD_TAKEOVER}, NEW hs \in SUBSET Hooks, NEW x \in Verdicts
  PROVE  AskedBy([Told(ev, hs, k) EXCEPT !.status = Conn!Raised(@, x)], k, x)
<1> DEFINE a == Told(ev, hs, k)
           t == [a EXCEPT !.status = Conn!Raised(a.status, x)]
<1>1. IsTold(a, ev, hs, k)
  BY ToldLemma
<1>2. \A was : Conn!Told(ev, was) = was
  BY DEF Conn!Told
<1> HIDE DEF a
<1>3. /\ a \in ConnRecord /\ a.live = k.live /\ a.status = k.status /\ a.in = k.in
      /\ a.out = k.out /\ a.req = k.req
      /\ \A h \in Hooks : a.told[h] = k.told[h]
  BY <1>1, <1>2 DEF IsTold
<1>4. Conn!Raised(a.status, x) = x
  BY <1>3, VerdictLemma DEF Conn!Raised
<1>5. t = [a EXCEPT !.status = x]
  BY <1>4
<1>6. /\ t \in ConnRecord /\ t.live = a.live /\ t.status = x /\ t.in = a.in
      /\ t.out = a.out /\ t.req = a.req /\ t.told = a.told
  <2> HIDE DEF t
  <2> QED
    BY <1>3, <1>5 DEF ConnRecord
<1> HIDE DEF t
<1>7. 1 \in Hooks /\ 3 \in Hooks
  BY DEF Hooks
<1>8. Serves(t)
  BY <1>3, <1>6, <1>7 DEF Serves
<1> QED
  BY <1>3, <1>6, <1>8 DEF t, a, AskedBy

\* A callback that answers no request keeps the invariant.
LEMMA KeptLemma ==
  ASSUME Inv, NEW ev \in CbEvents, NEW k \in ConnRecord, Serves(k),
         k.status # AD_DONE, NEW b \in Seq(Conn!CallType),
         UNCHANGED <<dialogue, habit, sent>>, wire' \in Bytes,
         got' \in Nat, got' + k.out = Len(answers),
         conn' = Settled(ev, k, b, <<>>).conn, calls' = Settled(ev, k, b, <<>>).calls,
         answers' = Settled(ev, k, b, <<>>).answers,
         answers' = answers /\ k.status # AD_CLOSE =>
           \E seen, f : Pending(seen, f)' /\ Reads(k, seen)
  PROVE  Inv'
<1> DEFINE left == Settled(ev, k, b, <<>>)
           c    == left.conn
<1>1. answers \in Seq(Answer1) /\ <<>> \in Seq(Answer1) /\ answers \o <<>> = answers
  BY DEF Inv
<1>2. /\ left.answers = answers \o <<>> /\ left.calls \in Seq(Conn!CallType)
      /\ c \in ConnRecord /\ c.out = k.out
      /\ k.status = AD_CLOSE /\ k.out = 0 =>
           c.live = "freed" /\ c.told[1] = "close" /\ c.told[3] = "close" /\ c.req = NoReq
      /\ k.status # AD_DONE /\ ~(k.status = AD_CLOSE /\ k.out = 0) => c = k
  <2>1. LeftBy(Settled(ev, k, b, <<>>), k, <<>>)
    <3>1. ev \in CbEvents /\ k \in ConnRecord /\ Serves(k) /\ b \in Seq(Conn!CallType)
      OBVIOUS
    <3> QED
      BY ONLY <1>1, <3>1, SettledLemma, Zenon
  <2> HIDE DEF left
  <2>2. LeftBy(left, k, <<>>)
    BY <2>1 DEF left
  <2> QED
    BY <2>2 DEF LeftBy
<1> HIDE DEF left
<1>3. conn' = c /\ calls' = left.calls /\ answers' = answers
  BY <1>1, <1>2 DEF left
<1>4. AnswersInOrder'
  BY <1>3 DEF Inv, AnswersInOrder
<1>5. /\ dialogue' \in Dialogues /\ habit' \in Habits /\ sent' \in 0..Len(dialogue')
      /\ conn' \in ConnRecord /\ calls' \in Seq(Conn!CallType)
      /\ answers' \in Seq(Answer1) /\ got' + conn'.out = Len(answers')
  BY <1>1, <1>2, <1>3 DEF Inv
<1> HIDE DEF c
<1>6. CASE k.status = AD_CLOSE /\ k.out = 0
  <2>1. /\ conn'.live = "freed" /\ conn'.told[1] = "close" /\ conn'.told[3] = "close"
        /\ conn'.req = NoReq
    BY <1>2, <1>3, <1>6
  <2> QED
    BY <1>4, <1>5, <2>1 DEF Inv
<1>7. CASE ~(k.status = AD_CLOSE /\ k.out = 0)
  <2>1. conn' = k
    BY <1>2, <1>3, <1>7
  <2>2. conn'.live = "open" /\ Serves(conn)' /\ conn'.status # AD_DONE
    BY <2>1 DEF Serves
  <2>3. conn'.status # AD_CLOSE => \E seen, f : Pending(seen, f)' /\ Reads(conn, seen)'
    BY <1>3, <2>1 DEF Reads
  <2> QED
    BY <1>4, <1>5, <2>2, <2>3 DEF Inv
<1> QED
  BY <1>6, <1>7

\* The invariant holds before the client connects.
LEMMA InvInit == Init => Inv
<1> SUFFICES ASSUME Init PROVE Inv
  OBVIOUS
<1>1. /\ dialogue \in Dialogues /\ habit \in Habits /\ sent = 0 /\ wire = <<>>
      /\ answers = <<>> /\ got = 0 /\ conn = NoConn /\ calls = <<>>
  BY DEF Init
<1>2. <<>> \in Bytes /\ <<>> \o <<>> = <<>>
  BY BytesJoin
<1>3. Len(dialogue) \in Nat
  BY <1>1, DialogueAssumption
<1>4. /\ NoConn \in ConnRecord /\ NoConn.live = "none" /\ NoConn.out = 0
      /\ NoConn.in = <<>> /\ NoConn.req = NoReq
  BY <1>2 DEF NoConn, ConnRecord, Verdicts, MethodNames
<1>5. PICK f : f = [i \in {1} |-> <<>>]
  OBVIOUS
<1>6. Pending(<<>>, f)
  <2>1. Len(answers) = 0 /\ sent = 0 /\ 1..0 = {} /\ 1..1 = {1} /\ 0 + 1 = 1
    BY <1>1
  <2> HIDE DEF Bytes
  <2>2. f \in [{1} -> Bytes] /\ f[1] = <<>>
    BY <1>2, <1>5
  <2> QED
    BY <1>1, <1>2, <2>1, <2>2 DEF Pending
<1>7. Reads(conn, <<>>)
  BY <1>1, <1>4 DEF Reads
<1>8. answers \in Seq(Answer1) /\ calls \in Seq(Conn!CallType) /\ Len(answers) = 0
      /\ DOMAIN answers = {}
  BY <1>1
<1>9. sent \in 0..Len(dialogue) /\ got \in Nat /\ got + conn.out = Len(answers)
  BY <1>1, <1>3, <1>4, <1>8
<1>10. AnswersInOrder
  BY <1>1, <1>8 DEF AnswersInOrder
<1> QED
  BY <1>1, <1>2, <1>4, <1>6, <1>7, <1>8, <1>9, <1>10 DEF Inv

\* What the client sends next stands behind what is pending.
LEMMA ClientPending ==
  ASSUME Inv, Client, NEW seen, NEW f, Pending(seen, f)
  PROVE  \E g : Pending(seen, g)'
<1> DEFINE W == Wire(dialogue[sent + 1])
           t == Len(answers)
           g == [i \in (t + 1)..(sent + 2) |-> IF i = sent + 2 THEN <<>> ELSE f[i] \o W]
<1>1. /\ sent < Len(dialogue) /\ sent' = sent + 1 /\ wire' = wire \o W
      /\ UNCHANGED <<dialogue, answers>>
  BY DEF Client
<1>2. /\ t \in Nat /\ sent \in Nat /\ t <= sent /\ seen \in Bytes /\ wire \in Bytes
      /\ Len(dialogue) \in Nat
      /\ \A i \in 1..Len(dialogue) : Wire(dialogue[i]) \in Bytes
  BY ConnTypes DEF Pending
<1>3. /\ f \in [(t + 1)..(sent + 1) -> Bytes] /\ f[sent + 1] = <<>>
      /\ \A i \in (t + 1)..sent : f[i] = Wire(dialogue[i]) \o f[i + 1]
      /\ seen \o wire = f[t + 1]
  BY DEF Pending
<1>4. W \in Bytes /\ <<>> \in Bytes
  BY <1>1, <1>2, BytesJoin
<1> HIDE DEF W, t
<1>5. ASSUME NEW i \in (t + 1)..(sent + 1)
      PROVE  f[i] \in Bytes /\ f[i] \o W \in Bytes /\ g[i] = f[i] \o W
  <2>1. f[i] \in Bytes /\ i # sent + 2 /\ i \in (t + 1)..(sent + 2)
    BY <1>2, <1>3
  <2> QED
    BY <1>4, <2>1, BytesJoin
<1>6. g \in [(t + 1)..(sent + 2) -> Bytes] /\ g[sent + 2] = <<>>
  <2>1. \A i \in (t + 1)..(sent + 2) : i = sent + 2 \/ i \in (t + 1)..(sent + 1)
    BY <1>2
  <2>2. sent + 2 \in (t + 1)..(sent + 2)
    BY <1>2
  <2> QED
    BY <1>4, <1>5, <2>1, <2>2
<1>7. ASSUME NEW i \in (t + 1)..(sent + 1)
      PROVE  g[i] = Wire(dialogue[i]) \o g[i + 1]
  <2> HIDE DEF g
  <2>1. CASE i = sent + 1
    <3>0. i + 1 = sent + 2 /\ i \in (t + 1)..(sent + 1) /\ Wire(dialogue[i]) = W
      BY <1>2, <2>1 DEF W
    <3>1. g[i] = <<>> \o W /\ g[i + 1] = <<>> /\ Wire(dialogue[i]) = W
      BY <1>3, <1>5, <1>6, <2>1, <3>0
    <3>2. <<>> \o W = W /\ W \o <<>> = W
      BY <1>4, BytesJoin
    <3> QED
      BY <3>1, <3>2
  <2>2. CASE i # sent + 1
    <3> DEFINE V == Wire(dialogue[i])
               b == f[i + 1]
    <3>1. i \in (t + 1)..sent /\ i + 1 \in (t + 1)..(sent + 1) /\ i \in 1..Len(dialogue)
      BY <1>1, <1>2, <2>2
    <3>2. /\ V \in Bytes /\ b \in Bytes /\ f[i] = V \o b
          /\ g[i] = f[i] \o W /\ g[i + 1] = b \o W
      BY <1>2, <1>3, <1>5, <3>1
    <3> HIDE DEF V, b
    <3>3. (V \o b) \o W = V \o (b \o W)
      <4>1. V \in Bytes /\ b \in Bytes /\ W \in Bytes
        BY <1>4, <3>2
      <4> QED
        BY ONLY <4>1, BytesAssoc, Zenon
    <3> QED
      BY <3>2, <3>3 DEF V
  <2> QED
    BY <2>1, <2>2
<1>8. seen \o (wire \o W) = g[t + 1]
  <2>1. t + 1 \in (t + 1)..(sent + 1)
    BY <1>2
  <2>2. (seen \o wire) \o W = seen \o (wire \o W)
    <3>1. seen \in Bytes /\ wire \in Bytes /\ W \in Bytes
      BY <1>2, <1>4
    <3> QED
      BY ONLY <3>1, BytesAssoc, Zenon
  <2> QED
    BY <1>3, <1>5, <2>1, <2>2
<1> HIDE DEF g
<1>9. /\ g \in [(t + 1)..((sent + 1) + 1) -> Bytes] /\ g[(sent + 1) + 1] = <<>>
      /\ (sent + 1) + 1 = sent + 2
  BY <1>2, <1>6
<1>10. PICK h : h = g
  OBVIOUS
<1>11. Pending(seen, h)'
  <2>1. /\ Len(answers') = t /\ sent' = sent + 1 /\ wire' = wire \o W
        /\ dialogue' = dialogue
    BY <1>1 DEF t
  <2>2. /\ h \in [(t + 1)..((sent + 1) + 1) -> Bytes] /\ h[(sent + 1) + 1] = <<>>
        /\ \A i \in (t + 1)..(sent + 1) : h[i] = Wire(dialogue[i]) \o h[i + 1]
        /\ seen \o (wire \o W) = h[t + 1]
    BY <1>7, <1>8, <1>9, <1>10
  <2> QED
    BY <2>1, <2>2 DEF Pending
<1> QED
  BY <1>11



\* The invariant is kept when the client sends its next request.
LEMMA ClientStep == Inv /\ Client => Inv'
<1> SUFFICES ASSUME Inv, Client PROVE Inv'
  OBVIOUS
<1>1. /\ sent < Len(dialogue) /\ sent' = sent + 1
      /\ wire' = wire \o Wire(dialogue[sent + 1])
      /\ UNCHANGED <<dialogue, habit, conn, calls, answers, got>>
  BY DEF Client
<1>2. /\ Len(dialogue) \in Nat /\ sent \in Nat /\ Len(answers) \in Nat /\ wire \in Bytes
      /\ \A i \in 1..Len(dialogue) : Wire(dialogue[i]) \in Bytes
  BY ConnTypes
<1>3. sent' \in 0..Len(dialogue) /\ wire' \in Bytes
  <2> DEFINE W == Wire(dialogue[sent + 1])
  <2>1. W \in Bytes
    BY <1>1, <1>2
  <2> HIDE DEF W
  <2>2. wire \o W \in Bytes
    BY <1>2, <2>1, BytesJoin
  <2> QED
    BY <1>1, <1>2, <2>2 DEF W
<1>4. AnswersInOrder'
  BY <1>1, <1>2 DEF Inv, AnswersInOrder
<1>5. ASSUME NEW seen, NEW f, Pending(seen, f), Reads(conn, seen)
      PROVE  \E g : Pending(seen, g)' /\ Reads(conn, seen)'
  <2>1. PICK g : Pending(seen, g)'
    BY <1>5, ClientPending
  <2>2. Reads(conn, seen)'
    BY <1>1, <1>5 DEF Reads
  <2> QED
    BY <2>1, <2>2
<1>6. conn'.live # "freed" /\ conn'.status # AD_CLOSE =>
        \E seen, f : Pending(seen, f)' /\ Reads(conn, seen)'
  <2> SUFFICES ASSUME conn.live # "freed", conn.status # AD_CLOSE
               PROVE  \E seen, f : Pending(seen, f)' /\ Reads(conn, seen)'
    BY <1>1
  <2>1. PICK seen, f : Pending(seen, f) /\ Reads(conn, seen)
    BY DEF Inv
  <2> QED
    BY <1>5, <2>1
<1>7. conn'.live = "open" => Serves(conn)' /\ conn'.status # AD_DONE
  BY <1>1 DEF Inv, Serves
<1> QED
  BY <1>1, <1>3, <1>4, <1>6, <1>7 DEF Inv

\* The invariant is kept when the connection is opened.
LEMMA ListenerStep == Inv /\ ListenerCb => Inv'
<1> SUFFICES ASSUME Inv, ListenerCb PROVE Inv'
  OBVIOUS
<1> DEFINE k  == [NoConn EXCEPT !.live = "open", !.rd = TRUE, !.wr = "armed"]
           ev == {"INIT", "WRITE"}
           t  == Dropped(ev, k)
<1>1. /\ conn.live = "none" /\ conn' = t /\ calls' = <<Call(ev, k)>>
      /\ UNCHANGED <<dialogue, habit, sent, wire, answers, got>>
  BY DEF ListenerCb
<1>2. conn = NoConn
  BY <1>1 DEF Inv
<1>3. /\ NoConn.status = AD_OK /\ NoConn.out = 0 /\ NoConn.in = <<>> /\ NoConn.req = NoReq
  BY DEF NoConn
<1>4. /\ k \in ConnRecord /\ k.live = "open" /\ k.status = AD_OK /\ k.out = 0
      /\ k.in = <<>>
  <2>1. <<>> \in Bytes
    BY BytesJoin
  <2> QED
    BY <2>1 DEF NoConn, ConnRecord, Verdicts, MethodNames
<1>5. ev \in Openings
  BY DEF Openings
<1> HIDE DEF k, ev
<1>6. /\ t \in ConnRecord /\ t.live = "open" /\ t.status = AD_OK /\ t.out = 0
      /\ t.in = <<>> /\ t.req = NewRequest
  BY <1>4, <1>5, DroppedLemma
<1>7. t.told[1] = "init" /\ t.told[3] = "init"
  BY <1>4, <1>5, PairedLemma
<1>8. Call(ev, k) \in Conn!CallType
  BY <1>5, CallLemma
<1>9. calls' \in Seq(Conn!CallType)
  <2> DEFINE x == Call(ev, k)
  <2> HIDE DEF x
  <2>1. <<x>> \in Seq(Conn!CallType)
    BY <1>8 DEF x
  <2> QED
    BY <1>1, <2>1 DEF x
<1> HIDE DEF t
<1>10. Serves(conn)' /\ conn'.status # AD_DONE
  BY <1>1, <1>6, <1>7, ReqLemma, VerdictLemma DEF Serves
<1>11. \E seen, f : Pending(seen, f)' /\ Reads(conn, seen)'
  <2>1. PICK seen, f : Pending(seen, f) /\ Reads(conn, seen)
    <3>1. conn.live # "freed" /\ conn.status # AD_CLOSE
      BY <1>1, <1>2, <1>3, VerdictLemma
    <3> QED
      BY <3>1 DEF Inv
  <2>2. seen = <<>>
    BY <1>2, <1>3, <2>1, ReqLemma DEF Reads
  <2>3. Reads(conn, seen)'
    BY <1>1, <1>6, <2>2 DEF Reads
  <2>4. Pending(seen, f)'
    BY <1>1, <2>1 DEF Pending
  <2> QED
    BY <2>3, <2>4
<1>12. AnswersInOrder'
  BY <1>1 DEF Inv, AnswersInOrder
<1>13. got' + conn'.out = Len(answers')
  BY <1>1, <1>2, <1>3, <1>6 DEF Inv
<1> QED
  BY <1>1, <1>6, <1>9, <1>10, <1>11, <1>12, <1>13 DEF Inv


\* conn_cb asks the hooks or not.
LEMMA OutcomesLemma ==
  ASSUME NEW ev, NEW k, ConnCb(ev, k)
  PROVE  \/ /\ k.status \notin {AD_OK, AD_TAKEOVER}
            /\ conn' = Settled(ev, k, <<>>, <<>>).conn
            /\ calls' = Settled(ev, k, <<>>, <<>>).calls
            /\ answers' = Settled(ev, k, <<>>, <<>>).answers
         \/ /\ k.status \in {AD_OK, AD_TAKEOVER}
            /\ \E w \in Walks(ev, k) :
                 LET t == [Told(ev, w.hooks, w.k) EXCEPT !.status = Conn!Raised(@, w.status)]
                     b == <<Conn!Call(ev, w.hooks)>>
                     n == Answered(w, k)
                 IN  /\ conn' = Settled(ev, t, b, n).conn
                     /\ calls' = Settled(ev, t, b, n).calls
                     /\ answers' = Settled(ev, t, b, n).answers
<1>1. CASE k.status \notin {AD_OK, AD_TAKEOVER}
  BY <1>1, Zenon DEF ConnCb, Outcomes
<1>2. CASE k.status \in {AD_OK, AD_TAKEOVER}
  <2>1. PICK w \in Walks(ev, k) :
          LET t == [Told(ev, w.hooks, w.k) EXCEPT !.status = Conn!Raised(@, w.status)]
              b == <<Conn!Call(ev, w.hooks)>>
              n == Answered(w, k)
          IN  /\ conn' = Settled(ev, t, b, n).conn
              /\ calls' = Settled(ev, t, b, n).calls
              /\ answers' = Settled(ev, t, b, n).answers
    BY <1>2, Zenon DEF ConnCb, Outcomes
  <2> QED
    BY <1>2, <2>1, Zenon
<1> QED
  BY <1>1, <1>2

\* The invariant is kept when the out-buffer has been drained.
LEMMA WriteStep == Inv /\ WriteCb => Inv'
<1> SUFFICES ASSUME Inv, WriteCb PROVE Inv'
  OBVIOUS
<1> DEFINE ev == {"WRITE"}
           k  == [conn EXCEPT !.out = 0, !.wr = "idle"]
<1>1. /\ conn.live = "open" /\ got' = got + conn.out /\ ConnCb(ev, k)
      /\ UNCHANGED <<dialogue, habit, sent, wire>>
  BY DEF WriteCb, Open
<1>2. /\ conn \in ConnRecord /\ Serves(conn) /\ conn.status # AD_DONE
      /\ got' \in Nat /\ got' + 0 = Len(answers) /\ wire' \in Bytes
  BY <1>1, ConnTypes DEF Inv
<1>3. /\ k \in ConnRecord /\ k.live = "open" /\ k.out = 0 /\ k.status = conn.status
      /\ k.in = conn.in /\ k.req = conn.req /\ k.told = conn.told
  BY <1>1, <1>2 DEF ConnRecord
<1> HIDE DEF k
<1>4. Serves(k)
  BY <1>2, <1>3 DEF Serves
<1>5. ev \in CbEvents /\ ev \in {{"READ"}, {"WRITE"}} /\ <<>> \in Seq(Conn!CallType)
  BY DEF CbEvents
<1>6. ASSUME answers' = answers, NEW t, t.in = k.in, t.req = k.req, k.status # AD_CLOSE
      PROVE  \E seen, f : Pending(seen, f)' /\ Reads(t, seen)
  <2>1. PICK seen, f : Pending(seen, f) /\ Reads(conn, seen)
    <3>1. conn.live # "freed" /\ conn.status # AD_CLOSE
      BY <1>1, <1>3, <1>6
    <3> QED
      BY <3>1 DEF Inv
  <2>2. Pending(seen, f)'
    BY <1>1, <1>6, <2>1 DEF Pending
  <2>3. Reads(t, seen)
    BY <1>3, <1>6, <2>1 DEF Reads
  <2> QED
    BY <2>2, <2>3
<1>7. CASE /\ k.status \notin {AD_OK, AD_TAKEOVER}
           /\ conn' = Settled(ev, k, <<>>, <<>>).conn
           /\ calls' = Settled(ev, k, <<>>, <<>>).calls
           /\ answers' = Settled(ev, k, <<>>, <<>>).answers
  <2>1. answers' = answers /\ k.status # AD_CLOSE =>
          \E seen, f : Pending(seen, f)' /\ Reads(k, seen)
    BY <1>6
  <2>2. k.status # AD_DONE /\ got' + k.out = Len(answers)
    BY <1>2, <1>3
  <2> HIDE DEF ev
  <2> QED
    BY <1>1, <1>2, <1>3, <1>4, <1>5, <1>7, <2>1, <2>2, KeptLemma
<1>8. CASE /\ k.status \in {AD_OK, AD_TAKEOVER}
           /\ \E w \in Walks(ev, k) :
                 LET t == [Told(ev, w.hooks, w.k) EXCEPT !.status = Conn!Raised(@, w.status)]
                     b == <<Conn!Call(ev, w.hooks)>>
                     n == Answered(w, k)
                 IN  /\ conn' = Settled(ev, t, b, n).conn
                     /\ calls' = Settled(ev, t, b, n).calls
                     /\ answers' = Settled(ev, t, b, n).answers
  <2>1. PICK w \in Walks(ev, k) :
                 LET t == [Told(ev, w.hooks, w.k) EXCEPT !.status = Conn!Raised(@, w.status)]
                     b == <<Conn!Call(ev, w.hooks)>>
                     n == Answered(w, k)
                 IN  /\ conn' = Settled(ev, t, b, n).conn
                     /\ calls' = Settled(ev, t, b, n).calls
                     /\ answers' = Settled(ev, t, b, n).answers
    BY <1>8, Zenon
  <2> DEFINE hs == w.hooks
             t == [Told(ev, hs, k) EXCEPT !.status = Conn!Raised(@, AD_OK)]
             b == <<Conn!Call(ev, hs)>>
  <2>2. w.k = k /\ w.status = AD_OK /\ hs \in SUBSET Hooks
    BY <1>3, BehindLemma, WriteWalks
  <2>3. Answered(w, k) = <<>>
    BY <2>2 DEF Answered
  <2>4. /\ conn' = Settled(ev, t, b, <<>>).conn
        /\ calls' = Settled(ev, t, b, <<>>).calls
        /\ answers' = Settled(ev, t, b, <<>>).answers
    BY <2>1, <2>2, <2>3, Zenon
  <2> HIDE DEF hs, ev
  <2>5. /\ t \in ConnRecord /\ Serves(t) /\ t.status = AD_OK
        /\ t.in = k.in /\ t.out = k.out /\ t.req = k.req
    <3>1. AD_OK \in Verdicts
      BY DEF Verdicts
    <3>2. AskedBy(t, k, AD_OK)
      BY <1>3, <1>4, <1>5, <1>8, <2>2, <3>1, AskedLemma
    <3> HIDE DEF t
    <3> QED
      BY <3>2 DEF AskedBy
  <2>6. b \in Seq(Conn!CallType)
    <3>1. Conn!Call(ev, hs) \in Conn!CallType
      BY <1>5, <2>2, CallLemma
    <3> QED
      BY <3>1
  <2> HIDE DEF t, b
  <2>7. answers' = answers /\ t.status # AD_CLOSE =>
          \E seen, f : Pending(seen, f)' /\ Reads(t, seen)
    <3>1. k.status # AD_CLOSE
      BY <1>8, VerdictLemma
    <3> QED
      BY <1>6, <2>5, <3>1
  <2>8. t.status # AD_DONE /\ got' + t.out = Len(answers)
    <3>1. t.status = AD_OK /\ t.out = 0
      BY <1>3, <2>5
    <3>2. got' + 0 = Len(answers)
      BY <1>2
    <3>3. AD_OK # AD_DONE
      BY VerdictLemma
    <3> QED
      BY ONLY <3>1, <3>2, <3>3
  <2> QED
    BY <1>1, <1>2, <1>5, <2>4, <2>5, <2>6, <2>7, <2>8, KeptLemma
<1> HIDE DEF ev
<1> QED
  BY <1>1, <1>7, <1>8, OutcomesLemma, Zenon

\* A callback of a connection that is to be closed asks no hook.
LEMMA ClosingStep ==
  ASSUME Inv, NEW ev \in CbEvents, NEW k \in ConnRecord, Serves(k),
         k.status = AD_CLOSE, k.out = conn.out, ConnCb(ev, k),
         UNCHANGED <<dialogue, habit, sent, got>>, wire' \in Bytes
  PROVE  Inv'
<1>1. AD_CLOSE \notin {AD_OK, AD_TAKEOVER} /\ AD_CLOSE # AD_DONE
  BY VerdictLemma
<1>2. /\ conn' = Settled(ev, k, <<>>, <<>>).conn
      /\ calls' = Settled(ev, k, <<>>, <<>>).calls
      /\ answers' = Settled(ev, k, <<>>, <<>>).answers
  <2>1. k.status \notin {AD_OK, AD_TAKEOVER}
    BY <1>1
  <2> QED
    BY <2>1, OutcomesLemma, Zenon
<1>3. got' \in Nat /\ got' + k.out = Len(answers)
  BY DEF Inv
<1>4. <<>> \in Seq(Conn!CallType)
  OBVIOUS
<1> QED
  BY <1>1, <1>2, <1>3, <1>4, KeptLemma

\* The invariant is kept at the end of input, a timeout or a failed write.
LEMMA EventStep == Inv /\ EventCb => Inv'
<1> SUFFICES ASSUME Inv, EventCb PROVE Inv'
  OBVIOUS
<1>1. conn.live = "open" /\ UNCHANGED <<dialogue, habit, sent, wire, got>>
  BY DEF EventCb, Open
<1>2. conn \in ConnRecord /\ Serves(conn) /\ wire' \in Bytes
  BY <1>1 DEF Inv
<1>3. AD_CLOSE \in Verdicts
  BY DEF Verdicts
<1>4. ASSUME NEW what,
             ConnCb(IF what = "TIMEOUT" THEN {"CLOSE", "TIMEOUT"} ELSE {"CLOSE"},
                    [conn EXCEPT !.status = AD_CLOSE, !.rd = FALSE,
                                 !.expired = (what = "TIMEOUT")])
      PROVE  Inv'
  <2> DEFINE ev == IF what = "TIMEOUT" THEN {"CLOSE", "TIMEOUT"} ELSE {"CLOSE"}
             x  == (what = "TIMEOUT")
             k  == [conn EXCEPT !.status = AD_CLOSE, !.rd = FALSE, !.expired = x]
  <2>1. ev \in CbEvents
    BY DEF CbEvents
  <2>2. ConnCb(ev, k)
    BY <1>4
  <2>3. x \in BOOLEAN
    OBVIOUS
  <2> HIDE DEF ev, x
  <2>4. /\ k \in ConnRecord /\ k.live = "open" /\ k.out = conn.out /\ k.status = AD_CLOSE
        /\ k.req = conn.req /\ k.told = conn.told
    BY <1>1, <1>2, <1>3, <2>3 DEF ConnRecord
  <2> HIDE DEF k
  <2>5. Serves(k)
    BY <1>2, <2>4 DEF Serves
  <2> QED
    BY <1>1, <1>2, <2>1, <2>2, <2>4, <2>5, ClosingStep
<1>5. ASSUME ConnCb({"CLOSE"}, [conn EXCEPT !.status = AD_CLOSE, !.wr = "failed"])
      PROVE  Inv'
  <2> DEFINE k == [conn EXCEPT !.status = AD_CLOSE, !.wr = "failed"]
  <2>1. {"CLOSE"} \in CbEvents
    BY DEF CbEvents
  <2>2. ConnCb({"CLOSE"}, k)
    BY <1>5
  <2>3. /\ k \in ConnRecord /\ k.live = "open" /\ k.out = conn.out /\ k.status = AD_CLOSE
        /\ k.req = conn.req /\ k.told = conn.told
    BY <1>1, <1>2, <1>3 DEF ConnRecord
  <2> HIDE DEF k
  <2>4. Serves(k)
    BY <1>2, <2>3 DEF Serves
  <2> QED
    BY <1>1, <1>2, <2>1, <2>2, <2>3, <2>4, ClosingStep
<1> QED
  BY <1>4, <1>5 DEF EventCb

\* The invariant is kept by a READ.
LEMMA ReadStep ==
  ASSUME Inv, NEW n \in 1..Len(wire), ReadCb(n)
  PROVE  Inv'
<1> DEFINE ev    == {"READ"}
           piece == SubSeq(wire, 1, n)
           i     == conn.in \o piece
           k     == [conn EXCEPT !.in = i]
           w     == Skip(wire, n)
<1>1. /\ conn.live = "open" /\ wire' = w /\ ConnCb(ev, k)
      /\ UNCHANGED <<dialogue, habit, sent, got>>
  BY DEF ReadCb, Arrives, Open
<1>2. /\ conn \in ConnRecord /\ Serves(conn) /\ conn.status # AD_DONE /\ got \in Nat
      /\ got + conn.out = Len(answers) /\ wire \in Bytes /\ conn.in \in Bytes
      /\ Len(wire) \in Nat
  <2>1. wire \in Bytes /\ conn.in \in Bytes
    BY ConnTypes
  <2>2. Len(wire) \in Nat
    BY <2>1, BytesJoin
  <2> QED
    BY <1>1, <2>1, <2>2 DEF Inv
<1>3. w \in Bytes /\ i \in Bytes
  <2>1. n \in 0..Len(wire)
    BY <1>2
  <2>2. w \in Bytes /\ piece \in Bytes
    BY <1>2, <2>1, CutLemma DEF Bytes
  <2> HIDE DEF piece, w
  <2> QED
    BY <1>2, <2>2, BytesJoin
<1> HIDE DEF w, i
<1>4. /\ k \in ConnRecord /\ k.live = "open" /\ k.out = conn.out /\ k.status = conn.status
      /\ k.in = i /\ k.req = conn.req /\ k.told = conn.told /\ k.method = conn.method
  BY <1>1, <1>2, <1>3 DEF ConnRecord
<1> HIDE DEF k
<1>5. Serves(k)
  BY <1>2, <1>4 DEF Serves
<1>6. ev \in CbEvents /\ ev \in {{"READ"}, {"WRITE"}}
  BY DEF CbEvents
<1>7. CASE k.status \notin {AD_OK, AD_TAKEOVER}
  <2>1. k.status = AD_CLOSE
    BY <1>2, <1>4, <1>7 DEF ConnRecord, Verdicts
  <2> HIDE DEF ev
  <2> QED
    BY <1>1, <1>3, <1>4, <1>5, <1>6, <2>1, ClosingStep
<1>8. CASE k.status \in {AD_OK, AD_TAKEOVER}
  <2> DEFINE s == HttpParser(St(k.req, k.in))
             t == Len(answers)
             m == dialogue[t + 1]
  <2>1. PICK v \in Walks(ev, k) :
                 LET c == [Told(ev, v.hooks, v.k) EXCEPT !.status = Conn!Raised(@, v.status)]
                     b == <<Conn!Call(ev, v.hooks)>>
                     x == Answered(v, k)
                 IN  /\ conn' = Settled(ev, c, b, x).conn
                     /\ calls' = Settled(ev, c, b, x).calls
                     /\ answers' = Settled(ev, c, b, x).answers
    BY <1>1, <1>8, OutcomesLemma, Zenon
  <2>2. PICK seen, f : Pending(seen, f) /\ Reads(conn, seen)
    <3>1. conn.live # "freed" /\ conn.status # AD_CLOSE
      BY <1>1, <1>4, <1>8, VerdictLemma
    <3> QED
      BY <3>1 DEF Inv
  <2>3. /\ t + 1 \in 1..sent /\ m \in Requests
        /\ seen \o piece \in Bytes /\ (seen \o piece) \o w = f[t + 1] /\ f[t + 2] \in Bytes
        /\ s = HttpParser(St(NewRequest, seen \o piece)) /\ s \in State
        /\ s.req.status = REQ_DONE =>
             /\ Sound(m) /\ s.req.method = Lines[m.line].method
             /\ s.req.inbuf = Body(m) /\ s.in \o w = f[t + 2]
    <3>1. s = HttpParser(St(conn.req, conn.in \o piece))
      BY <1>4 DEF i
    <3> HIDE DEF s
    <3> QED
      BY <1>2, <2>2, <3>1, PieceLemma DEF w
  <2> DEFINE hs == v.hooks
             c  == [Told(ev, hs, v.k) EXCEPT !.status = Conn!Raised(@, v.status)]
             b  == <<Conn!Call(ev, hs)>>
  <2>4. WalkOf(v, k, s) /\ (Answers(v, k, s) \/ AnswersNot(v, k, s))
    BY <1>4, <2>1, <2>3, ReadWalks
  <2>5. s.req \in Request /\ s.in \in Bytes /\ s = St(s.req, s.in)
    <3> HIDE DEF s
    <3> QED
      BY <2>3, StateLemma
  <2> HIDE DEF s, t, m, hs, ev, piece
  <2>6. /\ v.k \in ConnRecord /\ hs \in SUBSET Hooks /\ v.status \in Verdicts
        /\ v.k.live = k.live /\ v.k.status = k.status /\ v.k.told = k.told
        /\ v.k.req = s.req /\ v.k.in = s.in
    BY <2>4 DEF WalkOf, hs
  <2>7. Serves(v.k)
    BY <1>5, <2>5, <2>6 DEF Serves
  <2>8. /\ c \in ConnRecord /\ Serves(c) /\ c.status = v.status
        /\ c.in = s.in /\ c.out = v.k.out /\ c.req = s.req
    <3>1. AskedBy(c, v.k, v.status)
      BY <1>6, <1>8, <2>6, <2>7, AskedLemma
    <3> HIDE DEF c
    <3> QED
      BY <2>6, <3>1 DEF AskedBy
  <2>9. b \in Seq(Conn!CallType)
    <3>1. Conn!Call(ev, hs) \in Conn!CallType
      BY <1>6, <2>6, CallLemma
    <3> QED
      BY <3>1
  <2>10. /\ conn' = Settled(ev, c, b, Answered(v, k)).conn
         /\ calls' = Settled(ev, c, b, Answered(v, k)).calls
         /\ answers' = Settled(ev, c, b, Answered(v, k)).answers
    BY <2>1, Zenon DEF hs
  <2> HIDE DEF c, b
  <2>11. CASE AnswersNot(v, k, s)
    <3>1. /\ s.req.status # REQ_DONE /\ v.k.out = k.out
          /\ v.status \in {AD_OK, AD_TAKEOVER, AD_CLOSE}
      BY <2>11 DEF AnswersNot
    <3>2. Answered(v, k) = <<>>
      BY <3>1 DEF Answered
    <3>3. /\ conn' = Settled(ev, c, b, <<>>).conn
          /\ calls' = Settled(ev, c, b, <<>>).calls
          /\ answers' = Settled(ev, c, b, <<>>).answers
      BY <2>10, <3>2, Zenon
    <3>4. c.status # AD_DONE /\ got' \in Nat /\ got' + c.out = Len(answers)
      <4>1. c.out = conn.out /\ got' = got
        BY <1>1, <1>4, <2>8, <3>1
      <4>2. c.status # AD_DONE
        BY <2>8, <3>1, VerdictLemma
      <4> QED
        BY <1>2, <4>1, <4>2
    <3>5. answers' = answers /\ c.status # AD_CLOSE =>
            \E seen1, f1 : Pending(seen1, f1)' /\ Reads(c, seen1)
      <4> SUFFICES ASSUME answers' = answers
                   PROVE  \E seen1, f1 : Pending(seen1, f1)' /\ Reads(c, seen1)
        OBVIOUS
      <4>1. PICK u : u = seen \o piece
        OBVIOUS
      <4>2. u \in Bytes /\ u \o w = f[t + 1] /\ s = HttpParser(St(NewRequest, u))
        BY <2>3, <4>1
      <4>3. Pending(u, f)'
        BY <1>1, <2>2, <4>2 DEF Pending, t
      <4>4. Reads(c, u)
        BY <2>5, <2>8, <4>2 DEF Reads
      <4> QED
        BY <4>3, <4>4
    <3> QED
      BY <1>1, <1>3, <1>6, <2>8, <2>9, <3>3, <3>4, <3>5, KeptLemma
  <2>12. CASE Answers(v, k, s)
    <3> DEFINE r == [method |-> s.req.method, content |-> s.req.inbuf]
    <3>1. /\ s.req.status = REQ_DONE /\ v.k.out = k.out + 1
          /\ v.status \in {AD_DONE, AD_CLOSE}
          /\ Sound(m) /\ s.req.method = Lines[m.line].method
          /\ s.req.inbuf = Body(m) /\ s.in \o w = f[t + 2]
      BY <2>3, <2>12 DEF Answers
    <3>2. Answered(v, k) = <<r>>
      <4>1. v.k.out # k.out
        BY <1>2, <1>4, <3>1 DEF ConnRecord
      <4> QED
        BY <2>6, <4>1 DEF Answered
    <3>3. r \in Answer1
      <4> DEFINE q == s.req
      <4>1. q \in Request
        BY <2>5
      <4> HIDE DEF q
      <4>2. q.method \in MethodNames /\ q.inbuf \in Bytes
        BY <4>1 DEF Request, MethodNames
      <4> QED
        BY <4>2 DEF Answer1, q
    <3>4. r.method = Lines[m.line].method /\ r.content = Body(m)
      BY <3>1
    <3> HIDE DEF r
    <3>5. PICK left : left = Settled(ev, c, b, <<r>>)
      OBVIOUS
    <3>6. conn' = left.conn /\ calls' = left.calls /\ answers' = left.answers
      BY <2>10, <3>2, <3>5, Zenon
    <3>7. LeftBy(left, c, <<r>>)
      <4>1. answers \in Seq(Answer1)
        BY DEF Inv
      <4>2. <<r>> \in Seq(Answer1)
        BY <3>3
      <4> QED
        BY <1>6, <2>8, <2>9, <3>5, <4>1, <4>2, SettledLemma
    <3>8. c.out = conn.out + 1 /\ conn.out \in Nat
      BY <1>2, <1>4, <2>8, <3>1 DEF ConnRecord
    <3>9. /\ answers' = answers \o <<r>> /\ calls' \in Seq(Conn!CallType)
          /\ conn' \in ConnRecord /\ conn'.out = conn.out + 1
          /\ c.status = AD_DONE =>
               Serves(left.conn) /\ conn'.status = AD_OK /\ conn'.req = NewRequest
               /\ conn'.in = s.in
          /\ c.status # AD_DONE => conn' = c
      <4>1. ~(c.status = AD_CLOSE /\ c.out = 0)
        BY <3>8
      <4> QED
        BY <2>8, <3>6, <3>7, <3>8, <4>1 DEF LeftBy
    <3>10. /\ answers' \in Seq(Answer1) /\ Len(answers') = t + 1 /\ t \in Nat
           /\ answers'[t + 1] = r /\ DOMAIN answers' = 1..(t + 1) /\ DOMAIN answers = 1..t
           /\ \A j \in 1..t : answers'[j] = answers[j]
      <4>1. answers \in Seq(Answer1)
        BY DEF Inv
      <4> QED
        BY <3>3, <3>9, <4>1 DEF t
    <3>11. sent \in Nat /\ t + 1 <= sent /\ sent' = sent /\ dialogue' = dialogue
      BY <1>1, <2>3, <3>10, ConnTypes
    <3>12. AnswersInOrder'
      <4>1. \A j \in 1..t : /\ Sound(dialogue[j])
                            /\ answers[j].method = Lines[dialogue[j].line].method
                            /\ answers[j].content = Body(dialogue[j])
        BY <3>10 DEF Inv, AnswersInOrder
      <4>2. \A j \in 1..(t + 1) : j \in 1..t \/ j = t + 1
        BY <3>10
      <4>3. \A j \in 1..(t + 1) : /\ Sound(dialogue[j])
                                  /\ answers'[j].method = Lines[dialogue[j].line].method
                                  /\ answers'[j].content = Body(dialogue[j])
        BY <3>1, <3>4, <3>10, <4>1, <4>2, Zenon DEF m
      <4> QED
        BY <3>10, <3>11, <4>3 DEF AnswersInOrder
    <3>13. /\ dialogue' \in Dialogues /\ habit' \in Habits /\ sent' \in 0..Len(dialogue')
           /\ wire' \in Bytes /\ got' \in Nat /\ got' + conn'.out = Len(answers')
      <4>1. got' = got /\ got + conn.out = t
        BY <1>1, <1>2 DEF t
      <4>2. got' + conn'.out = Len(answers')
        BY <1>2, <3>8, <3>9, <3>10, <4>1
      <4>3. dialogue' \in Dialogues /\ habit' \in Habits /\ sent' \in 0..Len(dialogue')
        BY <1>1 DEF Inv
      <4> QED
        BY <1>1, <1>2, <1>3, <4>1, <4>2, <4>3
    <3>14. conn'.live = "open" /\ Serves(conn)' /\ conn'.status # AD_DONE
      <4>1. CASE c.status = AD_DONE
        BY <3>6, <3>9, <4>1, VerdictLemma DEF Serves
      <4>2. CASE c.status # AD_DONE
        BY <2>8, <3>9, <4>2 DEF Serves
      <4> QED
        BY <4>1, <4>2
    <3>15. conn'.status # AD_CLOSE => \E seen1, f1 : Pending(seen1, f1)' /\ Reads(conn, seen1)'
      <4> SUFFICES ASSUME c.status = AD_DONE
                   PROVE  \E seen1, f1 : Pending(seen1, f1)' /\ Reads(conn, seen1)'
        BY <2>8, <3>1, <3>9
      <4>1. PICK z : z = s.in
        OBVIOUS
      <4>2. PICK g : g = [j \in (t + 2)..(sent + 1) |-> f[j]]
        OBVIOUS
      <4>3. /\ f \in [(t + 1)..(sent + 1) -> Bytes] /\ f[sent + 1] = <<>>
            /\ \A j \in (t + 1)..sent : f[j] = Wire(dialogue[j]) \o f[j + 1]
        BY <2>2 DEF Pending, t
      <4>4. \A j \in (t + 2)..(sent + 1) : j \in (t + 1)..(sent + 1) /\ g[j] = f[j]
        BY <3>10, <3>11, <4>2
      <4>5. \A j \in (t + 2)..sent : /\ j \in (t + 1)..sent /\ j \in (t + 2)..(sent + 1)
                                     /\ j + 1 \in (t + 2)..(sent + 1)
        BY <3>10, <3>11
      <4>6. t + 2 \in (t + 2)..(sent + 1) /\ sent + 1 \in (t + 2)..(sent + 1)
            /\ (t + 1) + 1 = t + 2
        BY <3>10, <3>11
      <4>7. /\ g \in [(t + 2)..(sent + 1) -> Bytes] /\ g[sent + 1] = <<>>
            /\ \A j \in (t + 2)..sent : g[j] = Wire(dialogue[j]) \o g[j + 1]
            /\ z \in Bytes /\ z \o w = g[t + 2]
        BY <2>5, <3>1, <4>1, <4>2, <4>3, <4>4, <4>5, <4>6
      <4>8. Len(answers') + 1 = t + 2 /\ wire' = w
        BY <1>1, <3>10, <4>6
      <4>9. Pending(z, g)'
        BY <3>11, <4>7, <4>8 DEF Pending
      <4>10. Reads(conn, z)'
        BY <3>9, <4>1 DEF Reads
      <4> QED
        BY <4>9, <4>10
    <3> QED
      BY <3>9, <3>10, <3>12, <3>13, <3>14, <3>15 DEF Inv
  <2> QED
    BY <2>4, <2>11, <2>12
<1> QED
  BY <1>7, <1>8

\* What the client has sent and no hook has answered is in the session or on its
\* way, for as long as the server may still answer it; the parser is where these
\* bytes lead it in one go; each answer is to the request of its number; and the
\* hooks without a method are inside a session. This is inductive.
THEOREM ConnInvariant == Spec => []Inv
<1>1. Init => Inv
  BY InvInit
<1>2. Inv /\ [Next]_vars => Inv'
  <2> SUFFICES ASSUME Inv, [Next]_vars PROVE Inv'
    OBVIOUS
  <2>1. CASE Client
    BY <2>1, ClientStep
  <2>2. CASE ListenerCb
    BY <2>2, ListenerStep
  <2>3. CASE WriteCb
    BY <2>3, WriteStep
  <2>4. CASE EventCb
    BY <2>4, EventStep
  <2>5. ASSUME NEW n \in 1..Len(wire), ReadCb(n) PROVE Inv'
    BY <2>5, ReadStep
  <2>6. CASE UNCHANGED vars
    <3>1. /\ UNCHANGED <<dialogue, habit, sent, wire, conn, calls, answers, got>>
      BY <2>6 DEF vars
    <3>2. ASSUME NEW seen, NEW f, Pending(seen, f), Reads(conn, seen)
          PROVE  Pending(seen, f)' /\ Reads(conn, seen)'
      BY <3>1, <3>2 DEF Pending, Reads
    <3>3. conn.live # "freed" /\ conn.status # AD_CLOSE =>
            \E seen, f : Pending(seen, f)' /\ Reads(conn, seen)'
      <4> SUFFICES ASSUME conn.live # "freed", conn.status # AD_CLOSE
                   PROVE  \E seen, f : Pending(seen, f)' /\ Reads(conn, seen)'
        OBVIOUS
      <4>1. PICK seen, f : Pending(seen, f) /\ Reads(conn, seen)
        BY DEF Inv
      <4> QED
        BY <3>2, <4>1
    <3>4. AnswersInOrder' /\ (Serves(conn) => Serves(conn)')
      BY <3>1 DEF Inv, AnswersInOrder, Serves
    <3> QED
      BY <3>1, <3>3, <3>4 DEF Inv
  <2> QED
    BY <2>1, <2>2, <2>3, <2>4, <2>5, <2>6 DEF Next
<1> QED
  BY <1>1, <1>2, PTL DEF Spec

-----------------------------------------------------------------------------
(* The properties.                                                         *)

\* conn_cb, the parser and the hooks of the example keep their types, and the
\* answers in the out-buffer are those that the client has not got.
THEOREM ConnTypeCorrect == Spec => []TypeOK
<1>1. Inv => TypeOK
  <2> SUFFICES ASSUME Inv PROVE TypeOK
    OBVIOUS
  <2>1. /\ dialogue \in Dialogues /\ habit \in Habits /\ sent \in 0..Len(dialogue)
        /\ {wire, conn.in} \subseteq Bytes /\ conn.req \in Request \cup {NoReq}
        /\ got + conn.out = Len(answers)
    BY ConnTypes DEF Inv, ConnRecord
  <2>2. conn.out \in 0..Len(dialogue)
    <3>1. /\ conn.out \in Nat /\ got \in Nat /\ Len(answers) \in Nat /\ sent \in Nat
          /\ Len(dialogue) \in Nat /\ Len(answers) <= sent /\ sent <= Len(dialogue)
      BY ConnTypes
    <3> QED
      BY <2>1, <3>1
  <2>3. conn \in ConnRecord /\ calls \in Seq(Conn!CallType)
    BY DEF Inv
  <2> DEFINE view == [live |-> conn.live, status |-> conn.status,
                      out |-> conn.out > 0, in |-> conn.in # <<>>, rd |-> conn.rd,
                      wr |-> conn.wr, method |-> conn.method,
                      slot |-> IF conn.req = NoReq THEN {} ELSE {1},
                      lost |-> FALSE, expired |-> conn.expired, told |-> conn.told]
  <2>4. view \in Conn!ConnType
    <3>1. /\ conn.live \in {"none", "open", "freed"} /\ conn.status \in Verdicts
          /\ conn.rd \in BOOLEAN /\ conn.wr \in {"idle", "armed", "failed"}
          /\ conn.method \in MethodNames /\ conn.expired \in BOOLEAN
          /\ conn.told \in [Hooks -> {"none", "init", "close"}]
      BY <2>3 DEF ConnRecord
    <3>2. (conn.out > 0) \in BOOLEAN /\ (conn.in # <<>>) \in BOOLEAN
      OBVIOUS
    <3>3. (IF conn.req = NoReq THEN {} ELSE {1}) \in SUBSET Conn!Slots
      BY DEF Conn!Slots
    <3>4. Verdicts = Conn!Status /\ Hooks = Conn!Hooks
      BY VerdictLemma DEF Verdicts, Conn!Status, Hooks, Conn!Hooks
    <3> QED
      BY <3>1, <3>2, <3>3, <3>4 DEF Conn!ConnType, MethodNames
  <2>5. Conn!TypeOK
    BY <2>3, <2>4 DEF Conn!TypeOK
  <2> QED
    BY <2>1, <2>2, <2>5 DEF TypeOK
<1> QED
  BY <1>1, ConnInvariant, PTL

\* A hook without a method hears INIT when a connection of the example opens and
\* after each session that conn_cb renews, and CLOSE as the last event.
THEOREM SessionsPaired == Spec => []EveryHookPaired
<1>1. Inv => EveryHookPaired
  <2> SUFFICES ASSUME Inv,
                      NEW h \in {g \in Conn!Hooks :
                                   <<NoMethod, GetMethod, NoMethod>>[g] = NoMethod}
               PROVE  /\ conn.live = "open" => conn.told[h] = "init"
                      /\ conn.live = "freed" => conn.told[h] = "close"
    BY DEF EveryHookPaired, Conn!EveryHookPaired
  <2>1. h = 1 \/ h = 3
    <3>1. GetMethod # NoMethod
      BY GetAssumption, SymbolAssumption
    <3>2. h \in {1, 2, 3}
      BY DEF Conn!Hooks
    <3> QED
      BY <3>1, <3>2
  <2> QED
    BY <2>1 DEF Inv, Serves
<1> QED
  BY <1>1, ConnInvariant, PTL

\* The example answers the requests of a client in their order, each once, by
\* its own method and with its own content, and no malformed one, however TCP
\* cuts them, whether the client waits or not and whatever ends the connection.
THEOREM AlwaysAnswersInOrder == Spec => []AnswersInOrder
<1>1. Inv => AnswersInOrder
  BY DEF Inv
<1> QED
  BY <1>1, ConnInvariant, PTL

-----------------------------------------------------------------------------
(* The connection implements AdConn.                                       *)

\* A connection as AdConn sees it.
View(k) ==
  [live |-> k.live, status |-> k.status,
   out |-> k.out > 0, in |-> k.in # <<>>, rd |-> k.rd,
   wr |-> k.wr, method |-> k.method,
   slot |-> IF k.req = NoReq THEN {} ELSE {1},
   lost |-> FALSE, expired |-> k.expired, told |-> k.told]

\* What the hooks of the example do: the handler attaches its parser state.
Deed(wrote, ate, attach) == [wrote |-> wrote, ate |-> ate, attach |-> attach]

HeardAs(r, ev, hs, d) ==
  [live |-> r.live, status |-> r.status, out |-> r.out \/ d.wrote,
   in |-> r.in /\ ~d.ate, rd |-> r.rd,
   wr |-> IF d.wrote /\ r.wr # "failed" THEN "armed" ELSE r.wr,
   method |-> r.method, slot |-> r.slot \cup d.attach,
   lost |-> r.lost \/ Conn!PushedOut(r.slot, d.attach), expired |-> r.expired,
   told |-> [h \in Hooks |-> IF h \in hs THEN Conn!Told(ev, r.told[h]) ELSE r.told[h]]]

\* What AdConn says that hooks leave, field by field.
LEMMA HeardLemma ==
  ASSUME NEW k, NEW ev, NEW hs, NEW d
  PROVE  Conn!Heard(View(k), ev, hs, d) = HeardAs(View(k), ev, hs, d)
<1> DEFINE r  == View(k)
           t1 == [h \in Hooks |-> IF h \in hs THEN Conn!Told(ev, r.told[h]) ELSE r.told[h]]
           w1 == IF d.wrote /\ r.wr # "failed" THEN "armed" ELSE r.wr
           o1 == r.out \/ d.wrote
           i1 == r.in /\ ~d.ate
           l1 == r.lost \/ Conn!PushedOut(r.slot, d.attach)
           s1 == r.slot \cup d.attach
<1>1. Hooks = Conn!Hooks
  BY DEF Hooks, Conn!Hooks
<1>2. Conn!Heard(r, ev, hs, d) =
        [r EXCEPT !.out = o1, !.wr = w1, !.in = i1, !.lost = l1, !.slot = s1, !.told = t1]
  <2> HIDE DEF r
  <2> QED
    BY <1>1, Zenon DEF Conn!Heard
<1>3. HeardAs(r, ev, hs, d) =
        [live |-> r.live, status |-> r.status, out |-> o1, in |-> i1, rd |-> r.rd,
         wr |-> w1, method |-> r.method, slot |-> s1, lost |-> l1,
         expired |-> r.expired, told |-> t1]
  <2> HIDE DEF r
  <2> QED
    BY Zenon DEF HeardAs
<1> DEFINE o0 == k.out > 0
           i0 == k.in # <<>>
           s0 == IF k.req = NoReq THEN {} ELSE {1}
<1> HIDE DEF t1, w1, o1, i1, l1, s1, r
<1>4. r = [live |-> k.live, status |-> k.status, out |-> o0, in |-> i0, rd |-> k.rd,
           wr |-> k.wr, method |-> k.method, slot |-> s0, lost |-> FALSE,
           expired |-> k.expired, told |-> k.told]
  BY Zenon DEF View, r
<1> HIDE DEF o0, i0, s0
<1>5. Conn!Heard(r, ev, hs, d) = HeardAs(r, ev, hs, d)
  <2>1. /\ r.live = k.live /\ r.status = k.status /\ r.rd = k.rd
        /\ r.method = k.method /\ r.expired = k.expired
    BY <1>4
  <2> QED
    BY <1>2, <1>3, <1>4, <2>1, ZenonT(30)
<1> QED
  BY <1>5 DEF r

\* The walks of AdConn among which those of the example are.
LEMMA ChainLemma ==
  ASSUME NEW m, NEW k
  PROVE  Conn!Chain(m, k.method) = {1} \cup Behind(k)
<1>1. GetMethod # NoMethod
  BY GetAssumption, SymbolAssumption
<1>2. Conn!Hooks = {1, 2, 3}
  BY DEF Conn!Hooks
<1>3. \A x : /\ Conn!Matches(1, x) /\ Conn!Matches(3, x)
             /\ Conn!Matches(2, x) <=> x \in {NoMethod, GetMethod}
  BY <1>1 DEF Conn!Matches
<1>4. \A h : h \in Conn!Chain(m, k.method) <=>
               h \in {1, 2, 3} /\ Conn!Matches(h, IF h = 1 THEN m ELSE k.method)
  BY <1>2 DEF Conn!Chain
<1>5. \A h : h \in {1} \cup Behind(k) <=>
               h \in {1, 3} \/ (h = 2 /\ k.method \in {NoMethod, GetMethod})
  BY DEF Behind
<1> QED
  BY <1>3, <1>4, <1>5

Stopped(C, R, n) ==
  {[status |-> s, hooks |-> {g \in C : g <= h}, method |-> n] : h \in C, s \in R}

\* A walk that stops at a hook of the chain with one of its answers.
LEMMA StoppedLemma ==
  ASSUME NEW C, NEW R, NEW n, NEW h \in C, NEW s \in R
  PROVE  [status |-> s, hooks |-> {g \in C : g <= h}, method |-> n] \in Stopped(C, R, n)
<1> DEFINE F(i, z) == [status |-> z, hooks |-> {g \in C : g <= i}, method |-> n]
<1>1. {F(i, z) : i \in C, z \in R} \subseteq Stopped(C, R, n)
  BY DEF Stopped
<1> HIDE DEF F
<1>2. F(h, s) \in {F(i, z) : i \in C, z \in R}
  OBVIOUS
<1> QED
  BY <1>1, <1>2 DEF F

\* The answers of the example's hooks to an event.
Replied(ev) ==
  [e \in {{"INIT", "WRITE"}, {"INIT"}, {"READ"}, {"WRITE"}, {"CLOSE"},
          {"CLOSE", "TIMEOUT"}, {"CLOSE", "SHUTDOWN"}} |->
     IF e = {"READ"} THEN {AD_OK, AD_TAKEOVER, AD_DONE, AD_CLOSE}
                     ELSE {AD_OK}][ev]

\* The walks of AdConn: to the end of the chain, or stopped at a hook.
LEMMA WalksToDef ==
  ASSUME NEW ev, NEW m, NEW n
  PROVE  Conn!WalksTo(ev, m, n) =
           {[status |-> Conn!AD_OK, hooks |-> Conn!Chain(m, n), method |-> n]} \cup
           Stopped(Conn!Chain(m, n), Replied(ev) \ {Conn!AD_OK}, n)
BY DEF Conn!WalksTo, Stopped, Replied

\* The walks of the example are among those of AdConn: every event may reach the
\* whole chain, and a READ may stop at any hook with any answer.
LEMMA WalksOfConn ==
  ASSUME NEW ev \in Openings \cup Closings \cup CbEvents, NEW m, NEW k,
         k.method \in {m} \cup (IF ev = {"READ"} /\ m = NoMethod THEN Methods ELSE {})
  PROVE  /\ [status |-> AD_OK, hooks |-> {1} \cup Behind(k), method |-> k.method]
              \in Conn!Walks(ev, m)
         /\ ev = {"READ"} => \A h \in {1} \cup Behind(k), s \in {AD_TAKEOVER, AD_DONE, AD_CLOSE} :
              [status |-> s, hooks |-> {g \in {1} \cup Behind(k) : g <= h},
               method |-> k.method] \in Conn!Walks(ev, m)
<1> DEFINE n == k.method
           ch == {1} \cup Behind(k)
<1>1. Conn!Chain(m, n) = ch
  BY ChainLemma
<1>2. n \in Conn!MethodAfter(ev, m)
  BY DEF Conn!MethodAfter, Conn!EvRead
<1> HIDE DEF n, ch
<1>3. Conn!WalksTo(ev, m, n) \subseteq Conn!Walks(ev, m)
  BY <1>2 DEF Conn!Walks
<1>4. [status |-> AD_OK, hooks |-> ch, method |-> n] \in Conn!WalksTo(ev, m, n)
  BY <1>1, VerdictLemma DEF Conn!WalksTo
<1>5. ASSUME ev = {"READ"}, NEW h \in ch, NEW s \in {AD_TAKEOVER, AD_DONE, AD_CLOSE}
      PROVE  [status |-> s, hooks |-> {g \in ch : g <= h}, method |-> n]
               \in Conn!WalksTo(ev, m, n)
  <2>1. Replied(ev) = {AD_OK, AD_TAKEOVER, AD_DONE, AD_CLOSE}
    BY <1>5 DEF Replied
  <2>2. s \in Replied(ev) \ {Conn!AD_OK}
    BY <1>5, <2>1, VerdictLemma
  <2>3. [status |-> s, hooks |-> {g \in ch : g <= h}, method |-> n]
          \in Stopped(ch, Replied(ev) \ {Conn!AD_OK}, n)
    BY <2>2, StoppedLemma
  <2> QED
    BY <1>1, <2>3, WalksToDef
<1> QED
  BY <1>3, <1>4, <1>5 DEF n, ch

\* A callback that leaves the only connection seen as x.
LEMMA LeaveLemma ==
  ASSUME NEW x, NEW b, View(conn') = x, calls' = b
  PROVE  Conn!Leave("c", x, b)
<1> DEFINE old == [c \in {"c"} |-> View(conn)]
           new == [c \in {"c"} |-> View(conn')]
<1>1. new = [old EXCEPT !["c"] = x]
  <2> HIDE DEF View
  <2> QED
    OBVIOUS
<1>2. [c \in {"c"} |-> calls'] = [y \in {"c"} |-> IF y = "c" THEN b ELSE <<>>]
  OBVIOUS
<1> QED
  BY <1>1, <1>2 DEF Conn!Leave, View

\* A connection that is not idle if there is output that was not there before.
Armed(k) == k.out > conn.out => k.wr # "idle"

Attached(ev) == IF ev \in Openings THEN {1} ELSE {}

\* The deeds of the example are among those of AdConn: INIT attaches the parser,
\* a READ takes input and writes answers.
LEMMA DeedLemma ==
  ASSUME NEW ev \in Openings \cup Closings \cup CbEvents
  PROVE  /\ Deed(FALSE, FALSE, Attached(ev)) \in Conn!Deeds(ev)
         /\ ev = {"READ"} => \A wrote, ate \in BOOLEAN :
              Deed(wrote, ate, {}) \in Conn!Deeds(ev)
<1>1. Attached(ev) \in IF ev \in {{"INIT", "WRITE"}, {"INIT"}} THEN SUBSET {0, 1} ELSE {{}}
  BY DEF Attached, Openings
<1>2. {"READ"} \notin {{"INIT", "WRITE"}, {"INIT"}}
  OBVIOUS
<1> HIDE DEF Attached
<1> QED
  BY <1>1, <1>2 DEF Conn!Deeds, Conn!EvRead, Conn!Slots, Deed

\* INIT and CLOSE are heard by hooks that AdConn lets hear them.
LEMMA AudienceLemma ==
  ASSUME NEW ev \in Openings \cup Closings, NEW k
  PROVE  {1} \cup Behind(k) \in Conn!Audiences(ev, k.method)
<1> DEFINE v == [status |-> AD_OK, hooks |-> {1} \cup Behind(k), method |-> k.method]
<1>1. v \in Conn!Walks(ev, k.method)
  BY WalksOfConn
<1>2. v.hooks = {1} \cup Behind(k)
  OBVIOUS
<1> HIDE DEF v
<1> QED
  BY <1>1, <1>2 DEF Conn!Audiences

\* An event whose answer is dropped, as AdConn sees it.
LEMMA DroppedView ==
  ASSUME NEW k \in ConnRecord, NEW ev \in Openings \cup Closings, Armed(k),
         ev \in Openings => k.req = NoReq
  PROVE  View(Dropped(ev, k)) =
           Conn!Heard(View(k), ev, {1} \cup Behind(k), Deed(FALSE, FALSE, Attached(ev)))
<1> DEFINE t == Dropped(ev, k)
           hs == {1} \cup Behind(k)
           d == Deed(FALSE, FALSE, Attached(ev))
           v == View(k)
           told == [h \in Hooks |-> IF h \in hs THEN Conn!Told(ev, v.told[h]) ELSE v.told[h]]
<1>1. /\ t \in ConnRecord
      /\ t.live = k.live /\ t.status = k.status /\ t.in = k.in /\ t.out = k.out
      /\ t.rd = k.rd /\ t.method = k.method /\ t.expired = k.expired
      /\ t.req = IF ev \in Openings THEN NewRequest ELSE k.req
      /\ t.wr = IF k.out > conn.out /\ k.wr # "failed" THEN "armed" ELSE k.wr
      /\ \A h \in Hooks : t.told[h] = IF h \in hs
                                      THEN Conn!Told(ev, k.told[h]) ELSE k.told[h]
  BY DroppedLemma
<1>2. d.wrote = FALSE /\ d.ate = FALSE /\ d.attach = Attached(ev)
  BY DEF Deed
<1>3. /\ v.live = k.live /\ v.status = k.status /\ v.out = (k.out > 0)
      /\ v.in = (k.in # <<>>) /\ v.rd = k.rd /\ v.wr = k.wr /\ v.method = k.method
      /\ v.slot = (IF k.req = NoReq THEN {} ELSE {1})
      /\ v.lost = FALSE /\ v.expired = k.expired /\ v.told = k.told
  BY DEF View
<1> HIDE DEF t, hs, d, v
<1>4. t.wr = k.wr
  BY <1>1 DEF ConnRecord, Armed
<1>5. t.told = told
  BY <1>1, <1>3 DEF ConnRecord
<1>6. (IF t.req = NoReq THEN {} ELSE {1}) = v.slot \cup d.attach
  <2>1. t.req = IF ev \in Openings THEN NewRequest ELSE k.req
    BY <1>1
  <2> QED
    BY <1>2, <1>3, <2>1, ReqLemma DEF Attached
<1>7. (v.lost \/ Conn!PushedOut(v.slot, d.attach)) = FALSE
  BY <1>2, <1>3 DEF Conn!PushedOut, Attached
<1>8. (v.out \/ d.wrote) = (t.out > 0) /\ (v.in /\ ~d.ate) = (t.in # <<>>)
  <2>1. \A a \in BOOLEAN : (a \/ FALSE) = a /\ (a /\ ~FALSE) = a
    BY Zenon
  <2>2. (t.out > 0) \in BOOLEAN /\ (t.in # <<>>) \in BOOLEAN
    OBVIOUS
  <2>3. v.out = (t.out > 0) /\ v.in = (t.in # <<>>)
    BY <1>1, <1>3, Zenon
  <2> QED
    BY <1>2, <2>1, <2>2, <2>3, Zenon
<1>9. (IF d.wrote /\ v.wr # "failed" THEN "armed" ELSE v.wr) = t.wr
  BY <1>2, <1>3, <1>4
<1>10. View(t) = HeardAs(v, ev, hs, d)
  <2> HIDE DEF told
  <2>1. HeardAs(v, ev, hs, d) =
          [live |-> v.live, status |-> v.status, out |-> v.out \/ d.wrote,
           in |-> v.in /\ ~d.ate, rd |-> v.rd,
           wr |-> IF d.wrote /\ v.wr # "failed" THEN "armed" ELSE v.wr,
           method |-> v.method, slot |-> v.slot \cup d.attach,
           lost |-> v.lost \/ Conn!PushedOut(v.slot, d.attach), expired |-> v.expired,
           told |-> told]
    BY Zenon DEF HeardAs, told
  <2> QED
    BY <1>1, <1>3, <1>5, <1>6, <1>7, <1>8, <1>9, <2>1, Zenon DEF View
<1>11. Conn!Heard(v, ev, hs, d) = HeardAs(v, ev, hs, d)
  BY HeardLemma DEF v
<1> QED
  BY <1>10, <1>11 DEF t, hs, d, v

\* conn_reset and conn_free, as AdConn sees them.
LEMMA ResetView ==
  ASSUME NEW k \in ConnRecord
  PROVE  /\ View(Reset(k)) = Conn!Reset(View(k))
         /\ View([Reset(k) EXCEPT !.live = "freed", !.rd = FALSE, !.wr = "idle"]) =
              Conn!Free(View(k))
<1> DEFINE o == k.out > 0
           i == k.in # <<>>
           s == IF k.req = NoReq THEN {} ELSE {1}
           r == [live |-> k.live, status |-> k.status, out |-> o, in |-> i, rd |-> k.rd,
                 wr |-> k.wr, method |-> k.method, slot |-> s, lost |-> FALSE,
                 expired |-> k.expired, told |-> k.told]
           t == Reset(k)
           u == [t EXCEPT !.live = "freed", !.rd = FALSE, !.wr = "idle"]
<1>1. View(k) = r
  BY Zenon DEF View
<1>2. /\ t \in ConnRecord
      /\ t.live = k.live /\ t.status = AD_OK /\ t.in = k.in /\ t.out = k.out
      /\ t.rd = k.rd /\ t.wr = k.wr /\ t.method = NoMethod /\ t.req = NoReq
      /\ t.expired = k.expired /\ t.told = k.told
  BY ResetLemma
<1> HIDE DEF t
<1>3. /\ u.live = "freed" /\ u.status = AD_OK /\ u.in = k.in /\ u.out = k.out
      /\ u.rd = FALSE /\ u.wr = "idle" /\ u.method = NoMethod /\ u.req = NoReq
      /\ u.expired = k.expired /\ u.told = k.told
  BY <1>2 DEF ConnRecord
<1> HIDE DEF u
<1>4. View(t) = [live |-> k.live, status |-> AD_OK, out |-> o, in |-> i, rd |-> k.rd,
                 wr |-> k.wr, method |-> NoMethod, slot |-> {}, lost |-> FALSE,
                 expired |-> k.expired, told |-> k.told]
  <2>1. (IF t.req = NoReq THEN {} ELSE {1}) = {}
    BY <1>2
  <2> QED
    BY <1>2, <2>1, Zenon DEF View
<1>5. View(u) = [live |-> "freed", status |-> AD_OK, out |-> o, in |-> i, rd |-> FALSE,
                 wr |-> "idle", method |-> NoMethod, slot |-> {}, lost |-> FALSE,
                 expired |-> k.expired, told |-> k.told]
  <2>1. (IF u.req = NoReq THEN {} ELSE {1}) = {}
    BY <1>3
  <2> QED
    BY <1>3, <2>1, Zenon DEF View
<1> HIDE DEF o, i, s
<1>6. Conn!Reset(r) = [live |-> k.live, status |-> AD_OK, out |-> o, in |-> i, rd |-> k.rd,
                 wr |-> k.wr, method |-> NoMethod, slot |-> {}, lost |-> FALSE,
                 expired |-> k.expired, told |-> k.told]
  <2>1. Conn!Reset(r) = [r EXCEPT !.status = AD_OK, !.slot = {}, !.method = NoMethod]
    <3>1. Conn!AD_OK = AD_OK
      BY VerdictLemma
    <3> HIDE DEF r
    <3> QED
      BY <3>1, Zenon DEF Conn!Reset
  <2> QED
    BY <2>1
<1>7. Conn!Free(r) = [live |-> "freed", status |-> AD_OK, out |-> o, in |-> i, rd |-> FALSE,
                 wr |-> "idle", method |-> NoMethod, slot |-> {}, lost |-> FALSE,
                 expired |-> k.expired, told |-> k.told]
  <2> DEFINE x == Conn!Reset(r)
  <2>1. x = [live |-> k.live, status |-> AD_OK, out |-> o, in |-> i, rd |-> k.rd,
                 wr |-> k.wr, method |-> NoMethod, slot |-> {}, lost |-> FALSE,
                 expired |-> k.expired, told |-> k.told]
    BY <1>6
  <2>2. Conn!Free(r) = [x EXCEPT !.live = "freed", !.rd = FALSE, !.wr = "idle"]
    BY Zenon DEF Conn!Free
  <2> HIDE DEF x
  <2> QED
    BY <2>1, <2>2
<1> HIDE DEF r
<1> QED
  BY <1>1, <1>4, <1>5, <1>6, <1>7 DEF t, u

\* The end of conn_cb, as AdConn sees it.
LEMMA SettledView ==
  ASSUME NEW ev \in CbEvents, NEW k \in ConnRecord, Serves(k), Armed(k),
         NEW b \in Seq(Conn!CallType), NEW new,
         conn' = Settled(ev, k, b, new).conn, calls' = Settled(ev, k, b, new).calls
  PROVE  Conn!Settle("c", ev, View(k), b)
<1> DEFINE left == Settled(ev, k, b, new)
           last == IF "CLOSE" \in ev THEN ev ELSE {"CLOSE"}
           shut == Dropped({"CLOSE"}, k)
           next == Reset(shut)
           off  == Dropped(last, k)
           end  == [Reset(off) EXCEPT !.live = "freed", !.rd = FALSE, !.wr = "idle"]
           mk(x, d) == [conn |-> x, calls |-> b \o d, answers |-> answers \o new]
           none == Deed(FALSE, FALSE, {})
<1>1. /\ last \in Closings /\ {"CLOSE"} \in Closings /\ {"INIT"} \in Openings
      /\ last \notin Openings /\ {"CLOSE"} \notin Openings
  BY DEF Closings, Openings, CbEvents
<1>2. /\ AD_DONE # AD_CLOSE /\ Conn!AD_DONE = AD_DONE /\ Conn!AD_CLOSE = AD_CLOSE
      /\ Conn!AD_OK = AD_OK /\ Conn!AD_TAKEOVER = AD_TAKEOVER
  BY VerdictLemma
<1>3. /\ View(k).status = k.status /\ View(k).method = k.method
      /\ View(k).out = (k.out > 0)
  BY DEF View
<1>4. \A h : Conn!Call({"CLOSE"}, {1} \cup Behind(h)) = Call({"CLOSE"}, h)
             /\ Conn!Call({"INIT"}, {1} \cup Behind(h)) = Call({"INIT"}, h)
             /\ Conn!Call(last, {1} \cup Behind(h)) = Call(last, h)
  BY DEF Call
<1>5. CASE k.status = AD_DONE
  <2> DEFINE t == Dropped({"INIT"}, next)
             hs1 == {1} \cup Behind(k)
             hs2 == {1} \cup Behind(next)
             d2 == Deed(FALSE, FALSE, {1})
             dispatched == <<Call({"CLOSE"}, k), Call({"INIT"}, next)>>
  <2>1. left = mk(t, dispatched)
    BY <1>2, <1>5 DEF Settled
  <2>2. conn' = t /\ calls' = b \o dispatched
    BY <2>1
  <2>3. shut \in ConnRecord /\ Armed(shut)
    <3>1. /\ shut \in ConnRecord /\ shut.out = k.out
          /\ shut.wr = IF k.out > conn.out /\ k.wr # "failed" THEN "armed" ELSE k.wr
      BY <1>1, DroppedLemma
    <3> HIDE DEF shut
    <3> QED
      BY <3>1 DEF Armed
  <2>4. View(shut) = Conn!Heard(View(k), {"CLOSE"}, hs1, none)
    <3>1. Attached({"CLOSE"}) = {}
      BY <1>1 DEF Attached
    <3> QED
      BY <1>1, <3>1, DroppedView
  <2> HIDE DEF shut
  <2>5. /\ next \in ConnRecord /\ next.method = NoMethod /\ next.req = NoReq
        /\ Armed(next) /\ View(next) = Conn!Reset(View(shut))
    <3>1. /\ next \in ConnRecord /\ next.method = NoMethod /\ next.req = NoReq
          /\ next.out = shut.out /\ next.wr = shut.wr
      BY <2>3, ResetLemma
    <3>2. View(next) = Conn!Reset(View(shut))
      BY <2>3, ResetView
    <3> HIDE DEF next
    <3> QED
      BY <2>3, <3>1, <3>2 DEF Armed
  <2> HIDE DEF next
  <2>6. View(t) = Conn!Heard(View(next), {"INIT"}, hs2, d2)
    <3>1. Attached({"INIT"}) = {1}
      BY <1>1 DEF Attached
    <3> QED
      BY <1>1, <2>5, <3>1, DroppedView
  <2> HIDE DEF t
  <2>7. hs1 \in Conn!Audiences({"CLOSE"}, k.method) /\ none \in Conn!Deeds({"CLOSE"})
    <3>1. Attached({"CLOSE"}) = {}
      BY <1>1 DEF Attached
    <3> QED
      BY <1>1, <3>1, AudienceLemma, DeedLemma
  <2>8. hs2 \in Conn!Audiences({"INIT"}, NoMethod) /\ d2 \in Conn!Deeds({"INIT"})
    <3>1. Attached({"INIT"}) = {1}
      BY <1>1 DEF Attached
    <3> QED
      BY <1>1, <2>5, <3>1, AudienceLemma, DeedLemma
  <2>9. dispatched = <<Conn!Call({"CLOSE"}, hs1), Conn!Call({"INIT"}, hs2)>>
    BY <1>4
  <2>10. Conn!Leave("c",
           Conn!Heard(Conn!Reset(Conn!Heard(View(k), {"CLOSE"}, hs1, none)),
                      {"INIT"}, hs2, d2),
           b \o <<Conn!Call({"CLOSE"}, hs1), Conn!Call({"INIT"}, hs2)>>)
    BY <2>2, <2>4, <2>5, <2>6, <2>9, LeaveLemma
  <2> HIDE DEF hs1, hs2, d2, none
  <2>11. Conn!Renew("c", View(k), b)
    BY <1>2, <1>3, <1>5, <2>7, <2>8, <2>10, Zenon DEF Conn!Renew, Conn!EvClose, Conn!EvRenew
  <2> QED
    BY <2>11, Zenon DEF Conn!Settle
<1>6. CASE k.status = AD_CLOSE /\ k.out = 0
  <2> DEFINE hs == {1} \cup Behind(k)
             dispatched == <<Call(last, k)>>
  <2>1. left = mk(end, dispatched)
    BY <1>2, <1>6 DEF Settled
  <2>2. conn' = end /\ calls' = b \o dispatched
    BY <2>1
  <2>3. off \in ConnRecord
    BY <1>1, DroppedLemma
  <2>4. Attached(last) = {}
    BY <1>1 DEF Attached
  <2>5. View(off) = Conn!Heard(View(k), last, hs, none)
    BY <1>1, <2>4, DroppedView
  <2> HIDE DEF off
  <2>6. View(end) = Conn!Free(View(off))
    BY <2>3, ResetView
  <2> HIDE DEF end, last
  <2>7. hs \in Conn!Audiences(last, k.method) /\ none \in Conn!Deeds(last)
    BY <1>1, <2>4, AudienceLemma, DeedLemma
  <2>8. dispatched = <<Conn!Call(last, hs)>>
    BY <1>4
  <2>9. Conn!Leave("c", Conn!Free(Conn!Heard(View(k), last, hs, none)),
                   b \o <<Conn!Call(last, hs)>>)
    BY <2>2, <2>5, <2>6, <2>8, LeaveLemma
  <2>10. ~View(k).out
    <3>1. ~(k.out > 0)
      BY <1>6
    <3> QED
      BY <1>3, <3>1, Zenon
  <2> HIDE DEF hs, none
  <2>11. Conn!Release("c", ev, View(k), b)
    BY <1>2, <1>3, <1>6, <2>7, <2>9, <2>10, Zenon DEF Conn!Release, Conn!EvClose, last
  <2> QED
    BY <2>11, Zenon DEF Conn!Settle
<1>7. CASE k.status # AD_DONE /\ ~(k.status = AD_CLOSE /\ k.out = 0)
  <2>1. left = mk(k, <<>>)
    BY <1>7, Zenon DEF Settled
  <2>2. conn' = k /\ calls' = b \o <<>>
    BY <2>1
  <2>3. b \o <<>> = b
    OBVIOUS
  <2>4. Conn!Leave("c", View(k), b)
    BY <2>2, <2>3, LeaveLemma
  <2>5. k.status \in {AD_OK, AD_TAKEOVER} \/ (k.status = AD_CLOSE /\ k.out > 0)
    <3>1. k.status \in Verdicts /\ k.out \in Nat
      BY DEF ConnRecord
    <3> QED
      BY <1>7, <3>1 DEF Verdicts
  <2>6. View(k).status \in {AD_OK, AD_TAKEOVER} \/ (View(k).status = AD_CLOSE /\ View(k).out)
    BY <1>3, <2>5, Zenon
  <2>7. Conn!Keep("c", View(k), b)
    BY <1>2, <2>4, <2>6, Zenon DEF Conn!Keep
  <2> QED
    BY <2>7, Zenon DEF Conn!Settle
<1> QED
  BY <1>5, <1>6, <1>7

\* A callback of a connection that is to be closed or renewed, as AdConn sees it.
LEMMA UnaskedView ==
  ASSUME NEW ev \in CbEvents, NEW k \in ConnRecord, Serves(k), Armed(k),
         k.status \notin {AD_OK, AD_TAKEOVER}, ConnCb(ev, k)
  PROVE  Conn!ConnCb("c", ev, View(k))
<1>1. /\ conn' = Settled(ev, k, <<>>, <<>>).conn
      /\ calls' = Settled(ev, k, <<>>, <<>>).calls
  BY OutcomesLemma, Zenon
<1>2. Conn!Settle("c", ev, View(k), <<>>)
  <2>1. <<>> \in Seq(Conn!CallType)
    OBVIOUS
  <2> QED
    BY <1>1, <2>1, SettledView
<1>3. View(k).status \notin {Conn!AD_OK, Conn!AD_TAKEOVER}
  <2>1. View(k).status = k.status
    BY DEF View
  <2> QED
    BY <2>1, VerdictLemma
<1> QED
  BY <1>2, <1>3, Zenon DEF Conn!ConnCb

\* Such a record, field by field.
ViewOf(live, status, out, in, rd, wr, method, slot, lost, expired, told) ==
  [live |-> live, status |-> status, out |-> out, in |-> in, rd |-> rd, wr |-> wr,
   method |-> method, slot |-> slot, lost |-> lost, expired |-> expired, told |-> told]

Shows(k, live, status, out, in, rd, wr, method, slot, expired, told) ==
  /\ k.live = live /\ k.status = status /\ (k.out > 0) = out /\ (k.in # <<>>) = in
  /\ k.rd = rd /\ k.wr = wr /\ k.method = method
  /\ (IF k.req = NoReq THEN {} ELSE {1}) = slot /\ k.expired = expired /\ k.told = told

SeenWith(k, live, status, out, in, rd, wr, method, slot, expired, told) ==
  View(k) = ViewOf(live, status, out, in, rd, wr, method, slot, FALSE, expired, told)

\* The fields of a connection decide what AdConn sees of it.
LEMMA ViewLemma ==
  ASSUME NEW k, NEW live, NEW status, NEW out, NEW in, NEW rd, NEW wr, NEW method,
         NEW slot, NEW expired, NEW told,
         Shows(k, live, status, out, in, rd, wr, method, slot, expired, told)
  PROVE  SeenWith(k, live, status, out, in, rd, wr, method, slot, expired, told)
BY Zenon DEF View, ViewOf, Shows, SeenWith

PutsLive(r, x, q) == [r EXCEPT !.live = x] = q
PutsStatus(r, x, q) == [r EXCEPT !.status = x] = q
PutsOut(r, x, q) == [r EXCEPT !.out = x] = q
PutsIn(r, x, q) == [r EXCEPT !.in = x] = q
PutsRd(r, x, q) == [r EXCEPT !.rd = x] = q
PutsWr(r, x, q) == [r EXCEPT !.wr = x] = q
PutsMethod(r, x, q) == [r EXCEPT !.method = x] = q
PutsExpired(r, x, q) == [r EXCEPT !.expired = x] = q

\* An update of live.
LEMMA WithLive ==
  ASSUME NEW a, NEW b, NEW c, NEW d, NEW e, NEW f, NEW g, NEW h, NEW i, NEW j, NEW k, NEW x
  PROVE  PutsLive(ViewOf(a, b, c, d, e, f, g, h, i, j, k), x,
                  ViewOf(x, b, c, d, e, f, g, h, i, j, k))
BY SMT DEF PutsLive, ViewOf

\* An update of status.
LEMMA WithStatus ==
  ASSUME NEW a, NEW b, NEW c, NEW d, NEW e, NEW f, NEW g, NEW h, NEW i, NEW j, NEW k, NEW x
  PROVE  PutsStatus(ViewOf(a, b, c, d, e, f, g, h, i, j, k), x,
                    ViewOf(a, x, c, d, e, f, g, h, i, j, k))
BY SMT DEF PutsStatus, ViewOf

\* An update of out.
LEMMA WithOut ==
  ASSUME NEW a, NEW b, NEW c, NEW d, NEW e, NEW f, NEW g, NEW h, NEW i, NEW j, NEW k, NEW x
  PROVE  PutsOut(ViewOf(a, b, c, d, e, f, g, h, i, j, k), x,
                 ViewOf(a, b, x, d, e, f, g, h, i, j, k))
BY SMT DEF PutsOut, ViewOf

\* An update of in.
LEMMA WithIn ==
  ASSUME NEW a, NEW b, NEW c, NEW d, NEW e, NEW f, NEW g, NEW h, NEW i, NEW j, NEW k, NEW x
  PROVE  PutsIn(ViewOf(a, b, c, d, e, f, g, h, i, j, k), x,
                ViewOf(a, b, c, x, e, f, g, h, i, j, k))
BY SMT DEF PutsIn, ViewOf

\* An update of rd.
LEMMA WithRd ==
  ASSUME NEW a, NEW b, NEW c, NEW d, NEW e, NEW f, NEW g, NEW h, NEW i, NEW j, NEW k, NEW x
  PROVE  PutsRd(ViewOf(a, b, c, d, e, f, g, h, i, j, k), x,
                ViewOf(a, b, c, d, x, f, g, h, i, j, k))
BY SMT DEF PutsRd, ViewOf

\* An update of wr.
LEMMA WithWr ==
  ASSUME NEW a, NEW b, NEW c, NEW d, NEW e, NEW f, NEW g, NEW h, NEW i, NEW j, NEW k, NEW x
  PROVE  PutsWr(ViewOf(a, b, c, d, e, f, g, h, i, j, k), x,
                ViewOf(a, b, c, d, e, x, g, h, i, j, k))
BY SMT DEF PutsWr, ViewOf

\* An update of method.
LEMMA WithMethod ==
  ASSUME NEW a, NEW b, NEW c, NEW d, NEW e, NEW f, NEW g, NEW h, NEW i, NEW j, NEW k, NEW x
  PROVE  PutsMethod(ViewOf(a, b, c, d, e, f, g, h, i, j, k), x,
                    ViewOf(a, b, c, d, e, f, x, h, i, j, k))
BY SMT DEF PutsMethod, ViewOf

\* An update of expired.
LEMMA WithExpired ==
  ASSUME NEW a, NEW b, NEW c, NEW d, NEW e, NEW f, NEW g, NEW h, NEW i, NEW j, NEW k, NEW x
  PROVE  PutsExpired(ViewOf(a, b, c, d, e, f, g, h, i, j, k), x,
                     ViewOf(a, b, c, d, e, f, g, h, i, x, k))
BY SMT DEF PutsExpired, ViewOf

\* The hooks hs were told READ or WRITE of the connection k, answered x and left
\* it as i.
Walked(ev, k, i, hs, x, wrote, ate) ==
  /\ ev \in {{"READ"}, {"WRITE"}} /\ k \in ConnRecord /\ i \in ConnRecord
  /\ hs \in SUBSET Hooks /\ x \in Verdicts /\ wrote \in BOOLEAN /\ ate \in BOOLEAN
  /\ Serves(k) /\ Serves(i) /\ k.status \in {AD_OK, AD_TAKEOVER}
  /\ i.status = k.status /\ i.rd = k.rd /\ i.wr = k.wr /\ i.expired = k.expired
  /\ i.told = k.told
  /\ wrote <=> i.out > conn.out
  /\ i.out > 0 <=> (k.out > 0 \/ wrote)
  /\ i.in # <<>> <=> (k.in # <<>> /\ ~ate)

Verdict(ev, i, hs, x) == [Told(ev, hs, i) EXCEPT !.status = Conn!Raised(@, x)]

SeenAs(ev, k, i, hs, x, wrote, ate) ==
  /\ Armed(Verdict(ev, i, hs, x))
  /\ View(Verdict(ev, i, hs, x)) =
       [Conn!Heard(View(k), ev, hs, Deed(wrote, ate, {})) EXCEPT
          !.status = Conn!Raised(@, x), !.method = i.method]

\* What the hooks leave of the connection, as AdConn sees it.
LEMMA AskedView ==
  ASSUME NEW ev, NEW k, NEW i, NEW hs, NEW x, NEW wrote, NEW ate,
         Walked(ev, k, i, hs, x, wrote, ate)
  PROVE  SeenAs(ev, k, i, hs, x, wrote, ate)
<1>0. /\ ev \in {{"READ"}, {"WRITE"}} /\ k \in ConnRecord /\ i \in ConnRecord
      /\ hs \in SUBSET Hooks /\ x \in Verdicts /\ wrote \in BOOLEAN /\ ate \in BOOLEAN
      /\ Serves(k) /\ Serves(i) /\ k.status \in {AD_OK, AD_TAKEOVER}
      /\ i.status = k.status /\ i.rd = k.rd /\ i.wr = k.wr /\ i.expired = k.expired
      /\ i.told = k.told
      /\ wrote <=> i.out > conn.out
      /\ i.out > 0 <=> (k.out > 0 \/ wrote)
      /\ i.in # <<>> <=> (k.in # <<>> /\ ~ate)
  BY DEF Walked
<1> USE <1>0
<1> DEFINE a == Told(ev, hs, i)
           t == [a EXCEPT !.status = Conn!Raised(a.status, x)]
           d == Deed(wrote, ate, {})
           v == View(k)
           y == Conn!Raised(k.status, x)
           told == [h \in Hooks |-> IF h \in hs THEN Conn!Told(ev, v.told[h]) ELSE v.told[h]]
           w == IF wrote /\ k.wr # "failed" THEN "armed" ELSE k.wr
           o == i.out > 0
           n == i.in # <<>>
           heard == Conn!Heard(v, ev, hs, d)
<1>1. IsTold(a, ev, hs, i)
  BY ToldLemma
<1> HIDE DEF a
<1>2. /\ a \in ConnRecord
      /\ a.live = i.live /\ a.status = i.status /\ a.in = i.in /\ a.out = i.out
      /\ a.rd = i.rd /\ a.method = i.method /\ a.req = i.req /\ a.expired = i.expired
      /\ a.wr = IF i.out > conn.out /\ i.wr # "failed" THEN "armed" ELSE i.wr
      /\ \A h \in Hooks :
           a.told[h] = IF h \in hs THEN Conn!Told(ev, i.told[h]) ELSE i.told[h]
  BY <1>1 DEF IsTold
<1>3. /\ t.live = a.live /\ t.status = y /\ t.in = a.in /\ t.out = a.out
      /\ t.rd = a.rd /\ t.method = a.method /\ t.req = a.req /\ t.expired = a.expired
      /\ t.wr = a.wr /\ t.told = a.told
  BY <1>2 DEF ConnRecord
<1> HIDE DEF t, y
<1>4. t.wr = w
  BY <1>2, <1>3
<1>5. Armed(t)
  BY <1>2, <1>3 DEF Armed
<1>6. /\ v.live = k.live /\ v.status = k.status /\ v.out = (k.out > 0)
      /\ v.in = (k.in # <<>>) /\ v.rd = k.rd /\ v.wr = k.wr /\ v.method = k.method
      /\ v.slot = (IF k.req = NoReq THEN {} ELSE {1})
      /\ v.lost = FALSE /\ v.expired = k.expired /\ v.told = k.told
  BY DEF View
<1> HIDE DEF v
<1>7. t.told = told
  BY <1>2, <1>3, <1>6 DEF ConnRecord
<1>8. d.wrote = wrote /\ d.ate = ate /\ d.attach = {}
  BY DEF Deed
<1> HIDE DEF d
<1>9. View(t) = [live |-> "open", status |-> y, out |-> o, in |-> n, rd |-> k.rd,
                 wr |-> w, method |-> i.method, slot |-> {1}, lost |-> FALSE,
                 expired |-> k.expired, told |-> told]
  <2>1. (IF t.req = NoReq THEN {} ELSE {1}) = {1} /\ t.live = "open"
    BY <1>2, <1>3, ReqLemma DEF Serves
  <2>2. /\ t.status = y /\ t.in = i.in /\ t.out = i.out /\ t.rd = k.rd
        /\ t.method = i.method /\ t.expired = k.expired
    BY <1>2, <1>3
  <2> HIDE DEF told, w
  <2> QED
    BY <1>4, <1>7, <2>1, <2>2, Zenon DEF View
<1>10. heard = [live |-> "open", status |-> k.status, out |-> o, in |-> n, rd |-> k.rd,
                wr |-> w, method |-> k.method, slot |-> {1}, lost |-> FALSE,
                expired |-> k.expired, told |-> told]
  <2>1. heard = HeardAs(v, ev, hs, d)
    BY HeardLemma DEF v
  <2>2. (v.out \/ d.wrote) = o
    <3>1. \A p, q \in BOOLEAN : (p <=> q) => p = q
      BY Zenon
    <3>2. (v.out \/ d.wrote) \in BOOLEAN /\ o \in BOOLEAN
      <4>1. o \in BOOLEAN
        OBVIOUS
      <4> QED
        BY <4>1, Zenon
    <3>3. (v.out \/ d.wrote) <=> o
      BY <1>6, <1>8, Zenon
    <3> QED
      BY <3>1, <3>2, <3>3, Zenon
  <2>3. (v.in /\ ~d.ate) = n
    BY <1>6, <1>8, Zenon
  <2>4. v.slot \cup d.attach = {1}
    BY <1>6, <1>8, ReqLemma DEF Serves
  <2>5. (v.lost \/ Conn!PushedOut(v.slot, d.attach)) = FALSE
    BY <1>6, <1>8 DEF Conn!PushedOut
  <2>6. (IF d.wrote /\ v.wr # "failed" THEN "armed" ELSE v.wr) = w
    BY <1>6, <1>8
  <2>7. v.live = "open"
    BY <1>6 DEF Serves
  <2> HIDE DEF heard, o, n, w
  <2> QED
    BY <1>6, <2>1, <2>2, <2>3, <2>4, <2>5, <2>6, <2>7, Zenon DEF HeardAs
<1> HIDE DEF heard, o, n, w, told
<1>11. heard.status = k.status
  BY <1>10
<1>12. [heard EXCEPT !.status = y, !.method = i.method] = View(t)
  <2> DEFINE c(status, method) == ViewOf("open", status, o, n, k.rd, w, method, {1}, FALSE,
                                         k.expired, told)
  <2>1. PutsStatus(c(k.status, k.method), y, c(y, k.method))
    BY WithStatus, Zenon
  <2>2. PutsMethod(c(y, k.method), i.method, c(y, i.method))
    BY WithMethod, Zenon
  <2>3. heard = c(k.status, k.method) /\ View(t) = c(y, i.method)
    BY <1>9, <1>10, Zenon DEF ViewOf
  <2> HIDE DEF c
  <2> QED
    BY <2>1, <2>2, <2>3, Zenon DEF PutsStatus, PutsMethod
<1>13. [heard EXCEPT !.status = Conn!Raised(@, x), !.method = i.method] = View(t)
  BY <1>11, <1>12, Zenon DEF y
<1> QED
  BY <1>5, <1>13 DEF t, a, heard, v, d, SeenAs, Verdict

\* The opening of the connection, as AdConn sees it.
LEMMA OpeningView == Inv /\ ListenerCb => Conn!ListenerCb("c")
<1> SUFFICES ASSUME Inv, ListenerCb PROVE Conn!ListenerCb("c")
  OBVIOUS
<1> DEFINE k  == [NoConn EXCEPT !.live = "open", !.rd = TRUE, !.wr = "armed"]
           ev == {"INIT", "WRITE"}
           t  == Dropped(ev, k)
           hs == {1} \cup Behind(k)
           d  == Deed(FALSE, FALSE, {1})
           v  == [status |-> AD_OK, hooks |-> hs, method |-> NoMethod]
<1>1. conn.live = "none" /\ conn' = t /\ calls' = <<Call(ev, k)>>
  BY DEF ListenerCb
<1>2. conn = NoConn
  BY <1>1 DEF Inv
<1>3. /\ k \in ConnRecord /\ k.live = "open" /\ k.status = AD_OK /\ k.out = 0
      /\ k.in = <<>> /\ k.method = NoMethod /\ k.req = NoReq /\ k.wr = "armed"
  <2>1. <<>> \in Bytes
    BY BytesJoin
  <2> QED
    BY <2>1 DEF NoConn, ConnRecord, Verdicts, MethodNames
<1>4. View(k) = Conn!NewConn
  <2> DEFINE mute == [h \in Hooks |-> "none"]
             c(live, rd, wr) ==
               ViewOf(live, AD_OK, FALSE, FALSE, rd, wr, NoMethod, {}, FALSE, FALSE, mute)
  <2>1. Hooks = Conn!Hooks
    BY DEF Hooks, Conn!Hooks
  <2>2. k.rd = TRUE /\ k.expired = FALSE /\ k.told = mute
    BY DEF NoConn
  <2> HIDE DEF k, mute
  <2>3. (k.out > 0) = FALSE /\ (k.in # <<>>) = FALSE
        /\ (IF k.req = NoReq THEN {} ELSE {1}) = {}
    BY <1>3
  <2>4. View(k) = c("open", TRUE, "armed")
    BY <1>3, <2>2, <2>3, Zenon DEF View, ViewOf
  <2>5. Conn!NoConn = c("none", FALSE, "idle")
    <3>1. Conn!AD_OK = AD_OK
      BY VerdictLemma
    <3> QED
      BY <2>1, <3>1, Zenon DEF Conn!NoConn, mute, ViewOf
  <2>6. Conn!NewConn = c("open", TRUE, "armed")
    <3>1. PutsLive(c("none", FALSE, "idle"), "open", c("open", FALSE, "idle"))
      BY WithLive, Zenon
    <3>2. PutsRd(c("open", FALSE, "idle"), TRUE, c("open", TRUE, "idle"))
      BY WithRd, Zenon
    <3>3. PutsWr(c("open", TRUE, "idle"), "armed", c("open", TRUE, "armed"))
      BY WithWr, Zenon
    <3> HIDE DEF c
    <3> QED
      BY <2>5, <3>1, <3>2, <3>3, Zenon DEF Conn!NewConn, PutsLive, PutsRd, PutsWr
  <2> QED
    BY <2>4, <2>6
<1>5. ev \in Openings /\ Attached(ev) = {1}
  BY DEF Openings, Attached
<1> HIDE DEF k
<1>6. Armed(k)
  BY <1>3 DEF Armed
<1> HIDE DEF ev
<1>7. View(t) = Conn!Heard(View(k), ev, hs, d)
  BY <1>3, <1>5, <1>6, DroppedView
<1>8. t.status = AD_OK
  BY <1>3, <1>5, DroppedLemma
<1> HIDE DEF t
<1>9. View(t) = [View(t) EXCEPT !.status = AD_OK]
  <2>1. View(t).status = AD_OK /\ View(t) = [x \in DOMAIN View(t) |-> View(t)[x]]
    BY <1>8 DEF View
  <2> HIDE DEF View
  <2> QED
    BY <2>1
<1>10. v \in Conn!Walks(ev, NoMethod) /\ d \in Conn!Deeds(ev)
  <2>1. v \in Conn!Walks(ev, NoMethod)
    BY <1>3, <1>5, WalksOfConn
  <2> QED
    BY <1>5, <2>1, DeedLemma
<1>11. Conn!Leave("c", [Conn!Heard(Conn!NewConn, ev, hs, d) EXCEPT !.status = AD_OK],
                  <<Conn!Call(ev, hs)>>)
  <2>1. calls' = <<Conn!Call(ev, hs)>>
    BY <1>1 DEF Call
  <2> QED
    BY <1>1, <1>4, <1>7, <1>9, <2>1, LeaveLemma
<1>12. v.hooks = hs /\ v.status = AD_OK
  OBVIOUS
<1>13. conn.live = "none" => Conn!Running /\ [c \in {"c"} |-> View(conn)]["c"].live = "none"
  BY DEF Conn!Running, View
<1> HIDE DEF v, hs, d
<1> QED
  BY <1>1, <1>10, <1>11, <1>12, <1>13, Zenon DEF Conn!ListenerCb, Conn!EvNew, ev, View

\* A callback that asks the hooks, as AdConn sees it.
LEMMA AskedCb ==
  ASSUME NEW ev, NEW k, NEW i, NEW hs, NEW x, NEW wrote, NEW ate, NEW new,
         Walked(ev, k, i, hs, x, wrote, ate),
         [status |-> x, hooks |-> hs, method |-> i.method] \in Conn!Walks(ev, k.method),
         Deed(wrote, ate, {}) \in Conn!Deeds(ev),
         conn' = Settled(ev, Verdict(ev, i, hs, x), <<Conn!Call(ev, hs)>>, new).conn,
         calls' = Settled(ev, Verdict(ev, i, hs, x), <<Conn!Call(ev, hs)>>, new).calls
  PROVE  Conn!ConnCb("c", ev, View(k))
<1> DEFINE d == Deed(wrote, ate, {})
           b == <<Conn!Call(ev, hs)>>
           v == [status |-> x, hooks |-> hs, method |-> i.method]
           t == Verdict(ev, i, hs, x)
<1>0. /\ ev \in {{"READ"}, {"WRITE"}} /\ i \in ConnRecord /\ hs \in SUBSET Hooks
      /\ x \in Verdicts /\ Serves(i) /\ i.status \in {AD_OK, AD_TAKEOVER}
      /\ k.status \in {AD_OK, AD_TAKEOVER}
  BY DEF Walked
<1>1. t \in ConnRecord /\ Serves(t)
  <2>1. AskedBy(t, i, x)
    BY <1>0, AskedLemma DEF Verdict
  <2> QED
    BY <2>1 DEF AskedBy
<1>2. /\ Armed(t)
      /\ View(t) = [Conn!Heard(View(k), ev, hs, d) EXCEPT
                      !.status = Conn!Raised(@, x), !.method = i.method]
  <2>1. SeenAs(ev, k, i, hs, x, wrote, ate)
    BY AskedView
  <2> QED
    BY <2>1 DEF SeenAs
<1>3. ev \in CbEvents
  BY <1>0 DEF CbEvents
<1>4. b \in Seq(Conn!CallType)
  <2>1. Conn!Call(ev, hs) \in Conn!CallType
    BY <1>0, <1>3, CallLemma
  <2> QED
    BY <2>1
<1> HIDE DEF b, d, t
<1>5. Conn!Settle("c", ev, View(t), b)
  <2>1. conn' = Settled(ev, t, b, new).conn /\ calls' = Settled(ev, t, b, new).calls
    BY DEF b, t
  <2> QED
    BY <1>1, <1>2, <1>3, <1>4, <2>1, SettledView
<1>6. v.status = x /\ v.hooks = hs /\ v.method = i.method
  OBVIOUS
<1>7. v \in Conn!Walks(ev, View(k).method) /\ d \in Conn!Deeds(ev)
  <2>1. View(k).method = k.method
    BY DEF View
  <2> QED
    BY <2>1 DEF d
<1>8. View(k).status \in {Conn!AD_OK, Conn!AD_TAKEOVER}
  <2>1. View(k).status = k.status
    BY DEF View
  <2> QED
    BY <1>0, <2>1, VerdictLemma
<1> HIDE DEF v
<1>9. Conn!Settle("c", ev,
        [Conn!Heard(View(k), ev, v.hooks, d) EXCEPT
           !.status = Conn!Raised(@, v.status), !.method = v.method],
        <<Conn!Call(ev, v.hooks)>>)
  BY <1>2, <1>5, <1>6, Zenon DEF b
<1> QED
  BY <1>7, <1>8, <1>9, Zenon DEF Conn!ConnCb

\* A callback of AdConn on a connection that is seen as View(conn).
LEMMA ServingLemma ==
  ASSUME conn.live = "open"
  PROVE  Conn!Serving("c") /\ [c \in {"c"} |-> View(conn)]["c"] = View(conn)
<1>1. [c \in {"c"} |-> View(conn)]["c"] = View(conn)
  OBVIOUS
<1>2. View(conn).live = "open"
  BY DEF View
<1> HIDE DEF View
<1> QED
  BY <1>1, <1>2, Zenon DEF Conn!Serving, Conn!Running, View

\* The callbacks of AdConn, said of View(conn).
LEMMA CallbacksSeen ==
  LET k == [d \in {"c"} |-> View(conn)]["c"]
  IN  /\ Conn!ReadCb("c") <=>
           /\ Conn!Serving("c") /\ k.rd
           /\ Conn!ConnCb("c", Conn!EvRead, [k EXCEPT !.in = TRUE])
      /\ Conn!WriteCb("c") <=>
           /\ Conn!Serving("c") /\ k.wr = "armed"
           /\ Conn!ConnCb("c", Conn!EvWrite, [k EXCEPT !.out = FALSE, !.wr = "idle"])
      /\ Conn!WriteFails("c") <=>
           /\ Conn!Serving("c") /\ k.wr = "armed" /\ k.out
           /\ Conn!ConnCb("c", Conn!EvClose,
                          [k EXCEPT !.status = Conn!AD_CLOSE, !.wr = "failed"])
      /\ \A what : Conn!ReadEnds("c", what) <=>
           /\ Conn!Serving("c") /\ k.rd
           /\ Conn!ConnCb("c", IF what = "TIMEOUT" THEN Conn!EvTimeout ELSE Conn!EvClose,
                          [k EXCEPT !.status = Conn!AD_CLOSE, !.rd = FALSE,
                                    !.expired = (what = "TIMEOUT")])
BY Zenon DEF Conn!ReadCb, Conn!WriteCb, Conn!WriteFails, Conn!ReadEnds, View

\* A WRITE, as AdConn sees it.
LEMMA WriteView == Inv /\ WriteCb => Conn!WriteCb("c")
<1> SUFFICES ASSUME Inv, WriteCb PROVE Conn!WriteCb("c")
  OBVIOUS
<1> DEFINE ev == {"WRITE"}
           k  == [conn EXCEPT !.out = 0, !.wr = "idle"]
<1>1. conn.live = "open" /\ conn.wr = "armed" /\ ConnCb(ev, k)
  BY DEF WriteCb, Open
<1>2. conn \in ConnRecord /\ Serves(conn) /\ conn.out \in Nat
  BY <1>1, ConnTypes DEF Inv
<1>3. /\ k \in ConnRecord /\ k.live = "open" /\ k.out = 0 /\ k.status = conn.status
      /\ k.in = conn.in /\ k.req = conn.req /\ k.told = conn.told /\ k.wr = "idle"
      /\ k.rd = conn.rd /\ k.method = conn.method /\ k.expired = conn.expired
  BY <1>1, <1>2 DEF ConnRecord
<1> HIDE DEF k
<1>4. Serves(k) /\ Armed(k)
  BY <1>2, <1>3 DEF Serves, Armed
<1>5. View(k) = [View(conn) EXCEPT !.out = FALSE, !.wr = "idle"]
  <2> DEFINE s == IF conn.req = NoReq THEN {} ELSE {1}
             n == conn.in # <<>>
             o == conn.out > 0
             c(out, wr) == ViewOf(conn.live, conn.status, out, n, conn.rd, wr, conn.method,
                                  s, FALSE, conn.expired, conn.told)
  <2>1. (k.out > 0) = FALSE
    BY <1>3
  <2>2. View(k) = c(FALSE, "idle")
    <3>0. (IF k.req = NoReq THEN {} ELSE {1}) = s /\ (k.in # <<>>) = n
      BY <1>3
    <3> HIDE DEF s, n
    <3>1. Shows(k, conn.live, conn.status, FALSE, n, conn.rd, "idle", conn.method, s,
                conn.expired, conn.told)
      BY <1>1, <1>3, <2>1, <3>0, Zenon DEF Shows
    <3> QED
      BY <3>1, ViewLemma, Zenon DEF SeenWith
  <2>0. View(conn) = c(o, conn.wr)
    BY Zenon DEF View, ViewOf
  <2> HIDE DEF s, n, o
  <2>3. PutsOut(c(o, conn.wr), FALSE, c(FALSE, conn.wr))
    BY WithOut, Zenon
  <2>4. PutsWr(c(FALSE, conn.wr), "idle", c(FALSE, "idle"))
    BY WithWr, Zenon
  <2> HIDE DEF c
  <2> QED
    BY <2>0, <2>2, <2>3, <2>4, Zenon DEF PutsOut, PutsWr
<1>6. ev \in CbEvents /\ ev \in {{"READ"}, {"WRITE"}} /\ ev # {"READ"}
  BY DEF CbEvents
<1>7. Conn!ConnCb("c", ev, View(k))
  <2>1. CASE k.status \notin {AD_OK, AD_TAKEOVER}
    <3> HIDE DEF ev
    <3> QED
      BY <1>1, <1>3, <1>4, <1>6, <2>1, UnaskedView
  <2>2. CASE k.status \in {AD_OK, AD_TAKEOVER}
    <3>1. PICK w \in Walks(ev, k) :
                 LET t == [Told(ev, w.hooks, w.k) EXCEPT !.status = Conn!Raised(@, w.status)]
                     b == <<Conn!Call(ev, w.hooks)>>
                     n == Answered(w, k)
                 IN  /\ conn' = Settled(ev, t, b, n).conn
                     /\ calls' = Settled(ev, t, b, n).calls
                     /\ answers' = Settled(ev, t, b, n).answers
      BY <1>1, <2>2, OutcomesLemma, Zenon
    <3> DEFINE hs == {1} \cup Behind(k)
               new == Answered(w, k)
    <3>2. w.k = k /\ w.status = AD_OK /\ w.hooks = hs
      BY <1>3, WriteWalks
    <3> DEFINE t == Verdict(ev, k, hs, AD_OK)
    <3>4. /\ conn' = Settled(ev, t, <<Conn!Call(ev, hs)>>, new).conn
          /\ calls' = Settled(ev, t, <<Conn!Call(ev, hs)>>, new).calls
      BY <3>1, <3>2, Zenon DEF Verdict
    <3>5. [status |-> AD_OK, hooks |-> hs, method |-> k.method] \in Conn!Walks(ev, k.method)
      BY <1>6, WalksOfConn
    <3>6. Deed(FALSE, FALSE, {}) \in Conn!Deeds(ev)
      <4>1. Attached(ev) = {}
        BY DEF Attached, Openings
      <4> QED
        BY <1>6, <4>1, DeedLemma
    <3>7. hs \in SUBSET Hooks /\ AD_OK \in Verdicts
      BY BehindLemma DEF Verdicts
    <3>8. ~(k.out > conn.out) /\ ~(k.out > 0)
      BY <1>2, <1>3
    <3>9. Walked(ev, k, k, hs, AD_OK, FALSE, FALSE)
      BY <1>3, <1>4, <1>6, <2>2, <3>7, <3>8 DEF Walked
    <3> HIDE DEF ev, hs, new
    <3> QED
      BY <3>4, <3>5, <3>6, <3>9, AskedCb
  <2> QED
    BY <2>1, <2>2
<1>8. View(conn).wr = "armed"
  BY <1>1 DEF View
<1> QED
  BY <1>1, <1>5, <1>7, <1>8, ServingLemma, CallbacksSeen, Zenon DEF Conn!EvWrite

\* A READ, as AdConn sees it.
LEMMA ReadView ==
  ASSUME Inv, NEW n \in 1..Len(wire), ReadCb(n)
  PROVE  Conn!ReadCb("c")
<1> DEFINE ev    == {"READ"}
           piece == SubSeq(wire, 1, n)
           i     == conn.in \o piece
           k     == [conn EXCEPT !.in = i]
<1>1. conn.live = "open" /\ conn.rd /\ ConnCb(ev, k)
  BY DEF ReadCb, Arrives, Open
<1>2. conn \in ConnRecord /\ Serves(conn) /\ conn.status # AD_DONE /\ conn.out \in Nat
  BY <1>1, ConnTypes DEF Inv
<1>3. i \in Bytes /\ Len(i) > 0
  <2>1. wire \in Bytes /\ conn.in \in Bytes
    BY ConnTypes
  <2> DEFINE c == conn.in
  <2>2. n \in 0..Len(wire) /\ n \in Nat /\ n > 0
    BY <2>1, BytesJoin
  <2>3. piece \in Bytes /\ Len(piece) = n
    BY <2>1, <2>2, CutLemma DEF Bytes
  <2> HIDE DEF c, piece
  <2>4. c \in Bytes
    BY <2>1 DEF c
  <2>5. c \o piece \in Bytes /\ Len(c \o piece) = Len(c) + Len(piece) /\ Len(c) \in Nat
    BY <2>3, <2>4, BytesJoin
  <2> QED
    BY <2>2, <2>3, <2>5 DEF c
<1>4. i # <<>>
  BY <1>3
<1> HIDE DEF i
<1>5. /\ k \in ConnRecord /\ k.live = "open" /\ k.out = conn.out /\ k.status = conn.status
      /\ k.in = i /\ k.req = conn.req /\ k.told = conn.told /\ k.method = conn.method
      /\ k.rd = conn.rd /\ k.wr = conn.wr /\ k.expired = conn.expired
  BY <1>1, <1>2, <1>3 DEF ConnRecord
<1> HIDE DEF k
<1>6. Serves(k) /\ Armed(k)
  BY <1>2, <1>5 DEF Serves, Armed
<1>7. View(k) = [View(conn) EXCEPT !.in = TRUE]
  <2> DEFINE s == IF conn.req = NoReq THEN {} ELSE {1}
             x == conn.in # <<>>
             o == conn.out > 0
             c(in) == ViewOf(conn.live, conn.status, o, in, conn.rd, conn.wr, conn.method,
                             s, FALSE, conn.expired, conn.told)
  <2>1. (k.in # <<>>) = TRUE
    BY <1>4, <1>5
  <2>2. View(k) = c(TRUE)
    <3>0. (IF k.req = NoReq THEN {} ELSE {1}) = s /\ (k.out > 0) = o
      BY <1>5
    <3> HIDE DEF s, o
    <3>1. Shows(k, conn.live, conn.status, o, TRUE, conn.rd, conn.wr, conn.method, s,
                conn.expired, conn.told)
      BY <1>1, <1>5, <2>1, <3>0, Zenon DEF Shows
    <3> QED
      BY <3>1, ViewLemma, Zenon DEF SeenWith
  <2>3. View(conn) = c(x)
    BY Zenon DEF View, ViewOf
  <2> HIDE DEF s, x, o
  <2>4. PutsIn(c(x), TRUE, c(TRUE))
    BY WithIn, Zenon
  <2> HIDE DEF c
  <2> QED
    BY <2>2, <2>3, <2>4, Zenon DEF PutsIn
<1>8. ev \in CbEvents /\ ev \in {{"READ"}, {"WRITE"}} /\ ev = {"READ"}
  BY DEF CbEvents
<1>9. Conn!ConnCb("c", ev, View(k))
  <2>1. CASE k.status \notin {AD_OK, AD_TAKEOVER}
    <3> HIDE DEF ev
    <3> QED
      BY <1>1, <1>5, <1>6, <1>8, <2>1, UnaskedView
  <2>2. CASE k.status \in {AD_OK, AD_TAKEOVER}
    <3> DEFINE s == HttpParser(St(k.req, k.in))
    <3>1. PICK v \in Walks(ev, k) :
                 LET t == [Told(ev, v.hooks, v.k) EXCEPT !.status = Conn!Raised(@, v.status)]
                     b == <<Conn!Call(ev, v.hooks)>>
                     x == Answered(v, k)
                 IN  /\ conn' = Settled(ev, t, b, x).conn
                     /\ calls' = Settled(ev, t, b, x).calls
                     /\ answers' = Settled(ev, t, b, x).answers
      BY <1>1, <2>2, OutcomesLemma, Zenon
    <3>2. PICK seen, f : Pending(seen, f) /\ Reads(conn, seen)
      <4>1. conn.live # "freed" /\ conn.status # AD_CLOSE
        BY <1>1, <1>5, <2>2, VerdictLemma
      <4> QED
        BY <4>1 DEF Inv
    <3>3. s \in State
      <4>1. s = HttpParser(St(conn.req, conn.in \o piece))
        BY <1>5 DEF i
      <4> HIDE DEF s, piece
      <4> QED
        BY <1>2, <3>2, <4>1, PieceLemma DEF piece
    <3>4. WalkOf(v, k, s) /\ (Answers(v, k, s) \/ AnswersNot(v, k, s))
      BY <1>5, <3>1, <3>3, ReadWalks
    <3>5. s.req \in Request /\ s.in \in Bytes
      <4> HIDE DEF s
      <4> QED
        BY <3>3, StateLemma
    <3> DEFINE q == s.req
    <3> HIDE DEF q
    <3>6. q \in Request => q.method \in MethodNames
      BY DEF Request, MethodNames
    <3>7. s.req.method \in Methods \cup {NoMethod}
      BY <3>5, <3>6 DEF q, MethodNames
    <3> HIDE DEF s
    <3> DEFINE j     == v.k
               hs    == v.hooks
               x     == v.status
               wrote == s.req.status = REQ_DONE
               ate   == j.in = <<>>
               new   == Answered(v, k)
               ch    == {1} \cup Behind(j)
    <3>8. /\ j \in ConnRecord /\ hs \in SUBSET Hooks /\ x \in Verdicts
          /\ j.live = k.live /\ j.status = k.status /\ j.rd = k.rd /\ j.wr = k.wr
          /\ j.expired = k.expired /\ j.told = k.told /\ j.req = s.req
          /\ j.method = IF k.method = NoMethod THEN s.req.method ELSE k.method
          /\ k.out \in Nat /\ k.out = conn.out
          /\ IF wrote THEN j.out = k.out + 1 ELSE j.out = k.out
      BY <1>2, <1>5, <3>4 DEF WalkOf, Answers, AnswersNot
    <3>9. /\ conn' = Settled(ev, Verdict(ev, j, hs, x), <<Conn!Call(ev, hs)>>, new).conn
          /\ calls' = Settled(ev, Verdict(ev, j, hs, x), <<Conn!Call(ev, hs)>>, new).calls
      BY <3>1, Zenon DEF Verdict
    <3>10. [status |-> x, hooks |-> hs, method |-> j.method] \in Conn!Walks(ev, k.method)
      <4>1. /\ [status |-> AD_OK, hooks |-> ch, method |-> j.method]
                 \in Conn!Walks(ev, k.method)
            /\ \A h \in ch, y \in {AD_TAKEOVER, AD_DONE, AD_CLOSE} :
                 [status |-> y, hooks |-> {g \in ch : g <= h}, method |-> j.method]
                   \in Conn!Walks(ev, k.method)
        <5>1. j.method \in {k.method} \cup
                (IF ev = {"READ"} /\ k.method = NoMethod THEN Methods ELSE {})
          BY <3>7, <3>8
        <5> HIDE DEF j
        <5> QED
          BY <1>8, <5>1, WalksOfConn
      <4>2. /\ Behind(j) \subseteq {2, 3} /\ 3 \in Behind(j)
        BY BehindLemma
      <4>3. \/ x = AD_OK /\ hs = ch
            \/ x \in {AD_TAKEOVER, AD_CLOSE} /\ hs = {1}
            \/ x \in {AD_DONE, AD_CLOSE} /\ hs = {1, 2} /\ 2 \in Behind(j)
            \/ x \in {AD_DONE, AD_CLOSE} /\ hs = {1, 3} /\ 2 \notin Behind(j)
        BY <3>4 DEF Answers, AnswersNot
      <4> HIDE DEF j, hs, x
      <4>4. /\ {1} = {g \in ch : g <= 1} /\ 1 \in ch
            /\ 2 \in Behind(j) => {1, 2} = {g \in ch : g <= 2} /\ 2 \in ch
            /\ 2 \notin Behind(j) => {1, 3} = {g \in ch : g <= 3} /\ 3 \in ch
        BY <4>2
      <4> HIDE DEF ch, ev
      <4>5. CASE x = AD_OK /\ hs = ch
        BY <4>1, <4>5
      <4>6. ASSUME NEW h \in ch, x \in {AD_TAKEOVER, AD_DONE, AD_CLOSE},
                   hs = {g \in ch : g <= h}
            PROVE  [status |-> x, hooks |-> hs, method |-> j.method]
                     \in Conn!Walks(ev, k.method)
        BY <4>1, <4>6, Zenon
      <4>7. CASE x \in {AD_TAKEOVER, AD_CLOSE} /\ hs = {1}
        BY <4>4, <4>6, <4>7
      <4>8. CASE x \in {AD_DONE, AD_CLOSE} /\ hs = {1, 2} /\ 2 \in Behind(j)
        BY <4>4, <4>6, <4>8
      <4>9. CASE x \in {AD_DONE, AD_CLOSE} /\ hs = {1, 3} /\ 2 \notin Behind(j)
        BY <4>4, <4>6, <4>9
      <4> QED
        BY <4>3, <4>5, <4>7, <4>8, <4>9
    <3>11. wrote \in BOOLEAN /\ ate \in BOOLEAN
      OBVIOUS
    <3>12. Deed(wrote, ate, {}) \in Conn!Deeds(ev)
      <4> HIDE DEF wrote, ate
      <4> QED
        BY <1>8, <3>11, DeedLemma
    <3>13. Walked(ev, k, j, hs, x, wrote, ate)
      <4>1. Serves(j)
        BY <1>6, <3>5, <3>8 DEF Serves
      <4>2. wrote <=> j.out > conn.out
        BY <3>8
      <4>3. j.out > 0 <=> (k.out > 0 \/ wrote)
        BY <3>8
      <4>4. j.in # <<>> <=> (k.in # <<>> /\ ~ate)
        BY <1>4, <1>5
      <4>5. /\ ev \in {{"READ"}, {"WRITE"}} /\ k \in ConnRecord /\ Serves(k)
            /\ k.status \in {AD_OK, AD_TAKEOVER}
        BY <1>5, <1>6, <1>8, <2>2
      <4>6. /\ j \in ConnRecord /\ hs \in SUBSET Hooks /\ x \in Verdicts
            /\ j.status = k.status /\ j.rd = k.rd /\ j.wr = k.wr
            /\ j.expired = k.expired /\ j.told = k.told
        BY <3>8
      <4> HIDE DEF j, hs, x, wrote, ate, ev
      <4> QED
        BY <3>11, <4>1, <4>2, <4>3, <4>4, <4>5, <4>6, Zenon DEF Walked
    <3> HIDE DEF ev, hs, new, j, x, wrote, ate
    <3> QED
      BY <3>9, <3>10, <3>12, <3>13, AskedCb
  <2> QED
    BY <2>1, <2>2
<1>10. View(conn).rd = conn.rd
  BY DEF View
<1> QED
  BY <1>1, <1>7, <1>9, <1>10, ServingLemma, CallbacksSeen, Zenon DEF Conn!EvRead

\* An end of the connection, as AdConn sees it.
LEMMA EventView == Inv /\ EventCb => Conn!EventCb("c")
<1> SUFFICES ASSUME Inv, EventCb PROVE Conn!EventCb("c")
  OBVIOUS
<1>1. conn.live = "open"
  BY DEF EventCb, Open
<1>2. conn \in ConnRecord /\ Serves(conn) /\ conn.out \in Nat
  BY <1>1, ConnTypes DEF Inv
<1>3. AD_CLOSE \in Verdicts /\ AD_CLOSE \notin {AD_OK, AD_TAKEOVER} /\ Conn!AD_CLOSE = AD_CLOSE
  BY VerdictLemma DEF Verdicts
<1> DEFINE s == IF conn.req = NoReq THEN {} ELSE {1}
           n == conn.in # <<>>
           o == conn.out > 0
           c(status, rd, wr, expired) ==
             ViewOf(conn.live, status, o, n, rd, wr, conn.method, s, FALSE, expired, conn.told)
<1>4. View(conn) = c(conn.status, conn.rd, conn.wr, conn.expired)
  BY Zenon DEF View, ViewOf
<1>5. ASSUME conn.rd, NEW what \in Failures \cap {"EOF", "TIMEOUT"},
             ConnCb(IF what = "TIMEOUT" THEN {"CLOSE", "TIMEOUT"} ELSE {"CLOSE"},
                    [conn EXCEPT !.status = AD_CLOSE, !.rd = FALSE,
                                 !.expired = (what = "TIMEOUT")])
      PROVE  Conn!ReadEnds("c", what) /\ what \in Failures \ {"WRITE_ERROR"}
  <2> DEFINE ev == IF what = "TIMEOUT" THEN {"CLOSE", "TIMEOUT"} ELSE {"CLOSE"}
             x  == (what = "TIMEOUT")
             k  == [conn EXCEPT !.status = AD_CLOSE, !.rd = FALSE, !.expired = x]
  <2>1. ev \in CbEvents /\ ConnCb(ev, k)
    BY <1>5 DEF CbEvents
  <2>2. x \in BOOLEAN
    OBVIOUS
  <2> HIDE DEF ev, x
  <2>3. /\ k \in ConnRecord /\ k.live = conn.live /\ k.out = conn.out /\ k.status = AD_CLOSE
        /\ k.req = conn.req /\ k.told = conn.told /\ k.in = conn.in /\ k.wr = conn.wr
        /\ k.method = conn.method /\ k.rd = FALSE /\ k.expired = x
    BY <1>2, <1>3, <2>2 DEF ConnRecord
  <2> HIDE DEF k
  <2>4. Serves(k) /\ Armed(k)
    BY <1>2, <2>3 DEF Serves, Armed
  <2>5. View(k) = [View(conn) EXCEPT !.status = AD_CLOSE, !.rd = FALSE, !.expired = x]
    <3>1. (IF k.req = NoReq THEN {} ELSE {1}) = s /\ (k.in # <<>>) = n /\ (k.out > 0) = o
      BY <2>3
    <3> HIDE DEF s, n, o
    <3>2. Shows(k, conn.live, AD_CLOSE, o, n, FALSE, conn.wr, conn.method, s, x, conn.told)
      BY <2>3, <3>1, Zenon DEF Shows
    <3>3. View(k) = c(AD_CLOSE, FALSE, conn.wr, x)
      BY <3>2, ViewLemma, Zenon DEF SeenWith
    <3>4. PutsStatus(c(conn.status, conn.rd, conn.wr, conn.expired), AD_CLOSE,
                     c(AD_CLOSE, conn.rd, conn.wr, conn.expired))
      BY WithStatus, Zenon
    <3>5. PutsRd(c(AD_CLOSE, conn.rd, conn.wr, conn.expired), FALSE,
                 c(AD_CLOSE, FALSE, conn.wr, conn.expired))
      BY WithRd, Zenon
    <3>6. PutsExpired(c(AD_CLOSE, FALSE, conn.wr, conn.expired), x,
                      c(AD_CLOSE, FALSE, conn.wr, x))
      BY WithExpired, Zenon
    <3> HIDE DEF c
    <3> QED
      BY <1>4, <3>3, <3>4, <3>5, <3>6, Zenon DEF PutsStatus, PutsRd, PutsExpired
  <2>6. Conn!ConnCb("c", ev, View(k))
    BY <1>3, <2>1, <2>3, <2>4, UnaskedView
  <2>7. View(conn).rd
    BY <1>5 DEF View
  <2>8. what \in Failures \ {"WRITE_ERROR"}
    BY <1>5
  <2>9. Conn!Serving("c") /\ [d \in {"c"} |-> View(conn)]["c"] = View(conn)
    BY <1>1, ServingLemma
  <2> HIDE DEF s, n, o, c
  <2> QED
    <3> DEFINE g == [d \in {"c"} |-> View(conn)]["c"]
    <3>1. ev = IF what = "TIMEOUT" THEN Conn!EvTimeout ELSE Conn!EvClose
      BY Zenon DEF ev, Conn!EvTimeout, Conn!EvClose
    <3>2. View(k) = [g EXCEPT !.status = Conn!AD_CLOSE, !.rd = FALSE, !.expired = x]
      BY <1>3, <2>5, <2>9, Zenon
    <3>3. Conn!ConnCb("c", IF what = "TIMEOUT" THEN Conn!EvTimeout ELSE Conn!EvClose,
                     [g EXCEPT !.status = Conn!AD_CLOSE, !.rd = FALSE, !.expired = x])
      BY <2>6, <3>1, <3>2, Zenon
    <3>4. Conn!Serving("c") /\ g.rd
      BY <2>7, <2>9, Zenon
    <3> HIDE DEF g
    <3> QED
      BY <2>8, <3>3, <3>4, CallbacksSeen, Zenon DEF x, g
<1>6. ASSUME conn.wr = "armed", conn.out > 0,
             ConnCb({"CLOSE"}, [conn EXCEPT !.status = AD_CLOSE, !.wr = "failed"])
      PROVE  Conn!WriteFails("c")
  <2> DEFINE ev == {"CLOSE"}
             k  == [conn EXCEPT !.status = AD_CLOSE, !.wr = "failed"]
  <2>1. ev \in CbEvents /\ ConnCb(ev, k)
    BY <1>6 DEF CbEvents
  <2> HIDE DEF ev
  <2>2. /\ k \in ConnRecord /\ k.live = conn.live /\ k.out = conn.out /\ k.status = AD_CLOSE
        /\ k.req = conn.req /\ k.told = conn.told /\ k.in = conn.in /\ k.wr = "failed"
        /\ k.method = conn.method /\ k.rd = conn.rd /\ k.expired = conn.expired
    BY <1>2, <1>3 DEF ConnRecord
  <2> HIDE DEF k
  <2>3. Serves(k) /\ Armed(k)
    BY <1>2, <2>2 DEF Serves, Armed
  <2>4. View(k) = [View(conn) EXCEPT !.status = AD_CLOSE, !.wr = "failed"]
    <3>1. (IF k.req = NoReq THEN {} ELSE {1}) = s /\ (k.in # <<>>) = n /\ (k.out > 0) = o
      BY <2>2
    <3> HIDE DEF s, n, o
    <3>2. Shows(k, conn.live, AD_CLOSE, o, n, conn.rd, "failed", conn.method, s,
                conn.expired, conn.told)
      BY <2>2, <3>1, Zenon DEF Shows
    <3>3. View(k) = c(AD_CLOSE, conn.rd, "failed", conn.expired)
      BY <3>2, ViewLemma, Zenon DEF SeenWith
    <3>4. PutsStatus(c(conn.status, conn.rd, conn.wr, conn.expired), AD_CLOSE,
                     c(AD_CLOSE, conn.rd, conn.wr, conn.expired))
      BY WithStatus, Zenon
    <3>5. PutsWr(c(AD_CLOSE, conn.rd, conn.wr, conn.expired), "failed",
                 c(AD_CLOSE, conn.rd, "failed", conn.expired))
      BY WithWr, Zenon
    <3> HIDE DEF c
    <3> QED
      BY <1>4, <3>3, <3>4, <3>5, Zenon DEF PutsStatus, PutsWr
  <2>5. Conn!ConnCb("c", ev, View(k))
    BY <1>3, <2>1, <2>2, <2>3, UnaskedView
  <2>6. View(conn).wr = "armed" /\ View(conn).out
    BY <1>6 DEF View
  <2>7. Conn!Serving("c") /\ [d \in {"c"} |-> View(conn)]["c"] = View(conn)
    BY <1>1, ServingLemma
  <2> HIDE DEF s, n, o, c
  <2> QED
    BY <1>3, <2>4, <2>5, <2>6, <2>7, CallbacksSeen, Zenon DEF Conn!EvClose, ev
<1>7. CASE /\ conn.rd
           /\ \E what \in Failures \cap {"EOF", "TIMEOUT"} :
                ConnCb(IF what = "TIMEOUT" THEN {"CLOSE", "TIMEOUT"} ELSE {"CLOSE"},
                       [conn EXCEPT !.status = AD_CLOSE, !.rd = FALSE,
                                    !.expired = (what = "TIMEOUT")])
  BY <1>5, <1>7, Zenon DEF Conn!EventCb
<1>8. CASE /\ "WRITE_ERROR" \in Failures /\ conn.wr = "armed" /\ conn.out > 0
           /\ ConnCb({"CLOSE"}, [conn EXCEPT !.status = AD_CLOSE, !.wr = "failed"])
  BY <1>6, <1>8, Zenon DEF Conn!EventCb
<1> QED
  BY <1>7, <1>8, Zenon DEF EventCb

\* The connection that is not open yet, as AdConn sees it.
LEMMA InitView == Init => Conn!Init
<1> SUFFICES ASSUME Init PROVE Conn!Init
  OBVIOUS
<1> DEFINE mute == [h \in Hooks |-> "none"]
<1>1. conn = NoConn /\ calls = <<>>
  BY DEF Init
<1>2. /\ NoConn.live = "none" /\ NoConn.status = AD_OK /\ NoConn.in = <<>>
      /\ NoConn.out = 0 /\ NoConn.rd = FALSE /\ NoConn.wr = "idle"
      /\ NoConn.method = NoMethod /\ NoConn.req = NoReq /\ NoConn.expired = FALSE
      /\ NoConn.told = mute
  BY DEF NoConn
<1>3. Hooks = Conn!Hooks /\ Conn!AD_OK = AD_OK
  BY VerdictLemma DEF Hooks, Conn!Hooks
<1> HIDE DEF mute
<1>4. /\ (NoConn.out > 0) = FALSE /\ (NoConn.in # <<>>) = FALSE
      /\ (IF NoConn.req = NoReq THEN {} ELSE {1}) = {}
  BY <1>2
<1>5. Shows(NoConn, "none", AD_OK, FALSE, FALSE, FALSE, "idle", NoMethod, {}, FALSE, mute)
  BY <1>2, <1>4, Zenon DEF Shows
<1>6. View(NoConn) = ViewOf("none", AD_OK, FALSE, FALSE, FALSE, "idle", NoMethod, {}, FALSE,
                            FALSE, mute)
  BY <1>5, ViewLemma, Zenon DEF SeenWith
<1>7. Conn!NoConn = ViewOf("none", AD_OK, FALSE, FALSE, FALSE, "idle", NoMethod, {}, FALSE,
                           FALSE, mute)
  BY <1>3, Zenon DEF Conn!NoConn, mute, ViewOf
<1>8. View(conn) = Conn!NoConn
  BY <1>1, <1>6, <1>7
<1>9. [c \in {"c"} |-> View(conn)] = [c \in {"c"} |-> Conn!NoConn]
  BY <1>8
<1>10. [c \in {"c"} |-> calls] = [c \in {"c"} |-> <<>>]
  BY <1>1
<1> QED
  BY <1>9, <1>10, Zenon DEF Conn!Init, View

\* A step of the connection is a step of AdConn, a step of the client none.
LEMMA StepView == Inv /\ [Next]_vars => [Conn!Next]_(Conn!vars)
<1> SUFFICES ASSUME Inv, [Next]_vars PROVE [Conn!Next]_(Conn!vars)
  OBVIOUS
<1>1. ASSUME \/ Conn!ListenerCb("c") \/ Conn!ReadCb("c") \/ Conn!WriteCb("c")
             \/ Conn!EventCb("c")
      PROVE  Conn!Next
  BY <1>1, Zenon DEF Conn!Next
<1>2. CASE Client \/ UNCHANGED vars
  <2>1. conn' = conn /\ calls' = calls
    BY <1>2 DEF Client, vars
  <2>2. View(conn)' = View(conn) /\ [c \in {"c"} |-> calls]' = [c \in {"c"} |-> calls]
    BY <2>1 DEF View
  <2>3. [c \in {"c"} |-> View(conn)]' = [c \in {"c"} |-> View(conn)]
    BY <2>1 DEF View
  <2> QED
    BY <2>2, <2>3, Zenon DEF Conn!vars, View
<1>3. CASE ListenerCb
  BY <1>1, <1>3, OpeningView, Zenon
<1>4. CASE WriteCb
  BY <1>1, <1>4, WriteView, Zenon
<1>5. CASE EventCb
  BY <1>1, <1>5, EventView, Zenon
<1>6. ASSUME NEW n \in 1..Len(wire), ReadCb(n)
      PROVE  Conn!Next
  BY <1>1, <1>6, ReadView, Zenon
<1> QED
  BY <1>2, <1>3, <1>4, <1>5, <1>6, Zenon DEF Next

\* The connection of the example, with its parser and its hooks, is a connection
\* as AdConn describes it: ad_http_handler and the hooks behind it do nothing to
\* conn_cb that AdConn does not let hooks do.
THEOREM ImplementsAdConn == Spec => ImplementsConn
<1>1. Init => Conn!Init
  BY InitView
<1>2. Inv /\ [Next]_vars => [Conn!Next]_(Conn!vars)
  BY StepView
<1>3. Spec => []Inv
  BY ConnInvariant
<1> QED
  BY <1>1, <1>2, <1>3, PTL DEF Spec, ImplementsConn, Conn!Spec
=============================================================================
