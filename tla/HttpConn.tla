------------------------------ MODULE HttpConn ------------------------------
(***************************************************************************)
(* One connection of examples/helloworld_http_server.c, the server of the  *)
(* README: first ad_http_handler, then a hook on the method GET, then one  *)
(* for the rest.  It composes conn_cb and call_hooks of src/ad_server.c    *)
(* with the parser of HttpRequest and with a client whose bytes TCP cuts   *)
(* anywhere.  The connection implements AdConn, which leaves open what     *)
(* hooks do.                                                               *)
(*                                                                         *)
(* Both hooks act when a READ finds the request done: the GET hook answers *)
(* it and, as the request's keep-alive says, ends the session or the       *)
(* connection; the other one refuses it and ends the connection.           *)
(***************************************************************************)
EXTENDS HttpFormat

CONSTANTS
  Dialogues,  \* what a client may send: a set of sequences of requests
  Habits,     \* "lockstep": wait for each answer; "pipelined": send on
  GetMethod,  \* the method that the second hook is registered on
  Failures    \* what may end the connection from outside

ASSUME GetAssumption == GetMethod \in Methods
ASSUME DialogueAssumption == Dialogues \subseteq Seq(Requests)
ASSUME HabitAssumption == Habits \subseteq {"lockstep", "pipelined"}

VARIABLES
  dialogue,   \* the requests of this client
  habit,      \* how it sends them
  sent,       \* how many of them it has begun to send
  wire,       \* bytes of these still on their way
  conn,       \* the ad_conn_t with its ad_http_t and its bufferevent
  calls,      \* the hook dispatches of the last callback
  answers,    \* history: the method and content of each request answered
  got         \* how many of the answers have left the out-buffer

vars == <<dialogue, habit, sent, wire, conn, calls, answers, got>>

AD_DONE == 2
NoReq   == [status |-> -1]    \* userdata slot 1 is empty
Hooks   == 1..3

\* AdConn's view: whether the buffers are empty, whether slot 1 is taken.
Conn ==
  INSTANCE AdConn WITH
    Conns <- {"c"}, NumHooks <- 3,
    HookMethod <- <<NoMethod, GetMethod, NoMethod>>, Pipelining <- TRUE,
    Replies <- [e \in {{"INIT", "WRITE"}, {"INIT"}, {"READ"}, {"WRITE"}, {"CLOSE"},
                       {"CLOSE", "TIMEOUT"}, {"CLOSE", "SHUTDOWN"}} |->
                  IF e = {"READ"} THEN {AD_OK, AD_TAKEOVER, AD_DONE, AD_CLOSE}
                                  ELSE {AD_OK}],
    Writes <- {{"READ"}}, Attaches <- {{"INIT", "WRITE"}, {"INIT"}},
    loop <- "run",
    calls <- [c \in {"c"} |-> calls],
    conn <- [c \in {"c"} |->
               [live |-> conn.live, status |-> conn.status,
                out |-> conn.out > 0, in |-> conn.in # <<>>, rd |-> conn.rd,
                wr |-> conn.wr, method |-> conn.method,
                slot |-> IF conn.req = NoReq THEN {} ELSE {1},
                lost |-> FALSE, expired |-> conn.expired, told |-> conn.told]]

\* out counts the answers in the out-buffer.
TypeOK ==
  /\ dialogue \in Dialogues /\ habit \in Habits /\ sent \in 0..Len(dialogue)
  /\ {wire, conn.in} \subseteq Bytes
  /\ conn.req \in Request \cup {NoReq}
  /\ conn.out \in 0..Len(dialogue)
  /\ got + conn.out = Len(answers)
  /\ Conn!TypeOK

-----------------------------------------------------------------------------
(* The three hooks.                                                        *)

Ans(k, status) == [k |-> k, status |-> status]

\* ad_http_handler.  A READ leaves the method to call_hooks unless it is set.
Handler(ev, k) ==
  CASE "INIT" \in ev -> Ans([k EXCEPT !.req = NewRequest], AD_OK)
    [] ev = {"READ"} ->
         LET s == HttpParser(St(k.req, k.in))
         IN  Ans([k EXCEPT !.req = s.req, !.in = s.in,
                           !.method = IF @ = NoMethod THEN s.req.method ELSE @],
                 Answer(s.req))
    [] OTHER -> Ans(k, AD_OK)

\* The hooks behind the handler that call_hooks lets through.
Behind(k) == {h \in {2, 3} : h = 2 => k.method \in {NoMethod, GetMethod}}

Done(ev, k) == ev = {"READ"} /\ k.req.status = REQ_DONE

\* Slip: the answer goes unnoticed, as if the hook had returned AD_OK.
WalksGoesOn(ev, k) ==
  LET a == Handler(ev, k)
      w(hs, out, status) ==
        [k |-> [a.k EXCEPT !.out = @ + out], status |-> status, hooks |-> hs]
  IN  CASE a.status # AD_OK  -> {w({1}, 0, a.status)}
        [] a.status = AD_OK /\ Done(ev, a.k) -> {w({1} \cup Behind(a.k), 1, AD_OK)}
        [] OTHER -> {w({1} \cup Behind(a.k), 0, AD_OK)}

\* call_hooks: the first answer that is not AD_OK ends the walk.
Walks(ev, k) ==
  LET a == Handler(ev, k)
      w(hs, out, status) ==
        [k |-> [a.k EXCEPT !.out = @ + out], status |-> status, hooks |-> hs]
  IN  CASE a.status # AD_OK -> {w({1}, 0, a.status)}
        [] a.status = AD_OK /\ Done(ev, a.k) /\ 2 \in Behind(a.k) ->
             {w({1, 2}, 1, s) : s \in {AD_DONE, AD_CLOSE}}
        [] a.status = AD_OK /\ Done(ev, a.k) /\ 2 \notin Behind(a.k) ->
             {w({1, 3}, 1, AD_CLOSE)}
        [] OTHER -> {w({1} \cup Behind(a.k), 0, AD_OK)}

\* What hooks were told last, and the answer that is about to be written.
Told(ev, hs, k) ==
  [k EXCEPT !.told = [h \in Hooks |-> IF h \in hs THEN Conn!Told(ev, @[h]) ELSE @[h]],
            !.wr = IF k.out > conn.out /\ @ # "failed" THEN "armed" ELSE @]

\* An event whose answer is dropped: INIT or CLOSE, which every hook lets pass.
Dropped(ev, k) == Told(ev, {1} \cup Behind(k), Handler(ev, k).k)

-----------------------------------------------------------------------------
(* conn_cb.                                                                *)

\* Slip: conn_reset keeps the method.
ResetKeepsMethod(k) == [k EXCEPT !.status = AD_OK, !.req = NoReq]

Reset(k) == [k EXCEPT !.status = AD_OK, !.req = NoReq, !.method = NoMethod]

Call(ev, k) == Conn!Call(ev, {1} \cup Behind(k))

\* Slip: a session that was done is closed and no other one begins.
SettledWithoutInit(ev, k, b, new) ==
  [conn    |-> IF k.status = AD_DONE THEN Reset(Dropped({"CLOSE"}, k)) ELSE k,
   calls   |-> b \o IF k.status = AD_DONE THEN <<Call({"CLOSE"}, k)>> ELSE <<>>,
   answers |-> answers \o new]

\* The branches at the end of conn_cb: what it leaves, b being the dispatches
\* so far and new the requests that were answered.
Settled(ev, k, b, new) ==
  LET last == IF "CLOSE" \in ev THEN ev ELSE {"CLOSE"}
      next == Reset(Dropped({"CLOSE"}, k))
      left(c, d) == [conn |-> c, calls |-> b \o d, answers |-> answers \o new]
  IN  CASE k.status = AD_DONE ->
             left(Dropped({"INIT"}, next), <<Call({"CLOSE"}, k), Call({"INIT"}, next)>>)
        [] k.status = AD_CLOSE /\ k.out = 0 ->
             left([Reset(Dropped(last, k)) EXCEPT
                     !.live = "freed", !.rd = FALSE, !.wr = "idle"],
                  <<Call(last, k)>>)
        [] OTHER -> left(k, <<>>)

\* answers records what was answered: the request as the hook saw it.
Answered(w, k) ==
  IF w.k.out = k.out THEN <<>>
  ELSE <<[method |-> w.k.req.method, content |-> w.k.req.inbuf]>>

Outcomes(ev, k) ==
  IF k.status \notin {AD_OK, AD_TAKEOVER} THEN {Settled(ev, k, <<>>, <<>>)}
  ELSE {Settled(ev,
                [Told(ev, w.hooks, w.k) EXCEPT !.status = Conn!Raised(@, w.status)],
                <<Conn!Call(ev, w.hooks)>>, Answered(w, k)) : w \in Walks(ev, k)}

ConnCb(ev, k) ==
  \E left \in Outcomes(ev, k) :
    conn' = left.conn /\ calls' = left.calls /\ answers' = left.answers

-----------------------------------------------------------------------------
(* The client and the callbacks.                                           *)

NoConn ==
  [live |-> "none", status |-> AD_OK, in |-> <<>>, out |-> 0, rd |-> FALSE,
   wr |-> "idle", method |-> NoMethod, req |-> NoReq, expired |-> FALSE,
   told |-> [h \in Hooks |-> "none"]]

Init ==
  /\ dialogue \in Dialogues /\ habit \in Habits
  /\ sent = 0 /\ wire = <<>> /\ answers = <<>> /\ got = 0
  /\ conn = NoConn /\ calls = <<>>

Open == conn.live = "open"

\* calls is cleared so that it always shows the last step.
Client ==
  /\ sent < Len(dialogue)
  /\ habit = "lockstep" => got = sent
  /\ sent' = sent + 1
  /\ wire' = wire \o Wire(dialogue[sent + 1])
  /\ UNCHANGED <<dialogue, habit, conn, calls, answers, got>>

\* conn_new: both event types are enabled, and INIT comes with WRITE.
ListenerCb ==
  /\ conn.live = "none"
  /\ LET k == [NoConn EXCEPT !.live = "open", !.rd = TRUE, !.wr = "armed"]
     IN  /\ conn' = Dropped({"INIT", "WRITE"}, k)
         /\ calls' = <<Call({"INIT", "WRITE"}, k)>>
  /\ UNCHANGED <<dialogue, habit, sent, wire, answers, got>>

\* libevent moves n bytes to the in-buffer.
Arrives(n) == Open /\ conn.rd /\ wire' = Skip(wire, n)

ReadCb(n) ==
  /\ Arrives(n)
  /\ ConnCb({"READ"}, [conn EXCEPT !.in = @ \o SubSeq(wire, 1, n)])
  /\ UNCHANGED <<dialogue, habit, sent, got>>

\* Slip: hooks hear of the drained out-buffer before it is empty.
WriteCbTooEarly ==
  /\ Open /\ conn.wr = "armed"
  /\ got' = got + conn.out
  /\ ConnCb({"WRITE"}, [conn EXCEPT !.wr = "idle"])
  /\ UNCHANGED <<dialogue, habit, sent, wire>>

WriteCb ==
  /\ Open /\ conn.wr = "armed"
  /\ got' = got + conn.out
  /\ ConnCb({"WRITE"}, [conn EXCEPT !.out = 0, !.wr = "idle"])
  /\ UNCHANGED <<dialogue, habit, sent, wire>>

EventCb ==
  /\ Open
  /\ \/ /\ conn.rd
        /\ \E what \in Failures \cap {"EOF", "TIMEOUT"} :
             ConnCb(IF what = "TIMEOUT" THEN {"CLOSE", "TIMEOUT"} ELSE {"CLOSE"},
                    [conn EXCEPT !.status = AD_CLOSE, !.rd = FALSE,
                                 !.expired = (what = "TIMEOUT")])
     \/ /\ "WRITE_ERROR" \in Failures /\ conn.wr = "armed" /\ conn.out > 0
        /\ ConnCb({"CLOSE"}, [conn EXCEPT !.status = AD_CLOSE, !.wr = "failed"])
  /\ UNCHANGED <<dialogue, habit, sent, wire, got>>

Next ==
  \/ Client \/ ListenerCb \/ WriteCb \/ EventCb
  \/ \E n \in 1..Len(wire) : ReadCb(n)

Spec == Init /\ [][Next]_vars

\* The client goes on, what is on its way arrives, in both directions: no
\* action but ReadCb takes bytes off the wire.
FairSpec ==
  /\ Spec
  /\ WF_vars(Client) /\ WF_vars(ListenerCb) /\ WF_vars(WriteCb)
  /\ WF_wire(\E n \in 1..Len(wire) : Arrives(n))

-----------------------------------------------------------------------------
(* Properties.                                                             *)

\* The handler and the example's hooks are hooks as AdConn supposes, so
\* that what is shown there of every connection holds of this one.
ImplementsConn == Conn!Spec

\* Sessions are bracketed for the two hooks that are not on a method.
EveryHookPaired == Conn!EveryHookPaired

\* Each request is answered once, in the order of the client, and as what it
\* was: by its own method and with its own content, however TCP cut it.  None
\* that is malformed is answered.
AnswersInOrder ==
  /\ Len(answers) <= sent
  /\ \A i \in DOMAIN answers :
       /\ Sound(dialogue[i])
       /\ answers[i].method = Lines[dialogue[i].line].method
       /\ answers[i].content = Body(dialogue[i])

\* A client that waits for each answer gets it, or the connection is closed
\* behind an earlier one, unless writing to the client fails.
AnswersArrive ==
  \A i \in UNION {DOMAIN d : d \in Dialogues} :
    (habit = "lockstep" /\ sent >= i /\ conn.live = "open")
      ~> (got >= i \/ conn.live = "freed" \/ conn.wr = "failed")

\* ad_http_handler.c:561, "Do not call user callbacks until I reach the next
\* state": a READ reaches the hooks behind the handler only with a request
\* that has got past AD_HTTP_REQ_INIT.
HooksWaitForState ==
  [][\A h \in {2, 3} :
       Len(calls') = 1 /\ calls'[1].event = {"READ"} /\ h \in calls'[1].hooks
         => conn'.req.status # REQ_INIT]_vars
=============================================================================
