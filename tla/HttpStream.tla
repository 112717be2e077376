----------------------------- MODULE HttpStream -----------------------------
(***************************************************************************)
(* One HTTP connection as the parser sees it: a client sends a sequence of *)
(* requests, TCP delivers the bytes in pieces, each piece runs the READ    *)
(* case of ad_http_handler, and a hook behind it takes every finished      *)
(* request and answers AD_DONE, upon which conn_cb renews the session.     *)
(* Bytes of the next request that came with a piece stay in conn->in.      *)
(***************************************************************************)
EXTENDS HttpFormat

CONSTANTS
  Dialogues,  \* what a client may send: a set of sequences of requests
  Habits      \* a client may wait for each answer before its next request
              \* ("lockstep"), or send on ("pipelined")

ASSUME DialogueAssumption == Dialogues \subseteq Seq(Requests)
ASSUME HabitAssumption == Habits \subseteq {"lockstep", "pipelined"}

VARIABLES
  dialogue,   \* the requests of this client
  habit,      \* how it sends them
  sent,       \* how many of them the client has begun to send
  wire,       \* bytes of these still on their way
  in,         \* conn->in
  req,        \* the request part of the session's ad_http_t
  seen,       \* history: the bytes this session had to do with
  answer,     \* what the last READ answered the hook chain, or NoAnswer
  taken       \* what the hook behind the parser took, in order

vars == <<dialogue, habit, sent, wire, in, req, seen, answer, taken>>

NoAnswer == -1

TypeOK ==
  /\ dialogue \in Dialogues /\ habit \in Habits /\ sent \in 0..Len(dialogue)
  /\ {wire, in, seen} \subseteq Bytes
  /\ req \in Request
  /\ answer \in {NoAnswer, AD_OK, AD_TAKEOVER, AD_CLOSE}
  /\ taken \in Seq([path : Paths, content : Bytes])

Init ==
  /\ dialogue \in Dialogues /\ habit \in Habits
  /\ sent = 0 /\ wire = <<>> /\ in = <<>> /\ seen = <<>>
  /\ req = NewRequest /\ answer = NoAnswer /\ taken = <<>>

Client ==
  /\ sent < Len(dialogue)
  /\ habit = "lockstep" => Len(taken) = sent
  /\ sent' = sent + 1
  /\ wire' = wire \o Wire(dialogue[sent + 1])
  /\ UNCHANGED <<dialogue, habit, in, req, seen, answer, taken>>

Took(request) == [path |-> request.path, content |-> request.inbuf]

\* READ with a piece of n bytes.  The hook behind the parser is asked if the
\* parser answers AD_OK; it takes the content when the request is done and
\* answers AD_DONE: CLOSE and INIT follow, with a new ad_http_t.
Read(n) ==
  LET got   == SubSeq(wire, 1, n)
      after == HttpParser(St(req, in \o got))
      done  == Answer(after.req) = AD_OK /\ after.req.status = REQ_DONE
  IN  /\ answer # AD_CLOSE
      /\ wire' = Skip(wire, n)
      /\ in' = after.in
      /\ req' = IF done THEN NewRequest ELSE after.req
      /\ seen' = IF done THEN after.in ELSE seen \o got
      /\ taken' = IF done THEN Append(taken, Took(after.req)) ELSE taken
      /\ answer' = Answer(after.req)
      /\ UNCHANGED <<dialogue, habit, sent>>

Next ==
  \/ Client
  \/ \E n \in 1..Len(wire) : Read(n)

Spec == Init /\ [][Next]_vars

\* What is on its way arrives, and the client goes on.
FairSpec ==
  /\ Spec
  /\ WF_vars(Client)
  /\ WF_vars(\E n \in 1..Len(wire) : Read(n))

-----------------------------------------------------------------------------
(* Properties.                                                             *)

\* Where TCP cuts the stream is of no consequence: the parser is always in
\* the state that it reaches from the same bytes in one piece.  A renewed
\* session is not parsed before its next READ.
SplitInsensitive ==
  \/ seen = in /\ req = NewRequest
  \/ St(req, in) = HttpParser(St(NewRequest, seen))

\* The hook takes the contents that the client sent, unchanged, in order,
\* each once, and under the path that the client meant, however it wrote it.
TakesWhatWasSent ==
  /\ Len(taken) <= sent
  /\ \A i \in DOMAIN taken :
       taken[i] = [path |-> Path(dialogue[i]), content |-> Body(dialogue[i])]

\* A request is refused only if it is malformed, and no malformed request is
\* ever handed to the hook behind the parser.
RefusesOnlyBad ==
  /\ answer = AD_CLOSE =>
       Len(taken) < sent /\ ~Sound(dialogue[Len(taken) + 1])
  /\ \A i \in DOMAIN taken : Sound(dialogue[i])

\* The session keeps to its request: a byte that follows the request is left
\* for the next session, and nothing of the request stays behind.
NothingSwallowed ==
  wire = <<>> /\ Len(taken) = sent => in = <<>>

\* A client that waits for its answers is answered: every request of its
\* dialogue is taken, or one of them is refused.
AllTaken ==
  habit = "lockstep" ~> (Len(taken) = Len(dialogue) \/ answer = AD_CLOSE)

\* README.md:27, "Support request pipelining": so is a client that sends its
\* next request at once.
PipelinedTaken ==
  habit = "pipelined" ~> (Len(taken) = Len(dialogue) \/ answer = AD_CLOSE)
=============================================================================
