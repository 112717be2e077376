------------------------------- MODULE AdConn -------------------------------
(***************************************************************************)
(* The life of the connections of one libasyncd server, as the event loop  *)
(* of src/ad_server.c drives it: listener_cb and conn_new open a           *)
(* connection, the three bufferevent callbacks funnel into conn_cb,        *)
(* conn_cb asks the chain of hooks (call_hooks) and then renews, parks,    *)
(* releases or keeps the connection.                                       *)
(*                                                                         *)
(* The loop is single threaded, so one callback is one action.  What the   *)
(* hooks are is the user's business: a hook may answer anything that       *)
(* Replies allows, may add output, take input, attach userdata and (the    *)
(* first hook, on a read) name the request's method.  What libevent does   *)
(* is modelled from how the callbacks depend on it: reading stays enabled  *)
(* until an EOF, an error or a read timeout, the write callback runs when  *)
(* the out-buffer has been drained (and once after EV_WRITE is enabled),   *)
(* and a failed write disables EV_WRITE.                                   *)
(***************************************************************************)
EXTENDS Naturals, Sequences

CONSTANTS
  Conns,       \* the sockets that clients may open
  NumHooks,    \* length of server->hooks
  Methods,     \* method names a protocol handler may set
  NoMethod,    \* conn->method == NULL, or a hook registered without method
  HookMethod,  \* the method each hook was registered on
  Pipelining,  \* option server.request_pipelining
  Failures,    \* what may end a connection from outside
  Replies,     \* what hooks may return, for each event
  Writes,      \* the events on which hooks may add output
  Attaches     \* the events on which hooks may attach userdata

AD_OK       == 0
AD_TAKEOVER == 1
AD_DONE     == 2
AD_CLOSE    == 3
Status      == {AD_OK, AD_TAKEOVER, AD_DONE, AD_CLOSE}

Hooks == 1..NumHooks
Slots == {0, 1}    \* userdata[0] for the user, userdata[1] for the protocol

\* An event is the set of its flags, as call_hooks gets them.
EvNew      == {"INIT", "WRITE"}
EvRenew    == {"INIT"}
EvRead     == {"READ"}
EvWrite    == {"WRITE"}
EvClose    == {"CLOSE"}
EvTimeout  == {"CLOSE", "TIMEOUT"}
EvShutdown == {"CLOSE", "SHUTDOWN"}
Events     == {EvNew, EvRenew, EvRead, EvWrite, EvClose, EvTimeout, EvShutdown}

Causes == {"EOF", "ERROR", "TIMEOUT", "WRITE_ERROR"}

\* "This hook must be registered at the top of hook chain": the protocol
\* handler is the first hook and is registered without a method.
ASSUME HookAssumption ==
  /\ NumHooks \in Nat \ {0}
  /\ NoMethod \notin Methods
  /\ HookMethod \in [Hooks -> Methods \cup {NoMethod}]
  /\ HookMethod[1] = NoMethod
ASSUME OptionAssumption ==
  /\ Pipelining \in BOOLEAN
  /\ Failures \subseteq Causes
  /\ Replies \in [Events -> SUBSET Status]
  /\ Writes \subseteq Events
  /\ Attaches \subseteq Events

VARIABLES
  conn,    \* each connection's ad_conn_t, with its bufferevent's state
  loop,    \* the event loop: "run", "exit" (asked), "break" (error), "gone"
  calls    \* the hook dispatches of the last callback, per connection

vars == <<conn, loop, calls>>

\* live..slot are the program's state; lost, expired and told are history:
\* an attached object became unreachable, the read timeout fired, and which
\* of INIT and CLOSE each hook was told last.
ConnType ==
  [live : {"none", "open", "freed"}, status : Status,
   out : BOOLEAN, in : BOOLEAN, rd : BOOLEAN, wr : {"idle", "armed", "failed"},
   method : Methods \cup {NoMethod}, slot : SUBSET Slots,
   lost : BOOLEAN, expired : BOOLEAN, told : [Hooks -> {"none", "init", "close"}]]

CallType == [event : Events, hooks : SUBSET Hooks]

TypeOK ==
  /\ conn \in [Conns -> ConnType]
  /\ loop \in {"run", "exit", "break", "gone"}
  /\ calls \in [Conns -> Seq(CallType)]

-----------------------------------------------------------------------------
(* The hook chain.                                                         *)

\* Slip: a hook for every method counts as one for no method.
MatchesStrictly(h, m) == m = NoMethod \/ HookMethod[h] = m

Matches(h, m) == HookMethod[h] = NoMethod \/ m = NoMethod \/ HookMethod[h] = m

\* The method after the first hook has run: on a read it may set one.
MethodAfter(ev, m) ==
  {m} \cup (IF ev = EvRead /\ m = NoMethod THEN Methods ELSE {})

\* The hooks an event can reach: one is compared with the method its
\* predecessors left in the connection, which only the first can change.
Chain(m, n) == {h \in Hooks : Matches(h, IF h = 1 THEN m ELSE n)}

\* The chain is walked in order until a hook answers something but AD_OK.
WalksTo(ev, m, n) ==
  {[status |-> AD_OK, hooks |-> Chain(m, n), method |-> n]} \cup
  {[status |-> s, hooks |-> {g \in Chain(m, n) : g <= h}, method |-> n] :
     h \in Chain(m, n), s \in Replies[ev] \ {AD_OK}}

Walks(ev, m) == UNION {WalksTo(ev, m, n) : n \in MethodAfter(ev, m)}

\* Slip: the userdata slots are counted from 1.
DeedsFromOne(ev) ==
  [wrote  : IF ev \in Writes THEN BOOLEAN ELSE {FALSE},
   ate    : IF ev = EvRead THEN BOOLEAN ELSE {FALSE},
   attach : IF ev \in Attaches THEN SUBSET {s + 1 : s \in Slots} ELSE {{}}]

\* What the called hooks may do to the connection meanwhile.  A slot belongs
\* to one hook, so that one event attaches to it at most once.
Deeds(ev) ==
  [wrote  : IF ev \in Writes THEN BOOLEAN ELSE {FALSE},
   ate    : IF ev = EvRead THEN BOOLEAN ELSE {FALSE},
   attach : IF ev \in Attaches THEN SUBSET Slots ELSE {{}}]

\* set_userdata overwrites the slot and returns the address of the array, so
\* the object that was there is out of everybody's reach.
PushedOut(slot, attach) == slot \cap attach # {}

Told(ev, was) ==
  CASE "INIT" \in ev -> "init" [] "CLOSE" \in ev -> "close" [] OTHER -> was

\* The hooks an event can reach, where their answer is dropped.
Audiences(ev, m) == {w.hooks : w \in Walks(ev, m)}

\* The connection k after event ev was heard by the hooks hs, which did d.
Heard(k, ev, hs, d) ==
  [k EXCEPT !.out    = @ \/ d.wrote,
            !.wr     = IF d.wrote /\ @ # "failed" THEN "armed" ELSE @,
            !.in     = @ /\ ~d.ate,
            !.lost   = @ \/ PushedOut(k.slot, d.attach),
            !.slot   = @ \cup d.attach,
            !.told   = [h \in Hooks |-> IF h \in hs THEN Told(ev, @[h]) ELSE @[h]]]

Call(ev, hs) == [event |-> ev, hooks |-> hs]

-----------------------------------------------------------------------------
(* The connection object.                                                  *)

NoConn ==
  [live |-> "none", status |-> AD_OK, out |-> FALSE, in |-> FALSE,
   rd |-> FALSE, wr |-> "idle", method |-> NoMethod, slot |-> {},
   lost |-> FALSE, expired |-> FALSE, told |-> [h \in Hooks |-> "none"]]

\* Slip: EV_WRITE is not enabled.
NewConnReadOnly == [NoConn EXCEPT !.live = "open", !.rd = TRUE]

\* calloc, conn_reset and the two bufferevent_enable calls.
NewConn == [NoConn EXCEPT !.live = "open", !.rd = TRUE, !.wr = "armed"]

\* Slips: conn_reset forgets the userdata, or the method.
ResetKeepsUserdata(k) == [k EXCEPT !.status = AD_OK, !.method = NoMethod]
ResetKeepsMethod(k)   == [k EXCEPT !.status = AD_OK, !.slot = {}]

\* conn_reset: every attached object is released, the method forgotten.
Reset(k) == [k EXCEPT !.status = AD_OK, !.slot = {}, !.method = NoMethod]

\* conn_free, reached with status AD_CLOSE only: AD_EVENT_SHUTDOWN is not sent.
\* bufferevent_free discards what is left in the out-buffer.
Free(k) == [Reset(k) EXCEPT !.live = "freed", !.rd = FALSE, !.wr = "idle"]

\* The assignment of conn_cb and the condition around it.
Raised(old, new) ==
  IF old = AD_CLOSE \/ (old = AD_DONE /\ old >= new) THEN old ELSE new

\* The end of a callback: connection c is left as k, dispatches in order b.
Leave(c, k, b) ==
  /\ conn' = [conn EXCEPT ![c] = k]
  /\ calls' = [x \in Conns |-> IF x = c THEN b ELSE <<>>]
  /\ UNCHANGED loop

\* Slips: the next session begins without INIT, or before the last one ended.
RenewWithoutInit(c, k, b) ==
  /\ k.status = AD_DONE /\ Pipelining
  /\ \E hs \in Audiences(EvClose, k.method), d \in Deeds(EvClose) :
       Leave(c, Reset(Heard(k, EvClose, hs, d)), b \o <<Call(EvClose, hs)>>)

RenewInitFirst(c, k, b) ==
  /\ k.status = AD_DONE /\ Pipelining
  /\ \E hs1 \in Audiences(EvRenew, NoMethod), d1 \in Deeds(EvRenew) :
     \E hs2 \in Audiences(EvClose, k.method), d2 \in Deeds(EvClose) :
        Leave(c, Heard(Reset(Heard(k, EvRenew, hs1, d1)), EvClose, hs2, d2),
              b \o <<Call(EvRenew, hs1), Call(EvClose, hs2)>>)

\* AD_DONE with pipelining: close the session, reset, open the next one.
\* Whatever the hooks answer to the two events is dropped.
Renew(c, k, b) ==
  /\ k.status = AD_DONE /\ Pipelining
  /\ \E hs1 \in Audiences(EvClose, k.method), d1 \in Deeds(EvClose) :
     \E hs2 \in Audiences(EvRenew, NoMethod), d2 \in Deeds(EvRenew) :
        Leave(c, Heard(Reset(Heard(k, EvClose, hs1, d1)), EvRenew, hs2, d2),
              b \o <<Call(EvClose, hs1), Call(EvRenew, hs2)>>)

\* AD_DONE without pipelining: input is drained on a read and nothing else.
Park(c, ev, k, b) ==
  /\ k.status = AD_DONE /\ ~Pipelining
  /\ Leave(c, [k EXCEPT !.in = @ /\ ev # EvRead], b)

\* Slip: the connection is freed although output is waiting.
ReleaseAtOnce(c, ev, k, b) ==
  /\ k.status = AD_CLOSE
  /\ \E hs \in Audiences(EvClose, k.method), d \in Deeds(EvClose) :
       Leave(c, Free(Heard(k, EvClose, hs, d)), b \o <<Call(EvClose, hs)>>)

\* AD_CLOSE with an empty out-buffer: last event, then conn_free.
Release(c, ev, k, b) ==
  /\ k.status = AD_CLOSE /\ ~k.out
  /\ LET last == IF "CLOSE" \in ev THEN ev ELSE EvClose
     IN  \E hs \in Audiences(last, k.method), d \in Deeds(last) :
           Leave(c, Free(Heard(k, last, hs, d)), b \o <<Call(last, hs)>>)

\* Slip: closing is left to the next write event in every case.
KeepAlways(c, k, b) ==
  /\ k.status \in {AD_OK, AD_TAKEOVER, AD_CLOSE}
  /\ Leave(c, k, b)

\* AD_OK, AD_TAKEOVER, or AD_CLOSE with output still to be sent.
Keep(c, k, b) ==
  /\ k.status \in {AD_OK, AD_TAKEOVER} \/ (k.status = AD_CLOSE /\ k.out)
  /\ Leave(c, k, b)

Settle(c, ev, k, b) ==
  Renew(c, k, b) \/ Park(c, ev, k, b) \/ Release(c, ev, k, b) \/ Keep(c, k, b)

\* Slips: hooks are asked whatever the status is, or unless it is AD_CLOSE.
AsksIn(statuses, c, ev, k) ==
  \/ /\ k.status \in statuses
     /\ \E w \in Walks(ev, k.method), d \in Deeds(ev) :
          Settle(c, ev,
                 [Heard(k, ev, w.hooks, d) EXCEPT !.status = Raised(@, w.status),
                                                  !.method = w.method],
                 <<Call(ev, w.hooks)>>)
  \/ k.status \notin statuses /\ Settle(c, ev, k, <<>>)

ConnCbAlwaysAsks(c, ev, k) == AsksIn(Status, c, ev, k)
ConnCbAsksParked(c, ev, k) == AsksIn(Status \ {AD_CLOSE}, c, ev, k)

\* conn_cb, entered with the connection as k: the hooks hear of the event
\* only while the status is AD_OK or AD_TAKEOVER.
ConnCb(c, ev, k) ==
  \/ /\ k.status \in {AD_OK, AD_TAKEOVER}
     /\ \E w \in Walks(ev, k.method), d \in Deeds(ev) :
          Settle(c, ev,
                 [Heard(k, ev, w.hooks, d) EXCEPT !.status = Raised(@, w.status),
                                                  !.method = w.method],
                 <<Call(ev, w.hooks)>>)
  \/ /\ k.status \notin {AD_OK, AD_TAKEOVER}
     /\ Settle(c, ev, k, <<>>)

-----------------------------------------------------------------------------
(* The callbacks.                                                          *)

Init ==
  /\ conn = [c \in Conns |-> NoConn]
  /\ loop = "run"
  /\ calls = [c \in Conns |-> <<>>]

\* A loop that was asked to exit finishes its iteration first.
Running == loop \in {"run", "exit"}

Serving(c) == Running /\ conn[c].live = "open"

\* listener_cb and conn_new; or no memory, which breaks the loop.
ListenerCb(c) ==
  /\ Running /\ conn[c].live = "none"
  /\ \E w \in Walks(EvNew, NoMethod), d \in Deeds(EvNew) :
       Leave(c, [Heard(NewConn, EvNew, w.hooks, d) EXCEPT !.status = w.status],
             <<Call(EvNew, w.hooks)>>)

ListenerFails(c) ==
  /\ Running /\ conn[c].live = "none"
  /\ loop' = "break"
  /\ calls' = [x \in Conns |-> <<>>]
  /\ UNCHANGED conn

\* Bytes arrived in the in-buffer.
ReadCb(c) ==
  /\ Serving(c) /\ conn[c].rd
  /\ ConnCb(c, EvRead, [conn[c] EXCEPT !.in = TRUE])

\* The out-buffer has been drained.
WriteCb(c) ==
  /\ Serving(c) /\ conn[c].wr = "armed"
  /\ ConnCb(c, EvWrite, [conn[c] EXCEPT !.out = FALSE, !.wr = "idle"])

\* End of file, an error or the read timeout while reading.
ReadEnds(c, what) ==
  /\ Serving(c) /\ conn[c].rd
  /\ ConnCb(c, IF what = "TIMEOUT" THEN EvTimeout ELSE EvClose,
            [conn[c] EXCEPT !.status = AD_CLOSE, !.rd = FALSE,
                            !.expired = (what = "TIMEOUT")])

\* Sending failed: libevent disables EV_WRITE before it calls back.
WriteFails(c) ==
  /\ Serving(c) /\ conn[c].wr = "armed" /\ conn[c].out
  /\ ConnCb(c, EvClose, [conn[c] EXCEPT !.status = AD_CLOSE, !.wr = "failed"])

EventCb(c) ==
  \/ \E what \in Failures \ {"WRITE_ERROR"} : ReadEnds(c, what)
  \/ "WRITE_ERROR" \in Failures /\ WriteFails(c)

\* notify_cb asks the loop to exit; the thread that ran the loop then closes
\* and frees the server, and no callback runs afterwards.
NotifyCb ==
  /\ loop = "run"
  /\ loop' = "exit"
  /\ calls' = [c \in Conns |-> <<>>]
  /\ UNCHANGED conn

FreeServer ==
  /\ loop \in {"exit", "break"}
  /\ loop' = "gone"
  /\ calls' = [c \in Conns |-> <<>>]
  /\ UNCHANGED conn

Next ==
  \/ \E c \in Conns :
       ListenerCb(c) \/ ListenerFails(c) \/ ReadCb(c) \/ WriteCb(c) \/ EventCb(c)
  \/ NotifyCb
  \/ FreeServer

Spec == Init /\ [][Next]_vars

\* The loop keeps dispatching a pending write event, and the peer keeps
\* reading: a drained out-buffer is eventually reported.
FairSpec == Spec /\ \A c \in Conns : WF_vars(WriteCb(c))

-----------------------------------------------------------------------------
(* Properties.                                                             *)

\* The top hook's sessions are bracketed: it has been told INIT, and not yet
\* CLOSE, exactly while the connection exists, whatever hooks answer and
\* however often conn_cb renews the session (ad_http_handler keeps its parser
\* state between the two events).
TopHookPaired ==
  \A c \in Conns :
    /\ conn[c].live = "open" => conn[c].told[1] = "init"
    /\ conn[c].live = "freed" => conn[c].told[1] = "close"

\* The same for every hook of the chain that is not on a method: whoever
\* allocated on INIT is told CLOSE before conn_free and before the next INIT.
EveryHookPaired ==
  \A c \in Conns, h \in {g \in Hooks : HookMethod[g] = NoMethod} :
    /\ conn[c].live = "open" => conn[c].told[h] = "init"
    /\ conn[c].live = "freed" => conn[c].told[h] = "close"

\* An open connection is never stranded: one that is to be closed has a write
\* event pending that will bring conn_cb back, any other is still being read.
NeverStranded ==
  \A c \in Conns :
    conn[c].live = "open" =>
      IF conn[c].status = AD_CLOSE THEN conn[c].wr = "armed" ELSE conn[c].rd

\* "Close as soon as we sent all data out": conn_free never discards output.
NothingUnsent ==
  \A c \in Conns : conn[c].live = "freed" => ~conn[c].out

\* Userdata attached on INIT is released by conn_reset before the next INIT
\* can overwrite it, and none survives the connection.
NothingLost ==
  \A c \in Conns :
    /\ ~conn[c].lost
    /\ conn[c].live # "open" => conn[c].slot = {}

\* AD_CLOSE is final: from then on hooks hear one CLOSE, at the moment the
\* connection is freed, and nothing else; no event revives the connection.
ClosingIsFinal ==
  [][\A c \in Conns :
       conn[c].live = "open" /\ conn[c].status = AD_CLOSE =>
         \/ /\ conn'[c].live = "open" /\ conn'[c].status = AD_CLOSE
            /\ calls'[c] = <<>>
         \/ /\ conn'[c].live = "freed"
            /\ Len(calls'[c]) = 1 /\ "CLOSE" \in calls'[c][1].event]_vars

\* Without pipelining AD_DONE is the end of the conversation: only a CLOSE
\* event reaches the hooks afterwards and the status never goes back.
ParkedIsSilent ==
  [][\A c \in Conns :
       ~Pipelining /\ conn[c].live = "open" /\ conn[c].status = AD_DONE =>
         /\ \A i \in DOMAIN calls'[c] : "CLOSE" \in calls'[c][i].event
         /\ conn'[c].live = "open" => conn'[c].status \in {AD_DONE, AD_CLOSE}]_vars

\* A renewed session starts like a new connection: nothing of the previous
\* request's method or verdict decides which hooks hear the next one.
SessionStartsClean ==
  [][\A c \in Conns :
       (\E i \in DOMAIN calls'[c] : calls'[c][i].event = EvRenew) =>
         conn'[c].method = NoMethod /\ conn'[c].status = AD_OK]_vars

\* The connections implement the promise made to the top hook.
Protocol ==
  INSTANCE HookProtocol WITH
    phase <- [c \in Conns |-> conn[c].live],
    heard <- [c \in Conns |->
                [i \in DOMAIN calls[c] |->
                   IF 1 \in calls[c][i].hooks THEN calls[c][i].event ELSE {}]]

ImplementsProtocol == Protocol!Spec

\* A connection that is to be closed is closed once its output has been sent.
ClosingEnds ==
  \A c \in Conns :
    (conn[c].live = "open" /\ conn[c].status = AD_CLOSE)
      ~> (conn[c].live = "freed" \/ loop # "run")

\* ad_server.h:127, the TIMEOUT flag "will be set with AD_EVENT_CLOSE" on a
\* connection that the read timeout ends.
TimeoutIsTold ==
  [][\A c \in Conns :
       conn[c].live = "open" /\ conn'[c].live = "freed" /\ conn'[c].expired =>
         \E i \in DOMAIN calls'[c] : calls'[c][i].event = EvTimeout]_vars
=============================================================================
