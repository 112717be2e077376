----------------------------- MODULE ServerLife -----------------------------
(***************************************************************************)
(* Starting, stopping and freeing one libasyncd server from several        *)
(* threads: ad_server_start, ad_server_stop, ad_server_free, close_server, *)
(* server_loop and the notification channel of src/ad_server.c.            *)
(*                                                                         *)
(* "app" is the thread that owns the server object and calls start.  With  *)
(* option server.thread the loop gets a thread of its own and app calls    *)
(* stop or free; without it app runs the loop inside start, and "other",   *)
(* a different thread, calls stop.  A label of pc names the next access of *)
(* that thread to the server object, so a thread at a label is about to    *)
(* dereference it; only "idle", "inloop" and "sleep" do not.               *)
(*                                                                         *)
(* libevent is modelled from how it is used here, without evthread: the    *)
(* loop ends when it was asked to, when it was broken, or when it finds no *)
(* event registered before it polls; removing the last event does not wake *)
(* a loop that is polling already.  A bufferevent with nothing to send has *)
(* no event registered.  Data races inside libevent are left out.          *)
(***************************************************************************)
EXTENDS Integers

CONSTANTS
  Settings,     \* the servers considered, see Setting
  MaxConns,     \* bound: connections open at the same time
  MaxStarts     \* bound: calls of ad_server_start

\* Options server.thread and server.free_on_stop; whether a hook may run for
\* longer than the sleep(1) of stop; and what may fail: "bind", "thread"
\* (pthread_create), "accept".
Setting ==
  [threaded : BOOLEAN, free_on_stop : BOOLEAN, slow_hooks : BOOLEAN,
   trouble : SUBSET {"bind", "thread", "accept"}]

ASSUME LifeAssumption ==
  /\ Settings \subseteq Setting
  /\ {MaxConns, MaxStarts} \subseteq Nat

VARIABLES
  opt,       \* the setting of this server
  obj,       \* the ad_server_t: "live" or "freed"
  base,      \* server->evbase: "null", "live", "freed"
  notify,    \* server->notify_buffer: "null", "quiet", "sent" (notify_cb is due)
  listener,  \* server->listener # NULL
  thread,    \* server->thread: "null", "made", "bogus" (pthread_create failed)
  loop,      \* "off", "check", "wait", "busy" (in a callback), "exit", "ended"
  open,      \* number of open connections
  pc,        \* what each thread does next
  call,      \* the API call each thread is in
  starts,    \* number of calls of ad_server_start
  asked,     \* stop was called since the last start
  leaked     \* a notification channel was overwritten unreleased

vars == <<opt, obj, base, notify, listener, thread, loop, open, pc, call,
          starts, asked, leaked>>

server  == <<opt, obj, base, notify, listener, thread>>
threads == <<pc, call>>
history == <<starts, asked, leaked>>

Actors  == {"app", "other"}
Labels  == {"idle", "inloop", "notify", "sleep", "option", "close_notify",
            "close_listener", "join", "release"}
Running == loop \in {"check", "wait", "busy", "exit"}

TypeOK ==
  /\ opt \in Settings
  /\ obj \in {"live", "freed"}
  /\ base \in {"null", "live", "freed"}
  /\ notify \in {"null", "quiet", "sent"}
  /\ {listener, asked, leaked} \subseteq BOOLEAN
  /\ thread \in {"null", "made", "bogus"}
  /\ loop \in {"off", "check", "wait", "busy", "exit", "ended"}
  /\ open \in 0..MaxConns
  /\ pc \in [Actors -> Labels]
  /\ call \in [Actors -> {"none", "start", "stop", "free"}]
  /\ starts \in 0..MaxStarts

Init ==
  /\ opt \in Settings
  /\ obj = "live" /\ base = "null" /\ notify = "null" /\ thread = "null"
  /\ loop = "off" /\ open = 0
  /\ pc = [a \in Actors |-> "idle"] /\ call = [a \in Actors |-> "none"]
  /\ starts = 0
  /\ listener = FALSE /\ asked = FALSE /\ leaked = FALSE

Goto(a, label) == pc' = [pc EXCEPT ![a] = label]

Enter(a, name, label) == Goto(a, label) /\ call' = [call EXCEPT ![a] = name]

Return(a) == Enter(a, "none", "idle")

-----------------------------------------------------------------------------
(* ad_server_start.                                                        *)

\* Event base and notification channel; a server that runs is not started.
StartUp ==
  /\ pc["app"] = "idle" /\ obj = "live" /\ thread = "null"
  /\ starts < MaxStarts
  /\ starts' = starts + 1
  /\ base' = "live" /\ notify' = "quiet"
  /\ leaked' = (leaked \/ notify # "null")
  /\ asked' = FALSE
  /\ UNCHANGED <<opt, obj, open>>

BindFails ==
  /\ StartUp
  /\ "bind" \in opt.trouble
  /\ UNCHANGED <<listener, thread, loop, threads>>

StartThread ==
  /\ StartUp
  /\ opt.threaded
  /\ listener' = TRUE /\ thread' = "made" /\ loop' = "check"
  /\ UNCHANGED threads

\* The value of pthread_create is not looked at.
ThreadFails ==
  /\ StartUp
  /\ opt.threaded /\ "thread" \in opt.trouble
  /\ listener' = TRUE /\ thread' = "bogus"
  /\ UNCHANGED <<loop, threads>>

StartHere ==
  /\ StartUp
  /\ ~opt.threaded
  /\ listener' = TRUE /\ loop' = "check"
  /\ Enter("app", "start", "inloop")
  /\ UNCHANGED thread

\* server_loop returned in the thread that called start.
LoopReturns ==
  /\ pc["app"] = "inloop" /\ loop = "ended"
  /\ Goto("app", "close_notify")
  /\ UNCHANGED <<server, loop, open, call, history>>

-----------------------------------------------------------------------------
(* ad_server_stop and ad_server_free.                                      *)

\* Stop is called once per start, on a server that was started.
Stop(a) ==
  /\ pc[a] = "idle" /\ ~asked
  /\ IF opt.threaded THEN a = "app" /\ thread # "null"
                 ELSE a = "other" /\ pc["app"] = "inloop"
  /\ asked' = TRUE
  /\ Enter(a, "stop", "notify")
  /\ UNCHANGED <<server, loop, open, starts, leaked>>

\* Slip: a server without a thread is notified, too.
FreeNotifies ==
  /\ pc["app"] = "idle" /\ obj = "live"
  /\ pc["other"] = "idle"
  /\ Enter("app", "free", IF opt.threaded THEN "notify" ELSE "release")
  /\ UNCHANGED <<server, loop, open, history>>

\* The owner frees a server nobody else is working on.
Free ==
  /\ pc["app"] = "idle" /\ obj = "live"
  /\ pc["other"] = "idle"
  /\ Enter("app", "free", IF opt.threaded /\ thread # "null" THEN "notify" ELSE "release")
  /\ UNCHANGED <<server, loop, open, history>>

\* Slip: nothing is written to the channel.
NotifyNothing(a) ==
  /\ pc[a] = "notify" /\ obj = "live" /\ notify # "null"
  /\ Goto(a, "sleep")
  /\ UNCHANGED <<server, loop, open, call, history>>

\* notify_loopexit.
NotifyLoopexit(a) ==
  /\ pc[a] = "notify" /\ obj = "live" /\ notify # "null"
  /\ notify' = "sent"
  /\ Goto(a, "sleep")
  /\ UNCHANGED <<opt, obj, base, listener, thread, loop, open, call, history>>

\* A second is enough for the loop to run notify_cb, unless it is busy.
SleepEnds(a) ==
  /\ pc[a] = "sleep"
  /\ \/ notify # "sent"
     \/ loop \in {"off", "ended"}
     \/ opt.slow_hooks /\ loop = "busy"
  /\ Goto(a, IF call[a] = "free" THEN "close_notify" ELSE "option")
  /\ UNCHANGED <<server, loop, open, call, history>>

\* if (ad_server_get_option_int(server, "server.thread")), after the sleep.
TestOption(a) ==
  /\ pc[a] = "option" /\ obj = "live"
  /\ IF opt.threaded THEN Goto(a, "close_notify") /\ UNCHANGED call ELSE Return(a)
  /\ UNCHANGED <<server, loop, open, history>>

\* Slip: the channel is left to the next start.
KeepNotify(a) ==
  /\ pc[a] = "close_notify" /\ obj = "live"
  /\ Goto(a, "close_listener")
  /\ UNCHANGED <<server, loop, open, call, history>>

\* close_server, up to the join.
CloseNotify(a) ==
  /\ pc[a] = "close_notify" /\ obj = "live"
  /\ notify' = "null"
  /\ Goto(a, "close_listener")
  /\ UNCHANGED <<opt, obj, base, listener, thread, loop, open, call, history>>

\* Slip: the listener is forgotten.
KeepListener(a) ==
  /\ pc[a] = "close_listener" /\ obj = "live"
  /\ Goto(a, "join")
  /\ UNCHANGED <<server, loop, open, call, history>>

CloseListener(a) ==
  /\ pc[a] = "close_listener" /\ obj = "live"
  /\ listener' = FALSE
  /\ Goto(a, "join")
  /\ UNCHANGED <<opt, obj, base, notify, thread, loop, open, call, history>>

\* Slips: the thread is not waited for, or free_on_stop is not looked at.
JoinAtOnce(a) ==
  /\ pc[a] = "join" /\ obj = "live"
  /\ thread' = "null"
  /\ IF call[a] = "free" \/ opt.free_on_stop
       THEN Goto(a, "release") /\ UNCHANGED call
       ELSE Return(a)
  /\ UNCHANGED <<opt, obj, base, notify, listener, loop, open, history>>

JoinAndFree(a) ==
  /\ pc[a] = "join" /\ obj = "live"
  /\ thread = "made" => loop = "ended"
  /\ thread' = "null"
  /\ Goto(a, "release")
  /\ UNCHANGED <<opt, obj, base, notify, listener, loop, open, call, history>>

\* pthread_join, and what follows close_server.  Where there is no thread to
\* join this may return (an error) or not, see JoinsNobody.
Join(a) ==
  /\ pc[a] = "join" /\ obj = "live"
  /\ thread = "made" => loop = "ended"
  /\ thread' = "null"
  /\ IF call[a] = "free" \/ opt.free_on_stop
       THEN Goto(a, "release") /\ UNCHANGED call
       ELSE Return(a)
  /\ UNCHANGED <<opt, obj, base, notify, listener, loop, open, history>>

\* pthread_join of a pthread_t that pthread_create did not fill in.  This is
\* undefined: it may fail at once, never come back, or end the program, which
\* is the same here, because all that runs then is this call.
JoinsNobody(a) == pc[a] = "join" /\ thread = "bogus"

\* The rest of ad_server_free.
Release(a) ==
  /\ pc[a] = "release" /\ obj = "live"
  /\ obj' = "freed"
  /\ base' = IF base = "live" THEN "freed" ELSE base
  /\ Return(a)
  /\ UNCHANGED <<opt, notify, listener, thread, loop, open, history>>

Closes(a) ==
  \/ NotifyLoopexit(a) \/ SleepEnds(a) \/ TestOption(a)
  \/ CloseNotify(a) \/ CloseListener(a) \/ Join(a) \/ Release(a)

-----------------------------------------------------------------------------
(* server_loop.                                                            *)

HaveEvents == notify = "sent" \/ listener \/ open > 0

LoopChecks ==
  /\ loop = "check"
  /\ loop' = IF HaveEvents THEN "wait" ELSE "ended"
  /\ UNCHANGED <<server, open, threads, history>>

\* Slip: the loop takes the notification and goes on.
NotifyIgnored ==
  /\ loop = "wait" /\ notify = "sent"
  /\ notify' = "quiet" /\ loop' = "check"
  /\ UNCHANGED <<opt, obj, base, listener, thread, open, threads, history>>

\* The write callback of the channel, notify_cb; event_base_loopexit lets the iteration finish.
NotifyCb ==
  /\ loop = "wait" /\ notify = "sent"
  /\ notify' = "quiet" /\ loop' = "exit"
  /\ UNCHANGED <<opt, obj, base, listener, thread, open, threads, history>>

LoopExits ==
  /\ loop = "exit"
  /\ loop' = "ended"
  /\ UNCHANGED <<server, open, threads, history>>

\* A loop that is to exit runs the callbacks that are due already.
Dispatching == loop \in {"wait", "exit"}
Dispatch    == loop' = IF loop = "exit" THEN "exit" ELSE "busy"

\* A connection's callback: accepted, served or closed.
Accept ==
  /\ Dispatching /\ listener /\ open < MaxConns
  /\ open' = open + 1 /\ Dispatch
  /\ UNCHANGED <<server, threads, history>>

\* listener_cb without memory breaks the loop.
AcceptFails ==
  /\ Dispatching /\ listener /\ "accept" \in opt.trouble
  /\ loop' = "ended"
  /\ UNCHANGED <<server, open, threads, history>>

Serve ==
  /\ Dispatching /\ open > 0
  /\ Dispatch
  /\ UNCHANGED <<server, open, threads, history>>

\* Slip: a connection is freed twice.
ConnEndsTwice ==
  /\ Dispatching /\ open > 0
  /\ open' = open - 2 /\ Dispatch
  /\ UNCHANGED <<server, threads, history>>

ConnEnds ==
  /\ Dispatching /\ open > 0
  /\ open' = open - 1 /\ Dispatch
  /\ UNCHANGED <<server, threads, history>>

HookReturns ==
  /\ loop = "busy"
  /\ loop' = "check"
  /\ UNCHANGED <<server, open, threads, history>>

Loop ==
  \/ LoopChecks \/ NotifyCb \/ LoopExits
  \/ Accept \/ AcceptFails \/ Serve \/ ConnEnds \/ HookReturns

Start == BindFails \/ StartThread \/ ThreadFails \/ StartHere \/ LoopReturns

Next ==
  \/ Start
  \/ Free
  \/ \E a \in Actors : Stop(a) \/ Closes(a)
  \/ Loop

Spec == Init /\ [][Next]_vars

\* Threads run, hooks return, and the poll that finds the channel writable
\* reports it among whatever else is ready.  That a join without a thread
\* returns is not assumed.
FairSpec ==
  /\ Spec
  /\ \A a \in Actors : WF_vars(~JoinsNobody(a) /\ Closes(a))
  /\ WF_vars(LoopReturns)
  /\ WF_vars(LoopChecks) /\ WF_vars(LoopExits) /\ WF_vars(HookReturns)
  /\ SF_vars(NotifyCb)

-----------------------------------------------------------------------------
(* Properties.                                                             *)

\* No thread is about to dereference a server that another thread has freed:
\* stop reads the options again after its sleep.
NoUseAfterFree ==
  obj = "freed" =>
    \A a \in Actors : pc[a] \in {"idle", "inloop", "sleep"}

\* The event base and the server the callbacks work on outlive the loop,
\* whichever thread frees them and however long the last hook takes.
BaseOutlivesLoop == Running => obj = "live" /\ base = "live"

\* Whoever sends the notification finds a channel to write it to.
NotifyExists == \A a \in Actors : pc[a] = "notify" => notify # "null"

\* A server that is not running holds no port, so that it can be started
\* again, and no loop of an earlier start is still going on.
StoppedIsRestartable ==
  pc["app"] = "idle" /\ thread = "null" => ~listener /\ ~Running

\* Every notification channel is released with the server, or before, unless
\* a start failed at bind: such a start keeps its channel, and neither the
\* next start nor ad_server_free (thread == NULL) releases it.
ChannelReleased ==
  "bind" \notin opt.trouble => ~leaked /\ (obj = "freed" => notify = "null")

\* A hook is still running when the sleep of stop or free is over, and the
\* notification has not been taken: it is about to be freed with its channel.
HookOutlasts(a) ==
  pc[a] \in {"option", "close_notify"} /\ notify = "sent" /\ loop = "busy"

\* ad_server_stop and ad_server_free return, slow hooks or not: the loop takes
\* the notification and ends, and so does its thread.  Only a hook that is
\* running when the sleep is over may keep them.  Servers whose pthread_create
\* failed are not spoken of.
StopReturns ==
  \A a \in Actors :
    (pc[a] = "notify" /\ thread # "bogus") ~> (pc[a] = "idle" \/ HookOutlasts(a))

\* The start that is running the loop returns after a stop.
StartReturns ==
  (asked /\ pc["app"] = "inloop") ~> (pc["app"] = "idle")
=============================================================================
