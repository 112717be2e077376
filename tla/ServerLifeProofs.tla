-------------------------- MODULE ServerLifeProofs --------------------------
(***************************************************************************)
(* Proofs about ServerLife for any number of connections and starts, and   *)
(* any settings that Safe admits.                                          *)
(*                                                                         *)
(* Where the loop has a thread of its own (InThread), app alone works on   *)
(* the server, and the argument is the order of close_server: join first,  *)
(* free afterwards.  Where the loop runs in start (InStart), app and other *)
(* share the server, and the argument is that the loop cannot end before   *)
(* other has written to the channel.                                       *)
(***************************************************************************)
EXTENDS ServerLife, TLAPS

\* The settings of MCServerLife!SafeSettings.
Safe ==
  \A s \in Settings : s.threaded \/ (~s.free_on_stop /\ "accept" \notin s.trouble)

NoBindTrouble == "bind" \notin opt.trouble

\* The server in thread mode: nothing is running once the thread is joined.
InThread ==
  /\ pc["other"] = "idle"
  /\ pc["app"] # "inloop"
  /\ pc["app"] \in {"notify", "sleep", "option", "close_notify"} =>
       thread # "null" /\ notify # "null"
  /\ pc["app"] \in {"close_listener", "join"} => thread # "null" /\ notify = "null"
  /\ pc["app"] = "join" => ~listener
  /\ pc["app"] = "release" => thread = "null"
  /\ pc["app"] = "idle" /\ thread # "null" => notify # "null"
  /\ thread = "null" => ~listener /\ (NoBindTrouble => notify = "null")
  /\ thread # "made" => ~Running
  /\ thread # "null" => obj = "live" /\ base = "live"

\* The loop of a server that nobody has stopped yet, or whose stop has not
\* been written to the channel yet, goes on.
Unnoticed == notify = "quiet" /\ loop \in {"check", "wait", "busy"}

\* The server without a thread: app is in start, other in stop.
InStart ==
  /\ thread = "null" /\ ~opt.free_on_stop /\ "accept" \notin opt.trouble
  /\ pc["other"] \in {"idle", "notify", "sleep", "option"}
  /\ pc["other"] # "idle" => call["other"] = "stop"
  /\ pc["app"] \in {"idle", "inloop", "close_notify", "close_listener", "join", "release"}
  /\ pc["app"] \in {"inloop", "close_notify", "close_listener", "join"} =>
       call["app"] = "start"
  /\ pc["app"] = "inloop" => listener /\ obj = "live" /\ base = "live"
  /\ pc["app"] # "inloop" => ~Running
  /\ pc["app"] \in {"join", "release", "idle"} => ~listener
  /\ pc["app"] \in {"close_listener", "join"} => notify = "null"
  /\ pc["app"] \in {"idle", "release"} /\ NoBindTrouble => notify = "null"
  /\ pc["app"] = "release" => pc["other"] = "idle"
  /\ pc["other"] = "notify" => pc["app"] = "inloop" /\ asked
  /\ pc["app"] = "inloop" /\ (~asked \/ pc["other"] = "notify") => Unnoticed

Inv ==
  /\ TypeOK
  /\ NoBindTrouble => ~leaked
  /\ obj = "freed" => pc["app"] = "idle" /\ pc["other"] = "idle"
  /\ IF opt.threaded THEN InThread ELSE InStart

-----------------------------------------------------------------------------
(* Type correctness.                                                       *)

\* A server that has just been made has its fields in range.
LEMMA TypeInit ==
  ASSUME Init
  PROVE  TypeOK
<1>1. 0 \in 0..MaxConns /\ 0 \in 0..MaxStarts
  BY LifeAssumption
<1>2. /\ pc \in [Actors -> Labels]
      /\ call \in [Actors -> {"none", "start", "stop", "free"}]
  BY Zenon DEF Init, Labels
<1>3. QED
  BY <1>1, <1>2 DEF Init, TypeOK

\* Every step keeps the range of every variable, MaxConns and MaxStarts
\* included.
LEMMA TypeNext ==
  ASSUME TypeOK, [Next]_vars
  PROVE  TypeOK'
<1> USE DEF TypeOK
<1>1. CASE UNCHANGED vars
  BY <1>1 DEF vars
<1>2. CASE Start
  <2>1. ASSUME StartUp PROVE starts' \in 0..MaxStarts
    BY <2>1, LifeAssumption DEF StartUp
  <2> USE DEF StartUp, Enter, Goto, Actors, Labels
  <2>2. CASE BindFails
    BY <2>1, <2>2 DEF BindFails, threads
  <2>3. CASE StartThread
    BY <2>1, <2>3 DEF StartThread, threads
  <2>4. CASE ThreadFails
    BY <2>1, <2>4 DEF ThreadFails, threads
  <2>5. CASE StartHere
    BY <2>1, <2>5 DEF StartHere
  <2>6. CASE LoopReturns
    BY <2>6 DEF LoopReturns, server, history
  <2>7. QED
    BY <1>2, <2>2, <2>3, <2>4, <2>5, <2>6 DEF Start
<1>3. CASE Free
  BY <1>3 DEF Free, Enter, Goto, Actors, Labels, server, threads, history
<1>4. ASSUME NEW a \in Actors, Stop(a) PROVE TypeOK'
  BY <1>4 DEF Stop, Enter, Goto, Actors, Labels, server, threads, history
<1>5. ASSUME NEW a \in Actors, Closes(a) PROVE TypeOK'
  <2> USE DEF Return, Enter, Goto, Actors, Labels, server, history
  <2>1. CASE NotifyLoopexit(a) \/ SleepEnds(a) \/ TestOption(a)
    BY <2>1 DEF NotifyLoopexit, SleepEnds, TestOption
  <2>2. CASE CloseNotify(a) \/ CloseListener(a)
    BY <2>2 DEF CloseNotify, CloseListener
  <2>3. CASE Join(a) \/ Release(a)
    BY <2>3 DEF Join, Release
  <2>4. QED
    BY <1>5, <2>1, <2>2, <2>3 DEF Closes
<1>6. CASE Loop
  BY <1>6, LifeAssumption DEF Loop, LoopChecks, NotifyCb, LoopExits, Accept, AcceptFails,
     Serve, ConnEnds, HookReturns, Dispatching, Dispatch, server, threads, history
<1>7. QED
  BY <1>1, <1>2, <1>3, <1>4, <1>5, <1>6 DEF Next

-----------------------------------------------------------------------------
(* The two modes.                                                          *)

\* With a thread of its own, the loop is over before app has freed anything.
LEMMA ThreadNext ==
  ASSUME Inv, opt.threaded, Next, TypeOK'
  PROVE  Inv'
<1> USE DEF Inv, TypeOK, InThread, NoBindTrouble, Running, Enter, Goto, Actors, Labels
<1>1. CASE Start
  <2> USE DEF StartUp
  <2>1. CASE BindFails
    BY <2>1 DEF BindFails, threads
  <2>2. CASE StartThread
    BY <2>2 DEF StartThread, threads
  <2>3. CASE ThreadFails
    BY <2>3 DEF ThreadFails, threads
  <2>4. CASE StartHere
    BY <2>4 DEF StartHere
  <2>5. CASE LoopReturns
    BY <2>5 DEF LoopReturns, server, history
  <2>6. QED
    BY <1>1, <2>1, <2>2, <2>3, <2>4, <2>5 DEF Start
<1>3. CASE Free
  BY <1>3 DEF Free, server, history
<1>4. ASSUME NEW a \in Actors, Stop(a) PROVE Inv'
  BY <1>4 DEF Stop, server
<1>5. ASSUME NEW a \in Actors, Closes(a) PROVE Inv'
  <2> USE DEF Return, server, history
  <2>1. CASE NotifyLoopexit(a)
    BY <2>1 DEF NotifyLoopexit
  <2>2. CASE SleepEnds(a)
    BY <2>2 DEF SleepEnds
  <2>3. CASE TestOption(a)
    BY <2>3 DEF TestOption
  <2>4. CASE CloseNotify(a)
    BY <2>4 DEF CloseNotify
  <2>5. CASE CloseListener(a)
    BY <2>5 DEF CloseListener
  <2>6. CASE Join(a)
    BY <2>6 DEF Join
  <2>7. CASE Release(a)
    BY <2>7 DEF Release
  <2>8. QED
    BY <1>5, <2>1, <2>2, <2>3, <2>4, <2>5, <2>6, <2>7 DEF Closes
<1>6. CASE Loop
  <2> USE DEF server, threads, history
  <2>1. CASE LoopChecks \/ LoopExits \/ HookReturns
    BY <2>1 DEF LoopChecks, LoopExits, HookReturns, HaveEvents
  <2>2. CASE NotifyCb
    BY <2>2 DEF NotifyCb
  <2>3. CASE Accept \/ Serve \/ ConnEnds
    BY <2>3 DEF Accept, Serve, ConnEnds, Dispatching, Dispatch
  <2>4. CASE AcceptFails
    BY <2>4 DEF AcceptFails, Dispatching
  <2>5. QED
    BY <1>6, <2>1, <2>2, <2>3, <2>4 DEF Loop
<1>7. QED
  BY <1>1, <1>3, <1>4, <1>5, <1>6 DEF Next

\* Without one, the loop ends only after a stop has been written to the
\* channel, and start closes the server before anybody frees it.
LEMMA StartNext ==
  ASSUME Inv, ~opt.threaded, Next, TypeOK'
  PROVE  Inv'
<1> USE DEF Inv, TypeOK, InStart, NoBindTrouble, Running, Unnoticed, Enter, Goto, Actors, Labels
<1>1. CASE Start
  <2> USE DEF StartUp
  <2>1. CASE BindFails
    BY <2>1 DEF BindFails, threads
  <2>2. CASE StartThread
    BY <2>2 DEF StartThread, threads
  <2>3. CASE ThreadFails
    BY <2>3 DEF ThreadFails, threads
  <2>4. CASE StartHere
    BY <2>4 DEF StartHere
  <2>5. CASE LoopReturns
    BY <2>5 DEF LoopReturns, server, history
  <2>6. QED
    BY <1>1, <2>1, <2>2, <2>3, <2>4, <2>5 DEF Start
<1>3. CASE Free
  BY <1>3 DEF Free, server, history
<1>4. ASSUME NEW a \in Actors, Stop(a) PROVE Inv'
  BY <1>4 DEF Stop, server
<1>5. ASSUME NEW a \in Actors, Closes(a) PROVE Inv'
  <2> USE DEF Return, server, history
  <2>1. CASE NotifyLoopexit(a)
    BY <2>1 DEF NotifyLoopexit
  <2>2. CASE SleepEnds(a)
    BY <2>2 DEF SleepEnds
  <2>3. CASE TestOption(a)
    BY <2>3 DEF TestOption
  <2>4. CASE CloseNotify(a)
    BY <2>4 DEF CloseNotify
  <2>5. CASE CloseListener(a)
    BY <2>5 DEF CloseListener
  <2>6. CASE Join(a)
    BY <2>6 DEF Join
  <2>7. CASE Release(a)
    BY <2>7 DEF Release
  <2>8. QED
    BY <1>5, <2>1, <2>2, <2>3, <2>4, <2>5, <2>6, <2>7 DEF Closes
<1>6. CASE Loop
  <2> USE DEF server, threads, history
  <2>1. CASE LoopChecks \/ LoopExits \/ HookReturns
    BY <2>1 DEF LoopChecks, LoopExits, HookReturns, HaveEvents
  <2>2. CASE NotifyCb
    BY <2>2 DEF NotifyCb
  <2>3. CASE Accept \/ Serve \/ ConnEnds
    BY <2>3 DEF Accept, Serve, ConnEnds, Dispatching, Dispatch
  <2>4. CASE AcceptFails
    BY <2>4 DEF AcceptFails, Dispatching
  <2>5. QED
    BY <1>6, <2>1, <2>2, <2>3, <2>4 DEF Loop
<1>7. QED
  BY <1>1, <1>3, <1>4, <1>5, <1>6 DEF Next

\* A server that has just been made.
LEMMA InvInit ==
  ASSUME Safe, Init
  PROVE  Inv
<1>1. TypeOK
  BY TypeInit
<1>2. opt.threaded => InThread
  BY DEF Init, InThread, Actors, Running
<1>3. ~opt.threaded => InStart
  BY DEF Safe, Init, InStart, Actors, Running
<1>4. QED
  BY <1>1, <1>2, <1>3 DEF Init, Inv

\* Every step of every thread keeps the invariant.
LEMMA InvNext ==
  ASSUME Inv, [Next]_vars
  PROVE  Inv'
<1>1. TypeOK'
  BY TypeNext DEF Inv
<1>2. CASE UNCHANGED vars
  BY <1>1, <1>2 DEF Inv, InThread, InStart, NoBindTrouble, Unnoticed, Running, vars
<1>3. CASE Next
  BY <1>1, <1>3, ThreadNext, StartNext
<1>4. QED
  BY <1>2, <1>3

\* The invariant of the threads that share a server: which of them may still
\* use it, and what is left of it at each label.
THEOREM LifeInvariant ==
  ASSUME Safe
  PROVE  Spec => []Inv
<1>1. Init => Inv
  BY InvInit
<1>2. Inv /\ [Next]_vars => Inv'
  BY InvNext
<1>3. QED
  BY <1>1, <1>2, PTL DEF Spec

-----------------------------------------------------------------------------
(* What follows from it.                                                   *)

\* The fields of the server, the program counters and the counters keep their
\* ranges, whatever the settings.
THEOREM LifeTypeCorrect == Spec => []TypeOK
<1>1. Init => TypeOK
  BY TypeInit
<1>2. TypeOK /\ [Next]_vars => TypeOK'
  BY TypeNext
<1>3. QED
  BY <1>1, <1>2, PTL DEF Spec

\* ad_server_stop and close_server never touch a server that another thread
\* has freed: start frees it only if free_on_stop says so, which Safe excludes
\* without a thread, and app frees it only when stop has returned.
THEOREM NobodyUsesFreedServer ==
  ASSUME Safe
  PROVE  Spec => []NoUseAfterFree
<1>1. Inv => NoUseAfterFree
  BY DEF Inv, NoUseAfterFree, Actors
<1>2. QED
  BY <1>1, LifeInvariant, PTL

\* The event base outlives the loop that runs on it, because pthread_join
\* comes before event_base_free in close_server and ad_server_free.
THEOREM BaseAlwaysOutlivesLoop ==
  ASSUME Safe
  PROVE  Spec => []BaseOutlivesLoop
<1>1. Inv => BaseOutlivesLoop
  BY DEF Inv, InThread, InStart, TypeOK, BaseOutlivesLoop, Running
<1>2. QED
  BY <1>1, LifeInvariant, PTL

\* notify_loopexit finds the channel that start made, however often the
\* server is stopped and started again.
THEOREM NotifyAlwaysExists ==
  ASSUME Safe
  PROVE  Spec => []NotifyExists
<1>1. Inv => NotifyExists
  BY DEF Inv, InThread, InStart, Unnoticed, NotifyExists, Actors
<1>2. QED
  BY <1>1, LifeInvariant, PTL

\* After a stop neither the port nor a loop of the last start is left.
THEOREM StoppedAlwaysRestartable ==
  ASSUME Safe
  PROVE  Spec => []StoppedIsRestartable
<1>1. Inv => StoppedIsRestartable
  BY DEF Inv, InThread, InStart, StoppedIsRestartable
<1>2. QED
  BY <1>1, LifeInvariant, PTL

\* If bind never fails, no notification channel is lost.
THEOREM ChannelAlwaysReleased ==
  ASSUME Safe
  PROVE  Spec => []ChannelReleased
<1>1. Inv => ChannelReleased
  <2>1. ASSUME Inv, obj = "freed", NoBindTrouble PROVE notify = "null"
    BY <2>1 DEF Inv, InThread, InStart, TypeOK
  <2>2. QED
    BY <2>1 DEF Inv, ChannelReleased, NoBindTrouble
<1>2. QED
  BY <1>1, LifeInvariant, PTL
=============================================================================
