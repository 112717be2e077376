# TLA+ models of libasyncd

libasyncd is an event-driven TCP/HTTP server library in C on top of libevent.
A program creates a server, registers a chain of *hooks* (user callbacks) and
starts an event loop; every connection's events are offered to the hooks in
order, and what they answer decides what happens to the connection.  The core
is two files, `src/ad_server.c` (server and connections) and
`src/ad_http_handler.c` (an HTTP protocol handler that is itself a hook).  The
repository also ships its reference manual, whose pages run a program of their
own: the navigation panel of `doc/html/navtree.js`.
Paths below are relative to the repository's root, line numbers are of the
commit the models were written from.

## 1. Inventory

### Components, their state and operations

| component | code | state | operations |
|---|---|---|---|
| connection and hook dispatch | `ad_server.c` 648-843 | per connection: status, method, two userdata slots, in- and out-buffer, which events of its bufferevent are enabled | `listener_cb`, `conn_new`, `conn_read_cb`, `conn_write_cb`, `conn_event_cb`, `conn_cb`, `call_hooks`, `conn_reset`, `conn_free`, `set_userdata`, `ad_conn_set_method` |
| server life | `ad_server.c` 164-340, 557-602 | event base, notification channel, listener, thread, the server object itself | `ad_server_start`, `_stop`, `_free`, `close_server`, `server_loop`, `notify_loopexit`, `notify_cb` |
| HTTP request parser | `ad_http_handler.c` 84-111, 481-857 | request status, header table, content length, bytes taken | `ad_http_handler`, `http_new`, `http_free`, `http_parser`, `parse_requestline`, `parse_headers`, `parse_body`, `parse_chunked_body` |
| HTTP response writer | `ad_http_handler.c` 231-426 | frozen header, header table, content length, bytes sent | `ad_http_set_response_content`, `ad_http_response`, `ad_http_send_header`, `_send_data`, `_send_chunk` |
| HTTP server of the examples | `examples/helloworld_http_server.c` with `ad_http_handler.c` 84-112 and `ad_server.c` 757-833 | the connection's request, the answers in its out-buffer | the hooks, composed with the parser and `conn_cb` |
| navigation panel of the manual | `doc/html/navtree.js` | the tree and its DOM elements, scripts and animations under way, the link in the local storage | `initNavTree` and its handlers for load and hashchange, `navTo`, `gotoNode`, `showNode`, `expandNode`, `showRoot`, `selectAndHighlight`, `getScript`, `gotoAnchor`, clicks on arrows, items and the sync button |
| path normalisation | `ad_http_handler.c` 773-823 | none | `isValidPathname`, `correctPathname` |
| options, statistics, hook registration | `ad_server.c` 370-387, 461-538, 626-637 | hash tables, hook list | getters and setters |
| TLS | `ad_server.c` 404-456, 639-646 | an OpenSSL context | set-up only |
| logging, reason table, macros, global clean-up | `ad_server.c` 126-130, 352-363, `macro.h`, `ad_http_handler.c` 428-474 | log level | formatting |

### How they interact

* libevent calls the three bufferevent callbacks; all of them end in
  `conn_cb`, which calls the hooks, which call back into the API (userdata,
  method, output).  Everything about connections runs in the loop's thread.
* `ad_http_handler` is the first hook.  It creates its parser state on INIT
  (userdata slot 1), parses on READ, and is released by `conn_reset`.  Hooks
  behind it are asked when it answers `AD_OK`, filtered by method.
* On `AD_DONE` with `server.request_pipelining` (the default), `conn_cb` tells
  the hooks CLOSE, resets the connection and tells them INIT: the next request
  is a new session on the same connection.
* `ad_server_stop` runs in another thread than the loop.  It writes to the
  notification channel, sleeps a second, and depending on the options closes
  and frees the server; without `server.thread` the loop's own thread does.
* The manual's panel is apart from all this.  Its handlers share the tree:
  every one of them may request a branch's script and go on when it arrives,
  after other handlers have run.

### What is hard

Reentrant sessions (INIT and CLOSE raised inside another event), closing that
waits for output, events that come while it waits, method filtering that
changes between two events of a session; two threads that close and free the
server; a byte stream that is cut anywhere, with the next request's bytes
behind the last one's; a response header that any of five calls may send;
continuations in the panel that find it as later handlers have left it.
`PROJECT.json` lists the hazards one by one, each at its line, with the
properties that would catch it.  Some have none: in most of these the code does
go wrong, and section 5 says where the properties stop short of them.

## 2. Modules

| module | models | instantiated by |
|---|---|---|
| `AdConn` | connections of one server, one action per callback | `MCAdConn` |
| `HookProtocol` | the promise to the top hook: the event sequences it can hear | refined by `AdConn` (`ImplementsProtocol`) |
| `AdConnProofs` | the invariant of `AdConn`, its steps, and its refinement of `HookProtocol` | - |
| `ServerLife` | start, stop and free with their threads | `MCServerLife` |
| `ServerLifeProofs` | the invariant of `ServerLife` and what follows from it | - |
| `PathName` | the path of a request: what is refused, and its one form | `HttpRequest` |
| `HttpRequest` | the parser as a function of request and in-buffer | `HttpStream`, `HttpConn` |
| `HttpFormat` | what clients send: requests and the bytes HTTP writes them with, apart from the parser | `HttpStream`, `HttpConn` |
| `HttpRequestProofs` | what the recursive functions of `PathName`, `HttpRequest` and `HttpFormat` compute | - |
| `HttpStream` | a client, TCP, the parser and the session renewal | `MCHttpStream` |
| `HttpStreamProofs` | the invariant of `HttpStream` and what follows from it | - |
| `HttpConn` | the HTTP example on one connection: client, TCP, parser, hooks and `conn_cb`; refines `AdConn` (`ImplementsConn`) | `MCHttpConn` |
| `HttpConnProofs` | the invariant of `HttpConn`, and its refinement of `AdConn` | - |
| `HttpResponse` | the response functions | directly |
| `HttpResponseProofs` | the invariant of `HttpResponse` and what follows from it | - |
| `NavTree` | the navigation panel of the manual | `MCNavTree` |
| `NavTreeProofs` | the invariant of `NavTree` and what follows from it | - |
| `Recursion` | lemmas: induction over the naturals, functions defined by recursion, sums | the proofs |

Definitions whose comment begins with *Slip* are no part of a model: each is a
variant of the definition below or above it, as a plausible mistake in the
code would have it, against which the properties are tested.

### AdConn

`conn[c]` is an `ad_conn_t` with its bufferevent: `status`, `method`, `slot`
(userdata slots in use) as in the code; `in` and `out` say whether the buffers
hold something, `rd` whether EV_READ is enabled, `wr` whether a write event is
pending (`armed`) or writing has failed.  `lost`, `expired` and `told` are
history.  `calls` holds the dispatches of the last callback, in order, with
the hooks each one reached.  A callback is one action (the loop is single
threaded), and the action is the whole of it: `ConnCb` asks the hooks if the
status allows it, combines the answer (`Raised`), and ends in one of the four
branches `Renew`, `Park`, `Release`, `Keep`.

Hooks are the user's.  A walk of the chain (`Walks`) is any answer out of
`Replies`, given by any hook that the method filter lets through; the hooks
that ran may write, take input or attach userdata (`Deeds`).  libevent is
modelled as far as the code depends on it: an EOF, an error or a read timeout
disables reading; the write callback comes when the out-buffer has drained and
once after EV_WRITE was enabled; a failed write disables writing.  A loop that
was asked to exit still runs the callbacks of its last iteration (`Running`).

### ServerLife

A server has a `Setting`: options `server.thread` and `server.free_on_stop`,
whether a hook may outlast the second that stop sleeps, and which of bind,
`pthread_create` and accept may fail.  One run takes all settings for which
the threads are safe.  The two threads `app` and `other` have program counters; a label stands for
the thread's next access to the server object, so that
`NoUseAfterFree` can speak of a thread that is about to dereference a server
another one has freed.  The loop's own state says whether it is about to
check for events, polling, in a callback, or leaving.  Two conventions of the
callers are guards: `ad_server_stop` is called once per start of a server that
was started (a second call after the loop has ended dereferences a NULL
channel), and the owner does not free a server while it calls stop on it.
If `pthread_create` has failed, close_server joins a `pthread_t` that nobody
filled in (`JoinsNobody`).  This is undefined: `Join` may take place, with
nothing to wait for, or never.
libevent's own data is not locked, because `evthread_use_pthreads` is never
called (the flag at `ad_server.c:136` stays false); a race inside libevent is
undefined and not modelled.

### HttpRequest and HttpStream

A request line, a header and a chunk size are one symbol each, because the
parser looks at whole lines only; CR and LF are symbols of their own, because
TCP may separate them.  The parser is `HttpParser`, a function of the request
and `conn->in`, built from one operator per function of the code; loops are
recursive functions.  A request line stands for a method and the path of its
URI; `PathName` has `isValidPathname` and `correctPathname`, character by
character, and `LineStatus` and `LinePath` say what `parse_requestline` makes
of each line.  `HttpStream` delivers the wire's bytes in pieces of any
length; after a finished request a hook takes the content and answers
`AD_DONE`, upon which the session is renewed, as `conn_cb` does, with the rest
of `conn->in` left alone.  `HttpFormat` writes requests from HTTP's message
format (`Wire`), independently of the parser, and says which are `Sound`.  It
gives each path its one form (`OneForm`) in one step, where the code rewrites
it until nothing changes.  `MCHttpStream` chooses the requests of the run.

### HttpConn

`HttpConn` puts `ad_http_handler` and the hooks of
`helloworld_http_server.c` in the place that `AdConn` leaves to arbitrary
hooks.  `conn.req` is the `ad_http_t` in userdata slot 1, `conn.in` the bytes
of the in-buffer, `conn.out` the number of answers in the out-buffer; `Walks`
is the chain of the three hooks as `call_hooks` goes through it, `Settled` the
end of `conn_cb`.  The client either waits for each answer or pipelines, TCP
delivers pieces of any size, and an EOF, a read timeout or a write error may
come at any time.  What a response is made of is left to `HttpResponse`.  The
refinement mapping forgets the contents: a buffer is empty or not, a slot is
taken or not.

### HttpResponse

The out-buffer is the sequence of what was put in it: a header block with the
framing headers in it, data, chunks, the last chunk.  Each call of the API is
one action, at any time.  `ContentFirst` restricts hooks to setting the
content before they send a header or a chunk.

### NavTree

`nav` is `o` of `navtree.js`, with the DOM elements of its nodes.  A handler is
one action.  What waits is data: `requests` is the bag of scripts under way,
each with what its onload function has captured (`expandNode`, `showNode`, or
`gotoNode` for an index script), `slides` and `scrolls` are the queues of
animations, `polling` the timer of `showRoot`.  Scripts arrive in any order or
never.  A reader is `hasty` (acts at any time), `patient` (waits for scripts
and animations) or `steady` (patient, and leaves the sync button alone).
Places of the manual are a page and a hash.  Left out: layout, the glow of a
highlighted anchor, the branches for old browsers, `gotoNode`'s fallback for a
link that no index lists (`$.extend` never returns null, so it cannot be
reached, and the index page's item is shown).  One tab is modelled, and every
anchor is taken to exist at a position other than 0.

What is assumed of the manual is what its data say (`NAVTREE`, the scripts of
the branches, `navtreeindex0.js`).  Every link of the tree is in the index, and
many of them are at two nodes: a structure and its members are listed under
their header and under the data structures.  The index shows the listing of a
source file, which is not in the tree, at the item of the documented file, and
`pages.html` at the root.  The same anchor may be in two pages, since a function
is documented with its header and with its source.  `IndexAssumption` says the
first three things and leaves the last one open.

## 3. Runs

| run | shows |
|---|---|
| `conn_pipelined` | type invariant; `TopHookPaired`, `NeverStranded`, `NothingLost`; `ClosingIsFinal`, `SessionStartsClean`; refinement of `HookProtocol`; `ClosingEnds` |
| `conn_parked` | `ParkedIsSilent` without pipelining, two connections, write errors included |
| `http_conn` | `EveryHookPaired`, `AnswersInOrder` (each request answered once, in order, with its own method and content, and none that is malformed), `AnswersArrive`, and that the connection implements `AdConn` |
| `life` | all safe settings: `BaseOutlivesLoop`, `NotifyExists`, `StoppedIsRestartable`, `ChannelReleased`, `NoUseAfterFree`, `StartReturns`, `StopReturns` |
| `http_stream` | `SplitInsensitive`, `TakesWhatWasSent`, `RefusesOnlyBad`, `NothingSwallowed`, `AllTaken` |
| `resp_writer` | `OneHeaderEach`, `WithinLength`, `FramedAsAnnounced`, `HeaderBinds` |
| `nav_tree` | `BuiltOnce`, `SyncIsStored`, `FollowsTarget`, `IconTells`, `PollsWithReason`, `OneSelected` |
| `bad_*` | five disagreements between code and documentation, section 5 |

### Bounds

* `AdConn`: connections do not share state but the loop, so one connection
  shows all behaviours of a connection and two show that callbacks of one
  leave the other alone.  Two hooks are the top hook and one that is filtered;
  two methods are one that matches and one that does not.  `conn_event_cb`
  treats an error while reading as it treats an EOF, so that EOF stands for
  both.  The number of requests per connection is not bounded, the state space
  is finite.
* `life`: `MaxConns` 2 (a loop with and without connections, and a change that
  does not empty it), `MaxStarts` 2 (a restart after a stop or after a failed
  start).  `SafeSettings` leaves out the loop in the thread of start with
  `free_on_stop` (`bad_stop_frees`) or with a failing accept (section 5).
* `http_stream`: every kind of request before and after one with content, and
  three requests in a row, with contents of up to three bytes that contain CR,
  LF and a method name; every cut of the stream.  Three slashes in a row take
  two rounds of the loop of `correctPathname`; a name and a path are too long
  by one character; and the assumption `SmallPathsHaveOneForm` compares
  `correctPathname` with `OneForm` on every path of up to six slashes, blanks
  and letters.  Two chunks and the last one
  exercise the loop of `parse_body`.
* `http_conn`: five dialogues of at most three requests, among them one with a
  length, one in chunks, one for the hook that refuses and one that the parser
  refuses; every cut of the stream, so that every read ends in every state of
  the parser, with and without the next request behind it.
* `resp_writer`: five calls, enough for two responses of which one is sent in
  pieces, lengths around the sum of two pieces.
* `nav_tree`: a manual of four pages, with what the real one has: a header
  whose branch is in a script and holds a structure whose members are in a
  second script, a member that a second item leads to, an anchor that is in two
  pages, a listing that is shown at its header's item, a line of that listing,
  and two index scripts.  A hasty reader acts while at most two scripts are
  under way and one animation is queued per element: enough for two handlers to
  wait for the same script and for two different ones.

### Fairness

* `AdConn!FairSpec`: `WriteCb` is weakly fair. The loop dispatches a pending
  write event, and the peer reads; nothing in the code ends a connection whose
  peer does not (only a read timeout is set, `ad_server.c:671`).
* `ServerLife!FairSpec`: threads run and hooks return (weak fairness);
  `NotifyCb` is strongly fair, because the loop may be busy with other events
  between two polls, and a poll reports all events that are ready.  Nothing is
  assumed of the join of a thread that was never made, so that `StopReturns`
  leaves such a server out; it holds of all others, and names the one thing
  that may keep stop and free from returning (`HookOutlasts`, section 5).
* `HttpStream!FairSpec`, `HttpConn!FairSpec`: bytes on the wire arrive, and the
  client goes on; in `HttpConn` the write callback is weakly fair as in
  `AdConn`.  Nothing is assumed of EOF, timeouts and errors.
* `NavTree` has no fairness: scripts may never arrive.  That the panel comes to
  rest is stated as safety, `PollsWithReason`: a timer that polls for a
  selection has a script under way that will bring one.

## 4. Proofs

`AdConnProofs` proves, for every set of connections, hooks and methods and
every choice of the options, replies and hook behaviour:

| theorem | statement |
|---|---|
| `InvAlways` | `Spec => []Inv` |
| `TypeCorrect` | `Spec => []TypeOK` |
| `TopHookAlwaysPaired` | `Spec => []TopHookPaired` |
| `EveryHookAlwaysPaired` | if hooks answer `AD_OK` to INIT and CLOSE, `Spec => []EveryHookPaired` |
| `NeverStrandedWithoutWriteErrors` | if writing never fails, `Spec => []NeverStranded` |
| `NothingUnsentBySilentHooks` | if no hook writes on CLOSE, `Spec => []NothingUnsent` |
| `NothingLostWhenAttachedOnce` | if hooks attach on INIT only, `Spec => []NothingLost` |
| `ClosingAlwaysFinal` | `Spec => ClosingIsFinal` |
| `ParkedAlwaysSilent` | `Spec => ParkedIsSilent` |
| `SessionAlwaysStartsClean` | `Spec => SessionStartsClean` |
| `ConnectionsImplementProtocol` | `Spec => ImplementsProtocol` |

They rest on the assumptions of `AdConn` (`HookAssumption`: there is a top
hook and it is registered without a method; `OptionAssumption`: the types of
the other constants).

None of the properties is inductive: that a closing connection has a write
event pending depends on output never being present without one, and that a
CLOSE reaches a hook depends on what the walk of the chain reached before.
`Sound(k)` is what every callback has established when it enters `conn_cb`
with the connection as `k`: it is open, its output has a write event behind
it (unless writing has failed), it is read unless its status is `AD_CLOSE`,
and the attentive hooks are inside a session.  `Attentive` are the hooks that
hear every INIT and every CLOSE: the top hook in any case, and under `Polite`
(hooks let these events pass) all that are registered without a method.  `ConnInv(k)` is what holds between
callbacks: an open connection is sound, and a closing one has its write event
pending if writing does not fail; one that does not exist or is freed has
nothing attached; the attentive hooks of a freed one were told CLOSE last.

There is one lemma per branch of `conn_cb` (`RenewLemma`, `ParkLemma`,
`ReleaseLemma`, `KeepLemma`), which `SettleLemma` and `ConnCbLemma` join;
`EntryLemma` says that all three callbacks enter `conn_cb` with a sound
connection (`Entered`).  Lemmas about `Walks`, `Heard`, `Reset` and `Free` say
what the operators preserve.

Its second part looks at steps instead of states.  `Outcome` is all that a
callback can do to its connection as the hooks see it: after one dispatch of
its event or none, the session is renewed, the connection is released, or it
is kept.  `OutcomeLemma` reads that off `conn_cb`, `StepLemma` says that every
step leaves all connections alone, opens one, or has an outcome for one.  The
three action properties are read off the outcomes.  For the refinement,
`Hears` is what the top hook hears of a sequence of dispatches; `TrafficHeard`,
`OneMoreHeard` and `TwoMoreHeard` compute it for the sequences that occur, and
`ServedIsProtocol` matches the three outcomes with `Renew`, `End` and `Serve` of
`HookProtocol`.

`ServerLifeProofs` proves, for any number of connections and starts and every
set of settings:

| theorem | statement |
|---|---|
| `LifeTypeCorrect` | `Spec => []TypeOK` |
| `LifeInvariant` | if the settings are safe, `Spec => []Inv` |
| `NobodyUsesFreedServer` | if safe, `Spec => []NoUseAfterFree` |
| `BaseAlwaysOutlivesLoop` | if safe, `Spec => []BaseOutlivesLoop` |
| `NotifyAlwaysExists` | if safe, `Spec => []NotifyExists` |
| `StoppedAlwaysRestartable` | if safe, `Spec => []StoppedIsRestartable` |
| `ChannelAlwaysReleased` | if safe, `Spec => []ChannelReleased` |

`Safe` says of every setting what `MCServerLife!SafeSettings` selects: the loop
has a thread of its own, or it runs in the thread of start without
`free_on_stop` and without a failing accept.  Slow hooks, a failing bind and a
failing `pthread_create` are not excluded.

The invariant says at each program counter what is left of the server.  With
the loop in a thread (`InThread`) only `app` works on the server, and the order
of `close_server` decides: channel, listener, join, and nothing is freed before
the join has seen the loop's end.  With the loop in start (`InStart`) `app` and
`other` share the server, and what protects the channel that `other` is about
to write to is that the loop cannot have ended yet: it has its listener and has
not been notified (`Unnoticed`).  A failing accept breaks exactly that.

`HttpResponseProofs` proves, for all lengths, sizes and numbers of calls:

| theorem | statement |
|---|---|
| `ResponseInvariant` | `Spec => []Inv` |
| `ResponseTypeCorrect` | `Spec => []TypeOK` |
| `AlwaysOneHeaderEach` | `Spec => []OneHeaderEach` |
| `AlwaysFramedAsAnnounced` | if hooks say first what the content is, `Spec => []FramedAsAnnounced` |
| `HeaderAlwaysBinds` | `Spec => []HeaderBinds` |
| `AlwaysWithinLength` | `Spec => []WithinLength` |

The properties speak of the out-buffer alone, and a call decides by the
response alone; `Fits` ties the two together.  The last header block on the
wire is what the response would write now (`frozen`); a response with a length
has a `Content-Length`, one with a content and no length a
`Transfer-Encoding`; and the header blocks are as many as the responses that
were begun.  `HeaderLemma`, `ItemLemma` and `ContentLemma` say what a header
block, an item behind it and a new content do to `Fits`; every call is a
sequence of these.  `ad_http_set_response_content` may change the content
until the header is sent and not after it, which is why `frozen` has to be
part of the invariant.

`WithinLength` compares what the code counts, `bodyout`, with a sum over the
out-buffer.  `Counted` ties them together: what is behind the last header block
adds up to `bodyout` (`SumUnique` and its neighbours in `Recursion` say what
one more item adds), and what is behind an earlier one does not grow any more.

`HttpRequestProofs` proves, for every alphabet, every limit and requests with
any number of headers and chunks:

| theorem | statement |
|---|---|
| `ValidPathname` | `isValidPathname` lets exactly the paths through that keep the limits on names, length and characters |
| `CorrectPathnameForm` | `correctPathname` brings every path that is let through to its one form |
| `ParserInPieces` | reading a part and then the rest is reading all at once; a request that is done or refused is not touched again |
| `RequestSent` | a sound request is read to its last byte and no further, with its path and content; any other one is refused |
| `RequestArrives` | what the parser can have made of any part of what a client sends |

The parser and the path functions are recursive functions, and the library's
induction theorems cannot be used (they take a predicate as a parameter).  In
their place `Recursion` proves induction about *sets*: a set of naturals with 0
and with the successors of its members holds every natural (`Induction`).  It
rests on `LeastNatural`, which in turn follows from the library's theorem that
strict inclusion of finite sets is well-founded.  A claim is then the set of
the lengths for which it holds.  That a function defined by
`f[x \in S] == ... f[...] ...` exists at all is `LinearRecursion`, for
recursion on one smaller argument.  `FlattenSeq`, a fold, is unfolded in the
same way (`FlattenUnfolds`).

The parser has a stage per function of the code, and each stage has a lemma
that it may be fed in pieces (`RequestLineInPieces`, `HeadersInPieces`,
`StaticInPieces`, `ChunksInPieces`).  The chunks need a hypothesis,
`ChunksOK`: the line end behind a chunk's data is in the bytes that are
counted for the chunk (it is no longer than the one behind its size), as it is
whenever a client uses one line end throughout (section 5 has what happens
otherwise).  `RequestSent` shows that clients do.

`HttpStreamProofs` proves, for dialogues of any length, lockstep or pipelined:

| theorem | statement |
|---|---|
| `StreamInvariant` | `Spec => []Inv` |
| `StreamTypeCorrect` | `Spec => []TypeOK` |
| `AlwaysSplitInsensitive` | `Spec => []SplitInsensitive` |
| `AlwaysTakesWhatWasSent` | `Spec => []TakesWhatWasSent` |
| `AlwaysRefusesOnlyBad` | `Spec => []RefusesOnlyBad` |
| `AlwaysNothingSwallowed` | `Spec => []NothingSwallowed` |

The properties say what has been taken and not what is on its way, so that the
invariant adds `Pending`: the bytes of this session and those on the wire are,
one after the other, the requests that are sent and not taken.  With it, and
because the parser is where the session's bytes lead it in one go
(`SplitInsensitive`), a step of the parser is an instance of `RequestArrives`.

`HttpConnProofs` proves, for every dialogue, every client and every way for
the connection to end:

| theorem | statement |
|---|---|
| `ConnInvariant` | `Spec => []Inv` |
| `ConnTypeCorrect` | `Spec => []TypeOK` |
| `SessionsPaired` | `Spec => []EveryHookPaired` |
| `AlwaysAnswersInOrder` | `Spec => []AnswersInOrder` |
| `ImplementsAdConn` | `Spec => ImplementsConn` |

The invariant is that of the stream while the server may still answer
(`Pending`, `Reads`), and that an open connection has its request and its
hooks inside a session (`Serves`).  A request that is done is answered in the
same callback, so that `AD_DONE` never survives one.  For the refinement,
`View` is the mapping as a function of the connection.  `ChainLemma` and
`WalksOfConn` say that the walks of the example's three hooks are walks of
`AdConn`, `DeedLemma` that what they do is among its deeds; `DroppedView`,
`ResetView`, `SettledView` and `AskedView` carry `View` through the calls of
`conn_cb`, and `WriteView`, `ReadView`, `EventView`, `OpeningView` through the
callbacks.  A step of the client is a stuttering step.

`NavTreeProofs` proves, for every manual and every reader:

| theorem | statement |
|---|---|
| `PanelInvariant` | `Spec => []Inv` |
| `PanelTypeCorrect` | `Spec => []TypeOK` |
| `BranchesAlwaysBuiltOnce` | `Spec => []BuiltOnce` |
| `SyncAlwaysStored` | `Spec => []SyncIsStored` |
| `AlwaysPollsWithReason` | `Spec => []PollsWithReason` |
| `ArrowsAlwaysTell` | `Spec => []IconTells` |
| `AlwaysFollowsTarget` | `Spec => []FollowsTarget` |
| `OneLinkSelected` | `Spec => []OneSelected` |

They assume of the manual what `TreeAssumption` and `LinkAssumption` say: the
nodes are paths closed under parents, links and index entries lead to places
of the manual; the last two use `IndexAssumption` as well.  `Panel(t)` is kept by each function that changes the panel,
wherever it stops; besides types it says that an expanded node is built, and
that animations scroll to places of the page they run on, without which a
hash set by an animation could lead outside the manual and the button could
store a link that is none.  The lemmas follow the calls upwards: assignments,
`GetScript`, `Open`, `ExpandNode`, `ShowNode`, `GotoNode`, `NavTo`, `OnLoad`,
the handlers.

`PollsWithReason` takes more than that some script is under way: a script for
another link's branch may arrive and end without a selection, because
`showNode` follows `o.breadcrumbs` as they are *then*.  `Rests` is the
invariant.  Either nothing has been navigated to in this page (`Untouched`), or
the breadcrumbs lead to a node of the tree and there is a selection or a script
that `LeadsOn`: an index script, or that of a node *on the way* of the
breadcrumbs.  `ShowNodeLeads` is its heart: from a node on the way `showNode`
either selects the item at its end or requests another script on the way, and
never ends up lost; from any other node it takes nothing away.  A script that
does not lead on is never the reason, so it may arrive first
(`OnLoadRests`).

`IconTells` speaks of the moments in which nothing is under way; `Orderly` says
what is when something is.  For a reader who waits the panel is `Calm`,
`Turning` or `Scrolling`, and idle until the load event.  `Calm`: no list
slides, every arrow agrees with its list, at most one script is under way and
no animation will set the location.  `Turning`: the list of one node slides to
where its arrow says.  `Scrolling`: the page scrolls to the link that was
clicked on, and nothing else is under way, so that the hashchange at the end of
the animation meets a still panel.  One step takes an arrow back without hiding
the list: the retry of `showNode` when the script of its last node arrives.
`Retries` is what makes it harmless, the parent whose arrow is taken back is
not waiting for a script of its own; `ShowNodeCalm` uses it for the node
`showNode` starts at, which is then the first that it opens again.  `TrailLemma`
gives the other half, that the parent of the node a retry waits for is the one
before it on the way, which has just been opened.

`FollowsTarget` and `OneSelected` say where the selection ends up; `Following`
is their invariant, on top of `Orderly`.  `Heads` is the first half: either an
item of the last link is selected and what is under way only opens a branch
(`Shows`, `Quiet`), or the one script under way `Follows` that link: the index
script for it, or that of a node on the way of breadcrumbs that are its path,
with its hash.  `OnWayLemma` carries it through `showNode`, which stops where
the next such script has to arrive or has opened all the nodes above the item,
so that the item is there to be selected.

The second half is `Single`.  What makes two links selected is that a
hashchange keeps the selection if an item of the new location is in it
(`navtree.js:527-535`), while the script that selects may be under way; a
selection by link then adds to what was kept.  Until the item is reached,
everything selected is an item of the link's anchor in the page that is shown,
and has been built (`Before`): the selection by link finds it again, so that
nothing else is added, and if it finds nothing then nothing was selected.
`OnHashChangeFinds` is its heart, that what a hashchange keeps has the link
that is now navigated to.  That takes the index: an item with a hash that is
selected for a link is that link's own (`ItemLemma`).  It also takes the button:
while a link is stored the last one followed is the stored one, which fails as
soon as the button is clicked on.  `IndexAssumption` is used for the root as
well: it has the link of the index page, no hash, so that it is never found by
one.

Only model-checked: liveness (`ClosingEnds`, `StartReturns`, `StopReturns`,
`AllTaken`, `AnswersArrive`), which the prover cannot do under fairness.  Every
other property of the passing runs is a theorem.

## 5. Where code and documentation differ

Five runs end in a counterexample to what the documentation says:

* `bad_timeout_flag`: the TIMEOUT flag is forgotten if output is pending when
  the read timeout fires (`ad_server.c:803`, `ad_server.h:127`).
* `bad_stop_frees`: with default options `ad_server_stop` reads the options of
  a server that the loop's thread has freed (`ad_server.c:292`, doc at 283).
* `bad_pipeline_stall`: a pipelined request that is already in the in-buffer
  is not parsed until more bytes arrive (`ad_server.c:790-793`, `README.md:27`).
* `bad_chunk_size`: chunk sizes are written in decimal
  (`ad_http_handler.c:409`, `README.md:26`).
* `bad_partial_line`: with part of a request line the parser returns 0, which
  is `AD_OK`, and the hooks behind it are asked; the branch under the comment
  "Do not call user callbacks until I reach the next state" is dead
  (`ad_http_handler.c:557-562`).

Others were met while modelling and delimit what the passing runs assume:

* INIT comes again for every pipelined request, while `ad_server.h:123` says
  once per connection; the models take the code's behaviour.
* A write error while output is pending strands the connection
  (`ad_server.c:773-775` and 803): writing is disabled, so the write event
  that would free it never comes.  `NeverStranded` and `ClosingEnds` are
  therefore stated without write errors.
* A hook registered on a method hears every INIT, and only the CLOSEs of
  requests with its method; `EveryHookPaired` is therefore stated of the hooks
  registered without one.
* Output written on the last CLOSE is discarded; `NothingUnsent` assumes that
  hooks are silent then.
* `set_userdata` returns the address of the connection's array instead of the
  previous object (`ad_server.c:835`, doc at 488), so that attaching twice
  loses an object; `NothingLost` assumes that hooks attach on INIT.
* The status is lowered from `AD_TAKEOVER` to `AD_OK` (784) although the
  comment above says that it only rises.
* Connections that are open when the loop ends are not closed, and no hook
  ever hears SHUTDOWN: `conn_free` is only called with status `AD_CLOSE`.
* A hook that runs longer than the second that stop sleeps can make stop wait
  for ever in `pthread_join`, because the notification is freed before the
  loop took it (580-602).  `StopReturns` excepts exactly this: a hook that is
  running, and a notification not taken, when the sleep is over.
* A failed bind leaks the notification channel at the next start (242), and
  start returns 0 if `pthread_create` fails (264), upon which stop joins a
  thread that does not exist (596).  `ChannelReleased` is stated for starts that
  bind.
* With the loop in the thread of start, an accept that finds no memory breaks
  the loop; start then releases the notification channel (`ad_server.c:289`)
  while a stop in another thread may be about to write to it.  `SafeSettings`
  leaves it out.
* A hook that answers a finished request and returns `AD_OK`, as
  `examples/echo_http_server.c` does, leaves the request finished: what comes
  next on the connection is not parsed, and each read is answered with the old
  request again.  `HttpConn` models hooks that end the session or the
  connection, as in the other example.
* In the manual, a reader who turns the sync button off, on and off again and
  then follows a link to another hash of the page gets two items with the id
  `selected`; `OneSelected` is stated for readers who leave the button alone.
  Other readers get them too, for a link that two built items have: then both
  are selected, and `showRoot` scrolls to one of them.  A reader who does not
  wait gets two links selected when the scripts of two links are under way.
* A reader who closes a node while a script is under way may end with a node
  that is marked open and whose list is hidden: `showNode` shows the list
  (`navtree.js:361`) and the animation, when it ends, hides it.  `IconTells` is stated
  for readers who wait.
* While a link with a hash is stored, `selectAndHighlight` looks for that hash
  in the page that is shown (`navtree.js:329`).  If the page has an item with
  the same anchor, as a header has with its source file, that item is selected
  and the stored one is not: the second case of `FollowsTarget`.
* A chunk whose size line ends in LF only and whose data ends in CR LF is
  taken or not depending on where TCP cuts it (756): `MCHttpStream`'s clients
  use CR LF throughout.
* `correctPathname` trims blanks before it removes the trailing slash, so that
  the path `/a /` is left with the blank that its comment says it removes
  (`ad_http_handler.c:804-824`).
* A content set first as chunked and then with a length leaves both framing
  headers in the block, and data behind it; `FramedAsAnnounced` and
  `WithinLength` ask only that the header which goes with the data is there.
  The return values of `ad_http_send_header`,
  `ad_http_send_chunk` and `ad_http_send_data` differ from their docs (329,
  365, 418).

## 6. Not modelled

TLS, options and statistics as tables, logging, the reason table and global clean-up: `PROJECT.json` gives the reason for
each.  Of the manual, `dynsections.js` and `resize.js` (one handler after the
other, a cookie and a class name as their state), jQuery and the generated
index tables; `NavTree` models what `navtree.js` uses of jQuery and of the
browser from how it uses it.  Of a URI, splitting off the host and the query and
decoding the path are left out.  Requests in `HttpFormat` have one framing
header or none, and a length that is not negative; with both headers
`parse_body` goes by the length, and a negative length counts as none.
`ad_http_set_response_header` is modelled where the library calls it; a hook may
also use it to overwrite the framing headers, and `HttpResponse` assumes that it
does not.  In `NavTree` a location that changes its hash raises hashchange in the
same step.  Memory is short only in `listener_cb`.  The
contents of `AdConn`'s buffers are not counted, and time is not measured.

## 7. Plan

1. Done: all modules of section 2; the invariants of all components; the action
   properties of `AdConn`; the refinements of `HookProtocol` by `AdConn` and of
   `AdConn` by `HttpConn`; what the parser and the path functions compute.
2. Done: theorems for every invariant and action property of the passing runs.
