# A TLA+ model of sdp-go

sdp-go is the Go library of the State Description Protocol: programs ask
*queries* over NATS, any number of *responders* answer them with items, errors
and progress responses, and a *gateway* offers the same over a websocket. This
directory models the concurrent and stateful parts of the library, checks them
with TLC and proves their safety properties with TLAPS.

All line numbers refer to the files under `src/`.

## The system

| Component | State | Operations | Hard behaviour |
|---|---|---|---|
| **QueryProgress** (`progress.go` 276-968): one query, on the asking side | user channels and `channelsClosed` under `chanMutex`, the subscription under `subMutex`, responder states and their monitors under `respondersMutex`, `StartTimeoutElapsed`, `cancelled`, the `sync.Once` of Drain | Start, Execute, item / error / response handlers, ProcessResponse, stallMonitor, markStarted's timeout, Drain, Cancel, AsyncCancel | three mutexes, five kinds of goroutine, every one of which may end the query; timeouts that race late answers; sends on channels that another goroutine closes; a map read without its lock |
| **ResponseSender** (`progress.go` 30-217): one query, on the answering side | `monitorKill`, `monitorRunning`, the ticker goroutine | Start, Kill, Done, Error, Cancel | two goroutines publish on one subject; the order of what they publish matters to every watcher |
| **Gateway client** (`sdpws/client.go`, `sdpws/utils.go`) | `requestMap`, `finishedRequestMap` with a condition variable, `closed`, the connection | receive, send, abort, Close, Wait, SendQuery, Query, StoreSnapshot, StoreBookmark | one receive goroutine feeds many callers through bounded channels while holding a lock; the connection may fail in any goroutine |
| **Auth middleware** (`middleware.go`) | the account name in a request's context | ensureValidTokenHandler, OverrideCustomClaims | which of token, override and bypass decides the account |
| **Keepalive interceptor** (`sdpconnect/keepalive_interceptor.go`) | time of the last call per account; per context that wakes, a channel and a goroutine | wakeSources and its three wrappers, shouldCallKeepalive, updateLastCalled, WaitForSources | a cache tested before and stored after a slow call; one value for many waiters; contexts nested in contexts |
| **Token client, API key source, NATS connect** (`auth/auth.go`, `auth/nats.go`) | a cached JWT and its keys, a cached bearer token, tries left | GetJWT, generateJWT, generateKeys, Sign, Token, Connect | tokens expire or come damaged at any moment; services are down for a while; nats.go calls back on every reconnect |
| **SDP graph** (`graph/main.go`) | nodes by ID and by name, edges, edges to items not seen yet | NewSDPGraph, AddItem, From, To, HasEdgeFromTo, HasEdgeBetween | items arrive in any order, link themselves, or are added again |
| **LLM conversations** (`llm/openai.go`, `llm/anthropic.go`) | an assistant and a thread at the service, or a list of messages | NewConversation, SendMessage, the tool calls, End | any of many remote calls fails, loses its reply or meets the end of its context; clean-up of what was done before |
| **TestConnection** (`test_utils.go`) | a map of subscriptions | Publish, Subscribe, Drain | delivers in parallel goroutines |
| Pure code: pagination (`util.go`), gateway status (`gateway.go`), items and attributes (`items.go`), validation, link extraction, changes, instance detection | none | functions of their arguments | boundaries |

How they meet: `QueryProgress.Start` subscribes to the query's subject and
publishes the query; a responder runs a `ResponseSender` on that subject and
publishes items and errors next to it; `QueryProgress` keeps a state per
responder from the sender's responses and ends the query when nobody works any
more. The gateway client speaks to a service that does the same on the user's
behalf. The connection under both comes from `Connect`, whose attempts call the
token client. A service that answers requests sits behind the auth middleware,
which names the account, and the keepalive interceptor, which wakes that
account's sources. Items end up in the graph; conversations stand alone. What
has to be right:

* the user's channels are closed exactly once, never while a handler sends, and
  always in the end, whatever responders do or fail to do;
* the last of several concurrent events that make a query complete is noticed;
* a working responder is always watched, a finished one stays finished;
* no order of the three mutexes can deadlock;
* a sender never says WORKING after its final response, and can be stopped;
* the announced interval is long enough: neither a lost response nor some delay
  makes a working responder look stalled, and one that stopped is noticed;
* the gateway client forgets no caller when its connection fails, never returns
  a truncated result as a complete one, and answers each request once, with what
  happened to it;
* nobody waits for something that no longer comes: neither a goroutine of a query,
  nor one of the gateway client, nor a handler that waits for its sources;
* contexts nested in one that wakes share its call, a call is skipped only
  because another was made in the last ten minutes, and who waits hears of its
  error;
* the nonce is signed with the keys the token was made for, no stale token is
  used, none that is good is asked for again, and the attempts are counted right;
* the edges of the graph are the links of the items, whatever the order;
* a conversation holds the messages that were answered and no others, and what
  was created at the service is deleted again.

The code does not do all of this in every case; the numbers are those of the
Findings. A waiter of the gateway client can miss its wake-up (1) or be stopped
by a query that was given up (6), and a truncated result passes for a complete one
(7). A request is let through after a failed wake (2), and the error of a wake is
told to one of those who wait (10). Start and Drain invert two mutexes (3),
messages are dropped when the query ends (4), a finished responder may be marked as
stalled (5), and the Go runtime may abort the process, so that a query does not end
but its program does (9).

## Modules

| Module | Models | Role |
|---|---|---|
| `QueryProgress` | `progress.go` 276-968 | the asking side, one action per critical section |
| `MCQueryProgress` | | message contents and symmetry for TLC |
| `QueryContract` | what `Start`, `Drain`, `Cancel` and `ProcessResponse` promise | abstract specification of a query as its user and its cancellers see it |
| `QueryProgressProofs` | | ten theorems about `QueryProgress`, among them the refinement of `QueryContract` |
| `ResponderProtocol` | what `ProcessResponse` and `stallMonitor` rely on | abstract specification of one responder's responses, and of its silence once it is stopped |
| `ResponseSender` | `progress.go` 30-217 | the answering side, refines `ResponderProtocol` |
| `ResponseSenderProofs` | | the refinement and silence after a stop, proved |
| `QuerySession` | the sender with `progress.go` 700-790 and 925-950 in time | composes `ResponseSender` with a network and a watcher |
| `QuerySessionProofs` | | types, no false stall, silence noticed in time, and the sender's promise, for every interval |
| `GatewayClient` | `sdpws/client.go`, `sdpws/utils.go` | the websocket client with many callers |
| `GatewayContract` | what `SendQuery`, `Wait`, `Query` and the store calls promise | abstract specification of what a request returns |
| `GatewayClientProofs` | | its types, its safety, its freedom from blocking, and the refinement of `GatewayContract` |
| `KeepaliveSources` | `sdpconnect/keepalive_interceptor.go`, part of `middleware.go` | contexts, their wakers and their waiters |
| `KeepaliveContract` | what `WaitForSources` promises | abstract specification of what a waiting handler may rely on |
| `KeepaliveSourcesProofs` | | its types and safety, that nobody is left waiting, and the refinement of `KeepaliveContract` |
| `NatsConnect` | `auth/nats.go`, `auth/auth.go` | the retry loop, the token client and the token source in one goroutine |
| `MCNatsConnect` | | the values of `NumRetries` and `MaxReconnects` for TLC |
| `NatsConnectProofs` | | its types and four safety properties, proved |
| `SdpGraph` | `graph/main.go` | the graph that `AddItem` builds |
| `MCSdpGraph` | | the links of an item for TLC |
| `SdpGraphProofs` | | its types and three properties, proved |
| `ConversationHistory` | the promise of `llm/main.go` 22-27 | abstract specification: which messages are part of a conversation |
| `Conversation` | `llm/openai.go`, `llm/anthropic.go` | both providers, refines `ConversationHistory` |
| `ConversationProofs` | | types, no leaks, and the refinement, proved |

### QueryProgress

One variable per piece of state that the code shares between goroutines, and one
program counter per goroutine:

| Variable | Code |
|---|---|
| `pcS`, `published` | the caller of Start between its locks; the publish of line 488 |
| `chans`, `channelsClosed` | `itemChan`, `errorChan` and `channelsClosed` |
| `sub` | `querySub` and what nats.go does with it after Drain |
| `fate`, `body` | what becomes of each message on the query subject |
| `pcH`, `work` | the callback goroutines, with the handler they run |
| `state`, `current` | `responders[..].lastState` and the monitor its `monitorCancel` belongs to |
| `mon`, `todo` | the stall monitors, and a lock-free `allDone` half-way through its scan |
| `timer`, `elapsed` | the goroutine of `markStarted`, `StartTimeoutElapsed` |
| `drain` | the `sync.Once` and where its body is |
| `cancelled`, `pcC` | `cancelled` and the callers of Cancel |
| `open` | the channels the loop of Execute still reads |
| `aborted` | the process was aborted; no goroutine runs any more |

Mutexes are not variables. A goroutine holds a mutex exactly while its counter
is in the critical section, so `ChanWriter`, `ChanReaders`, `SubLocked` and
`HoldsResponders` are read off the counters; this keeps lock and owner from ever
disagreeing in the model. A step boundary stands wherever the code takes or
releases a lock, blocks, or reads shared state without a lock. In particular
`allDone` is one step when it is called under `respondersMutex`
(`ProcessResponse`, `markStarted`) and one step per responder when it is not
(`stallMonitor`, `AsyncCancel`): `ScanOne` reads the responders in any order
while others change, and one that is added meanwhile is seen or missed.

Such a scan has another outcome. `numWorking` ranges over the map of responders
(777), `ProcessResponse` inserts into it (725), and 634 and 941 call `allDone`
without the lock that 704 takes. When Go notices, it ends the process with
"fatal error: concurrent map iteration and map write", which no recover catches.
`MapRace` is the situation, `Abort` the outcome; whether the runtime notices is
a matter of luck, hence a nondeterministic choice. `Abort` also stands for
`UnknownPanics`: the callback panics on a response of a type it does not know
(480-481), in a goroutine of nats.go where nobody recovers. An aborted process
takes no further step, and the liveness properties say "or aborted";
`ExecuteFinishes` is the version without (Finding 9).

Start's early errors (345-377: a second Start, no connection, no item channel, no
scope) leave everything as it was, so a call that gets one is no step. An item or
error that is nil (393, 434) has no effect; it is among the messages as a response
without a responder, which has none either.

Time is abstracted: a timer may elapse at any moment after it is armed.
`DrainDelay` is a step during which `respondersMutex` is held. The NATS
subscription delivers messages of one responder in the order sent and those of
different responders in any order, which `Publish` and `Dispatch` leave to
nondeterminism: messages carry any content from `Contents` at any time, so
reordered, missing and contradictory responses are all included.

Environment assumptions, each a constant or a named ASSUME:

* `WorkingPromisesNext`: a WORKING response carries `NextUpdateIn`, as every
  response of `ResponseSender` does (75-79). Without it a responder that dies
  is never noticed.
* `CancelAfterStart`: the program calls Cancel only when Start has returned.
  Nothing in the code enforces this, and where it is FALSE, Start and Drain can
  deadlock (Finding 3), and a Cancel that comes first uses up the `sync.Once` of
  Drain, so that the query that is started afterwards is never closed. The runs
  have it TRUE, and liveness, `NeverStuck`, `CancelledIsClosed` and `KeepsContract`
  need it. `OnlyCancelInverts` does not: it says that a Cancel is the only culprit,
  and is proved for both values.
* `ErrorChannel`: Start may be given a nil error channel. The runs use "open":
  with "nil" the first error blocks its handler in line 465, with `chanMutex`
  held for reading, and Drain waits behind it for ever.
* Start is called once per query.

`Contract == INSTANCE QueryContract` is the query as its user and its cancellers
see it. `delivered` is mapped to the messages the reader has received with the
channel each came through, `word` to `state`, `announced` to the responders that
promised another report in a response that was processed, `returned` to the
callers of Cancel that have been let go. `KeepsContract` says that every step of
the library is a step of the contract or none at all: the channels are opened
once and closed together; nothing is delivered twice, or after the close; a final
word about a responder changes only to STALLED, and that only when an announced
report did not come, which is Finding 5; and whoever is told that the query is
over can rely on it. It needs `CancelAfterStart`: with a Cancel before Start,
TLC finds within eight steps a forced Cancel that returns while the channels are
still to be opened.

`OnlyCancelInverts` is what remains true of the lock order. Start holds
`chanMutex` while it asks for `subMutex`, Drain the reverse. They meet only when the
one that drains is a Cancel; no response, stall monitor or timeout can get to
Drain before Start holds both, and none of them holds `respondersMutex` and waits
for Drain while Start waits for `respondersMutex`.

`NeverStuck` is the safety side of the liveness properties. `StartCanRun`,
`HandlerCanRun` and their like say of each goroutine what it waits for, read off
the guards of its steps: a mutex, the reader, the `sync.Once`. In every reachable
state one of them can go on, everything is at rest, or a handler is inside a send
to a channel that was given as nil (`SendsToNil`, the case `ErrorChannel = "nil"`
that line 465 does not guard against).

### ResponseSender and ResponderProtocol

`pcS` is the caller of Start, `ticker` the goroutine it spawns (with `tick` the
buffered channel of its `time.Ticker`), `pcK` the one caller of Done, Error,
Cancel or Kill. `connected` is FALSE when Start is given no connection. A
publish may fail at any time, and the code only logs it. `wire` is the last
response that was published; `Promise == INSTANCE ResponderProtocol` maps it to
itself and `stopped` to the return of the call that stops the sender.
`KeepsPromise` says that the sender implements the protocol: any number of
WORKING, then at most one of COMPLETE, ERROR and CANCELLED, and from the return of
Done, Error, Cancel or Kill on nothing, although the ticker goroutine may have
been half-way through a publish when the call came.

### GatewayClient

`pc` has an entry per goroutine: the receive goroutine, one per call of Query
(`Queries`), of StoreSnapshot or StoreBookmark (`Stores`), of SendQuery followed
by Wait (`Sent`), and a caller of Close. `inMap`, `buffer` and `chanClosed` are
the channel of each request (capacity one); a call keeps its channel when it
leaves the map, as the Go variable does. `requestMapMu` is read off the
counters: `postRequestChan` holds it for reading while it blocks in its send
(`MapLocked`), everybody else takes it for writing within one step. abort is
four steps because other goroutines run between the close of the websocket, the
assignment of `closed` and the closing of the channels.

The gateway is external: it answers a request that reached it with any sequence
of items, errors and statuses, the last of which is FINISHED, CANCELLED or
ERRORED; it answers a store once, perhaps with a response that is none to a store
("odd", which the call returns as "unexpected", `utils.go` 194-196, 275-277). Ids
are distinct, as the callers' UUIDs are. A write that fails may have reached the
gateway nevertheless: the client aborts the connection in either case, but until it
has, responses to that request may arrive.
Responses that only reach the message handler change nothing and are left out.

`Contract == INSTANCE GatewayContract` leaves out the channels, the map and the
lock: a request is asked, the gateway finds items and ends it, a query collects
what was found, the client closes, and the request returns once. `Honest` lists
what a result may say and when: `ok` only for a request that is over, with all of
its items, unless the client is closed (Finding 7); `refused`, `cancelled` and
`errored` only for a request that the gateway ended; `closed` only when the client
is; `context` only to a caller whose context can end. `FailToAsk` is a request
whose write fails: it returns `sendFailed`, and whether the gateway runs it stays
open. The variables are mapped to those of the same
name.

`OnlyQuittersBlock` reads off the guards which goroutines can go on (`CanRun`).
Somebody can, or all are at rest, or `StuckOnQuitter`: the receive goroutine holds
`requestMapMu` in a send to the full channel of a Query that does not read any
more, since its context ended or the write of its request failed.

### QuerySession

`ResponseSender` with the clock it leaves out, the network, and the watcher's
side of one responder. `toTick` and `stallIn` count down the units to the next
tick and to the stall timeout, `flight` holds the responses on their way with
their age, `known` is the `lastState` of the responder at the watcher. Each
action is one of `ResponseSender` conjoined with what it does to the network
(`FirstResponse`, `NextResponse`, `FinalResponse`, `IntervalEnds`, `SilentStep`),
or a step of the watcher (`ProcessResponse`, `StallMonitor`), or `Elapse`.

`Elapse` waits for what is due: a tick is published and a timer runs before the
next unit passes, since goroutines are fast against an interval of seconds. The
network may lose any response but not two in a row, which is the "one-and-a-bit"
of lines 34-36 and 63-64, delays each by at most `MaxDelay`, and lets a later one
overtake. `TimeAssumption` fixes `NextUpdateIn` to 230% of the interval, as line
65 does, and bounds the delay by what is then left over. The watcher has one
responder and is atomic; its races are those of `QueryProgress`.

`quiet` is a history variable, the time since the sender fell silent.
`NoFalseStall` bounds the watcher from one side, `NoticedInTime` from the other: it
believes a responder that stopped to be working for no longer than `Grace`, which
is the announced interval plus the greatest delay. The bound is tight; TLC refutes
it with `<` in place of `<=`.

### KeepaliveSources

`config` is the account override and whether the interceptor has a client;
`lastCalled` is the cache, with times abstracted to never, recent and older than
ten minutes. The process is a *context*. A request comes with one (`Admit`, which
puts the account name into it). `PassOn(c, d)` is a call that passes the interceptor
with context `c`: `wakeSources` returns `d`, a context made inside `c` (`outer`),
which has the account of `c` and its wait function, if any (`func`). Where nothing
keeps it from doing so, it starts a waker and gives `d`, and only `d`, the function
that waits for it (159, 182); `c` stays as it was. A handler that holds `c` may
therefore pass it on again, at the same time, and start another waker, and a
WaitForSources with `c` itself returns at once while these run. Both happen in the
model.

The waker of a context has `waker`, `result`, the channel `ready` of capacity one,
and `closed`; `wait` is what each WaitForSources with a context returned. The mutex
of the cache is held for one test or one store, each within a step; the step
boundary between them is the one that matters. The management service is external:
it succeeds, fails (also because the request ended) or panics. One interceptor is
modelled, with one cache.

`Contract == INSTANCE KeepaliveContract` keeps how contexts are nested, their
accounts, the calls, and what each waiter was told; the cache, the channel and the
order of the waker's steps are left out. A waiter whose context waits for nothing is
let pass (`LetPass`) where that context did not come by way of the interceptor,
waking is switched off, there is no account, or a call for the account has ended
before. A waiter for a call hears when that call has ended: one of them is told of
its error (`Report`), and after that the others only that it is over (`Release`). A
call that panics is told as over: `LogRecoverToReturn` recovers, and the deferred
close hands out nil (166-167). The contract says "over" and not "ready", since the
code returns nil for both. That a call which failed covers later requests is Finding
2; that only one waiter is told of an error, against lines 36-39, is Finding 10.

`ErrorComesFirst` is as much of the promise of lines 36-39 as the code keeps: no
waiter of a failed call gets nil unless another got the error, and only one does.

### NatsConnect

`triesLeft` and `pc` are the loop of `Connect` and, when `reconnecting`, the one
inside nats.go, which makes the same calls. `keys`, `jwtState` and `jwtKey` are
the token client's cache, `access` that of the API key source, `renewing` tells
the two calls of `generateJWT` in `GetJWT` apart, `signature` is what was signed
with. One goroutine does it all, so that the steps are the remote calls; tokens
age and services fail between any two of them. `attempts`, `agedNow`, `mints`,
`exchanges` and the two counts of token faults are history variables. A token is
live, expired or, for a JWT, impossible to decode. Sleeping is a step.

nats.go is external. When the connection is lost it reconnects up to
`maxReconnects` times, for ever when that is negative, and zero stands for the
default of the code, which is -1 (`auth/nats.go` 134-138). It also gives up when the
server has refused the credentials of two reconnects (`refusals`). A connection that
was given up is "closed" for good. The counts of nats.go are `conn`.

### SdpGraph

`nodesByID`, `nodesByGUN` and `unseenEdges` are the maps of the code. The list
of edges is a bag, since nothing depends on its order; the weight of an edge is
a function of its nodes. From is a bag as well, as it returns a node once per
edge. `AddItem` is one action, as the graph has no locks and is built by one
goroutine. It may be called with any name, taken or not, and with links to any
names, the item's own included, any number of times each. The properties are
about what the queries of the graph return: `EdgesAreLinks` says how often
From(u) has v and whether HasEdgeBetween(u, v) holds, `LinksLeadToTheirName`
what From contains. To is only in Finding 8.

### Conversation and ConversationHistory

`pc` is the user's goroutine in either provider. `assistant`, `thread` and
`messages` are the state at OpenAI, `messages` and `draft` that of Anthropic's
conversation; `run` is OpenAI's run, `requested` and `answered` are the parallel
tool calls, `ctxDone` the context of the send. Every remote call has an outcome
that is carried out and acknowledged, one that fails, and for the creation of a
resource or a message one that is carried out with its reply lost. The
clean-up tasks use a context of their own, as in the code (372).

`History == INSTANCE ConversationHistory` maps the history to `messages` less the
message being sent. In the abstract specification a send is answered and its
message stays, or it fails and leaves nothing; the third result, "spoiled", is a
failure that leaves its message behind. `Conversation` allows it in three cases
only: the deletion failed too, the creation was not acknowledged, or the answer
was empty (see Findings).

## Runs

| Run | Shows |
|---|---|
| `qp_core` | all safety properties of a query, `OnlyCancelInverts`, `NeverStuck` and the refinement `KeepsContract` included, with two responders, two callbacks in parallel, two messages and a Cancel |
| `qp_live` | `ExecuteReturns`: a query of two responders ends by itself, or the process is aborted |
| `qp_cancel_live` | `CancelReturns`: Cancel returns without its context expiring, or the process is aborted |
| `session` | sender, network and watcher: `KeepsPromise` is the refinement of `ResponderProtocol`, silence after the stop included, `SenderEnds` the end of its goroutine; `NoFalseStall`, `NoticedInTime` and `EndNoticed` what the watcher makes of it |
| `gc_core` | a query, an awaited request and Close on a connection that may fail: `PostsToOpenChannel`, `NoOrphanCall`, and `KeepsContract`, the refinement of `GatewayContract` |
| `gc_live` | `OnlyQuittersBlock`, and `EverythingEnds` for a query, a store and Close once the connection is gone, either of which may give up |
| `keepalive` | `ErrorComesFirst`, `NobodyIsLeft`, `KeepsContract`, the refinement of `KeepaliveContract`, and that wakers and waits end, `KeepaliveEnds` |
| `connect` | `RetriesExactly`, `SignatureMatchesToken`, `NothingStaleSent`, `NothingAskedTwice`, and that the connection comes up, or is given up for one of the reasons of nats.go, `Settles` |
| `graph` | `EdgesAreLinks`, `LinksLeadToTheirName` in directed and undirected graphs |
| `conversation` | `KeepsHistory`, the refinement of `ConversationHistory`; `NothingLeaks`; `SendEnds` |
| `gc_lost_wakeup`, `keepalive_ready` | see Findings |

### Bounds

* `qp_*`: two responders are the fewest that can disagree about being done; a
  third only repeats the second. Two messages let a responder start and finish, or
  be revived, or let both start; two callbacks are the fewest that run in parallel,
  and contain every behaviour of the one serial callback of a NATS subscription.
  The liveness runs use one callback, the production case. One canceller races
  everything else; a second meets the same `sync.Once`. `Contents` lists the kinds
  of message that ProcessResponse and the handlers tell apart (`MCQueryProgress`).
  Responders, messages and callbacks are symmetric in `qp_core`, where each content
  occurs for each responder; the liveness runs use no symmetry.
* `session`: an interval of 10 units, hence 23 for the announced update, with a
  delay of 2, the greatest that `TimeAssumption` allows. That is the tight case:
  with less delay the watcher has more slack.
* `gc_*`: one query and one awaited request already share the receive goroutine,
  the map and the condition; two items fill the channel of capacity one while one
  is read, and the noise responses, which are unbounded, do so any number of times.
  `gc_live` has no items, only noise, which fills the channel as well. Query, store
  and awaited request may each give up. Deadlock is not checked, because the client
  really can stop when a query gives up (Finding 6); `OnlyQuittersBlock` says that it
  stops for no other reason.
* `keepalive`: three contexts of one account, with one waiter each. They may be
  three requests, a request with two calls side by side, or one inside the other; the
  innermost two share a waker, so that one waiter gets its value and the other finds
  the closed channel. With two waiters for each context TLC finds the same
  invariants to hold (331,000 states).
* `connect`: no retry, two, and retrying for ever; `MaxReconnects` unset or two; six
  faults let the API, the server and both tokens fail, and one of them again after it
  was renewed.
* `graph`: three names and three items, so that an item may be early, late, or a
  second one of its name; at most two links per item, which may be double or to
  itself.
* `conversation`: four sends, so that a failed, a spoiled and an answered one
  precede another; three tool calls at once.

The theorems cover the rest: they hold for every value of the constants that
meets the modules' assumptions.

### Fairness

* The Go scheduler runs every goroutine that can run: weak fairness for each
  goroutine, separately, and for timers; in `QueryProgress`, for as long as the process
  is `Alive`. Nothing forces an `Abort`. Mutexes and RWMutexes of Go do not
  starve a waiter for ever; with one step per acquisition weak fairness says the
  same here, because nobody releases and retakes a lock for ever in these models.
* `select` picks among ready cases at random. A ticker that is ready again and
  again may win any number of times, not for ever: strong fairness for
  `SelectExit`.
* `FairSpec` adds that the user reads the channels until they are closed, which
  `Execute` does itself (664-687).
* No fairness for responders, the network, the gateway, callers of Cancel or
  Close, or the expiry of contexts: the liveness properties hold whatever they do.
* `session`: the sender's fairness as above; responses that are not lost arrive,
  timers that are due fire, time passes.
* `keepalive`: goroutines run, and the call of the management service returns,
  with the context of its request at the latest. Nobody need call WaitForSources.
* `connect`: the goroutine runs and what is down comes back. Faults are bounded,
  which is the usual "if they stop"; which of them happen is not restricted.
* `conversation`: calls of the service and tools return, with their context at the
  latest. Nothing is assumed of their results or of the user.

## Findings

Two are runs with `expect: violation`; the counterexample is the scenario.

1. `gc_lost_wakeup`: Wait tests `Closed` before it takes the lock of the condition
   (313, 336); abort's broadcast can fall in between, and the waiter sleeps on.
2. `keepalive_ready`: the time of the last call is stored even when the call
   failed, or was cut short because its request ended (176). For ten minutes later
   requests get no function to wait with, and WaitForSources says that the sources
   are ready.

The following have a configuration beside the modules, which reproduces each
of them with `tlc -config <cfg> <module>`:

3. `QP_LockOrder.cfg` (`MCQueryProgress`): Start takes `chanMutex` (378) then
   `subMutex` (383), Drain the other way round (543, 559). A Cancel concurrent with
   Start deadlocks both, although AsyncCancel tests `allDone` "in case nothing had
   started yet" (633). `OnlyCancelInverts` shows, and `LocksSafe` proves, that only
   a Cancel does this.
4. `QP_Dropped.cfg` (`MCQueryProgress`): `Subscription.Drain` of nats.go is
   asynchronous, the comment at 964 has no code, and `DrainDelay` is slept inside
   the serial callback: queued items are dropped, which line 411 reports as
   "should never happen".
5. `QP_Stalled.cfg` (`MCQueryProgress`): a stall monitor past its select overwrites
   a final state.
6. `GC_CloseReturns.cfg` (`GatewayClient`): `postRequestChan` sends while it holds
   `requestMapMu`. When a Query's context ends with its channel full, the receive
   goroutine, that Query and Close all wait for each other. The same happens when
   the write of a Query fails after the request went out, and its responses fill the
   channel before abort has taken the lock. `OnlyQuittersBlock`
   shows, and `OnlyQuittersBlockOthers` proves, that this is the only way in which
   goroutines of the client block each other. (A waiter that missed its broadcast,
   Finding 1, blocks nobody else and counts as resting.)
7. `GC_Truncated.cfg` (`GatewayClient`): Query cannot tell the end of its query from
   the loss of the connection and returns the items so far with a nil error.
8. `SG_To.cfg` (`MCSdpGraph`): To "returns all nodes that can reach directly to the
   node" (`graph/main.go` 237), but collects the end of each edge, which is the node
   itself, once per edge (245).

9. `QP_Race.cfg` (`MCQueryProgress`): `allDone` ranges over the map of responders
   (777) without `respondersMutex` in stall monitors (941) and AsyncCancel (634), while
   ProcessResponse may insert one (725). When the runtime catches it, the process
   ends instead of the query; `ExecuteFinishes` is refuted.
10. `KA_Errors.cfg` (`KeepaliveSources`): "If the waking of the sources returns an
   error it will be returned via this function" (`keepalive_interceptor.go` 38-39),
   but the channel holds it once (160, 179). Whoever calls WaitForSources second,
   with the same context or another that shares the function, gets nil from the closed
   channel; `ErrorsReturned` is refuted.

Plain from the text, and therefore without a configuration:

* stall monitors drain on `allDone` alone (941), although 745-748 asks for the start
  timeout "to ensure that we don't drain too early";
* a forced Cancel waits for `chanMutex` behind a handler blocked in its send, so an
  expired context does not end Cancel when the user stopped reading;
* a second Done, Error, Cancel or Kill closes `monitorKill` twice and panics, one
  before Start closes a nil channel; two requests of the gateway client with one
  UUID share a channel. Both are misuse that the code does not guard against;
* `StoreBookmark` ignores its argument `isSystem` (`sdpws/utils.go` 250);
* `Weight` of the graph is documented to be true "if an edge exists between x and y
  or if x and y have the same ID" (`graph/main.go` 268-269); the code looks for an
  edge from x to y only (270-278), and a node seldom has one to itself;
* the clean-up tasks of SendMessage are meant for "an error at any point"
  (`llm/openai.go` 132), but an empty answer returns an error without them
  (278-287), and a run whose retrieval fails is not cancelled (190).

## Proofs

TLAPS checks the theorems for every set of responders, handlers, cancellers,
messages and contents that meets the assumptions of the module, hence without
the bounds of TLC.

`QueryProgressProofs`:

| Theorem | Inductive invariant | Why the property alone is not inductive |
|---|---|---|
| `TypeCorrect` | `TypeInv`: `TypeOK`, no two handlers share a message (`OwnWork`), messages that were sent have a body | dispatch and processing look up the body of the handler's own message |
| `SendSafe` | `SendInv` adds: `channelsClosed` and the channels agree, a sender saw them open | Drain closes only when it holds `chanMutex`, so no handler is between its test and its send |
| `DrainsQuietly` | itself with `TypeInv` | only ProcessResponse makes a responder WORKING, and it needs the mutex the drainer holds |
| `WorkingWatched` | `WatchInv`: a message that is not processed has no monitor yet, a monitor belongs to the responder of its message | a new response cancels the old monitor and arms its own in one critical section |
| `LocksSafe` (of `OnlyCancelInverts`) | `OrderInv`: until Start has published, there is no response, no handler and no monitor, and a Drain that runs is that of a Cancel; the timer, and with it `elapsed`, comes after Start returned | nobody else can reach Drain so early: handlers and monitors need a response, and a handler drains only once the start timeout has elapsed |
| `CancelCloses` (of `CancelledIsClosed`) | `ClosedInv`, assuming `CancelAfterStart`: with `LockInv`, while Start runs nobody drains | a finished Drain leaves no channel open, and Start cannot open one any more |
| `CompletionNoticed` | `NoticeInv`: the timer is done only after `elapsed` is set and its own test was made | each goroutine tests after it made its contribution, so the last one sees all |
| `FinishedStay` (of `FinishedStays`) | `TypeInv` | by cases of the step |
| `NobodyIsStuck` | `LiveInv`: `TypeInv`, `SendInv`, `WatchInv`, `ClosedInv`, `NoticeInv`, and `ReadInv`: the reader leaves only a channel that was closed, and a Start that succeeded has armed the timer; same assumption | each wait is followed to its end: the reader frees a sender, the sender the closer, the closer of the channels whoever holds `respondersMutex` or waits in the `sync.Once`; and when nobody is left, `NoticeInv` and `WatchInv` say that the query is over |
| `ImplementsContract` | `ContractInv`: `LiveInv`, and `AnnouncedInv`: a monitor stands for a responder that announced another response; same assumption | that Open comes before every Return and every Close needs the order of Start and Drain, and that only an announced report is missed needs the monitors' origin |

`CancelCloses` and `FinishedStay` are consequences of the contract, with a shorter
proof of their own; no run names them separately.

`ResponseSenderProofs`: `SenderTypes`; `SenderKeepsPromise`, the refinement, from
`OrderInv`: a final response is on the wire only after the ticker goroutine has
exited; `SenderSilent`, the silence alone, from the same invariant.

`QuerySessionProofs`, for every interval and every delay below `NextUpdateIn - 2 *
ResponseInterval`:

| Theorem | Inductive invariant | Why the property alone is not inductive |
|---|---|---|
| `SessionTypes` | `SessionTypeOK` | itself |
| `WorkingIsNotStalled` | `TickInv`, `FlightInv`, `TimeInv`: with `Elapsed` units since the last tick, the timeout has at least `NextUpdateIn - Elapsed` left when the last response has arrived, one interval less when it was lost, two less while it is on its way | the property speaks of the moment of the timeout, the invariant of the slack at every moment before |
| `SilenceIsNoticed` | `QuietInv`: while the watcher believes the responder to be working, `quiet` and what its timeout has left never exceed `Grace` together; what is still on its way is as old as the silence | the property bounds `quiet` alone, which grows with every unit; only the sum with the timeout stays put, and a late response may restart the timeout |
| `SessionKeepsPromise` | `SenderSteps`: each session step is one of the sender or a stutter | the refinement of `ResponseSender` carries over |

`GatewayClientProofs`, for any number of queries, stores, awaited requests and
items:

| Theorem | Inductive invariant | Why the property alone is not inductive |
|---|---|---|
| `TypeCorrect` | `TypeInv`: an item is in the list of its Query, in its channel or in the hands of the receive goroutine, and the three together never exceed what the gateway found | that the list stays within its bound rests on no item being counted twice |
| `NeverPostsToClosed` | `Inv`, of which `MapInv` and `PostInv`: the map holds open channels, and while `postRequestChan` holds the lock its channel stays in the map | a channel is closed only by the step that takes it out of the map |
| `NoCallIsOrphaned` | `Inv`, of which `OrphanInv`: from `createRequestChan` on a call has its channel; when the receive goroutine is about to remove it, the last response is in it | that a client that is open still has its receive goroutine (`ClosedInv`; abort sets `closed`, 362, before it returns), and that no response precedes its request (`UnsentInv`) |
| `OnlyQuittersBlockOthers` | `PlaceInv`: where each goroutine can be, given its kind, its channel and its result | a full channel has a reader that has not left (`FullChannel`), a waiter's request has an answer under way or a receive goroutine behind it, and the lock is held by a sender only |
| `ImplementsContract` | `ClientInv`: `Complete`, `PlaceInv` and `EndInv`: nothing follows the last response of a request, who leaves its channel has a reason, and a wait is finished by the gateway only | the result is chosen one or more steps after what it is based on; `EndInv` says that this basis still stands |
| `OpenClientIsComplete` (of `CompleteResults`) | `Complete`: adds `CompleteInv`, the exact count of `TypeInv` while the client is open, and that the last response is behind all the items | the result is fixed before the channel is removed |
| `WaitsForItsRequest` (of `WaitsForRequest`) | itself with `Inv` | finished requests stay finished, a closed client stays closed |

The last two are parts of the contract, which rests on the first of them; no run
names them separately.

`KeepaliveSourcesProofs`, for any contexts, accounts and waiters:

| Theorem | Inductive invariant | Why the property alone is not inductive |
|---|---|---|
| `TypeCorrect` | `TypeOK` | itself |
| `NestedContextsShareWaker` (of `NestedShareWaker`) | `ChainInv`: a context is made of one that is handling, with its function; `WakerInv`: a function is that of a waker that was started, and a waker of its own context | an outer context never gets a function after an inner one was made of it, which needs that it is not on its way through the interceptor any more |
| `ErrorsComeFirst` (of `ErrorComesFirst`) | `WakerInv`, `ResultInv`: how far a waker is tells what is known of its call and what its channel holds; `ReportInv`: an error that is in the channel no more was given to one waiter | a waiter gets nil only from the closed channel, so the error must already be gone |
| `SkipsAreCovered` (of `SkipsOnlyAfterCall`) | `CoverInv`: a time in the cache stands for a call of that account that ended, and so does a context behind the interceptor without a function | the cache is written after the call, and read one step before it is relied on |
| `NobodyIsLeftBehind` (of `NobodyIsLeft`) | `ResultInv`, `ReportInv` | that a wait ends rests on the waker, which may be anywhere between its call and its end |
| `ImplementsContract` | all of them | that the error is told once, and first, needs its value to be gone from the channel when the first waiter has it; that a waiter may pass needs `CoverInv` |

`NatsConnectProofs`, for any sets of `NumRetries` and `MaxReconnects` and any number of
faults:

| Theorem | Inductive invariant | Why the property alone is not inductive |
|---|---|---|
| `TypeCorrect` | `TypeOK` | itself |
| `RetriesAreExact` | `LoopInv`: attempts made and tries left add up to `NumRetries + 1`, a negative number stays, and the loop goes on only while tries are left | the property sees only the end of the loop |
| `SignaturesMatch` | `KeyInv`: a JWT that is there was made for the keys that are there, and keys are never replaced | the keys are made before a request that may fail |
| `NoStaleToken` | itself with `TypeOK` | itself; a token is tested some steps before it is sent, and `agedNow` says whether it aged since |
| `TokensAreReused` | `CountInv`: without a good token, as many went bad as were handed out | a token is asked for only then, which leaves room for the new one |

`SdpGraphProofs`, for any names, links and number of items:

| Theorem | Inductive invariant | Why the property alone is not inductive |
|---|---|---|
| `TypeCorrect` | `TypeOK` | itself |
| `EdgesFollowLinks` | `NameInv`: the map of names holds the last node of each name; `WaitInv`: while nobody has a name, each node waits for it as often as it links it; `EndsInv`: edges have nodes at both ends; `EdgeInv`: what the property says of From, of the edges | the late edges come from `unseenEdges` |
| `LinksLead` | the same, with `LeadInv` for `EdgeInv` | a node that is added under a name that is taken gets the edges from all who waited for it, while later links lead to it |
| `UndirectedIsSymmetric` | itself with `TypeOK` | itself; it shows "all edges will be bidirectional" (158) of the list, repeated edges included |

`ConversationProofs`, for any number of sends and any tool calls:

| Theorem | Inductive invariant | Why the property alone is not inductive |
|---|---|---|
| `TypeCorrect` | `TypeOK` | itself |
| `NoLeaks` | `ResourceInv`: at each step of NewConversation and End which resources may exist, unless their deletion failed or their creation was not acknowledged | the property speaks of the end only |
| `ImplementsHistory` | `SendInv`: a send is in progress exactly where `pc` says so, and sends come in order; `MessageInv`: at which steps the message of the current send is stored, and that all others belong to earlier sends | a step maps to Answer, Fail or Spoil by where the message is when the call returns |

Only model-checked: all liveness properties (`ExecuteReturns`, `CancelReturns`,
`SenderEnds`, `EndNoticed`, `EverythingEnds`, `KeepaliveEnds`, `Settles`,
`SendEnds`), since fairness and ENABLED are outside what the prover does, and the
counterexamples. `NeverStuck`, `OnlyQuittersBlock`, `NobodyIsLeft` and
`NoticedInTime` are what the prover can say of them: no reachable state in which
nobody can go on, with what each goroutine waits for written out in place of
ENABLED. For `QueryProgress`, TLC has compared `SomebodyCanRun` with ENABLED of
the steps it stands for.

## What could follow

A watcher with several responders in `QuerySession`, which multiplies the clocks;
`QueryProgress` with its messages taken from `ResponderProtocol` instead of any
contents (the present model is the weaker assumption, hence the stronger result);
one token client shared by two connections, which the code does not lock; an
abstract specification of `NatsConnect`, whose four invariants now say separately
what the server and the API may see of it.

## Not modelled

Four fifths of the Go lines under `src/` (27 of 34 thousand) are generated
protobuf and connect code: accessors, encoders and stubs. They have no logic of
their own, and no model of them could say more than their generator does. Of the
other lines, about 7,600, the parts with state over several steps are modelled.
The rest is left out for these reasons:

* logging and tracing, and the message handlers that decode and delegate;
* link extraction and prompt rendering, which are text;
* pagination, gateway status (`Equal`, `Done`), items, references, attributes,
  validation and change conversions: functions of single values without state,
  which table tests cover;
* constructors of API clients and the one request of instance detection;
* of the auth middleware, scopes, bypass paths and the validation of a token,
  which is a library's; of the graph, weights, single look-ups and the iterator;
  of the conversations, the reflection that describes tools;
* `TestConnection`'s own map, and `EncodedConnection.Drop`.

Of panics, three are modelled: that of the callback on an unknown response
(`UnknownPanics`), the fatal error of the responders' map (`MapRace`), and that of the
keepalive call (`KeepalivePanics`). A send on a closed channel is excluded by
`NoSendOnClosed` and `PostsToOpenChannel`. Panics of the user's own handlers, which the
gateway client recovers from (`sdpws/client.go` 125), are left out.

One weakness is known: `wire` holds the last response, so a second WORKING in a row is
a stutter of `ResponderProtocol`. That none is published after a stop follows from
`OrderInv` of `ResponseSenderProofs`: when the call that stops the sender returns, its
goroutine has exited.
