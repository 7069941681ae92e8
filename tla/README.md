# Verification of cyctius_server_cpp

TLA+ models of the server, the TLC configurations that check them on small
instances, and TLAPS proofs, for every instance, of the safety properties they
check and of the refinements.

## 1. The system

| Component | Code | State | Operations | Made correct by |
|---|---|---|---|---|
| selection policy | `core/db/pg_data_base.h:19-34` | `index` | `select` | it yields a live session if there is one |
| database pool | `core/db/pg_data_base.h` | `m_sessions` (weak pointers), `m_policy`, `m_strand` | `connect_all`, `connect_lazy`, `start_session`, `async_execute*`, `terminate` | never more than `max_sessions` connections, no live session lost, every query answered |
| database session | `core/db/pg_session.{h,cpp}` | `m_connection`, `m_socket`, `m_strand` | `start`, `async_connect`, `async_wait`, `close`, `async_execute*` | answers tell what the database has done, transactions keep their connection, `close` ends it |
| coroutine server | `core/coro/http_server_coro.cpp` | acceptor, routers | `run`, `accept` | whoever connects is served |
| protocol detection | `core/coro/detect_session.cpp` | socket, buffer, parser | `async_read`, `async_start_specific_session` | nothing that was read is lost in the handover |
| HTTP session | `core/coro/http_session_coro.cpp` | socket, buffer, parser | `async_read`, `async_handle_request`, `async_close` | requests answered in order, once, and the socket freed |
| HTTP router | `core/coro/http_router_coro.cpp`, `core/async/http_router.cpp` | `m_routes` (vector) | `add_route`, `handle_request` | a response for every request, from the first route that matches |
| websocket session | `core/coro/websocket_session.cpp` | stream, two buffers | `async_wait`, `async_read`, `async_write` | replies match messages, no message that the stream hands over ends the session |
| websocket router | `core/coro/websocket_router.cpp` | `m_routes` (map) | `add_route`, `handle_request` | the reply to the message that was read, or none |
| callback server and session | `core/async/http_{server,session}.cpp` | socket, buffer, strand, worker pool | `accept`, `read`, `handle_request`, `close` | as the coroutine session |
| conversions | `core/common`, `core/transform` | none | parse requests, build responses | a handler finds what was sent; a failure is never sent as a success |
| application | `main_coro.cpp`, `hello_route.cpp` | the pool, the threads | two handlers | a database that hangs does not stop the rest |

Paths are below `src/src/`.

**How they interact.** `main_coro.cpp` makes one `io_context`; its threads run
everything. The accept loop makes a `DetectSession` per connection, which reads
the first request and moves socket and buffer into an `HttpSessionCoro` or a
`WebsocketSession`. Those call a router, which calls a handler, which may call
the pool. The pool chooses a session on its strand and posts the query to the
session's strand. The pool knows its sessions only by weak pointers; the
sessions keep themselves alive by the coroutines they run, the callers by the
shared pointer they lock. The callback server (`core/async`) is an older
alternative with a pool of worker threads for the handlers.

**What is hard.** Weak pointers expire at any moment, between any two lines that
hold the pool's strand. `terminate` walks the vector without the strand. The
policy's index outlives changes of the vector it indexes. Database calls block
threads and have no timeout, nor have HTTP reads and writes. Clients pipeline
requests, stop reading, and reset connections; two of the reactions of the code
to a reset end the accept loop (coroutine server) or the process (callback
server). `PROJECT.json` lists these hazards at their lines.

## 2. The modules

| Module | Models | Variables are |
|---|---|---|
| `RoundRobinPolicy` | `RoundRobinPolicy::select` | (operators only) |
| `PgSessionLife` | a `PgSession` as others see it: abstract specification | life of `start()`'s coroutine, the connection, pending closes |
| `PgDataBase` | `PgDataBase`, composed with the lives of its sessions and the policy | `m_sessions`, `m_index`, `queue` = `m_strand`; `spc`/`created`, `qpc`/`weak`/`held`, `tpc`/`tslot`/`tend`/`tweak` are the program counters and locals of `start_session`, `async_execute`, `terminate` |
| `PgSession` | one `PgSession` in detail; implements `PgSessionLife` | `strand` = `m_strand`, `conn` = `m_connection`, `sock` = `m_socket`, `wait`, and per query its counter, answer, `*ec` |
| `RequestReply` | what an HTTP server promises: abstract specification | requests sent, requests answered, who is not served any more |
| `HttpStream` | clients, bytes, `http::async_read`, for both servers | per client: its end, the requests sent, taken, buffered |
| `HttpConnection` | `DetectSession`, `HttpSessionCoro`, `HttpRouterCoro` | `pc` per connection |
| `HttpServerCoro` | the accept loop, composed with the connections; implements `RequestReply` | `accepting`, `limit` of descriptors |
| `WebsocketSession` | `WebsocketSession`, `WebsocketRouter` | stream, buffer, timer, `pc` |
| `HttpServerAsync` | `HttpServer`, `HttpSession`; implements `RequestReply` | `pc` per connection, `m_workers_pool`, `process` |
| `ServerThreads` | `HttpServerCoro::run` and the `io_context`, composed with the accept loop, the pool's strand, the strands and lives of its sessions (`PgSessionLife`) and `HelloRoute::hello_json` | `work`, `queue`, `batch` = the `io_context` and its strands; `calls` = the calls to libpq that block a thread; `wait`, `server` per session; `pc`, `want`, `on` per client; `weak`, `checked` = the locals of the `async_execute` that is on the pool's strand |
| `Content` | `http_request.h`, `content_traits.h`, `http_response.h`, `response_traits.h`, `websocket_message.h`, the types and handlers of the application | (operators only) |
| `Routing` | `HttpRouterCoro`, `HttpRouter`, `WebsocketRouter`, with the conversions of `Content` before and behind the handlers | `m_routes`, `ws_routes`; `added` is the history of calls; `route`, `given`, `fate`, `answer` per session |
| `MCPgDataBase` | | symmetry for TLC |
| `Requests` | requests of any length, that grow piece by piece, and the reference definitions of what a handler finds in them | `body`, `form`, `fields`, `params` |
| `PgDataBase_proofs` (with the policy), `PgSession_proofs`, `ServerThreads_proofs`, `HttpServerCoro_proofs`, `HttpServerAsync_proofs`, `WebsocketSession_proofs`, `Routing_proofs` | | theorems about the module they extend; `Routing_proofs` also those about `Requests` |
| `HttpStream_proofs` | | the lemmas that both HTTP servers need |

An operator whose name has a suffix, such as `Full_OffByOne`, is not part of a
model: it is the operator of the name before the underscore with a plausible
mistake in it, kept to show that the properties notice.

**Steps.** A coroutine runs from one suspension to the next without another
coroutine of the same strand coming between. It is split further wherever
something off the strand can: in `async_execute` between `select`, `expired()`
and `lock()`, in `start_session` between pruning, the size check, creating the
session, and registering it. Two loops are one step: `select` and `remove_if`
ask one session after the other whether it has expired. A session can expire
meanwhile and never revives, so whatever the loop finds is what it would find
if asked at the moments it asked; a session that expires during the loop is one
that expires right after it or right before it, for all that the pool does next.

**Crashes.** `lock()` after `expired()` may yield null when the last coroutine of
the session ends in between, and the call goes through it; `select` may read
outside the vector; the walk of `terminate` may meet a vector that is being
written. Each has an action that ends the process; where the outcome of the
undefined behaviour may also be harmless, there is an action for that, too.
The models keep these steps, and the liveness properties count the death of the
process as an end: they say what holds as long as it lives.
`ServerThreads` has the null pointer of `lock()` as well (`PoolCrash`). It keeps
neither the vector nor the index: with the two sessions of its run, each started
once, an index past the end cannot come about, and with more, `PoolSelect` and
`PoolCrash` allow whatever could come of it.

**Left out of the models.** The text of requests, replies, queries and logs; the
frames that recursion in `async_wait`, `async_read` piles up; descriptor numbers
(`async_close` closes one twice, `pg_session.cpp:123,133`); `close()` and
`start()` of the HTTP and websocket sessions, which nothing calls; the branches
on `*ec` in `PgSession`, which no caller with an error code of its own can
reach.

**Threads.** Only `ServerThreads` counts them; in the other modules there are
enough. A thread takes the first operation that has completed, and the reactor,
which looks for more, is one of them. A strand stands in that queue once and is
run by one thread at a time, so that a call to libpq on a strand blocks the
thread and the strand. `co_await post(strand)` leaves the coroutine on the strand
until it next suspends: after a query, the handler and the start of the write
still run there (`QueryReturns`). What the module leaves to others: clients that
reset or do not read (`HttpServerCoro`), `terminate`, and sessions that are started
again after others have died (`PgDataBase`).

**Websocket messages.** The stream can refuse a message, because it is longer
than `read_message_max`, because its text is no UTF-8, or because it breaks the
protocol (`refused`); the session ends at `websocket_session.cpp:87`. Bytes that
came right behind the upgrade request are moved into the session's buffer and
missing from the stream. If they end within a frame (`cut`), the stream takes the
rest of it for a frame: what it hands over may then be anything, and it may
refuse at any time. Nothing is promised of the replies to such a client but their
order.

**Texts.** `Content` works on characters where characters decide, which is in
forms. Elsewhere a document is a tag and what it holds; of a text it matters
whether it is valid UTF-8, since `dump()` throws if it is not. A header value is
copied from a view that has no terminating zero (`http_request.h:41,45`); the
model appends the line end that follows it and an arbitrary rest (`CString`).

## 3. The runs

| Run | Bounds | Shows |
|---|---|---|
| `pool_safety` | 3 sessions, pool of 2, 2 starters, 1 caller, 1 pending close per session | `LiveRegistered`, `PoolBound`, `SelectSound` |
| `pool_liveness` | 2 sessions, pool of 1, 1 starter, 2 callers, 2 pending closes per session | `QueryAnswered`, `SlotFreed`, `PoolRevives` |
| `pool_select` | 3 sessions, pool of 2, 1 starter, 1 caller | `SelectEmptyMeansAllDead` is violated |
| `pg_session` | 2 queries, 2 pending closes | `AnswerTellsEffect`, `TransactionKeepsConnection`, `ImplementsLife`, `QueryAnswered`, `CloseEnds` |
| `http_connection` | 1 client, 3 requests of 5 kinds, 1 unread reply | `ImplementsRequestReply`, `Served`, `Released` |
| `http_server` | 2 clients, 1 request each, descriptors for 1 or 2 | `Served`, `Accepted` |
| `websocket` | 3 messages of 3 kinds, 3 kinds of left-over bytes, 1 unread reply | `RepliesMatch`, `EndsForCause`, `Answered`, `Released` |
| `websocket_echo` | the same | `EchoesBackAll` is violated |
| `http_async` | 2 clients, 2 requests each, 1 worker | `ImplementsRequestReply`, `Served`, `Released` |
| `server_threads` | 2 sessions, 2 clients, 3 threads, 1 pending close | `OneCallPerConnection`, `PostedOnce`, `TurnsGoOn`, `PlainAnswered`, `Accepted`, `HelloAnswered` |
| `content` | bodies of 6 characters of 4 kinds, forms of 3 fields, 4 header fields or parameters | `FormReference`, `FormRoundTrip`, `LatestCounts` |
| `routing` | 3 calls of `add_route`, 2 paths, 2 methods, 1 session | `FirstRouteAnswers`, `StatusTells`, `EchoMatches` |

**Bounds.** `Sessions` has one name more than the pool has slots, so that a
session can be alive outside the vector if the code allows it; names are used
again as soon as nothing remembers the object, so that runs of any length are
covered. `MaxCloses` bounds the coroutines that `close()` has spawned and that
that have not run. One is enough for `pool_safety`, whose properties ask only
whether some are pending. It is not for liveness, because a bound of one keeps
`terminate` from closing a session again before the last close has run; with two,
the runs of `pool_liveness` include those in which it does so for ever.
`PgSession` is checked with two as well. A pool of two is
the smallest in which pruning can leave the index outside the vector and a live
session inside. Three requests are the smallest number with one parsed by
`DetectSession`, one in the buffer it hands over, and one on the wire. One
unread reply makes a client that does not read block the next write. The
callback server is run with `keep` and `last` only: its session does not look
at upgrades, and for bytes that are no request it takes the same branch as for
the end of the stream.

Three threads are one more than there are sessions, the condition of
`PlainAnswered` and `Accepted`, with two calls that can hang at once; two clients
are enough for one to wait in the strand where the other blocks, and for both to
block. Six characters hold two pairs and a separator too many, or an empty name,
value or pair at either end; the words of a form have at most one character,
because what is in a word makes no difference to the code; four header fields
hold two names twice, in any order. The sessions of `Routing` share nothing but
tables that do not change once they run, so that one is enough; with three
routes, two can be equal and a third between them or in another router.

**Deadlock** is checked for the database modules, for `ServerThreads` and for
`Routing`. Connections and sessions really end, so the runs of the HTTP and
websocket modules do not check it; `Served`, `Answered` and `Released` say that
they do not get stuck earlier. `content` enumerates inputs and ends with them.

**Fairness.** Weak fairness of the coroutines' steps: the threads in `run()` resume
whatever can go on. A database call ends because the database answers or the
connection breaks. A wait on a socket need not end, except when the socket has
been closed. Handlers end because they wait for nothing but the pool, which
answers (`QueryAnswered`). Nothing is assumed of clients: where a property needs
one that reads its replies, it says so (`[]<>(unread[c] = 0)`). In `ServerThreads`
the fairness is that of the threads alone: a free one takes the first operation,
and the one that runs a strand goes on. Calls to libpq may hang for ever;
`HelloAnswered`, which is about queries, assumes in the property itself that they
return.

**What the violations show.** `pool_select`: two sessions in the pool of two, the
first selected, so that the index is 1; both die; one `start_session` prunes both
and appends a fresh session in the same turn of the strand
(`pg_data_base.h:171-187`); the next `select` starts with slot 1 of a vector of
length one and never reads slot 0, although the session in it is alive. The
comment says that all sessions have died. What does hold is `SelectSound`: none,
although some session is alive, only if the index was past the end.
`websocket_echo`: a message that is not answered, against the comment on the class.

**What holds only so far.**
`AnswerTellsEffect` says nothing of `operation_canceled`, which may mean either, nor
of `async_execute_no_res` without an error, which may not have run.
`SlotFreed` excepts sessions that at every moment some caller holds: the policy goes
on selecting a session whose connection is dead, and nothing in the code frees
its slot. It also excepts a `terminate` that is called for ever: each call spawns a
close, which keeps the session alive until it has run.
`PoolRevives` is about pools whose sessions are dead. After `terminate` and then
at once `connect_all`, the sessions being closed are still alive, the new ones
are refused, and the pool ends up empty; nothing in the repository promises
otherwise.
`CloseEnds` needs a server that stays up: after a reset `async_close` throws before
it closes anything.
`Accepted` holds as long as the accept loop lives; any exception ends it, and
nothing starts it again. An idle client keeps its descriptor for ever: `Released` is
about clients that leave.
In `ServerThreads`, `Accepted` and `PlainAnswered` need more threads than there are
database sessions. The application has `hardware_concurrency()` threads and one
session: on a machine with one core, or where the number is unknown, one call
that hangs stops it. These two and `HelloAnswered` count the death of the process
as an end: a session that fails to connect, or otherwise ends, between the check
and the lock of a query takes the process down.
`HelloAnswered` promises an answer, not the users: `main` asks the pool for a session
once, and when that has ended every query is answered with an error.
`StatusTells` says what the client learns, which is little: an unknown path, an
unknown method and a database that is down are all 400, and the texts of errors
go out as `null`, because they deduce a body type that has no `JsonMapper`.
`LatestCounts` can only say how header values begin, and what a handler finds under
`unknown` is the value of one of the custom fields.

## 4. The proofs

Every proof of safety but those of the conversions has the same plan: an
inductive invariant `IInv` that implies the property, the lemmas that `Init` gives
it and that each action keeps it, and `Invariance` (`PoolInvariant` for the pool).
TLC has checked each `IInv` on the bounds of its module's run before it was proved.
Constants that are only bounds of a run are arbitrary numbers in the proofs.

| Module | What a run checks and a theorem states |
|---|---|
| `PgDataBase_proofs` | `LiveRegistered`, `PoolBound`, `SelectSound` |
| `PgSession_proofs` | `TypeOK`, `AnswerTellsEffect`, `TransactionKeepsConnection`, `ImplementsLife` |
| `ServerThreads_proofs` | `OneCallPerConnection`, `PostedOnce`, `TurnsGoOn` |
| `HttpServerCoro_proofs` | `TypeOK`, `ImplementsRequestReply` |
| `HttpServerAsync_proofs` | `TypeOK`, `ImplementsRequestReply` |
| `WebsocketSession_proofs` | `TypeOK`, `RepliesMatch`, `EndsForCause` |
| `Routing_proofs` | `TypeOK`, `FirstRouteAnswers`, `StatusTells`, `EchoMatches` of `Routing`; `FormReference`, `FormRoundTrip`, `LatestCounts` of `Requests` |

The `TypeOK` of the pool and of the threads is part of what is proved, and no run
repeats it.

### The pool

`SelectChooses`, about the policy, by cases on whether an iteration
finds a live slot; the arithmetic is that the slots read from a valid index are
all slots of the vector.

`PgDataBase_proofs`, from `SessionsAssumption`, `ActorsAssumption`,
`MaxAssumption` and `MaxClosesAssumption`:

- `PoolInvariant`: `Spec => []IInv`, where `IInv` is `TypeOK`, `StarterOnStrand`,
  `CreatedOwned`, `VectorBound` and `LiveRegistered`.
- `TypeCorrect`, `NobodyLost`, `PoolBounded`, `SelectionSound` follow from it.

`PoolBound` is not inductive: it counts live sessions, and the code checks the
length of the vector. The strengthening says why one bounds the other. A session
that is alive is in the vector or is the one that a starter has made and not yet
registered (`LiveRegistered`); the vector is within its bound, and shorter than it
while such a starter exists (`VectorBound`); and there is at most one, because
from pruning to registering a starter stays at the head of the strand
(`StarterOnStrand`) and only in between does it own a session (`CreatedOwned`). That
`LiveRegistered` survives every other action is `LiveShrinks`: only `StartCreate`
makes a session live; every lock is of a session that is alive.

`IInv` is proved for all sets of sessions, starters and callers (only the set of
sessions is finite).

- `PoolImplementsLife`: `Spec => LifeSpec`. The pool is composed with `PgSessionLife`,
  and this says that it takes no step with a session which that module does not
  allow: it starts only what nobody keeps, and what it closes or queries it has
  found alive. The invariant it needs on top of `TypeOK` is `PointersKnown`: a caller
  or `terminate` that goes on with a pointer has one, to a session it found alive.

### One database session

`PgSession_proofs`, from `QueriesAssumption`, for any set of queries and any number
of closes:

- `Invariance`, where `IInv` is `TypeOK`, `OnceEach`, `JobsKnown`, `StartFirst`,
  `RunningHolds`, `Unanswered` and `AnswerTellsEffect`.
- `TypeCorrect`, `AnswersAreTrue`, `TransactionsKeepConnection` follow from it.
- `SessionImplementsLife`: `Spec => ImplementsLife`.

`AnswerTellsEffect` is about what a caller may conclude, and it is not inductive:
when a query answers, what it has done must be known. That is `Unanswered`, which
tells the effect from the program counter, and it survives because nothing else
touches a query that has begun: it is the head of the strand and the connection
is open (`RunningHolds`), and all that closes the connection is a job of the same
strand, behind it. `JobsKnown` and `OnceEach` say which coroutine a job belongs to
and that it stands there once, so that the next head is a query that has not
begun; `StartFirst` says that nothing runs before `start()`. `TransactionKeepsConnection`
is then a property of single steps: `RunClose` cannot be the step, because the
head of the strand is another job.

For the refinement, each step of the session is one of `PgSessionLife` or changes
none of its variables (`StepImplements`, one step per action). The mapping counts
the closes in the strand, so the lemmas `ClosesOfAppend` and `ClosesOfTail` say
how a cardinality changes when a job is posted or leaves. The pool and the
threads are composed with `PgSessionLife`; by this theorem what is proved of them
holds of the sessions of the code, and `PoolImplementsLife` and
`ThreadsImplementLife` are the other half: neither asks of a session what the
abstract one does not offer.

### The threads

`ServerThreads_proofs`, from `NamesAssumption` and `MaxClosesAssumption`, for
any finite sets of sessions and clients and any number of threads:

- `Invariance`: `Spec => []IInv`, where `IInv` is `TypeOK`, `Placed`, `OnceEach`,
  `BatchWithin`, `CallersRun` and `ConnectsRun`.
- `TypeCorrect`, `CallsAreExclusive` follow from it.
- `QueuesInvariance`: `Spec => []QueueInv`, where `QueueInv` is `IInv`, `WorkInv`,
  `QueriesPosted`, `SessionStrands` and `PoolStrand`.
- `EachIsPostedOnce` and `TurnsNeverStick`, which are `PostedOnce` and `TurnsGoOn`, follow
  from it.
- `ThreadsImplementLife`: `Spec => LifeSpec`.

`OneCallPerConnection` speaks of the coroutines that block threads, and the code
has no check of it: it follows from where they stand. A coroutine in a call is
the first handler of its session's strand, which a thread is running
(`CallersRun`, `ConnectsRun`), and a strand has one first handler. This holds after
a turn, too, because the handler that ends is in no other place: a client's
handler is only in the strand that its program counter tells (`Placed`), and
there once (`OnceEach`); and because what is posted goes behind the handlers of
the batch that is run (`BatchWithin`: the strand is not empty while it is run).
That there are no more calls than sessions is then an injection of the one into
the other. The steps are about what a handler that ends, one that is posted and
a client that moves leave of this order (`PopKeeps`, `PushKeeps`, `MoveKeeps`).

`PostedOnce` and `TurnsGoOn` are about what the code posts and resumes: a coroutine
that stands in no strand, in two, or in another session's, or that is resumed when
it is not where it waits, stops for good or runs beside the one it must not meet.
`IInv` says that what stands in a strand has a reason to; `QueueInv` adds the
converse and the queue above the strands. `WorkInv` is the protocol of the
`io_context`: what stands in `work` stands there once, and a strand stands there just
if it has handlers and no thread runs it; so every post must look whether the
strand is idle, and every end of a turn whether the strand has more.
`QueriesPosted` and `SessionStrands` say where each client and each session waits: a
session that is starting or whose socket is ready has its one handler in its own
strand, and no other session's strand holds it. `TurnsGoOn` needs that the
`start_session` that the pool comes to has a session to make: `PoolStrand` counts
them, and there are as many in the pool's strand as sessions not yet started.
`Sessions # {}` in `NamesAssumption` is what this starts from: `main` calls
`connect_lazy` and so posts at least one `start_session`, and without any the
pool's strand would be queued empty.

### The HTTP servers

`HttpStream_proofs`, `HttpServerCoro_proofs`, `HttpServerAsync_proofs`, from
`MaxUnreadAssumption`, for any sets of clients and any number of requests, unread
replies, workers and descriptors:

- `Invariance` and `TypeCorrect` of both servers.
- `ServerImplementsRequestReply`: `Spec => ImplementsRequestReply`, of both.
- `AnswersInOrder`, of both, from the refinement: the `i`-th reply is to the `i`-th
  request, none is to bytes that are no request, and none comes after the reply to
  a request that asked for the end.

The requests of a connection are numbered as they are sent. The answered ones come
first, then the one in hand, then those in the buffer, then those on the way:
`Numbered` says so of the buffer, and `CaughtUp`, `Handling`, `Answered` say how many
are answered between requests, during one, and between the writing of the reply
and the next read. So the reply that is written is the next in order, which is
what `RequestReply` wants of a step. In the callback server a request passes
through the queue of the workers; there `QueueInv` is needed as well: a session
stands in the queue at most once and only while it waits there, so that the
worker that takes it up is the only one to go on with it.

### The websocket session

`WebsocketSession_proofs`, from `MaxUnreadAssumption`, for any number of messages:
`Invariance`, `TypeCorrect`, `RepliesAreToMessages`, `EndsOnlyForCause`.

`IInv` adds to `RepliesMatch` that the message in hand is the last one read, or the
bytes that the handshake left over (`MessageInHand`), and that every reply is to a
message read before it (`RepliesWereRead`); so the next reply keeps the order.
`EndsForCause` says of each step that ends the session that it is the handshake,
that the connection is broken, or that it is between two messages, and that then
nothing read is left unanswered. The last is `AnsweredBefore`: of the messages read
only the one in hand can be owed a reply, and between two there is none in hand.

### The routers

`Routing_proofs`, from `PathsAssumption`, for any sets of sessions,
paths and methods and any number of routes: `Invariance`, `TypeCorrect`,
`FirstAnswers`, `StatusTellsEnd`, `EchoIsOfMessage`.

`FirstRouteAnswers` compares what a session has found with the order of the calls
of `add_route`, which no router keeps as such. `TablesInv` is the connection: a
vector holds exactly the calls for its router, in order (`VectorsHold`), and the
map holds for each path a call that is not later than any other for it
(`MapHoldsFirst`). That `find_if` on the first and the lookup in the second come to
the same route are `VectorFindsFirst` and `MapFindsFirst`; they rest on `MinIsLeast`,
the well-foundedness of the numbers. The tables must not change between the
lookup and the end of a handler: sessions ask only once the application runs, and
no route is added then (`SessionInv`). `StatusTells` is `EndTells` for each way a
handler can end, through `Build` and `Serialize`. `PathsAssumption` says only that
the mark for a target that is no URL is not taken for a path.

### The conversions

`Routing_proofs`, from no assumption, for any characters, names and values and
for requests of any length:

- `RequestTypeInvariance`: `RequestSpec => []RequestTypeOK`. That is all there is of
  state; the rest is about what the operators of `Content` compute.
- `FormsAlwaysRead` and `FormsAlwaysComeBack`, which are `FormReference` and
  `FormRoundTrip`: no body and no form of any length is read wrongly.
- `LatestAlwaysCounts`, which is `LatestCounts`.

These are about loops over texts and lists. A loop is a recursive function
here, and the provers neither know that it exists nor what it yields. `LoopExists`
builds one from any first value and any body given as a function, by the union
of its initial parts; `UpTo` is the induction over the numbers up to a bound, for
a set of numbers, by its least counterexample. Each loop then has the statement
that its body keeps:

- `SplitSplits`: `split` cuts a text at its separators and nowhere else. What it keeps
  (`SplitInv`) is that the tokens so far are the pieces between the separators so
  far, in order, and that only the last one grows. With compression, the pieces
  it leaves out are empty, and an empty piece is no pair.
- `PairSplits`, `FieldsOfPair`: a token has two parts just if it has one `=`, and the
  parts are the two sides of it.
- `PairsArePlaced`, `FormCounts`: tokens and places in the body correspond one to one,
  wherever the token has a field. So the number of times the loop emplaces a
  field is the number of places where it stands.
- `EncodedIsEncoded`: in the text that a client makes of its fields, the places of
  pairs are those of the fields, because words have no separators. The round
  trip is then the same count, by another correspondence.
- `StoredGroups`, `LastStoredCounts`: Beast keeps fields of one name side by side, in the
  order they came in, so that the last one the loop over the headers sees under
  a name is the last one sent. `FirstParamCounts` is the opposite, of `emplace`.

### What is checked only

- Liveness under fairness: `QueryAnswered`, `SlotFreed`, `PoolRevives`,
  `CloseEnds`, `Served`, `Accepted`, `Released`, `Answered`, `PlainAnswered`,
  `HelloAnswered`. TLAPS has no rules for `ENABLED` and fairness here.

## 5. The plan

The order is that of importance. Done: the policy, the pool, the session, the
connections of both servers, the websocket session, the threads, the routers and
the conversions; the proofs of every invariant and every action property that
a run checks, of the three refinements, and of both sides of the composition
with `PgSessionLife`. Every part of the system that is built has its model.

**Not modelled.** `logger.{h,cpp}` only writes, and nothing uses `config.h`.
`main.cpp` is commented out; `test.cpp` is not built, and its commands are calls of
the pool that `PgDataBase` makes in every order. Text and binary bodies are copies
of bytes. `ok`, `not_found`, `set_header` of `HttpResponse`, and `start` and `close` of
the sessions, are called by nobody. Of `connection_info_to_string` it only matters that
the result is never empty.

**Could follow.** Liveness for any number of clients, once the prover has rules
for fairness; the serializers and `Build` type by type, beside what
`StatusTellsEnd` needs of them.
