# Disco-C in TLA+

Disco-C is a C library for Discord bots. One process holds a connection to the
Discord gateway, keeps recent messages, channels and guilds in a cache, and
sends HTTP requests from a pool of threads. This directory models the parts of
it in which several threads, a queue, a connection or freed memory are
involved, checks the models with TLC, and proves the main invariants with TLAPS
for every value of the constants.

Paths such as `t_pool.c` are below `src/src/`, headers below `src/include/`.

## The system

| Component | State | Operations | Interacts with |
|---|---|---|---|
| `utils/prio_queue.c` | linked list of nodes with an instant, `size` | `prio_push`, `prio_pop`, `prio_destroy_queue` | called by `t_pool` under its lock |
| `utils/t_pool.c` | queue, `sleep_until`, `stop`, `thread_count`, mutex, two condition variables | `t_pool_add_work`, `thread_work_loop`, `t_pool_destroy` | runs `request_t_pool`, which adds work itself |
| `utils/cache.c` | per type a hash map, a tail queue with a counter, a limit | set, get, delete, destroy | event loop (events), workers (lists of messages) |
| `web/websocket.c` | flags of the client, connection, content of a message in parts, heartbeat thread | callbacks of libwebsockets, connect, close, exit, destroy | called by libwebsockets on the event loop |
| `web/gateway.c` | `seq`, `HEARTBEAT_INTERVAL`, `sigterm_recv` | opcodes, identify/resume, heartbeat loop, event loop | `websocket.c`, `event.c` |
| `web/request.c` | one node for each request | `request`, `request_t_pool` | `t_pool`; callbacks of the user |
| `discord/disco.c` | the bot on the stack of `discord_start_bot` | start, shutdown, signal handler | everything |
| `discord/event.c` | none of its own | `event_handle` | cache, callbacks of the user |
| `discord/channel.c`, `message.c`, `user.c` | none of their own; the memory of each structure | made from JSON, copied, destroyed | events, cache, callbacks of the user |
| `discord/message.c` (commands) | the memory of each call | send, edit, fetch and get messages | request, cache, callbacks of the user |
| `discord/command.c`, `interaction.c`, `component.c` | the memory of each call | register commands, answer interactions | request, events |
| other `discord/*.c` (structures) | none | conversions between JSON and C structures | events |
| `utils/env_parse.c` | the scan of a file | `d_getenv` | called by the user |
| `utils/disco_logging.c` | none | print | - |

Three kinds of threads run: the event loop (the main thread, which runs every
callback of libwebsockets, every event and most callbacks of the user), the
workers of the pool (HTTP requests and their callbacks), and one heartbeat
thread for each connection. What is hard is where they meet: the queue of the
pool and its clock, the shutdown, the request that is handed back to the pool
while its worker still holds it, the connection that is closed or replaced
under a heartbeat, the cache that is used without a lock. `PROJECT.json` lists
these hazards, each with its line and the properties that cover it.

What makes each part correct:

* queue: nothing is lost, what is due first comes first (it does not, see
  below), nothing leaks;
* pool: a job runs once, due work is started, the pool is freed only when no
  thread uses it, the shutdown ends;
* cache: map and queue agree, a node is linked once and freed once, the limit
  holds;
* gateway: at most one heartbeat thread and it is tracked, a freed connection is
  not used, a resume names the right session and event, an exit ends;
* channels and messages: each piece of memory has one owner, who frees it once; a
  callback is handed nothing that is freed, and the right old object;
* request: one owner at a time, one callback, the node and its file names are
  freed when nobody needs them, every request ends;
* commands: nothing is left when the caller and the worker are both through,
  a callback is called once and with memory of its own, required options come
  first;
* environment: the value of the line that has the name.

## Modules

| Module | Models | Notes |
|---|---|---|
| `Lists` | the linked lists as sequences | used by the queue and by the caches |
| `PrioQueueOps` | the list of `prio_queue.c` as operators on sequences | used by `PrioQueue` and `ThreadPool` |
| `PrioQueue` | the queue with the memory of its nodes | one action for each function |
| `ThreadPool` | `t_pool.c` | one action for each stretch of `thread_work_loop`, `t_pool_add_work` and `t_pool_destroy` between two points where another thread or the clock can come in |
| `WorkPool` | what the pool promises | abstract: a set of pending work, what each thread runs |
| `Cache` | `cache.c`, one of the three caches | the clean-up loop is a step for each round |
| `KeyStore` | what a cache promises | abstract: a store, what is held, what was freed |
| `CacheCalls` | `cache.c`, calls of several threads on two caches at once | the queues are the pointers of `TAILQ`; one step for each operation on a map or a queue |
| `Structures` | the memory of `channel.c`, `message.c`, `user.c`, `interaction.c`, `component.c` | operators: a structure is a function from its pointers to blocks |
| `Events` | `event.c` but READY, the lists of `request.c`, the user's copies | composes `Cache` and `Structures` |
| `Commands` | the commands of `message.c`, `command.c`, `interaction.c`, and what `request.c` does for them | composes the calls with `KeyStore` |
| `EnvParse` | `env_parse.c` | one step for each character |
| `Gateway` | `websocket.c`, `gateway.c`, READY of `event.c`, the signal handler | event loop, heartbeat threads, server and signal |
| `Request` | `request.c` | relies on what `WorkPool` promises |
| `ListProofs`, `SequentialProofs`, `ThreadPoolProofs`, `EventsProofs`, `CacheCallsProofs`, `RequestProofs`, `GatewayProofs`, `CommandsProofs` | theorems | |
| `MC*` | instances for TLC | |

A definition whose name ends in an underscore and a word (`Lock` has none,
`NobodyLeft_any` is one) is the definition that follows it with a mistake in
it; every property is shown to fail for one of them, so that it is known to say
something.

### Priority queue and thread pool

A queue is a sequence of nodes, head first; an instant is an integer, the rank
of a `timeval` in the order the code compares them by. `prio_push` walks to the
first node that is later, or to the last node, and inserts before it: it never
passes the last node. So the last node is the one that was pushed first
(`LastIsFirstIn`), all others are in order (`SortedButLast`), and work may wait
behind work that is due later; `QueueOrder` says both. `prio_destroy_queue` leaks the last node of two
or more (`NothingLeaks`) and leaves `head` dangling.

`ThreadPool` composes the queue with the workers. A worker is `idle` (about to
lock), at the `test` of its wait loop, in its body (`choose`, where the clock is
read again), in one of two waits, in a callback (`run`), or past the loop. The
clock is a variable that ticks between any two steps, wake-ups without a signal
happen, `pthread_create` may fail, and callbacks may add work at any time, also
during the shutdown, where the push reads a freed head (`fault`). An instant
whose `tv_usec` is exactly 1000000 (`request.c:149` lets it through,
`t_pool.c:32` does not correct it) makes `pthread_cond_timedwait` refuse; the
worker goes round with the lock held.

`QueueAttended` is the heart of it: while work is queued, due or not, some thread
is on its way back to the queue, or one wakes up by `sleep_until` at the latest.
This is what the single signal of each addition has to ensure, which may reach a
thread that finds nothing due, or be lost on one that does not wait. The one
exception is real: the clock passes `sleep_until` between its two readings
(`t_pool.c:26` and `27`), and the last thread that went to sleep did so without a
time limit. Two history variables say just that, and not merely that work is due:
`read` is what a worker found at its first reading, `overslept` that the last one
to choose its wait found `sleep_until` in the future at the first reading and in
the past at the second. Any later signal, time-out or spurious wake-up clears it.

### Cache

The queue may hold several nodes for an id: a new node does not replace the old
one in it. The clean-up loop takes the first node and deletes *what the map
holds for its id*. `MapIsNewestInQueue`, and `LinkedOnce` in `IInv`, say that no
deletion and no move ever touches a freed or unlinked node all the same.
`BoundedUnlessStale` says exactly when the limit holds: after every call, unless the
first node is one whose id is not bound any more (`FirstIsStale`). Such a node takes
up all rounds of every clean-up and stays first, so that each further object exceeds
the limit by one more, until its id is set again. Calls do not overlap in
`Cache`; in the program they may (`request.c:220`), and there is no lock.

`CacheCalls` has the overlapping calls. The map and the queue that a call works
on are static variables of its function (`cache.c:143`, `222`, `251`), so a call
of the same function for another cache changes them under it; the compiler may
also have kept them in a register, so a step works on either (`Works`). `TAILQ_REMOVE`
does not look whose node it is given: it links the neighbours of the node, and
gives the last place, if the node was last, to the node before it in the queue it
was called for. `TAILQ_INSERT_TAIL` then puts the node into that queue. For nodes to
end up anywhere, the queues of `CacheCalls` are their pointers: `next` is `tqh_first`
of a queue and `tqe_next` of a node, `prev` says whose field `tqe_prev` points to,
`last` whose `tqh_last`. (`Cache`, where calls do not overlap, has sequences.) A
behaviour ends with the first misuse of memory, not with the first misplaced node:
two overlapping calls of `discord_cache_get` do move a message into the queue of the
channels, and the model goes on from there. What two operations on one map or queue
do to each other when they overlap is a data race and left out, so what the model
shows to go wrong goes wrong even if each of them were atomic.

`mixed` and `together` record which functions were in use for two caches at once,
and which caches by two threads. `OnlyMixedMisplaces` says that the pointers of a
queue lead to nodes of another cache only after some function was in use for two
caches, and that a map has a node of another cache only if `discord_cache_set` was.
`SafeApart` says that threads which never use one cache at once, nor one function
for two, need no lock: the pointers of each cache form a queue, which has what the
map and the counter say.

### Channels and messages

A structure is a function from its pointers that are not NULL to blocks of
memory. Most pointers of a channel or a message are copied and freed in the same
way and are one, `self`; those that are not are kept apart: the icon of a
channel, whose copy goes into `topic` (`channel.c:64`), the user that a message
and its member share, the referenced message, which is copied and never freed,
and `mention_channels`, which holds smaller structures than the ones it is copied
and freed as (`message.c:66`, `144`, `205`).

`Events` runs the handlers of `event_handle` on one cache, together with a worker
that receives a list of messages, the clean-up loop of the cache, and a user who
destroys the copies at any time. The object of a node is destroyed when `Cache`
frees the node. An update and a deletion are split where `discord_cache_get`
returns, since a worker may come in before the object is copied; the copy, the
making of the new object and the call of `discord_cache_set` are one step,
because nobody else can see the copies yet. The first misuse of memory ends a
behaviour and is kept in `misuse`.

`SharedOnlyIcons` and `DanglingOnlyIcons` say that the icon is the only memory
with two owners, `KnownLeaks` which memory is left without one, `OldIsPrevious`
that an update shows what the last event stored, and `ListIntact` when a list of
messages really is "all in the cache" (`message_commands.h:56`): it is not when
it is longer than the limit, when an event came in between, or when an id was
cached twice before. The array of such a list is allocated for no element
(`request.c:214`); in `Events` a list has no more messages than fit into the
smallest block of glibc, in `Commands` it may outgrow it.

The data, the members and the message of an interaction, and the components of a
message, are pointers of the same kind; `component.c:119` does not free the
components in a component, which `KnownLeaks` names.

### Commands

A call and its request end in either order: the worker may be through before
`request` has returned to the caller. `Commands` follows each block of memory of a
call (the JSON, the file names, the callback, the node) on both ways
(`OnlyEditsLeak`). The cache of messages is what `KeyStore` promises, since
`CacheImplementsKeyStore` is proved. Messages in the hands of a callback are
destroyed by the user, as the examples do, at any time; `BorrowedOnlyByGet` says
that this is safe except for a message that `discord_get_message` found in the
cache. `CrashesExplained` lists what misuses memory otherwise: messages found in the
cache, edits without a message, replies that misread their choices, requests
without a bot, uploads, and long lists. An upload appends to lists of headers that
`malloc` left as they were (`request.c:66`, `296`); the messages of a list go into an
array allocated for none (`request.c:214`), in which `Room` of them happen to fit, three
with glibc. Such a misuse may go unnoticed, and the models go on in that case as
well (`May`). `fault` is the first misuse; one is found in every registration, update and
deletion of a command and in every reply, which pass no bot to `request`
(`command.c:197`, `interaction.c:256`, read at `request.c:256`); the worker's part of
these is therefore never reached.

### Environment

`EnvParse` reads the file as the loop does. The loop does not reset the number
of matched characters at the end of a line, nor asks for the whole name at a `=`.
`RightIfUnlike` says for which files the result is right, `ResultOfOneLine` what
it is for any file.

### Gateway

The event loop is in `lws_service`, in `websocket_close` (which joins the
heartbeat thread and so may wait), in the check of the signal, or past the loop.
A connection is `connecting`, `open`, `killed` (the client asked libwebsockets
to close it) or `gone`. A heartbeat thread sleeps, or has the pointer to the
connection in hand (`send`), and has it `late` when the connection was freed
meanwhile. The server opens, closes, sends what the protocol allows next
(`peer`), rejects and forgets sessions. A callback of the user may close or
exit. `FaultsExplained` says which uses of a freed connection the code allows:
a heartbeat when the *server* closes, and `websocket_exit` after the last
connection. `content` holds which connection the fragments in `client->content` came
from; a new connection would keep those of the last one as `previous` if the client
did not reset it (`NewContent`, `websocket.c:138`), which is what `ContentOfOneConnection`
is about. Sending on a connection that is not established yet, and a failure
of `lws_client_connect_via_info` itself, are not modelled.

### Request

A worker is at `setup` (headers, file names, the decision to give up), at
`perform`, in the `cleanup`, at `respond` (body and callback) or about to `free`
the node. A retried request is put into the queue before the cleanup, so that
another worker may run it while the first still reads the node.
`OneOwner` says that at any time one hand only decides what becomes of the
request, and `CalledAtTheEnd` that the callback comes once and last.
`FaultsExplained` says of the node, its files and their headers, the response, the
time limit in it and the queue which of them is used though it is freed or was never
set, and when:

* the node, read after its successor freed it (`request.c:184`): only for a request
  that was retried;
* the file names (`request.c:186`): only of an upload that is retried, as every
  attempt frees them;
* the headers of the files (`attachments_l`, `request.c:66`, `296`, `179`): of every upload,
  at every attempt, the first one included;
* the response (`request.c:195`): only of a request that is given up;
* the time to wait in an answer without one (`request.c:139`): the request is dropped;
* the queue: only by an addition after `t_pool_destroy`.

So a request without files that gets another answer than 429 at its first attempt,
before the shutdown, misuses none of these. The array of a list of messages, which the
answer fills, is in `Commands`. Time is left out, so any pending request may be started at any
time, which is what `WorkPool` allows.

## Runs

| Run | Bounds | Shows |
|---|---|---|
| `prio_queue` | 3 instants, 6 pushes | order, and what is leaked |
| `thread_pool` | 2 workers, 3 jobs, instants 0, 2 and an unnormalised 4, clock to 5, threads that may not exist | all properties of the pool, and that it implements `WorkPool` |
| `cache` | 3 ids, limit 2, 6 sets, 3 failures of `hashmap_put` | all properties of the cache, and that it implements `KeyStore` |
| `cache_calls` | an event loop with a message and a channel, a worker with 2 messages, limit 2, 3 sets, 5 calls | what overlapping calls may do to the caches |
| `events` | 3 ids, limit 2, 3 sets, 1 failure, 3 copies, lists of 2 | all properties of channels, messages and interactions |
| `commands` | 2 calls of any kind, 2 ids, 4 messages, room for 3 in a list, 6 commands, replies to 1 or 2 options with up to 3 choices | all properties of the commands |
| `env_parse` | all files of up to 6 characters out of 4, names `A`, `AB`, `AA` | what `d_getenv` returns |
| `gateway` | 2 heartbeat threads, 3 events a session, an interval of 2 rounds, any number of reconnects | all properties of the connection |
| `request` | 3 workers, an upload and a query, 2 retries, 1 rate limit each | all properties of a request |

Three jobs are the fewest for which `prio_push` misplaces one that is neither
head nor last; two workers are enough for one to be signalled while the other
takes the work. Three ids over a limit of two give evictions of stale, of
current and of missing bindings; with the two caches of `cache_calls`, three sets
let one thread clean up while the other one sets, and five calls (6.8 million
states) misplace a node in the queue by each of the three functions, and then use it. Three copies are what a creation
and an update of the same channel make; with three sets a worker or an event
evicts what the other one holds. Two calls can hold the same cached message, and
with four messages the cache drops one of them meanwhile, and a list outgrows its
array. The commands have
required options in front, behind, on both levels and nowhere. Six characters hold
two lines, among them `A` and `B=A`, the shortest that are taken for a line of
`AB`; `AA` repeats its first character. A second heartbeat thread is there to be caught: only one ever
runs. Three workers let two of them clean up after a request that a third one
runs.

The other runs find a disagreement between a comment and the code:

| Run | Property | Comment |
|---|---|---|
| `thread_pool_join` | `ThreadsEndBeforeDestroyReturns` | `disco.c:57` |
| `gateway_resume` | `ResumesOwnSession` | `gateway.c:33` |
| `events_copies` | `CopiesAreOwn` | `README.md:60` |

Known divergences without a run of their own:

* `prio_queue.c:26` says that the node under the cursor is greater than the new
  one, which the last node need not be (`QueueOrder`);
* `t_pool.c:27` means to sleep until the first node is due, but reads the clock
  again, and sleeps without a limit if `sleep_until` passed in between
  (`overslept`, the exception in `QueueAttended`);
* `cache.h:39` promises a maximum, which an unbounded number of objects exceeds while
  the first node is stale (`BoundedUnlessStale`);
* `cache.h:56` says that setting an id frees the previous entry, which `cache.c:177`
  keeps; `cache.h:36` wants old and new object to be cached together, while the
  clean-up loop may delete the object that was just set;
* `request.c:190` says that a request that was not sent has no callback; one that
  is given up counts as sent, and has one, with an uninitialised response
  (`FaultsExplained`);
* `request.c:256` reads the pool of a bot that is NULL for every command and reply
  (`CrashesExplained`);
* `message_commands.h:47` allows a NULL message for an edit, of which `message.c:513`
  reads the attachments (`CrashesExplained`); the JSON of an edit is never freed
  (`message.c:522`, `OnlyEditsLeak`);
* `message_commands.h:70` says that `discord_get_message` first looks into the cache,
  while it always fetches as well and calls back twice (`message.c:563`,
  `CalledAsOften`); `message_commands.h:81` says a fetched message is cached, which
  `request.c:204` does not do;
* the choices of an autocompletion are written with the type of the option that
  has the number of the choice (`interaction.c:218`); choices of commands lose
  their value if it is a string (`command.c:77`); a command without a name is
  sent all the same;
* `websocket.h:61` says `connected` waits for an answer, but a reconnect does not
  reset it (`websocket.c:43`); `websocket.h:78` promises a reconnect after every
  close, which a close before the login does not give (`websocket.c:37`);
* `README.md:44` says the priority queue is not used; `README.md:4` says that each
  event has its own thread, while `event_handle` runs on the event loop.

### Fairness

Threads are scheduled (weak fairness of their steps). A mutex that is free again
and again is obtained (strong fairness of locking): POSIX does not promise it,
every implementation in use provides it in practice, and without it no liveness
of the pool holds. Time passes. Callbacks of the user and transfers of curl
return; curl has no time limit here, so this is an assumption on the network.
In `Gateway`, `lws_service` returns again and again, and closes a connection it
was told to close. Nothing makes the event loop end or a signal arrive. In
`Request`, the pool starts what is queued, which is `QueuedWorkStarts`.

`DestroyReturns` is about a pool whose threads all exist: one that `pthread_create` failed
to make is counted all the same (`t_pool.c:74`), and `t_pool_wait` waits for it for ever.
`QueuedWorkStarts` and `RequestEnds` name their exceptions: a pool without threads,
and all threads in an untimed sleep of which the last is `overslept` (the flaw
above, and not a signal that was lost); and a server that answers 429 without end,
excluded by `MaxLimits`.

## Proofs

All constants are arbitrary: any number of workers, jobs, instants, ids,
requests, calls, any limit. Assumptions: the set of workers is finite, names of threads
and placeholders are distinct, instants and bounds are natural numbers, a cache
holds at least 2 (`discord_cache_init` sees to it), an id and a type are no
placeholders, a request is tried at least
once.

* `ListProofs`: the cursor of `prio_push` is inside the list, what a push inserts
  and where, what a pop shifts, what unlinking and appending a node leave.
* `SequentialProofs`, the queue: `IInv`, with it `QueueOrder` and `NothingLeaks`. Nodes
  are numbered by the pushes (`Numbered`), so that no two of them are the same.
* `SequentialProofs`, `d_getenv`: `EnvIInv`, with it `RightIfUnlike` and
  `ResultOfOneLine`, for files and names of any length and any characters. TLC
  checked `EnvIInv` on the instance of `MCEnvParse` before it was proved. Neither
  property is inductive, as both speak of the end only. `NameSoFar` says what
  matched on the line that is being read, which is a piece of the name and not
  always its beginning, for `count` is kept from line to line; `ValueSoFar` that a
  value is read from a line that begins with such a piece and a `=`. In an unlike
  file, `NotPassed` says that nothing of another line ever matched, so that `count`
  is still 0 where the wanted line begins, and that this line is not yet behind;
  `FoundWanted` that the line that was found is that one. The lemmas say that every
  line has an end (`EndOfLine`), what a line that binds a name consists of
  (`WantedLine`, `WantedAt`) and that what matched is a piece (`MatchedIsPiece`).
* `ThreadPoolProofs`: `IInv` is inductive, and with it `QueueAttended`,
  `SleepUntilHeadOrLast`, `OnePlace`, `FreedAfterExit`, `FaultOnlyInShutdown`;
  `ImplementsWorkPool`. `Bookkeeping` and `ReadInTime` are the strengthening: the counter is
  exact, threads leave only after the stop, only the shutdown leaves a dangling head,
  a worker has a job just while it runs it; and a worker that is about to choose its
  wait has read the clock no later than `sleep_until`, which nobody can have changed
  since, so that it sleeps without a limit only if it is `overslept`.
* `EventsProofs`, the cache: `IInv`, with it `MapIsNewestInQueue`, `LinkedOnce`,
  `SizeCounts`, `LoopFindsNode`, `BoundedUnlessStale`; `ImplementsKeyStore`. The
  strengthening numbers the nodes by the calls so far and bounds the rounds of the
  clean-up loop by the nodes over the limit (`Numbered`, `RoundsLeft`,
  `BoundedInLoop`); a first node that is stale stays first (`FirstStays`).
* `EventsProofs`, events and copies: `EventsIInv`, with it all five invariants of
  `Events`, for any structures the JSON may describe and any number of objects and
  copies. TLC checked `EventsIInv` on the instance of `MCEvents` before it was proved.
  * Memory (`SharedOnlyIcons`, `DanglingOnlyIcons`, `KnownLeaks`). `AllFormed` says
    which block each pointer of an object leads to: one that bears the number of the
    object and the place it was made for; only the icon of a channel bears another
    one. `OnlyTaken` says that nothing bears a number that is not taken yet, so a new
    object or copy meets no older block. `Reached` and `LostCounted` say what of the
    memory no structure leads to, and why. The lemmas say of each kind of structure
    that a copy is formed as the original is, and that destroying an object frees
    its own blocks but those that are left behind, and no block of another object.
  * Old objects (`OldIsPrevious`): the map holds the newest of all nodes of an id,
    freed ones included (`NewestOfAll`), all that events cached is in the cache or
    freed (`ServedKnown`), and so what `event_handle` looked up is no older than
    what an event cached (`GotNewest`).
  * Lists (`ListIntact`): while nothing else uses the cache, the messages of a list
    are the last nodes of the queue (`ListAtTail`), and the clean-up loop takes the
    first ones.
* `CacheCallsProofs`: `IInv`, with it `OnlyMixedMisplaces` and `SafeApart`, for any
  number of threads, caches and ids. The strengthening says what a call holds at each
  step (`CallStates`, `InHand`), that a function that was never in use for two caches
  works on the cache it was called for (`KeepsSelected`), that a cache that was never
  in use by two threads has one caller (`Alone`), and in which state such a caller
  finds and leaves its cache (`ApartStates`): there is a sequence of nodes that the
  pointers of the cache link (`Links`), which has the nodes that are mapped but for
  the one in the caller's hand (`InOrder`, `CacheOf`). The lemmas say that `TAILQ_REMOVE`
  on such pointers leaves the sequence without the node (`RemoveLinks`), and
  `TAILQ_INSERT_TAIL` the sequence with the node at its end (`TailLinks`).
* `CommandsProofs`: `IInv`, with it `OnlyEditsLeak`, `CalledAsOften`,
  `BorrowedOnlyByGet`, `CrashesExplained` and `RequiredFirst`. The strengthening says how far a
  call and its request are (`CallStates`), which blocks are left on each way
  (`BlockStates`), who has a message as long as none was found in the cache
  (`Apart`, `Made`), and which command a JSON is of (`BodyFollows`).
  `RequiredFirst` needs more than that: `Place` is the value of `cur` at which the two
  loops of `command.c:98` and `command.c:160` put an option, a sum of cardinalities,
  and the lemmas show that it keeps the order (`PlaceOrders`) and is a bijection of
  the places (`PlaceIsBijective`), so no option is lost or overwritten.
* `RequestProofs`: `IInv`, with it `OneOwner`, `CalledAtTheEnd`, `FaultsExplained`.
  The strengthening relates the steps of a worker to the node it holds
  (`WorkerStates`), says that a request that was never retried is in one
  worker's hands (`AloneUntilTried`), and what freed or missing file names imply
  (`RequestStates`).
* `GatewayProofs`: `IInv`, with it `HeartbeatTracked`, `HeartbeatStops`,
  `FaultsExplained`, `SeqIsLastHandled`, `ContentOfOneConnection`; the action
  property `GivesUpBeforeLogin`. The strengthening says
  why `websocket_close` was called and that it stopped the heartbeat
  (`ReasonToClose`), that only a client without a connection is inactive
  (`ActiveWhileLinked`), that HELLO comes first (`HelloComesFirst`), and that a
  session that is served lives and was logged in to (`ServedSessionLives`).

Several parts of these invariants are results of their own: a job is in one place
(`OnePlace`), the pool is freed after the last thread left (`FreedAfterExit`), a
node is linked once (`LinkedOnce`), the clean-up loop finds its node
(`LoopFindsNode`), a message is put together from one connection
(`ContentOfOneConnection`).

Assumptions that came with these proofs, all of them of the program's inputs: the
pointers that JSON may set in a structure are closed under the way to them
(`PartsAssumption` of `Events`), an option of a command is one of the command's
options and given once at its level (`CommandsAssumption`), files and names are
sequences of characters (`FilesAssumption` of `EnvParse`), a name that is asked for
has at least one character and neither a newline nor a `=` (`NamesAssumption`), and
these two differ (`NewlineAssumption`).

The inductive invariants of `ThreadPool`, `Cache`, `Gateway` and `Request` are in the
models, where the runs check them too; those of `PrioQueue`, `EnvParse`, `Events`,
`CacheCalls` and `Commands` are at the beginning of the modules that prove them.

With this, every invariant and every action property that a run checks and that
holds is a theorem. Model-checked only: the liveness properties `DestroyReturns`,
`QueuedWorkStarts`, `RequestEnds`, `ExitEnds` and `HeartbeatsGoOut`, for temporal
proofs under fairness (`ENABLED`) are out of the prover's reach; and of course the
three properties that the code violates.

## Not modelled, and the plan

What is left: `Events` over `CacheCalls` instead of `Cache`, which object is freed
while it is copied. `CacheCalls` alone has six million states on its small
instance, so this waits for a smaller abstraction of the overlapping calls.

Left out for good: JSON and URL text and logging, which no property is about; the
examples, whose callbacks are the user actions of `Events` and `Commands`; headers
and MIME parts of a request and the latency figure of the heartbeat, which nothing
reads back; embeds, attachments, emojis, guilds and the other structures, whose
conversions are sequential and keep no state (a message made from JSON never has
embeds, only the user makes them); the type of an option, `tts` and components,
which no command sends.
