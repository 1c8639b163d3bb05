# pronto in TLA+

pronto is a small job scheduler. A C server (`src/srv`) accepts jobs over HTTP. A job is
nothing but a number of resource units. The server picks a cluster worker with that many
free units and POSTs the job to the worker's machine. A Rust client (`src/client`) runs
the job there and reports its end to the server, which gives the units back. This
directory models the server, from the accept loop to the POST, and the parsers it is
built with. The models are checked with TLC. All safety properties of the scheduler, its
queues and locks, the accept loop and the handlers are proved with TLAPS as well.

Paths are short: `lib/` is `src/srv/lib/`.

## 1. The system

| part | source | state | operations |
|---|---|---|---|
| bookkeeping and intake | `lib/pronto.c` | `current_capacity`, per worker `current_resources`, `scheduled_jobs`; `job_queue`, `waiting_queue`; semaphores `notify`, `reschedule` | `pronto_is_schedulable`, `pronto_best_current_fit`, `pronto_reserve_capacity`, `pronto_free_capacity`, `pronto_add_job`, `pronto_add_waiting_job` |
| scheduler threads | `lib/scheduler_worker.c` | program counter, node, best fit | wait, dequeue, search, then park the job or reserve, queue and notify |
| rescheduler thread | `lib/rescheduler.c` | the same, and `waiting_queue_mutex` for a whole pass | wait, then place the head of the waiting queue until it is empty or its head fits nowhere |
| dispatcher threads, one per worker | `lib/cluster_worker.c` | `scheduler_jobs`, semaphore `notify`, node | wait, dequeue, POST the job |
| priority queue | `lib/prio_queue.c` | `head`, `tail`, `size`, `next` | enqueue by request, dequeue the head |
| HTTP callbacks | `lib/handler.c` (`schedule`, `job_done`) | none of their own | accept or refuse a job; free units |
| worker client | `client/src/main.rs` | its running jobs | run a job, POST `/done` |
| HTTP connections | `lib/handler.c` (the rest) | epoll set, read buffer, response being streamed | read, parse, route, answer, close |
| accept loop | `lib/server.c` | `selector`, descriptors | accept, deal connections to the handlers in turn |
| start-up and mutexes | `main.c`, `pronto_init`, `server_init` | what is initialised, who holds what | create, start, lock, unlock |
| requests and responses | `lib/http_request.c`, `lib/http_response.c`, `lib/utils.c` | headers, body | build, stringify, look up |
| HTTP parser | `lib/picohttpparser.c` | the chunked decoder | parse a head again as it grows, decode a body in pieces |
| JSON library | `lib/c_json.c` | items with `child`, `next`, `prev` | parse, print, minify; add, detach, insert, replace, delete, copy, compare |
| connection context | `lib/connection_context.c` | a growing buffer | unused |

How they interact. The accept loop deals a connection to a handler thread, which reads
the request, parses head and JSON body, and calls `schedule` or `job_done`. `schedule`
enqueues a job and posts `notify`. A scheduler takes it and either hands it to a worker's
queue and posts that worker's semaphore, or parks it in the waiting queue. The dispatcher
POSTs it to the machine. Its `/done` comes back to any handler, where `job_done` frees the
units and posts `reschedule`, which starts a pass of the rescheduler over the waiting
queue. The threads share memory under four kinds of mutex: `queue_mutex`,
`waiting_queue_mutex`, `bookkeeper` and the `worker_mutex`es. Handlers and accept loop
share the descriptors of the process.

What is hard about it:

- *check, then act*: the search for a worker and the reservation are two critical sections;
- *tokens*: every queue has a semaphore beside it, changed outside the queue's lock;
- *a pass and a parking*: the rescheduler reads the head, searches, and then dequeues, and
  a job may be parked just after the last pass;
- *integers*: `int`, `unsigned int` and `unsigned long` meet in comparisons, and the free
  units of a worker are unsigned;
- *loss*: neither the POST of a job nor that of its completion is ever repeated;
- *linked lists*: three ways to link a node in, with `tail` and `size` kept by hand; in
  the JSON library a `prev` that goes round;
- *edges*: epoll reports an edge once, requests come in pieces and responses go out in
  pieces, and one stack buffer serves every connection of a thread;
- *descriptors*: reused by one thread while another still deals with the old owner;
- *pieces*: the parsers are called again with more bytes, cut wherever the network likes;
- *rooms*: the JSON library and the responses allocate by a count made beforehand.

`PROJECT.json` lists the hazards with their lines and the properties that watch them.

## 2. Modules

| module | what it is |
|---|---|
| `PrioQueue` | the queue of `prio_queue.c` as a sequence, and its two operations |
| `AtomicQueue` | abstract: threads that enqueue and dequeue in single steps |
| `PrioList` | the linked list with its pointers under a mutex, one step per turn of the walk; implements `AtomicQueue` |
| `Pronto` | the core: callbacks, schedulers, rescheduler, dispatchers, bookkeeping, clients |
| `JobLifecycle` | abstract: the life of a job, whatever the threads do |
| `ProntoProperties` | what `Pronto` is meant to satisfy, and the mapping to `JobLifecycle` |
| `Locks` | the same threads as their synchronisation sees them, from the start of `main` on |
| `Handler`, `HandlerProperties` | one handler thread and its connections |
| `Server` | the accept loop, the handlers' interest lists and the descriptors |
| `PicoHttpParser`, `ChunkedDecoder`, `HttpResponse` | the texts of HTTP |
| `HttpExchange` | one exchange: the three before, one after the other |
| `JsonForest` | abstract: JSON values as sequences of items with owners |
| `JsonTree` | the items with their pointers and every operation on them; implements `JsonForest` |
| `JsonCompare` | the comparison of two values, and the copy of one |
| `JsonParse`, `JsonPrint` | the parser, and the printers and the minifier with the sizes they allocate |
| `JsonText` | what a caller does with a text, and the grammar it is held against |
| `MC*` | instances for TLC |
| `PrioQueueProofs` | lemmas on the sorted insertion |
| `PrioListProofs` | the list keeps its shape; `PrioList` implements `AtomicQueue` |
| `ProntoProofs` | types of `Pronto`, its semaphores, order, passes and admission; no job is lost or copied; `Pronto` implements `JobLifecycle`; the books balance, over-reservation is bounded, the least busy worker is picked |
| `LocksProofs`, `ServerProofs`, `HandlerProofs` | the safety properties of these modules |
| `HttpProofs` | cutting a head or a body into calls changes nothing; a response is what its caller asked for |
| `JsonTreeProofs` | the lists stay sound, nothing is lost or owned twice; `JsonTree` implements `JsonForest` |

### The scheduler: `Pronto`, `PrioQueue`, `PrioList`

**Steps.** A step of `Pronto` is the code between two points where another thread can take
over. `queue_mutex`, `bookkeeper` and a `worker_mutex` are held for one critical section
without a blocking call, so such a section is one action. `waiting_queue_mutex` is held by
the rescheduler across a whole pass with the other locks taken inside: it is a variable.
A scheduler thread goes through `wait`, `dequeue`, `fit`, then `park`, or `reserve`, `add`
and `post`. The answer of the search is kept in `sched[s].fit` and used later, when it may
be stale. The rescheduler has a pc of its own: its `check` leaves the head in the queue
and `reserve` dequeues whatever is the head then. `rescheduler.c:35-37` dequeues and
reserves in two statements, but nobody else can touch the waiting queue in between, so
they are one step. That these steps are atomic is what `Locks` shows.

**Jobs.** In C a job is copied at every hand-over and carries only its request. In the
model a job is an identity with `Request[j]`, so that "lost" and "duplicated" mean
something. `Request[j]` is the 32-bit word of the quantity, hence the enumeration of a
negative one.

**Integers.** `UINT_MOD` and `ULONG_MOD` stand for 2^32 and 2^64. `UInt`, `ULong` and
`SInt` are the conversions C makes where the code compares or assigns.

**Failures.** `PostMayFail` covers curl and cJSON errors in `_cluster_loop`,
`DoneMayFail` a `/done` that does not arrive. Both put the job in `lost[w]`: its units are
reserved and nobody will free them. A semaphore wait that is interrupted is not modelled:
the process installs no signal handlers.

**Completions.** `job_done` takes the worker index and the quantity from the body. The
client returns the two values it was given (`main.rs:45-47`), and this is the client that
the model has. Other users of `/done` are not modelled.

**PrioList.** Threads allocate a node, take the mutex, walk, link it in and add one to
`size`. `Reached` follows `next` for as many turns as there are nodes, so that a cycle
would show as a chain longer than `size`. The map `queue <- Chain` is what the other
modules call the queue.

### Mutexes and start-up: `Locks`

Every lock and unlock is a step here, and jobs are only counted: whether one fits, and
where, is open. `main` creates what `pronto_init` and `server_init` create, in their order,
and threads run from the moment they are created. A dispatcher's POST may never return.
`MaxJobs` bounds the requests to `/schedule`.

### Connections: `Handler` and `Server`

`Handler` is one thread of `handler.c`. A byte is a piece, numbered along the stream of its
connection. `req` is what a client sends; `arrived` and `taken` say how far it got and
was read; `edge` is the edge-triggered report; `batch` the events of one `epoll_wait`. `buf`
is `request_buffer`, with room for `MaxRequest` pieces, and keeps what earlier requests left in
it, since lines 285-287 copy from it as many bytes as Content-Length says. A `read()` that
passes its end (the size asked for is always that of the whole buffer) writes to the stack
behind it: the process may end, or goes on without these bytes in the buffer. A Content-Length
may be missing, zero, or more than there is; one that is negative or larger than the stack is
left out. Memory that was never written may hold anything, a zero at which `strncpy` stops
included. The pc goes from `wait` to `next`, and through
`read` for every `read()` of one event. The retries on EAGAIN, with `errno` as it was left
before, the skipped requests (`Skip`), routing, the switch to EPOLLOUT (which may fail,
`mod`), partial sends and the error branch are actions. `jsonBody` is the variable of line 98, which
outlives the event: whose body it was parsed from, `bad` if it was no JSON, `unset` in a fresh
thread, which has a wild pointer there. A request that is answered without having been
parsed (`AnswerUnparsed`, after the last empty read) is routed by what the stack holds of an
earlier request, and its callback works on the earlier `json_body`; the second free of the old
method may also end the process (`crashed`). `max_events` is above the number of connections.

`Server` is `server.c` and as much of the handlers as shares descriptors with it. The kernel
gives out the lowest free number. A handler closes in two steps (`EPOLL_CTL_DEL`, `close`),
between which others run. `accept` fails when descriptors are exhausted, and that ends the
process. `epoll_ctl(ADD)` does not fail. A skipped request stays open for ever.

### HTTP texts: `HttpExchange`

`PicoHttpParser` has the three entry points of the parser. A byte is its class (CR, LF, space,
tab, colon, digit, token, visible, control), and `HTTP/1.` is one symbol of seven bytes.
`ChunkedDecoder` keeps the five fields of the C struct between calls. `HttpResponse` executes
the string calls of `http_response_create` on blocks of the allocated sizes. `strncat` at line
56 searches a terminator in memory nobody wrote: which byte of it is zero is open. If what it
writes reaches behind the block, other memory is overwritten and the model ends (`overflow`):
what is checked and proved of responses is about the other cases. `HttpExchange` puts the three
in the order in which they occur. In an instance one of head, body and reply varies, a body is
followed only behind a head that came in one piece, and a reply only behind both: the parts do
not share state, so mixing their cuts would multiply states and add nothing.

### JSON: `JsonTree` and `JsonText`

`JsonTree` has items at addresses with `child`, `next`, `prev`, names and references, and one
action for every public operation that links, unlinks, creates, copies or deletes items, called
the way `c_json.h` asks for: on live items, with an added item that is in no list and not above
its new parent, and not on a list that a reference shares (`Untouched`, `Deletable`): what
`cJSON_Delete` would free there is somebody else's. The recursion of `cJSON_Delete` is the least
set closed under its calls (`Reach`), that of `cJSON_Duplicate` the set of its calls (`Calls`),
each a path of items: the children of a reference are copied once for every reference to them.
`JsonForest` is what it is for: sequences of items and one owner each.

`JsonCompare` puts two values together with the operations of `JsonTree`, compares them with
`cJSON_Compare` and copies one. `Meaning` is what an item stands for: the elements of an array in
order, the members of an object as a set. Addresses are paths here, so that values of many
items need no choice of memory.

`JsonText` and `JsonCompare` share no state; `MCJson` has them side by side, so that a
behaviour is about a text or about two values.

`JsonText` parses a text, prints the value formatted or not, buffered or into a caller's room, or
minifies it, and parses the outcome. `Denotes` is an independent grammar: that of JSON, or the
loose one with the liberties the parser takes, each named at its place there (control bytes as
blanks and in strings, a byte order mark, leading zeros, and `\u` whose digits are none).
What is promised is the meaning of each text of JSON that is `Supported`: no more lists in each
other than the limit, no number of more characters than `parse_number` copies, no character 0 in a
string. A text is a sequence of codes; the three words and the four hex digits behind `\u` are
symbols. Numbers are integers. Allocations succeed. Raw items, hooks and type tests are left out.

**Seeded defects.** Definitions marked so are variants of a definition with a plausible bug,
one for every checked property. They are in no next-state relation. Each was put in place
of the definition it varies, and TLC then reported a violation.

## 3. Runs

| run | instance | checks |
|---|---|---|
| `list` | 3 threads, 4 nodes with requests 1, 2, 2, 3 | `ListShape`, `ImplementsAtomicQueue` |
| `failures` | 2 schedulers, 1 handler, 2 workers of 2 units, requests -1, 1, 1, 2, 2, all failures, symmetry of the threads and of jobs with one request | `TypeOK`, `TokensMatchJobs`, `JobInOnePlace`, `Bookkeeping`, `AcceptedFits`, `PickIsLeastBusy`, `PassIsComplete`, `ImplementsLifecycle` |
| `progress` | 1 scheduler, 1 handler, 1 worker of 3 units, requests 2, 2, 1, 1, fairness | `OvercommitBounded`, `HeadIsStable`, `PassIsComplete`, `JobIsDecided`, `PlacedIsFreed`, `WaitingIsServed` |
| `connections` | 1 handler, 2 connections: one sends each of 11 kinds of request and may finish, be reset or fail to be switched; the other is good and short; fairness | `TypeOK`, `OwnBodyIfRead`, `BatchIsCurrent`, `WholeResponse`, `AnsweredOnce`, `ServedDespiteOthers` |
| `dealing` | 4 connections, 2 handlers, 3 descriptors, a backlog of 2, fairness | `NobodyIsDropped`, `NobodyWaitsForEver` |
| `locks` | 1 scheduler, the rescheduler, 2 handlers, 2 dispatchers, 3 requests, fairness | `NoCircularWait`, `NoRace`, `ReadyWhenUsed`, `LockIsGranted` |
| `json_items` | 4 addresses, objects, arrays and leaves, 2 names that differ in case, symmetry of the addresses | `ListsAreSound`, `OwnedAndHeld`, `LookupsAgree`, `ImplementsForest` |
| `json_meaning` | all texts of up to 5 of 11 bytes, and documents, with nesting to 3 and beyond; every two of 88 leaves, arrays and objects of up to three members, two kinds of leaf, 3 names of which two differ in case; every two of 48 lists of two lists | `ValueIsDenoted`, `MinifyKeepsMeaning`, `WritesFit`, `CompareIsEquality`, `DuplicateIsEqual` |
| `http_texts` | good heads and heads with one fault, of three kinds; bodies of up to two chunks, and faulty ones; replies around the sizes where a digit is added | `AcceptsTheGrammar`, `DecodesTheChunks`, `ResponseIsAsAsked` |

Three more runs each refute one sentence of the repository:

| run | sentence | what TLC finds |
|---|---|---|
| `stranded` | "will try to re-schedule jobs that are placed in the waiting queue" (`rescheduler.c:14`) | a job is parked after the last completion was acted upon |
| `hidden_room` | -1 means "that there's no worker able to schedule this particular job" (`pronto.c:95-97`) | a scheduler and the rescheduler reserve the same units; the worker then counts below zero in the sum of line 104, which hides the room of the other one |
| `stale_body` | "we now have the full request inside the request_buffer" (`handler.c:268`) | the body decoded is that of an earlier request, since the read loop ends with the head; a request of which nothing was parsed after the last empty read (`handler.c:187`) breaks the sentence and the property as well |

**Why the bounds are enough.**

- *Scheduler.* An over-reservation needs two threads that search before either reserves.
  The program as configured has one scheduler and the rescheduler (`config.h:12`);
  `failures` has one more. Two workers are what `config.h:10` configures, and are enough for
  a wrong choice between workers. In `progress` the bound of `OvercommitBounded` is
  attained: 5 units on a worker of 3. Four jobs of mixed sizes give a waiting queue that
  has smaller and equal jobs while units come back. Words are 32 and 64 values wide, more
  than twice the largest sum of an instance, so a wrapped counter stays as far from a real
  one as it does in the program. In `failures` a pass ends with a job that fits nowhere, and two workers
  are the least of which one could hide the room of the other; the condition of
  `PassIsComplete`, that nobody is over-reserved when the pass ends, is what `hidden_room` shows
  to be needed. That the waiting queue is sorted matters where a smaller job waits with a larger
  one while some units are free: in `progress`. Of
  refused jobs the instance has a negative one; that larger ones are refused is `AcceptedJobsFit`.
- *List.* Four nodes reach every branch of the insertion, and three threads a waiter behind a
  holder of the mutex.
- *Connections.* Two connections are the least for a buffer that somebody else filled and for
  a batch with a broken neighbour. A read asks for 3 pieces, `request_buffer` has 4, and a
  request has up to 3, so that good and half-read requests occur, and one whose head has 5 pieces,
  which is too long. A Content-Length says 0, 2 or 3 where the body has 1 piece. Responses have 2 pieces, so that sends are
  partial. 2 empty reads stand for the 5 of `handler.c:187`.
- *Dealing.* More connections than descriptors, so that each number is reused while another
  handler closes, and accept runs out of them.
- *Locks.* One thread more than can hold one mutex at each place; 3 requests keep the
  rescheduler in a pass while a scheduler parks.
- *JSON.* Four items make a list with a first, an inner and a last child, and two
  lists to move between. The constraint `FewOthers` leaves out states with four items in
  which an array, a reference or the second name occurs: these occur with three. Five
  bytes close a list around one item, or an object with an empty name; the
  documents have what five bytes can not: every escape, the borders of UTF-8 and UTF-16,
  lists in lists down to the limit and one further, which are refused, numbers of as many
  characters as are copied and one more, each liberty of the loose grammar, comments. Three
  members of an object are found by name in any order, and two names that differ only in
  case are one name to one of the comparisons and two to the other.
- *HTTP.* Every part of a head is wrong once, and the network cuts every head and body
  everywhere. Two digits of a size, where a `size_t` has 16, let one be too long.

Symmetry is used in `failures`, over the threads of one kind and the jobs with one request, and in `json_items`, over the
addresses; neither has liveness properties. Deadlock is checked in `list` and `json_items`.
Elsewhere the system may stop: with finitely many jobs all threads end asleep on their semaphores, clients need not send
anything, the process may exit or crash, and a text comes to an end.

**Fairness.** Weak fairness, but for the strong one of `Write` in `connections`.

- `progress`: every thread of the process keeps running (schedulers, rescheduler,
  dispatchers and the second half of a callback), mutexes included, because every critical
  section is finite. A POST returns, a job on a machine ends and its completion reaches a
  handler. Nobody is obliged to send a job. A client that loses completions, or a POST
  without an answer (there is no timeout at `cluster_worker.c:90`), breaks `PlacedIsFreed`:
  these are the assumptions under which it holds.
- `connections`: the handler thread keeps running and clients read their responses. A send may
  find no room each time (`WriteFails` is enabled beside `Write`), so that a client that reads
  is a `Write` that is taken if it is possible again and again: strong fairness. Clients
  are free to send or not; `ServedDespiteOthers` begins when a request lies in the socket.
- `dealing`: the accept loop and the handlers keep running. A request is finished or skipped.
- `locks`: every thread but a dispatcher in its POST. Only finitely many requests are sent,
  so that a mutex can not be passed by for ever and weak fairness suffices: a real mutex is
  not fair under an unbounded stream.

What `WaitingIsServed` says is limited on purpose: a job that waits while some unit is
reserved, or while a completion is still to be acted upon, leaves the waiting queue. The
stronger claim, that no job waits for ever, is false: see `stranded`. With an unbounded
stream of small jobs a large one may starve (the queues are sorted, and the newest of
equals goes first). The instances have finitely many jobs and do not show that.

## 4. Proofs

The theorems hold for every value of the constants that meets the assumption of its module.
Those about `Pronto` assume `ProntoAssumption` and `RequestAssumption`: finite sets of threads,
words wide enough for twice the capacity of the cluster, requests that are words. Those on the books,
over-reservation and the search also assume `WordsAssumption`: `int` is half of `unsigned int`,
`unsigned long` is a multiple of it, and what the schedulers could together reserve of one
worker is an `int`. Those about the list assume `PrioListAssumption` (finitely many nodes; NULL
is neither node nor thread). Those
about `Locks` assume `LocksAssumption` (finite sets of threads that are told apart), those
about `Server` `ServerAssumption` (at least one handler; descriptors are naturals), those
about `Handler` `HandlerAssumption` (sizes are positive, a JSON body is not empty), those
about `JsonTree` `JsonTreeAssumption` (finitely many addresses, NULL is no address and no
name; "free" is no kind; `Lower` maps names to names). Those about `HttpExchange` assume
that lengths are naturals (`RepliesAssumption`) and that one call, given all of a body,
decodes it as it was put together (`BodiesAssumption`, which TLC evaluates on the bodies of
the instance): what is proved is that the cuts make no difference. `HeadsAssumption` says the
same of heads: one call accepts exactly the good ones, up to their last byte and with their
fields. It leaves out two kinds, for which the cuts do matter. A block of headers that is empty is
accepted in one piece and never in two (section 5). In a head that is not complete, a
CR that ends no line is refused by `is_complete` in the second call, where one call may stop
before it and wait.

- `TypeCorrect`. `TypeOK` is not inductive: a thread must have a job and a worker where it
  uses them (`ThreadsHoldJobs`), and the head that the rescheduler is about to take must
  exist. That the queue does not become empty meanwhile needs `PassHoldsMutex`:
  `waiting_mutex` is the rescheduler's from the lock to the end of a pass. Together they
  are `TypeInv`.
- `HeadStable`: with `PassHoldsMutex` no scheduler parks between check and dequeue.
- `AlwaysSorted`: all queues stay sorted (`EnqueueKeepsSorted`, `DequeueKeepsSorted`, which
  rest on what `InsertAt` does to a sequence).
- `PassComplete`: if no worker is over-reserved when a pass ends, the counters are the free
  units (`FreeUnitsAreExact`), and so the sum over the cluster is at least what any one worker has
  free (`SumHidesNobody`: the others hold at most what they have, `OthersHoldAtMost`, counted
  by numbering their units, `Numbering`). So a search that fails left no worker with room for the
  head, and since the queue is sorted the head speaks for the rest.
- `TokensMatch`: tokens, threads between `sem_wait` and dequeue, and threads between
  enqueue and `sem_post` add up to the length of the queue. It is inductive on top of
  `TypeInv`. `SchedulersFindJobs` and `WorkersFindJobs` follow by counting: nobody who got
  a token finds an empty queue, which the code does not test for at `cluster_worker.c:65`.
- `AcceptedJobsFit`: the conversion of a negative int to unsigned long is what refuses it
  (`SchedulableFits`), for all widths with `UINT_MOD <= ULONG_MOD`.
- `BooksBalance`. The units reserved of a worker are counted as pairs of a job and one of its
  units (`ReservedUnits`), a set whose size changes by `Request[j]` when `j` enters or
  leaves: no sum over jobs has to be reasoned about. Each step reserves for one job, frees
  one, or moves a job between two places that both count. Beside the four counters of
  `Bookkeeping` the invariant needs that only finitely much is reserved
  (`FinitelyReserved`) and from `JobInv` that a job is in one place.
- `Overcommit`. The bound, the capacity of a worker and one job more for every scheduler, is
  not inductive: a thread that has found room will reserve although the room has gone.
  `CapacityInv` counts these claims with the load (`ClaimsBounded`). A search that succeeds
  found room for its claim, and all other threads that reserve, as many as there are
  schedulers, have at most one claim each (`ClaimsFit`). A reservation turns a claim into
  load. That the search sees the room there is, although the counter of an
  over-reserved worker has wrapped, is where `WordsAssumption` is needed.
- `PicksLeastBusy`: a search that succeeds returns a worker that has, in true units, room for
  the job, and no other has more; it also rests on `CapacityInv`, without which a
  wrapped counter could look free.
- `ListInvariant`, `Shape`, `ListImplementsQueue`. `ListInv` says that some sequence of
  nodes, each once, is linked from `head` to NULL (`Links`), that the mutex is held from the
  start of an insertion to its end and that `size` lags by the node that is not yet
  counted (`Counted`), that nodes in the hands of a thread are in the hands of no other
  and not in the list (`HandsApart`), that a walk has passed smaller jobs only (`Walks`), and
  that `tail` is the last node (`EndsAtTail`). Whatever sequence is linked, following `next`
  gives that one (`LinksAreChain`). The place where a walk stops is the one where
  `prio_queue_enqueue` inserts (`EnqueueAt`), so linking in is the enqueue of `AtomicQueue` and
  all other turns of the walk are stutters.
- `LocksType`, `LocksNoCircularWait`, `LocksNoRace`, `LocksReadyWhenUsed`. The invariant
  `IInv` says that the owner of a mutex is the thread that is at a place where it is held
  (`Owners`, over `Holds`), and where each kind of thread can be (`Placed`). A thread that
  waits for a mutex then holds nothing, unless it is the rescheduler, and the holder of
  what the rescheduler waits for waits for nothing: no circle. Two threads that touch
  the same thing hold the same mutex, hence are one (`TouchedIsHeld`). `Boot` adds that
  nobody but the threads `main` started is anywhere (`Quiet`) and that what they use was set
  up before (`SetUp`).

- `JobsInOnePlace`. A job has places: a queue, the hands of a thread, a machine, lost, done.
  `JobInv` says that no queue holds a job twice (`QueuesHoldOnce`), that a thread holds a job
  only where it may (`HandsAreEmpty`), that the places do not overlap (`PlacesAreDisjoint`)
  and that what is in one was accepted (`HeldIfAccepted`): without the last, a new job could
  already be somewhere. Each step takes a job from one place and puts it in another
  (`Moves`). That there is a head when the rescheduler takes it comes from `TypeInv`.
- `LifecycleImplemented`: the stage that the mapping gives a job is determined by its place
  (`StagesHold`), so a move between two places is a step of `JobLifecycle` for that job, and
  every other step of a thread is a stutter. This is a refinement of safety; nothing is
  claimed about fairness.
- `NotDropped`. `ServerInv` needs four parts: a connection is in the backlog, with the accept
  loop or dealt to one handler (`OnItsWay`); no two share a descriptor (`Descriptors`); an
  interest list has the connections of its handler under their own descriptors, and not the one that
  is about to be closed (`Watched`). `EPOLL_CTL_DEL` comes before `close`, so the number it
  removes is still that of its own connection: this is where the order of `handler.c:362-365`
  is used. That the lowest free number is a free one rests on `LeastDescriptor`.
- `DealsInTurn` (no run checks it): handlers before the selector are one connection ahead of the rest (`InTurn`), and
  a connection is dealt once, so a deal adds one.
- `HandlerTypes`, `NoStaleEvent`, `ResponsesAreWhole`, `AnsweredFromOwnBody`, `OneAnswer` from
  `HandlerInv`. A batch has one event per descriptor, and not of the one being read
  (`Events`), so what one event closes is not named by another. A descriptor with a
  response is written to and never read (`Answers`), so nobody is answered twice. While a
  head that was read from its start is incomplete, the buffer begins with its pieces in order
  (`Buffered`); a read after an EAGAIN breaks this, and the loop then never parses again. If
  all of the request was taken from the socket when its head is complete, all of it is
  in the buffer, and no other request has the same pieces (`DecodesOwnBody`). What is proved
  of the body is about a request that was parsed and has an honest Content-Length; of one that was
  not parsed it is false (`stale_body`). The read loop
  is reduced to three outcomes first (`ReadTurns`).
- `AlwaysTree`, `Soundness`, `Ownership`, `Lookups`. `TreeInv` says that the sequences `Kids`
  returns are linked forwards from `child` and backwards all around (`Linked`), that no item
  occurs twice in them (`Disjoint`), that an item in use is in one of them or in the hands
  of the caller, where its `next` is NULL (`Placed`), and that a reference leads to a first item or
  nowhere (`Referring`). It is stated of any sequences first: those that fit the pointers are
  what following `next` gives. Each operation is then reduced to what it does to one
  sequence (`Relisted` for adding, detaching, inserting and replacing), to the removal of all
  that a deletion reaches, or to a new part with sequences of its own (`Grafted`, for
  arrays and copies). That the pieces of a copy fit together rests on the calls being closed
  under children. The memory between two calls of one operation (detached, not yet deleted) is
  a tree as well.
- `NoLeak`, and with `Ownership` `Possession`. `HeldInv` says the same as `NothingLost` of
  sequences, with owners in the place of pointers. An added item was a root that its new
  parent is not below (`Addable`), so the root above the parent stays one and is now above
  both. This is where the duty of the caller not to make a list its own descendant is
  used.
- `Refinement`. Following pointers and following sequences reach the same items
  (`ReachIsBelow`), so that what `cJSON_Delete` frees is what `JsonForest` frees. Kinds and names
  do not change where only pointers are written (`Keeps`). Every action maps to one of
  `JsonForest` or to a stutter.

- `DecoderCorrect`. A decoder that takes one byte at a time (`Taken`) has a state for every
  number of bytes (`Follow`), and `DecoderInv` says that the calls so far have come to the state
  for the bytes given so far. A turn of the switch takes several bytes at once, so each state of
  the decoder has a lemma (`SizeFollows`, `ExtFollows`, `DataFollows`, `CrlfFollows`,
  `HeadFollows`, `MiddleFollows`) that its turn ends where its bytes lead one by one. Every
  second turn takes a byte or ends the call (`Left`), so that a call of `2 * Len(buf) + 1` turns
  has looked at all of its bytes (`CallFollows`). One call given the whole body comes to the
  last state as well, and by assumption that is the body. That a size
  fits and nothing is left over is an invariant of the bytes (`TakenIsGood`).
- `ResponseCorrect`. From the last copy on, `headers` holds the given headers and then only
  terminators (`ResponseInv`), whatever it held before. Each `strncat` to a text that is followed by
  terminators gives such a text again while there is room for one more (`AllFit`): the room
  reserved for headers that are gone is what makes this true of the last one.
- `GrammarCorrect`. Each parser of the head is compared with itself on a buffer that is cut
  (`Cut`): it returns the same, or it waits for more and would, on the whole, have come to a
  place behind the cut (`Alike`, from the search for a byte up to `RequestLineChain` and the
  headers). On the way it passes no CR that ends no line (`Moves`), and where it
  accepts, the last line is blank (`Leaves`). A later call looks for a blank line from three
  bytes before the old end first. The blank line at which the parser accepts ends in the new
  bytes, or the call before would have accepted; so it is found from there (`BlankIsFound`), and
  with no stray CR before it. `HeadInv` is then inductive: the calls so far wait, and the
  head that the whole parse accepts is not yet there, or the last one returned
  what the whole parse returns.

Model-checked only: the JSON texts, whose parser and printer are recursive; the comparison and
the copy of JSON values, which are too; and all liveness properties.

## 5. Disagreements met on the way

Three are runs (section 3). The others were seen while modelling; the models behave as the code
does.

| where | what |
|---|---|
| `pronto.c:84`, `handler.c:76` | with one worker, a job of exactly its size is refused as "too big for the cluster" |
| `cluster_worker.c:94`, `cluster_worker.h:13` | a POST that fails keeps its units, so that "the current AVAILABLE resources" are not what is available |
| `pronto.c:182`, comment 174-175 | the counters are read without the lock where they are printed (`handler.c:51`, `scheduler_worker.c:54`, `cluster_worker.c:101`); `NoRace` leaves these reads out |
| `pronto.c:122` | "the capacity cannot be < 0": a scheduler and the rescheduler that both searched before either reserved take the same units (in the trace of `hidden_room`; `OvercommitBounded` says how far it goes) |
| `handler.c:187`, 302 | "THE PARSING OF THE REQUEST IS COMPLETE": after five empty reads a request with half a head is answered, from the body of an earlier one |
| `handler.c:260`, 102 | whatever sets `is_bad_request` goes on with the next event: nobody is sent a bad-request answer, and the connection stays open |
| `handler.c:353`, 346 | every send is passed the length of the whole response: after a partial send the bytes behind the response go out too |
| `handler.c:382`, 379 | the error branch closes `data.fd`, which is a part of a pointer once the response is being streamed |
| `server.c:148`, 137 | running out of descriptors, to skipped requests for instance, ends the process |
| `http_response.c:56`, 60 | the default headers and the length are overwritten by the given ones |
| `picohttpparser.c:283`, `picohttpparser.h:49` | the version is waited for until nine bytes are there, whatever they are: a complete head that ends sooner is "partial" |
| `picohttpparser.c:510`, `picohttpparser.h:58` | an empty block of headers in two pieces is never complete |
| `c_json.c:2830`, `h/c_json.h:257` | "remove blank characters": the second backslash of a string that ends in an escaped one hides the closing quote from the minifier; blanks of the next string are removed, and comments left in. `MinifyKeepsMeaning` excludes such strings |
| `c_json.c:637`, 671 | "check that the code is valid": four characters behind `\u` that are no digits are taken for the code 0, which ends the string. One of the liberties of the loose grammar |
| `c_json.c:3075`, `h/c_json.h:250` | "identical": an object with two members of one name does not compare equal to its copy, since both are compared with the first of that name. `CompareIsEquality` excludes such objects |

## 6. Not modelled

Deployment files, which have no behaviour. `connection_context.c`,
`pronto_increase_current_capacity`, `pronto_decrease_current_capacity` and the unused
helpers of `utils.c`, which nothing calls. curl and actix, of which only success or failure
matters here. The wording of responses and logs. Memory exhaustion. Floating-point numbers of
the JSON library. Requests of zero units are in no instance. `Handler` and `Pronto` are not
composed: a callback runs to its end inside one event, and `Handler` keeps of it only whose
body it was given.

Worth doing next: an unbounded stream of small jobs.
