# A verification project for net_model_benchmark

`net_model_benchmark` compares two ways of building a trading gateway. Benchmark
clients send orders to a server; the server passes them to a simulated exchange
and passes every response back to all sessions of the order's user. The server
exists twice: `server_multiplex` (each worker is one event loop that does
everything for its users) and `server_channel` (event loops talk to two
dedicated threads through channels). All of them are C programs on a socket
event-loop library, and all of their state is in memory.

This directory has TLA+ models of these programs, of the framing they share and of
the tools that prepare and report a benchmark, the TLC runs that check them on
small instances, and TLAPS proofs about every one of them.

## Inventory

| component | state it keeps | operations | hard behaviour |
|---|---|---|---|
| `example/upstream` (the exchange) | `order_list` with a response count per order, time of the last round | connect, order, timer round, close | orders point to contexts nothing retains; removal loop that stops early; closes between rounds |
| `example/server_channel`, clients | contexts and their reference counts, sessions, `user_ctxs` lists, `client_chan` | accept, login, hand-over, serve, close, release; ADD, DEL, RSP_ORDER on the channel thread | three threads share a context; two-step close; a channel that loses messages when full |
| `example/server_channel`, exchange link | `upstream_chan`, the channel thread's `upstream_ctx`, connecting threads | connect, break, reconnect; ADD, DEL, REQ_ORDER on the channel thread | pointer that lags behind the loop; several breaks queued |
| `example/server_multiplex` | per worker: `user_ctxs` lists, `upstream_ctx`; contexts and reference counts | accept, login, hand-over, order, response, link break and reconnect | two loops share a context for a moment; orders lost with a link; routing by user id |
| `example/client` | login flag, running order number, the orders it sends and the responses it keeps | load, connect, login, round, response, exit, report | end of run inferred from one response; orders sent and overwritten in place; 32-bit products; a connection that ends early |
| `src/netmodel` | a ring buffer per connection | read, parse, hand over | frames split anywhere and wrapped; a handler that closes the context under the parse loop; a buffer that moves to another loop half full |
| `gen_numbers`, `gen_orders` | the files they leave: `prime_cal_cnt.txt`, `numbers.bin`, `orders.bin` | generate | a trial division that stops early; a threshold that wraps; counts that start from what `malloc` left; files missing or empty |
| instrument tables | none | none | none |

Components talk over TCP with `msg_hdr_t` frames (`REQ_LOGIN`, `RSP_LOGIN`,
`REQ_ORDER`, `RSP_ORDER`); inside `server_channel` threads talk through the two
channels and the reference counts of contexts; loops hand contexts to each
other with `muggle_socket_evloop_add_ctx`.

What makes each correct, in one line:

* exchange: every order of an open connection gets exactly three responses,
  numbered 1, 2, 3, older orders first, and a closed connection is never touched;
* sessions: a context is freed exactly once, by the last of the threads that
  hold it, and after that nobody holds, queues or lists it;
* link: there is always one link or one thread making it, and the channel
  thread writes to that link or to none;
* multiplex: a response reaches exactly the sessions of its user, and every
  forwarded order is answered unless its session or its link goes away;
* the way of an order through `server_channel`: it keeps its place in the order of
  the channel, across a reconnect, and its responses reach every session of its
  user once, oldest first;
* client: the run ends, and when it is called complete nothing is missing;
* framing: handlers see the frames the peer has sent, whole, once, in order, and
  all of them unless the connection is cut;
* tools: a number is called prime when it is one, the file has the costly numbers,
  the report says what it claims.

Every hazard found in the code is listed in `PROJECT.json` with its line and
the properties that watch it, or with the reason why none does.

## What is assumed of the libraries

The event loop, sockets and channels are an external library that is not in the
repository. Their behaviour is taken from how the callbacks use them:

* A loop runs one callback at a time. It closes a context by calling `cb_close`,
  then giving up its own reference; when that was the last one it calls
  `cb_release` and closes and frees the context. The code forces this reading:
  `on_listen_release` frees the session without looking at anything, and the
  login takes a reference so that this does not happen at the hand-over. A
  context starts with one reference.
* `muggle_socket_ctx_ref_release` on a count of 0 changes nothing and does not
  report 0. Hence the `ref_release` in `on_worker_release` and
  `on_upstream_release`, which run at count 0, never deletes anything.
* A channel is a bounded FIFO. A write to a full one fails; its result is
  ignored (`server_context.c:163`), so the message is lost. `WRITE_SPIN` is taken
  to name the lock, not a wait for room.
* A context with `CLOSED` set, or whose peer is gone, is closed by its loop in
  the end.
* Writing through a null context is undefined: the process may die or the data
  be lost. So is an index outside `user_ctxs`.
* The wall clock does not step back.

## Modules

`OrderDesk` is the abstract promise of the exchange: connections come and go,
orders are accepted, and each round gives every order that is owed an answer
exactly one more.

`Upstream` is `example/upstream`. One action per callback: `OnConnect`,
`HandleMessage`, `OnTimer` (the round and the removal loop after it), `OnClose`
(with the release that follows: the loop holds the only reference), and `Tick`
for time. `order_list` is the set of tickets in the list; tickets are given in
list order, as orders are only ever appended. `store` is what the
`order_store_t`s hold. `ImplementsDesk` is the refinement of `OrderDesk`.

`ChannelSessions` is the client side of `server_channel`. One action per
callback and one per message type of `client_chan_routine`; the library's
release after `cb_close` is an action of its own (`ListenRelease`,
`WorkerRelease`), because the other threads run in between. `ChanRspOrder` may find
that a response names a user outside the table, as nobody has compared the id an
order names with the table's size: `server_context.c:88` indexes `user_ctxs` with it
all the same, and the process dies (`crashed`) or finds no session. `place` says which
loop has the context, `ref`, `ctx` and `session` are the count and the memory,
`client_chan` the channel, `listed` the linked lists of `user_ctxs`.

`ChannelLink` is the exchange side of `server_channel`. A link is numbered by
the attempt that made it. `connecting` counts connecting threads.

`Gateway` is the abstract promise of both servers: sessions are served as a user,
orders are submitted, the exchange answers, and a response is relayed to all
sessions that are then served as the order's user, or given up. `owed` has the
responses the exchange has given and the gateway has neither relayed nor lost.

`ChannelOrders` extends `ChannelLink` with what the link is for: it composes the
two channels, the link, the exchange and the sessions. Every action that touches
the link is an action of `ChannelLink` joined with what it does to orders:
`ClientReqOrder` is `ClientHandleMessage` with an order, `WriteOrder` is
`ChanReqOrder`, `LinkBreaks` is `OnUpstreamClose`; the rest are `LinkStep`. On the
way back `UpstreamRspOrder` is the upstream loop's handler and `ClientChanAdd`,
`ClientChanDel`, `ClientChanRsp` are the messages of `client_chan_routine`. Of a
session only its ADD, its DEL and its place in the list are kept; what a DEL that
comes early does to memory is in `ChannelSessions`, and here such a session may
just stay listed. `ClientReqOrder` may name any id, as in the code, where
`worker_handle.c:29` looks at none: in `ClientChanRsp` one outside the table ends the
process, with the link's side of it (`ProcessDies`), or gives the response up.
`ImplementsGateway` maps listed sessions to served ones, and the
responses on the link and in the channel to `owed`.

`Multiplex` is `server_multiplex` together with its clients' orders and the
exchange: `wire_up`, `pending`, `answers` and `wire_down` follow an order to the
exchange and its responses back on the worker's link, `got` is what each client
was sent of them. The worker's handler takes a RSP_ORDER frame from any context: the
action of the link's is `WorkerRspOrder`, that of a client's `WorkerRspOrderOfClient`,
with any user id, in the table or not; `unasked` is what clients were sent because of
those. A link that has been connected waits to be added to the loop (`queued`), and
clients may be added before it. `Multiplex` implements the same `Gateway`, whose
responses are those of the exchange.

`Client` is `example/client` with a server and the exchange as it sees them, which
may lose orders and send responses to other clients' orders of the same user; the
connection may end at any time.

`FrameStream` is the abstract promise of the framing: a peer sends frames, the
handlers are called with them in order, the connection may be cut.
`FrameDecoder` is `netmodel_decode` with its loop of reads over the ring buffer
(`r`, `w`, `t` are its positions) and its loop of frames, the login handler that
closes the context under it, and `on_listen_close`, which passes context and
buffer on; a login that a worker reads (`with_worker`) detaches nothing. A byte is known by the frame it is of and its place in it, so that
nothing about delivery holds by the shape of the model. `ImplementsStream` is the
refinement.

`Numbers` is the arithmetic of `is_prime` and of a percentile's position, with its
reference definitions; `Workload` is `gen_numbers`, `gen_orders` and the start and
the report of the client, which meet in the files they leave. The programs run in
any order. What `malloc` left in the counts is any of `Leftover`; `uint64_t` and
`uint32_t` have `Uint64` and `Uint32` values. `qsort` of the counts may leave any
order that descends (`Descending`), as equal counts may come in any order; the delays
it sorts for the report are numbers, so there is one result (`Sorted`).

`UpstreamProofs`, `ChannelSessionsProofs`, `ChannelLinkProofs`,
`ChannelOrdersProofs`, `MultiplexProofs`, `ClientProofs`, `FrameDecoderProofs` and
`WorkloadProofs` hold the theorems. The `MC...` modules give TLC its constants. Definitions named
`Fault_...` are seeded faults: plausible slips in the definition after them, used
to make sure that a property notices; nothing in the models uses them.

## Runs

| run | instance | shows |
|---|---|---|
| exchange | 2 connections, 3 orders, 3 responses, interval 2 | all of the exchange's properties, and that it implements `OrderDesk` |
| sessions | 2 connections, 2 workers, ids in and outside the table, a channel of 3 | counts cover the holders, nothing held is freed, ADD comes before DEL, nobody is dropped; while no message has been lost, every context is freed and every login answered |
| link | 2 connections of user 1, one of which sends 2 orders for ids 0, 1 or 2 and may hang up, a table of 2, 2 links (1 break), channels of 3, 2 responses per order | `ChannelLink` with orders on it: always one link in the works, no pointer to freed memory, orders in the order of the channel across the reconnect, the gateway; while no message has been lost, a thread that has caught up has the loop's link, the link comes back, broken links are freed, orders are answered |
| multiplex | 2 sessions, one of which also sends RSP_ORDER frames, 2 workers, 3 ids of which one is outside the table, 1 order, 3 responses, 1 break | listed sessions are live; responses of the exchange reach the user that sent the order only, and a client's frame the user it names at its own worker only; every forwarded order is answered or lost with its link; contexts are freed; the gateway |
| client | 2 rounds of 2 orders, 3 responses, one order lost, one foreign response, a connection that may end | completed means complete; the run ends unless an order was lost or there is none |
| frames | header 2, payloads 1 and 2, reads of up to 2, a buffer of 12, 5 frames or bytes that are none | frames are delivered whole, once, in order and in the end; only a large batch fills the buffer |
| workload | 3 numbers from 1, 35 or 287, margin 1, counts below 8 from memory with 0 or 6, 5 orders, rounds and orders per round up to 7 in a type of 8 values, 3 lines of report | no prime is missed, what is in `numbers.bin`, how far off the percentiles are |

Five more runs end in a counterexample; they are the findings below.

Bounds. Two connections are enough for every pairing a list or a count can get
wrong: same user and different users, one closing while the other is served.
Three orders give the exchange's list a first, a middle and a last element, and
three is the code's number of responses. In `link` two responses per order are
the least that can come out of sequence or be written twice, and two orders can
overtake each other; all three responses are in `multiplex` and `exchange`. Only the
session that sends orders hangs up in `link`: the other one of its user is there to
be left out or written to by mistake. In `multiplex` the session that sends
RSP_ORDER frames may be of the other's user, of another user of the same worker, or of
another worker. One break puts the DEL of a link and the ADD of the
next into the channel at once, between orders. A channel of three overflows on
each of its message types, and also has runs in which it never does; the history
variables `overflowed` and `client_overflowed` tell them apart, and the properties
that need room in the channel say so. A buffer of 12 holds three or four frames and
six reads: it wraps, jumps over its end, holds a split frame and fills up. The
numbers from 287 have 289 = 17 * 17, whose factor the trial misses, among them, those
from 35 have 35 = 5 * 7, a prime and its twin, and the prime 37; the largest count
from 1 is below the margin. `MaxRspQueued`, `MaxOrderQueued`,
`MaxOrders`, `MaxLink`, `MaxBreak`, `MaxLost`, `MaxForeign`, `MaxFrames` are bounds
of the model, as is who sends orders (`Senders`), RSP_ORDER frames (`Strays`) and who
hangs up (`Leavers`); `ChanCapacity`, `NumUser`, `NumWorker`, `Interval`, `MaxRsp`, the
sizes of `FrameDecoder` and `Workload` and the client's sizes are parameters of the
code. Runs whose system may stop (clients finish, processes die of undefined
behaviour, peers send all they may) say `CHECK_DEADLOCK FALSE`.

Fairness. Event loops and channel threads are infinite loops, so each of their
steps that stays enabled is taken; a connecting thread retries until it
connects; timers fire again and again; the exchange serves what it is sent; bytes
that were sent arrive. Clients owe nothing: no fairness on connects, logins, orders,
hang-ups or link breaks. `Client` assumes that the server answers what it does not
lose.

## Findings

1. **Session left in the list** (`sessions_stale`, `WritesToLive`). A client
   hangs up: the worker's `on_worker_close` queues DEL. If the channel thread
   reads it before the worker's loop has given up its own reference, the count goes
   2 to 1 there and the session is not unlinked; then the loop's release is the
   last, and it frees the context without `server_context_del_ctx`. The session_t
   leaks, stays listed, and the next RSP_ORDER of the user is written through it
   to freed memory.
2. **DEL without a reference** (`sessions_bad_id`, `MessagesLive`). A user id of
   256 or more is turned away before `ref_retain`, but its close queues DEL. The
   context is freed while the message waits.
3. **Write through a null link** (`link_null`, `WritesOnlyWhenConnected`).
   `upstream_chan_routine` logs "upstream is not connected" and writes all the same.
4. **Look-up with a refused id** (`multiplex_bad_id`, `IdsChecked`).
   `on_worker_close` indexes `user_ctxs` with the id `on_worker_add_ctx` has
   refused.
   The id of a RSP_ORDER frame that a client sends is not checked either, and is an
   index at `worker_handle.c:115`.
5. **Composites called prime** (`workload_prime`, `PrimesOnly`). `is_prime` is to
   "detect n is prime" but stops its trial one short of the square root, so it lets
   the square of a prime 6k - 1 and the product of such a prime with its twin pass:
   25, 35, 289. `PrimalityTest` in `WorkloadProofs` says that it lets no others pass,
   and `PrimesKept` that it misses no prime.

Things the models show that contradict nothing the repository says, and that no run
reports: `server_channel` takes orders for other users' ids and for ids outside its
table, where the index is undefined (`server_context.c:88`); `server_multiplex`
relays RSP_ORDER frames of clients; the client sends the orders
`0 .. order_per_round - 1` of `orders.bin` again in every round; a product
`round * order_per_round` of 2^32 or more may pass the client's check and its rounds
may read past the orders loaded; `gen_orders` reads the number of orders from
`argv[0]` and so fails whenever it is given one.

## Proofs

Every theorem holds for all values of the constants that satisfy the named
assumptions; the two about the client have one hypothesis more, stated with them.
Every invariant a passing run checks is proved, and so is the safety of the four
refinements.

`UpstreamProofs` (`BoundsAssumption`, `NoCtxAssumption`). The invariant has three
layers. `ListInv` joins the typing, `NoDanglingCtx`, `SortedByCount` and
`NoFinishedOrderListed`, which need each other: the removal loop leaves no finished
order behind because the list is sorted; the typing bounds a count by `MaxRsp`
because a listed order is not finished yet; the list stays sorted because a new order
goes to the end with count 0. `FateInv` says what became of an order that has left
the list: it was finished or its connection is closed. `OutInv` ties the frames
written to a connection to the counts in the list: the frames of an order are
numbered from 1 to its count, and those of an older order come first.
`ResponsesInSequence` and `AnsweredInOrder` speak of frames only; without the
counts, nothing in them says what the next round will write. Under the three, every
callback is a step of `OrderDesk` or none. Theorems: `TypeCorrect`,
`NoDanglingPointer`, `ListSorted`, `NothingFinishedStays`, `InSequence`, `InOrder`,
`ImplementsDeskSteps`.

`ChannelSessionsProofs` (`NoConnAssumption`, `NumWorkerAssumption`,
`SizesAssumption`, `UserIdsAssumption`), for any channel capacity, so for channels
that lose messages too. `RefCoversHolders` is not inductive: the step that takes a
reference must know where the context is, and the channel's DEL must know that no
second one is behind it. The strengthening says, for each place a context can be
in, which flags it can have, which loop is closing it, and that the channel has at
most one ADD and one DEL of it in that order. `DropsNobody` needs `ClosedInv`: a
context is marked closed only while the listener hands it over, or when its worker
has turned it away. Theorems: `TypeCorrect`, `RefCorrect`, `ChannelOrdered`,
`NoUseAfterFree`, `HangsUpOnNobody`.

`ChannelLinkProofs` (`LinkBounds`). Beside the typing the
invariant has five parts. `Places`: the
link made last is the only one that can be with the loop, and a thread connects
exactly when none is. `ChanInv`: messages about links are in the order of the
links, each link's ADD before its DEL, and the pointer is behind all of them.
`RefCovers` and `MemoryInv`: a count covers the loop and the channel's share, and
memory is freed at 0 only; the share is what makes the pointer safe when messages
are lost, as a lost DEL only leaks. `CaughtUp`: until a message is lost, the pointer
and the messages together say where the loop is. Theorems: `LinkTypeCorrect`,
`AlwaysOneLink`, `NeverWritesToFreed`, `PointerFollowsLoop`.

`ChannelOrdersProofs` (`OrdersAssumption`, `LinkBounds`). Every step of
`ChannelOrders` is a step of `ChannelLink` or leaves it alone
(`OrdersImplementLink`), so the invariants of the link hold with orders on it. On
the way up (`UpInv`) orders only ever move from the channel to the exchange, from the
front of one queue to the end of the next, so numbers rise along both and no order
is in both. On the way down (`DownInv`) the responses of an order are on the link and
in the channel in the order of their numbers, those in the channel first, none ahead of
the exchange's count and none twice. `ListedInv`: a session is
listed, or about to be, only once its worker has it.
Under these, every step is a step of `Gateway` or none: what is written is the
oldest response owed, and it reaches all sessions the gateway serves as that user.
Theorems: `OrdersTypeCorrect`, `OrdersKeepOrder`, `OrdersImplementGateway`.

`MultiplexProofs` (`NumWorkerAssumption`, `UserIdsAssumption`, `StraysAssumption`,
`BoundsAssumption`, `NoConnAssumption`), for ids inside the table and outside. `SessionInv` says which
references are held by where a context is; the listener's last one may be given up
as late as it likes. `OrderInv`: a session that has sent an order stays with its
worker or leaves, so its user and worker do not change. `LinkInv`: what is on a
worker's link is of orders of the worker's own sessions, each naming its session's
user, and in one place only, without which the exchange might count an order twice
and the bound on its answers would not be inductive. `GotInv`: what a session was
sent fits its user. `UnaskedInv`: so does what it was sent of a client's RSP_ORDER
frames, and its worker is that of the client which sent them. `GatewayInv`, for the refinement: the responses to an order are
on its worker's link in the order of their numbers, none ahead of the exchange, and a
session on its way to a worker has logged in. It is one worker's loop that keeps a
user's list and writes its responses, so all sessions the gateway serves as that user
are in the list the loop walks. Theorems: `TypeCorrect`, `SessionsListedLive`,
`OwnResponses`, `MultiplexImplementsGateway`.

`ClientProofs` (`SizesAssumption` of `Client`), under the hypothesis `NoWrap`:
`round * order_per_round` is below 2^32. Beyond it `main` compares the remainder with
the orders it has loaded and a round may read past them, so nothing is claimed of such
a run. `TypeInv`: rounds are sent whole, so a round that is due
fits in the loaded orders; the exchange's unfinished orders are sorted by their counts.
`RunInv`, as long as nothing is lost and no foreign response has come: by their
numbers, orders fall into those on their way up, those the exchange has and those it
has done with; the first response of every order answered is kept or on its way; and
the last response of the last order is the last frame of all. The client looks at
that one frame only, so `CompletedIsComplete` needs the whole of it. Theorems:
`TypeCorrect`, `CompletionCorrect`.

`FrameDecoderProofs` (`SizesAssumption`), for every size of header, payloads, reads
and buffer and every number of frames. What is unread, in the buffer and on the wire,
is the waiting frames one after the other; a concatenation of so many frames has no
closed form, so `StreamInv` says that there are places where they start, each its
predecessor's length after it, with the bytes of the frame behind it. A send adds
a place, a delivery moves all of them down, a read changes no byte. `RingInv` ties the
positions to the length: a wrapped buffer has given up less than one read at its
end. `LeftOver` says that a call of `netmodel_decode` leaves less than a frame, or
bytes that are none. Theorems: `TypeCorrect`; `CutOnlyOnLargeBatch`;
`ImplementsStreamSteps`, the refinement of `FrameStream` without its fairness.

`WorkloadProofs` (`SizesAssumption` of `Workload`, and `CountsAssumption`: the count of
a number fits a `uint64_t`, as it does by far in the code, whose numbers do). It has
the number theory the trial division is judged by. The library's induction cannot be
used here, as it takes an operator; the least-number principle (`LeastNat`), from
the well-founded order of finite sets, is all that is needed instead: it gives
the least factor of a number and Euclid's lemma. `PrimalityTest` then says for every
number exactly what `is_prime` answers: a composite one that passes has a least factor
d with d * d <= n < (d + 1) * (d + 1), so d = 6k - 1 and its cofactor is d or d + 2; and
the product of two primes has no factor below the smaller one, so all of those do
pass. For `numbers.bin`, the accepted ones are a prefix of any descending order, and the
prefix is the set of all whose count is high enough. For the report, the place of a
line in the sorted delays has enough delays on both sides, and is close to the
percentile. `PositionInside`, `PositionNotBeyond` are about that place. These join in
the invariant `IInv`. Theorems: `PrimesPass`, `PrimalityTest`, `WorkloadTypeCorrect`,
`PrimesKeptAlways`, `PrimesMarkedAlways` (what exactly gets a "yes"),
`CostlyNumbersAlways`, `PercentilesAlwaysClose`.

Only model-checked: all liveness properties (`EveryCtxFreed`, `EveryLoginAnswered`,
`LinkedAgain`, `BrokenLinkFreed`, `OrderAnswered`, `EveryOrderAnswered`,
`LeftIsFreed`, `RunEnds`) and
the fairness halves of `ImplementsDesk` and `ImplementsStream`, as temporal reasoning
under fairness is out of the prover's reach.

## Not modelled

* Argument parsing, logging, socket options, retries of `listen`, timestamps.
* The fields of an order nothing depends on: prices, quantities, and the markets
  and instruments `gen_orders` draws from the instrument tables. These are more
  than 600 lines of constants.
* The csv file of the client.
* Short or failed socket writes: every write result is ignored by the code, and what
  the library does with the rest of a frame cannot be told from it.
* What happens before a worker's thread has attached its callbacks, and a timer
  call between the client's close and the end of its loop: both depend on the
  library.
* Whether the client's socket blocks: the client alone does not set it to
  non-blocking (`client/main.c:208`). If the library does not either, a read that
  finds nothing waits; that changes when its loop runs, not what it reads.
* A client that sends more than one login in the same batch: each takes a
  reference (`listen_handle.c:26` and `:28`), all but one of which nobody gives up, so
  that its context is never freed. `ListenHandleMessage` and `ListenLogin` take one
  login per context, and the properties about freed contexts are about such clients.

## Plan

Done, in this order: `OrderDesk` and `Upstream` (the promise every other part
relies on), `ChannelSessions` (the hardest concurrency), `ChannelLink`,
`Multiplex`, `Client`, proofs for the first two; then `FrameDecoder` with
`FrameStream`, `Gateway` and `ChannelOrders`, `Numbers` and `Workload`, and proofs
for the link, the orders on it, the multiplexing server, the framing and the
tools; then the proofs of every other invariant a passing run checks and of the
safety of all four refinements.

Next, by weight:

1. Lemmas towards the liveness properties: that the step a fair action takes brings
   what is waited for nearer (an order's count, the place of a message in a channel),
   so that only the step from fairness to progress rests on TLC.
2. A client that sends more than one login in the same batch, which takes a second
   reference that nobody gives up.
