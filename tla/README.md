# Formal models of the electronic trading ecosystem

The repository is an exchange and a trading client in C++: clients send orders
over TCP, the exchange sequences and matches them, answers each client over TCP
and publishes market data by multicast; the client rebuilds the book and manages
its orders. This directory holds TLA+ models of that code, TLC configurations
that check them on small instances, and TLAPS proofs for all instances.

Run everything from this directory: `tlc -config X.cfg M` for a run,
`tlapm MProofs.tla` for the proofs. `PROJECT.json` lists the components, the
runs, which source lines each definition stands for, a mutation of the code that
each property detects, the findings and the hazards.

## 1. Inventory

| component | state | operations | used by / interacts with |
|---|---|---|---|
| `LFQueue` (common/lf_queue.h) | ring of slots, read index, write index, counter (three atomics) | getNextToWriteTo, updateNextToWriteTo, getNextToRead, updateReadIndex, size | every pair of threads: server to engine, engine to server, engine to publisher, publisher to synthesizer, the client's threads, logger |
| `MemPool` (common/mem_pool.h) | blocks with a free flag, next free index | allocate, deallocate | both books, snapshot synthesizer |
| `MEOrderBook` (exchange/matcher) | two pools, circular list of orders per price level, list of levels per side, price table, table of orders per client | add, cancel, and the private functions below them | called by `MatchingEngine`, sends responses and market updates through it |
| `MatchingEngine` | the books, three queues | run, processClientRequest, sendClientResponse, sendMarketUpdate | queues |
| `FIFOSequencer` | array of pending requests | addClientRequest, sequenceAndPublish | `OrderServer`, queue to the engine |
| `OrderServer` | socket and number per client | recvCallback, recvFinishedCallback, run, start, stop | callbacks of `TCPServer`, both queues |
| `TCPServer`, `TCPSocket` | epoll, lists of sockets, receive and send buffers | poll, sendAndRecv, deleteSocket, send | kernel |
| `OrderGateway` (client) | connection, two sequence numbers | run, recvCallback | queues of the client |
| `MarketDataPublisher` | next incremental number | run | queue from the engine, multicast |
| `SnapshotSynthesizer` | a copy of all live orders, number of the last update | addToSnapshot, publishSnapshot, run | queue from the publisher, multicast |
| `MarketDataConsumer` (client) | next number, recovery flag, two maps of queued updates | recvCallback, queueMessage, checkSnapshotSync, start/finish recovery | two multicast sockets, queue to the trading engine |
| `MarketOrderBook` (client) | the lists of `MEOrderBook` again, best bid and offer | onMarketUpdate | trading engine |
| `OrderManager` (client) | one order per instrument and side with a state | onOrderUpdate, newOrder, cancelOrder, moveOrder(s) | responses, gateway queue |
| `PositionKeeper`, `PositionInfo`, `RiskManager`, `FeatureEngine` | position, value, volume, limits, last feature values | addFill, updateBBO, checkPreTradeRisk, onOrderBookUpdate, onTradeUpdate | strategy |
| `Logger`, thread, socket and time helpers | a queue of characters; none | flushQueue, createAndStartThread, system calls | everybody |

What is hard here, and what correctness means:

* **Two threads in one queue.** Index and counter change in two steps, slots are
  plain memory, nothing tests for a full queue. Correct: each message delivered
  once, whole, in order; the assertion on the counter never fires; no slot shared.
* **A pool without a way back.** Correct: no block handed out twice, none lost.
* **A book of raw pointers.** Any history of adds and cancels, with reused ids,
  prices that share a table entry and exhausted pools, must leave the rings
  closed, priorities in line, the client table free of stale pointers, and the
  messages consistent with the book.
* **One server thread for all clients.** Bursts, partial reads, clients that go
  away and come back, buffered responses. Correct: a client's requests reach the
  engine in order and once, none is left in the sequencer, whoever is answered
  has a socket, every request is eventually answered.
* **Lossy multicast.** Datagrams get lost, repeated, overtaken. Correct: gaps are
  noticed, a recovery ends with exactly the exchange's book, and the snapshot it
  uses is the book as of the number it carries.
* **A copy of the book from a stream.** Correct: the client's levels are the
  exchange's, the best bid and offer are the best levels, also after a recovery.
* **Orders and responses that cross.** Correct: a response changes the order it is
  about, a side never has two orders, a pending order is resolved.
* **A check made before the trade.** Position and loss are looked at when an order
  leaves, and fills come later. Correct: the limits hold whatever trades.

## 2. Modules

| module | models | checked by |
|---|---|---|
| `FIFOQueue` | abstract: what users of a queue rely on | `common`, through `ImplementsFIFO` |
| `LFQueue` | lf_queue.h with the loops that produce and consume | `common`, `queue_unchecked` |
| `MemPool` | mem_pool.h and a user of it; its operators are also the pools of the books and the synthesizer | `common` |
| `MCCommon` | the queue and the pool side by side, for one run of TLC | `common` |
| `LevelQueues` | abstract: orders stand in line at each level | `book`, through `ImplementsLines` |
| `MEOrderBook` (`MCMEOrderBook` adds the symmetry) | me_order_book.cpp and the dispatch in matching_engine.cpp | `book`, `book_crosses` |
| `OrderServer` (`MCOrderServer` adds the symmetry) | order_server.cpp, fifo_sequencer.h, tcp_server.cpp, tcp_socket.cpp, sending half of order_gateway.cpp | `server`, `server_live`, `server_numbers` |
| `MarketDataFeed` | market_data_publisher.cpp and market_data_consumer.cpp over multicast, multicast_socket.cpp | `feed_recovery`, and the theorems |
| `SnapshotSynthesizer` | snapshot_synthesizer.cpp behind a queue of the books' updates | `objects` |
| `MarketOrderBook` | the client's market_order_book.cpp and feature_engine.h | `objects`, `client_bbo` |
| `OrderManager` | order_manager.cpp/.h and the loop of the gateway's recvCallback, against an exchange | `objects`, `orders_gateway` |
| `PositionInfo` | position_info.h and risk_manager.h | `objects`, `position_loss` |
| `CommonTypes` | the sides of common_types.h, for the client's modules | |
| `MCObjects` | `SnapshotSynthesizer`, `MarketOrderBook`, `OrderManager`, `PositionInfo` in one run of TLC: a behaviour moves one of them | `objects` |
| `CommonProofs` (queue and pool), `MEOrderBookProofs`, `OrderServerProofs`, `MarketDataFeedProofs`, `SnapshotSynthesizerProofs`, `MarketOrderBookProofs`, `OrderManagerProofs`, `PositionInfoProofs` | theorems | tlapm |

`MemPool` is instantiated by `MEOrderBook`, `SnapshotSynthesizer` and
`MarketOrderBook`; the other modules meet at messages only: the queue between two
of them is the one of `LFQueue`, of which they use what `FIFOQueue` promises.
Definitions under a comment "Mutant:" are wrong versions of the definition that
follows; nothing uses them in the specifications.

### LFQueue

`producer` and `consumer` say where the two threads are. Every access to one of
the atomics is a step (they are sequentially consistent by default); writing a
slot and using a message in place each have a beginning and an end, so that
sharing a slot would be visible. Two shapes of consuming loop occur:
`OrderServer`, `MarketDataPublisher`, `SnapshotSynthesizer` and `Logger` test
`size()` after `getNextToRead()`; `MatchingEngine` and `OrderGateway` do not.
`ChecksSize` selects one. The code has no test for a full queue; `MaxBacklog`
says how far the producer gets ahead and `MaxBacklog < Size` is the assumption
that the consumer keeps up (the queues have 256 Ki slots).

### MemPool

A pool is a record of the free flags and the next free index; `Taken`, `Returned`
and `updateNextFreeIndex` are functions on it, so that the book uses the same
text for its two pools. mem_pool.h:67 compares the index with 0 where it means to
assign, so the search never goes back to the beginning: past the last block the
code reads and writes outside the vector, although the comment above (mem_pool.h:64-65)
has it go back. The model lets that end the process or corrupt it.

### MEOrderBook

One instrument: the engine keeps one independent book per instrument. A handler
is a function from a book to a book, one TLA+ operator per member function;
an action applies `add` or `cancel` to the state. `responses` and `updates` are
the messages of the last request in the order they were sent. `process` tells
whether an assertion, FATAL, an exception thrown from a `noexcept` function or a
fault has ended the program. Modelled as the code has them: the price table is
indexed by `price % ME_MAX_PRICE_LEVELS` and does not compare prices;
`addOrdersAtPrice` stores the first level of a side in a local variable and not in
the head; a NEW overwrites the table entry of an older order with the same id.
Assumed: client ids are below `ME_MAX_NUM_CLIENTS` (`OrderServer` has indexed
arrays with them before), prices and quantities are natural numbers, the side is
BUY or SELL, the book starts zeroed (an object of 2 GiB comes from fresh pages).
`cancel` copies the 8 MiB table of a client onto the stack, which may overflow;
this is the parameter `fault`.

### OrderServer

The server's thread is a loop `poll`, `recv` (each socket in turn, with
`callback` while its requests are handled), `respond`. Each system call, each
request handled and each response sent is a step; clients, resets and the
matching engine interleave between any two. `wire` holds what the kernel has and
the program has not read. A read takes everything, but the end of the last
request may not have arrived (`partial`). Since a read leaves less than one
request in the buffer, the `memcpy` at order_server.cpp:49 never overlaps.
`sockets_` of TCPServer is never filled, so epoll reports one event at a time
and sockets are handled in the order in which they were accepted. A binding in
`clientId_socket_` is never removed. `Disconnect` ends a client in an orderly
way; `Reset` can follow at any time or never, and may discard unread data. When
`send()` fails on such a connection the loop around it does not end: `process`
becomes "spinning". Nothing is answered after that, so `ForwardedIsAnswered` is
about a server that does not spin. `Answer` stands for the matching engine:
exactly one response per request: `add` and `cancel` send one each, and the book
never adds a fill of its own (`BookNeverTrades`). Not modelled: the bytes of a
response (order_server.cpp:102 sends the size of a pointer), a full kernel send
buffer, missing kernel time stamps.

### MarketDataFeed

The publisher numbers the updates it finds in its queue and sends them in one
datagram. The kernel may refuse any of them (`send()` with `MSG_DONTWAIT`) and
refuses one that is too long; the code only logs it, so the numbers are used up.
The network is the set of all datagrams ever sent: each may arrive at any time,
again, or never. `recvCallback` handles one message of a datagram per step. The
consumer is a record and its member functions are functions on it. `descriptors`
counts the sockets: `startSnapshotSync()` opens another over the descriptor of
the last one, and without a descriptor left `createSocket()` fails and an
assertion ends the process ("terminated"). market_data_consumer.cpp:152 makes a
pointer of the buffer's fill level; reading through it is a fault or, as the
outcome that was meant, the message. The snapshots are cycles for one instrument
with at most one order, cut into datagrams as `publishSnapshot()` cuts them;
what a larger cycle contains is the subject of `SnapshotSynthesizer`. Forwarding
to the synthesizer is commented out (market_data_publisher.cpp:51-54), so the
model lets a snapshot be of any number that was published.

### SnapshotSynthesizer

`log` is everything the order books have produced, `taken` how much of it has
left the queue: the thread is as far behind as it likes. `addToSnapshot` and
`publishSnapshot` alternate as in `run()`, a snapshot only after the queue was
found empty. The functions are modelled as `run()` calls them, although `start()`
does not set `is_running`, so that today the thread ends at once
(snapshot_synthesizer.cpp:138). The numbers have no gaps since the queue does
not lose anything. The log holds what the matcher sends: an ADD carries the id of
the book (me_order_book.cpp:119), a CANCEL by a client the id of the client (185);
`marketId` is the order it is about, whatever the message says. `match()` is
modelled although no order is matched today, because its MODIFY and CANCEL are
what the synthesizer is written for; its TRADE only uses up a number and is left
out.

### MarketOrderBook

The rings are sequences here: what matters is what is linked at all.
`onMarketUpdate` takes any update, also ones no exchange sends. The member
arrays have no initialisers; the objects are so large that `new` gets them from
zeroed pages. `FeatureEngine` reads the best levels through pointers that may be
null, which ends the process; its ratios are "NaN" or "computed".

### OrderManager

One instrument. The client's state is the order of each side and the next id;
requests and responses travel in order, and the exchange fills resting orders at
any time. The calls of `sendClientRequest()` and of the risk check are commented
out in the code (order_manager.cpp:17, 36, 57); the sends are made here, since
without them the class does nothing; the check is modelled in `PositionInfo`.
The server may ignore a request, as it does with a number or a socket it does not
expect: `MaxIgnored` in number. `OrderGateway` drops a response whose number is
not the next (order_gateway.cpp:28-32), so no response is handled twice, but the
loop around it does not advance (line 15): after the first response its thread
reads the same one again for ever, and `gateway` is "spinning". `LoopAdvances` =
FALSE is the code as written; with TRUE the loop moves on, as its comment says,
and nothing forces it to, so every history of FALSE is one of TRUE up to
`gateway`: the safety properties, which do not mention it, are checked and proved
for both. A CANCEL_REJECTED has `Side::INVALID`, and so finds no order.

### PositionInfo

One instrument, one order per side, filled in parts or canceled: what
`OneOrderPerSide` shows of `OrderManager`. An order leaves (`sendOrder`) whatever the check
says, because its call is commented out (order_manager.cpp:57-58); `unchecked`
records that one left which the check would have refused. Conversions to `int32_t`
wrap around at `MaxInt`, which stands for 2^31 - 1. `open_vwap_` and `volume_` have
no initialiser and start with anything from `Garbage` and `GarbageQty`. A best bid
or offer that is null ends the process (position_info.h:87). Money is in units of
1/`Scale`, chosen so that every division that occurs is exact; an inexact one would
show as a violation of `BooksBalance`. Nothing in the repository calls `addFill()`;
the model calls it with the fills of the client's orders. Rounding of `double` is
left out.

## 3. Runs

Deadlock is checked in `common` and `queue_unchecked`. In the others the system may
really stop: the process can end, and the bounds on requests end the rest.
`objects` is one run for four modules: each of its behaviours moves one of them, so
that its states are those of the four one after the other.

| run | bounds | shows |
|---|---|---|
| `common` | 4 slots, backlog 3, 2 messages; 4 blocks | Queue with size test: the assertion never fires, counter exact, slots never shared, implements `FIFOQueue`, everything is delivered. The indices wrap around and the queue gets as full as it may; nothing depends on the number of slots beyond that, and the theorems cover all sizes. The state space is finite without a bound on the number of messages. Pool: no block shared or lost in every order of allocations and deallocations until the pool is used up. The two share no state; their steps interleave. |
| `queue_unchecked` | the same queue | **violation**: without the size test the assertion of `updateReadIndex()` ends the process between the two steps of `updateNextToWriteTo()`. |
| `book` | 2 clients (symmetric), an id that is valid and one that is too large, 3 prices of which two share a table entry, quantity 1, 3 orders, 2 levels, 4 NEWs, any number of cancels | rings, priorities, client table, announcements, and the rings implement `LevelQueues`. One NEW more than the order pool can serve, one entry less than prices; ids are reused; three orders make a line with a middle, so first, middle and last are removed. |
| `book_crosses` | 1 client, 2 prices, 2 NEWs | **violation**: a BUY and a SELL of one price rest in the book. |
| `server` | 2 clients, 2 connections, 4 requests, room for 3 in the sequencer, `StableLimit` 2 | order of short bursts, no request left behind, one connection per client, whoever is answered has a socket. Bursts of up to 4 in a read; a client that comes back on the second connection while its old data is unread; both clients at once; the FATAL of a full sequencer. |
| `server_live` | 2 clients, 2 connections, 2 requests | every forwarded request is answered over the network. |
| `server_numbers` | 3 requests | **violation**: after a response the server expects another number than the client's next. |
| `feed_recovery` | 1 update, datagrams of 2 messages, snapshots of no and of one order, 8 descriptors, fairness | **violation**: a recovery does not end, although the update and the snapshots arrive again and again. |
| `objects`: synthesizer | 2 instruments, 3 order ids, 2 terms, 5 updates | without a CANCEL by a client's id a cycle is the book as of its number; nothing but such a CANCEL or a used-up pool ends the thread. Three ADDs exhaust the pool with two updates left for MODIFY and CANCEL between them. One side suffices: the side is only compared. |
| `objects`: client book | 2 ids, one of them too large, 3 prices of which two share an entry, quantities 1 and 3 modulo 4, 3 orders, 2 levels | levels hold what was added, in order; life of the pools. Totals wrap; both pools run out. |
| `objects`: orders | quantities 1 and 2, one price, 4 orders, 1 ignored request, `LoopAdvances` TRUE | one order per side, agreement at rest, states, blocked sides. A quantity of 2 is filled in two parts; 4 orders let a side be replaced after a fill, a cancel and both crossing. One price: it is passed on, and only `moveOrder()` compares it, together with the quantity. |
| `objects`: position | prices 1 and 4, quantities up to 3 with orders up to 2, position up to 3, volume 6, `MaxInt` 15 | the limit for allowed orders, and the books. Orders that are too large are refused by the check and leave all the same; positions are added to, reduced, closed and flipped on both sides; the loss limit is reached; the volume starts with garbage and wraps. |
| `client_bbo` | the client book of `objects` | **violation**: after one ADD a side has a level and no best level. |
| `orders_gateway` | 2 orders, none ignored, `LoopAdvances` FALSE, fairness | **violation**: a response that has arrived is never handled. |
| `position_loss` | the position of `objects`, zeroed at the start | **violation**: after a round trip has lost more than the limit the check allows the next order. |

`MaxPending` 2 or 3 stands for `ME_MAX_PENDING_REQUESTS` = 1024. `StableLimit` is
the length up to which libstdc++ sorts by insertion, 16 in reality: up to it
requests of one read stay in order, beyond it any order of equal time stamps is
possible. `ForwardedInOrder` is about histories whose longest batch (`longest`)
is within the limit. Symmetry (clients, sockets) is used in the safety runs of
the server only.

**Fairness.** `LFQueue`: a producer that has begun to write finishes, and the
consumer's loop keeps running; a producer need not ever write. `OrderServer`: the
server's thread and the engine's thread keep running; nothing is assumed of
clients or of resets. The threads are endless polling loops without locks, so weak
fairness of each is what the scheduler gives. The other two fairness conditions
serve violations only, so that what is missing is not missing because somebody
stopped. `MarketDataFeed` (`feed_recovery`): both loops keep running, the
synthesizer sends its cycles, and what is sent to a group again and again arrives
again and again. `OrderManager` (`orders_gateway`): the exchange reads what a
running gateway has sent, and the gateway hands over a response while its loop
moves; neither the strategy nor the market has to act. No property is claimed to
hold of `OrderManager` under fairness.

## 4. Findings

Shown by a run that is violated, against what the repository says:

1. **Queue consumers without a size test** (matching_engine.cpp:82,
   order_gateway.cpp:70): `queue_unchecked`.
2. **The book never trades** (me_order_book.cpp:33): the heads of the sides stay
   null, so `checkForMatch()` finds nothing and a bid and an ask rest at one price,
   against the note of me_order_book.h:53-55: `book_crosses`. The theorem
   `BookNeverTrades` says that no history ever has a fill.
3. **One counter for two directions** (order_server.cpp:32): after a response the
   client's next request is dropped: `server_numbers`.
4. **A recovery that never ends** (market_data_consumer.cpp:160): each message of
   it clears what was stored and takes another descriptor: `feed_recovery`. The
   theorem `NothingEverDelivered` says that the client never gets an update, not
   even without a gap: it expects number 0 (market_data_consumer.h:21) and the
   first is 1.
5. **The client's book has no best price** (market_order_book.cpp:26):
   `client_bbo`, and for every stream of updates `NeverABestOffer`.
6. **A loop that does not move on** (order_gateway.cpp:15): the gateway handles one
   response in its life: `orders_gateway`.
7. **A closed loss is forgotten** (position_info.h:77): the total after a fill is
   twice the unrealized profit, so that what was realized does not count towards
   the "Max daily loss" of Risk_Manager.md:23: `position_loss`, and for every
   configuration `LossIsForgotten`.

Proved for all instances; no run has the negation as its property:

8. **CLEAR clears nothing** (market_order_book.cpp:174): the levels stay as they
   were, and `total_qty_` is one less than the sum of the level's quantities, since
   it starts at `Qty_INVALID` (market_order.h:38; both `NothingIsForgotten`).
9. **A client that reconnects is never served again** on its new connection: a
   binding is for ever (`OneSocket`).
10. **An ignored request blocks its side for ever** (order_manager.cpp:68;
    `StuckWhenIgnored`).

Part of the models, and visible in them as a branch or a condition:

* **No pre-trade check** (order_manager.cpp:57-58): the branch is
  `if(LIKELY(true))`, so the position has no limit, although Risk_Manager.md:7 says
  that "no order violating defined risk limits leaves the system".
  `AllowedStaysWithin` is about histories in which each order would have passed.
* **Conversions of the check** (risk_manager.h:40): a quantity of 2^31 or more counts
  as negative and passes. `AllowedStaysWithin` assumes that order size and position
  limit fit into an `int32_t` together; without that it is not true.
* **CANCEL carries the client's id of the order, ADD the market's**
  (me_order_book.cpp:185, 119): the assertion at snapshot_synthesizer.cpp:57 fails,
  or another order is dropped. The properties of `SnapshotSynthesizer` say so:
  they hold until such a CANCEL.
* **Pools do not come round** (mem_pool.h:67 compares where lines 64-65 say "back
  to" the beginning): `AssertsHold`, `AddsUntilFull` and `SurvivesUntilFull` hold
  until the last block has been given out once.
* **Prices equal modulo 256 share a level** in both books (me_order_book.h:89),
  against "at most ONE active price level" per price (me_order_book.h:50).
* **`std::sort()` is not stable** (fifo_sequencer.h:51): with more than 16 requests
  in a round, equal time stamps may be reordered; this is why `ForwardedInOrder`
  has its condition. All requests of one read share the time of its last bytes.
* **A `send()` that fails is repeated for ever** (tcp_socket.cpp:99): the server is
  then "spinning".
* **A null best bid or offer is read** (position_info.h:87) as long as the client's
  book sets none; this ends the process.

## 5. Proofs

The proofs hold for every value of the constants that satisfies the ASSUMEs of
the modules, which are type assumptions only (positive sizes, null is neither a
block nor an order). Where a run reaches a module by INSTANCE or only violates it,
these are a definition (`FeedParameters`, `ClientBookParameters`) and a hypothesis
of its theorems; `MCObjects` checks the second on the constants of the run.

* **CommonProofs, the queue.** `TypeCorrect`: indices in range, counter a natural number.
  `AssertNeverFires`, assuming `ChecksSize`: a consumer past the size test has its
  message counted; this needs `ReadingCounted`, since the counter may lag behind
  the index. `RingInvariant`, assuming `MaxBacklog < Size`: the inductive
  invariant `Ring` relates the counter to the distance of the indices and says
  that a slot being read is unread, that a write has room, and that a finished
  message is whole. From it `SizeIsExact`, `SlotsNeverShared` and
  `RingImplementsFIFO`: an initial state maps to an empty queue; publishing the
  index appends (`PublishAppends`), the end of handling is a `Dequeue`, advancing
  the read index drops a message that had been delivered (`AdvanceDrops`), every
  other step stutters. `RingImplementsFIFO` is the safety part of the refinement.
* **CommonProofs, the pool.** `PoolInv` strengthens `HeldInUse` with `FreshFromIndex`: all
  blocks from the index on are free. Without it the search could skip a block and
  the k-th allocation would not be block k. From it `NoBlockShared`
  and `AssertionsNeverFire`.
* **MEOrderBookProofs.** Four layers.
  - *The functions.* `HeadsNeverSet` is inductive by itself; lemmas *Quiet* (a
    function of the book leaves heads and messages alone) and *Inert* (it adds no
    fill and leaves null heads null) for each function up to `add` and `cancel`
    give `BookNeverTrades`. Since the book never trades, the *Effect* lemmas can
    say what a function does: `Adds`, `Cancels` and the predicates below them.
  - *The invariant.* `BookInv` would usually say that the orders of a level are
    those reachable from `first_order_`, and reachability is awkward under a
    change of pointers. `IsLine` avoids it: the successor of an order is the one
    of its level with the next higher priority, or the first when there is none,
    `prev_order_` is the inverse, and priorities are different. That is a
    statement about single orders, and adding behind the last (`LineGrows`) or
    removing any (`LineShrinks`) changes it at two places. `BookInv` adds types,
    the link between orders, levels and the price table, and `ClientIndexLive`.
    `BookInvariant` shows it inductive with one lemma per case: the order joins a
    level, starts one, leaves one, ends one, or nothing changes. `StepCases` is
    the summary: every step is `Rests`, `Departs` or `Stays`. From these
    `TypeCorrect`, `IndexNeverStale`, `StaysCancelable`, `RestingIsAnnounced`.
  - *The walk.* What `RingFrom` computes, for the properties that follow the list:
    the recursive function exists (`WalkExists`), never leaves the line, rises as
    long as it has not come back, therefore comes back (there are more steps than
    blocks, `ComesRound`), and has then missed nobody (`NobodyMissed`). From these
    `StandInLine` and `RingsStayClosed`.
  - *The refinement.* `BookImplementsLines`: `Spec` implements `LevelQueues`. The
    list of a level is *the* list of its orders by priority (`ListedOnce`), so
    that it is enough to know the orders of a level and their priorities: with a
    newcomer of a higher priority the list grows at its end (`ListGrows`), without
    one order it is the list with one place left out (`ListShrinks`), and the
    pointers that the code changes do not matter any more.
* **OrderServerProofs.** `SessionInv`: a buffered request carries its socket; an
  accepted request, wherever it is (sequencer, queue, history), has a client bound
  to its socket; a client with a response waiting has a socket. A binding is never
  changed (`BoundStays`), so each step keeps this. From it `OneSocket` and
  `ResponseHasSocket`. `FlushInv`, for `EveryRoundFlushes`: while the
  sequencer holds something, `recv` says that something was read, so the round
  does not end without handing it over. `OrderInv`, for
  `InNumberOrder`: among the requests of a client over one socket the numbers rise
  along every stage (wire, buffer, sequencer, history), a later stage precedes an
  earlier one, and all are below the client's next number (`Ordered`,
  `NumbersGrow`); a new connection has brought nothing yet (`FreshSockets`); and
  what waits in the sequencer carries rising times, none later than what its
  socket brings next (`TimesAgree`), so that a stable sort keeps the order. With
  `OneSocket` that is the order of all the requests of a client.
* **MarketDataFeedProofs.** That nothing is delivered is not inductive: a consumer
  in recovery could deliver when `checkSnapshotSync()` succeeds. The invariant
  adds that the consumer expects 0 and everything published on the incremental
  group has a number of at least 1, so a message is never the expected one, and
  that during recovery at most one message is queued; a sync needs a first
  message that is a START and a last one that is an END, and one message is not
  both. `NothingEverDelivered` and `TypeCorrect` come from the same invariant.
  `NumbersInv`, for `EveryNumberOnce`: the datagrams, sent or refused, carry
  disjoint runs of numbers, all below the next one, and none is left out. The
  constants are restricted by a hypothesis of the theorems.
* **MarketOrderBookProofs.** The rings are empty: `NewHead` leaves an empty ring
  empty, and with an empty ring no best level is assigned. Each handler keeps this.
  `LivesUntilFull` rests on `PoolCounts`: the index of the order pool is the number
  of ADDs, since CLEAR finds nothing to return. `LevelsAreRight` and
  `NothingIsForgotten` rest on `LevelsInv`: the index of the level pool is the
  number of table entries in use, and no two entries have the same level
  (`LevelsApart`); without that, adding to one level could change another.
  `AddOrderKeeps` then adds an order to the level it finds (`HoldsOneMore`) or to a
  new one (`HoldsFirst`). Totals are taken modulo 2^32 at each order in the code
  and once in the statement, which `SumModulo` reconciles.
* **SnapshotSynthesizerProofs.** Three layers.
  - *The updates.* What is said of the first k updates does not change when more
    are produced (`Stable`, `BookStable`), and no two ADDs of an instrument number
    the same order (`AddsDiffer`: the count of earlier ADDs has grown in between).
    `LogInv` says what the book knew that produced an update. `Mislabelled` is the
    condition of both theorems: an update that names its order by another id.
  - *The array.* `SynthInv`, of a synthesizer that runs: its number is the number
    of updates taken; an entry is null exactly if no order of the book has its id,
    and otherwise has the side of the ADD and the terms of the latest update about
    it (`Keeps`); the index of the pool is the number of ADDs taken and all blocks
    from it on are free (`PoolCounts`). `EntriesStep` shows that an update concerns
    one entry only; ADD, MODIFY and CANCEL have a lemma each for that entry.
    Neither half stands alone: that no assertion fires needs the array, that the
    pool has a block needs the count. From it `OnePoolServed`.
  - *The cycle.* `FlattenJoined`: every message of a flattened sequence of parts is
    a message of a part and comes after the first of that part, and no message is
    missing. Applied twice, to the orders of an instrument and to the instruments,
    it gives `CycleIs`; with `EntriesAreBook` the cycle is the book
    (`NumberedSnapshot`), and `BookStable` keeps it so while further updates are
    produced. From it `SnapshotsAreBooks`.
* **OrderManagerProofs.** What the client believes and what rests at the exchange
  are connected by what is on its way. `Consistent` says, per side and state of
  its order, which requests and responses can be under way and in which order: a
  NEW on its way means that nothing rests and nothing is to be heard, a terminal
  response is the last of its side, ids of the two sides differ. It is stated of a
  state given by its parts, since `moveOrders()` makes two calls in a step.
  `ManagerInvariant` shows it inductive; from it `OneOrder`, `RecordIsRight`,
  `StuckWhenIgnored` and, for the steps, `LifeCycleHolds`.
* **PositionInfoProofs.** `AllowedStaysWithin` is strengthened to
  `WithinLimitWhenFilled`: as long as only allowed orders left, the position is
  within the limit also if one side's order is filled whole. A check establishes it
  for its side (`AllowedFits`, where nothing the check computes leaves `int32_t`,
  `Int32Fits`); a fill of one side moves the position away from the other side's
  limit. `LossIsForgotten` rests on: a flat position has total 0.

Induction over naturals is done with the least member of a set of
counterexamples (`LeastMember`, from the well-foundedness of `<`), since an
induction theorem with a predicate as its parameter cannot be applied. The same
lemma shows that a recursive function exists (`StepsExist`): `AtIndex` and
`TotalQty` of the client's book and `FlattenSeq` of the snapshot are read off the
function it gives.

Only model-checked: liveness (`DeliversAll`, `ForwardedIsAnswered`), which is out
of the prover's reach, and `BooksBalance`, which is not true for every `Scale`: the
averages are divided, and only a suitable unit makes that exact. Only proved, and
not checked by a run: the type invariants of `MemPool` and `PositionInfo`, which are
parts of inductive invariants, and the theorems of `MarketDataFeedProofs`.

## 6. Not modelled, and what is left

Not modelled:

* **The bytes of the TCP stream**: partial and refused sends, the size of a
  response (order_server.cpp:102 sends the size of a pointer). What the client
  then reads is no message of the protocol.
* **The bytes that `OrderGateway` receives**: of its receiving half `OrderManager`
  has the effect only, one response handled and then a loop that never ends.
* **Start-up and shutdown**: construction, `start()`, `stop()`, destructors, and
  `createAndStartThread`, which hands references to locals to a new thread; the
  outcome depends on the lifetime of stack slots.
* **Formatting, logging to files, wrappers of system calls, the time helpers**,
  the values of the features, rounding of `double`, tests and the benchmark.

With these, every safety property that the runs show to hold for any instance has
a theorem. What is left to do is on the side of the models: the byte stream of
TCP, and a `MatchingEngine` with several books behind its queues.
