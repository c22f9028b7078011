# polybench: specifications

TLA+ modules that model polybench (a paper-trading engine for Polymarket, C++20
with Python strategies), TLC configurations that check them on small instances,
and theorems checked by TLAPS. Paths below are relative to the repository;
`PROJECT.json` maps every definition to the lines it stands for.

```
tlc -workers 2 -config MC_Exchange.cfg MC_Exchange     # any run of the table below
tlapm SpscRing_proofs.tla                              # any module *_proofs
```

## 1. The system

```
            ingest thread                              engine thread
  socket -> IoUringWS/TlsContext -> WsFrameParser -> MessagePipeline -> Engine::run
            (or ixwebsocket: PolymarketWS)  |         ^   |  poll, wait     |
                                        JsonParser ---+   |                 v
                                                      RingBuffer     MarketBook per market
  signal handler: Engine::stop ------------------------------------> Exchange (orders)
                                                                      PortfolioTracker
                                                                      Strategy (Python)
```

| component | state it keeps | operations | what is hard | what makes it correct |
|---|---|---|---|---|
| RingBuffer (`types/ring_buffer.hpp`) | `head_`, `tail_`, slots | `push` (ingest), `pop` (engine), `size` | two threads, no lock, indices that are out of date when used | no slot is touched by both, nothing lost, doubled or reordered, a bounded FIFO queue that delivers |
| MessagePipeline (`transport/ingest_pipeline.cpp`) | the ring, `sequence_`, `stopping_`, a condition variable | `ingest_message`, `poll_messages`, `wait_for_messages`, `notify_shutdown` | notifications without the mutex, a full ring in the middle of a frame, shutdown while waiting | every message dispatched once, in order, or dropped and (with statistics on) counted; no wait for ever |
| WsFrameParser (`transport/ws_frame_parser.hpp`) | header, payload and fragments received so far | `feed`, `reset`, `build_*_frame` | chunks cut anywhere, control frames between fragments, three encodings of the length, exceptions out of a callback | the messages the server sent, whatever the cuts and whatever an earlier connection left |
| IoUringWS, TlsContext | phase, socket, buffers, reconnect timer | one loop over completions, `subscribe`, `unsubscribe` | completions in any order, reconnection, one send buffer for all, the engine changing subscriptions meanwhile | a loss is always noticed and followed by a new connection, the server sends what was asked for |
| PolymarketWS (`transport/polymarket_ws.cpp`) | current subscriptions, connected flag | `start`, `stop`, `unsubscribe`, callbacks Open and Close | the engine thread erases subscriptions while the socket thread reads them without the mutex | the server sends what the set says, but for what was dropped meanwhile |
| JsonParser (`transport/json_parser.cpp`) | a parser and its padded buffer | a frame to typed messages | arrays with objects of unknown types, missing fields, a buffer with too little room behind the text | every object the engine handles becomes a message, or its whole frame is refused and logged, or the process ends |
| MarketBook (`trading/market_book.cpp`) | four vectors of levels, the market's assets, virtual orders | `on_book_message`, `on_price_change`, best and depth getters | snapshots and changes in any order, of assets it may not know | a map from price to size, but for prices a snapshot names twice; the best is the best |
| Exchange (`trading/exchange.cpp`) | virtual orders of each market | `submit_order`, `cancel_order`, `process_trade` | eight branches per match, trades that walk a book the strategy changes | an order ends once, respects its limit, keeps its turn |
| PortfolioTracker (`trading/portfolio_tracker.cpp`) | positions, marks, realized profit, a running mean and variance of returns | `on_fill`, `update_mark_to_market`, `on_market_resolved`, `record_equity_snapshot`, getters | partial closes, flips, settlement, a variance kept incrementally | profit is the money that moved, the variance is that of the returns |
| Engine (`engine.cpp`) | books, active markets, `running_` | `run`, `stop`, one handler per message | callbacks that submit, cancel or raise from inside other callbacks, stop at any time | a fill is reported once to strategy and portfolio, the run ends |
| main, signals, the log thread (`main.cpp`, `utils/perf_stats.cpp`) | the registered engine, two threads, `stop_logging_` | start-up, `Engine::stop` from a signal handler, destructors | a signal at any instruction and on any thread | every thread is joined once, the process ends (not from inside a section with a mutex) |
| Strategy (`trading/strategy.hpp`), `strategies/*.py` | next order id, the user's state | `submit_order`, `cancel_order`, getters, callbacks | re-entrance | as Engine |
| SmallVector, FixedString, ConfigLoader, logging, threads, bindings | containers, configuration | | | |

Interaction: the ingest thread feeds bytes to the frame parser, whose visitor
calls `ingest_message`, which parses and pushes. The engine thread polls batches
and handles one message after the other, calling the strategy, which calls back
into exchange and engine before its callback returns. Nothing but the ring, the
atomics of the pipeline, `running_` and the subscriptions of the transport is
shared between threads. Nothing is persisted: a crash loses everything.

`PROJECT.json` lists the hazards, each at its line with the properties that
would catch it.

## 2. The modules

**BoundedFifo**, **SpscRing**. SpscRing splits `push` into check, write and
publish, and `pop` into check, read, clear and release, one step per shared
access; a thread may be anywhere in its operation when the other moves. An
acquire load returns any value of the other index not older than the one seen
last (`Loadable`), which is what the memory model allows of one location; the
release stores order slots before indices. A slot holds `NoValue` when its
`std::optional` is empty. BoundedFifo is what the ring promises: a queue of
`Slots - 1` values. The mapping is `Contents`: the slots from `tail` to `head`;
the publish step enqueues, the release step dequeues, every other step stutters.
`push_wait` and `pop_wait` are the operations in a loop. A stale load lets a push
see a full ring that is not full; that refusal is in the model.

**LevelBook**, **MarketBook**. LevelBook keeps, per market, outcome and side, a
function from price to size. MarketBook keeps the vectors the code keeps, in the
order the code leaves them: a snapshot replaces both sides of an asset, a change
finds its level and overwrites, erases or appends. A snapshot is stored unchecked
(`market_book.cpp:33-39`): it may name a price twice or a size of zero, which is also
what a text that is no number becomes (`json_parser.cpp:208`), and so it may here.
The getters and the next change then find the first of the two levels, and its removal
uncovers the second: `Uncover`, the one update of LevelBook that no message names.
`doubled` remembers which prices the last snapshot of a side named twice. Negative
numbers and NaN, which `from_chars` accepts, are left out. (The vectors are not sorted,
though `market_book.hpp:48-51` says so; the getters search all levels, which is
what `BestIsExtreme` rests on.) MarketBook implements LevelBook, and message by message: `MessagesDoAsTheySay`
ties each update of the vectors to the update of the map that its message names
(or, of a doubled price, uncovers), which the refinement alone, with its message hidden, would not. `marks` are the
portfolio's mid prices: after each message `UpdateMtm` does what `update_mtm` in
`engine.cpp` does, and `MarkFollowsBook` compares the mark with the mid of the map.
A book that becomes empty leaves the mark as it was; the model does the same and the
property says so. A message and its mark are one step: the strategy's callback
between them, the refresh of a mark by a trade and the settlement that forgets marks
are left out.

**OrderLifecycle**, **Exchange**. An order is submitted and becomes open, filled
or lost; an open one is filled or cancelled. Exchange has the three operations
with LevelBook's updates between them. The eight branches of `try_fill_taker`
are two conditions, `TakesFacing` (the other side of the same outcome) and
`TakesMirror` (the same side of the other outcome at the complement of the
price). Orders fill whole in the code, so quantities are left out; `1.0 - p` is
`Complement`, with the rounding error of the double as a constant per price.
Because comparisons with it are exact, prices that add up to one in decimals may
miss each other by one unit in the last place; in the checked instance 0.43 and
0.57 do. An order the exchange refuses is still numbered, as in
`Strategy::submit_order`. A book message about a market that is not configured makes
it a book (`CreateBook`); that book knows no asset and stays empty, so from then on
orders to that market rest instead of being lost. Exchange gets LevelBook's updates,
levels of size zero and `Uncover` included: matching asks for prices, and sizes only
for the queue position.

**JsonParser**, **MessagePipeline**. JsonParser is a pure module: which objects of a
frame become messages, which fields each type requires, when the parser throws, and
how the padded buffer grows (`Grown`) and whether simdjson finds its padding behind
the text (`Refused`). simdjson parses on demand: it refuses at once only a text it
cannot cut into tokens (text `broken`); one that is neither object nor array (`other`),
an element that is no object, and text that goes wrong later make `value()` throw
(`ParseThrows`). A text frame `PONG`, which neither transport keeps back, is such a
text. A frame is a length, a kind of text and a sequence of objects; an object is a
type and the fields it lacks. MessagePipeline extends it. Objects are numbered as
they arrive, a message has the number of its object, and a frame being pushed is the
set of its numbers, pushed smallest first. Three threads: ingest (parse, push message
by message, bump `sequence_`, notify), engine (the loop of `Engine::run`: poll, spin, check,
observe, evaluate the predicate, become a waiter, time out, sleep), and the one
that stops. The ring is the bounded queue SpscRing implements, with two counters
for how far each thread's view lags behind. Becoming a waiter is a step after
the predicate, because `notify_one` is called without the mutex. An exception out of
the parser leaves the ingest thread and ends the process (`Alive`).
`NothingLostSilently` is an account of all objects: those of a handled type that
arrived are dispatched, in the batch, in the ring or still to push, each once and in
order, or a full ring dropped them or simdjson refused their frame.

**WsFrameParser**. One action per turn of the loop in `feed`. A frame is encoded
byte by byte in the header and bit by bit in the payload (a byte of payload, and of a
mask, is a bit, so that the mask is addition modulo 2). `Feed` hands over the next
bytes, cut anywhere; `Reconnect` drops the rest of the stream and resets the parser.
The streams are any that a server may send (`WellFormed`): the width of a length has
room for it (`Announced`), a message in fragments is continued before the next one
begins, with whole control frames anywhere between them. A frame may also announce more
than `kMaxPayloadSize`: `feed` throws then (`PayloadTooLarge`), and whenever it is called
again. `MessagesOf` says what the frames mean, by their positions in the stream, and
`EmitsMessages` compares it with what the visitor was called with. `BigEndian` is the
sequence of bytes that `build_frame` writes by shifting, `FromBigEndian` what
`on_ext_header_complete` makes of them; both are recursive functions, divisions by 256
and multiplications, for lengths of up to eight bytes.

**Portfolio**. `on_fill` with its cases extend, reduce, flip and close,
`update_mark_to_market`, `on_market_resolved`, and realized, unrealized and total
profit. Prices and quantities are integers; averages are kept in fractions
(`Scale`) that every position size divides, so the arithmetic is exact and the
rounding of doubles is left out. `record_equity_snapshot` keeps Welford's running
mean and sum of squared deviations; the mean is kept in `Parts`, which every number of
snapshots divides, and `WelfordIsTwoPass` compares the sum with the one computed from
all returns (`returns`, history). The first snapshot counts as a return of zero, in the
code and here. `equity_history_` is written and never read, and is left out. `cash`,
`entries`, `trimmed` and `reopened` are history.

**Engine**. The loop of `run` and its handlers with the call stack as `agenda`:
the strategy's callback runs at its head and may submit, cancel, return or
raise, and a taker's fill is reported from inside `submit_order`. Which orders a
trade fills is Exchange's business; here it is any subset of those resting.

**IoUringWS**. One thread runs `io_loop()`: `pc` is where it is in the loop (drain
the send queue, ping, submit, wait, reap, subscribe, reconnect), `phase` is the
code's. An operation is prepared (`sq`), with the kernel (`inflight`) or completed
(`cq`); it carries the number of its connection, because an old send may complete
when the next connection is up. A handler of the completion switch is an action
(`ConnectSucceeds`, `RecvEnds`, `Handshaken`, `Upgraded` and so on), and it
includes the receive prepared again when the kernel ended it. All sends point at
`pending_send`, so `Submit` turns what is still to be sent into garbage, and a
subscription that `flush_tls_wbio` cuts into several sends of 16 KB (`Cut`; two stand
for several) is garbage as a whole. What a handshake writes between its first and its
last message is sent only if OpenSSL wants to write (line 585); the model sends none of
it, and the server may then stay silent for ever. The engine
thread changes the set, looks at `connected_` and queues a message in three steps.
The kernel completes operations in any order and may end a receive at any time;
the server (external) answers by its stage: a greeting, an upgrade, then
subscriptions. With `ws://` the code writes the subscription to a TLS session that
does not exist (line 639): in the model SSL_write refuses and nothing is sent
(`Subscribe`), or the process is killed (`WritesToNoSession`). `SubscriptionsAgree` is
about TLS. Left out: bytes that follow the HTTP response in
the same read, stale operations on a file descriptor that was reused, the lengths
of the waits. A receive is a whole answer of the server; cutting is WsFrameParser's.

**PolymarketWS**, **Lifecycle**. PolymarketWS has the thread of ixwebsocket with its
callbacks: Open sets `connected_`, then walks the set of subscriptions without the
mutex (it may see an element being erased, miss it, or run into the freed node:
`crashed`), then sends; and `unsubscribe` with its three steps of erasing under the
mutex, testing `connected_` and sending. Lifecycle composes it with the rest of the
process: main from the registration of the signal handlers to the last destructor
(`mpc`), `Engine::stop` step by step (`stopper`), executed by main (from the
resolution of the last market and from destructors) or by a signal handler that
interrupts any of the four threads at any step; the log thread and the io_uring
thread. A thread whose stack the handler borrows does not move (`Free`). What C++ makes
of a join of oneself, of a second join, or of a `std::thread` destroyed while
joinable is `outcome = "terminated"`. With io_uring a resolution on main takes
`subscription_mutex_`, and, if connected, `send_mutex_` (`UnsubscribesLocking`, one step
into and one out of each section), and the io_uring thread takes the same two when it
drains the queue and when it subscribes (`IoThread`). A thread the handler suspends keeps
what it holds, so a signal on main inside a section leaves the handler joining a thread
that waits for main: the process hangs. `RunEnds` names exactly that state (`Hung`) as
the one that is not left for the end of the process, and is violated without it. Locks inside libraries (ixwebsocket's
sending, the logger, malloc) would hang in the same way and are left out, as is
what `IoUringWS::unsubscribe` erases and sends, which is IoUringWS's. `StopIsSafe` names the cases that do end so in
the code: a handler on another thread than main, and a signal inside io_uring's
`start()`, between `running_` and `io_thread_`. The load and the store of
`running_` in `IoUringWS::stop` are one step: `Engine::running_`, tested before, lets
one stop at a time get there, but for handlers on other threads, which `StopIsSafe`
excepts. A second signal ends the process at once (the handler restores the default)
and is therefore left out.

How they compose: Exchange extends LevelBook, which MarketBook implements, so the
exchange is checked over the abstract book; MessagePipeline uses the queue that
SpscRing implements; Engine is Exchange with the matching left open and the
control around it closed; MessagePipeline extends JsonParser and Lifecycle extends
PolymarketWS.

## 3. The runs

| run | module, configuration | shows | instance |
|---|---|---|---|
| `ring` | SpscRing, `MC_SpscRing` | no slot race, no overwrite, order, refinement of BoundedFifo, delivery | 4 slots, 6 pushes: the ring wraps and fills |
| `market_book` | MC_MarketBook | a price is doubled only by a snapshot; best is best; refinement of LevelBook, message by message; the mark follows the mid | one market with its two assets and one of another market, the prices 0 (which is no mark) and 50, sizes 0 and 1, three sides for snapshots: empty, two prices, one price twice; up to 3 levels |
| `exchange` | MC_Exchange | one end per order, time order, limits, queue position always zero, refinement of OrderLifecycle | 2 orders to a configured market or one that gets its book later, 3 order prices (one invalid), 2 book prices that are each other's complement up to rounding, any ladder of one level per side |
| `exchange_trade_below_limit` | same | violation, see 6 | |
| `pipeline` | MC_MessagePipeline | nothing lost silently, every accepted message dispatched, the loop ends after a stop | capacity 2, batches of 2, buffer of 2 and padding of 1; five frames: a text with room behind it, one that fills the buffer and is refused, one that makes it grow and overflows the ring with an object of no type among its messages, one without a message, one that throws; 4 objects |
| `portfolio` | Portfolio, `MC_Portfolio` | flat carries nothing, profit is cash, a fill or a settlement at the mark changes no equity, the running variance is the two-pass one | one market, 3 fills of 0 to 3 shares and 3 snapshots (4 of both together), positions to 2, 2 prices, 3 marks: every flip and partial close |
| `portfolio_average` | same | violation, see 6 | |
| `engine` | Engine, `MC_Engine` | fills reported once and to both, cancel is final, the last resolution or a stop ends the run | 2 configured markets and one unknown, 2 orders, batches of 2, a stack of 7 |
| `frames` | MC_WsFrameParser | the messages of the stream, headers that are built are parsed | 45 streams of up to 3 frames, chunks of 1 to 3 bytes, two connections; headers for 10 lengths around 126 and 65536 |
| `lifecycle` | Lifecycle, `MC_Lifecycle` | stop and destructors join every thread once whenever a signal comes to main, the process ends but for the one hang of 6, the server follows the set of subscriptions | both transports, with and without the log thread, 2 assets, a signal on any of 4 threads, any number of losses |
| `connection` | IoUringWS, `MC_IoUringWS` | a loss is noticed, once; the server's subscriptions follow the set; the submission queue is long enough for every receive | `wss` and `ws`, 2 connections, queue of 3, one asset to drop and one to add, 2 completions waiting |
| `connection_reconnects` | same | violation, see 6 | one asset, a socket always to be had |

Why the bounds are enough. Two orders are what priority, a fill inside a
callback and a cancellation during a fill need; a third one repeats a pair.
Four slots make every distance of head and tail on a circle occur, with wrap. In
the pipeline the interesting meeting is one message against one wait, and one
frame larger than the ring. Three fills make open, partial close, extension and
flip in every order. Chunks of up to three bytes cut two-byte headers, lengths
and masks at every place and join the end of a frame with the beginning of the
next one. A submission queue of three is
the smallest that holds what one completion prepares (a subscription in two sends and a
receive), so messages of the engine meet a full queue; two connections are a loss and what
follows it. Lifecycle has no bound: two assets are one market that resolves while
another is subscribed. Three snapshots are the fewest with a return on either side of
the mean. The bounds `MaxPushes`, `MaxOrders`, `MaxMessages`, `MaxFills`,
`MaxSnapshots`, `MaxReports` (fills and snapshots together), `MaxPosition`,
`MaxDepth`, `MaxLevels`, `MaxChunk`, `MaxConnections` and `MaxInFlight` are
guards of the model alone: the code has no such limits (a vector, a stack or a
counter grows).

`CHECK_DEADLOCK FALSE` stands where the system may really stop: after `run()`
returned (`engine`, `pipeline`), when the process has ended (`lifecycle`), when the
server sends nothing more (`frames`), and after `stop()` or a failed name resolution (`connection`).

Every property of a passing run has a mutant in its module, a definition named
after what it gets wrong, under which TLC finds that property violated.

### Fairness

* SpscRing: weak fairness of the steps of a push, and of a pop, that has begun:
  they are straight-line code of a thread that runs. Strong fairness of a pop
  that loads the current `head_`: the engine loop polls again and again, and a
  release store becomes visible in finite time (a store is not hidden from later
  loads for ever, [intro.progress]). Nothing is assumed of the producer's start.
* MessagePipeline: weak fairness of the engine's loop, timeouts included
  (`wait_for` returns), strong fairness of a poll that sees the newest message,
  and of a stop that has begun. The ingest thread may hang at any step.
* Engine: the engine thread runs what is on its stack and the batch it has, and
  every callback returns. That the strategy submits finitely often is the bound
  `MaxOrders`; a callback that never returns hangs the engine.
* Lifecycle: every thread that is started runs, the handler included, and the end of
  a batch is not passed over for ever by further resolutions (strong fairness of
  `BatchEnds`). A step that waits for a mutex is fair only when the mutex is free.
  Nothing is assumed of the network or of signals.
* IoUringWS (`connection_reconnects`): weak fairness of the loop's thread, of time,
  and of connects and sends in the kernel; a socket is always to be had and the process is
  not killed. Nothing is
  assumed of the server. With all of it the reconnect is still passed over.

## 4. What is proved

TLAPS checks, for every value of the constants:

* **SpscRing_proofs**: `TypeCorrect`, `SlotsAreNotShared`,
  `NoValueIsLostOrInvented`, `RingImplementsFifo`, `DeliveryIsOrdered`, for every
  ring of at least two slots and any number of pushes. The properties are not
  inductive: a check is made on an old index and used after the other thread
  moved. `IInv` adds that old views err on the safe side (`ViewsAreBehind`, as
  distances on the circle), that a push past its check still has a free slot and
  a pop past its check a filled one (`ChecksStillHold`), which slots hold values
  (`SlotsMatch`), and what the locals hold (`PoppedMatches`). The refinement
  shows publish = enqueue and release = dequeue on the sequence of slots between
  the indices; order adds that delivered and contained values increase. That nothing is
  missing from what was delivered is the refinement's part, not that of order.
* **Exchange_proofs**: `TypeCorrect`, `QueuePositionIsAlwaysZero`,
  `NoOrderFillsTwice`, `TimePriority`, `FillsRespectLimits`, for any markets,
  prices, rounding errors, ladders and trades. `IInv` adds that a resting order
  is the request of its id, in its market, once (`QueueInv`), and that fills and
  cancellations are of submitted orders and exclude each other (`HistoryInv`).
  The queue position is zero because an order rests only if no level is good
  enough to take, and the volume ahead is summed over levels that are.
  Time priority (between orders alike in market, outcome, side and price) follows: all
  that a trade reaches it fills at once.
  `ExchangeImplementsLifecycle` rests on the same `IInv`: it makes the next id new (so
  that a submission appends a status) and a resting order neither filled nor cancelled
  (so that only open orders end). One lemma per operation says which step of
  OrderLifecycle it is.
* **Portfolio_proofs**: `TypeCorrect`, `FlatIsClear`, `ProfitMatchesCash`,
  `FillsAtMarkEarnNothing`, `SettlementsAtMarkEarnNothing`, `WelfordIsExact`, for any
  finite set of markets and any prices, quantities and bounds. All but the first two
  are about sums over a set. What adding, changing or scaling an element does to one
  is proved from the library's definition, unfolded once (`SumUnfolds`); where an
  induction over the set is needed, `SetByElements` looks for a smallest counterexample
  among the subsets, without an operator as parameter. `CashInv` adds to `ProfitIsCash`
  that cost basis and average agree as long as a position was neither trimmed nor
  reopened (`MatchInv`): then extending it adds what was paid, and closing it books the
  difference. A fill at the mark changes realized by what it takes from unrealized
  profit, which is the same lemma with the mark in place of the price. `ReturnsInv` adds to
  `WelfordIsTwoPass` that the mean starts at zero and that the first return is zero; the
  division by the number of snapshots is exact by `PartsAssumption`, moving the mean by d
  adds n * d * d to the squares (`SquaresShifted`), and squares add up to zero only where
  each is zero, which makes `HasSharpeRatio` exact too.
* **MessagePipeline_proofs**: `TypeCorrect`, `EverythingIsAccounted`, for any frames,
  capacity, batch size, buffer and padding.
  `IInv` adds `WorkHasItsPlace`: only a poll and a dispatch hold a batch, and only a
  push (or a thread that threw) a frame, so that the assignments that empty them lose
  nothing. Everything else rests on `Accepted`, the three sequences a message passes
  through in one row: polling and dispatching leave it as it is, a push appends the
  smallest number of the frame, and a frame's numbers are above all earlier ones.
* **MarketBook_proofs**: `NoPriceTwice`, `MessagesAreTheirUpdates`, `ExtremeIsBest`,
  `MarksFollowBooks`, `BookImplementsLevelBook`, for any markets, assets, prices, sizes
  and vectors of any length, snapshots with doubled prices included. That a price is
  doubled only where the last snapshot did it (`NoPriceTwice`) is inductive with the types:
  a change appends a price only where `find_level` found none, and neither overwriting nor
  erasing makes a double. One lemma per case of `on_price_change` (`RemovedLevel`,
  `AddedLevel`, `ReplacedLevel`) says what it makes of the map, and is a step of LevelBook;
  the removal of a doubled price is `Uncover`. LevelBook also bounds the levels of a book: a vector has
  at least as many levels as prices, whose number is a cardinality (`LevelsAtPrices`). `get_best_bid`
  is a `CHOOSE` among the greatest: that there is one (`BestIsExtreme`) is proved by
  looking for a least number without it, `LeastNatural`, which follows from the library's
  `WFMin` where its induction theorems cannot be used. `MarkFollowsBook` is the
  invariant `MarkInv`: the mark of an asset is the mid of its book, if that is a price.
* **Engine_proofs**: `FillsReachBothOnce`, `FillsAreNotForgotten`,
  `CancelledStaysCancelled`, and their invariant `AgendaKeepsReports`, for any markets,
  orders and depth of callbacks. "Told once" and "final" say nothing of what is still on
  the agenda (the C++ call stack), so `IInv` adds that the two reports of a fill wait
  side by side, the strategy's first (`PairsTogether`), that no report waits twice or
  after it was made (`ReportsAreNew`), and that a filled order has a number and has left
  the book (`FilledHasLeft`), which is why `cancel_order` does not find it. A lemma each
  says what pushing, popping and unwinding do to the places on the agenda.
* **Transport_proofs**, the parser: `MessagesAreEmitted`, for any streams a server may
  send, any mask and any size of chunks, and `BuiltHeadersAreRead`, for any lengths of
  a `size_t`. `EmitsMessages` says nothing of what the parser holds. `FrameInv` does: for
  some m, the first m frames were delivered, the fragment is what the open message
  among them carries (`FragmentIs`), and the bytes held, the rest of the chunk and the
  rest of the stream are, in a row, the stream from the end of frame m (`At`,
  `EndOf`). Which state reads what follows (`Reading`): fewer than two bytes of the next
  header, a header whose first two bytes give its length, a part of a payload whose
  header gave its fields, or, for good, the header that was given up. Each action is a
  lemma. They rest on three facts: a header starts with the bytes its frame encodes to,
  which determine its length (`HeaderTotalIsRead`) and its fields (`FieldsAreRead`);
  encoded frames follow each other without a gap (`FrameInStream`); and one frame more
  adds one message at most, made of the data since the frame that began it
  (`MessagesGrow`, `JoinedDataGrows`, `LastBeginning`). Masking twice is the identity
  modulo 2 (`MaskedTwice`). That n, divided into k bytes, is n again when read back
  (`LengthsAreReadBack`) is an induction over the bytes, and that the library's
  `FlattenSeq` joins sequences one after the other is one over their number:
  `ByNumbers` takes a set in the place of the operator that the library's induction
  takes, and each recursive function is first shown to exist (`QuotientsExist`,
  `ValuesExist`, `PartsExist`).
* **Transport_proofs**, the end of the process: `EveryThreadIsJoinedOnce`, `ServedIsSubscribed`, for any threads
  and assets. `StopInv` adds that `main` stands still while a handler runs on it
  (`HandlerInPlace`), where `main` is when which threads exist (`MainInPlace`), and that
  whoever is about to join finds a thread (`JoinsFindThreads`): what the handler has
  joined, `main` sees joined. `SetInv` adds that what the callback of a new connection is
  about to ask for holds the whole set, and beyond it only assets being dropped, which
  `unsubscribe` erased before it looked at `connected_`.
* **IoUringWS_proofs**: `IoUringTypes`, `EveryLossIsNoticed`, `ServerAgrees`, for any
  assets, any number of connections and any queue of three submissions or more.
  `LossIsNoticed` is about moments at which the ring is waiting; in between, the operation
  that will tell the end has completed and is not prepared again. `LossInv` says where it
  is then (`WatchInv`), that there is room to prepare it (`RoomInv`: two sends,
  which is a subscription in two pieces, and one receive are prepared while a batch of
  completions is looked at, hence the three of `QueueDepthAssumption`), and that an upgrade is asked for once and answered after that
  (`AskInv`). `SubscriptionsAgree` is about moments at which nothing is on its way;
  `AgreeInv` says, of any moment, that the server will send what the set holds once it
  has what is in the ring, in the queue and in the hands of the engine (`ServedInv`),
  that until a second send overwrites the buffer there is one send at most
  (`OneSendInv`), and that a new connection begins with nothing (`FreshInv`).

Assumptions are those named in the modules (types of constants, `Slots >= 2`, a
`Scale` that every position size divides and `Parts` that every number of snapshots
divides, finitely many markets, prices that are numbers, a queue of at least
three submissions, frames as a server may send them, lengths of payloads that fit eight bytes). `Exchange_proofs` argues about best prices through `MinExists` and
`MaxExists`, by induction-free facts on finite sets.

Only model-checked: everything under fairness (`EveryValueDelivered`,
`AcceptedIsDispatched`, `StopEndsLoop`, `StopEndsRun`, `RunEnds`, and the violated
`ReconnectsAfterLoss`), which is out of the prover's reach. Every invariant, action
property and refinement of the passing runs is a theorem.

## 5. What is not modelled

TlsContext (calls of OpenSSL, without decisions of its own), the containers,
`PolymarketWS::subscribe` (nothing in the program calls it for this transport), the
texts and numbers inside a frame, the strategy's view of a book between a message and
its mark, and the Python example strategies, which are user code: Engine lets a
strategy do whatever they do. What becomes of the resting orders of a settled market
is modelled (a late trade fills them) and no property is stated about it, for nothing
in the repository says what should happen. Left out for good: configuration, logging, bindings, thread pinning and
statistics (`RingBuffer::size` among them: it reads two indices that move, and
only counters are made of it); they decide nothing. Rounding of doubles is
modelled for complements of prices only. Weak memory is modelled for the indices
of the ring; the relaxed counters of the statistics are left out.

## 6. Where code and comments disagree

* `exchange_trade_below_limit`: `exchange.cpp:189` compares `order.price <= price`
  for bids and asks alike, so a resting bid is filled by a trade above its price
  and not by one below. `market_book.hpp:15` says BUY YES@p matches SELL YES@p.
* `portfolio_average`: a partial close leaves `cost_basis` (`portfolio_tracker.cpp`,
  line 49 and after), and the next entry divides it by the smaller position, so
  the average leaves the range of the entries. `portfolio_tracker.hpp:10` calls it
  the VWAP of entries. `ProfitIsCash` and `FillAtMarkIsNeutral` are stated for
  keys that were never extended after a partial close, for this reason.
* No run of its own: `io_uring_ws.hpp:71` calls the send queue lock-free; both
  threads take `send_mutex_` for it (`io_uring_ws.cpp:193`, 417). A signal on main between
  lock and unlock runs `stop()`, which joins a thread that waits for that mutex (line
  209), and the process hangs (`Hung`, the exception of `RunEnds`). `subscription_mutex_` (line 623 against `unsubscribe`) is
  exposed to the same.
* `connection_reconnects`: `io_uring_ws.cpp:532` says "Clean up and trigger reconnect".
  After a loss nothing is in flight, so every wait times out, and line 460
  continues the loop past the reconnect at its end (lines 687-692). Only a waiting
  time that is over within the batch of the loss leads to another connection.

* No run: the comments in `add_maker_order` (`exchange.cpp:125-140`, "BUY YES waits behind:
  SELL YES at order.price and BUY NO at complement") describe a queue. An order rests only
  if none of the levels it names is there, so the volume ahead is zero for every order
  that ever rests, and each is filled by the first trade that matches it: `NothingWaits`,
  which holds and is a theorem, says so.

A resting order matched through the other outcome is reported filled at
`1 - order.price` (`exchange.cpp:192`), while a taker matched in that way pays its
own price (lines 68-70); no comment says which is meant, and the model does what
the code does. `ws_frame_parser.hpp:52-53` says that the visitor may throw and the parser remains
consistent; it is reset only after the call, so another `feed` would hand over the
same frame again. There is no other `feed`: nothing catches the exception, and the
process ends. The buffer of JsonParser begins with 1024 bytes and its whole size is
passed as the capacity (`json_parser.cpp:15-21`), so a text that fits the buffer but leaves
less than the padding of simdjson behind it is refused: the buffer grows only for a text
that does not fit. The refusal is logged. The log line for malformed messages
(`json_parser.cpp:23`) suggests that they are skipped, but on-demand parsing notices few of
them there: a text frame that is not JSON, such as `PONG`, throws at line 38 or after it,
nothing catches the exception, and the process ends. The one buffer of all sends (`io_uring_ws.cpp:290`) is overwritten
while a send is in flight, although the comment above it (line 289) says that the
buffer has to live until the completion; a subscription of more than 16 KB overwrites
itself in this way and is never understood. `market_book.cpp:33-39` takes the levels of
a snapshot as they come, so a price sent twice, or two prices that are no numbers, are two
levels of which the getters see the first. With `ws://` the subscription is written to a
null TLS session (line 639), whatever OpenSSL makes of that.

## 7. Plan

Next, in this order:

1. **Connection**, continued: bytes after the HTTP response in the same read, the
   back-off with its shift.
2. **Trading**: Engine with Exchange, Portfolio and LevelBook in one module, so that
   marks, fills and settlement meet; `arbitrage.py` as the strategy, whose pending
   order is assigned after its fill was reported.
3. **SmallVector**: the inline buffer and what a move leaves behind.

Runs are few and answer one question each; a new module brings one passing run
with its properties, and a violation run only where a comment disagrees.
