# A verification of crypto-hft in TLA+

crypto-hft is a C++ trading system in the making: websocket adapters of three
exchanges feed order books and publish the top of the book to a client.  The
part that exists and matters is concurrent: threads of the adapters, threads of
the market data engine and the thread that owns both meet in the order books,
in a lock-free queue and in the flags and joins of their shutdown.  This
directory models that part, checks it with TLC on small instances and proves
its safety properties with TLAPS for every instance.

Paths below are relative to the root of the repository.

## 1. Inventory

| Component | State | Operations | Interacts by |
|---|---|---|---|
| `OrderBook` (src/core/OrderBook.cpp) | two sorted maps from price to size, a `shared_mutex` | updateBid/Ask, removeBid/Ask, setSnapshot, clear; getBest*, getSpread, getMidPrice, volumes, cumulative volumes | called by any thread |
| `MarketDataEngine` (src/core/MarketDataEngine.cpp) | books by symbol, lock-free queue of updates, callback, `running_`, receiver threads, dispatcher thread | initialize, registerCallback, stop; handlers of snapshots and deltas; the loops of its threads | callbacks registered with adapters; shared books; queue; the client's callback |
| `CoinbaseAdapter`, `KrakenAdapter`, `BinanceAdapter` (src/exchanges) | `connected_`, `authenticated_`, io_context, work guard, io thread, outstanding read and writes, registered callbacks | connect, disconnect, subscribe, unsubscribe, on_message, destructor | run the engine's callbacks on the io thread; boost |
| `IExchangeAdapter` | none (interface) | snapshots, deltas, callbacks, orders | |
| `TradingSystem` (src/core/TradingSystem.cpp) | adapters, engine | initialize, start, stop, destructor | creates and ends engine and adapters |
| `main` (src/main.cpp) | pointer to the system | signal handlers, a loop that sleeps | calls TradingSystem |
| `ConfigManager` (src/infra) | YAML tree, path | load, reload, has, getters with and without default | read by TradingSystem |
| `Logger` (src/infra) | singleton logger | initialize, log | called by all |
| `utils` (src/utils) | none | load_env_file, coinbase_create_jwt | called by Coinbase's connect |
| `MockExchangeAdapter` (tests/unit) | orders, books, mutexes, simulation thread, detached execution threads | submit, cancel, modify, feed, simulate | callbacks of the tests |
| `RiskEngine`, `ExecutionEngine`, `StrategyEngine`, `MetricsReporter`, `SignalGenerator`, `ModelTrainer`, `PairSelector`, `ExchangeUtils` | declared only | declared only | nothing calls them |

What is hard here, and what would make each component correct:

- **OrderBook**: each call is atomic but `getSpread` and `getMidPrice` are two
  calls.  The guards of updateBid and updateAsk look at one level; the book must
  not cross unless a snapshot said so, whatever the order of the calls, and a
  torn read must stay within what the book was during the call.
- **MarketDataEngine**: several io threads work on one book level by level;
  updates are assembled from four reads; the queue survives a stop; a callback
  must not run after stop; stop must return; a book fed by one exchange must
  follow it.
- **Adapters**: the io thread calls disconnect and connect itself, from within
  a handler, while the owner may disconnect or destroy; the engine is freed
  after disconnect, so no handler may run then; one read at a time; requests
  written while another is under way; what reaches the callbacks must be what
  the exchange said, through three formats and through messages that are
  malformed half-way.
- **TradingSystem and main**: order of start and end, failures of initialize,
  signals at any point, a second one within the handler of the first, on a thread
  that may hold what the handler needs.
- **ConfigManager**: which keys are found; defaults.
- **Mock orders**: executions on detached threads racing cancel and destruction.

PROJECT.json lists each hazard at its line with the properties that face it.

## 2. Modules

| Module | What it holds |
|---|---|
| `Book` | the value of an OrderBook and each member function as an operator on it; the loops of the cumulative volumes are recursive functions on the set of keys they have yet to visit |
| `OrderBook` | an OrderBook shared by writers and readers: one action per critical section |
| `OrderBookMC` | instances of it for TLC |
| `MarketDataEngine` | the engine, its threads and the io threads in its handlers; it uses `Book` for its books and INSTANCEs `OrderBook` as what each of them implements |
| `MarketDataEngineMC` | messages and instances for TLC |
| `ExchangeAdapter` | the life of one adapter: owner's thread and io thread |
| `BookMessages` | the formats of the three exchanges: what on_message makes of a message, the requests, and how an exchange writes an event down |
| `ExchangeFeed` | an `ExchangeAdapter` with what goes over its connection: requests written, messages read, events delivered |
| `ExchangeFeedMC` | symbols and events for TLC |
| `TradingSystem` | the process: main, TradingSystem and its signal handlers around an `ExchangeAdapter` and the life of the engine |
| `ConfigManager` | loads and reload, and the getters as operators on trees |
| `ConfigManagerMC` | trees for TLC |
| `LoopProofs` | what proofs about loops rest on: induction over turns and over the subsets of a finite set, sums |
| `BookProofs` | lemmas about the operators of `Book` |
| `OrderBookProofs` | theorems about `OrderBook` |
| `MarketDataEngineProofs` | theorems about `MarketDataEngine` |
| `EngineBookProofs` | theorems about the books of `MarketDataEngine` |
| `ExchangeAdapterProofs` | theorems about `ExchangeAdapter` |
| `ExchangeFeedProofs` | theorems about `ExchangeFeed` |
| `TradingSystemProofs` | theorems about `TradingSystem` |

Definitions whose comment says "Faulty" are the code with a plausible bug put
in.  No specification uses them: each shows, substituted for the definition
that follows it, that a property notices such a bug.

### OrderBook

`book` is the pair of maps; a `std::map` from price to size is a function on the
set of its keys.  A price is its rank (1, 2, ...) and 0 is the 0.0 the code
answers for an empty side.  Every writer's call is one action, as it holds the
unique lock throughout; a call of getSpread or getMidPrice, and the pair of calls
getBestBid, getBestAsk a test makes, is two reads (`ReadBid`, `ReadAsk`) between
which any action may come, in either order where C++ leaves the order open.
`reader` holds a reading thread's local variables; its field `opened` is a
history variable, the top of the book when the computation began.

### MarketDataEngine

| Variable | Code |
|---|---|
| `running`, `orderBooks`, `queue`, `updateCallback` | `running_`, `orderBooks_`, `updateQueue_`, `updateCallback_` |
| `books` | the OrderBook objects: one for each symbol and session, because a handler keeps the one it looked up when a second initialize replaces it |
| `control` | where the owner's thread is in initialize, registerCallback or stop |
| `handler` | where each io thread is in handleOrderBookSnapshot or handleOrderBookDelta, and its local variables |
| `receivers`, `dispatcher` | the threads of the engine |
| `registered` | the adapters whose callbacks lead here |
| `received`, `published`, `taken`, `venue`, `exact` | history: counts, and the exchange's own book |

An action ends where another thread may see or change what the code works on.
One turn of the loop over the levels of a delta is one action (`ApplyBid`,
`ApplyAsk`), each of the four reads of the published update is one, the enqueue
is one.  The turns of one loop may come in any order: a message may name its
levels in any order.  moodycamel::ConcurrentQueue is external: a sequence per
producer, and a consumer that takes the head of any of them.  Two data races of
the code are nondeterministic choices: `registerCallback` takes two actions,
between which the dispatcher may find the function set or not, and may crash the
process by calling it half assigned (`CallTorn`); the fields of a snapshot's
update that nothing assigns hold any value of `Garbage`.

The exchange is external: it sends snapshots and deltas, and its own book
(`venue`) never crosses.  `exact` says that no message since the last snapshot
had a bid take the price of an ask that the message removes.

### ExchangeAdapter

`at` is where each of the two threads is: the owner's, in connect, disconnect or
the destructor, and the io thread, in run(), in the engine's callback, in
disconnect or in a reconnection.  `connected`, `authenticated`, `stopped` (the
io_context), `guarded` (the work guard), `joinable` and `reading` (a read is
outstanding) are what they share.  disconnect is split at the test of
`connected_`, the store, the stop and the join, because two threads run it.
`venue` chooses the adapter: they differ in what on_message does after a
message.  boost is external and modelled as the code relies on it: a stopped
io_context runs no further handler and nothing calls restart(); joining oneself
throws, and disconnect catches.

### BookMessages and ExchangeFeed

A JSON object is a record with the fields the code asks about, a number in a
text the number; `NotANumber` is a text that std::stod refuses, `NotText` a value
of another type where a string is wanted.  `OnMessage` gives what on_message
comes to: the event for a callback, the flag `authenticated_`, and whether the
handler reads on, returns without a read or disconnects.  The exchanges' side -
which symbols a request asks for, how an event is written - is external, as are
the network, which delivers in order or fails the read, and the websocket.  The
latter takes a message into a buffer of its own when a write begins, so a write
that begins at once is safe; one begun while another is outstanding (`late`)
touches the string of do_write's caller after its death and may send anything
(`garbled`).

| Variable | Code |
|---|---|
| `registered` | the callbacks registerOrderBookCallback and registerOrderBookDeltaCallback have set |
| `requests` | what do_write was given, and how far each write has got |
| `coming` | the message the next read completes with |
| `said`, `delivered` | history: the events meant by the messages handled, and those the callbacks were given |
| `silenced`, `sent` | history: whether on_message has returned without a read; the bound |

Every step is one of `ExchangeAdapter`'s with its message filled in, or leaves
the adapter's variables alone; `ExchangeFeedProofs` proves it.

### TradingSystem

`main` is where main.cpp is, `created` whether initializeExchanges has made the
adapter, `engine` and `working` the life of the engine and of its threads.
`created` is an input: by section 5.6 the configuration as it is read today
never enables the adapter, and the module is about the system that it is
written to be.  A signal is handled on the main thread, wherever it is in
`stop`; its own kind is blocked meanwhile, so that handlers of different signals
nest.  `frames` is that stack: each frame is one call of stop, with the place in
the adapter to which it returns.  `overtaken` records that a signal came while
the call it interrupts was in disconnect between the store to `connected_` and
the end of the join.  A destructor's stop, after an initialize that failed, is a
frame too.  The adapter's owner of `ExchangeAdapter` is the main thread.

The handlers log (src/main.cpp:40,47) before they call stop, which logs that it
does not find the symbols (src/infra/ConfigManager.cpp:152) and what unsubscribe
and disconnect did, allocates, and posts to the io_context: all of it under locks
that are not recursive.  A signal that comes while the handler it interrupts is
in such a call (`Locking`) may find the lock taken, by its own thread (`held`),
and its handler then never gets as far as to disconnect.  Which of the calls is
under way, and whether the handler really needs that lock, is left open: both
outcomes are possible at any of these places.  Locks that the other threads take
to log or to allocate are given back and are left out.

### ConfigManager

A YAML node is null, a scalar with the types it converts to, a sequence or a map;
a key is the sequence of its tokens.  `Descend` is the loop of getNode, which at
the end of the key goes round once more with the token it has.  Files may be
edited and removed between loads.

## 3. Runs

| Run | Bounds | What it shows |
|---|---|---|
| order_book_writers | 4 prices, sizes 0, 1, 2, a crossed and an uncrossed snapshot | every state of both sides is reached: three crossing levels, empty sides, levels of size 0 |
| order_book_readers | 4 prices, one size, one reader | every position of the writers between and during two reads, for two levels moving on each side; the readers share nothing but the book, so one is enough |
| order_book_torn_spread | 3 prices | the counterexample to `SpreadMatchesQuote` |
| engine_sessions | one adapter, two symbols of which one is subscribed, 3 messages, 2 sessions, 3 prices | every interleaving of stop and a second initialize with handlers, dispatcher and registerCallback |
| engine_racing | two adapters, one book, 2 messages each, 2 prices, symmetric | two deltas of two levels each in all turns, after a snapshot of either; what the queue does is left to engine_sessions and to the theorem |
| engine_snapshot_quote, engine_dropped_level | as engine_sessions, one session | the counterexamples of section 5 |
| adapter_lifecycle | the three adapters, two symbols, four events (two sides, a removal, an empty price, one that does not parse on either side), notices of every kind, 2 messages | all orders of calls of the owner, of messages, errors and completions of writes; two messages, because a handler keeps nothing from one to the next but `authenticated_` and whether a read is outstanding |
| adapter_reading, adapter_reconnect | Coinbase | the counterexamples of section 5 |
| trading_system | Coinbase, SIGINT and SIGTERM, 3 signals | every interleaving of stop, nested stops and the destructor with the adapter's io thread and the engine's; with two signals handlers nest to depth two, in every place of the outer one, holding a lock or not, and the third one comes to a system that one of them has stopped |
| config_lookup | two files, four trees | the counterexample of section 5 |

Messages are chosen for what they can do to each other: two bids, so that the
lowest is not the best; an empty side; a bid that leaves its price to an ask and
an ask that leaves its price to a bid within one delta; an unknown symbol.
Three messages let a delta follow a delta that follows a snapshot, and a snapshot
of the first session be in a handler while the second session begins.

CHECK_DEADLOCK is off where the system may stop: the messages are bounded and
the process may die (engine), the object is destroyed (adapter), or main has
returned or sleeps for good (system).

**Fairness.**  Engine: weak fairness of each io thread within a handler, of each
receiver, of the dispatcher and of a call of the owner that has begun - threads
that can run are scheduled, and the client's callback returns.  Nothing makes
the exchange send or the owner call.  Adapter: weak fairness of the owner within
disconnect and the destructor and of the io thread in run(), the callback and
disconnect.  A reconnection's handshake has no timeout in the code, so it has no
fairness; `DisconnectReturns` and `DestroyReturns` state it as a premise
(`HandshakesEnd`).  Feed: in addition the network completes a write that is
under way and delivers a message that is, or fails the read; nothing makes the
exchange send.  System: weak fairness of the main thread once it has something
to do (`MainGoesOn`, which leaves out connect), of the engine's threads, and of
the io thread as in the adapter; no signal is promised.

**What the properties say.**

- `CrossedAsInSnapshot`, `NoNewCrossing`: crossing pairs of levels come from a
  snapshot only, in crossed books too.  `BooksUncrossed`: so no book of the
  engine crosses when no snapshot does, whoever writes.
- `TornQuoteUncrossed`, `TornSpreadWithinCall`: with writers that only add
  levels, two reads apart give a quote that is not crossed and a spread between
  that of the book at the beginning and that of the book now.  With removals
  neither holds.
- `CumulativeVolumesAreSums`: the loops over the sorted maps against the sums.
- `BooksAreOrderBooks`: each step of the engine on a book is a step of
  `OrderBook`, so that the theorems of section 4 hold of the engine's books.
- `MirrorsExchange`: a book one adapter feeds equals the exchange's book, level
  by level, whenever no handler is at work on it, from a snapshot until a delta
  that moves a bid to or over an ask it removes (`exact`).  `DeltasAreApplied`,
  without that exception, is violated.
- `DeltaUpdateIsTop`: the update of a delta is the top of the book, price and
  size, though read in four steps.  `SnapshotUpdateIsTop` is violated.
- `NoCallbackAfterStop`, `StopReturns`, `TakenInOrder`, `PublishedIsTaken`: the
  promises of stop, and those of the queue across a restart.
- `NoCallbackAfterDisconnect`, `NoThreadAfterDestroy`, `OneReadAtATime`,
  `DisconnectReturns`, `DestroyReturns`: the shutdown of an adapter.
- `DeliveredAsSaid`: the callbacks are given the events of the exchange, whole,
  on their own sides and in order, and nothing of a message that cannot be read
  to its end.  Kraken's symbol is the code's literal.
- `MessagesAreHandled`: Kraken and Binance read on, so that a message that has
  come is handled, unless a notice ended the reading before (`silenced`).
- `FirstRequestIsSent`: where connect writes nothing, the first subscribe goes
  out as it was made.  For Coinbase it overlaps the authentication.
- `EngineOutlivesCallbacks`: while a callback of the adapter is at work the
  engine is there, unless a signal overtook a disconnect.  The exception is
  real: the inner stop finds `connected_` cleared, joins nobody and frees the
  engine.  `ReturnsAlone`: main leaves no thread behind, wherever initialize
  failed.
- `StopsReturn`: handlers return, nested ones included, unless a second signal
  came while the first one's handler held a lock (`held`).  That exception is
  real too: the thread waits for itself.  A signal whose handler finds no other
  one at work always gets through.
- `StoppedStaysDisconnected`: a system that was stopped is not connected again,
  but for the reconnection of a failed read, which stop does not wait for.

## 4. Proofs

`OrderBookProofs` proves, for every number of prices and every set of sizes,
snapshots, calls and readers that satisfies the assumptions of `OrderBook`
(prices are 1..MaxPrice, sizes are naturals, snapshots are books of these):

- `TypeCorrect`, by one step per action; the answers of getBestBid and
  getBestAsk are prices or 0 because a set of naturals has a least element and a
  bounded one a greatest (`LoopProofs`, from the well-foundedness of <).
- `CrossingsComeFromSnapshots` and `CrossingsAreOfASnapshot`: a bid that is
  entered is below every ask and an ask above every bid (`WithBidIsBook`,
  `WithAskIsBook`), so no writer but setSnapshot adds a pair to `Crossings`.
  `CrossedAsInSnapshot` is inductive together with `TypeOK`.
- `BookNeverCrosses` follows: without crossed snapshots, never.
- `TornQuotesDoNotCross`, `TornSpreadsAreWithinTheCall`, for callers that only
  add levels (`OnlyAdding`).  The inductive invariant `TornInv` is that the
  book is uncrossed and that what a reader has seen of a side is still a level
  of it (`SeenStays`); a spread alone is not inductive, as it says nothing of
  where the levels went.
- `CumulativeVolumesSum`, about every book the specification reaches and every
  price.  `Sums` says that a function gives the sum over every subset of a finite
  set; there is one (`SumsExist`), and the library's sum is it (`SumIs`).
  `Walks` says what the loop does with each set of keys left: it takes the best
  of them and breaks at the price.  That the two agree (`WalkSums`) is an
  induction over those sets.  The library states induction with an operator as
  its parameter, which the provers do not instantiate; `EveryTurn` and
  `EverySubset` of `LoopProofs` state it with the set of the good cases instead.

`ExchangeAdapterProofs` proves `TypeCorrect`, `DisconnectedIsQuiet`,
`DestroyedIsAlone` and `ReadsAreSingle` for any subset of the three adapters.
The difficulty is the early return of disconnect: it may find the flag cleared
by the other thread and return without waiting.  The invariant `Inv` says why
that is safe: until the owner disconnects, an io thread with a read under way
or just completed is connected (`Attended`), so the flag can only be clear when
that thread is idle or past clearing it in its own disconnect, which stops the
io_context before anything else can be read; from then on it is `Quiet`.

`ExchangeFeedProofs` proves that an adapter with a feed implements
`ExchangeAdapter` (`FeedImplementsAdapter`), so that the theorems above hold of
it, and that the callbacks of all three adapters are given what was said
(`FeedDelivers`), for any events that satisfy `EventsAssumption` (prices and
sizes are integers, symbols are texts, and an event names a level) and any
number of messages.  `BinanceReads`, `KrakenReads` and `CoinbaseReads` say that
a handler undoes the exchange's writing; `FeedInv`, that the message under way
is one of those.  For Kraken and Binance this is a matter of expanding
definitions.  Coinbase mixes the sides of an update in one list, from which a
loop fills two maps: by `EveryTurn`, after any number of turns each map holds
the levels of its side among the changes taken so far (`SideHolds`), and after
the last one these are the event's (`SidesOfChanges`).

`TradingSystemProofs` proves, for any set of signals in any number,
`SystemTypeCorrect`, `EngineOutlives`, `MainReturnsAlone` and
`StoppedIsDisconnected`.  For the first three the invariant
`SystemInv` has four parts: what holds of the io thread whatever the owner does
(`IoInv`); how far main can be with which frames and engine (`MainInv`); that a
frame which returns into the middle of a disconnect, or stands above one, shows
in `overtaken` (`FramesInv`); and, as long as it does not, that the adapter is
`Attended` or `Quiet` before a disconnect, and quiet once any frame is past its
own (`QuietInv`).  Without the third, a frame popped would put the owner back
into a join whose reason is gone.

`StoppedIsDisconnected` holds also of a system whose stop was overtaken, of which
`SystemInv` says little: a signal in the middle of a disconnect runs a stop whose
own disconnect finds the flag cleared and returns with the io thread at work,
and it is the interrupted one that waits.  `StopInv` follows that.  While
a frame returns into such a disconnect (`Pending`), nothing is claimed but that
the flag is cleared for good: only a reconnection sets it, or the io thread is
on its way to clear it (`ClaimInv`).  Without one, the adapter is `Attended` or
`Shut`: the io thread completes no further read (`ShutInv`).  `NestInv` says
which calls can be interrupted there, and that the outermost stop never is one
called inside a disconnect, so that when it returns nothing is pending.

`MarketDataEngineProofs` proves, for every set of adapters, symbols and
messages and any number of sessions:

- `TypeCorrect`, one lemma per action.  A handler's locals have a type that
  depends on its place: a snapshot's levels have sizes, a delta's may be 0, and
  ApplyBid and ApplyAsk turn a 0 into a removal before it reaches a book.
- `QuietAfterStop`, from `DispatcherJoined`: the dispatcher thread is there only
  while the engine runs or stop has not returned.  The property speaks of the
  owner at rest only, and would not survive the steps of initialize and
  registerCallback in between.
- `TakenAsPublished`, from `QueueIsTheRest`: the queue of an adapter holds what
  it has published and the dispatcher has not taken, in order.
- `EngineBooksUncrossed`, from `NothingCrosses`: the books are uncrossed and so
  is the snapshot that a handler is about to write.  The lemmas on `WithBid` and
  `WithAsk` are those of `OrderBookProofs`.

`EngineBookProofs` goes on with the engine's books, from `ReadsHold`: what the
io thread of a book's sole feeder has read for an update is still so, as it is
the only writer and it is reading; and the sides a handler is about to hand to
setSnapshot are those of a message.

- `DeltaUpdatesAreTops`: when the fourth read is done the other three still
  hold, so the update is the top of the book, and has a size where it has a
  price.
- `EngineUsesOrderBooks`: the refinement.  A step of a handler is one call on
  its own book and leaves the others alone (`BookStep`), and what is called is
  what `OrderBook` calls (`BookStepIsOrderBooks`): a level to apply is a removal
  or has a size of `Sizes`, and a snapshot is one of the messages.
- `BooksMirrorExchanges`: the book that getOrderBook returns is its exchange's
  whenever the feeder's handler is idle, as long as the object is `exact`: it has
  had a snapshot, and since the last one no delta with a bid at or above an ask
  that the exchange had before it.  After such a delta nothing is claimed until
  the next snapshot, and nothing could be, as `DeltasAreApplied` is violated
  (section 5).  The invariant `MirrorInv` says what the
  book is while it is not (`Follows`): before setSnapshot, the sides in the
  handler's hands are the exchange's; while a delta is applied, the
  updates left over make the exchange's book of this one, and the guard of
  updateBid refuses none of its bids (`Awaits`).  The asks need no such clause:
  when their turn comes the bids are the exchange's, whose book does not cross.

Every invariant and every action property of the passing runs is a theorem, and
so are both refinements.  Only model-checked are the liveness properties
(`StopReturns`, `PublishedIsTaken`, `DisconnectReturns`, `DestroyReturns`,
`MessagesAreHandled`, `FirstRequestIsSent`, `StopsReturn`), as the prover reaches
neither fairness nor ENABLED, and the getters of ConfigManager, whose
definitions are recursive operators on trees.

## 5. Where the code does not do what it says

1. **SpreadMatchesQuote** - tests/unit/orderbook_test.cpp:182 expects a spread
   to equal the quote read before it while an updater runs; the calls are
   separate critical sections (src/core/OrderBook.cpp:57).
2. **SnapshotUpdateIsTop** - the update of a snapshot carries the lowest bid
   (src/core/MarketDataEngine.cpp:139).  The integration test makes it bids[0] of
   the snapshot it verifies (tests/integration/order_book_pipeline_test.cpp:46)
   and expects of that, as of the best bid, that it is at most the best ask
   (lines 88-89), which a lower bid passes unnoticed.
3. **DeltasAreApplied** - bids are applied before asks
   (src/core/MarketDataEngine.cpp:160) through a guard that drops what meets an
   ask about to go: the book lacks a level of the exchange.
4. **ContinuesReading** - Coinbase's on_message returns before "Continue
   reading" (src/exchanges/CoinbaseAdapter.cpp:284) for every known type.
5. **ReconnectedCanReceive** - a reconnection stops the io_context for good
   (src/exchanges/CoinbaseAdapter.cpp:215-217).
6. **ScalarsAreFound** - behind the last token of a key std::getline fails and
   leaves it as it is, the loop of getNode goes round once more
   (src/infra/ConfigManager.cpp:56), and no key finds a scalar, unless it is
   written with a dot at its end:
   tests/unit/config_manager_test.cpp:98 expects has("exchange.binance.api_key")
   to be true.  Every setting the system reads is its default.

## 6. Not modelled

- `MockExchangeAdapter` (tests/unit): test code, which only the unit tests
  contain.  It is the one implementation of orders; submit, cancel and modify of
  the real adapters are stubs that return a constant.
- `Logger`: formatting and output around a singleton.
- `utils`: reads an .env file and signs a token with OpenSSL, in sequence.
- `RiskEngine`, `ExecutionEngine`, `StrategyEngine`, `MetricsReporter`,
  `SignalGenerator`, `ModelTrainer`, `PairSelector`, `ExchangeUtils`: declared,
  without an implementation.
- Signals before main sleeps (the default action ends the process) and signals
  that the system delivers to another thread than the main one.
- A message of a known type without the fields of that type, which
  nlohmann::json leaves undefined for a const object.

Doubles are ranks, so rounding is outside the models, as are timestamps.
