--------------------------- MODULE MarketDataEngine ---------------------------
(***************************************************************************)
(* The market data engine (src/core/MarketDataEngine.cpp): the thread that *)
(* owns it (initialize, registerCallback, stop), the io thread of every    *)
(* adapter, which runs handleOrderBookSnapshot and handleOrderBookDelta,   *)
(* the receiver threads and the dispatcher thread.  They share the books,  *)
(* the lock-free queue, the callback and running_.                         *)
(*                                                                         *)
(* An action ends where the code gives another thread a chance to see or   *)
(* change what it works on: at a lock's release, at an atomic, at a queue  *)
(* operation.                                                              *)
(***************************************************************************)
EXTENDS Book, Sequences

CONSTANTS
    Adapters,     \* the exchange adapters, each with its io thread
    Symbols,      \* the symbols messages may carry
    Subscribed,   \* those passed to initialize
    Feed,         \* which symbols each adapter's messages carry
    MaxPrice,     \* prices are 1..MaxPrice
    Sizes,        \* the sizes of levels, 0 not among them
    Messages,     \* what an adapter may pass to the engine
    Garbage,      \* what an uninitialised double may hold
    MaxMessages,  \* bound: messages one adapter passes to the engine
    MaxSessions   \* bound: calls of initialize that take effect

Prices == 1..MaxPrice

Sessions == 1..MaxSessions

\* An OrderBook object: the one initialize makes for a symbol in a session.
\* Objects outlive their entry of orderBooks_: handlers hold a shared_ptr.
Objects == Symbols \X Sessions

NoObject == <<>>

\* In a snapshot a level has a size; in a delta 0 means removal.  A delta
\* names a price at most once on a side, in any order.
Levels(sizes) ==
    UNION {[D -> sizes] : D \in SUBSET Prices}

ASSUME AdaptersAssumption == Feed \in [Adapters -> SUBSET Symbols]

ASSUME SymbolsAssumption == Subscribed \subseteq Symbols

ASSUME SizesAssumption ==
    MaxPrice \in Nat \ {0} /\ Sizes \subseteq Nat \ {0} /\ Garbage \subseteq Int

ASSUME MessagesAssumption ==
    Messages \subseteq
        [isSnapshot : BOOLEAN, symbol : Symbols,
         bids : Levels(Sizes \cup {0}), asks : Levels(Sizes \cup {0})]

ASSUME SnapshotsAssumption ==
    \A m \in Messages : m.isSnapshot =>
        IsBook([bids |-> m.bids, asks |-> m.asks], Prices, Sizes)

ASSUME BoundsAssumption == MaxMessages \in Nat /\ MaxSessions \in Nat

VARIABLES
    running,         \* running_
    control,         \* where the owner's thread is
    session,         \* how often initialize has made new books
    orderBooks,      \* orderBooks_: the session of each entry, 0 for none
    books,           \* the OrderBook objects
    registered,      \* the adapters whose callbacks lead to this engine
    handler,         \* each io thread's handler: where it is and its locals
    queue,           \* updateQueue_: what each producer put in, oldest first
    updateCallback,  \* updateCallback_: none, being assigned, or set
    receivers,       \* receiverThreads_
    dispatcher,      \* dispatcherThread_: where it is, and its local update
    \* Not in the code: what the properties need to remember.
    received,        \* messages each adapter has passed to the engine
    published,       \* updates each adapter has put in the queue
    taken,           \* updates of each adapter the dispatcher has taken out
    venue,           \* each exchange's own book, as its messages told it
    exact            \* objects no update of which the book has refused

ownerVars == <<running, control, session, orderBooks, registered, updateCallback>>

ioVars == <<books, handler, published, received, venue, exact>>

dispatcherVars == <<dispatcher, taken>>

vars == <<ownerVars, ioVars, queue, receivers, dispatcherVars>>

\* A MarketUpdate.  n, not in the code, counts what its adapter published.
BlankUpdate ==
    [isSnapshot |-> FALSE, bidPrice |-> 0, bidSize |-> 0, askPrice |-> 0,
     askSize |-> 0, n |-> 0]

\* bids and asks are the levels of a snapshot, or the updates of a delta that
\* are still to be applied; at is the object getOrderBook returned.
Idle ==
    [pc |-> "idle", at |-> NoObject, bids |-> NoLevels, asks |-> NoLevels,
     update |-> BlankUpdate]

\* A dispatcher thread at pc, without an update in hand.
Dispatcher(pc) == [pc |-> pc, from |-> {}, update |-> BlankUpdate]

Init ==
    /\ running = FALSE
    /\ control = "idle"
    /\ session = 0
    /\ orderBooks = [s \in Symbols |-> 0]
    /\ books = [o \in Objects |-> EmptyBook]
    /\ registered = {}
    /\ handler = [a \in Adapters |-> Idle]
    /\ queue = [a \in Adapters |-> <<>>]
    /\ updateCallback = "none"
    /\ receivers = [a \in Adapters |-> "none"]
    /\ dispatcher = Dispatcher("none")
    /\ received = [a \in Adapters |-> 0]
    /\ published = [a \in Adapters |-> 0]
    /\ taken = [a \in Adapters |-> 0]
    /\ venue = [a \in Adapters |-> [s \in Symbols |-> EmptyBook]]
    /\ exact = [o \in Objects |-> FALSE]

-----------------------------------------------------------------------------
\* The owner's thread.  initialize, stop and registerCallback are its calls.

\* initialize up to the end of its critical section: fresh books replace
\* those of an earlier session in orderBooks_.
Initialize ==
    /\ control = "idle"
    /\ ~running
    /\ session < MaxSessions
    /\ session' = session + 1
    /\ orderBooks' = [s \in Symbols |->
                        IF s \in Subscribed THEN session + 1 ELSE orderBooks[s]]
    /\ control' = "registering"
    /\ UNCHANGED <<running, registered, updateCallback>>
    /\ UNCHANGED <<ioVars, queue, receivers, dispatcherVars>>

\* One turn of the loop over adapters_: both callbacks of one adapter.  A
\* second initialize assigns it the callbacks it has.
RegisterAdapter(a) ==
    /\ control = "registering"
    /\ a \notin registered
    /\ registered' = registered \cup {a}
    /\ UNCHANGED <<running, control, session, orderBooks, updateCallback>>
    /\ UNCHANGED <<ioVars, queue, receivers, dispatcherVars>>

\* running_ = true, and the threads that run while it holds.
StartThreads ==
    /\ control = "registering"
    /\ registered = Adapters
    /\ running' = TRUE
    /\ receivers' = [a \in Adapters |-> "running"]
    /\ dispatcher' = Dispatcher("checking")
    /\ control' = "idle"
    /\ UNCHANGED <<session, orderBooks, registered, updateCallback>>
    /\ UNCHANGED <<ioVars, queue, taken>>

\* stop: the joins that follow wait for the threads to see running_ false.
\* Faulty: running_ is left as it is; and the queue is emptied.
StopStillRunning ==
    /\ control = "idle"
    /\ running
    /\ control' = "joiningReceivers"
    /\ UNCHANGED <<running, session, orderBooks, registered, updateCallback>>
    /\ UNCHANGED <<ioVars, queue, receivers, dispatcherVars>>

StopEmptyingQueue ==
    /\ control = "idle"
    /\ running
    /\ running' = FALSE
    /\ control' = "joiningReceivers"
    /\ queue' = [a \in Adapters |-> <<>>]
    /\ UNCHANGED <<session, orderBooks, registered, updateCallback>>
    /\ UNCHANGED <<ioVars, receivers, dispatcherVars>>

Stop ==
    /\ control = "idle"
    /\ running
    /\ running' = FALSE
    /\ control' = "joiningReceivers"
    /\ UNCHANGED <<session, orderBooks, registered, updateCallback>>
    /\ UNCHANGED <<ioVars, queue, receivers, dispatcherVars>>

JoinReceivers ==
    /\ control = "joiningReceivers"
    /\ \A a \in Adapters : receivers[a] = "exited"
    /\ receivers' = [a \in Adapters |-> "none"]
    /\ control' = "joiningDispatcher"
    /\ UNCHANGED <<running, session, orderBooks, registered, updateCallback>>
    /\ UNCHANGED <<ioVars, queue, dispatcherVars>>

\* Faulty: the dispatcher thread is detached, not joined.
DetachDispatcher ==
    /\ control = "joiningDispatcher"
    /\ control' = "idle"
    /\ UNCHANGED <<running, session, orderBooks, registered, updateCallback>>
    /\ UNCHANGED <<ioVars, queue, receivers, dispatcherVars>>

JoinDispatcher ==
    /\ control = "joiningDispatcher"
    /\ dispatcher.pc = "exited"
    /\ dispatcher' = Dispatcher("none")
    /\ control' = "idle"
    /\ UNCHANGED <<running, session, orderBooks, registered, updateCallback>>
    /\ UNCHANGED <<ioVars, queue, receivers, taken>>

\* registerCallback assigns a std::function that nothing protects: the
\* dispatcher may look at it half written.
RegisterCallback ==
    /\ control = "idle"
    /\ updateCallback = "none"
    /\ updateCallback' = "assigning"
    /\ control' = "assigning"
    /\ UNCHANGED <<running, session, orderBooks, registered>>
    /\ UNCHANGED <<ioVars, queue, receivers, dispatcherVars>>

CallbackAssigned ==
    /\ control = "assigning"
    /\ updateCallback' = "set"
    /\ control' = "idle"
    /\ UNCHANGED <<running, session, orderBooks, registered>>
    /\ UNCHANGED <<ioVars, queue, receivers, dispatcherVars>>

-----------------------------------------------------------------------------
\* An io thread: it calls the handler of a message and does nothing else
\* until the handler has returned.

\* A side of a book after the updates of a delta, as the exchange means it.
Updated(levels, updates) ==
    [p \in {q \in DOMAIN levels \cup DOMAIN updates :
               q \in DOMAIN updates => updates[q] # 0} |->
        IF p \in DOMAIN updates THEN updates[p] ELSE levels[p]]

\* The exchange's own book once it has sent m.
VenueAfter(b, m) ==
    IF m.isSnapshot THEN [bids |-> m.bids, asks |-> m.asks]
    ELSE [bids |-> Updated(b.bids, m.bids), asks |-> Updated(b.asks, m.asks)]

\* A bid that m sets is at or above an ask of b: an ask that goes away in
\* the same message, as the exchange's book does not cross.
Overtakes(m, b) ==
    \E p \in DOMAIN m.bids, q \in DOMAIN b.asks : m.bids[p] # 0 /\ p >= q

\* The exchange reports a change of its book, which it keeps uncrossed.
Sends(a, m) ==
    /\ a \in registered
    /\ m.symbol \in Feed[a]
    /\ received[a] < MaxMessages
    /\ Uncrossed(VenueAfter(venue[a][m.symbol], m))
    /\ received' = [received EXCEPT ![a] = @ + 1]
    /\ venue' = [venue EXCEPT ![a][m.symbol] = VenueAfter(@, m)]

\* The handler is called.  Either getOrderBook finds an object, or the
\* message is logged and forgotten.
Receive(a, m) ==
    /\ handler[a].pc = "idle"
    /\ Sends(a, m)
    /\ LET object == <<m.symbol, orderBooks[m.symbol]>>
       IN  \/ /\ object \in Objects
              /\ handler' = [handler EXCEPT ![a] =
                    [pc |-> IF m.isSnapshot THEN "setSnapshot" ELSE "applying",
                     at |-> object, bids |-> m.bids, asks |-> m.asks,
                     update |-> [BlankUpdate EXCEPT !.isSnapshot = m.isSnapshot]]]
              /\ exact' = [exact EXCEPT ![object] =
                    m.isSnapshot \/ (@ /\ ~Overtakes(m, venue[a][m.symbol]))]
           \/ /\ object \notin Objects
              /\ UNCHANGED <<handler, exact>>
    /\ UNCHANGED <<books, published>>
    /\ UNCHANGED <<ownerVars, queue, receivers, dispatcherVars>>

\* The object the handler works on, and a step that leaves b of it.
Object(a) == books[handler[a].at]

HandlerStep(a, b, next) ==
    /\ books' = [books EXCEPT ![handler[a].at] = b]
    /\ handler' = [handler EXCEPT ![a] = next]
    /\ UNCHANGED <<published, received, venue, exact>>
    /\ UNCHANGED <<ownerVars, queue, receivers, dispatcherVars>>

\* What a snapshot's update says of a side: the first level of a map the
\* handler has filled itself, whose first key is the smallest one for the
\* bids as for the asks; nothing is assigned when the side is empty.
FirstLevel(levels) ==
    IF DOMAIN levels = {} THEN Garbage \X Garbage
    ELSE {<<Min(DOMAIN levels), levels[Min(DOMAIN levels)]>>}

SetSnapshot(a) ==
    /\ handler[a].pc = "setSnapshot"
    /\ \E bid \in FirstLevel(handler[a].bids), ask \in FirstLevel(handler[a].asks) :
          HandlerStep(a, [bids |-> handler[a].bids, asks |-> handler[a].asks],
              [handler[a] EXCEPT !.pc = "enqueue",
                  !.bids = NoLevels, !.asks = NoLevels,
                  !.update = [@ EXCEPT !.bidPrice = bid[1], !.bidSize = bid[2],
                                       !.askPrice = ask[1], !.askSize = ask[2]]])

\* One turn of the loop over bidUpdates: a call of removeBid or updateBid.
\* Faulty: a size of 0 is a size like any other.
ApplyBidOfAnySize(a, p) ==
    /\ handler[a].pc = "applying"
    /\ p \in DOMAIN handler[a].bids
    /\ HandlerStep(a, WithBid(Object(a), p, handler[a].bids[p]),
          [handler[a] EXCEPT !.bids = Erase(@, p)])

ApplyBid(a, p) ==
    /\ handler[a].pc = "applying"
    /\ p \in DOMAIN handler[a].bids
    /\ HandlerStep(a,
          IF handler[a].bids[p] = 0 THEN WithoutBid(Object(a), p)
          ELSE WithBid(Object(a), p, handler[a].bids[p]),
          [handler[a] EXCEPT !.bids = Erase(@, p)])

\* One turn of the loop over askUpdates, which begins when the other is done.
\* Faulty: an ask to remove is removed from the bids; and the side of asks
\* is written without the book's own functions.
ApplyAskToBids(a, p) ==
    /\ handler[a].pc = "applying"
    /\ DOMAIN handler[a].bids = {}
    /\ p \in DOMAIN handler[a].asks
    /\ HandlerStep(a,
          IF handler[a].asks[p] = 0 THEN WithoutBid(Object(a), p)
          ELSE WithAsk(Object(a), p, handler[a].asks[p]),
          [handler[a] EXCEPT !.asks = Erase(@, p)])

ApplyAskDirectly(a, p) ==
    /\ handler[a].pc = "applying"
    /\ DOMAIN handler[a].bids = {}
    /\ p \in DOMAIN handler[a].asks
    /\ HandlerStep(a,
          [Object(a) EXCEPT !.asks = Put(@, p, handler[a].asks[p])],
          [handler[a] EXCEPT !.asks = Erase(@, p)])

ApplyAsk(a, p) ==
    /\ handler[a].pc = "applying"
    /\ DOMAIN handler[a].bids = {}
    /\ p \in DOMAIN handler[a].asks
    /\ HandlerStep(a,
          IF handler[a].asks[p] = 0 THEN WithoutAsk(Object(a), p)
          ELSE WithAsk(Object(a), p, handler[a].asks[p]),
          [handler[a] EXCEPT !.asks = Erase(@, p)])

\* The four reads of a delta's update, each in a critical section of its own.
ReadBestBid(a) ==
    /\ handler[a].pc = "applying"
    /\ DOMAIN handler[a].bids = {} /\ DOMAIN handler[a].asks = {}
    /\ HandlerStep(a, Object(a), [handler[a] EXCEPT !.pc = "getBestAsk",
          !.update.bidPrice = BestBid(Object(a))])

ReadBestAsk(a) ==
    /\ handler[a].pc = "getBestAsk"
    /\ HandlerStep(a, Object(a), [handler[a] EXCEPT !.pc = "getBidVolume",
          !.update.askPrice = BestAsk(Object(a))])

ReadBidVolume(a) ==
    /\ handler[a].pc = "getBidVolume"
    /\ HandlerStep(a, Object(a), [handler[a] EXCEPT !.pc = "getAskVolume",
          !.update.bidSize = BidVolume(Object(a), handler[a].update.bidPrice)])

\* Faulty: the volume is looked up on the other side.
ReadAskVolumeOfBids(a) ==
    /\ handler[a].pc = "getAskVolume"
    /\ HandlerStep(a, Object(a), [handler[a] EXCEPT !.pc = "enqueue",
          !.update.askSize = BidVolume(Object(a), handler[a].update.askPrice)])

ReadAskVolume(a) ==
    /\ handler[a].pc = "getAskVolume"
    /\ HandlerStep(a, Object(a), [handler[a] EXCEPT !.pc = "enqueue",
          !.update.askSize = AskVolume(Object(a), handler[a].update.askPrice)])

\* updateQueue_.enqueue, and the handler returns.
Enqueue(a) ==
    /\ handler[a].pc = "enqueue"
    /\ queue' = [queue EXCEPT ![a] =
                    Append(@, [handler[a].update EXCEPT !.n = published[a] + 1])]
    /\ published' = [published EXCEPT ![a] = @ + 1]
    /\ handler' = [handler EXCEPT ![a] = Idle]
    /\ UNCHANGED <<books, received, venue, exact>>
    /\ UNCHANGED <<ownerVars, receivers, dispatcherVars>>

-----------------------------------------------------------------------------
\* The receiver threads only wait for running_ to go.
ReceiverExit(a) ==
    /\ receivers[a] = "running"
    /\ ~running
    /\ receivers' = [receivers EXCEPT ![a] = "exited"]
    /\ UNCHANGED <<ownerVars, ioVars, queue, dispatcherVars>>

-----------------------------------------------------------------------------
\* The dispatcher thread: the loop's condition;
CheckRunning ==
    /\ dispatcher.pc = "checking"
    /\ dispatcher' = Dispatcher(IF running THEN "polling" ELSE "exited")
    /\ UNCHANGED <<ownerVars, ioVars, queue, receivers, taken>>

\* try_dequeue, where the queue is a first-in first-out sequence per
\* producer and the consumer may turn to any of them.
TryDequeue(a) ==
    /\ dispatcher.pc = "polling"
    /\ queue[a] # <<>>
    /\ dispatcher' = [pc |-> "notifying", from |-> {a}, update |-> Head(queue[a])]
    /\ queue' = [queue EXCEPT ![a] = Tail(@)]
    /\ taken' = [taken EXCEPT ![a] = @ + 1]
    /\ UNCHANGED <<ownerVars, ioVars, receivers>>

\* Faulty: an empty queue ends the loop.
NothingQueuedEnds ==
    /\ dispatcher.pc = "polling"
    /\ \A a \in Adapters : queue[a] = <<>>
    /\ dispatcher' = Dispatcher("exited")
    /\ UNCHANGED <<ownerVars, ioVars, queue, receivers, taken>>

NothingQueued ==
    /\ dispatcher.pc = "polling"
    /\ \A a \in Adapters : queue[a] = <<>>
    /\ dispatcher' = Dispatcher("checking")
    /\ UNCHANGED <<ownerVars, ioVars, queue, receivers, taken>>

\* if (updateCallback_), where a function seen half assigned may test either
\* way;
Notify ==
    /\ dispatcher.pc = "notifying"
    /\ \/ /\ updateCallback \in {"none", "assigning"}
          /\ dispatcher' = Dispatcher("checking")
       \/ /\ updateCallback \in {"assigning", "set"}
          /\ dispatcher' = [dispatcher EXCEPT !.pc = "calling"]
    /\ UNCHANGED <<ownerVars, ioVars, queue, receivers, taken>>

\* it may test as set while what to call is not there yet, and the process
\* dies of the call, with all its threads;
CallTorn ==
    /\ dispatcher.pc = "notifying"
    /\ updateCallback = "assigning"
    /\ dispatcher' = Dispatcher("crashed")
    /\ control' = "dead"
    /\ handler' = [a \in Adapters |-> [Idle EXCEPT !.pc = "dead"]]
    /\ receivers' = [a \in Adapters |-> "none"]
    /\ UNCHANGED <<running, session, orderBooks, registered, updateCallback>>
    /\ UNCHANGED <<books, published, received, venue, exact, queue, taken>>

\* and the callback's return.
CallbackReturns ==
    /\ dispatcher.pc = "calling"
    /\ dispatcher' = Dispatcher("checking")
    /\ UNCHANGED <<ownerVars, ioVars, queue, receivers, taken>>

-----------------------------------------------------------------------------
Crashed == control = "dead"

\* A call of the owner that has begun.
Proceed ==
    \/ \E a \in Adapters : RegisterAdapter(a)
    \/ StartThreads \/ JoinReceivers \/ JoinDispatcher \/ CallbackAssigned

Handle(a) ==
    \/ SetSnapshot(a)
    \/ \E p \in Prices : ApplyBid(a, p) \/ ApplyAsk(a, p)
    \/ ReadBestBid(a) \/ ReadBestAsk(a) \/ ReadBidVolume(a) \/ ReadAskVolume(a)
    \/ Enqueue(a)

Dispatch ==
    \/ CheckRunning
    \/ \E a \in Adapters : TryDequeue(a)
    \/ NothingQueued \/ Notify \/ CallTorn \/ CallbackReturns

Next ==
    \/ Initialize \/ Stop \/ RegisterCallback \/ Proceed
    \/ \E a \in Adapters : \E m \in Messages : Receive(a, m)
    \/ \E a \in Adapters : Handle(a) \/ ReceiverExit(a)
    \/ Dispatch

Spec == Init /\ [][Next]_vars

\* Threads that can run do, and the callback returns.  Nobody promises a
\* message or a call of the owner; a call that has begun goes on.
Fairness ==
    /\ \A a \in Adapters : WF_vars(Handle(a)) /\ WF_vars(ReceiverExit(a))
    /\ WF_vars(Dispatch)
    /\ WF_vars(Proceed)

FairSpec == Spec /\ Fairness

-----------------------------------------------------------------------------
Updates ==
    [isSnapshot : BOOLEAN,
     bidPrice : Prices \cup {0} \cup Garbage, bidSize : Sizes \cup {0} \cup Garbage,
     askPrice : Prices \cup {0} \cup Garbage, askSize : Sizes \cup {0} \cup Garbage,
     n : Nat]

HandlerPcs == {"idle", "setSnapshot", "applying", "getBestAsk", "getBidVolume",
               "getAskVolume", "enqueue", "dead"}

HandlerOK(h) ==
    /\ h = [pc |-> h.pc, at |-> h.at, bids |-> h.bids, asks |-> h.asks,
            update |-> h.update]
    /\ h.pc \in HandlerPcs
    /\ h.at \in IF h.pc \in {"idle", "dead"} THEN {NoObject} ELSE Objects
    /\ IsBook([bids |-> h.bids, asks |-> h.asks], Prices,
              IF h.pc = "setSnapshot" THEN Sizes ELSE Sizes \cup {0})
    /\ h.update \in Updates

TypeOK ==
    /\ running \in BOOLEAN
    /\ control \in {"idle", "registering", "joiningReceivers",
                    "joiningDispatcher", "assigning", "dead"}
    /\ session \in 0..MaxSessions
    /\ orderBooks \in [Symbols -> 0..MaxSessions]
    /\ DOMAIN books = Objects
    /\ \A o \in Objects : IsBook(books[o], Prices, Sizes)
    /\ registered \subseteq Adapters
    /\ DOMAIN handler = Adapters
    /\ \A a \in Adapters : HandlerOK(handler[a])
    /\ queue \in [Adapters -> Seq(Updates)]
    /\ updateCallback \in {"none", "assigning", "set"}
    /\ receivers \in [Adapters -> {"none", "running", "exited"}]
    /\ dispatcher \in [pc : {"none", "checking", "polling", "notifying",
                             "calling", "exited", "crashed"},
                       from : SUBSET Adapters, update : Updates]
    /\ received \in [Adapters -> 0..MaxMessages]
    /\ published \in [Adapters -> Nat]
    /\ taken \in [Adapters -> Nat]
    /\ exact \in [Objects -> BOOLEAN]

-----------------------------------------------------------------------------
\* Every OrderBook the engine makes is used as OrderBook says it may be: by
\* whole calls, with levels of a positive size (a 0 has become a removal).
\* So what is proved of OrderBook holds of the engine's books however the io
\* threads of several adapters interleave their turns on one of them.
EngineBook(o) ==
    INSTANCE OrderBook WITH
        book <- books[o], reader <- [r \in {} |-> 0], Readers <- {},
        Snapshots <- {[bids |-> m.bids, asks |-> m.asks] :
                         m \in {n \in Messages : n.isSnapshot}},
        Calls <- {"updateBid", "updateAsk", "removeBid", "removeAsk", "setSnapshot"}

BooksAreOrderBooks ==
    /\ \A o \in Objects : EngineBook(o)!Init
    /\ [][\A o \in Objects : [EngineBook(o)!Next]_(EngineBook(o)!vars)]_books

\* Whatever the adapters race to write, no book the engine hands out crosses,
\* if the exchanges send no crossed snapshot.
BooksUncrossed ==
    (\A m \in Messages : m.isSnapshot => Uncrossed([bids |-> m.bids, asks |-> m.asks]))
        => \A o \in Objects : Uncrossed(books[o])

\* Only adapter a passes messages of symbol s to the engine.
SoleFeeder(a, s) == \A b \in Adapters : s \in Feed[b] <=> b = a

\* Nothing is half done to object o, which getOrderBook returns.
Settled(o) ==
    /\ ~Crashed
    /\ orderBooks[o[1]] = o[2]
    /\ \A a \in Adapters : handler[a].at # o

\* A book that one adapter feeds is the exchange's book, level by level, from
\* a snapshot on until a delta sets a bid at a price whose ask it removes.
\* handleOrderBookDelta applies the bids first, so an ask may step down to a
\* price that a bid leaves in the same delta, and the books still agree.
MirrorsExchange ==
    \A a \in Adapters, o \in Objects :
        SoleFeeder(a, o[1]) /\ exact[o] /\ Settled(o) =>
            books[o] = venue[a][o[1]]

\* The update of a delta, put together from four critical sections, is the
\* top of its book, price and size, when one adapter feeds the book.
DeltaUpdateIsTop ==
    \A a \in Adapters :
        LET u == handler[a].update IN
        /\ handler[a].pc = "enqueue"
        /\ ~u.isSnapshot
        /\ SoleFeeder(a, handler[a].at[1])
        =>
        /\ u.bidPrice = BestBid(Object(a))
        /\ u.askPrice = BestAsk(Object(a))
        /\ u.bidSize = BidVolume(Object(a), u.bidPrice)
        /\ u.askSize = AskVolume(Object(a), u.askPrice)
        /\ u.bidPrice # 0 => u.bidSize # 0
        /\ u.askPrice # 0 => u.askSize # 0

\* Once stop has returned, no callback runs and none begins, until the next
\* initialize: the client may free what the callback refers to.
NoCallbackAfterStop ==
    control = "idle" /\ ~running => dispatcher.pc = "none"

\* The dispatcher takes the updates of an adapter in the order in which its
\* handlers put them in, and misses none, through stops and restarts: stop
\* leaves the queue as it is.
TakenInOrder ==
    [][\A a \in Adapters : taken'[a] # taken[a] =>
          dispatcher'.from = {a} /\ dispatcher'.update.n = taken[a] + 1]_vars

\* A call of stop returns, whatever the io threads keep doing meanwhile.
StopReturns == control = "joiningReceivers" ~> control = "idle"

\* An update that is published reaches the dispatcher, unless the engine is
\* stopped first or dies.
PublishedIsTaken ==
    \A a \in Adapters : \A n \in 1..MaxMessages :
        published[a] >= n ~> taken[a] >= n \/ ~running \/ Crashed

-----------------------------------------------------------------------------
\* What others say of the engine, and it does not do.

\* The update of a snapshot carries the best bid: the test that receives it
\* makes its bid bids[0] (tests/integration/order_book_pipeline_test.cpp:46)
\* and EXPECT_LE(snapshot.bids[0].first, snapshot.asks[0].first) << "Best bid
\* should not cross best ask" (lines 88-89).
SnapshotUpdateIsTop ==
    \A a \in Adapters :
        /\ handler[a].pc = "enqueue"
        /\ handler[a].update.isSnapshot
        /\ SoleFeeder(a, handler[a].at[1])
        /\ DOMAIN Object(a).bids # {}
        => handler[a].update.bidPrice = BestBid(Object(a))

\* A delta's entries are "price, size (0 for removal)"
\* (src/exchanges/IExchangeAdapter.hpp:29-30): once its handler is done, each
\* price it names has that size in the book, or is gone from it.
DeltasAreApplied ==
    \A a \in Adapters, o \in Objects :
        SoleFeeder(a, o[1]) /\ session = 1 /\ Settled(o) =>
            books[o] = venue[a][o[1]]
=============================================================================
