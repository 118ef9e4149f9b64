--------------------------- MODULE EngineBookProofs ---------------------------
(***************************************************************************)
(* Theorems about the books of MarketDataEngine and what its io threads    *)
(* read of them: the update of a delta, put together in four critical      *)
(* sections, is the top of the book; every book the engine makes is an     *)
(* OrderBook, of which its steps are calls; and a book that one adapter    *)
(* feeds is the exchange's whenever no handler is at work on it, as long   *)
(* as no delta has moved a bid over an ask that it removes (exact).        *)
(***************************************************************************)
EXTENDS MarketDataEngineProofs

\* What a delta's handler h has read of book b so far is still so.
ReadOf(h, b) ==
    /\ h.pc \in {"getBestAsk", "getBidVolume", "getAskVolume", "enqueue"}
         => h.update.bidPrice = BestBid(b)
    /\ h.pc \in {"getBidVolume", "getAskVolume", "enqueue"}
         => h.update.askPrice = BestAsk(b)
    /\ h.pc \in {"getAskVolume", "enqueue"}
         => h.update.bidSize = BidVolume(b, h.update.bidPrice)
    /\ h.pc = "enqueue" => h.update.askSize = AskVolume(b, h.update.askPrice)

\* What handler h is about to hand to setSnapshot are the sides of a message.
SnapshotIsReceived(h) ==
    h.pc = "setSnapshot" =>
        /\ h.update.isSnapshot
        /\ \E m \in Messages : m.isSnapshot /\ m.bids = h.bids /\ m.asks = h.asks

\* A handler works on a book of its adapter's feed.  Nobody else does when
\* the feed is that adapter's alone, and what it has read does not change.
ReadsHold ==
    \A a \in Adapters :
        handler[a].pc \notin {"idle", "dead"} =>
            /\ handler[a].at[1] \in Feed[a]
            /\ SnapshotIsReceived(handler[a])
            /\ SoleFeeder(a, handler[a].at[1]) /\ ~handler[a].update.isSnapshot
                 => ReadOf(handler[a], books[handler[a].at])

LEMMA HandlerStepReads ==
    ASSUME TypeOK, ReadsHold, NEW a \in Adapters,
           handler[a].pc \notin {"idle", "dead"},
           NEW b, NEW next, HandlerStep(a, b, next),
           next.at = handler[a].at, next.pc # "setSnapshot",
           SoleFeeder(a, next.at[1]) /\ ~next.update.isSnapshot => ReadOf(next, b)
    PROVE  ReadsHold'
<1>1. /\ DOMAIN handler = Adapters /\ handler' = [handler EXCEPT ![a] = next]
      /\ DOMAIN books = Objects /\ books' = [books EXCEPT ![handler[a].at] = b]
  BY DEF HandlerStep, TypeOK
<1>2. handler[a].at \in Objects /\ handler[a].at[1] \in Feed[a]
  BY AtWork DEF ReadsHold
<1> SUFFICES ASSUME NEW c \in Adapters, handler'[c].pc \notin {"idle", "dead"}
             PROVE  /\ handler'[c].at[1] \in Feed[c]
                    /\ SnapshotIsReceived(handler'[c])
                    /\ SoleFeeder(c, handler'[c].at[1]) /\ ~handler'[c].update.isSnapshot
                         => ReadOf(handler'[c], books'[handler'[c].at])
  BY DEF ReadsHold, SoleFeeder, ReadOf, SnapshotIsReceived
<1>3. CASE c = a
  <2>1. handler'[c] = next /\ books'[handler'[c].at] = b
    BY <1>1, <1>2, <1>3
  <2> QED BY <1>2, <1>3, <2>1 DEF SnapshotIsReceived
<1>4. CASE c # a
  <2>1. handler'[c] = handler[c]
    BY <1>1, <1>4
  <2>2. SoleFeeder(c, handler[c].at[1]) => handler[c].at # handler[a].at
    BY <1>2, <1>4 DEF SoleFeeder
  <2>3. handler[c].at \in Objects
    BY <2>1, AtWork
  <2>4. SoleFeeder(c, handler[c].at[1]) => books'[handler[c].at] = books[handler[c].at]
    BY <1>1, <2>2, <2>3
  <2> QED BY <2>1, <2>4 DEF ReadsHold
<1> QED BY <1>3, <1>4

\* A read of the book: what it adds to the update is so, and the rest is.
LEMMA ReadReads ==
    ASSUME TypeOK, ReadsHold, NEW a \in Adapters,
           handler[a].pc \notin {"idle", "dead"},
           NEW pc \in HandlerPcs \ {"setSnapshot"}, NEW u,
           u.isSnapshot = handler[a].update.isSnapshot,
           SoleFeeder(a, handler[a].at[1]) /\ ~u.isSnapshot =>
               ReadOf([pc |-> pc, update |-> u], Object(a)),
           HandlerStep(a, Object(a), [handler[a] EXCEPT !.pc = pc, !.update = u])
    PROVE  ReadsHold'
<1> DEFINE next == [handler[a] EXCEPT !.pc = pc, !.update = u]
<1>1. handler[a] = [pc |-> handler[a].pc, at |-> handler[a].at,
                    bids |-> handler[a].bids, asks |-> handler[a].asks,
                    update |-> handler[a].update]
  BY AtWork
<1>2. next = [handler[a] EXCEPT !.pc = pc, !.update = u] /\ HandlerStep(a, Object(a), next)
  OBVIOUS
<1> HIDE DEF next
<1>3. next.pc = pc /\ next.at = handler[a].at /\ next.update = u
  BY <1>1, <1>2, NextUpdate
<1>4. SoleFeeder(a, next.at[1]) /\ ~next.update.isSnapshot => ReadOf(next, Object(a))
  BY <1>3 DEF ReadOf
<1> QED BY <1>2, <1>3, <1>4, HandlerStepReads

\* The fields of an update that an assignment to one of them leaves alone.
LEMMA OtherFields ==
    ASSUME NEW u \in Updates, NEW x
    PROVE  /\ LET v == [u EXCEPT !.bidPrice = x]
              IN  v.isSnapshot = u.isSnapshot /\ v.bidPrice = x
           /\ LET v == [u EXCEPT !.askPrice = x]
              IN  /\ v.isSnapshot = u.isSnapshot /\ v.askPrice = x
                  /\ v.bidPrice = u.bidPrice
           /\ LET v == [u EXCEPT !.bidSize = x]
              IN  /\ v.isSnapshot = u.isSnapshot /\ v.bidSize = x
                  /\ v.bidPrice = u.bidPrice /\ v.askPrice = u.askPrice
           /\ LET v == [u EXCEPT !.askSize = x]
              IN  /\ v.isSnapshot = u.isSnapshot /\ v.askSize = x
                  /\ v.bidPrice = u.bidPrice /\ v.askPrice = u.askPrice
                  /\ v.bidSize = u.bidSize
BY DEF Updates

LEMMA ReadsReads ==
    ASSUME TypeOK, ReadsHold, NEW a \in Adapters,
           \/ ReadBestBid(a) \/ ReadBestAsk(a) \/ ReadBidVolume(a) \/ ReadAskVolume(a)
    PROVE  ReadsHold'
<1> DEFINE h == handler[a]
<1>1. h.pc \notin {"idle", "dead"} /\ h.update \in Updates
  BY AtWork DEF ReadBestBid, ReadBestAsk, ReadBidVolume, ReadAskVolume
<1>2. SoleFeeder(a, h.at[1]) /\ ~h.update.isSnapshot => ReadOf(h, Object(a))
  BY <1>1 DEF ReadsHold, Object
<1>3. CASE ReadBestBid(a)
  <2> DEFINE x == BestBid(Object(a))
             u == [h.update EXCEPT !.bidPrice = x]
  <2>1. HandlerStep(a, Object(a), [h EXCEPT !.pc = "getBestAsk", !.update.bidPrice = x])
    BY <1>3 DEF ReadBestBid
  <2>2. x = BestBid(Object(a))
    OBVIOUS
  <2> HIDE DEF x
  <2>3. HandlerStep(a, Object(a), [h EXCEPT !.pc = "getBestAsk", !.update = u])
    BY <2>1, UpdateField
  <2>4. u.isSnapshot = h.update.isSnapshot /\ u.bidPrice = x
    BY <1>1, OtherFields
  <2> HIDE DEF u
  <2>5. SoleFeeder(a, h.at[1]) /\ ~u.isSnapshot =>
            ReadOf([pc |-> "getBestAsk", update |-> u], Object(a))
    BY <2>2, <2>4 DEF ReadOf
  <2>6. "getBestAsk" \in HandlerPcs \ {"setSnapshot"}
    BY DEF HandlerPcs
  <2> QED BY <1>1, <2>3, <2>4, <2>5, <2>6, ReadReads
<1>4. CASE ReadBestAsk(a)
  <2> DEFINE x == BestAsk(Object(a))
             u == [h.update EXCEPT !.askPrice = x]
  <2>1. /\ HandlerStep(a, Object(a), [h EXCEPT !.pc = "getBidVolume", !.update.askPrice = x])
        /\ h.pc = "getBestAsk"
    BY <1>4 DEF ReadBestAsk
  <2>2. x = BestAsk(Object(a))
    OBVIOUS
  <2> HIDE DEF x
  <2>3. HandlerStep(a, Object(a), [h EXCEPT !.pc = "getBidVolume", !.update = u])
    BY <2>1, UpdateField
  <2>4. /\ u.isSnapshot = h.update.isSnapshot /\ u.askPrice = x
        /\ u.bidPrice = h.update.bidPrice
    BY <1>1, OtherFields
  <2> HIDE DEF u
  <2>5. SoleFeeder(a, h.at[1]) /\ ~u.isSnapshot =>
            ReadOf([pc |-> "getBidVolume", update |-> u], Object(a))
    BY <1>2, <2>1, <2>2, <2>4 DEF ReadOf
  <2>6. "getBidVolume" \in HandlerPcs \ {"setSnapshot"}
    BY DEF HandlerPcs
  <2> QED BY <1>1, <2>3, <2>4, <2>5, <2>6, ReadReads
<1>5. CASE ReadBidVolume(a)
  <2> DEFINE x == BidVolume(Object(a), h.update.bidPrice)
             u == [h.update EXCEPT !.bidSize = x]
  <2>1. /\ HandlerStep(a, Object(a), [h EXCEPT !.pc = "getAskVolume", !.update.bidSize = x])
        /\ h.pc = "getBidVolume"
    BY <1>5 DEF ReadBidVolume
  <2>2. x = BidVolume(Object(a), h.update.bidPrice)
    OBVIOUS
  <2> HIDE DEF x
  <2>3. HandlerStep(a, Object(a), [h EXCEPT !.pc = "getAskVolume", !.update = u])
    BY <2>1, UpdateField
  <2>4. /\ u.isSnapshot = h.update.isSnapshot /\ u.bidSize = x
        /\ u.bidPrice = h.update.bidPrice /\ u.askPrice = h.update.askPrice
    BY <1>1, OtherFields
  <2> HIDE DEF u
  <2>5. SoleFeeder(a, h.at[1]) /\ ~u.isSnapshot =>
            ReadOf([pc |-> "getAskVolume", update |-> u], Object(a))
    BY <1>2, <2>1, <2>2, <2>4 DEF ReadOf
  <2>6. "getAskVolume" \in HandlerPcs \ {"setSnapshot"}
    BY DEF HandlerPcs
  <2> QED BY <1>1, <2>3, <2>4, <2>5, <2>6, ReadReads
<1>6. CASE ReadAskVolume(a)
  <2> DEFINE x == AskVolume(Object(a), h.update.askPrice)
             u == [h.update EXCEPT !.askSize = x]
  <2>1. /\ HandlerStep(a, Object(a), [h EXCEPT !.pc = "enqueue", !.update.askSize = x])
        /\ h.pc = "getAskVolume"
    BY <1>6 DEF ReadAskVolume
  <2>2. x = AskVolume(Object(a), h.update.askPrice)
    OBVIOUS
  <2> HIDE DEF x
  <2>3. HandlerStep(a, Object(a), [h EXCEPT !.pc = "enqueue", !.update = u])
    BY <2>1, UpdateField
  <2>4. /\ u.isSnapshot = h.update.isSnapshot /\ u.askSize = x
        /\ u.bidPrice = h.update.bidPrice /\ u.askPrice = h.update.askPrice
        /\ u.bidSize = h.update.bidSize
    BY <1>1, OtherFields
  <2> HIDE DEF u
  <2>5. SoleFeeder(a, h.at[1]) /\ ~u.isSnapshot =>
            ReadOf([pc |-> "enqueue", update |-> u], Object(a))
    BY <1>2, <2>1, <2>2, <2>4 DEF ReadOf
  <2>6. "enqueue" \in HandlerPcs \ {"setSnapshot"}
    BY DEF HandlerPcs
  <2> QED BY <1>1, <2>3, <2>4, <2>5, <2>6, ReadReads
<1> QED BY <1>3, <1>4, <1>5, <1>6

LEMMA SetSnapshotReads ==
    ASSUME TypeOK, ReadsHold, NEW a \in Adapters, SetSnapshot(a)
    PROVE  ReadsHold'
<1> DEFINE h == handler[a]
<1>1. /\ h = [pc |-> h.pc, at |-> h.at, bids |-> h.bids, asks |-> h.asks,
              update |-> h.update]
      /\ h.pc = "setSnapshot" /\ h.update \in Updates
  BY AtWork DEF SetSnapshot
<1>2. PICK bid \in FirstLevel(h.bids), ask \in FirstLevel(h.asks) :
         HandlerStep(a, [bids |-> h.bids, asks |-> h.asks],
              [h EXCEPT !.pc = "enqueue",
                  !.bids = NoLevels, !.asks = NoLevels,
                  !.update = [@ EXCEPT !.bidPrice = bid[1], !.bidSize = bid[2],
                                       !.askPrice = ask[1], !.askSize = ask[2]]])
  BY DEF SetSnapshot
<1> DEFINE u == [h.update EXCEPT !.bidPrice = bid[1], !.bidSize = bid[2],
                                 !.askPrice = ask[1], !.askSize = ask[2]]
           next == [h EXCEPT !.pc = "enqueue", !.bids = NoLevels, !.asks = NoLevels,
                             !.update = u]
<1>3. HandlerStep(a, [bids |-> h.bids, asks |-> h.asks], next)
  BY <1>2
<1>4. u.isSnapshot = h.update.isSnapshot /\ h.update.isSnapshot
  BY <1>1 DEF Updates, ReadsHold, SnapshotIsReceived
<1>5. next = [h EXCEPT !.pc = "enqueue", !.bids = NoLevels, !.asks = NoLevels,
                       !.update = u]
  OBVIOUS
<1> HIDE DEF u, next
<1>6. next.pc = "enqueue" /\ next.at = h.at /\ next.update = u
  BY <1>1, <1>5, NextSnapshot
<1> QED BY <1>1, <1>3, <1>4, <1>6, HandlerStepReads

LEMMA ApplyReads ==
    ASSUME TypeOK, ReadsHold, NEW a \in Adapters, NEW p \in Prices,
           ApplyBid(a, p) \/ ApplyAsk(a, p)
    PROVE  ReadsHold'
<1> DEFINE h == handler[a]
<1>1. /\ h = [pc |-> h.pc, at |-> h.at, bids |-> h.bids, asks |-> h.asks,
              update |-> h.update]
      /\ h.pc = "applying"
  BY AtWork DEF ApplyBid, ApplyAsk
<1>2. PICK b, levels :
        \/ HandlerStep(a, b, [h EXCEPT !.bids = levels])
        \/ HandlerStep(a, b, [h EXCEPT !.asks = levels])
  BY DEF ApplyBid, ApplyAsk
<1>3. ASSUME NEW next, HandlerStep(a, b, next), next.pc = h.pc, next.at = h.at
      PROVE  ReadsHold'
  BY <1>1, <1>3, HandlerStepReads DEF ReadOf
<1>4. CASE HandlerStep(a, b, [h EXCEPT !.bids = levels])
  <2> DEFINE next == [h EXCEPT !.bids = levels]
  <2>1. next = [h EXCEPT !.bids = levels] /\ HandlerStep(a, b, next)
    BY <1>4
  <2> HIDE DEF h, next
  <2>2. next.pc = h.pc /\ next.at = h.at
    BY <1>1, <2>1, NextBids
  <2> QED BY <1>3, <2>1, <2>2
<1>5. CASE HandlerStep(a, b, [h EXCEPT !.asks = levels])
  <2> DEFINE next == [h EXCEPT !.asks = levels]
  <2>1. next = [h EXCEPT !.asks = levels] /\ HandlerStep(a, b, next)
    BY <1>5
  <2> HIDE DEF h, next
  <2>2. next.pc = h.pc /\ next.at = h.at
    BY <1>1, <2>1, NextAsks
  <2> QED BY <1>3, <2>1, <2>2
<1> QED BY <1>2, <1>4, <1>5

LEMMA ReceiveReads ==
    ASSUME TypeOK, ReadsHold, NEW a \in Adapters, NEW m \in Messages, Receive(a, m)
    PROVE  ReadsHold'
<1> DEFINE first == [pc |-> IF m.isSnapshot THEN "setSnapshot" ELSE "applying",
                     at |-> <<m.symbol, orderBooks[m.symbol]>>,
                     bids |-> m.bids, asks |-> m.asks,
                     update |-> [BlankUpdate EXCEPT !.isSnapshot = m.isSnapshot]]
<1>1. UNCHANGED books /\ m.symbol \in Feed[a] /\ m.isSnapshot \in BOOLEAN
  BY MessagesAssumption DEF Receive, Sends
<1>2. CASE handler' = [handler EXCEPT ![a] = first]
  <2>1. /\ first.at[1] = m.symbol
        /\ SnapshotIsReceived(first)
        /\ first.pc \in {"setSnapshot", "applying"}
    BY <1>1 DEF BlankUpdate, SnapshotIsReceived
  <2> HIDE DEF first
  <2>2. DOMAIN handler = Adapters
    BY DEF TypeOK
  <2>3. \A b : ReadOf(first, b)
    BY <2>1 DEF ReadOf
  <2> QED
    BY <1>1, <1>2, <2>1, <2>2, <2>3 DEF ReadsHold, SoleFeeder, ReadOf, SnapshotIsReceived
<1>3. CASE UNCHANGED handler
  BY <1>1, <1>3 DEF ReadsHold, SoleFeeder, ReadOf, SnapshotIsReceived
<1> QED BY <1>2, <1>3 DEF Receive

LEMMA ReadsHolds == Spec => []ReadsHold
<1>1. Init => ReadsHold
  BY DEF Init, ReadsHold, Idle
<1>2. TypeOK /\ ReadsHold /\ [Next]_vars => ReadsHold'
  <2> SUFFICES ASSUME TypeOK, ReadsHold, [Next]_vars PROVE ReadsHold'
    OBVIOUS
  <2>1. CASE UNCHANGED <<books, handler>>
    BY <2>1 DEF ReadsHold, SoleFeeder, ReadOf, SnapshotIsReceived
  <2>2. CASE Initialize \/ Stop \/ RegisterCallback \/ Proceed
    BY <2>1, <2>2 DEF Initialize, Stop, RegisterCallback, Proceed, RegisterAdapter,
       StartThreads, JoinReceivers, JoinDispatcher, CallbackAssigned, ioVars
  <2>3. ASSUME NEW a \in Adapters, Enqueue(a) PROVE ReadsHold'
    <3>1. DOMAIN handler = Adapters /\ handler' = [handler EXCEPT ![a] = Idle]
          /\ UNCHANGED books
      BY <2>3 DEF TypeOK, Enqueue
    <3> QED BY <3>1 DEF ReadsHold, Idle, SoleFeeder, ReadOf, SnapshotIsReceived
  <2>4. ASSUME NEW a \in Adapters, Handle(a) PROVE ReadsHold'
    BY <2>3, <2>4, SetSnapshotReads, ApplyReads, ReadsReads DEF Handle
  <2>5. ASSUME NEW a \in Adapters, ReceiverExit(a) PROVE ReadsHold'
    BY <2>1, <2>5 DEF ReceiverExit, ioVars
  <2>6. CASE Dispatch
    <3>1. CASE CallTorn
      BY <3>1 DEF CallTorn, ReadsHold, Idle
    <3>2. CASE ~CallTorn
      BY <2>1, <2>6, <3>2 DEF Dispatch, CheckRunning, TryDequeue, NothingQueued, Notify,
         CallbackReturns, ioVars
    <3> QED BY <3>1, <3>2
  <2>7. CASE UNCHANGED vars
    BY <2>1, <2>7 DEF vars, ioVars
  <2> QED BY <2>2, <2>4, <2>5, <2>6, <2>7, ReceiveReads DEF Next
<1> QED BY <1>1, <1>2, TypeCorrect, PTL DEF Spec

\* The update of a delta is the top of its book, prices and sizes, when no
\* other adapter feeds that book: none writes between the four reads.
THEOREM DeltaUpdatesAreTops == Spec => []DeltaUpdateIsTop
<1>1. TypeOK /\ ReadsHold => DeltaUpdateIsTop
  <2> SUFFICES ASSUME TypeOK, ReadsHold, NEW a \in Adapters,
                      handler[a].pc = "enqueue", ~handler[a].update.isSnapshot,
                      SoleFeeder(a, handler[a].at[1])
               PROVE  LET u == handler[a].update IN
                      /\ u.bidPrice = BestBid(Object(a))
                      /\ u.askPrice = BestAsk(Object(a))
                      /\ u.bidSize = BidVolume(Object(a), u.bidPrice)
                      /\ u.askSize = AskVolume(Object(a), u.askPrice)
                      /\ u.bidPrice # 0 => u.bidSize # 0
                      /\ u.askPrice # 0 => u.askSize # 0
    BY DEF DeltaUpdateIsTop
  <2>1. ReadOf(handler[a], Object(a))
    BY DEF ReadsHold, Object
  <2>2. IsBook(Object(a), Prices, Sizes)
    BY AtWork
  <2>3. /\ MaxPrice \in Nat /\ 0 \notin Sizes
        /\ DOMAIN Object(a).bids \subseteq 1..MaxPrice
        /\ DOMAIN Object(a).asks \subseteq 1..MaxPrice
        /\ Object(a).bids \in [DOMAIN Object(a).bids -> Sizes]
        /\ Object(a).asks \in [DOMAIN Object(a).asks -> Sizes]
    BY <2>2, SizesAssumption DEF IsBook, Prices
  <2>4. /\ BestBid(Object(a)) # 0 => BestBid(Object(a)) \in DOMAIN Object(a).bids
        /\ BestAsk(Object(a)) # 0 => BestAsk(Object(a)) \in DOMAIN Object(a).asks
    BY <2>3, BestBidIsBest, BestAskIsBest
  <2>5. /\ BestBid(Object(a)) # 0 => BidVolume(Object(a), BestBid(Object(a))) # 0
        /\ BestAsk(Object(a)) # 0 => AskVolume(Object(a), BestAsk(Object(a))) # 0
    BY <2>3, <2>4 DEF BidVolume, AskVolume
  <2> QED BY <2>1, <2>5 DEF ReadOf
<1> QED BY <1>1, TypeCorrect, ReadsHolds, PTL

-----------------------------------------------------------------------------
\* The book's functions as EngineBook knows them are the book's functions.
LEMMA SameFunctions ==
    ASSUME NEW o, NEW b, NEW p
    PROVE  /\ EngineBook(o)!WithoutBid(b, p) = WithoutBid(b, p)
           /\ EngineBook(o)!WithoutAsk(b, p) = WithoutAsk(b, p)
           /\ \A s : EngineBook(o)!WithBid(b, p, s) = WithBid(b, p, s)
           /\ \A s : EngineBook(o)!WithAsk(b, p, s) = WithAsk(b, p, s)
<1>1. \A levels, q : EngineBook(o)!Erase(levels, q) = Erase(levels, q)
  BY DEF Erase, Restrict, EngineBook!Erase, EngineBook!Restrict
<1>2. \A levels, q, s : EngineBook(o)!Put(levels, q, s) = Put(levels, q, s)
  BY DEF Put, EngineBook!Put
<1> QED
  BY <1>1, <1>2 DEF WithoutBid, WithoutAsk, WithBid, WithAsk, EngineBook!WithoutBid,
     EngineBook!WithoutAsk, EngineBook!WithBid, EngineBook!WithAsk

\* A step of the engine on a book, or none: what OrderBook does in one call.
BookStep(o) ==
    \/ books'[o] = books[o]
    \/ \E p \in Prices :
          \/ books'[o] = WithoutBid(books[o], p)
          \/ books'[o] = WithoutAsk(books[o], p)
          \/ \E s \in Sizes : books'[o] = WithBid(books[o], p, s)
          \/ \E s \in Sizes : books'[o] = WithAsk(books[o], p, s)
    \/ \E m \in Messages :
          m.isSnapshot /\ books'[o] = [bids |-> m.bids, asks |-> m.asks]

LEMMA BookStepIsOrderBooks ==
    ASSUME NEW o \in Objects, BookStep(o)
    PROVE  [EngineBook(o)!Next]_(EngineBook(o)!vars)
<1>1. CASE books'[o] = books[o]
  BY <1>1 DEF EngineBook!vars
<1>2. ASSUME NEW p \in Prices,
             \/ books'[o] = WithoutBid(books[o], p)
             \/ books'[o] = WithoutAsk(books[o], p)
      PROVE  EngineBook(o)!Write
  <2>1. EngineBook(o)!RemoveBid(p) \/ EngineBook(o)!RemoveAsk(p)
    BY <1>2, SameFunctions DEF EngineBook!RemoveBid, EngineBook!RemoveAsk
  <2> QED BY <2>1 DEF EngineBook!Write, EngineBook!Prices, Prices
<1>3. ASSUME NEW p \in Prices, NEW s \in Sizes,
             \/ books'[o] = WithBid(books[o], p, s)
             \/ books'[o] = WithAsk(books[o], p, s)
      PROVE  EngineBook(o)!Write
  <2>1. EngineBook(o)!UpdateBid(p, s) \/ EngineBook(o)!UpdateAsk(p, s)
    BY <1>3, SameFunctions DEF EngineBook!UpdateBid, EngineBook!UpdateAsk
  <2> QED BY <2>1 DEF EngineBook!Write, EngineBook!Prices, Prices
<1>4. ASSUME NEW m \in Messages, m.isSnapshot,
             books'[o] = [bids |-> m.bids, asks |-> m.asks]
      PROVE  EngineBook(o)!Write
  <2> DEFINE b == [bids |-> m.bids, asks |-> m.asks]
  <2>1. EngineBook(o)!SetSnapshot(b)
    BY <1>4 DEF EngineBook!SetSnapshot
  <2>2. b \in {[bids |-> n.bids, asks |-> n.asks] : n \in {k \in Messages : k.isSnapshot}}
    BY <1>4
  <2> QED BY <2>1, <2>2 DEF EngineBook!Write
<1> QED BY <1>1, <1>2, <1>3, <1>4 DEF BookStep, EngineBook!Next

\* A handler's step on its book leaves the others alone.
LEMMA HandlerStepIsBookStep ==
    ASSUME TypeOK, NEW a \in Adapters, handler[a].at \in Objects,
           NEW b, NEW next, HandlerStep(a, b, next),
           books'[handler[a].at] = b => BookStep(handler[a].at)
    PROVE  \A o \in Objects : BookStep(o)
<1> SUFFICES ASSUME NEW o \in Objects PROVE BookStep(o)
  OBVIOUS
<1>1. /\ DOMAIN books = Objects
      /\ books' = [books EXCEPT ![handler[a].at] = b]
  BY DEF TypeOK, HandlerStep
<1>2. CASE o = handler[a].at
  BY <1>1, <1>2
<1>3. CASE o # handler[a].at
  BY <1>1, <1>3 DEF BookStep
<1> QED BY <1>2, <1>3

LEMMA HandleIsBookStep ==
    ASSUME TypeOK, ReadsHold, NEW a \in Adapters, Handle(a)
    PROVE  \A o \in Objects : BookStep(o)
<1> DEFINE h == handler[a]
<1>1. CASE SetSnapshot(a)
  <2>1. PICK next : HandlerStep(a, [bids |-> h.bids, asks |-> h.asks], next)
    BY <1>1 DEF SetSnapshot
  <2>2. h.pc = "setSnapshot" /\ h.at \in Objects
    BY <1>1, AtWork DEF SetSnapshot
  <2>3. PICK m \in Messages : m.isSnapshot /\ m.bids = h.bids /\ m.asks = h.asks
    BY <2>2 DEF ReadsHold, SnapshotIsReceived
  <2>4. books'[h.at] = [bids |-> h.bids, asks |-> h.asks] => BookStep(h.at)
    BY <2>3 DEF BookStep
  <2> QED BY <2>1, <2>2, <2>4, HandlerStepIsBookStep
<1>2. ASSUME NEW p \in Prices, ApplyBid(a, p) PROVE \A o \in Objects : BookStep(o)
  <2>1. h.pc = "applying" /\ p \in DOMAIN h.bids
    BY <1>2 DEF ApplyBid
  <2>2. HandlerOK(h) /\ h.at \in Objects
    BY <2>1, AtWork
  <2>3. h.bids[p] = 0 \/ h.bids[p] \in Sizes
    BY <2>1, <2>2 DEF HandlerOK, IsBook
  <2> DEFINE b == IF h.bids[p] = 0 THEN WithoutBid(Object(a), p)
                  ELSE WithBid(Object(a), p, h.bids[p])
  <2>4. PICK next : HandlerStep(a, b, next)
    BY <1>2 DEF ApplyBid
  <2>5. books'[h.at] = b => BookStep(h.at)
    BY <2>3 DEF BookStep, Object
  <2> QED BY <2>2, <2>4, <2>5, HandlerStepIsBookStep
<1>3. ASSUME NEW p \in Prices, ApplyAsk(a, p) PROVE \A o \in Objects : BookStep(o)
  <2>1. h.pc = "applying" /\ p \in DOMAIN h.asks
    BY <1>3 DEF ApplyAsk
  <2>2. HandlerOK(h) /\ h.at \in Objects
    BY <2>1, AtWork
  <2>3. h.asks[p] = 0 \/ h.asks[p] \in Sizes
    BY <2>1, <2>2 DEF HandlerOK, IsBook
  <2> DEFINE b == IF h.asks[p] = 0 THEN WithoutAsk(Object(a), p)
                  ELSE WithAsk(Object(a), p, h.asks[p])
  <2>4. PICK next : HandlerStep(a, b, next)
    BY <1>3 DEF ApplyAsk
  <2>5. books'[h.at] = b => BookStep(h.at)
    BY <2>3 DEF BookStep, Object
  <2> QED BY <2>2, <2>4, <2>5, HandlerStepIsBookStep
<1>4. CASE ReadBestBid(a) \/ ReadBestAsk(a) \/ ReadBidVolume(a) \/ ReadAskVolume(a)
  <2>1. PICK next : HandlerStep(a, Object(a), next)
    BY <1>4 DEF ReadBestBid, ReadBestAsk, ReadBidVolume, ReadAskVolume
  <2>2. h.at \in Objects
    BY <1>4, AtWork DEF ReadBestBid, ReadBestAsk, ReadBidVolume, ReadAskVolume
  <2>3. books'[h.at] = Object(a) => BookStep(h.at)
    BY DEF BookStep, Object
  <2> QED BY <2>1, <2>2, <2>3, HandlerStepIsBookStep
<1>5. CASE Enqueue(a)
  BY <1>5 DEF Enqueue, BookStep
<1> QED BY <1>1, <1>2, <1>3, <1>4, <1>5 DEF Handle

\* However the io threads of several adapters interleave their turns, each
\* object the engine makes behaves as an OrderBook: every step of the engine
\* is, for each book, one call of it or none.
THEOREM EngineUsesOrderBooks == Spec => BooksAreOrderBooks
<1>1. Init => \A o \in Objects : EngineBook(o)!Init
  <2> SUFFICES ASSUME Init, NEW o \in Objects PROVE EngineBook(o)!Init
    OBVIOUS
  <2>1. books[o] = EmptyBook
    BY DEF Init
  <2> QED BY <2>1 DEF EngineBook!Init, EngineBook!EmptyBook, EngineBook!NoLevels,
     EmptyBook, NoLevels
<1>2. ASSUME TypeOK, ReadsHold, [Next]_vars
      PROVE  \A o \in Objects : BookStep(o)
  <2>1. CASE UNCHANGED books
    BY <2>1 DEF BookStep
  <2>2. CASE Initialize \/ Stop \/ RegisterCallback \/ Proceed
    BY <2>1, <2>2 DEF Initialize, Stop, RegisterCallback, Proceed, RegisterAdapter,
       StartThreads, JoinReceivers, JoinDispatcher, CallbackAssigned, ioVars
  <2>3. ASSUME NEW a \in Adapters, NEW m \in Messages, Receive(a, m)
        PROVE  \A o \in Objects : BookStep(o)
    BY <2>1, <2>3 DEF Receive
  <2>4. ASSUME NEW a \in Adapters, ReceiverExit(a) PROVE \A o \in Objects : BookStep(o)
    BY <2>1, <2>4 DEF ReceiverExit, ioVars
  <2>5. CASE Dispatch
    BY <2>1, <2>5 DEF Dispatch, CheckRunning, TryDequeue, NothingQueued, Notify,
       CallTorn, CallbackReturns, ioVars
  <2>6. CASE UNCHANGED vars
    BY <2>1, <2>6 DEF vars, ioVars
  <2> QED BY <1>2, <2>2, <2>3, <2>4, <2>5, <2>6, HandleIsBookStep DEF Next
<1>3. TypeOK /\ ReadsHold /\ [Next]_vars =>
          [\A o \in Objects : [EngineBook(o)!Next]_(EngineBook(o)!vars)]_books
  BY <1>2, BookStepIsOrderBooks
<1> QED BY <1>1, <1>3, TypeCorrect, ReadsHolds, PTL DEF Spec, BooksAreOrderBooks

-----------------------------------------------------------------------------
\* A side after all the updates of a delta is the same side after one of them
\* has been applied and the others are still to be.
LEMMA UpdatedByPut ==
    ASSUME NEW levels, NEW updates, NEW p \in DOMAIN updates, updates[p] # 0
    PROVE  Updated(Put(levels, p, updates[p]), Erase(updates, p))
             = Updated(levels, updates)
<1> DEFINE l == Put(levels, p, updates[p])
           u == Erase(updates, p)
<1>1. DOMAIN l = DOMAIN levels \cup {p} /\ l[p] = updates[p]
      /\ \A q \in DOMAIN levels : q # p => l[q] = levels[q]
  BY DEF Put
<1>2. DOMAIN u = DOMAIN updates \ {p} /\ \A q \in DOMAIN u : u[q] = updates[q]
  BY DEF Erase, Restrict
<1> HIDE DEF l, u
<1>3. {q \in DOMAIN l \cup DOMAIN u : q \in DOMAIN u => u[q] # 0}
        = {q \in DOMAIN levels \cup DOMAIN updates : q \in DOMAIN updates => updates[q] # 0}
  BY <1>1, <1>2
<1>4. Updated(l, u) = Updated(levels, updates)
  BY <1>1, <1>2, <1>3 DEF Updated
<1> QED BY <1>4 DEF l, u

LEMMA UpdatedByErase ==
    ASSUME NEW levels, NEW updates, NEW p \in DOMAIN updates, updates[p] = 0
    PROVE  Updated(Erase(levels, p), Erase(updates, p)) = Updated(levels, updates)
<1> DEFINE l == Erase(levels, p)
           u == Erase(updates, p)
<1>1. DOMAIN l = DOMAIN levels \ {p} /\ \A q \in DOMAIN l : l[q] = levels[q]
  BY DEF Erase, Restrict
<1>2. DOMAIN u = DOMAIN updates \ {p} /\ \A q \in DOMAIN u : u[q] = updates[q]
  BY DEF Erase, Restrict
<1> HIDE DEF l, u
<1>3. {q \in DOMAIN l \cup DOMAIN u : q \in DOMAIN u => u[q] # 0}
        = {q \in DOMAIN levels \cup DOMAIN updates : q \in DOMAIN updates => updates[q] # 0}
  BY <1>1, <1>2
<1>4. Updated(l, u) = Updated(levels, updates)
  BY <1>1, <1>2, <1>3 DEF Updated
<1> QED BY <1>4 DEF l, u

LEMMA UpdatedByNothing ==
    ASSUME NEW levels, NEW sizes, levels \in [DOMAIN levels -> sizes],
           NEW updates, DOMAIN updates = {}
    PROVE  Updated(levels, updates) = levels
BY DEF Updated

\* What is left of a delta in handler h will make exchange's book v of book b,
\* and b refuses none of its bids.
Awaits(h, b, v) ==
    /\ Updated(b.bids, h.bids) = v.bids
    /\ Updated(b.asks, h.asks) = v.asks
    /\ \A p \in DOMAIN h.bids, q \in DOMAIN b.asks : h.bids[p] # 0 => p < q

\* How far handler h has brought book b of object o towards v.
Follows(h, o, b, v) ==
    /\ h.pc = "idle" \/ h.at # o => b = v
    /\ h.at = o /\ h.pc = "setSnapshot" => [bids |-> h.bids, asks |-> h.asks] = v
    /\ h.at = o /\ h.pc = "applying" => Awaits(h, b, v)
    /\ h.at = o /\ h.pc \in {"getBestAsk", "getBidVolume", "getAskVolume", "enqueue"}
         => b = v

\* An object is exact only in the session that made it and in later ones; the
\* exchange's book is one and does not cross; and its only adapter's handler
\* brings the object that getOrderBook returns up to it.
MirrorInv ==
    /\ \A s \in Symbols : orderBooks[s] <= session
    /\ \A o \in Objects : exact[o] => o[2] <= orderBooks[o[1]]
    /\ DOMAIN venue = Adapters
    /\ \A a \in Adapters :
          /\ DOMAIN venue[a] = Symbols
          /\ \A s \in Symbols :
                LET v == venue[a][s]
                IN  Uncrossed(v) /\ v = [bids |-> v.bids, asks |-> v.asks]
    /\ \A a \in Adapters, o \in Objects :
          SoleFeeder(a, o[1]) /\ exact[o] /\ ~Crashed /\ orderBooks[o[1]] = o[2]
            => Follows(handler[a], o, books[o], venue[a][o[1]])

\* A handler's step touches one book, which no other adapter's handler awaits
\* when it has a feeder of its own.
LEMMA HandlerStepMirrors ==
    ASSUME TypeOK, ReadsHold, MirrorInv, NEW a \in Adapters,
           handler[a].pc \notin {"idle", "dead"},
           NEW b, NEW next, HandlerStep(a, b, next),
           next.at = handler[a].at, next.pc # "idle",
           \A v : /\ Uncrossed(v) /\ v = [bids |-> v.bids, asks |-> v.asks]
                  /\ Follows(handler[a], handler[a].at, Object(a), v)
                  => Follows(next, handler[a].at, b, v)
    PROVE  MirrorInv'
<1>1. /\ DOMAIN handler = Adapters /\ handler' = [handler EXCEPT ![a] = next]
      /\ DOMAIN books = Objects /\ books' = [books EXCEPT ![handler[a].at] = b]
      /\ UNCHANGED <<session, orderBooks, exact, venue, control>>
  BY DEF HandlerStep, TypeOK, ownerVars
<1>2. handler[a].at \in Objects /\ handler[a].at[1] \in Feed[a]
  BY AtWork DEF ReadsHold
<1>3. ASSUME NEW c \in Adapters, NEW o \in Objects,
             SoleFeeder(c, o[1]), exact[o], ~Crashed, orderBooks[o[1]] = o[2]
      PROVE  Follows(handler'[c], o, books'[o], venue[c][o[1]])
  <2>1. Follows(handler[c], o, books[o], venue[c][o[1]])
    BY <1>3 DEF MirrorInv
  <2>2. CASE c # a
    <3>1. handler[a].at # o
      BY <1>2, <1>3, <2>2 DEF SoleFeeder
    <3> QED BY <1>1, <1>2, <2>1, <2>2, <3>1
  <2>3. CASE c = a /\ handler[a].at # o
    <3>1. handler'[c] = next /\ books'[o] = books[o]
      BY <1>1, <1>2, <2>3
    <3> QED BY <2>1, <2>3, <3>1 DEF Follows
  <2>4. CASE c = a /\ handler[a].at = o
    <3>1. handler'[c] = next /\ books'[o] = b /\ books[o] = Object(a)
      BY <1>1, <1>2, <2>4 DEF Object
    <3>2. o[1] \in Symbols
      BY DEF Objects
    <3>3. LET v == venue[a][o[1]]
          IN  Uncrossed(v) /\ v = [bids |-> v.bids, asks |-> v.asks]
      BY <3>2 DEF MirrorInv
    <3> QED BY <2>1, <2>4, <3>1, <3>3
  <2> QED BY <2>2, <2>3, <2>4
<1> QED BY <1>1, <1>3 DEF MirrorInv, SoleFeeder, Crashed, Uncrossed

LEMMA SetSnapshotMirrors ==
    ASSUME TypeOK, ReadsHold, MirrorInv, NEW a \in Adapters, SetSnapshot(a)
    PROVE  MirrorInv'
<1> DEFINE h == handler[a]
<1>1. /\ h = [pc |-> h.pc, at |-> h.at, bids |-> h.bids, asks |-> h.asks,
              update |-> h.update]
      /\ h.pc = "setSnapshot"
  BY AtWork DEF SetSnapshot
<1>2. PICK bid \in FirstLevel(h.bids), ask \in FirstLevel(h.asks) :
         HandlerStep(a, [bids |-> h.bids, asks |-> h.asks],
              [h EXCEPT !.pc = "enqueue",
                  !.bids = NoLevels, !.asks = NoLevels,
                  !.update = [@ EXCEPT !.bidPrice = bid[1], !.bidSize = bid[2],
                                       !.askPrice = ask[1], !.askSize = ask[2]]])
  BY DEF SetSnapshot
<1> DEFINE u == [h.update EXCEPT !.bidPrice = bid[1], !.bidSize = bid[2],
                                 !.askPrice = ask[1], !.askSize = ask[2]]
           next == [h EXCEPT !.pc = "enqueue", !.bids = NoLevels, !.asks = NoLevels,
                             !.update = u]
           b == [bids |-> h.bids, asks |-> h.asks]
<1>3. HandlerStep(a, b, next)
  BY <1>2
<1>4. next = [h EXCEPT !.pc = "enqueue", !.bids = NoLevels, !.asks = NoLevels,
                       !.update = u]
  OBVIOUS
<1>5. \A v : Follows(h, h.at, Object(a), v) => b = v
  BY <1>1 DEF Follows
<1> HIDE DEF u, next, b
<1>6. next.pc = "enqueue" /\ next.at = h.at
  BY <1>1, <1>4, NextSnapshot
<1>7. \A v : Follows(h, h.at, Object(a), v) => Follows(next, h.at, b, v)
  BY <1>5, <1>6 DEF Follows
<1> QED BY <1>1, <1>3, <1>6, <1>7, HandlerStepMirrors

LEMMA ApplyBidMirrors ==
    ASSUME TypeOK, ReadsHold, MirrorInv, NEW a \in Adapters, NEW p \in Prices,
           ApplyBid(a, p)
    PROVE  MirrorInv'
<1> DEFINE h == handler[a]
           o == Object(a)
           b == IF h.bids[p] = 0 THEN WithoutBid(o, p) ELSE WithBid(o, p, h.bids[p])
           rest == Erase(h.bids, p)
           next == [h EXCEPT !.bids = rest]
<1>1. /\ h = [pc |-> h.pc, at |-> h.at, bids |-> h.bids, asks |-> h.asks,
              update |-> h.update]
      /\ h.pc = "applying" /\ p \in DOMAIN h.bids
      /\ o = [bids |-> o.bids, asks |-> o.asks]
  BY AtWork DEF ApplyBid, IsBook
<1>2. HandlerStep(a, b, next)
  BY DEF ApplyBid
<1>3. ASSUME NEW v, Awaits(h, o, v)
      PROVE  Updated(b.bids, rest) = v.bids /\ b.asks = o.asks
  <2>1. CASE h.bids[p] = 0
    <3>1. b.bids = Erase(o.bids, p) /\ b.asks = o.asks
      BY <1>1, <2>1 DEF WithoutBid
    <3>2. Updated(Erase(o.bids, p), rest) = Updated(o.bids, h.bids)
      BY <1>1, <2>1, UpdatedByErase
    <3> QED BY <1>3, <3>1, <3>2 DEF Awaits
  <2>2. CASE h.bids[p] # 0
    <3>1. \A q \in DOMAIN o.asks : p < q
      BY <1>1, <1>3, <2>2 DEF Awaits
    <3>2. b = [o EXCEPT !.bids = Put(@, p, h.bids[p])]
      BY <2>2, <3>1 DEF WithBid
    <3>3. b.bids = Put(o.bids, p, h.bids[p]) /\ b.asks = o.asks
      BY <1>1, <3>2
    <3>4. Updated(Put(o.bids, p, h.bids[p]), rest) = Updated(o.bids, h.bids)
      BY <1>1, <2>2, UpdatedByPut
    <3> QED BY <1>3, <3>3, <3>4 DEF Awaits
  <2> QED BY <2>1, <2>2
<1>4. DOMAIN rest \subseteq DOMAIN h.bids /\ \A q \in DOMAIN rest : rest[q] = h.bids[q]
  BY DEF Erase, Restrict
<1>5. next = [h EXCEPT !.bids = rest]
  OBVIOUS
<1> HIDE DEF next, b, rest, o, h
<1>6. next.pc = h.pc /\ next.at = h.at /\ next.bids = rest /\ next.asks = h.asks
  BY <1>1, <1>5, NextBids
<1>7. ASSUME NEW v, Follows(h, h.at, o, v) PROVE Follows(next, h.at, b, v)
  <2>1. Awaits(h, o, v)
    BY <1>1, <1>7 DEF Follows
  <2>2. Awaits(next, b, v)
    BY <1>3, <1>4, <1>6, <2>1 DEF Awaits
  <2> QED BY <1>1, <1>6, <2>2 DEF Follows
<1> QED BY <1>1, <1>2, <1>6, <1>7, HandlerStepMirrors DEF h, o

\* All bids are in by then, and the exchange's own book does not cross.
LEMMA ApplyAskMirrors ==
    ASSUME TypeOK, ReadsHold, MirrorInv, NEW a \in Adapters, NEW p \in Prices,
           ApplyAsk(a, p)
    PROVE  MirrorInv'
<1> DEFINE h == handler[a]
           o == Object(a)
           b == IF h.asks[p] = 0 THEN WithoutAsk(o, p) ELSE WithAsk(o, p, h.asks[p])
           rest == Erase(h.asks, p)
           next == [h EXCEPT !.asks = rest]
<1>1. /\ h = [pc |-> h.pc, at |-> h.at, bids |-> h.bids, asks |-> h.asks,
              update |-> h.update]
      /\ h.pc = "applying" /\ p \in DOMAIN h.asks /\ DOMAIN h.bids = {}
      /\ o = [bids |-> o.bids, asks |-> o.asks]
      /\ o.bids \in [DOMAIN o.bids -> Sizes]
      /\ DOMAIN o.bids \subseteq Prices
  BY AtWork DEF ApplyAsk, IsBook
<1>2. HandlerStep(a, b, next)
  BY DEF ApplyAsk
<1>3. ASSUME NEW v, Awaits(h, o, v), Uncrossed(v)
      PROVE  Updated(b.asks, rest) = v.asks /\ b.bids = o.bids
  <2>1. CASE h.asks[p] = 0
    <3>1. b.asks = Erase(o.asks, p) /\ b.bids = o.bids
      BY <1>1, <2>1 DEF WithoutAsk
    <3>2. Updated(Erase(o.asks, p), rest) = Updated(o.asks, h.asks)
      BY <1>1, <2>1, UpdatedByErase
    <3> QED BY <1>3, <3>1, <3>2 DEF Awaits
  <2>2. CASE h.asks[p] # 0
    <3>1. p \in DOMAIN v.asks
      BY <1>1, <1>3, <2>2 DEF Awaits, Updated
    <3>2. o.bids = v.bids
      BY <1>1, <1>3, UpdatedByNothing DEF Awaits
    <3>3. \A d \in DOMAIN o.bids : p > d
      BY <1>1, <1>3, <3>1, <3>2, SizesAssumption DEF Uncrossed, Prices
    <3>4. b = [o EXCEPT !.asks = Put(@, p, h.asks[p])]
      BY <2>2, <3>3 DEF WithAsk
    <3>5. b.asks = Put(o.asks, p, h.asks[p]) /\ b.bids = o.bids
      BY <1>1, <3>4
    <3>6. Updated(Put(o.asks, p, h.asks[p]), rest) = Updated(o.asks, h.asks)
      BY <1>1, <2>2, UpdatedByPut
    <3> QED BY <1>3, <3>5, <3>6 DEF Awaits
  <2> QED BY <2>1, <2>2
<1>5. next = [h EXCEPT !.asks = rest]
  OBVIOUS
<1> HIDE DEF next, b, rest, o, h
<1>6. next.pc = h.pc /\ next.at = h.at /\ next.bids = h.bids /\ next.asks = rest
  BY <1>1, <1>5, NextAsks
<1>7. ASSUME NEW v, Uncrossed(v), Follows(h, h.at, o, v)
      PROVE  Follows(next, h.at, b, v)
  <2>1. Awaits(h, o, v)
    BY <1>1, <1>7 DEF Follows
  <2>2. Awaits(next, b, v)
    BY <1>1, <1>3, <1>6, <1>7, <2>1 DEF Awaits
  <2> QED BY <1>1, <1>6, <2>2 DEF Follows
<1> QED BY <1>1, <1>2, <1>6, <1>7, HandlerStepMirrors DEF h, o

\* The reads come when nothing of the delta is left.
LEMMA ReadsMirror ==
    ASSUME TypeOK, ReadsHold, MirrorInv, NEW a \in Adapters,
           \/ ReadBestBid(a) \/ ReadBestAsk(a) \/ ReadBidVolume(a) \/ ReadAskVolume(a)
    PROVE  MirrorInv'
<1> DEFINE h == handler[a]
           o == Object(a)
           reads == {"getBestAsk", "getBidVolume", "getAskVolume", "enqueue"}
<1>1. /\ h = [pc |-> h.pc, at |-> h.at, bids |-> h.bids, asks |-> h.asks,
              update |-> h.update]
      /\ h.pc \in {"applying", "getBestAsk", "getBidVolume", "getAskVolume"}
      /\ h.pc = "applying" => DOMAIN h.bids = {} /\ DOMAIN h.asks = {}
      /\ o = [bids |-> o.bids, asks |-> o.asks]
      /\ o.bids \in [DOMAIN o.bids -> Sizes]
      /\ o.asks \in [DOMAIN o.asks -> Sizes]
  BY AtWork DEF ReadBestBid, ReadBestAsk, ReadBidVolume, ReadAskVolume, IsBook
<1>0. PICK pc \in reads :
          \E u : HandlerStep(a, o, [h EXCEPT !.pc = pc, !.update = u])
  BY UpdateField DEF ReadBestBid, ReadBestAsk, ReadBidVolume, ReadAskVolume
<1>2. PICK u : HandlerStep(a, o, [h EXCEPT !.pc = pc, !.update = u])
  BY <1>0
<1> DEFINE next == [h EXCEPT !.pc = pc, !.update = u]
<1>3. HandlerStep(a, o, next) /\ next = [h EXCEPT !.pc = pc, !.update = u]
  BY <1>2
<1> HIDE DEF next, o, h
<1>4. next.pc = pc /\ next.at = h.at
  BY <1>1, <1>3, NextUpdate
<1>5. ASSUME NEW v, v = [bids |-> v.bids, asks |-> v.asks], Follows(h, h.at, o, v)
      PROVE  Follows(next, h.at, o, v)
  <2>1. CASE h.pc = "applying"
    <3>1. Awaits(h, o, v)
      BY <1>5, <2>1 DEF Follows
    <3>2. o.bids = v.bids /\ o.asks = v.asks
      BY <1>1, <2>1, <3>1, UpdatedByNothing DEF Awaits
    <3>3. o = v
      BY <1>1, <1>5, <3>2
    <3> QED BY <1>4, <3>3 DEF Follows
  <2>2. CASE h.pc # "applying"
    BY <1>1, <1>4, <1>5, <2>2 DEF Follows
  <2> QED BY <2>1, <2>2
<1> QED BY <1>1, <1>3, <1>4, <1>5, HandlerStepMirrors DEF h, o

LEMMA EnqueueMirrors ==
    ASSUME TypeOK, MirrorInv, NEW a \in Adapters, Enqueue(a)
    PROVE  MirrorInv'
<1>1. /\ DOMAIN handler = Adapters /\ handler' = [handler EXCEPT ![a] = Idle]
      /\ handler[a].pc = "enqueue"
      /\ UNCHANGED <<books, session, orderBooks, exact, venue, control>>
  BY DEF Enqueue, TypeOK, ownerVars
<1>2. \A o, b, v : Follows(handler[a], o, b, v) => Follows(Idle, o, b, v)
  BY <1>1 DEF Follows, Idle
<1>3. \A c \in Adapters : handler'[c] = IF c = a THEN Idle ELSE handler[c]
  BY <1>1
<1> QED BY <1>1, <1>2, <1>3 DEF MirrorInv, SoleFeeder, Crashed, Uncrossed

\* The exchange's book moves on with the message that tells of it.
LEMMA ReceiveMirrors ==
    ASSUME TypeOK, MirrorInv, NEW a \in Adapters, NEW m \in Messages, Receive(a, m)
    PROVE  MirrorInv'
<1> DEFINE object == <<m.symbol, orderBooks[m.symbol]>>
           first == [pc |-> IF m.isSnapshot THEN "setSnapshot" ELSE "applying",
                     at |-> object, bids |-> m.bids, asks |-> m.asks,
                     update |-> [BlankUpdate EXCEPT !.isSnapshot = m.isSnapshot]]
           v == venue[a][m.symbol]
           w == VenueAfter(v, m)
<1>1. /\ m.symbol \in Symbols /\ m.symbol \in Feed[a] /\ m.isSnapshot \in BOOLEAN
      /\ UNCHANGED <<books, session, orderBooks, control>>
      /\ handler[a].pc = "idle"
      /\ venue' = [venue EXCEPT ![a][m.symbol] = w]
      /\ Uncrossed(w)
  BY MessagesAssumption DEF Receive, Sends, ownerVars
<1>2. \/ /\ object \in Objects
         /\ handler' = [handler EXCEPT ![a] = first]
         /\ exact' = [exact EXCEPT ![object] = m.isSnapshot \/ (@ /\ ~Overtakes(m, v))]
      \/ object \notin Objects /\ UNCHANGED <<handler, exact>>
  BY DEF Receive
<1>3. w = [bids |-> w.bids, asks |-> w.asks]
  BY DEF VenueAfter
<1>4. first.pc \in {"setSnapshot", "applying"} /\ first.at = object
      /\ (first.pc = "setSnapshot" <=> m.isSnapshot)
      /\ first.bids = m.bids /\ first.asks = m.asks
  BY <1>1
<1>5. \A o \in Objects : /\ o = <<o[1], o[2]>> /\ o[1] \in Symbols /\ o[2] \in Nat
                         /\ exact[o] \in BOOLEAN
  BY BoundsAssumption DEF Objects, Sessions, TypeOK
<1>6. DOMAIN exact = Objects /\ DOMAIN handler = Adapters
  BY DEF TypeOK
<1>7. /\ DOMAIN venue' = Adapters
      /\ \A c \in Adapters : DOMAIN venue'[c] = Symbols
      /\ \A c \in Adapters, s \in Symbols :
           venue'[c][s] = IF c = a /\ s = m.symbol THEN w ELSE venue[c][s]
  <2> HIDE DEF w
  <2> QED BY <1>1 DEF MirrorInv
<1> HIDE DEF first, w
<1>8. \A o \in Objects : exact'[o] => exact[o] \/ o = object
  <2> HIDE DEF object
  <2> QED BY <1>2, <1>6
<1>9. \A o \in Objects : exact'[o] => o[2] <= orderBooks'[o[1]]
  <2>1. \A o \in Objects : o = object => o[2] = orderBooks[o[1]]
    OBVIOUS
  <2> QED BY <1>1, <1>5, <1>8, <2>1 DEF MirrorInv
<1>10. \A c \in Adapters : \A s \in Symbols :
          LET x == venue'[c][s]
          IN  Uncrossed(x) /\ x = [bids |-> x.bids, asks |-> x.asks]
  BY <1>1, <1>3, <1>7 DEF MirrorInv
<1>11. ASSUME NEW c \in Adapters, NEW o \in Objects,
              SoleFeeder(c, o[1]), exact'[o], ~Crashed, orderBooks[o[1]] = o[2]
       PROVE  Follows(handler'[c], o, books[o], venue'[c][o[1]])
  <2>1. exact[o] => Follows(handler[c], o, books[o], venue[c][o[1]])
    BY <1>11 DEF MirrorInv
  <2>2. CASE o[1] # m.symbol
    <3>1. venue'[c][o[1]] = venue[c][o[1]] /\ exact[o] /\ object # o
      BY <1>5, <1>7, <1>8, <1>11, <2>2
    <3>2. handler'[c] = handler[c] \/ (handler'[c] = first /\ c = a)
      BY <1>2, <1>6
    <3>3. first.at # o /\ first.pc # "idle" /\ handler[a].pc = "idle"
      BY <1>1, <1>4, <3>1
    <3> QED BY <2>1, <3>1, <3>2, <3>3 DEF Follows
  <2>3. CASE o[1] = m.symbol
    <3>1. o = object /\ c = a
      BY <1>1, <1>5, <1>11, <2>3 DEF SoleFeeder
    <3>2. venue'[c][o[1]] = w /\ handler'[c] = first
      BY <1>2, <1>5, <1>6, <1>7, <2>3, <3>1
    <3>3. m.isSnapshot \/ (exact[o] /\ ~Overtakes(m, v))
      <4>1. exact' = [exact EXCEPT ![object] = m.isSnapshot \/ (@ /\ ~Overtakes(m, v))]
        BY <1>2, <3>1
      <4>2. exact'[o] = (m.isSnapshot \/ (exact[o] /\ ~Overtakes(m, v)))
        <5> HIDE DEF object, v
        <5> QED BY <1>6, <3>1, <4>1
      <4> QED BY <1>11, <4>2
    <3>4. CASE m.isSnapshot
      <4>1. [bids |-> first.bids, asks |-> first.asks] = w
        BY <1>4, <3>4 DEF VenueAfter, w
      <4> QED BY <1>4, <3>1, <3>2, <3>4, <4>1 DEF Follows
    <3>5. CASE ~m.isSnapshot
      <4>1. books[o] = v
        BY <1>1, <2>1, <2>3, <3>1, <3>3, <3>5 DEF Follows
      <4>2. w = [bids |-> Updated(v.bids, m.bids), asks |-> Updated(v.asks, m.asks)]
        BY <3>5 DEF VenueAfter, w
      <4>3. \A p \in DOMAIN m.bids, q \in DOMAIN v.asks : m.bids[p] # 0 => p < q
        <5>1. \A p \in DOMAIN m.bids, q \in DOMAIN v.asks : m.bids[p] # 0 => ~(p >= q)
          BY <3>3, <3>5 DEF Overtakes
        <5>2. DOMAIN m.bids \subseteq Int
          <6>1. m.bids \in Levels(Sizes \cup {0})
            BY MessagesAssumption
          <6>2. PICK D \in SUBSET Prices : m.bids \in [D -> Sizes \cup {0}]
            BY <6>1 DEF Levels
          <6>3. DOMAIN m.bids = D
            BY <6>2
          <6>4. \A p \in Prices : p \in Int
            BY SizesAssumption DEF Prices
          <6> QED BY <6>3, <6>4
        <5>3. DOMAIN v.asks \subseteq Int
          BY <4>1, SizesAssumption DEF TypeOK, IsBook, Prices
        <5> QED BY <5>1, <5>2, <5>3
      <4>4. Awaits(first, books[o], w)
        BY <1>4, <4>1, <4>2, <4>3 DEF Awaits
      <4> QED BY <1>4, <3>1, <3>2, <3>5, <4>4 DEF Follows
    <3> QED BY <3>4, <3>5
  <2> QED BY <2>2, <2>3
<1> QED BY <1>1, <1>7, <1>9, <1>10, <1>11 DEF MirrorInv, SoleFeeder, Crashed, Uncrossed

\* The books of a new session have had no message yet.
LEMMA InitializeMirrors ==
    ASSUME TypeOK, MirrorInv, Initialize
    PROVE  MirrorInv'
<1>1. /\ session \in Nat /\ session' = session + 1
      /\ \A s \in Symbols : orderBooks[s] \in Nat
      /\ orderBooks' = [s \in Symbols |->
                          IF s \in Subscribed THEN session + 1 ELSE orderBooks[s]]
      /\ UNCHANGED <<books, handler, exact, venue>>
      /\ ~Crashed
  BY BoundsAssumption DEF TypeOK, Initialize, ioVars, Crashed
<1>2. \A o \in Objects : o[1] \in Symbols /\ o[2] \in Nat
  BY BoundsAssumption DEF Objects, Sessions
<1>3. \A s \in Symbols : orderBooks'[s] <= session' /\ orderBooks[s] <= orderBooks'[s]
  BY <1>1 DEF MirrorInv
<1>4. \A o \in Objects : exact[o] => o[2] <= orderBooks'[o[1]]
  <2> SUFFICES ASSUME NEW o \in Objects, exact[o] PROVE o[2] <= orderBooks'[o[1]]
    OBVIOUS
  <2>1. o[2] <= orderBooks[o[1]] /\ orderBooks[o[1]] <= orderBooks'[o[1]]
    BY <1>2, <1>3 DEF MirrorInv
  <2>2. orderBooks[o[1]] \in Nat /\ orderBooks'[o[1]] \in Nat
    BY <1>1, <1>2
  <2> QED BY <1>2, <2>1, <2>2
<1>5. \A o \in Objects : exact[o] /\ orderBooks'[o[1]] = o[2] => orderBooks[o[1]] = o[2]
  <2> SUFFICES ASSUME NEW o \in Objects, exact[o], orderBooks'[o[1]] = o[2]
               PROVE  orderBooks[o[1]] = o[2]
    OBVIOUS
  <2>1. o[2] <= orderBooks[o[1]] /\ orderBooks[o[1]] <= session
    BY <1>2 DEF MirrorInv
  <2> QED BY <1>1, <1>2, <2>1
<1> QED BY <1>1, <1>3, <1>4, <1>5 DEF MirrorInv, SoleFeeder, Uncrossed

LEMMA MirrorHolds == Spec => []MirrorInv
<1>1. Init => MirrorInv
  <2> SUFFICES ASSUME Init PROVE MirrorInv
    OBVIOUS
  <2>1. Uncrossed(EmptyBook) /\ EmptyBook = [bids |-> EmptyBook.bids, asks |-> EmptyBook.asks]
    BY DEF Uncrossed, EmptyBook, NoLevels
  <2> QED BY <2>1 DEF Init, MirrorInv
<1>2. TypeOK /\ ReadsHold /\ MirrorInv /\ [Next]_vars => MirrorInv'
  <2> SUFFICES ASSUME TypeOK, ReadsHold, MirrorInv, [Next]_vars PROVE MirrorInv'
    OBVIOUS
  <2>1. ASSUME UNCHANGED <<session, orderBooks, books, handler, exact, venue>>,
               Crashed => Crashed'
        PROVE  MirrorInv'
    BY <2>1 DEF MirrorInv, SoleFeeder, Uncrossed
  <2>2. CASE Stop \/ RegisterCallback \/ Proceed
    BY <2>1, <2>2 DEF Stop, RegisterCallback, Proceed, RegisterAdapter, StartThreads,
       JoinReceivers, JoinDispatcher, CallbackAssigned, ioVars, Crashed
  <2>3. ASSUME NEW a \in Adapters, Handle(a) PROVE MirrorInv'
    BY <2>3, SetSnapshotMirrors, ApplyBidMirrors, ApplyAskMirrors, ReadsMirror,
       EnqueueMirrors DEF Handle
  <2>4. ASSUME NEW a \in Adapters, ReceiverExit(a) PROVE MirrorInv'
    BY <2>1, <2>4 DEF ReceiverExit, ioVars, ownerVars, Crashed
  <2>5. CASE CallTorn
    BY <2>5 DEF CallTorn, MirrorInv, SoleFeeder, Crashed, Uncrossed
  <2>6. CASE Dispatch /\ ~CallTorn
    BY <2>1, <2>6 DEF Dispatch, CheckRunning, TryDequeue, NothingQueued, Notify,
       CallbackReturns, ioVars, ownerVars, Crashed
  <2>7. CASE UNCHANGED vars
    BY <2>1, <2>7 DEF vars, ioVars, ownerVars, Crashed
  <2> QED BY <2>2, <2>3, <2>4, <2>5, <2>6, <2>7, InitializeMirrors, ReceiveMirrors
          DEF Next
<1> QED BY <1>1, <1>2, TypeCorrect, ReadsHolds, PTL DEF Spec

\* The book of a symbol that one adapter feeds is its exchange's book, level
\* by level, whenever no handler is at work on it: from a snapshot on, through
\* deltas whose turns apply the bids first, through stops, new sessions and
\* handlers that outlive theirs, until a delta sets a bid that the asks it has
\* yet to remove refuse.
THEOREM BooksMirrorExchanges == Spec => []MirrorsExchange
<1>1. MirrorInv => MirrorsExchange
  BY DEF MirrorInv, MirrorsExchange, Settled, Follows
<1> QED BY <1>1, MirrorHolds, PTL
=============================================================================
