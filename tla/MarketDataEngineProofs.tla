------------------------ MODULE MarketDataEngineProofs ------------------------
(***************************************************************************)
(* Theorems about MarketDataEngine, for every set of adapters, symbols and *)
(* messages and every number of prices, messages and sessions.             *)
(***************************************************************************)
EXTENDS MarketDataEngine, BookProofs

\* The update of a handler, and a handler, after an assignment to fields.
LEMMA UpdateFields ==
    ASSUME NEW u \in Updates
    PROVE  /\ \A x \in BOOLEAN : [u EXCEPT !.isSnapshot = x] \in Updates
           /\ \A x \in Prices \cup {0} \cup Garbage :
                 /\ [u EXCEPT !.bidPrice = x] \in Updates
                 /\ [u EXCEPT !.askPrice = x] \in Updates
           /\ \A x \in Sizes \cup {0} \cup Garbage :
                 /\ [u EXCEPT !.bidSize = x] \in Updates
                 /\ [u EXCEPT !.askSize = x] \in Updates
           /\ \A x \in Nat : /\ [u EXCEPT !.n = x] \in Updates
                             /\ [u EXCEPT !.n = x].n = x
BY DEF Updates

LEMMA BlankUpdateIsUpdate == BlankUpdate \in Updates
BY DEF BlankUpdate, Updates

LEMMA IdleIsHandler ==
    /\ HandlerOK(Idle)
    /\ HandlerOK([Idle EXCEPT !.pc = "dead"])
<1>1. [Idle EXCEPT !.pc = "dead"] =
         [pc |-> "dead", at |-> NoObject, bids |-> NoLevels, asks |-> NoLevels,
          update |-> BlankUpdate]
  BY DEF Idle
<1>2. IsBook([bids |-> NoLevels, asks |-> NoLevels], Prices, Sizes \cup {0})
  BY DEF IsBook, NoLevels
<1> QED BY <1>1, <1>2, BlankUpdateIsUpdate DEF Idle, HandlerOK, HandlerPcs

\* A step of a handler that leaves a book and itself well formed.
LEMMA HandlerStepType ==
    ASSUME TypeOK, NEW a \in Adapters, handler[a].at \in Objects,
           NEW b, IsBook(b, Prices, Sizes), NEW next, HandlerOK(next),
           HandlerStep(a, b, next)
    PROVE  TypeOK'
<1>1. \A o \in Objects : IsBook(books'[o], Prices, Sizes)
  BY DEF HandlerStep, TypeOK
<1>2. \A c \in Adapters : HandlerOK(handler'[c])
  BY DEF HandlerStep, TypeOK
<1>3. DOMAIN books' = Objects /\ DOMAIN handler' = Adapters
  BY DEF HandlerStep, TypeOK
<1> QED BY <1>1, <1>2, <1>3 DEF HandlerStep, TypeOK, ownerVars, dispatcherVars

\* A handler at work has an object, whose book is well formed.
LEMMA AtWork ==
    ASSUME TypeOK, NEW a \in Adapters, handler[a].pc \notin {"idle", "dead"}
    PROVE  /\ HandlerOK(handler[a])
           /\ handler[a].at \in Objects
           /\ IsBook(Object(a), Prices, Sizes)
           /\ handler[a] = [pc |-> handler[a].pc, at |-> handler[a].at,
                            bids |-> handler[a].bids, asks |-> handler[a].asks,
                            update |-> handler[a].update]
           /\ handler[a].update \in Updates
<1>1. HandlerOK(handler[a])
  BY DEF TypeOK
<1>2. handler[a].at \in Objects
  BY <1>1 DEF HandlerOK
<1> QED BY <1>1, <1>2 DEF TypeOK, HandlerOK, Object

\* What a step of a handler assigns to it, and what it leaves alone.
LEMMA NextUpdate ==
    ASSUME NEW h,
           h = [pc |-> h.pc, at |-> h.at, bids |-> h.bids, asks |-> h.asks,
                update |-> h.update],
           NEW pc, NEW u,
           NEW k, k = [h EXCEPT !.pc = pc, !.update = u]
    PROVE  /\ k = [pc |-> k.pc, at |-> k.at, bids |-> k.bids, asks |-> k.asks,
                   update |-> k.update]
           /\ k.pc = pc /\ k.at = h.at /\ k.bids = h.bids /\ k.asks = h.asks /\ k.update = u
OBVIOUS

LEMMA NextBids ==
    ASSUME NEW h,
           h = [pc |-> h.pc, at |-> h.at, bids |-> h.bids, asks |-> h.asks,
                update |-> h.update],
           NEW bids,
           NEW k, k = [h EXCEPT !.bids = bids]
    PROVE  /\ k = [pc |-> k.pc, at |-> k.at, bids |-> k.bids, asks |-> k.asks,
                   update |-> k.update]
           /\ k.pc = h.pc /\ k.at = h.at /\ k.bids = bids /\ k.asks = h.asks /\ k.update = h.update
OBVIOUS

LEMMA NextAsks ==
    ASSUME NEW h,
           h = [pc |-> h.pc, at |-> h.at, bids |-> h.bids, asks |-> h.asks,
                update |-> h.update],
           NEW asks,
           NEW k, k = [h EXCEPT !.asks = asks]
    PROVE  /\ k = [pc |-> k.pc, at |-> k.at, bids |-> k.bids, asks |-> k.asks,
                   update |-> k.update]
           /\ k.pc = h.pc /\ k.at = h.at /\ k.bids = h.bids /\ k.asks = asks /\ k.update = h.update
OBVIOUS

LEMMA NextSnapshot ==
    ASSUME NEW h,
           h = [pc |-> h.pc, at |-> h.at, bids |-> h.bids, asks |-> h.asks,
                update |-> h.update],
           NEW pc, NEW bids, NEW asks, NEW u,
           NEW k, k = [h EXCEPT !.pc = pc, !.bids = bids, !.asks = asks, !.update = u]
    PROVE  /\ k = [pc |-> k.pc, at |-> k.at, bids |-> k.bids, asks |-> k.asks,
                   update |-> k.update]
           /\ k.pc = pc /\ k.at = h.at /\ k.bids = bids /\ k.asks = asks /\ k.update = u
OBVIOUS

LEMMA SetSnapshotType ==
    ASSUME TypeOK, NEW a \in Adapters, SetSnapshot(a)
    PROVE  TypeOK'
<1> DEFINE h == handler[a]
<1>1. /\ HandlerOK(h) /\ h.at \in Objects /\ h.update \in Updates
      /\ h = [pc |-> h.pc, at |-> h.at, bids |-> h.bids, asks |-> h.asks,
              update |-> h.update]
  BY AtWork DEF SetSnapshot
<1>2. IsBook([bids |-> h.bids, asks |-> h.asks], Prices, Sizes)
  BY <1>1 DEF HandlerOK, SetSnapshot
<1>3. PICK bid \in FirstLevel(h.bids), ask \in FirstLevel(h.asks) :
         HandlerStep(a, [bids |-> h.bids, asks |-> h.asks],
              [h EXCEPT !.pc = "enqueue",
                  !.bids = NoLevels, !.asks = NoLevels,
                  !.update = [@ EXCEPT !.bidPrice = bid[1], !.bidSize = bid[2],
                                       !.askPrice = ask[1], !.askSize = ask[2]]])
  BY DEF SetSnapshot
<1>4. ASSUME NEW levels, DOMAIN levels \subseteq Prices,
             levels \in [DOMAIN levels -> Sizes], NEW l \in FirstLevel(levels)
      PROVE  l[1] \in Prices \cup {0} \cup Garbage /\ l[2] \in Sizes \cup {0} \cup Garbage
  <2>1. CASE DOMAIN levels = {}
    BY <1>4, <2>1 DEF FirstLevel
  <2>2. CASE DOMAIN levels # {}
    <3>1. DOMAIN levels \in SUBSET Nat
      BY <1>4 DEF Prices
    <3>2. Min(DOMAIN levels) \in DOMAIN levels
      BY <2>2, <3>1, LeastNatural DEF Min
    <3> QED BY <1>4, <2>2, <3>2 DEF FirstLevel
  <2> QED BY <2>1, <2>2
<1>5. /\ bid[1] \in Prices \cup {0} \cup Garbage
      /\ ask[1] \in Prices \cup {0} \cup Garbage
      /\ bid[2] \in Sizes \cup {0} \cup Garbage
      /\ ask[2] \in Sizes \cup {0} \cup Garbage
  BY <1>2, <1>4 DEF IsBook
<1> DEFINE u == [h.update EXCEPT !.bidPrice = bid[1], !.bidSize = bid[2],
                                 !.askPrice = ask[1], !.askSize = ask[2]]
           next == [h EXCEPT !.pc = "enqueue", !.bids = NoLevels, !.asks = NoLevels,
                             !.update = u]
<1>6. u \in Updates
  BY <1>1, <1>5 DEF Updates
<1>7. HandlerStep(a, [bids |-> h.bids, asks |-> h.asks], next)
  BY <1>3
<1>8. HandlerOK(next)
  <2>1. IsBook([bids |-> NoLevels, asks |-> NoLevels], Prices, Sizes \cup {0})
    BY DEF IsBook, NoLevels
  <2>2. next = [h EXCEPT !.pc = "enqueue", !.bids = NoLevels, !.asks = NoLevels,
                         !.update = u]
    OBVIOUS
  <2> HIDE DEF h, u, next
  <2>3. /\ next = [pc |-> next.pc, at |-> next.at, bids |-> next.bids,
                   asks |-> next.asks, update |-> next.update]
        /\ next.pc = "enqueue" /\ next.at = h.at
        /\ next.bids = NoLevels /\ next.asks = NoLevels /\ next.update = u
    BY <1>1, <2>2, NextSnapshot
  <2> QED BY <1>1, <1>6, <2>1, <2>3 DEF HandlerOK, HandlerPcs
<1> HIDE DEF next
<1> QED BY <1>1, <1>2, <1>7, <1>8, HandlerStepType


LEMMA ApplyType ==
    ASSUME TypeOK, NEW a \in Adapters, NEW p \in Prices,
           ApplyBid(a, p) \/ ApplyAsk(a, p)
    PROVE  TypeOK'
<1> DEFINE h == handler[a]
<1>1. /\ HandlerOK(h) /\ h.at \in Objects /\ h.update \in Updates
      /\ h = [pc |-> h.pc, at |-> h.at, bids |-> h.bids, asks |-> h.asks,
              update |-> h.update]
      /\ IsBook(Object(a), Prices, Sizes)
      /\ h.pc = "applying"
  BY AtWork DEF ApplyBid, ApplyAsk
<1>2. IsBook([bids |-> h.bids, asks |-> h.asks], Prices, Sizes \cup {0})
  BY <1>1 DEF HandlerOK
<1>3. /\ DOMAIN h.bids \subseteq Prices /\ h.bids \in [DOMAIN h.bids -> Sizes \cup {0}]
      /\ DOMAIN h.asks \subseteq Prices /\ h.asks \in [DOMAIN h.asks -> Sizes \cup {0}]
  BY <1>2 DEF IsBook
<1>4. CASE ApplyBid(a, p)
  <2> DEFINE b == IF h.bids[p] = 0 THEN WithoutBid(Object(a), p)
                  ELSE WithBid(Object(a), p, h.bids[p])
             next == [h EXCEPT !.bids = Erase(@, p)]
  <2>1. HandlerStep(a, b, next) /\ p \in DOMAIN h.bids
    BY <1>4 DEF ApplyBid
  <2>2. h.bids[p] # 0 => h.bids[p] \in Sizes
    BY <1>3, <2>1
  <2>3. IsBook(b, Prices, Sizes)
    BY <1>1, <2>2, WithBidIsBook, WithoutBidIsBook
  <2>4. HandlerOK(next)
    <3> DEFINE bids == Erase(h.bids, p)
    <3>1. DOMAIN bids \subseteq Prices /\ bids \in [DOMAIN bids -> Sizes \cup {0}]
      BY <1>3, EraseLevels
    <3>2. next = [h EXCEPT !.bids = bids]
      OBVIOUS
    <3> HIDE DEF h, bids, next
    <3>3. /\ next = [pc |-> next.pc, at |-> next.at, bids |-> next.bids,
                     asks |-> next.asks, update |-> next.update]
          /\ next.pc = h.pc /\ next.at = h.at
          /\ next.bids = bids /\ next.asks = h.asks /\ next.update = h.update
      BY <1>1, <3>2, NextBids
    <3>4. IsBook([bids |-> next.bids, asks |-> next.asks], Prices, Sizes \cup {0})
      BY <1>3, <3>1, <3>3 DEF IsBook
    <3> QED BY <1>1, <3>3, <3>4 DEF HandlerOK, HandlerPcs
  <2> HIDE DEF b, next
  <2> QED BY <1>1, <2>1, <2>3, <2>4, HandlerStepType
<1>5. CASE ApplyAsk(a, p)
  <2> DEFINE b == IF h.asks[p] = 0 THEN WithoutAsk(Object(a), p)
                  ELSE WithAsk(Object(a), p, h.asks[p])
             next == [h EXCEPT !.asks = Erase(@, p)]
  <2>1. HandlerStep(a, b, next) /\ p \in DOMAIN h.asks
    BY <1>5 DEF ApplyAsk
  <2>2. h.asks[p] # 0 => h.asks[p] \in Sizes
    BY <1>3, <2>1
  <2>3. IsBook(b, Prices, Sizes)
    BY <1>1, <2>2, WithAskIsBook, WithoutAskIsBook
  <2>4. HandlerOK(next)
    <3> DEFINE asks == Erase(h.asks, p)
    <3>1. DOMAIN asks \subseteq Prices /\ asks \in [DOMAIN asks -> Sizes \cup {0}]
      BY <1>3, EraseLevels
    <3>2. next = [h EXCEPT !.asks = asks]
      OBVIOUS
    <3> HIDE DEF h, asks, next
    <3>3. /\ next = [pc |-> next.pc, at |-> next.at, bids |-> next.bids,
                     asks |-> next.asks, update |-> next.update]
          /\ next.pc = h.pc /\ next.at = h.at
          /\ next.bids = h.bids /\ next.asks = asks /\ next.update = h.update
      BY <1>1, <3>2, NextAsks
    <3>4. IsBook([bids |-> next.bids, asks |-> next.asks], Prices, Sizes \cup {0})
      BY <1>3, <3>1, <3>3 DEF IsBook
    <3> QED BY <1>1, <3>3, <3>4 DEF HandlerOK, HandlerPcs
  <2> HIDE DEF b, next
  <2> QED BY <1>1, <2>1, <2>3, <2>4, HandlerStepType
<1> QED BY <1>4, <1>5

\* A read of the book: the handler moves on with an update that is still one.
LEMMA ReadType ==
    ASSUME TypeOK, NEW a \in Adapters, NEW pc \in HandlerPcs \ {"idle", "dead", "setSnapshot"},
           handler[a].pc \notin {"idle", "dead", "setSnapshot"}, NEW u \in Updates,
           HandlerStep(a, Object(a), [handler[a] EXCEPT !.pc = pc, !.update = u])
    PROVE  TypeOK'
<1> DEFINE h == handler[a]
           next == [h EXCEPT !.pc = pc, !.update = u]
<1>1. /\ HandlerOK(h) /\ h.at \in Objects
      /\ h = [pc |-> h.pc, at |-> h.at, bids |-> h.bids, asks |-> h.asks,
              update |-> h.update]
      /\ IsBook(Object(a), Prices, Sizes)
  BY AtWork
<1>2. HandlerOK(next)
  <2>1. next = [h EXCEPT !.pc = pc, !.update = u]
    OBVIOUS
  <2> HIDE DEF h, next
  <2>2. /\ next = [pc |-> next.pc, at |-> next.at, bids |-> next.bids,
                   asks |-> next.asks, update |-> next.update]
        /\ next.pc = pc /\ next.at = h.at /\ next.bids = h.bids
        /\ next.asks = h.asks /\ next.update = u
    BY <1>1, <2>1, NextUpdate
  <2>3. h.pc \notin {"idle", "dead", "setSnapshot"}
    BY DEF h
  <2> QED BY <1>1, <2>2, <2>3 DEF HandlerOK
<1>3. HandlerStep(a, Object(a), next)
  OBVIOUS
<1> HIDE DEF next
<1> QED BY <1>1, <1>2, <1>3, HandlerStepType

\* An assignment to a field of the update is one to the update.
LEMMA UpdateField ==
    ASSUME NEW h, NEW pc, NEW x
    PROVE  /\ [h EXCEPT !.pc = pc, !.update.bidPrice = x] =
                 [h EXCEPT !.pc = pc, !.update = [h.update EXCEPT !.bidPrice = x]]
           /\ [h EXCEPT !.pc = pc, !.update.askPrice = x] =
                 [h EXCEPT !.pc = pc, !.update = [h.update EXCEPT !.askPrice = x]]
           /\ [h EXCEPT !.pc = pc, !.update.bidSize = x] =
                 [h EXCEPT !.pc = pc, !.update = [h.update EXCEPT !.bidSize = x]]
           /\ [h EXCEPT !.pc = pc, !.update.askSize = x] =
                 [h EXCEPT !.pc = pc, !.update = [h.update EXCEPT !.askSize = x]]
OBVIOUS

LEMMA ReadsType ==
    ASSUME TypeOK, NEW a \in Adapters,
           \/ ReadBestBid(a) \/ ReadBestAsk(a) \/ ReadBidVolume(a) \/ ReadAskVolume(a)
    PROVE  TypeOK'
<1> DEFINE h == handler[a]
<1>1. h.update \in Updates /\ IsBook(Object(a), Prices, Sizes)
  BY AtWork DEF ReadBestBid, ReadBestAsk, ReadBidVolume, ReadAskVolume
<1>2. /\ MaxPrice \in Nat
      /\ DOMAIN Object(a).bids \subseteq 1..MaxPrice
      /\ DOMAIN Object(a).asks \subseteq 1..MaxPrice
      /\ Object(a).bids \in [DOMAIN Object(a).bids -> Sizes]
      /\ Object(a).asks \in [DOMAIN Object(a).asks -> Sizes]
  BY <1>1, SizesAssumption DEF IsBook, Prices
<1>3. /\ BestBid(Object(a)) \in 0..MaxPrice
      /\ BestAsk(Object(a)) \in 0..MaxPrice
  BY <1>2, BestBidIsBest, BestAskIsBest
<1>4. BestBid(Object(a)) \in Prices \cup {0} /\ BestAsk(Object(a)) \in Prices \cup {0}
  BY <1>2, <1>3 DEF Prices
<1>5. /\ BidVolume(Object(a), h.update.bidPrice) \in Sizes \cup {0}
      /\ AskVolume(Object(a), h.update.askPrice) \in Sizes \cup {0}
  BY <1>2 DEF BidVolume, AskVolume
<1>6. CASE ReadBestBid(a)
  <2> DEFINE x == BestBid(Object(a))
             u == [h.update EXCEPT !.bidPrice = x]
  <2>1. HandlerStep(a, Object(a), [h EXCEPT !.pc = "getBestAsk", !.update.bidPrice = x])
    BY <1>6 DEF ReadBestBid
  <2>2. h.pc \notin {"idle", "dead", "setSnapshot"}
    BY <1>6 DEF ReadBestBid
  <2>3. u \in Updates
    BY <1>1, <1>4, UpdateFields
  <2> HIDE DEF x
  <2>4. HandlerStep(a, Object(a), [h EXCEPT !.pc = "getBestAsk", !.update = u])
    BY <2>1, UpdateField
  <2>5. "getBestAsk" \in HandlerPcs \ {"idle", "dead", "setSnapshot"}
    BY DEF HandlerPcs
  <2> HIDE DEF u
  <2> QED BY <2>2, <2>3, <2>4, <2>5, ReadType
<1>7. CASE ReadBestAsk(a)
  <2> DEFINE x == BestAsk(Object(a))
             u == [h.update EXCEPT !.askPrice = x]
  <2>1. HandlerStep(a, Object(a), [h EXCEPT !.pc = "getBidVolume", !.update.askPrice = x])
    BY <1>7 DEF ReadBestAsk
  <2>2. h.pc \notin {"idle", "dead", "setSnapshot"}
    BY <1>7 DEF ReadBestAsk
  <2>3. u \in Updates
    BY <1>1, <1>4, UpdateFields
  <2> HIDE DEF x
  <2>4. HandlerStep(a, Object(a), [h EXCEPT !.pc = "getBidVolume", !.update = u])
    BY <2>1, UpdateField
  <2>5. "getBidVolume" \in HandlerPcs \ {"idle", "dead", "setSnapshot"}
    BY DEF HandlerPcs
  <2> HIDE DEF u
  <2> QED BY <2>2, <2>3, <2>4, <2>5, ReadType
<1>8. CASE ReadBidVolume(a)
  <2> DEFINE x == BidVolume(Object(a), h.update.bidPrice)
             u == [h.update EXCEPT !.bidSize = x]
  <2>1. HandlerStep(a, Object(a), [h EXCEPT !.pc = "getAskVolume", !.update.bidSize = x])
    BY <1>8 DEF ReadBidVolume
  <2>2. h.pc \notin {"idle", "dead", "setSnapshot"}
    BY <1>8 DEF ReadBidVolume
  <2>3. u \in Updates
    BY <1>1, <1>5, UpdateFields
  <2> HIDE DEF x
  <2>4. HandlerStep(a, Object(a), [h EXCEPT !.pc = "getAskVolume", !.update = u])
    BY <2>1, UpdateField
  <2>5. "getAskVolume" \in HandlerPcs \ {"idle", "dead", "setSnapshot"}
    BY DEF HandlerPcs
  <2> HIDE DEF u
  <2> QED BY <2>2, <2>3, <2>4, <2>5, ReadType
<1>9. CASE ReadAskVolume(a)
  <2> DEFINE x == AskVolume(Object(a), h.update.askPrice)
             u == [h.update EXCEPT !.askSize = x]
  <2>1. HandlerStep(a, Object(a), [h EXCEPT !.pc = "enqueue", !.update.askSize = x])
    BY <1>9 DEF ReadAskVolume
  <2>2. h.pc \notin {"idle", "dead", "setSnapshot"}
    BY <1>9 DEF ReadAskVolume
  <2>3. u \in Updates
    BY <1>1, <1>5, UpdateFields
  <2> HIDE DEF x
  <2>4. HandlerStep(a, Object(a), [h EXCEPT !.pc = "enqueue", !.update = u])
    BY <2>1, UpdateField
  <2>5. "enqueue" \in HandlerPcs \ {"idle", "dead", "setSnapshot"}
    BY DEF HandlerPcs
  <2> HIDE DEF u
  <2> QED BY <2>2, <2>3, <2>4, <2>5, ReadType
<1> QED BY <1>6, <1>7, <1>8, <1>9

LEMMA EnqueueType ==
    ASSUME TypeOK, NEW a \in Adapters, Enqueue(a)
    PROVE  TypeOK'
<1> DEFINE u == [handler[a].update EXCEPT !.n = published[a] + 1]
<1>1. /\ published \in [Adapters -> Nat] /\ published[a] + 1 \in Nat
      /\ queue \in [Adapters -> Seq(Updates)]
      /\ handler[a].update \in Updates
  <2>1. published \in [Adapters -> Nat] /\ queue \in [Adapters -> Seq(Updates)]
    BY DEF TypeOK
  <2>2. handler[a].update \in Updates
    BY AtWork DEF Enqueue
  <2> QED BY <2>1, <2>2
<1>2. u \in Updates
  BY <1>1, UpdateFields
<1>3. queue' \in [Adapters -> Seq(Updates)]
  <2> HIDE DEF u
  <2>1. Append(queue[a], u) \in Seq(Updates)
    BY <1>1, <1>2
  <2>2. queue' = [queue EXCEPT ![a] = Append(queue[a], u)]
    BY DEF Enqueue, u
  <2> QED BY <1>1, <2>1, <2>2
<1>4. published' \in [Adapters -> Nat]
  BY <1>1 DEF Enqueue
<1>5. DOMAIN handler' = Adapters /\ \A c \in Adapters : HandlerOK(handler'[c])
  <2>1. handler' = [handler EXCEPT ![a] = Idle]
    BY DEF Enqueue
  <2>2. DOMAIN handler = Adapters /\ \A c \in Adapters : HandlerOK(handler[c])
    BY DEF TypeOK
  <2> QED BY <2>1, <2>2, IdleIsHandler
<1> QED BY <1>3, <1>4, <1>5 DEF TypeOK, Enqueue, ownerVars, dispatcherVars

\* The handler of a message starts with the levels of the message.
LEMMA ReceiveType ==
    ASSUME TypeOK, NEW a \in Adapters, NEW m \in Messages, Receive(a, m)
    PROVE  TypeOK'
<1>1. /\ m.isSnapshot \in BOOLEAN /\ m.symbol \in Symbols
      /\ m.bids \in Levels(Sizes \cup {0}) /\ m.asks \in Levels(Sizes \cup {0})
  BY MessagesAssumption
<1>2. IsBook([bids |-> m.bids, asks |-> m.asks], Prices, Sizes \cup {0})
  BY <1>1 DEF IsBook, Levels
<1>3. m.isSnapshot => IsBook([bids |-> m.bids, asks |-> m.asks], Prices, Sizes)
  BY SnapshotsAssumption
<1>4. received' \in [Adapters -> 0..MaxMessages]
  <2>1. /\ received' = [received EXCEPT ![a] = @ + 1]
        /\ received[a] \in 0..MaxMessages /\ received[a] < MaxMessages
        /\ received \in [Adapters -> 0..MaxMessages]
    BY DEF Receive, Sends, TypeOK
  <2>2. received[a] + 1 \in 0..MaxMessages
    BY <2>1, BoundsAssumption
  <2> QED BY <2>1, <2>2
<1> DEFINE object == <<m.symbol, orderBooks[m.symbol]>>
           first == [pc |-> IF m.isSnapshot THEN "setSnapshot" ELSE "applying",
                     at |-> object, bids |-> m.bids, asks |-> m.asks,
                     update |-> [BlankUpdate EXCEPT !.isSnapshot = m.isSnapshot]]
<1>5. CASE /\ object \in Objects
           /\ handler' = [handler EXCEPT ![a] = first]
           /\ exact' = [exact EXCEPT ![object] =
                 m.isSnapshot \/ (@ /\ ~Overtakes(m, venue[a][m.symbol]))]
  <2>1. first.update \in Updates
    BY <1>1, BlankUpdateIsUpdate, UpdateFields
  <2>2. HandlerOK(first)
    BY <1>1, <1>2, <1>3, <1>5, <2>1 DEF HandlerOK, HandlerPcs
  <2>3. DOMAIN handler' = Adapters /\ \A c \in Adapters : HandlerOK(handler'[c])
    <3> HIDE DEF first
    <3> QED BY <1>5, <2>2 DEF TypeOK
  <2>4. exact' \in [Objects -> BOOLEAN]
    BY <1>5 DEF TypeOK
  <2> QED BY <1>4, <2>3, <2>4 DEF TypeOK, Receive, ownerVars, dispatcherVars
<1>6. CASE UNCHANGED <<handler, exact>>
  BY <1>4, <1>6 DEF TypeOK, Receive, ownerVars, dispatcherVars
<1> QED BY <1>5, <1>6 DEF Receive

LEMMA OwnerType ==
    ASSUME TypeOK,
           \/ Initialize \/ Stop \/ RegisterCallback \/ StartThreads
           \/ JoinReceivers \/ JoinDispatcher \/ CallbackAssigned
           \/ \E a \in Adapters : RegisterAdapter(a)
    PROVE  TypeOK'
<1>1. CASE Initialize
  <2>1. /\ session' \in 0..MaxSessions
        /\ orderBooks' \in [Symbols -> 0..MaxSessions]
    BY <1>1, BoundsAssumption DEF Initialize, TypeOK
  <2> QED BY <1>1, <2>1 DEF Initialize, TypeOK, ioVars, dispatcherVars
<1>2. CASE Stop
  BY <1>2 DEF Stop, TypeOK, ioVars, dispatcherVars
<1>3. CASE RegisterCallback
  BY <1>3 DEF RegisterCallback, TypeOK, ioVars, dispatcherVars
<1>4. CASE StartThreads
  BY <1>4, BlankUpdateIsUpdate
     DEF StartThreads, TypeOK, ioVars, dispatcherVars, Dispatcher
<1>5. CASE JoinReceivers
  BY <1>5 DEF JoinReceivers, TypeOK, ioVars, dispatcherVars
<1>6. CASE JoinDispatcher
  BY <1>6, BlankUpdateIsUpdate
     DEF JoinDispatcher, TypeOK, ioVars, dispatcherVars, Dispatcher
<1>7. CASE CallbackAssigned
  BY <1>7 DEF CallbackAssigned, TypeOK, ioVars, dispatcherVars
<1>8. ASSUME NEW a \in Adapters, RegisterAdapter(a) PROVE TypeOK'
  BY <1>8 DEF RegisterAdapter, TypeOK, ioVars, dispatcherVars
<1> QED BY <1>1, <1>2, <1>3, <1>4, <1>5, <1>6, <1>7, <1>8

LEMMA TryDequeueType ==
    ASSUME TypeOK, NEW a \in Adapters, TryDequeue(a)
    PROVE  TypeOK'
<1>1. queue \in [Adapters -> Seq(Updates)] /\ taken \in [Adapters -> Nat]
  BY DEF TypeOK
<1>2. queue[a] # <<>> /\ queue[a] \in Seq(Updates)
  BY <1>1 DEF TryDequeue
<1>3. Head(queue[a]) \in Updates /\ Tail(queue[a]) \in Seq(Updates)
  BY <1>2
<1>4. queue' \in [Adapters -> Seq(Updates)]
  BY <1>1, <1>3 DEF TryDequeue
<1>5. taken' \in [Adapters -> Nat]
  BY <1>1 DEF TryDequeue
<1>6. dispatcher' \in [pc : {"none", "checking", "polling", "notifying",
                             "calling", "exited", "crashed"},
                       from : SUBSET Adapters, update : Updates]
  BY <1>3 DEF TryDequeue
<1> QED BY <1>4, <1>5, <1>6 DEF TryDequeue, TypeOK, ownerVars, ioVars

LEMMA DispatchType ==
    ASSUME TypeOK, Dispatch
    PROVE  TypeOK'
<1>1. CASE CheckRunning
  BY <1>1, BlankUpdateIsUpdate DEF CheckRunning, TypeOK, ownerVars, ioVars, Dispatcher
<1>2. ASSUME NEW a \in Adapters, TryDequeue(a) PROVE TypeOK'
  BY <1>2, TryDequeueType
<1>3. CASE NothingQueued
  BY <1>3, BlankUpdateIsUpdate DEF NothingQueued, TypeOK, ownerVars, ioVars, Dispatcher
<1>4. CASE Notify
  <2>1. dispatcher \in [pc : {"none", "checking", "polling", "notifying",
                               "calling", "exited", "crashed"},
                         from : SUBSET Adapters, update : Updates]
    BY DEF TypeOK
  <2>2. Dispatcher("checking") \in [pc : {"none", "checking", "polling", "notifying",
                               "calling", "exited", "crashed"},
                         from : SUBSET Adapters, update : Updates]
    BY BlankUpdateIsUpdate DEF Dispatcher
  <2>3. dispatcher' \in [pc : {"none", "checking", "polling", "notifying",
                               "calling", "exited", "crashed"},
                         from : SUBSET Adapters, update : Updates]
    BY <1>4, <2>1, <2>2 DEF Notify
  <2> QED BY <1>4, <2>3 DEF Notify, TypeOK, ownerVars, ioVars
<1>5. CASE CallTorn
  <2>1. DOMAIN handler' = Adapters /\ \A c \in Adapters : HandlerOK(handler'[c])
    BY <1>5, IdleIsHandler DEF CallTorn
  <2>2. dispatcher' \in [pc : {"none", "checking", "polling", "notifying",
                               "calling", "exited", "crashed"},
                         from : SUBSET Adapters, update : Updates]
    BY <1>5, BlankUpdateIsUpdate DEF CallTorn, Dispatcher
  <2>3. receivers' \in [Adapters -> {"none", "running", "exited"}]
    BY <1>5 DEF CallTorn
  <2>4. /\ control' = "dead"
        /\ UNCHANGED <<running, session, orderBooks, registered, updateCallback>>
        /\ UNCHANGED <<books, published, received, venue, exact, queue, taken>>
    BY <1>5 DEF CallTorn
  <2> QED BY <2>1, <2>2, <2>3, <2>4 DEF TypeOK
<1>6. CASE CallbackReturns
  BY <1>6, BlankUpdateIsUpdate DEF CallbackReturns, TypeOK, ownerVars, ioVars, Dispatcher
<1> QED BY <1>1, <1>2, <1>3, <1>4, <1>5, <1>6 DEF Dispatch

\* Every variable keeps its type: the books stay maps of prices to positive
\* sizes whatever the adapters write, and a handler's locals fit its place.
THEOREM TypeCorrect == Spec => []TypeOK
<1>1. Init => TypeOK
  <2> SUFFICES ASSUME Init PROVE TypeOK
    OBVIOUS
  <2>1. \A o \in Objects : IsBook(books[o], Prices, Sizes)
    BY EmptyBookIsBook DEF Init
  <2>2. DOMAIN handler = Adapters /\ \A a \in Adapters : HandlerOK(handler[a])
    BY IdleIsHandler DEF Init
  <2>3. dispatcher \in [pc : {"none", "checking", "polling", "notifying",
                               "calling", "exited", "crashed"},
                         from : SUBSET Adapters, update : Updates]
    BY BlankUpdateIsUpdate DEF Init, Dispatcher
  <2>4. 0 \in 0..MaxMessages /\ 0 \in 0..MaxSessions /\ <<>> \in Seq(Updates)
    BY BoundsAssumption
  <2> QED BY <2>1, <2>2, <2>3, <2>4 DEF Init, TypeOK
<1>2. TypeOK /\ [Next]_vars => TypeOK'
  <2> SUFFICES ASSUME TypeOK, [Next]_vars PROVE TypeOK'
    OBVIOUS
  <2>1. CASE Initialize \/ Stop \/ RegisterCallback \/ Proceed
    BY <2>1, OwnerType DEF Proceed
  <2>2. ASSUME NEW a \in Adapters, NEW m \in Messages, Receive(a, m) PROVE TypeOK'
    BY <2>2, ReceiveType
  <2>3. ASSUME NEW a \in Adapters, Handle(a) PROVE TypeOK'
    BY <2>3, SetSnapshotType, ApplyType, ReadsType, EnqueueType DEF Handle
  <2>4. ASSUME NEW a \in Adapters, ReceiverExit(a) PROVE TypeOK'
    BY <2>4 DEF ReceiverExit, TypeOK, ownerVars, ioVars, dispatcherVars
  <2>5. CASE Dispatch
    BY <2>5, DispatchType
  <2>6. CASE UNCHANGED vars
    BY <2>6 DEF vars, TypeOK, ownerVars, ioVars, dispatcherVars
  <2> QED BY <2>1, <2>2, <2>3, <2>4, <2>5, <2>6 DEF Next
<1> QED BY <1>1, <1>2, PTL DEF Spec

-----------------------------------------------------------------------------
\* The dispatcher thread is there only while the engine runs or a call of
\* stop has not returned: what makes NoCallbackAfterStop inductive are the
\* calls in between, of which none begins while stop runs.
DispatcherJoined ==
    ~running /\ control \in {"idle", "registering", "assigning"}
        => dispatcher.pc = "none"

\* Once stop has returned, the callback is not called, and no call of it is
\* under way: stop joins the dispatcher thread before it returns.
THEOREM QuietAfterStop == Spec => []NoCallbackAfterStop
<1>1. Init => DispatcherJoined
  BY DEF Init, Dispatcher, DispatcherJoined
<1>2. DispatcherJoined /\ [Next]_vars => DispatcherJoined'
  <2> SUFFICES ASSUME DispatcherJoined, [Next]_vars PROVE DispatcherJoined'
    OBVIOUS
  <2> USE DEF DispatcherJoined
  <2>1. CASE Initialize \/ Stop \/ RegisterCallback
    BY <2>1 DEF Initialize, Stop, RegisterCallback, dispatcherVars
  <2>2. CASE Proceed
    BY <2>2 DEF Proceed, RegisterAdapter, StartThreads, JoinReceivers, JoinDispatcher,
                CallbackAssigned, Dispatcher, dispatcherVars
  <2>3. ASSUME NEW a \in Adapters, NEW m \in Messages, Receive(a, m)
        PROVE  DispatcherJoined'
    BY <2>3 DEF Receive, ownerVars, dispatcherVars
  <2>4. ASSUME NEW a \in Adapters, Handle(a) PROVE DispatcherJoined'
    BY <2>4 DEF Handle, SetSnapshot, ApplyBid, ApplyAsk, ReadBestBid, ReadBestAsk,
                ReadBidVolume, ReadAskVolume, HandlerStep, Enqueue, ownerVars,
                dispatcherVars
  <2>5. ASSUME NEW a \in Adapters, ReceiverExit(a) PROVE DispatcherJoined'
    BY <2>5 DEF ReceiverExit, ownerVars, dispatcherVars
  <2>6. CASE Dispatch
    BY <2>6 DEF Dispatch, CheckRunning, TryDequeue, NothingQueued, Notify, CallTorn,
                CallbackReturns, ownerVars
  <2>7. CASE UNCHANGED vars
    BY <2>7 DEF vars, ownerVars, dispatcherVars
  <2> QED BY <2>1, <2>2, <2>3, <2>4, <2>5, <2>6, <2>7 DEF Next
<1>3. DispatcherJoined => NoCallbackAfterStop
  BY DEF DispatcherJoined, NoCallbackAfterStop
<1> QED BY <1>1, <1>2, <1>3, PTL DEF Spec

-----------------------------------------------------------------------------
\* What an adapter has published and the dispatcher has not taken is in the
\* queue, in order.
QueueIsTheRest ==
    \A a \in Adapters :
        /\ published[a] = taken[a] + Len(queue[a])
        /\ \A i \in 1..Len(queue[a]) : queue[a][i].n = taken[a] + i

\* The updates of each adapter reach the dispatcher in order, none of them
\* missing and none twice.
THEOREM TakenAsPublished == Spec => TakenInOrder
<1>1. Init => QueueIsTheRest
  BY DEF Init, QueueIsTheRest
<1>2. ASSUME TypeOK, QueueIsTheRest, [Next]_vars
      PROVE  /\ QueueIsTheRest'
             /\ \A a \in Adapters : taken'[a] # taken[a] =>
                   dispatcher'.from = {a} /\ dispatcher'.update.n = taken[a] + 1
  <2>1. /\ queue \in [Adapters -> Seq(Updates)]
        /\ published \in [Adapters -> Nat] /\ taken \in [Adapters -> Nat]
    BY <1>2 DEF TypeOK
  <2>2. CASE UNCHANGED <<queue, published, taken>>
    BY <1>2, <2>2 DEF QueueIsTheRest
  <2>3. ASSUME NEW a \in Adapters, Enqueue(a)
        PROVE  QueueIsTheRest' /\ taken' = taken
    <3> DEFINE u == [handler[a].update EXCEPT !.n = published[a] + 1]
    <3>1. /\ queue' = [queue EXCEPT ![a] = Append(queue[a], u)]
          /\ published' = [published EXCEPT ![a] = published[a] + 1]
          /\ taken' = taken
      BY <2>3 DEF Enqueue, dispatcherVars
    <3>2. u \in Updates /\ u.n = published[a] + 1
      <4>1. handler[a].update \in Updates
        BY <1>2, <2>3, AtWork DEF Enqueue
      <4>2. published[a] + 1 \in Nat
        BY <2>1
      <4>3. \A x \in Nat : [handler[a].update EXCEPT !.n = x] \in Updates
                          /\ [handler[a].update EXCEPT !.n = x].n = x
        BY <4>1, UpdateFields
      <4> QED BY <4>2, <4>3
    <3> HIDE DEF u
    <3> SUFFICES ASSUME NEW c \in Adapters
                 PROVE  /\ published'[c] = taken[c] + Len(queue'[c])
                        /\ \A i \in 1..Len(queue'[c]) : queue'[c][i].n = taken[c] + i
      BY <3>1 DEF QueueIsTheRest
    <3>3. /\ published[c] = taken[c] + Len(queue[c])
          /\ \A i \in 1..Len(queue[c]) : queue[c][i].n = taken[c] + i
          /\ queue[c] \in Seq(Updates) /\ taken[c] \in Nat
      BY <1>2, <2>1 DEF QueueIsTheRest
    <3>4. CASE c = a
      <4>1. queue'[c] = Append(queue[c], u) /\ published'[c] = published[c] + 1
        BY <2>1, <3>1, <3>4
      <4>2. /\ Len(queue'[c]) = Len(queue[c]) + 1
            /\ \A i \in 1..Len(queue[c]) : queue'[c][i] = queue[c][i]
            /\ queue'[c][Len(queue[c]) + 1] = u
        BY <3>2, <3>3, <4>1
      <4>3. ASSUME NEW i \in 1..Len(queue'[c])
            PROVE  queue'[c][i].n = taken[c] + i
        <5>1. i \in 1..Len(queue[c]) \/ i = Len(queue[c]) + 1
          BY <3>3, <4>2
        <5>2. CASE i \in 1..Len(queue[c])
          BY <3>3, <4>2, <5>2
        <5>3. CASE i = Len(queue[c]) + 1
          <6>1. queue'[c][i] = u
            BY <4>2, <5>3
          <6>2. u.n = published[c] + 1 /\ published[c] + 1 = taken[c] + i
            BY <3>2, <3>3, <3>4, <5>3
          <6> QED BY <6>1, <6>2
        <5> QED BY <5>1, <5>2, <5>3
      <4>4. published'[c] = taken[c] + Len(queue'[c])
        <5>1. Len(queue[c]) \in Nat
          BY <3>3
        <5> QED BY <3>3, <4>1, <4>2, <5>1
      <4> QED BY <4>3, <4>4
    <3>5. CASE c # a
      BY <2>1, <3>1, <3>3, <3>5
    <3> QED BY <3>4, <3>5
  <2>4. ASSUME NEW a \in Adapters, TryDequeue(a)
        PROVE  /\ QueueIsTheRest'
               /\ \A c \in Adapters : taken'[c] # taken[c] =>
                     dispatcher'.from = {c} /\ dispatcher'.update.n = taken[c] + 1
    <3>1. /\ queue[a] # <<>>
          /\ queue' = [queue EXCEPT ![a] = Tail(queue[a])]
          /\ taken' = [taken EXCEPT ![a] = taken[a] + 1]
          /\ published' = published
          /\ dispatcher'.from = {a} /\ dispatcher'.update = Head(queue[a])
      BY <2>4 DEF TryDequeue, ioVars
    <3>2. ASSUME NEW c \in Adapters
          PROVE  /\ published[c] = taken'[c] + Len(queue'[c])
                 /\ \A i \in 1..Len(queue'[c]) : queue'[c][i].n = taken'[c] + i
      <4>1. /\ published[c] = taken[c] + Len(queue[c])
            /\ \A i \in 1..Len(queue[c]) : queue[c][i].n = taken[c] + i
            /\ queue[c] \in Seq(Updates) /\ taken[c] \in Nat
        BY <1>2, <2>1 DEF QueueIsTheRest
      <4>2. CASE c = a
        <5>1. queue'[c] = Tail(queue[c]) /\ taken'[c] = taken[c] + 1
          BY <2>1, <3>1, <4>2
        <5>2. queue[c] # <<>> /\ Len(queue[c]) \in Nat
          BY <3>1, <4>1, <4>2
        <5>3. /\ Len(Tail(queue[c])) = Len(queue[c]) - 1
              /\ \A i \in 1..Len(Tail(queue[c])) : Tail(queue[c])[i] = queue[c][i + 1]
          BY <4>1, <5>2
        <5>4. ASSUME NEW i \in 1..Len(queue'[c])
              PROVE  queue'[c][i].n = taken'[c] + i
          <6>1. i + 1 \in 1..Len(queue[c]) /\ queue'[c][i] = queue[c][i + 1]
            BY <5>1, <5>2, <5>3
          <6>2. queue[c][i + 1].n = taken[c] + (i + 1)
            BY <4>1, <6>1
          <6>3. queue'[c][i] = queue[c][i + 1] /\ taken'[c] = taken[c] + 1
            BY <5>1, <6>1
          <6>4. taken[c] \in Nat /\ i \in Int
            BY <4>1
          <6>5. taken[c] + (i + 1) = taken'[c] + i
            BY <6>3, <6>4
          <6> QED BY <6>2, <6>3, <6>5
        <5>5. published[c] = taken'[c] + Len(queue'[c])
          <6>1. /\ taken[c] \in Nat /\ Len(queue[c]) \in Nat
                /\ published[c] = taken[c] + Len(queue[c])
            BY <4>1, <5>2
          <6>2. Len(queue'[c]) = Len(queue[c]) - 1
            BY <5>1, <5>3
          <6>3. taken'[c] = taken[c] + 1
            BY <5>1
          <6> QED BY <6>1, <6>2, <6>3
        <5> QED BY <5>4, <5>5
      <4>3. CASE c # a
        BY <2>1, <3>1, <4>1, <4>3
      <4> QED BY <4>2, <4>3
    <3>3. Head(queue[a]).n = taken[a] + 1
      <4>1. queue[a] \in Seq(Updates) /\ Len(queue[a]) \in Nat \ {0}
        BY <2>1, <3>1
      <4>2. Head(queue[a]) = queue[a][1] /\ 1 \in 1..Len(queue[a])
        BY <4>1
      <4> QED BY <1>2, <4>2 DEF QueueIsTheRest
    <3> QED BY <2>1, <3>1, <3>2, <3>3 DEF QueueIsTheRest
  <2>5. CASE Initialize \/ Stop \/ RegisterCallback \/ Proceed
    BY <2>2, <2>5 DEF Initialize, Stop, RegisterCallback, Proceed, RegisterAdapter,
       StartThreads, JoinReceivers, JoinDispatcher, CallbackAssigned, ioVars, dispatcherVars
  <2>6. ASSUME NEW a \in Adapters, Handle(a), ~Enqueue(a)
        PROVE  UNCHANGED <<queue, published, taken>>
    BY <2>6 DEF Handle, SetSnapshot, ApplyBid, ApplyAsk, ReadBestBid, ReadBestAsk,
                ReadBidVolume, ReadAskVolume, HandlerStep, dispatcherVars
  <2>7. ASSUME NEW a \in Adapters, ReceiverExit(a) \/ \E m \in Messages : Receive(a, m)
        PROVE  UNCHANGED <<queue, published, taken>>
    BY <2>7 DEF ReceiverExit, Receive, ioVars, dispatcherVars
  <2>8. ASSUME Dispatch, \A a \in Adapters : ~TryDequeue(a)
        PROVE  UNCHANGED <<queue, published, taken>>
    BY <2>8 DEF Dispatch, CheckRunning, NothingQueued, Notify, CallTorn,
                CallbackReturns, ioVars
  <2>9. CASE UNCHANGED vars
    BY <2>2, <2>9 DEF vars, ioVars, dispatcherVars
  <2> QED BY <1>2, <2>2, <2>3, <2>4, <2>5, <2>6, <2>7, <2>8, <2>9 DEF Next
<1>3. TypeOK /\ QueueIsTheRest /\ [Next]_vars =>
         [\A a \in Adapters : taken'[a] # taken[a] =>
             dispatcher'.from = {a} /\ dispatcher'.update.n = taken[a] + 1]_vars
  BY <1>2
<1> QED BY <1>1, <1>2, <1>3, TypeCorrect, PTL DEF Spec, TakenInOrder

-----------------------------------------------------------------------------
\* No book is crossed, nor is the snapshot a handler is about to write.
SnapshotsUncrossed ==
    \A m \in Messages : m.isSnapshot => Uncrossed([bids |-> m.bids, asks |-> m.asks])

NothingCrosses ==
    /\ \A o \in Objects : Uncrossed(books[o])
    /\ \A a \in Adapters : handler[a].pc = "setSnapshot" =>
          Uncrossed([bids |-> handler[a].bids, asks |-> handler[a].asks])

\* A step that leaves an uncrossed book and no snapshot to write.
LEMMA HandlerStepUncrossed ==
    ASSUME TypeOK, NothingCrosses, NEW a \in Adapters,
           NEW b, Uncrossed(b), NEW next, next.pc # "setSnapshot",
           HandlerStep(a, b, next)
    PROVE  NothingCrosses'
<1>1. \A o \in Objects : Uncrossed(books'[o])
  BY DEF HandlerStep, TypeOK, NothingCrosses
<1>2. DOMAIN handler = Adapters /\ handler' = [handler EXCEPT ![a] = next]
  BY DEF HandlerStep, TypeOK
<1>3. ASSUME NEW c \in Adapters, handler'[c].pc = "setSnapshot"
      PROVE  Uncrossed([bids |-> handler'[c].bids, asks |-> handler'[c].asks])
  BY <1>2, <1>3 DEF NothingCrosses
<1> QED BY <1>1, <1>3 DEF NothingCrosses

LEMMA SetSnapshotUncrossed ==
    ASSUME TypeOK, NothingCrosses, NEW a \in Adapters, SetSnapshot(a)
    PROVE  NothingCrosses'
<1> DEFINE h == handler[a]
<1>1. /\ h = [pc |-> h.pc, at |-> h.at, bids |-> h.bids, asks |-> h.asks,
              update |-> h.update]
      /\ h.pc = "setSnapshot"
  BY AtWork DEF SetSnapshot
<1>2. Uncrossed([bids |-> h.bids, asks |-> h.asks])
  BY <1>1 DEF NothingCrosses
<1>3. PICK bid \in FirstLevel(h.bids), ask \in FirstLevel(h.asks) :
         HandlerStep(a, [bids |-> h.bids, asks |-> h.asks],
              [h EXCEPT !.pc = "enqueue",
                  !.bids = NoLevels, !.asks = NoLevels,
                  !.update = [@ EXCEPT !.bidPrice = bid[1], !.bidSize = bid[2],
                                       !.askPrice = ask[1], !.askSize = ask[2]]])
  BY DEF SetSnapshot
<1> DEFINE u == [h.update EXCEPT !.bidPrice = bid[1], !.bidSize = bid[2],
                                 !.askPrice = ask[1], !.askSize = ask[2]]
           next == [h EXCEPT !.pc = "enqueue", !.bids = NoLevels, !.asks = NoLevels,
                             !.update = u]
<1>4. HandlerStep(a, [bids |-> h.bids, asks |-> h.asks], next)
  BY <1>3
<1>5. next = [h EXCEPT !.pc = "enqueue", !.bids = NoLevels, !.asks = NoLevels,
                       !.update = u]
  OBVIOUS
<1> HIDE DEF u, next
<1>6. next.pc = "enqueue"
  BY <1>1, <1>5, NextSnapshot
<1>7. next.pc # "setSnapshot"
  BY <1>6
<1> QED BY <1>2, <1>4, <1>7, HandlerStepUncrossed

LEMMA ApplyUncrossed ==
    ASSUME TypeOK, NothingCrosses, NEW a \in Adapters, NEW p \in Prices,
           ApplyBid(a, p) \/ ApplyAsk(a, p)
    PROVE  NothingCrosses'
<1> DEFINE h == handler[a]
<1>1. /\ HandlerOK(h) /\ h.at \in Objects
      /\ h = [pc |-> h.pc, at |-> h.at, bids |-> h.bids, asks |-> h.asks,
              update |-> h.update]
      /\ IsBook(Object(a), Prices, Sizes)
      /\ h.pc = "applying"
  BY AtWork DEF ApplyBid, ApplyAsk
<1>2. /\ h.bids \in [DOMAIN h.bids -> Sizes \cup {0}]
      /\ h.asks \in [DOMAIN h.asks -> Sizes \cup {0}]
  <2>1. IsBook([bids |-> h.bids, asks |-> h.asks], Prices, Sizes \cup {0})
    BY <1>1 DEF HandlerOK
  <2> QED BY <2>1 DEF IsBook
<1>3. Uncrossed(Object(a))
  BY <1>1 DEF NothingCrosses, Object
<1>4. /\ DOMAIN Object(a).bids \subseteq Nat /\ DOMAIN Object(a).asks \subseteq Nat
      /\ p \in Nat
  BY <1>1 DEF IsBook, Prices
<1>5. CASE ApplyBid(a, p)
  <2> DEFINE b == IF h.bids[p] = 0 THEN WithoutBid(Object(a), p)
                  ELSE WithBid(Object(a), p, h.bids[p])
             next == [h EXCEPT !.bids = Erase(@, p)]
  <2>1. HandlerStep(a, b, next) /\ p \in DOMAIN h.bids
    BY <1>5 DEF ApplyBid
  <2>2. ASSUME h.bids[p] = 0 PROVE Uncrossed(b)
    <3>1. /\ DOMAIN WithoutBid(Object(a), p).bids \subseteq DOMAIN Object(a).bids
          /\ DOMAIN WithoutBid(Object(a), p).asks \subseteq DOMAIN Object(a).asks
      BY <1>1, WithoutBidIsBook
    <3>2. Uncrossed(WithoutBid(Object(a), p))
      BY <1>3, <3>1 DEF Uncrossed
    <3> QED BY <2>2, <3>2
  <2>3. ASSUME h.bids[p] # 0 PROVE Uncrossed(b)
    <3>1. h.bids[p] \in Sizes
      BY <1>2, <2>1, <2>3
    <3>2. /\ DOMAIN WithBid(Object(a), p, h.bids[p]).asks = DOMAIN Object(a).asks
          /\ \A d \in DOMAIN WithBid(Object(a), p, h.bids[p]).bids :
                \/ d \in DOMAIN Object(a).bids
                \/ d = p /\ \A q \in DOMAIN Object(a).asks : p < q
      BY <1>1, <3>1, WithBidIsBook
    <3>3. Uncrossed(WithBid(Object(a), p, h.bids[p]))
      BY <1>3, <3>2 DEF Uncrossed
    <3> QED BY <2>3, <3>3
  <2>4. next.pc # "setSnapshot"
    <3> DEFINE bids == Erase(h.bids, p)
    <3>1. next = [h EXCEPT !.bids = bids]
      OBVIOUS
    <3> HIDE DEF h, bids, next
    <3>2. next.pc = h.pc
      BY <1>1, <3>1, NextBids
    <3> QED BY <1>1, <3>2
  <2>5. Uncrossed(b)
    BY <2>2, <2>3
  <2> HIDE DEF b, next
  <2> QED BY <2>1, <2>4, <2>5, HandlerStepUncrossed
<1>6. CASE ApplyAsk(a, p)
  <2> DEFINE b == IF h.asks[p] = 0 THEN WithoutAsk(Object(a), p)
                  ELSE WithAsk(Object(a), p, h.asks[p])
             next == [h EXCEPT !.asks = Erase(@, p)]
  <2>1. HandlerStep(a, b, next) /\ p \in DOMAIN h.asks
    BY <1>6 DEF ApplyAsk
  <2>2. ASSUME h.asks[p] = 0 PROVE Uncrossed(b)
    <3>1. /\ DOMAIN WithoutAsk(Object(a), p).bids \subseteq DOMAIN Object(a).bids
          /\ DOMAIN WithoutAsk(Object(a), p).asks \subseteq DOMAIN Object(a).asks
      BY <1>1, WithoutAskIsBook
    <3>2. Uncrossed(WithoutAsk(Object(a), p))
      BY <1>3, <3>1 DEF Uncrossed
    <3> QED BY <2>2, <3>2
  <2>3. ASSUME h.asks[p] # 0 PROVE Uncrossed(b)
    <3>1. h.asks[p] \in Sizes
      BY <1>2, <2>1, <2>3
    <3>2. /\ DOMAIN WithAsk(Object(a), p, h.asks[p]).bids = DOMAIN Object(a).bids
          /\ \A q \in DOMAIN WithAsk(Object(a), p, h.asks[p]).asks :
                \/ q \in DOMAIN Object(a).asks
                \/ q = p /\ \A d \in DOMAIN Object(a).bids : p > d
      BY <1>1, <3>1, WithAskIsBook
    <3>3. Uncrossed(WithAsk(Object(a), p, h.asks[p]))
      BY <1>3, <1>4, <3>2 DEF Uncrossed
    <3> QED BY <2>3, <3>3
  <2>4. next.pc # "setSnapshot"
    <3> DEFINE asks == Erase(h.asks, p)
    <3>1. next = [h EXCEPT !.asks = asks]
      OBVIOUS
    <3> HIDE DEF h, asks, next
    <3>2. next.pc = h.pc
      BY <1>1, <3>1, NextAsks
    <3> QED BY <1>1, <3>2
  <2>5. Uncrossed(b)
    BY <2>2, <2>3
  <2> HIDE DEF b, next
  <2> QED BY <2>1, <2>4, <2>5, HandlerStepUncrossed
<1> QED BY <1>5, <1>6

\* No book the engine hands out crosses, however many adapters write to it at
\* once: what the writers race for is settled call by call.
THEOREM EngineBooksUncrossed == Spec => []BooksUncrossed
<1> DEFINE Inv == SnapshotsUncrossed => NothingCrosses
<1>1. Init => Inv
  BY DEF Init, NothingCrosses, Uncrossed, EmptyBook, NoLevels, Idle
<1>2. TypeOK /\ Inv /\ [Next]_vars => Inv'
  <2> SUFFICES ASSUME TypeOK, SnapshotsUncrossed, NothingCrosses, [Next]_vars
               PROVE  NothingCrosses'
    BY DEF SnapshotsUncrossed
  <2>1. CASE UNCHANGED <<books, handler>>
    BY <2>1 DEF NothingCrosses
  <2>2. CASE Initialize \/ Stop \/ RegisterCallback \/ Proceed
    BY <2>1, <2>2 DEF Initialize, Stop, RegisterCallback, Proceed, RegisterAdapter,
       StartThreads, JoinReceivers, JoinDispatcher, CallbackAssigned, ioVars
  <2>3. ASSUME NEW a \in Adapters, NEW m \in Messages, Receive(a, m)
        PROVE  NothingCrosses'
    <3> DEFINE first == [pc |-> IF m.isSnapshot THEN "setSnapshot" ELSE "applying",
                         at |-> <<m.symbol, orderBooks[m.symbol]>>,
                         bids |-> m.bids, asks |-> m.asks,
                         update |-> [BlankUpdate EXCEPT !.isSnapshot = m.isSnapshot]]
    <3>1. CASE handler' = [handler EXCEPT ![a] = first]
      <4>1. first.pc = "setSnapshot" => Uncrossed([bids |-> first.bids, asks |-> first.asks])
        BY DEF SnapshotsUncrossed
      <4>2. DOMAIN handler = Adapters
        BY DEF TypeOK
      <4> HIDE DEF first
      <4>3. \A c \in Adapters : handler'[c].pc = "setSnapshot" =>
               Uncrossed([bids |-> handler'[c].bids, asks |-> handler'[c].asks])
        BY <3>1, <4>1, <4>2 DEF NothingCrosses
      <4> QED BY <2>3, <4>3 DEF NothingCrosses, Receive
    <3>2. CASE UNCHANGED handler
      BY <2>1, <2>3, <3>2 DEF Receive
    <3> QED BY <2>3, <3>1, <3>2 DEF Receive
  <2>4. ASSUME NEW a \in Adapters, NEW next, next.pc # "setSnapshot",
               handler[a].pc \notin {"idle", "dead"}, HandlerStep(a, Object(a), next)
        PROVE  NothingCrosses'
    <3>1. Uncrossed(Object(a))
      BY <2>4, AtWork DEF NothingCrosses, Object
    <3> QED BY <2>4, <3>1, HandlerStepUncrossed
  <2>5. ASSUME NEW a \in Adapters, NEW pc \in HandlerPcs \ {"setSnapshot"}, NEW u,
               handler[a].pc \notin {"idle", "dead"},
               HandlerStep(a, Object(a), [handler[a] EXCEPT !.pc = pc, !.update = u])
        PROVE  NothingCrosses'
    <3> DEFINE next == [handler[a] EXCEPT !.pc = pc, !.update = u]
    <3>1. handler[a] = [pc |-> handler[a].pc, at |-> handler[a].at,
                        bids |-> handler[a].bids, asks |-> handler[a].asks,
                        update |-> handler[a].update]
      BY <2>5, AtWork
    <3>2. next = [handler[a] EXCEPT !.pc = pc, !.update = u]
      OBVIOUS
    <3>3. HandlerStep(a, Object(a), next)
      BY <2>5
    <3> HIDE DEF next
    <3>4. next.pc = pc
      BY <3>1, <3>2, NextUpdate
    <3> QED BY <2>4, <2>5, <3>3, <3>4
  <2>6. ASSUME NEW a \in Adapters, ReadBestBid(a) PROVE NothingCrosses'
    <3> DEFINE x == BestBid(Object(a))
    <3>1. HandlerStep(a, Object(a), [handler[a] EXCEPT !.pc = "getBestAsk", !.update.bidPrice = x])
      BY <2>6 DEF ReadBestBid
    <3>2. handler[a].pc \notin {"idle", "dead"}
      BY <2>6 DEF ReadBestBid
    <3> HIDE DEF x
    <3>3. HandlerStep(a, Object(a),
             [handler[a] EXCEPT !.pc = "getBestAsk",
                                !.update = [handler[a].update EXCEPT !.bidPrice = x]])
      BY <3>1, UpdateField
    <3>4. "getBestAsk" \in HandlerPcs \ {"setSnapshot"}
      BY DEF HandlerPcs
    <3> QED BY <2>5, <3>2, <3>3, <3>4
  <2>7. ASSUME NEW a \in Adapters, ReadBestAsk(a) PROVE NothingCrosses'
    <3> DEFINE x == BestAsk(Object(a))
    <3>1. HandlerStep(a, Object(a), [handler[a] EXCEPT !.pc = "getBidVolume", !.update.askPrice = x])
      BY <2>7 DEF ReadBestAsk
    <3>2. handler[a].pc \notin {"idle", "dead"}
      BY <2>7 DEF ReadBestAsk
    <3> HIDE DEF x
    <3>3. HandlerStep(a, Object(a),
             [handler[a] EXCEPT !.pc = "getBidVolume",
                                !.update = [handler[a].update EXCEPT !.askPrice = x]])
      BY <3>1, UpdateField
    <3>4. "getBidVolume" \in HandlerPcs \ {"setSnapshot"}
      BY DEF HandlerPcs
    <3> QED BY <2>5, <3>2, <3>3, <3>4
  <2>8. ASSUME NEW a \in Adapters, ReadBidVolume(a) PROVE NothingCrosses'
    <3> DEFINE x == BidVolume(Object(a), handler[a].update.bidPrice)
    <3>1. HandlerStep(a, Object(a), [handler[a] EXCEPT !.pc = "getAskVolume", !.update.bidSize = x])
      BY <2>8 DEF ReadBidVolume
    <3>2. handler[a].pc \notin {"idle", "dead"}
      BY <2>8 DEF ReadBidVolume
    <3> HIDE DEF x
    <3>3. HandlerStep(a, Object(a),
             [handler[a] EXCEPT !.pc = "getAskVolume",
                                !.update = [handler[a].update EXCEPT !.bidSize = x]])
      BY <3>1, UpdateField
    <3>4. "getAskVolume" \in HandlerPcs \ {"setSnapshot"}
      BY DEF HandlerPcs
    <3> QED BY <2>5, <3>2, <3>3, <3>4
  <2>9. ASSUME NEW a \in Adapters, ReadAskVolume(a) PROVE NothingCrosses'
    <3> DEFINE x == AskVolume(Object(a), handler[a].update.askPrice)
    <3>1. HandlerStep(a, Object(a), [handler[a] EXCEPT !.pc = "enqueue", !.update.askSize = x])
      BY <2>9 DEF ReadAskVolume
    <3>2. handler[a].pc \notin {"idle", "dead"}
      BY <2>9 DEF ReadAskVolume
    <3> HIDE DEF x
    <3>3. HandlerStep(a, Object(a),
             [handler[a] EXCEPT !.pc = "enqueue",
                                !.update = [handler[a].update EXCEPT !.askSize = x]])
      BY <3>1, UpdateField
    <3>4. "enqueue" \in HandlerPcs \ {"setSnapshot"}
      BY DEF HandlerPcs
    <3> QED BY <2>5, <3>2, <3>3, <3>4
  <2>10. ASSUME NEW a \in Adapters, Enqueue(a) PROVE NothingCrosses'
    <3>1. DOMAIN handler = Adapters /\ handler' = [handler EXCEPT ![a] = Idle]
      BY <2>10 DEF TypeOK, Enqueue
    <3>2. \A c \in Adapters : handler'[c].pc = "setSnapshot" =>
             Uncrossed([bids |-> handler'[c].bids, asks |-> handler'[c].asks])
      BY <3>1 DEF NothingCrosses, Idle
    <3> QED BY <2>10, <3>2 DEF NothingCrosses, Enqueue
  <2>11. ASSUME NEW a \in Adapters, Handle(a) PROVE NothingCrosses'
    BY <2>6, <2>7, <2>8, <2>9, <2>10, <2>11, SetSnapshotUncrossed, ApplyUncrossed DEF Handle
  <2>12. CASE Dispatch
    <3>1. CASE CallTorn
      BY <2>12, <3>1 DEF CallTorn, NothingCrosses, Idle
    <3>2. CASE ~CallTorn
      BY <2>1, <2>12, <3>2 DEF Dispatch, CheckRunning, TryDequeue, NothingQueued, Notify,
         CallbackReturns, ioVars
    <3> QED BY <3>1, <3>2
  <2>13. ASSUME NEW a \in Adapters, ReceiverExit(a) PROVE NothingCrosses'
    BY <2>1, <2>13 DEF ReceiverExit, ioVars
  <2>14. CASE UNCHANGED vars
    BY <2>1, <2>14 DEF vars, ioVars
  <2> QED BY <2>2, <2>3, <2>11, <2>12, <2>13, <2>14 DEF Next
<1>3. Inv => BooksUncrossed
  BY DEF NothingCrosses, SnapshotsUncrossed, BooksUncrossed
<1> QED BY <1>1, <1>2, <1>3, TypeCorrect, PTL DEF Spec
=============================================================================
