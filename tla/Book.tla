-------------------------------- MODULE Book --------------------------------
(***************************************************************************)
(* The value of one OrderBook object and what each of its member functions *)
(* computes from it or makes of it (src/core/OrderBook.cpp).  Every member *)
(* function holds the object's shared_mutex from its first to its last     *)
(* statement, so each is one function of the value here; getSpread and     *)
(* getMidPrice, which take the lock twice, are not: OrderBook reads for    *)
(* them in two steps.                                                      *)
(*                                                                         *)
(* A price is its rank among the prices of the instrument, counted from 1; *)
(* 0 is the 0.0 the code answers for an empty side.  A std::map from price *)
(* to size is a function on the set of its keys: the comparator of bids    *)
(* (std::greater) only says that begin() is the largest key, that of asks  *)
(* that it is the smallest.                                                *)
(***************************************************************************)
EXTENDS Integers, FiniteSetsExt, Functions

NoLevels == [p \in {} |-> 0]

EmptyBook == [bids |-> NoLevels, asks |-> NoLevels]

\* The books whose keys are in prices and whose sizes are in sizes.
IsBook(b, prices, sizes) ==
    /\ DOMAIN b = {"bids", "asks"}
    /\ b = [bids |-> b.bids, asks |-> b.asks]
    /\ \A levels \in {b.bids, b.asks} :
          /\ DOMAIN levels \subseteq prices
          /\ levels \in [DOMAIN levels -> sizes]

-----------------------------------------------------------------------------
\* std::map's operator[] followed by an assignment, and its erase(key).
\* Faulty: bids_[price] += size; and a map that keeps its last key only.
PutAccumulating(levels, p, s) ==
    [q \in DOMAIN levels \cup {p} |->
        IF q # p THEN levels[q]
        ELSE IF p \in DOMAIN levels THEN levels[p] + s ELSE s]

PutAlone(levels, p, s) == [q \in {p} |-> s]

Put(levels, p, s) ==
    [q \in DOMAIN levels \cup {p} |-> IF q = p THEN s ELSE levels[q]]

Erase(levels, p) == Restrict(levels, DOMAIN levels \ {p})

-----------------------------------------------------------------------------
\* What the writers make of the book.  A level that would meet the other
\* side is dropped without a word: updateBid and updateAsk return void.
\* Faulty: the guard lets the bid meet the ask; and there is none.
WithBidTouching(b, p, s) ==
    IF \A a \in DOMAIN b.asks : p <= a
    THEN [b EXCEPT !.bids = Put(@, p, s)] ELSE b

WithBidUnguarded(b, p, s) == [b EXCEPT !.bids = Put(@, p, s)]

WithBid(b, p, s) ==
    IF \A a \in DOMAIN b.asks : p < a
    THEN [b EXCEPT !.bids = Put(@, p, s)] ELSE b

\* Faulty: the guard looks at one bid, but not at the best; and at none.
WithAskAboveWorst(b, p, s) ==
    IF DOMAIN b.bids # {} => p > Min(DOMAIN b.bids)
    THEN [b EXCEPT !.asks = Put(@, p, s)] ELSE b

WithAskUnguarded(b, p, s) == [b EXCEPT !.asks = Put(@, p, s)]

WithAsk(b, p, s) ==
    IF \A d \in DOMAIN b.bids : p > d
    THEN [b EXCEPT !.asks = Put(@, p, s)] ELSE b

WithoutBid(b, p) == [b EXCEPT !.bids = Erase(@, p)]

WithoutAsk(b, p) == [b EXCEPT !.asks = Erase(@, p)]

-----------------------------------------------------------------------------
\* What the readers compute from it.
BestBid(b) == IF DOMAIN b.bids = {} THEN 0 ELSE Max(DOMAIN b.bids)

BestAsk(b) == IF DOMAIN b.asks = {} THEN 0 ELSE Min(DOMAIN b.asks)

BidVolume(b, p) == IF p \in DOMAIN b.bids THEN b.bids[p] ELSE 0

AskVolume(b, p) == IF p \in DOMAIN b.asks THEN b.asks[p] ELSE 0

\* The cumulative volumes: a walk over the levels from the best one that adds
\* the sizes up, left being the keys that the iterator has yet to come to, and
\* leaves the loop at the first price that is no better than the one asked for.
\* Faulty: it leaves one level late.
CumulativeBidVolumeInclusive(b, price) ==
    LET from[left \in SUBSET DOMAIN b.bids] ==
            IF left = {} \/ Max(left) < price
            THEN 0 ELSE b.bids[Max(left)] + from[left \ {Max(left)}]
    IN  from[DOMAIN b.bids]

CumulativeBidVolume(b, price) ==
    LET from[left \in SUBSET DOMAIN b.bids] ==
            IF left = {} \/ Max(left) <= price
            THEN 0 ELSE b.bids[Max(left)] + from[left \ {Max(left)}]
    IN  from[DOMAIN b.bids]

CumulativeAskVolume(b, price) ==
    LET from[left \in SUBSET DOMAIN b.asks] ==
            IF left = {} \/ Min(left) >= price
            THEN 0 ELSE b.asks[Min(left)] + from[left \ {Min(left)}]
    IN  from[DOMAIN b.asks]

-----------------------------------------------------------------------------
\* The pairs of a bid and an ask level that cross, and a book without any.
Crossings(b) ==
    {c \in (DOMAIN b.bids) \X (DOMAIN b.asks) : c[1] >= c[2]}

Uncrossed(b) == \A p \in DOMAIN b.bids, q \in DOMAIN b.asks : p < q

\* The top of the book, as the code answers it.
Top(b) == [bid |-> BestBid(b), ask |-> BestAsk(b)]
=============================================================================
