------------------------------ MODULE OrderBook ------------------------------
(***************************************************************************)
(* One OrderBook shared by threads (src/core/OrderBook.cpp).  A writer's   *)
(* call is one action: it runs inside one critical section.  A reader's    *)
(* getSpread or getMidPrice is not: each computes from getBestBid() and    *)
(* getBestAsk(), two critical sections that other calls may come between,  *)
(* in an order C++ leaves open (the operands of - and of + are             *)
(* indeterminately sequenced).                                             *)
(***************************************************************************)
EXTENDS Book

CONSTANTS
    MaxPrice,   \* prices are 1..MaxPrice
    Sizes,      \* the sizes callers pass
    Snapshots,  \* the [bids, asks] callers pass to setSnapshot
    Calls,      \* the writing member functions that are called
    Readers     \* the threads that read

Prices == 1..MaxPrice

WritingCalls == {"updateBid", "updateAsk", "removeBid", "removeAsk",
                 "setSnapshot", "clear"}

\* What a reader is computing: the quote of the thread in
\* tests/unit/orderbook_test.cpp (getBestBid, then getBestAsk), and then
\* getSpread and getMidPrice, whose results it compares with the quote.
Computations == {"quote", "getSpread", "getMidPrice"}

\* The value of a price not read yet, which no price and no answer equals.
Unread == -1

ASSUME MaxPriceAssumption == MaxPrice \in Nat \ {0}

ASSUME SizesAssumption == Sizes \subseteq Nat

ASSUME SnapshotsAssumption == \A b \in Snapshots : IsBook(b, Prices, Sizes)

ASSUME CallsAssumption == Calls \subseteq WritingCalls

VARIABLES
    book,    \* bids and asks, protected by m
    reader   \* the local variables of each reader

vars == <<book, reader>>

\* bid and ask are what the two calls of the computation returned, quote the
\* pair the first computation of the round obtained.  opened is not in the
\* code: it remembers the top of the book when the computation began.
ReaderStates ==
    [computing : Computations,
     bid : Prices \cup {0, Unread}, ask : Prices \cup {0, Unread},
     quote : [bid : Prices \cup {0}, ask : Prices \cup {0}],
     opened : [bid : Prices \cup {0}, ask : Prices \cup {0}]]

TypeOK ==
    /\ IsBook(book, Prices, Sizes)
    /\ reader \in [Readers -> ReaderStates]

\* A reader about to begin a computation while the book is b.
Beginning(computation, quote, b) ==
    [computing |-> computation, bid |-> Unread, ask |-> Unread,
     quote |-> quote, opened |-> Top(b)]

Init ==
    /\ book = EmptyBook
    /\ reader = [r \in Readers |->
                    Beginning("quote", [bid |-> 0, ask |-> 0], EmptyBook)]

-----------------------------------------------------------------------------
UpdateBid(p, s) ==
    /\ "updateBid" \in Calls
    /\ book' = WithBid(book, p, s)
    /\ UNCHANGED reader

UpdateAsk(p, s) ==
    /\ "updateAsk" \in Calls
    /\ book' = WithAsk(book, p, s)
    /\ UNCHANGED reader

RemoveBid(p) ==
    /\ "removeBid" \in Calls
    /\ book' = WithoutBid(book, p)
    /\ UNCHANGED reader

RemoveAsk(p) ==
    /\ "removeAsk" \in Calls
    /\ book' = WithoutAsk(book, p)
    /\ UNCHANGED reader

\* The new sides replace the old ones as they are: no test that they cross.
SetSnapshot(b) ==
    /\ "setSnapshot" \in Calls
    /\ book' = b
    /\ UNCHANGED reader

Clear ==
    /\ "clear" \in Calls
    /\ book' = EmptyBook
    /\ UNCHANGED reader

-----------------------------------------------------------------------------
\* The two critical sections of a computation.  A quote reads the bid first.
ReadBid(r) ==
    /\ reader[r].bid = Unread
    /\ reader' = [reader EXCEPT ![r].bid = BestBid(book)]
    /\ UNCHANGED book

ReadAsk(r) ==
    /\ reader[r].ask = Unread
    /\ reader[r].computing = "quote" => reader[r].bid # Unread
    /\ reader' = [reader EXCEPT ![r].ask = BestAsk(book)]
    /\ UNCHANGED book

\* A computation has read both sides: its result is ready.
Returned(r) == reader[r].bid # Unread /\ reader[r].ask # Unread

Result(r) == [bid |-> reader[r].bid, ask |-> reader[r].ask]

\* The next computation of the reader's loop.
NextComputation(r) ==
    /\ Returned(r)
    /\ reader' = [reader EXCEPT ![r] =
          CASE @.computing = "quote" -> Beginning("getSpread", Result(r), book)
            [] @.computing = "getSpread" ->
                  Beginning("getMidPrice", @.quote, book)
            [] @.computing = "getMidPrice" ->
                  Beginning("quote", [bid |-> 0, ask |-> 0], book)]
    /\ UNCHANGED book

-----------------------------------------------------------------------------
Write ==
    \/ \E p \in Prices, s \in Sizes : UpdateBid(p, s) \/ UpdateAsk(p, s)
    \/ \E p \in Prices : RemoveBid(p) \/ RemoveAsk(p)
    \/ \E b \in Snapshots : SetSnapshot(b)
    \/ Clear

Read(r) == ReadBid(r) \/ ReadAsk(r) \/ NextComputation(r)

Next == Write \/ \E r \in Readers : Read(r)

Spec == Init /\ [][Next]_vars

-----------------------------------------------------------------------------
SnapshotsUncrossed == \A b \in Snapshots : Uncrossed(b)

\* No bid level is at or above an ask level, as the tests ask of the final
\* book (tests/unit/orderbook_test.cpp:133 and 237), unless a snapshot said
\* so.  The guards of updateBid and updateAsk look at the one level begin()
\* points to and setSnapshot has no guard: the levels that cross are always
\* some of those that crossed in one of the snapshots.
CrossedAsInSnapshot ==
    \E b \in Snapshots \cup {EmptyBook} : Crossings(book) \subseteq Crossings(b)

\* What that comes to for an exchange that sends no crossed snapshot.
BookUncrossed == SnapshotsUncrossed => Uncrossed(book)

\* Whatever the snapshots were, only a snapshot brings in a crossing: no
\* update, removal or clear of another thread makes a pair of levels cross
\* that did not cross before, not even in a book that is crossed already.
NoNewCrossing ==
    [][Crossings(book') \subseteq Crossings(book) \/ book' \in Snapshots]_vars

\* getCumulativeBidVolume and getCumulativeAskVolume, loops over sorted maps
\* that leave at the first level no better than price, are the sums of the
\* sizes of all levels strictly better than price (the tests read them so,
\* tests/unit/orderbook_test.cpp:152-158), in crossed books too.
CumulativeVolumesAreSums ==
    \A price \in Prices :
        /\ CumulativeBidVolume(book, price)
              = SumFunctionOnSet(book.bids, {p \in DOMAIN book.bids : p > price})
        /\ CumulativeAskVolume(book, price)
              = SumFunctionOnSet(book.asks, {p \in DOMAIN book.asks : p < price})

\* Where the writers only add levels, as those of ConcurrentUpdates do
\* (tests/unit/orderbook_test.cpp:89), a pair of prices read in two critical
\* sections is never crossed, though writers ran between the two.
TornQuoteUncrossed ==
    \A r \in Readers :
        Returned(r) /\ reader[r].bid # 0 /\ reader[r].ask # 0 =>
            reader[r].bid < reader[r].ask

\* There, too, a spread computed from two reads lies between the one of the
\* book when the call began and the one of the book now: racing writers can
\* make it stale, never wrong in a direction the book did not go.
TornSpreadWithinCall ==
    \A r \in Readers :
        Returned(r) /\ reader[r].opened.bid # 0 /\ reader[r].opened.ask # 0 =>
            /\ reader[r].ask - reader[r].bid
                  <= reader[r].opened.ask - reader[r].opened.bid
            /\ reader[r].ask - reader[r].bid >= BestAsk(book) - BestBid(book)

\* tests/unit/orderbook_test.cpp:182 expects of a thread that races an
\* updater, in a book that begins with a level on each side:
\* EXPECT_DOUBLE_EQ(spread, ask - bid).  The updater can come between the reads
\* of the quote and those of getSpread.
SpreadMatchesQuote ==
    \A r \in Readers :
        /\ Returned(r)
        /\ reader[r].computing = "getSpread"
        /\ reader[r].quote.bid # 0
        /\ reader[r].quote.ask # 0
        =>
            reader[r].ask - reader[r].bid
                = reader[r].quote.ask - reader[r].quote.bid
=============================================================================
