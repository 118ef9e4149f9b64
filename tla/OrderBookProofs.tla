--------------------------- MODULE OrderBookProofs ---------------------------
(***************************************************************************)
(* Theorems about OrderBook, for every number of prices and every set of   *)
(* sizes, snapshots, calls and readers.                                    *)
(***************************************************************************)
EXTENDS OrderBook, BookProofs

\* What the top of a book may be.
LEMMA TopType ==
    ASSUME NEW b, IsBook(b, Prices, Sizes)
    PROVE  /\ BestBid(b) \in Prices \cup {0}
           /\ BestAsk(b) \in Prices \cup {0}
           /\ Top(b) \in [bid : Prices \cup {0}, ask : Prices \cup {0}]
<1>1. DOMAIN b.bids \subseteq 1..MaxPrice /\ DOMAIN b.asks \subseteq 1..MaxPrice
  BY DEF IsBook, Prices
<1>2. BestBid(b) \in 0..MaxPrice /\ BestAsk(b) \in 0..MaxPrice
  BY <1>1, BestBidIsBest, BestAskIsBest, MaxPriceAssumption
<1> QED BY <1>2, MaxPriceAssumption DEF Prices, Top

LEMMA BeginningType ==
    ASSUME NEW b, IsBook(b, Prices, Sizes), NEW computation \in Computations,
           NEW quote \in [bid : Prices \cup {0}, ask : Prices \cup {0}]
    PROVE  Beginning(computation, quote, b) \in ReaderStates
BY TopType DEF Beginning, ReaderStates

\* The book stays one whose keys are prices and whose values are sizes, and
\* the readers only ever hold answers of it.
THEOREM TypeCorrect == Spec => []TypeOK
<1>1. Init => TypeOK
  <2> SUFFICES ASSUME Init PROVE TypeOK
    OBVIOUS
  <2>1. IsBook(book, Prices, Sizes)
    BY EmptyBookIsBook DEF Init
  <2>2. Beginning("quote", [bid |-> 0, ask |-> 0], EmptyBook) \in ReaderStates
    BY BeginningType, EmptyBookIsBook DEF Computations
  <2> QED BY <2>1, <2>2 DEF Init, TypeOK
<1>2. TypeOK /\ [Next]_vars => TypeOK'
  <2> SUFFICES ASSUME TypeOK, [Next]_vars PROVE TypeOK'
    OBVIOUS
  <2> USE DEF TypeOK
  <2>1. ASSUME NEW p \in Prices, NEW s \in Sizes, UpdateBid(p, s) PROVE TypeOK'
    BY <2>1, WithBidIsBook DEF UpdateBid
  <2>2. ASSUME NEW p \in Prices, NEW s \in Sizes, UpdateAsk(p, s) PROVE TypeOK'
    BY <2>2, WithAskIsBook DEF UpdateAsk
  <2>3. ASSUME NEW p \in Prices, RemoveBid(p) PROVE TypeOK'
    BY <2>3, WithoutBidIsBook DEF RemoveBid
  <2>4. ASSUME NEW p \in Prices, RemoveAsk(p) PROVE TypeOK'
    BY <2>4, WithoutAskIsBook DEF RemoveAsk
  <2>5. ASSUME NEW b \in Snapshots, SetSnapshot(b) PROVE TypeOK'
    BY <2>5, SnapshotsAssumption DEF SetSnapshot
  <2>6. CASE Clear
    BY <2>6, EmptyBookIsBook DEF Clear
  <2>7. ASSUME NEW r \in Readers, ReadBid(r) PROVE TypeOK'
    <3>1. [reader[r] EXCEPT !.bid = BestBid(book)] \in ReaderStates
      BY TopType DEF ReaderStates
    <3> QED BY <2>7, <3>1 DEF ReadBid
  <2>8. ASSUME NEW r \in Readers, ReadAsk(r) PROVE TypeOK'
    <3>1. [reader[r] EXCEPT !.ask = BestAsk(book)] \in ReaderStates
      BY TopType DEF ReaderStates
    <3> QED BY <2>8, <3>1 DEF ReadAsk
  <2>9. ASSUME NEW r \in Readers, NextComputation(r) PROVE TypeOK'
    <3>1. reader[r] \in ReaderStates
      OBVIOUS
    <3>2. Result(r) \in [bid : Prices \cup {0}, ask : Prices \cup {0}]
      BY <2>9, <3>1 DEF NextComputation, Returned, Result, ReaderStates
    <3>3. /\ Beginning("getSpread", Result(r), book) \in ReaderStates
          /\ Beginning("getMidPrice", reader[r].quote, book) \in ReaderStates
          /\ Beginning("quote", [bid |-> 0, ask |-> 0], book) \in ReaderStates
      <4>1. reader[r].quote \in [bid : Prices \cup {0}, ask : Prices \cup {0}]
        BY <3>1 DEF ReaderStates
      <4> QED BY <3>2, <4>1, BeginningType DEF Computations
    <3>4. reader[r].computing \in {"quote", "getSpread", "getMidPrice"}
      BY <3>1 DEF ReaderStates, Computations
    <3>5. reader' \in [Readers -> ReaderStates]
      <4>1. CASE reader[r].computing = "quote"
        BY <2>9, <3>3, <4>1 DEF NextComputation
      <4>2. CASE reader[r].computing = "getSpread"
        BY <2>9, <3>3, <4>2 DEF NextComputation
      <4>3. CASE reader[r].computing = "getMidPrice"
        BY <2>9, <3>3, <4>3 DEF NextComputation
      <4> QED BY <3>4, <4>1, <4>2, <4>3
    <3> QED BY <2>9, <3>5 DEF NextComputation
  <2>10. CASE UNCHANGED vars
    BY <2>10 DEF vars
  <2> QED BY <2>1, <2>2, <2>3, <2>4, <2>5, <2>6, <2>7, <2>8, <2>9, <2>10
          DEF Next, Write, Read
<1> QED BY <1>1, <1>2, PTL DEF Spec

-----------------------------------------------------------------------------
\* What each writer does to the set of crossing pairs.
LEMMA WritersAddNoCrossing ==
    ASSUME NEW b, IsBook(b, Prices, Sizes), NEW p \in Prices
    PROVE  /\ \A s \in Sizes : /\ Crossings(WithBid(b, p, s)) \subseteq Crossings(b)
                               /\ Crossings(WithAsk(b, p, s)) \subseteq Crossings(b)
           /\ Crossings(WithoutBid(b, p)) \subseteq Crossings(b)
           /\ Crossings(WithoutAsk(b, p)) \subseteq Crossings(b)
<1> DEFINE bids == DOMAIN b.bids
           asks == DOMAIN b.asks
<1>1. bids \subseteq Int /\ asks \subseteq Int /\ p \in Int
  BY MaxPriceAssumption DEF IsBook, Prices
<1>2. ASSUME NEW s \in Sizes
      PROVE  Crossings(WithBid(b, p, s)) \subseteq Crossings(b)
  <2> SUFFICES ASSUME NEW d \in DOMAIN WithBid(b, p, s).bids,
                      NEW a \in DOMAIN WithBid(b, p, s).asks, d >= a
               PROVE  d \in bids /\ a \in asks
    BY DEF Crossings
  <2>1. a \in asks /\ (d \in bids \/ (d = p /\ \A q \in asks : p < q))
    BY WithBidIsBook
  <2> QED BY <1>1, <2>1
<1>3. ASSUME NEW s \in Sizes
      PROVE  Crossings(WithAsk(b, p, s)) \subseteq Crossings(b)
  <2> SUFFICES ASSUME NEW d \in DOMAIN WithAsk(b, p, s).bids,
                      NEW a \in DOMAIN WithAsk(b, p, s).asks, d >= a
               PROVE  d \in bids /\ a \in asks
    BY DEF Crossings
  <2>1. d \in bids /\ (a \in asks \/ (a = p /\ \A q \in bids : p > q))
    BY WithAskIsBook
  <2> QED BY <1>1, <2>1
<1>4. Crossings(WithoutBid(b, p)) \subseteq Crossings(b)
  BY WithoutBidIsBook DEF Crossings
<1>5. Crossings(WithoutAsk(b, p)) \subseteq Crossings(b)
  BY WithoutAskIsBook DEF Crossings
<1> QED BY <1>2, <1>3, <1>4, <1>5

LEMMA EmptyBookHasNoCrossing == Crossings(EmptyBook) = {}
BY DEF Crossings, EmptyBook, NoLevels

\* A step of any thread brings in no crossing, or it is a setSnapshot.
LEMMA StepAddsNoCrossing ==
    ASSUME TypeOK, [Next]_vars
    PROVE  Crossings(book') \subseteq Crossings(book) \/ book' \in Snapshots
<1> USE DEF TypeOK
<1>1. ASSUME NEW p \in Prices, NEW s \in Sizes, UpdateBid(p, s) \/ UpdateAsk(p, s)
      PROVE  Crossings(book') \subseteq Crossings(book)
  BY <1>1, WritersAddNoCrossing DEF UpdateBid, UpdateAsk
<1>2. ASSUME NEW p \in Prices, RemoveBid(p) \/ RemoveAsk(p)
      PROVE  Crossings(book') \subseteq Crossings(book)
  BY <1>2, WritersAddNoCrossing DEF RemoveBid, RemoveAsk
<1>3. ASSUME NEW b \in Snapshots, SetSnapshot(b) PROVE book' \in Snapshots
  BY <1>3 DEF SetSnapshot
<1>4. CASE Clear
  BY <1>4, EmptyBookHasNoCrossing DEF Clear
<1>5. ASSUME NEW r \in Readers, Read(r) PROVE book' = book
  BY <1>5 DEF Read, ReadBid, ReadAsk, NextComputation
<1>6. CASE UNCHANGED vars
  BY <1>6 DEF vars
<1> QED BY <1>1, <1>2, <1>3, <1>4, <1>5, <1>6 DEF Next, Write

\* Only setSnapshot makes a pair of levels cross that did not.
THEOREM CrossingsComeFromSnapshots == Spec => NoNewCrossing
<1>1. TypeOK /\ [Next]_vars
        => [Crossings(book') \subseteq Crossings(book) \/ book' \in Snapshots]_vars
  BY StepAddsNoCrossing
<1> QED BY <1>1, TypeCorrect, PTL DEF Spec, NoNewCrossing

\* The levels that cross crossed in one and the same snapshot.
THEOREM CrossingsAreOfASnapshot == Spec => []CrossedAsInSnapshot
<1>1. Init => CrossedAsInSnapshot
  BY DEF Init, CrossedAsInSnapshot
<1>2. TypeOK /\ CrossedAsInSnapshot /\ [Next]_vars => CrossedAsInSnapshot'
  <2> SUFFICES ASSUME TypeOK, CrossedAsInSnapshot, [Next]_vars
               PROVE  CrossedAsInSnapshot'
    OBVIOUS
  <2>1. PICK b \in Snapshots \cup {EmptyBook} : Crossings(book) \subseteq Crossings(b)
    BY DEF CrossedAsInSnapshot
  <2>2. CASE Crossings(book') \subseteq Crossings(book)
    BY <2>1, <2>2 DEF CrossedAsInSnapshot
  <2>3. CASE book' \in Snapshots
    BY <2>3 DEF CrossedAsInSnapshot
  <2> QED BY <2>2, <2>3, StepAddsNoCrossing
<1> QED BY <1>1, <1>2, TypeCorrect, PTL DEF Spec

\* A book whose exchange sends no crossed snapshot never crosses, whatever
\* the threads that update it do.
THEOREM BookNeverCrosses == Spec => []BookUncrossed
<1>1. TypeOK /\ CrossedAsInSnapshot => BookUncrossed
  <2> SUFFICES ASSUME TypeOK, CrossedAsInSnapshot, SnapshotsUncrossed
               PROVE  Uncrossed(book)
    BY DEF BookUncrossed
  <2>1. PICK b \in Snapshots \cup {EmptyBook} : Crossings(book) \subseteq Crossings(b)
    BY DEF CrossedAsInSnapshot
  <2>2. DOMAIN book.bids \subseteq Nat /\ DOMAIN book.asks \subseteq Nat
    BY MaxPriceAssumption DEF TypeOK, IsBook, Prices
  <2>3. Crossings(b) = {}
    <3>1. CASE b \in Snapshots
      <4>1. DOMAIN b.bids \subseteq Nat /\ DOMAIN b.asks \subseteq Nat
        BY <3>1, SnapshotsAssumption, MaxPriceAssumption DEF IsBook, Prices
      <4>2. Uncrossed(b)
        BY <3>1 DEF SnapshotsUncrossed
      <4>3. \A p \in DOMAIN b.bids, q \in DOMAIN b.asks : ~(p >= q)
        BY <4>1, <4>2 DEF Uncrossed
      <4> QED BY <4>3 DEF Crossings
    <3> QED BY <2>1, <3>1, EmptyBookHasNoCrossing
  <2>4. ASSUME NEW p \in DOMAIN book.bids, NEW q \in DOMAIN book.asks
        PROVE  ~(p >= q)
    <3>1. <<p, q>> \notin Crossings(book)
      BY <2>1, <2>3
    <3> QED BY <3>1 DEF Crossings
  <2> QED BY <2>2, <2>4 DEF Uncrossed
<1> QED BY <1>1, TypeCorrect, CrossingsAreOfASnapshot, PTL

-----------------------------------------------------------------------------
\* Reads of two critical sections, where the other threads only add levels.
OnlyAdding == Calls \subseteq {"updateBid", "updateAsk"}

\* Levels stay once they are there, so what a reader has seen of a side is
\* still a level of it, and what it reads of a side after the call began is
\* no worse than the best level of that moment.
SeenStays ==
    \A r \in Readers :
        LET d == reader[r] IN
        /\ d.bid \notin {0, Unread} => d.bid \in DOMAIN book.bids
        /\ d.ask \notin {0, Unread} => d.ask \in DOMAIN book.asks
        /\ d.opened.bid # 0 => /\ d.opened.bid \in DOMAIN book.bids
                               /\ d.bid # Unread => d.bid >= d.opened.bid
        /\ d.opened.ask # 0 => /\ d.opened.ask \in DOMAIN book.asks
                               /\ d.ask # Unread => /\ d.ask # 0
                                                    /\ d.ask <= d.opened.ask

TornInv == Uncrossed(book) /\ SeenStays

\* A call of a writer removes no level and makes none cross.
LEMMA WritersOnlyAdd ==
    ASSUME OnlyAdding, TypeOK, Uncrossed(book), Write
    PROVE  /\ DOMAIN book.bids \subseteq DOMAIN book'.bids
           /\ DOMAIN book.asks \subseteq DOMAIN book'.asks
           /\ Uncrossed(book')
           /\ reader' = reader
<1> USE DEF TypeOK
<1>1. ASSUME NEW p \in Prices, NEW s \in Sizes, UpdateBid(p, s)
      PROVE  /\ DOMAIN book.bids \subseteq DOMAIN book'.bids
             /\ DOMAIN book.asks \subseteq DOMAIN book'.asks
             /\ Uncrossed(book')
  BY <1>1, WithBidIsBook DEF UpdateBid, Uncrossed
<1>2. ASSUME NEW p \in Prices, NEW s \in Sizes, UpdateAsk(p, s)
      PROVE  /\ DOMAIN book.bids \subseteq DOMAIN book'.bids
             /\ DOMAIN book.asks \subseteq DOMAIN book'.asks
             /\ Uncrossed(book')
  BY <1>2, WithAskIsBook DEF UpdateAsk, Uncrossed
<1>3. \E p \in Prices, s \in Sizes : UpdateBid(p, s) \/ UpdateAsk(p, s)
  BY DEF Write, OnlyAdding, RemoveBid, RemoveAsk, SetSnapshot, Clear
<1> QED BY <1>1, <1>2, <1>3 DEF UpdateBid, UpdateAsk

\* A reader that begins has seen nothing but the top of the book.
LEMMA BeginningSeesTheTop ==
    ASSUME NEW b, IsBook(b, Prices, Sizes), NEW c, NEW q
    PROVE  LET d == Beginning(c, q, b) IN
           /\ d.bid = Unread /\ d.ask = Unread
           /\ d.opened.bid # 0 => d.opened.bid \in DOMAIN b.bids
           /\ d.opened.ask # 0 => d.opened.ask \in DOMAIN b.asks
<1>1. DOMAIN b.bids \subseteq 1..MaxPrice /\ DOMAIN b.asks \subseteq 1..MaxPrice
  BY DEF IsBook, Prices
<1>2. /\ BestBid(b) # 0 => BestBid(b) \in DOMAIN b.bids
      /\ BestAsk(b) # 0 => BestAsk(b) \in DOMAIN b.asks
  BY <1>1, BestBidIsBest, BestAskIsBest, MaxPriceAssumption
<1> QED BY <1>2 DEF Beginning, Top

LEMMA TornInvHolds == ASSUME OnlyAdding PROVE Spec => []TornInv
<1>1. Init => TornInv
  <2> SUFFICES ASSUME Init PROVE TornInv
    OBVIOUS
  <2>1. Uncrossed(book)
    BY DEF Init, Uncrossed, EmptyBook, NoLevels
  <2>2. SeenStays
    BY EmptyBookIsBook, BeginningSeesTheTop DEF Init, SeenStays
  <2> QED BY <2>1, <2>2 DEF TornInv
<1>2. TypeOK /\ TornInv /\ [Next]_vars => TornInv'
  <2> SUFFICES ASSUME TypeOK, TornInv, [Next]_vars PROVE TornInv'
    OBVIOUS
  <2> USE DEF TypeOK, TornInv
  <2>1. CASE Write
    BY <2>1, WritersOnlyAdd DEF SeenStays
  <2>2. ASSUME NEW r \in Readers, Read(r) PROVE SeenStays' /\ book' = book
    <3> DEFINE d == reader[r]
    <3>1. book' = book
      BY <2>2 DEF Read, ReadBid, ReadAsk, NextComputation
    <3>2. DOMAIN book.bids \subseteq 1..MaxPrice /\ DOMAIN book.asks \subseteq 1..MaxPrice
      BY DEF IsBook, Prices
    <3>3. CASE ReadBid(r)
      <4>1. /\ BestBid(book) # 0 => BestBid(book) \in DOMAIN book.bids
            /\ \A p \in DOMAIN book.bids : BestBid(book) >= p
        BY <3>2, BestBidIsBest, MaxPriceAssumption
      <4> QED BY <3>1, <3>3, <4>1 DEF ReadBid, SeenStays, ReaderStates
    <3>4. CASE ReadAsk(r)
      <4>1. /\ DOMAIN book.asks # {} => BestAsk(book) \in DOMAIN book.asks
            /\ DOMAIN book.asks = {} => BestAsk(book) = 0
            /\ \A p \in DOMAIN book.asks : BestAsk(book) <= p
            /\ 0 \notin DOMAIN book.asks
        BY <3>2, BestAskIsBest, MaxPriceAssumption
      <4> QED BY <3>1, <3>4, <4>1 DEF ReadAsk, SeenStays, ReaderStates
    <3>5. CASE NextComputation(r)
      <4>1. \E c, q : reader' = [reader EXCEPT ![r] = Beginning(c, q, book)]
        <5>1. d.computing \in {"quote", "getSpread", "getMidPrice"}
          BY DEF ReaderStates, Computations
        <5> QED BY <3>5, <5>1 DEF NextComputation
      <4> QED BY <3>1, <4>1, BeginningSeesTheTop DEF SeenStays
    <3> QED BY <2>2, <3>1, <3>3, <3>4, <3>5 DEF Read
  <2>3. CASE UNCHANGED vars
    BY <2>3 DEF vars, SeenStays
  <2> QED BY <2>1, <2>2, <2>3 DEF Next
<1> QED BY <1>1, <1>2, TypeCorrect, PTL DEF Spec

\* A quote read in two critical sections is not crossed.
THEOREM TornQuotesDoNotCross ==
    ASSUME OnlyAdding
    PROVE  Spec => []TornQuoteUncrossed
<1>1. TypeOK /\ TornInv => TornQuoteUncrossed
  BY DEF TypeOK, TornInv, SeenStays, TornQuoteUncrossed, Returned, Uncrossed
<1> QED BY <1>1, TypeCorrect, TornInvHolds, PTL

\* A spread read in two critical sections is one between that of the book
\* when the call began and that of the book now.
THEOREM TornSpreadsAreWithinTheCall ==
    ASSUME OnlyAdding
    PROVE  Spec => []TornSpreadWithinCall
<1>1. TypeOK /\ TornInv => TornSpreadWithinCall
  <2> SUFFICES ASSUME TypeOK, TornInv, NEW r \in Readers, Returned(r),
                      reader[r].opened.bid # 0, reader[r].opened.ask # 0
               PROVE  /\ reader[r].ask - reader[r].bid
                            <= reader[r].opened.ask - reader[r].opened.bid
                      /\ reader[r].ask - reader[r].bid
                            >= BestAsk(book) - BestBid(book)
    BY DEF TornSpreadWithinCall
  <2>1. /\ DOMAIN book.bids \subseteq 1..MaxPrice
        /\ DOMAIN book.asks \subseteq 1..MaxPrice
    BY DEF TypeOK, IsBook, Prices
  <2>2. /\ reader[r].bid \in DOMAIN book.bids /\ reader[r].ask \in DOMAIN book.asks
        /\ reader[r].opened.bid \in DOMAIN book.bids
        /\ reader[r].opened.ask \in DOMAIN book.asks
        /\ reader[r].bid >= reader[r].opened.bid
        /\ reader[r].ask <= reader[r].opened.ask
    BY <2>1, MaxPriceAssumption DEF TornInv, SeenStays, Returned
  <2>3. /\ reader[r].bid <= BestBid(book) /\ BestAsk(book) <= reader[r].ask
        /\ BestBid(book) \in 0..MaxPrice /\ BestAsk(book) \in 0..MaxPrice
    BY <2>1, <2>2, BestBidIsBest, BestAskIsBest, MaxPriceAssumption
  <2> QED BY <2>1, <2>2, <2>3, MaxPriceAssumption
<1> QED BY <1>1, TypeCorrect, TornInvHolds, PTL

-----------------------------------------------------------------------------
\* The cumulative volumes are the sums of the sizes of the levels better than a
\* price, of any book that calls can build.
THEOREM CumulativeVolumesSum == Spec => []CumulativeVolumesAreSums
<1>1. TypeOK => CumulativeVolumesAreSums
  <2> SUFFICES ASSUME TypeOK, NEW price \in Prices
               PROVE  /\ CumulativeBidVolume(book, price)
                            = SumFunctionOnSet(book.bids,
                                  {p \in DOMAIN book.bids : p > price})
                      /\ CumulativeAskVolume(book, price)
                            = SumFunctionOnSet(book.asks,
                                  {p \in DOMAIN book.asks : p < price})
    BY DEF CumulativeVolumesAreSums
  <2>1. /\ DOMAIN book.bids \subseteq 1..MaxPrice
        /\ DOMAIN book.asks \subseteq 1..MaxPrice
    BY DEF TypeOK, IsBook, Prices
  <2>2. /\ \A p \in DOMAIN book.bids : book.bids[p] \in Int
        /\ \A p \in DOMAIN book.asks : book.asks[p] \in Int
    BY SizesAssumption DEF TypeOK, IsBook
  <2>3. MaxPrice \in Nat /\ price \in Int
    BY MaxPriceAssumption DEF Prices
  <2> QED BY <2>1, <2>2, <2>3, BidVolumesAreSums, AskVolumesAreSums
<1> QED BY <1>1, TypeCorrect, PTL
=============================================================================
