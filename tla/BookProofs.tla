----------------------------- MODULE BookProofs -----------------------------
(***************************************************************************)
(* Facts about the operators of Book, for books of any prices and sizes.   *)
(***************************************************************************)
EXTENDS Book, LoopProofs

\* What getBestBid and getBestAsk answer: 0 for an empty side, else a key of
\* the side that none is better than.
LEMMA BestBidIsBest ==
    ASSUME NEW n \in Nat, NEW b, DOMAIN b.bids \subseteq 1..n
    PROVE  /\ DOMAIN b.bids = {} => BestBid(b) = 0
           /\ DOMAIN b.bids # {} => BestBid(b) \in DOMAIN b.bids
           /\ \A p \in DOMAIN b.bids : p <= BestBid(b)
           /\ BestBid(b) \in 0..n
<1>1. CASE DOMAIN b.bids = {}
  BY <1>1 DEF BestBid
<1>2. CASE DOMAIN b.bids # {}
  <2>1. \E x \in DOMAIN b.bids : \A y \in DOMAIN b.bids : x >= y
    <3>1. DOMAIN b.bids \in SUBSET (0..n)
      OBVIOUS
    <3> QED BY <3>1, <1>2, GreatestNatural
  <2>2. /\ Max(DOMAIN b.bids) \in DOMAIN b.bids
        /\ \A y \in DOMAIN b.bids : Max(DOMAIN b.bids) >= y
    BY <2>1 DEF Max
  <2> QED BY <1>2, <2>2 DEF BestBid
<1> QED BY <1>1, <1>2

LEMMA BestAskIsBest ==
    ASSUME NEW n \in Nat, NEW b, DOMAIN b.asks \subseteq 1..n
    PROVE  /\ DOMAIN b.asks = {} => BestAsk(b) = 0
           /\ DOMAIN b.asks # {} => BestAsk(b) \in DOMAIN b.asks
           /\ \A p \in DOMAIN b.asks : BestAsk(b) <= p
           /\ BestAsk(b) \in 0..n
<1>1. CASE DOMAIN b.asks = {}
  BY <1>1 DEF BestAsk
<1>2. CASE DOMAIN b.asks # {}
  <2>1. \E x \in DOMAIN b.asks : \A y \in DOMAIN b.asks : x <= y
    BY <1>2, LeastNatural
  <2>2. /\ Min(DOMAIN b.asks) \in DOMAIN b.asks
        /\ \A y \in DOMAIN b.asks : Min(DOMAIN b.asks) <= y
    BY <2>1 DEF Min
  <2> QED BY <1>2, <2>2 DEF BestAsk
<1> QED BY <1>1, <1>2

-----------------------------------------------------------------------------
\* The writers keep a book a book, and say what its keys become.
LEMMA EmptyBookIsBook ==
    ASSUME NEW prices, NEW sizes
    PROVE  IsBook(EmptyBook, prices, sizes)
BY DEF IsBook, EmptyBook, NoLevels

LEMMA PutLevels ==
    ASSUME NEW prices, NEW sizes, NEW p \in prices, NEW s \in sizes,
           NEW levels, DOMAIN levels \subseteq prices,
           levels \in [DOMAIN levels -> sizes]
    PROVE  /\ DOMAIN Put(levels, p, s) = DOMAIN levels \cup {p}
           /\ Put(levels, p, s) \in [DOMAIN Put(levels, p, s) -> sizes]
BY DEF Put

LEMMA EraseLevels ==
    ASSUME NEW sizes, NEW p, NEW levels, levels \in [DOMAIN levels -> sizes]
    PROVE  /\ DOMAIN Erase(levels, p) = DOMAIN levels \ {p}
           /\ Erase(levels, p) \in [DOMAIN Erase(levels, p) -> sizes]
BY DEF Erase, Restrict

\* A bid that is entered is below every ask.
LEMMA WithBidIsBook ==
    ASSUME NEW prices, NEW sizes, NEW b, IsBook(b, prices, sizes),
           NEW p \in prices, NEW s \in sizes
    PROVE  /\ IsBook(WithBid(b, p, s), prices, sizes)
           /\ DOMAIN WithBid(b, p, s).asks = DOMAIN b.asks
           /\ DOMAIN b.bids \subseteq DOMAIN WithBid(b, p, s).bids
           /\ \A d \in DOMAIN WithBid(b, p, s).bids :
                 d \in DOMAIN b.bids \/ (d = p /\ \A a \in DOMAIN b.asks : p < a)
<1> DEFINE w == [b EXCEPT !.bids = Put(@, p, s)]
<1>1. b = [bids |-> b.bids, asks |-> b.asks]
  BY DEF IsBook
<1>2. w = [bids |-> Put(b.bids, p, s), asks |-> b.asks]
  BY <1>1
<1>3. /\ DOMAIN Put(b.bids, p, s) = DOMAIN b.bids \cup {p}
      /\ Put(b.bids, p, s) \in [DOMAIN Put(b.bids, p, s) -> sizes]
  BY PutLevels DEF IsBook
<1>4. IsBook(w, prices, sizes)
  BY <1>2, <1>3 DEF IsBook
<1> QED BY <1>1, <1>2, <1>3, <1>4 DEF WithBid

\* An ask that is entered is above every bid.
LEMMA WithAskIsBook ==
    ASSUME NEW prices, NEW sizes, NEW b, IsBook(b, prices, sizes),
           NEW p \in prices, NEW s \in sizes
    PROVE  /\ IsBook(WithAsk(b, p, s), prices, sizes)
           /\ DOMAIN WithAsk(b, p, s).bids = DOMAIN b.bids
           /\ DOMAIN b.asks \subseteq DOMAIN WithAsk(b, p, s).asks
           /\ \A a \in DOMAIN WithAsk(b, p, s).asks :
                 a \in DOMAIN b.asks \/ (a = p /\ \A d \in DOMAIN b.bids : p > d)
<1> DEFINE w == [b EXCEPT !.asks = Put(@, p, s)]
<1>1. b = [bids |-> b.bids, asks |-> b.asks]
  BY DEF IsBook
<1>2. w = [bids |-> b.bids, asks |-> Put(b.asks, p, s)]
  BY <1>1
<1>3. /\ DOMAIN Put(b.asks, p, s) = DOMAIN b.asks \cup {p}
      /\ Put(b.asks, p, s) \in [DOMAIN Put(b.asks, p, s) -> sizes]
  BY PutLevels DEF IsBook
<1>4. IsBook(w, prices, sizes)
  BY <1>2, <1>3 DEF IsBook
<1> QED BY <1>1, <1>2, <1>3, <1>4 DEF WithAsk

LEMMA WithoutBidIsBook ==
    ASSUME NEW prices, NEW sizes, NEW b, IsBook(b, prices, sizes), NEW p
    PROVE  /\ IsBook(WithoutBid(b, p), prices, sizes)
           /\ DOMAIN WithoutBid(b, p).bids = DOMAIN b.bids \ {p}
           /\ DOMAIN WithoutBid(b, p).asks = DOMAIN b.asks
<1>1. b = [bids |-> b.bids, asks |-> b.asks]
  BY DEF IsBook
<1>2. WithoutBid(b, p) = [bids |-> Erase(b.bids, p), asks |-> b.asks]
  BY <1>1 DEF WithoutBid
<1>3. /\ DOMAIN Erase(b.bids, p) = DOMAIN b.bids \ {p}
      /\ Erase(b.bids, p) \in [DOMAIN Erase(b.bids, p) -> sizes]
  BY EraseLevels DEF IsBook
<1> QED BY <1>1, <1>2, <1>3 DEF IsBook

LEMMA WithoutAskIsBook ==
    ASSUME NEW prices, NEW sizes, NEW b, IsBook(b, prices, sizes), NEW p
    PROVE  /\ IsBook(WithoutAsk(b, p), prices, sizes)
           /\ DOMAIN WithoutAsk(b, p).bids = DOMAIN b.bids
           /\ DOMAIN WithoutAsk(b, p).asks = DOMAIN b.asks \ {p}
<1>1. b = [bids |-> b.bids, asks |-> b.asks]
  BY DEF IsBook
<1>2. WithoutAsk(b, p) = [bids |-> b.bids, asks |-> Erase(b.asks, p)]
  BY <1>1 DEF WithoutAsk
<1>3. /\ DOMAIN Erase(b.asks, p) = DOMAIN b.asks \ {p}
      /\ Erase(b.asks, p) \in [DOMAIN Erase(b.asks, p) -> sizes]
  BY EraseLevels DEF IsBook
<1> QED BY <1>1, <1>2, <1>3 DEF IsBook

-----------------------------------------------------------------------------
\* The library's sum over a set is such a sum.
LEMMA SumIs ==
    ASSUME NEW S, IsFiniteSet(S), NEW f, NEW sum, Sums(sum, f, S),
           NEW T \in SUBSET S
    PROVE  SumFunctionOnSet(f, T) = sum[T]
<1> DEFINE x(s) == CHOOSE y \in s : TRUE
           Turn(g, s) == IF s = {} THEN 0 ELSE f[x(s)] + g[s \ {x(s)}]
           of == CHOOSE g : g = [s \in SUBSET T |-> Turn(g, s)]
           known == [s \in SUBSET T |-> sum[s]]
<1>1. SumFunctionOnSet(f, T) = of[T]
  BY DEF SumFunctionOnSet, FoldFunctionOnSet, MapThenFoldSet
<1>2. \A s \in SUBSET T : s # {} => x(s) \in s
  OBVIOUS
<1> HIDE DEF x
<1>3. \A s \in SUBSET T : known[s] = Turn(known, s)
  BY <1>2 DEF Sums
<1>4. known = [s \in SUBSET T |-> Turn(known, s)]
  <2> HIDE DEF Turn
  <2> QED BY <1>3
<1>5. of = [s \in SUBSET T |-> Turn(of, s)]
  <2> HIDE DEF Turn, known
  <2> QED BY <1>4
<1> HIDE DEF of
<1>6. \A s \in SUBSET T : of[s] = Turn(of, s)
  <2> HIDE DEF Turn
  <2> QED BY <1>5
<1> HIDE DEF known
<1> DEFINE Good == {s \in SUBSET T : of[s] = known[s]}
<1>7. Good \in SUBSET (SUBSET T) /\ {} \in Good
  BY <1>3, <1>6
<1>8. ASSUME NEW s \in SUBSET T, s # {}
      PROVE  \E y \in s : s \ {y} \in Good => s \in Good
  <2>1. s \ {x(s)} \in Good => s \in Good
    BY <1>3, <1>6, <1>8
  <2> HIDE DEF Good
  <2> QED BY <1>2, <1>8, <2>1
<1>9. IsFiniteSet(T)
  BY FS_Subset
<1>10. Good = SUBSET T
  <2> HIDE DEF Good
  <2> QED BY <1>7, <1>8, <1>9, EverySubset
<1>11. T \in Good
  BY <1>10
<1> QED BY <1>1, <1>11 DEF known

\* One turn of a walk with s left to come: it ends when nothing is left, or at
\* the first element that is not among the better ones.
Turn(from, s, levels, better, first) ==
    IF s = {} \/ first[s] \notin better
    THEN 0 ELSE levels[first[s]] + from[s \ {first[s]}]

Walks(from, D, levels, better, first) ==
    \A s \in SUBSET D : from[s] = Turn(from, s, levels, better, first)

\* The walk comes to the better ones first.
BetterFirst(D, better, first) ==
    /\ better \in SUBSET D
    /\ \A s \in SUBSET D : s # {} =>
          first[s] \in s /\ (first[s] \notin better => s \cap better = {})

\* Then what it makes of a set is determined, and of the whole it makes the sum
\* of the better ones.
LEMMA WalkSums ==
    ASSUME NEW D, IsFiniteSet(D), NEW levels, \A p \in D : levels[p] \in Int,
           NEW better, NEW first, BetterFirst(D, better, first)
    PROVE  /\ \E known \in [SUBSET D -> Int] : Walks(known, D, levels, better, first)
           /\ \A from : Walks(from, D, levels, better, first)
                          => from[D] = SumFunctionOnSet(levels, better)
<1> USE DEF Walks, BetterFirst
<1>1. PICK sum : Sums(sum, levels, D)
  BY SumsExist
<1> DEFINE known == [s \in SUBSET D |-> sum[s \cap better]]
<1>2. known \in [SUBSET D -> Int]
  BY <1>1 DEF Sums
<1>3. ASSUME NEW s \in SUBSET D
      PROVE  known[s] = Turn(known, s, levels, better, first)
  <2>1. CASE s = {} \/ first[s] \notin better
    <3>1. s \cap better = {}
      BY <2>1
    <3> QED BY <1>1, <2>1, <3>1 DEF Sums, Turn
  <2>2. CASE s # {} /\ first[s] \in better
    <3>1. /\ first[s] \in s \cap better
          /\ (s \cap better) \ {first[s]} = (s \ {first[s]}) \cap better
      BY <2>2
    <3>2. sum[s \cap better]
            = levels[first[s]] + sum[(s \cap better) \ {first[s]}]
      BY <1>1, <3>1 DEF Sums
    <3> QED BY <2>2, <3>1, <3>2 DEF Turn
  <2> QED BY <2>1, <2>2
<1>4. ASSUME NEW from, Walks(from, D, levels, better, first)
      PROVE  from[D] = SumFunctionOnSet(levels, better)
  <2> DEFINE Good == {s \in SUBSET D : from[s] = known[s]}
  <2> HIDE DEF known
  <2>1. Good \in SUBSET (SUBSET D) /\ {} \in Good
    BY <1>3, <1>4 DEF Turn
  <2>2. ASSUME NEW s \in SUBSET D, s # {}
        PROVE  \E y \in s : s \ {y} \in Good => s \in Good
    <3>1. s \ {first[s]} \in Good => s \in Good
      BY <1>3, <1>4, <2>2 DEF Turn
    <3> HIDE DEF Good
    <3> QED BY <2>2, <3>1
  <2>3. Good = SUBSET D
    <3> HIDE DEF Good
    <3> QED BY <2>1, <2>2, EverySubset
  <2>4. from[D] = sum[better]
    <3>1. D \cap better = better
      OBVIOUS
    <3> QED BY <2>3, <3>1 DEF known
  <2> QED BY <1>1, <2>4, SumIs
<1> HIDE DEF known
<1> QED BY <1>2, <1>3, <1>4

\* getCumulativeBidVolume adds up the levels above the price, and
\* getCumulativeAskVolume those below it, however many there are.
LEMMA BidVolumesAreSums ==
    ASSUME NEW n \in Nat, NEW b, DOMAIN b.bids \subseteq 1..n,
           \A p \in DOMAIN b.bids : b.bids[p] \in Int, NEW price \in Int
    PROVE  CumulativeBidVolume(b, price)
              = SumFunctionOnSet(b.bids, {p \in DOMAIN b.bids : p > price})
<1> DEFINE D == DOMAIN b.bids
           better == {p \in D : p > price}
           first == [s \in SUBSET D |-> Max(s)]
           Here(g, s) == IF s = {} \/ Max(s) <= price
                         THEN 0 ELSE b.bids[Max(s)] + g[s \ {Max(s)}]
           from == CHOOSE g : g = [s \in SUBSET D |-> Here(g, s)]
<1>1. CumulativeBidVolume(b, price) = from[D]
  BY DEF CumulativeBidVolume
<1>2. IsFiniteSet(D)
  <2>1. IsFiniteSet(1..n)
    BY FS_Interval
  <2> QED BY <2>1, FS_Subset
<1>3. ASSUME NEW s \in SUBSET D, s # {}
      PROVE  Max(s) \in s /\ \A p \in s : p <= Max(s)
  <2>1. s \in SUBSET (0..n)
    OBVIOUS
  <2>2. \E x \in s : \A y \in s : x >= y
    BY <1>3, <2>1, GreatestNatural
  <2> QED BY <2>1, <2>2 DEF Max
<1>4. \A s \in SUBSET D : s # {} =>
          /\ first[s] \in s
          /\ first[s] \notin better => s \cap better = {}
          /\ first[s] \notin better <=> Max(s) <= price
  BY <1>3
<1>5. ASSUME NEW g, NEW s \in SUBSET D
      PROVE  Here(g, s) = Turn(g, s, b.bids, better, first)
  BY <1>4, <1>5 DEF Turn
<1> HIDE DEF better, first
<1>6. BetterFirst(D, better, first)
  <2>1. better \in SUBSET D
    BY DEF better
  <2> QED BY <1>4, <2>1 DEF BetterFirst
<1>7. /\ \E known \in [SUBSET D -> Int] : Walks(known, D, b.bids, better, first)
      /\ \A g : Walks(g, D, b.bids, better, first)
                 => g[D] = SumFunctionOnSet(b.bids, better)
  <2> DEFINE levels == b.bids
  <2>1. \A p \in D : levels[p] \in Int
    OBVIOUS
  <2> HIDE DEF D, levels
  <2>2. /\ \E known \in [SUBSET D -> Int] : Walks(known, D, levels, better, first)
        /\ \A g : Walks(g, D, levels, better, first)
                   => g[D] = SumFunctionOnSet(levels, better)
    BY ONLY <1>2, <1>6, <2>1, WalkSums
  <2> QED BY <2>2 DEF levels
<1>8. PICK known \in [SUBSET D -> Int] : Walks(known, D, b.bids, better, first)
  BY <1>7
<1>9. known = [s \in SUBSET D |-> Here(known, s)]
  <2>1. \A s \in SUBSET D : known[s] = Here(known, s)
    BY <1>5, <1>8 DEF Walks
  <2> HIDE DEF Here
  <2> QED BY <2>1
<1>10. from = [s \in SUBSET D |-> Here(from, s)]
  <2> HIDE DEF Here
  <2> QED BY <1>9
<1> HIDE DEF from
<1>11. Walks(from, D, b.bids, better, first)
  <2>1. \A s \in SUBSET D : from[s] = Here(from, s)
    <3> HIDE DEF Here
    <3> QED BY <1>10
  <2> QED BY <1>5, <2>1 DEF Walks
<1> QED BY <1>1, <1>7, <1>11 DEF better

LEMMA AskVolumesAreSums ==
    ASSUME NEW n \in Nat, NEW b, DOMAIN b.asks \subseteq 1..n,
           \A p \in DOMAIN b.asks : b.asks[p] \in Int, NEW price \in Int
    PROVE  CumulativeAskVolume(b, price)
              = SumFunctionOnSet(b.asks, {p \in DOMAIN b.asks : p < price})
<1> DEFINE D == DOMAIN b.asks
           better == {p \in D : p < price}
           first == [s \in SUBSET D |-> Min(s)]
           Here(g, s) == IF s = {} \/ Min(s) >= price
                         THEN 0 ELSE b.asks[Min(s)] + g[s \ {Min(s)}]
           from == CHOOSE g : g = [s \in SUBSET D |-> Here(g, s)]
<1>1. CumulativeAskVolume(b, price) = from[D]
  BY DEF CumulativeAskVolume
<1>2. IsFiniteSet(D)
  <2>1. IsFiniteSet(1..n)
    BY FS_Interval
  <2> QED BY <2>1, FS_Subset
<1>3. ASSUME NEW s \in SUBSET D, s # {}
      PROVE  Min(s) \in s /\ \A p \in s : p >= Min(s)
  <2>1. s \in SUBSET Nat
    OBVIOUS
  <2>2. \E x \in s : \A y \in s : x <= y
    BY <1>3, <2>1, LeastNatural
  <2> QED BY <2>1, <2>2 DEF Min
<1>4. \A s \in SUBSET D : s # {} =>
          /\ first[s] \in s
          /\ first[s] \notin better => s \cap better = {}
          /\ first[s] \notin better <=> Min(s) >= price
  BY <1>3
<1>5. ASSUME NEW g, NEW s \in SUBSET D
      PROVE  Here(g, s) = Turn(g, s, b.asks, better, first)
  BY <1>4, <1>5 DEF Turn
<1> HIDE DEF better, first
<1>6. BetterFirst(D, better, first)
  <2>1. better \in SUBSET D
    BY DEF better
  <2> QED BY <1>4, <2>1 DEF BetterFirst
<1>7. /\ \E known \in [SUBSET D -> Int] : Walks(known, D, b.asks, better, first)
      /\ \A g : Walks(g, D, b.asks, better, first)
                 => g[D] = SumFunctionOnSet(b.asks, better)
  <2> DEFINE levels == b.asks
  <2>1. \A p \in D : levels[p] \in Int
    OBVIOUS
  <2> HIDE DEF D, levels
  <2>2. /\ \E known \in [SUBSET D -> Int] : Walks(known, D, levels, better, first)
        /\ \A g : Walks(g, D, levels, better, first)
                   => g[D] = SumFunctionOnSet(levels, better)
    BY ONLY <1>2, <1>6, <2>1, WalkSums
  <2> QED BY <2>2 DEF levels
<1>8. PICK known \in [SUBSET D -> Int] : Walks(known, D, b.asks, better, first)
  BY <1>7
<1>9. known = [s \in SUBSET D |-> Here(known, s)]
  <2>1. \A s \in SUBSET D : known[s] = Here(known, s)
    BY <1>5, <1>8 DEF Walks
  <2> HIDE DEF Here
  <2> QED BY <2>1
<1>10. from = [s \in SUBSET D |-> Here(from, s)]
  <2> HIDE DEF Here
  <2> QED BY <1>9
<1> HIDE DEF from
<1>11. Walks(from, D, b.asks, better, first)
  <2>1. \A s \in SUBSET D : from[s] = Here(from, s)
    <3> HIDE DEF Here
    <3> QED BY <1>10
  <2> QED BY <1>5, <2>1 DEF Walks
<1> QED BY <1>1, <1>7, <1>11 DEF better
=============================================================================
