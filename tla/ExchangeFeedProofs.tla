--------------------------- MODULE ExchangeFeedProofs ---------------------------
(***************************************************************************)
(* Theorems about ExchangeFeed: with its messages an adapter is still one  *)
(* of ExchangeAdapter's, and gives its callbacks what the exchange said,   *)
(* for any events and any number of messages.                              *)
(***************************************************************************)
EXTENDS ExchangeFeed, ExchangeAdapterProofs, LoopProofs

\* Every step of an adapter with a feed is one of an adapter, or none.
LEMMA FeedStep == [FeedNext]_feedVars => [Next]_vars
BY DEF FeedNext, feedVars, Register, FeedConnect, Subscribe, FeedDisconnect,
       WriteCompletes, SendNotice, SendEvent, Send, Receives, ReceiveEvent,
       ReceiveQuietly, FeedOwnerGoesOn, FeedIoGoesOn, Next, Reads

\* What holds of every adapter holds of one that has messages to handle: the
\* handlers' outcomes only choose among the steps that ExchangeAdapter has.
THEOREM FeedImplementsAdapter == FeedSpec => Spec
<1>1. FeedInit => Init
  BY DEF FeedInit
<1> QED BY <1>1, FeedStep, PTL DEF FeedSpec, Spec

\* Each thread is where its own code can be.
THEOREM FeedTypeCorrect == FeedSpec => []TypeOK
BY FeedImplementsAdapter, TypeCorrect, PTL

\* No callback into the engine runs once disconnect has returned.
THEOREM FeedIsQuiet == FeedSpec => []NoCallbackAfterDisconnect
BY FeedImplementsAdapter, DisconnectedIsQuiet, PTL

\* No thread is left after the destructor.
THEOREM FeedIsAlone == FeedSpec => []NoThreadAfterDestroy
BY FeedImplementsAdapter, DestroyedIsAlone, PTL

\* No read begins where one is outstanding.
THEOREM FeedReadsAreSingle == FeedSpec => []OneReadAtATime
BY FeedImplementsAdapter, ReadsAreSingle, PTL

-----------------------------------------------------------------------------
\* What a callback may be given, and what is said of an event.
Given == [kind : Kinds, symbol : Symbols \cup {KrakenSymbol},
          bids : Seq(Int \X Int), asks : Seq(Int \X Int)]

Says(e) ==
    IF ~Readable(e) THEN Nothing
    ELSE IF venue = "kraken" THEN [e EXCEPT !.symbol = KrakenSymbol]
    ELSE e

LEMMA SaysGiven ==
    ASSUME NEW e \in Events, Readable(e)
    PROVE  Says(e) \in Given /\ Says(e) # Nothing /\ Says(e).kind = e.kind
<1>1. /\ e \in [kind : Kinds, symbol : Symbols \ {NotText},
                bids : Seq(Int \X Int), asks : Seq(Int \X Int)]
      /\ e.kind # "nothing"
  BY EventsAssumption DEF Kinds
<1>2. Says(e) \in Given /\ Says(e).kind = e.kind
  BY <1>1 DEF Says, Given
<1> QED BY <1>1, <1>2 DEF Nothing

-----------------------------------------------------------------------------
\* The levels that the loop of Side holds after each of its turns.
Holds(held, changes, side) ==
    /\ held \in [0..Len(changes) -> Seq(Int \X Int)]
    /\ held[0] = <<>>
    /\ \A n \in 1..Len(changes) : held[n] = Taking(held[n - 1], changes[n], side)

LEMMA SideHolds ==
    ASSUME NEW changes, Len(changes) \in Nat, NEW side, NEW held,
           Holds(held, changes, side)
    PROVE  Side(changes, side) = held[Len(changes)]
<1> USE DEF Holds
<1> DEFINE Turn(f, n) == IF n = 0 THEN <<>> ELSE Taking(f[n - 1], changes[n], side)
           of == CHOOSE f : f = [n \in 0..Len(changes) |-> Turn(f, n)]
<1>1. Side(changes, side) = of[Len(changes)]
  BY DEF Side
<1>3. \A n \in 0..Len(changes) : held[n] = Turn(held, n)
  OBVIOUS
<1>4. held = [n \in 0..Len(changes) |-> Turn(held, n)]
  <2> HIDE DEF Turn
  <2> QED BY <1>3
<1>5. of = [n \in 0..Len(changes) |-> Turn(of, n)]
  <2> HIDE DEF Turn
  <2> QED BY <1>4
<1> HIDE DEF of
<1>6. \A n \in 0..Len(changes) : of[n] = Turn(of, n)
  <2> HIDE DEF Turn
  <2> QED BY <1>5
<1>7. of[0] = held[0]
  BY <1>6
<1>8. \A n \in 1..Len(changes) : of[n - 1] = held[n - 1] => of[n] = held[n]
  BY <1>3, <1>6
<1> HIDE DEF Turn
<1>9. \A n \in 0..Len(changes) : of[n] = held[n]
  <2> DEFINE Good == {n \in 0..Len(changes) : of[n] = held[n]}
  <2>1. /\ Good \in SUBSET (0..Len(changes)) /\ 0 \in Good
        /\ \A n \in 1..Len(changes) : n - 1 \in Good => n \in Good
    BY <1>7, <1>8
  <2>2. Good = 0..Len(changes)
    <3> HIDE DEF Good
    <3> QED BY <2>1, EveryTurn
  <2> QED BY <2>2
<1> QED BY <1>1, <1>9

LEMMA LevelByLevel ==
    ASSUME NEW s \in Seq(Int \X Int)
    PROVE  /\ SubSeq(s, 1, 0) = <<>>
           /\ SubSeq(s, 1, Len(s)) = s
           /\ \A n \in 1..Len(s) : SubSeq(s, 1, n)
                 = Append(SubSeq(s, 1, n - 1), <<s[n][1], s[n][2]>>)
<1>1. SubSeq(s, 1, 0) = <<>> /\ SubSeq(s, 1, Len(s)) = s
  OBVIOUS
<1>2. ASSUME NEW n \in 1..Len(s)
      PROVE  SubSeq(s, 1, n) = Append(SubSeq(s, 1, n - 1), <<s[n][1], s[n][2]>>)
  <2>1. s[n] = <<s[n][1], s[n][2]>>
    OBVIOUS
  <2>2. SubSeq(s, 1, n) = Append(SubSeq(s, 1, n - 1), s[n])
    OBVIOUS
  <2> QED BY <2>1, <2>2
<1> QED BY <1>1, <1>2

Sides == {"sell", "buy"}

LEMMA TaggedLevels ==
    ASSUME NEW s \in Seq(Int \X Int), NEW side \in Sides
    PROVE  /\ Tagged(s, side) \in Seq(Sides \X Int \X Int)
           /\ Len(Tagged(s, side)) = Len(s)
           /\ \A n \in 1..Len(s) : /\ Tagged(s, side)[n][1] = side
                                   /\ Tagged(s, side)[n][2] = s[n][1]
                                   /\ Tagged(s, side)[n][3] = s[n][2]
<1>1. DOMAIN s = 1..Len(s) /\ Len(s) \in Nat
  OBVIOUS
<1>2. ASSUME NEW n \in 1..Len(s)
      PROVE  <<side, s[n][1], s[n][2]>> \in Sides \X Int \X Int
  <2>1. s[n] \in Int \X Int
    OBVIOUS
  <2> QED BY <2>1
<1>3. Tagged(s, side) = [n \in 1..Len(s) |-> <<side, s[n][1], s[n][2]>>]
  BY <1>1 DEF Tagged
<1>4. Tagged(s, side) \in [1..Len(s) -> Sides \X Int \X Int]
  BY <1>2, <1>3
<1>5. ASSUME NEW n \in 1..Len(s)
      PROVE  /\ Tagged(s, side)[n][1] = side /\ Tagged(s, side)[n][2] = s[n][1]
             /\ Tagged(s, side)[n][3] = s[n][2]
  <2>1. Tagged(s, side)[n] = <<side, s[n][1], s[n][2]>>
    BY <1>3
  <2> QED BY <2>1
<1>6. ASSUME NEW T, NEW n \in Nat, NEW f \in [1..n -> T]
      PROVE  f \in Seq(T) /\ Len(f) = n
  OBVIOUS
<1>7. Tagged(s, side) \in Seq(Sides \X Int \X Int) /\ Len(Tagged(s, side)) = Len(s)
  BY <1>1, <1>4, <1>6
<1> QED BY <1>5, <1>7

\* Changes that say the levels of a side of asks, then those of one of bids.
Lists(changes, asks, bids) ==
    /\ Len(changes) = Len(asks) + Len(bids)
    /\ DOMAIN changes = 1..(Len(asks) + Len(bids))
    /\ \A n \in 1..Len(asks) : /\ changes[n][1] = "sell"
                               /\ changes[n][2] = asks[n][1]
                               /\ changes[n][3] = asks[n][2]
    /\ \A n \in 1..Len(bids) : /\ changes[Len(asks) + n][1] = "buy"
                               /\ changes[Len(asks) + n][2] = bids[n][1]
                               /\ changes[Len(asks) + n][3] = bids[n][2]

LEMMA CoinbaseLists ==
    ASSUME NEW asks \in Seq(Int \X Int), NEW bids \in Seq(Int \X Int)
    PROVE  Lists(Tagged(asks, "sell") \o Tagged(bids, "buy"), asks, bids)
<1>0. "sell" \in Sides /\ "buy" \in Sides
  BY DEF Sides
<1> DEFINE S == Sides \X Int \X Int
           T == Tagged(asks, "sell")
           U == Tagged(bids, "buy")
<1>2. /\ T \in Seq(S) /\ Len(T) = Len(asks)
      /\ \A n \in 1..Len(asks) : T[n][1] = "sell" /\ T[n][2] = asks[n][1]
                                                  /\ T[n][3] = asks[n][2]
  BY ONLY asks \in Seq(Int \X Int), <1>0, TaggedLevels
<1>3. /\ U \in Seq(S) /\ Len(U) = Len(bids)
      /\ \A n \in 1..Len(bids) : U[n][1] = "buy" /\ U[n][2] = bids[n][1]
                                                 /\ U[n][3] = bids[n][2]
  BY ONLY bids \in Seq(Int \X Int), <1>0, TaggedLevels
<1> HIDE DEF S, T, U
<1>4. /\ Len(T \o U) = Len(T) + Len(U)
      /\ DOMAIN (T \o U) = 1..(Len(T) + Len(U))
      /\ \A n \in 1..Len(T) : (T \o U)[n] = T[n]
      /\ \A n \in 1..Len(U) : (T \o U)[Len(T) + n] = U[n]
  <2>1. T \in Seq(S) /\ U \in Seq(S)
    BY <1>2, <1>3
  <2>2. Len(T \o U) = Len(T) + Len(U)
    BY <2>1
  <2>3. DOMAIN (T \o U) = 1..(Len(T) + Len(U))
    BY <2>1
  <2>4. \A n \in 1..Len(T) : (T \o U)[n] = T[n]
    BY <2>1
  <2>5. \A n \in 1..Len(U) : (T \o U)[Len(T) + n] = U[n]
    <3> SUFFICES ASSUME NEW n \in 1..Len(U)
                 PROVE  (T \o U)[Len(T) + n] = U[n]
      OBVIOUS
    <3>1. /\ Len(T) + n \in 1..(Len(T) + Len(U)) /\ ~(Len(T) + n <= Len(T))
          /\ (Len(T) + n) - Len(T) = n
      BY <2>1
    <3> QED BY <2>1, <3>1
  <2> QED BY <2>2, <2>3, <2>4, <2>5
<1> DEFINE c == T \o U
<1> HIDE DEF c
<1>5. /\ Len(c) = Len(asks) + Len(bids)
      /\ DOMAIN c = 1..(Len(asks) + Len(bids))
      /\ \A n \in 1..Len(asks) : c[n] = T[n]
      /\ \A n \in 1..Len(bids) : c[Len(asks) + n] = U[n]
  BY <1>2, <1>3, <1>4 DEF c
<1>6. Lists(c, asks, bids)
  <2>1. ASSUME NEW n \in 1..Len(asks)
        PROVE  c[n][1] = "sell" /\ c[n][2] = asks[n][1] /\ c[n][3] = asks[n][2]
    BY <1>2, <1>5
  <2>2. ASSUME NEW n \in 1..Len(bids)
        PROVE  /\ c[Len(asks) + n][1] = "buy"
               /\ c[Len(asks) + n][2] = bids[n][1]
               /\ c[Len(asks) + n][3] = bids[n][2]
    BY <1>3, <1>5
  <2> QED BY <1>5, <2>1, <2>2 DEF Lists
<1> QED BY <1>6 DEF c, T, U

\* The loop for either side makes its levels again.
LEMMA SidesOfChanges ==
    ASSUME NEW asks \in Seq(Int \X Int), NEW bids \in Seq(Int \X Int),
           NEW changes, Lists(changes, asks, bids)
    PROVE  Side(changes, "sell") = asks /\ Side(changes, "buy") = bids
<1> DEFINE a == Len(asks)
           b == Len(bids)
           sold == [n \in 0..(a + b) |-> IF n <= a THEN SubSeq(asks, 1, n) ELSE asks]
           bought == [n \in 0..(a + b) |-> IF n <= a THEN <<>>
                                           ELSE SubSeq(bids, 1, n - a)]
<1>1. a \in Nat /\ b \in Nat
  OBVIOUS
<1>2. /\ Len(changes) = a + b
      /\ \A n \in 1..a : /\ changes[n][1] = "sell"
                          /\ changes[n][2] = asks[n][1]
                          /\ changes[n][3] = asks[n][2]
      /\ \A n \in 1..b : /\ changes[a + n][1] = "buy"
                          /\ changes[a + n][2] = bids[n][1]
                          /\ changes[a + n][3] = bids[n][2]
  BY DEF Lists
<1>3. /\ SubSeq(asks, 1, 0) = <<>> /\ SubSeq(asks, 1, a) = asks
      /\ SubSeq(bids, 1, 0) = <<>> /\ SubSeq(bids, 1, b) = bids
      /\ \A n \in 1..a : SubSeq(asks, 1, n)
            = Append(SubSeq(asks, 1, n - 1), <<asks[n][1], asks[n][2]>>)
      /\ \A n \in 1..b : SubSeq(bids, 1, n)
            = Append(SubSeq(bids, 1, n - 1), <<bids[n][1], bids[n][2]>>)
  BY LevelByLevel
<1> HIDE DEF a, b
<1>4. /\ \A n \in 0..a : sold[n] = SubSeq(asks, 1, n) /\ bought[n] = <<>>
      /\ \A n \in 0..b : sold[a + n] = asks /\ bought[a + n] = SubSeq(bids, 1, n)
  <2>1. ASSUME NEW n \in 0..a
        PROVE  sold[n] = SubSeq(asks, 1, n) /\ bought[n] = <<>>
    BY <1>1
  <2>2. ASSUME NEW n \in 0..b
        PROVE  sold[a + n] = asks /\ bought[a + n] = SubSeq(bids, 1, n)
    <3>1. CASE n = 0
      BY <1>1, <1>3, <3>1
    <3>2. CASE n > 0
      <4>1. a + n \in 0..(a + b) /\ ~(a + n <= a) /\ (a + n) - a = n
        BY <1>1, <3>2
      <4> QED BY <4>1
    <3> QED BY <1>1, <3>1, <3>2
  <2> QED BY <2>1, <2>2
<1>5. /\ sold \in [0..Len(changes) -> Seq(Int \X Int)]
      /\ bought \in [0..Len(changes) -> Seq(Int \X Int)]
  <2>1. \A n \in 0..a : SubSeq(asks, 1, n) \in Seq(Int \X Int)
    BY <1>1 DEF a
  <2>2. \A n \in 0..b : SubSeq(bids, 1, n) \in Seq(Int \X Int)
    BY <1>1 DEF b
  <2>3. ASSUME NEW n \in 0..(a + b)
        PROVE  sold[n] \in Seq(Int \X Int) /\ bought[n] \in Seq(Int \X Int)
    <3> HIDE DEF sold, bought
    <3>0. <<>> \in Seq(Int \X Int)
      OBVIOUS
    <3>1. CASE n \in 0..a
      <4>1. sold[n] = SubSeq(asks, 1, n) /\ bought[n] = <<>>
        BY <1>4, <3>1
      <4> QED BY <2>1, <3>0, <3>1, <4>1
    <3>2. ASSUME NEW m \in 0..b, n = a + m
          PROVE  sold[n] \in Seq(Int \X Int) /\ bought[n] \in Seq(Int \X Int)
      <4>1. sold[n] = asks /\ bought[n] = SubSeq(bids, 1, m)
        BY <1>4, <3>2
      <4> QED BY <2>2, <4>1
    <3>3. n \in 0..a \/ (n - a \in 0..b /\ n = a + (n - a))
      BY <1>1
    <3> QED BY <3>1, <3>2, <3>3
  <2>4. DOMAIN sold = 0..(a + b) /\ DOMAIN bought = 0..(a + b)
    OBVIOUS
  <2> QED BY <1>2, <2>3
<1> HIDE DEF sold, bought
<1>6. ASSUME NEW n \in 1..Len(changes)
      PROVE  /\ sold[n] = Taking(sold[n - 1], changes[n], "sell")
             /\ bought[n] = Taking(bought[n - 1], changes[n], "buy")
  <2>1. CASE n \in 1..a
    <3>1. n \in 0..a /\ n - 1 \in 0..a
      BY <1>1, <2>1
    <3>2. /\ sold[n] = SubSeq(asks, 1, n) /\ sold[n - 1] = SubSeq(asks, 1, n - 1)
          /\ bought[n] = <<>> /\ bought[n - 1] = <<>>
      BY <1>4, <3>1
    <3>3. SubSeq(asks, 1, n)
            = Append(SubSeq(asks, 1, n - 1), <<asks[n][1], asks[n][2]>>)
      BY <1>3, <2>1
    <3> QED BY <1>2, <2>1, <3>2, <3>3 DEF Taking
  <2>2. ASSUME NEW m \in 1..b, n = a + m
        PROVE  /\ sold[n] = Taking(sold[n - 1], changes[n], "sell")
               /\ bought[n] = Taking(bought[n - 1], changes[n], "buy")
    <3>1. m \in 0..b /\ m - 1 \in 0..b /\ n - 1 = a + (m - 1)
      BY <1>1, <2>2
    <3>2. /\ sold[n] = asks /\ sold[n - 1] = asks
          /\ bought[n] = SubSeq(bids, 1, m)
          /\ bought[n - 1] = SubSeq(bids, 1, m - 1)
      BY <1>4, <2>2, <3>1
    <3>3. SubSeq(bids, 1, m)
            = Append(SubSeq(bids, 1, m - 1), <<bids[m][1], bids[m][2]>>)
      BY <1>3
    <3>4. /\ changes[n][1] = "buy" /\ changes[n][2] = bids[m][1]
          /\ changes[n][3] = bids[m][2]
      BY <1>2, <2>2
    <3> QED BY <3>2, <3>3, <3>4 DEF Taking
  <2>3. n \in 1..a \/ (n - a \in 1..b /\ n = a + (n - a))
    BY <1>1, <1>2
  <2> QED BY <2>1, <2>2, <2>3
<1>7. /\ sold[0] = <<>> /\ sold[Len(changes)] = asks
      /\ bought[0] = <<>> /\ bought[Len(changes)] = bids
  <2>1. 0 \in 0..a /\ b \in 0..b
    BY <1>1
  <2>2. /\ sold[0] = SubSeq(asks, 1, 0) /\ sold[a + b] = asks
        /\ bought[0] = <<>> /\ bought[a + b] = SubSeq(bids, 1, b)
    BY <1>4, <2>1
  <2> QED BY <1>2, <1>3, <2>2
<1>8. Len(changes) \in Nat
  BY <1>1, <1>2
<1> HIDE DEF a, b
<1>9. Holds(sold, changes, "sell")
  BY <1>5, <1>6, <1>7 DEF Holds
<1>10. Holds(bought, changes, "buy")
  BY <1>5, <1>6, <1>7 DEF Holds
<1>11. Side(changes, "sell") = sold[Len(changes)]
  BY ONLY <1>8, <1>9, SideHolds
<1>12. Side(changes, "buy") = bought[Len(changes)]
  BY ONLY <1>8, <1>10, SideHolds
<1> QED BY <1>7, <1>11, <1>12

\* And every change parses if every level does.
LEMMA ChangesParse ==
    ASSUME NEW asks \in Seq(Int \X Int), NEW bids \in Seq(Int \X Int),
           NEW changes, Lists(changes, asks, bids)
    PROVE  (\A i \in DOMAIN changes :
                changes[i][2] # NotANumber /\ changes[i][3] # NotANumber)
           <=> Parses(bids) /\ Parses(asks)
<1> DEFINE a == Len(asks)
           b == Len(bids)
           good(i) == changes[i][2] # NotANumber /\ changes[i][3] # NotANumber
<1>1. /\ a \in Nat /\ b \in Nat
      /\ DOMAIN asks = 1..a /\ DOMAIN bids = 1..b
  OBVIOUS
<1>2. /\ Parses(asks) <=> \A n \in 1..a : good(n)
      /\ Parses(bids) <=> \A n \in 1..b : good(a + n)
      /\ DOMAIN changes = 1..(a + b)
  <2>1. \A n \in 1..a : changes[n][2] = asks[n][1] /\ changes[n][3] = asks[n][2]
    BY DEF Lists
  <2>2. \A n \in 1..b : /\ changes[a + n][2] = bids[n][1]
                        /\ changes[a + n][3] = bids[n][2]
    BY DEF Lists
  <2>3. DOMAIN changes = 1..(a + b)
    BY DEF Lists
  <2> HIDE DEF a, b
  <2>4. Parses(asks) <=> \A n \in 1..a : good(n)
    BY <1>1, <2>1 DEF Parses
  <2>5. Parses(bids) <=> \A n \in 1..b : good(a + n)
    BY <1>1, <2>2 DEF Parses
  <2> QED BY <2>3, <2>4, <2>5
<1> HIDE DEF a, b, good
<1>3. (\A i \in 1..(a + b) : good(i))
        <=> (\A n \in 1..a : good(n)) /\ (\A n \in 1..b : good(a + n))
  <2>1. ASSUME \A i \in 1..(a + b) : good(i)
        PROVE  (\A n \in 1..a : good(n)) /\ (\A n \in 1..b : good(a + n))
    BY <1>1, <2>1
  <2>2. ASSUME \A n \in 1..a : good(n), \A n \in 1..b : good(a + n),
               NEW i \in 1..(a + b)
        PROVE  good(i)
    <3>1. i \in 1..a \/ (i - a \in 1..b /\ i = a + (i - a))
      BY <1>1
    <3> QED BY <2>2, <3>1
  <2> QED BY <2>1, <2>2
<1>4. (\A i \in DOMAIN changes : good(i)) <=> Parses(bids) /\ Parses(asks)
  BY ONLY <1>2, <1>3
<1> QED BY <1>4 DEF good

-----------------------------------------------------------------------------
\* on_message finds what the exchange wrote.
LEMMA CoinbaseReads ==
    ASSUME NEW e \in Events, NEW a \in BOOLEAN
    PROVE  CoinbaseOnMessage(CoinbaseWrites(e), a).event
              = IF Readable(e) THEN e ELSE Nothing
<1>0. /\ e \in [kind : Kinds, symbol : Symbols \ {NotText},
                bids : Seq(Int \X Int), asks : Seq(Int \X Int)]
      /\ e.symbol # NotText
  BY EventsAssumption
<1>1. CASE e.kind = "snapshot"
  BY <1>0, <1>1 DEF CoinbaseOnMessage, CoinbaseWrites, CoinbaseSnapshot, Outcome,
                    Contains, Snapshot, Readable, Kinds
<1>2. CASE e.kind = "delta"
  <2> DEFINE changes == Tagged(e.asks, "sell") \o Tagged(e.bids, "buy")
             data == [type |-> "l2update", product_id |-> e.symbol,
                      changes |-> changes]
  <2>1. Lists(changes, e.asks, e.bids)
    BY <1>0, CoinbaseLists
  <2> HIDE DEF changes
  <2>2. Side(changes, "sell") = e.asks /\ Side(changes, "buy") = e.bids
    BY <1>0, <2>1, SidesOfChanges
  <2>3. (\A i \in DOMAIN changes :
            changes[i][2] # NotANumber /\ changes[i][3] # NotANumber)
        <=> Readable(e)
    BY <1>0, <2>1, ChangesParse DEF Readable
  <2>4. CoinbaseWrites(e) = data
    BY <1>2 DEF CoinbaseWrites, changes
  <2>5. /\ Contains(data, "type") /\ data.type = "l2update"
        /\ data.product_id = e.symbol /\ data.changes = changes
    BY DEF Contains
  <2>6. CoinbaseOnMessage(data, a).event = CoinbaseUpdate(data)
    BY <2>5 DEF CoinbaseOnMessage, Outcome
  <2>7. CoinbaseUpdate(data) = IF Readable(e) THEN Delta(e.symbol, e.bids, e.asks)
                               ELSE Nothing
    <3> HIDE DEF data
    <3> QED BY <1>0, <2>2, <2>3, <2>5 DEF CoinbaseUpdate
  <2>8. Delta(e.symbol, e.bids, e.asks) = e
    BY <1>0, <1>2 DEF Delta
  <2> QED BY <2>4, <2>6, <2>7, <2>8
<1> QED BY <1>0, <1>1, <1>2 DEF Kinds

LEMMA BinanceReads ==
    ASSUME NEW e \in Events, NEW a \in BOOLEAN
    PROVE  BinanceOnMessage(BinanceWrites(e), a).event
              = IF Readable(e) THEN e ELSE Nothing
<1>0. /\ e \in [kind : Kinds, symbol : Symbols \ {NotText},
                bids : Seq(Int \X Int), asks : Seq(Int \X Int)]
      /\ 1 # NotANumber
  BY EventsAssumption DEF NotANumber
<1>1. CASE e.kind = "snapshot"
  BY <1>0, <1>1 DEF BinanceOnMessage, BinanceWrites, BinanceSnapshot, Outcome,
                    Contains, Snapshot, Readable, Kinds
<1>2. CASE e.kind = "delta"
  BY <1>0, <1>2 DEF BinanceOnMessage, BinanceWrites, BinanceUpdate, Outcome,
                    Contains, Delta, Readable, Kinds
<1> QED BY <1>0, <1>1, <1>2 DEF Kinds

LEMMA Renamed ==
    ASSUME NEW e \in Events
    PROVE  [e EXCEPT !.symbol = KrakenSymbol]
              = [kind |-> e.kind, symbol |-> KrakenSymbol, bids |-> e.bids,
                 asks |-> e.asks]
<1>1. e \in [kind : Kinds, symbol : Symbols \ {NotText},
             bids : Seq(Int \X Int), asks : Seq(Int \X Int)]
  BY EventsAssumption
<1>2. e = [kind |-> e.kind, symbol |-> e.symbol, bids |-> e.bids, asks |-> e.asks]
  BY <1>1
<1>3. ASSUME NEW k, NEW s, NEW b, NEW l
      PROVE  [[kind |-> k, symbol |-> s, bids |-> b, asks |-> l]
                EXCEPT !.symbol = KrakenSymbol]
               = [kind |-> k, symbol |-> KrakenSymbol, bids |-> b, asks |-> l]
  OBVIOUS
<1> QED BY <1>2, <1>3

LEMMA KrakenReads ==
    ASSUME NEW e \in Events, NEW a \in BOOLEAN
    PROVE  KrakenOnMessage(KrakenWrites(e), a).event
              = IF Readable(e) THEN [e EXCEPT !.symbol = KrakenSymbol] ELSE Nothing
<1> DEFINE snapshot == e.kind = "snapshot"
           fields == {f \in {"bs", "as", "b", "a"} :
                        /\ snapshot = (f \in {"bs", "as"})
                        /\ (IF f \in {"bs", "b"} THEN e.bids ELSE e.asks) # <<>>}
           book == [f \in fields |-> IF f \in {"bs", "b"} THEN e.bids ELSE e.asks]
           array == <<"channel", book, "book", e.symbol>>
<1>0. /\ e \in [kind : Kinds, symbol : Symbols \ {NotText},
                bids : Seq(Int \X Int), asks : Seq(Int \X Int)]
      /\ e.bids # <<>> \/ e.asks # <<>>
  BY EventsAssumption
<1>1. KrakenWrites(e) = [array |-> array]
  BY DEF KrakenWrites
<1>2. Len(array) >= 2 /\ array[2] = book
  <2> HIDE DEF book
  <2> QED OBVIOUS
<1>3. /\ snapshot => /\ "bs" \in DOMAIN book \/ "as" \in DOMAIN book
                     /\ KrakenSide(book, "bs") = e.bids
                     /\ KrakenSide(book, "as") = e.asks
      /\ ~snapshot => /\ ~("bs" \in DOMAIN book \/ "as" \in DOMAIN book)
                      /\ "b" \in DOMAIN book \/ "a" \in DOMAIN book
                      /\ KrakenSide(book, "b") = e.bids
                      /\ KrakenSide(book, "a") = e.asks
  BY <1>0 DEF KrakenSide, Contains
<1> HIDE DEF book, array
<1>4. KrakenOnMessage([array |-> array], a).event =
        IF Contains(book, "bs") \/ Contains(book, "as") THEN KrakenSnapshot(book)
        ELSE IF Contains(book, "b") \/ Contains(book, "a") THEN KrakenUpdate(book)
        ELSE Nothing
  BY <1>2 DEF KrakenOnMessage, Contains, Outcome
<1>5. CASE snapshot
  <2>1. KrakenSnapshot(book) = IF Readable(e)
                               THEN Snapshot(KrakenSymbol, e.bids, e.asks) ELSE Nothing
    BY <1>3, <1>5 DEF KrakenSnapshot, Readable
  <2>2. Snapshot(KrakenSymbol, e.bids, e.asks) = [e EXCEPT !.symbol = KrakenSymbol]
    BY <1>5, Renamed DEF Snapshot
  <2> QED BY <1>1, <1>3, <1>4, <1>5, <2>1, <2>2 DEF Contains
<1>6. CASE ~snapshot
  <2>1. e.kind = "delta"
    BY <1>0, <1>6 DEF Kinds
  <2>2. KrakenUpdate(book) = IF Readable(e)
                             THEN Delta(KrakenSymbol, e.bids, e.asks) ELSE Nothing
    BY <1>3, <1>6 DEF KrakenUpdate, Readable
  <2>3. Delta(KrakenSymbol, e.bids, e.asks) = [e EXCEPT !.symbol = KrakenSymbol]
    BY <2>1, Renamed DEF Delta
  <2> QED BY <1>1, <1>3, <1>4, <1>6, <2>2, <2>3 DEF Contains
<1> QED BY <1>5, <1>6

\* A notice is nothing to a callback.
LEMMA NoticesSayNothing ==
    ASSUME venue \in {"coinbase", "kraken", "binance"}, NEW data \in Notices(venue),
           NEW a \in BOOLEAN
    PROVE  OnMessage(venue, data, a).event = Nothing
<1>1. CASE venue = "kraken"
  <2>1. /\ OnMessage(venue, data, a) = KrakenOnMessage(data, a)
        /\ Notices(venue) = {[event |-> "systemStatus"], [event |-> "heartbeat"],
                             [array |-> <<"channel">>], [text |-> "not JSON"]}
    BY <1>1 DEF OnMessage, Notices
  <2>2. \/ data = [event |-> "systemStatus"] \/ data = [event |-> "heartbeat"]
        \/ data = [array |-> <<"channel">>] \/ data = [text |-> "not JSON"]
    BY <2>1
  <2>3. ~(Contains(data, "array") /\ Len(data.array) >= 2)
    <3>1. CASE data = [array |-> <<"channel">>]
      <4>1. Len(data.array) = 1
        BY <3>1
      <4> QED BY <4>1
    <3>2. ASSUME data # [array |-> <<"channel">>] PROVE "array" \notin DOMAIN data
      <4>1. /\ DOMAIN [event |-> "systemStatus"] = {"event"}
            /\ DOMAIN [event |-> "heartbeat"] = {"event"}
            /\ DOMAIN [text |-> "not JSON"] = {"text"}
        OBVIOUS
      <4>2. DOMAIN data \in {{"event"}, {"text"}}
        BY <2>2, <3>2, <4>1
      <4> QED BY <4>2
    <3> QED BY <3>1, <3>2 DEF Contains
  <2>4. KrakenOnMessage(data, a).event = Nothing
    BY <2>3 DEF KrakenOnMessage, Outcome
  <2> QED BY <2>1, <2>4
<1>2. CASE venue = "binance"
  <2>1. /\ OnMessage(venue, data, a) = BinanceOnMessage(data, a)
        /\ Notices(venue) =
              {[result |-> "null", id |-> 1],
               [e |-> "depthUpdate", s |-> "BTC/USD", u |-> NotANumber,
                b |-> <<>>, a |-> <<>>],
               [text |-> "not JSON"]}
    BY <1>2 DEF OnMessage, Notices
  <2>2. \/ Contains(data, "result")
        \/ Contains(data, "e") /\ data.e = "depthUpdate" /\ data.u = NotANumber
        \/ ~Contains(data, "e") /\ ~Contains(data, "lastUpdateId")
    <3>1. CASE data = [result |-> "null", id |-> 1]
      BY <3>1 DEF Contains
    <3>2. CASE data = [e |-> "depthUpdate", s |-> "BTC/USD", u |-> NotANumber,
                       b |-> <<>>, a |-> <<>>]
      BY <3>2 DEF Contains
    <3>3. CASE data = [text |-> "not JSON"]
      BY <3>3 DEF Contains
    <3> QED BY <2>1, <3>1, <3>2, <3>3
  <2>3. BinanceOnMessage(data, a).event = Nothing
    BY <2>2 DEF BinanceOnMessage, BinanceUpdate, Outcome
  <2> QED BY <2>1, <2>3
<1>3. CASE venue = "coinbase"
  <2>1. OnMessage(venue, data, a) = CoinbaseOnMessage(data, a)
    BY <1>3 DEF OnMessage
  <2>2. \/ ~Contains(data, "type")
        \/ Contains(data, "type")
           /\ data.type \in {"authenticate", "error", "subscriptions"}
        \/ /\ Contains(data, "type") /\ data.type = "l2update"
           /\ data.product_id = NotText
    <3>1. CASE data \in {[type |-> "authenticate", success |-> s] :
                            s \in {"true", "false", NotText}}
      BY <3>1 DEF Contains
    <3>2. CASE data \in {[type |-> "authenticate"], [type |-> "subscriptions"],
                         [type |-> "error", error |-> "authentication_failed"],
                         [type |-> "error", error |-> "authentication_failed",
                          details |-> NotText]}
      BY <3>2 DEF Contains
    <3>3. CASE data = [type |-> "l2update", product_id |-> NotText, changes |-> <<>>]
      BY <3>3 DEF Contains
    <3>4. CASE data = [text |-> "not JSON"]
      BY <3>4 DEF Contains
    <3> QED BY <1>3, <3>1, <3>2, <3>3, <3>4 DEF Notices
  <2>3. CoinbaseOnMessage(data, a).event = Nothing
    BY <2>2 DEF CoinbaseOnMessage, CoinbaseError, CoinbaseAuthenticate,
                CoinbaseUpdate, Outcome
  <2> QED BY <2>1, <2>3
<1> QED BY <1>1, <1>2, <1>3

-----------------------------------------------------------------------------
\* The message on its way is one the exchange writes, for what it means.
ComingInv ==
    \/ coming = NoMessage
    \/ coming.means = Nothing /\ coming.data \in Notices(venue)
    \/ \E e \in Events : coming = Message(e, Written(venue, e))

FeedInv ==
    /\ ComingInv
    /\ said \in Seq(Given)
    /\ delivered = said

LEMMA FeedInvHolds == FeedSpec => []FeedInv
<1>1. FeedInit => FeedInv
  BY DEF FeedInit, FeedInv, ComingInv
<1>2. TypeOK /\ FeedInv /\ [FeedNext]_feedVars => FeedInv'
  <2> SUFFICES ASSUME TypeOK, FeedInv, [FeedNext]_feedVars PROVE FeedInv'
    OBVIOUS
  <2>0. venue' = venue
    <3>1. [Next]_vars
      BY FeedStep
    <3> QED BY <3>1 DEF Next, vars, OwnerConnect, OwnerDisconnect, Destroy, Connect,
               OwnerGoesOn, DisconnectCheck, DisconnectClear, DisconnectStop,
               DisconnectJoin, Release, FinalJoin, Reads, ReadBook, ReadNotice,
               ReadRefusal, ReadUnknown, ReadError, IoGoesOn, CallbackReturns,
               RunReturns, Reconnect
  <2>1. venue \in {"coinbase", "kraken", "binance"} /\ FeedInv /\ authenticated \in BOOLEAN
    BY <2>0, VenuesAssumption DEF TypeOK
  <2>2. CASE UNCHANGED <<said, delivered>> /\ coming' \in {coming, NoMessage}
    BY <2>0, <2>1, <2>2 DEF FeedInv, ComingInv
  <2>3. CASE SendNotice
    BY <2>0, <2>1, <2>3 DEF SendNotice, Send, FeedInv, ComingInv, Message
  <2>4. CASE SendEvent
    BY <2>0, <2>1, <2>4 DEF SendEvent, Send, FeedInv, ComingInv, Message
  <2>5. CASE ReceiveEvent \/ ReceiveQuietly
    <3>1. coming # NoMessage /\ coming' = NoMessage /\ said' = said \o Meant(coming)
      BY <2>5 DEF ReceiveEvent, ReceiveQuietly, OnMessageStep
    <3>2. delivered' = IF Delivers THEN Append(delivered, Handled.event) ELSE delivered
      BY <2>5 DEF ReceiveEvent, ReceiveQuietly
    <3>3. CASE coming.means = Nothing /\ coming.data \in Notices(venue)
      <4>1. ~Delivers
        BY <2>1, <3>3, NoticesSayNothing DEF Delivers, Handled
      <4>2. Meant(coming) = <<>>
        BY <3>3 DEF Meant
      <4> QED BY <2>1, <3>1, <3>2, <4>1, <4>2 DEF FeedInv, ComingInv
    <3>4. ASSUME NEW e \in Events, coming = Message(e, Written(venue, e))
          PROVE  FeedInv'
      <4>1. coming.means = e /\ coming.data = Written(venue, e)
        BY <3>4 DEF Message
      <4>2. Handled.event = Says(e)
        <5>1. CASE venue = "kraken"
          <6>1. Handled = KrakenOnMessage(KrakenWrites(e), authenticated)
            BY <4>1, <5>1 DEF Handled, OnMessage, Written
          <6> QED BY <2>1, <5>1, <6>1, KrakenReads DEF Says
        <5>2. CASE venue = "binance"
          <6>1. Handled = BinanceOnMessage(BinanceWrites(e), authenticated)
            BY <4>1, <5>2 DEF Handled, OnMessage, Written
          <6> QED BY <2>1, <5>2, <6>1, BinanceReads DEF Says
        <5>3. CASE venue = "coinbase"
          <6>1. Handled = CoinbaseOnMessage(CoinbaseWrites(e), authenticated)
            BY <4>1, <5>3 DEF Handled, OnMessage, Written
          <6> QED BY <2>1, <5>3, <6>1, CoinbaseReads DEF Says
        <5> QED BY <2>1, <5>1, <5>2, <5>3
      <4>3. CASE Readable(e) /\ e.kind \in registered
        <5>1. Meant(coming) = <<Says(e)>>
          BY <4>1, <4>3, SaysGiven, EventsAssumption DEF Meant, Says, Kinds, Nothing
        <5>2. Delivers
          BY <4>2, <4>3, SaysGiven DEF Delivers
        <5>3. Says(e) \in Given
          BY <4>3, SaysGiven
        <5> QED
          <6> HIDE DEF Given
          <6> QED BY <2>1, <3>1, <3>2, <4>2, <5>1, <5>2, <5>3 DEF FeedInv, ComingInv
      <4>4. CASE ~(Readable(e) /\ e.kind \in registered)
        <5>1. Meant(coming) = <<>>
          BY <4>1, <4>4 DEF Meant
        <5>2. ~Delivers
          BY <4>2, <4>4, SaysGiven DEF Delivers, Says
        <5> QED BY <2>1, <3>1, <3>2, <5>1, <5>2 DEF FeedInv, ComingInv
      <4> QED BY <4>3, <4>4
    <3> QED BY <2>1, <3>1, <3>3, <3>4 DEF FeedInv, ComingInv
  <2> QED
    BY <2>2, <2>3, <2>4, <2>5
       DEF FeedNext, feedVars, feed, Register, FeedConnect, Subscribe,
           FeedDisconnect, WriteCompletes, Receives, FeedOwnerGoesOn, FeedIoGoesOn,
           Losing
<1> QED BY <1>1, <1>2, FeedTypeCorrect, PTL DEF FeedSpec

\* The callbacks are given every event that can be read, whole, on its own side
\* and in the order sent, and nothing else, whatever is written between, whichever
\* side of an update is empty and however Coinbase's changes are listed.
THEOREM FeedDelivers == FeedSpec => []DeliveredAsSaid
<1>1. FeedInv => DeliveredAsSaid
  BY DEF FeedInv, DeliveredAsSaid
<1> QED BY <1>1, FeedInvHolds, PTL
=============================================================================
