------------------------------ MODULE BookMessages ------------------------------
(***************************************************************************)
(* The messages of the three exchanges: how each adapter's on_message      *)
(* routes one, what its handlers make of a message of the book, and the    *)
(* requests it writes.                                                     *)
(*                                                                         *)
(* A JSON object is a record that has the fields the code asks about, an   *)
(* array a sequence, a number in a text the number itself.  NotANumber     *)
(* stands for a text that std::stod refuses or a value that is no text at  *)
(* all, NotText for a value of another type where the code wants a string: *)
(* either makes the code throw, and every handler catches what it throws   *)
(* and delivers nothing.  A message of a known type has the fields of that *)
(* type; what a missing one would do is undefined, and left out, as is the *)
(* time that a message is stamped with.                                    *)
(***************************************************************************)
EXTENDS Integers, Sequences

NotANumber == -1
NotText == "not a text"

\* What a callback is given.
Snapshot(symbol, bids, asks) ==
    [kind |-> "snapshot", symbol |-> symbol, bids |-> bids, asks |-> asks]

Delta(symbol, bids, asks) ==
    [kind |-> "delta", symbol |-> symbol, bids |-> bids, asks |-> asks]

Nothing == [kind |-> "nothing"]

Contains(data, field) == field \in DOMAIN data

\* std::stod of a price and a size, for every entry of an array.
Parses(levels) ==
    \A i \in DOMAIN levels :
        levels[i][1] # NotANumber /\ levels[i][2] # NotANumber

\* What on_message comes to: the event for a callback, the flag
\* authenticated_, and whether it reads on, returns or disconnects.
Outcome(event, authenticated, next) ==
    [event |-> event, authenticated |-> authenticated, next |-> next]

-----------------------------------------------------------------------------
\* Coinbase.
CoinbaseSnapshot(data) ==
    IF data.product_id # NotText /\ Parses(data.bids) /\ Parses(data.asks)
    THEN Snapshot(data.product_id, data.bids, data.asks)
    ELSE Nothing

\* The changes of one side, as levels; those of a side that is neither buy
\* nor sell are read and ignored.
Taking(levels, change, side) ==
    IF change[1] = side THEN Append(levels, <<change[2], change[3]>>) ELSE levels

Side(changes, side) ==
    LET of[n \in 0..Len(changes)] ==
            IF n = 0 THEN <<>> ELSE Taking(of[n - 1], changes[n], side)
    IN  of[Len(changes)]

\* Faulty: a change that does not parse is skipped, and the others delivered.
CoinbaseUpdateSkipping(data) ==
    LET good == SelectSeq(data.changes,
                          LAMBDA c : c[2] # NotANumber /\ c[3] # NotANumber)
    IN  IF data.product_id # NotText
        THEN Delta(data.product_id, Side(good, "buy"), Side(good, "sell"))
        ELSE Nothing

CoinbaseUpdate(data) ==
    IF /\ data.product_id # NotText
       /\ \A i \in DOMAIN data.changes :
            data.changes[i][2] # NotANumber /\ data.changes[i][3] # NotANumber
    THEN Delta(data.product_id, Side(data.changes, "buy"),
               Side(data.changes, "sell"))
    ELSE Nothing

\* An error is logged field by field, and a field that is not a text throws
\* before the code looks for a refused authentication.
CoinbaseError(data, authenticated) ==
    Outcome(Nothing, authenticated,
            IF \E f \in {"message", "error", "details"} :
                    Contains(data, f) /\ data[f] = NotText
            THEN "read"
            ELSE IF Contains(data, "error") /\ data.error = "authentication_failed"
            THEN "disconnect"
            ELSE "return")

CoinbaseAuthenticate(data, authenticated) ==
    IF ~Contains(data, "success") \/ data.success = "false"
    THEN Outcome(Nothing, FALSE, "disconnect")
    ELSE IF data.success = "true"
    THEN Outcome(Nothing, TRUE, "return")
    ELSE Outcome(Nothing, authenticated, "read")

CoinbaseOnMessage(data, authenticated) ==
    IF ~Contains(data, "type") THEN Outcome(Nothing, authenticated, "read")
    ELSE CASE data.type = "error" -> CoinbaseError(data, authenticated)
           [] data.type = "authenticate" -> CoinbaseAuthenticate(data, authenticated)
           [] data.type = "subscriptions" -> Outcome(Nothing, authenticated, "return")
           [] data.type = "snapshot" ->
                Outcome(CoinbaseSnapshot(data), authenticated, "return")
           [] data.type = "l2update" ->
                Outcome(CoinbaseUpdate(data), authenticated, "return")
           [] OTHER -> Outcome(Nothing, authenticated, "read")

CoinbaseSubscribe(symbols) ==
    [type |-> "subscribe", product_ids |-> symbols, channel |-> "level2"]

CoinbaseUnsubscribe(symbols) ==
    [type |-> "unsubscribe",
     channels |-> <<[name |-> "level2", product_ids |-> symbols]>>]

-----------------------------------------------------------------------------
\* Kraken.  The symbol is a literal of the code's.
KrakenSymbol == "BTC/USD"

KrakenSide(data, side) == IF Contains(data, side) THEN data[side] ELSE <<>>

KrakenSnapshot(data) ==
    LET bids == KrakenSide(data, "bs")
        asks == KrakenSide(data, "as")
    IN  IF Parses(bids) /\ Parses(asks)
        THEN Snapshot(KrakenSymbol, bids, asks) ELSE Nothing

KrakenUpdate(data) ==
    LET bids == KrakenSide(data, "b")
        asks == KrakenSide(data, "a")
    IN  IF Parses(bids) /\ Parses(asks)
        THEN Delta(KrakenSymbol, bids, asks) ELSE Nothing

\* An object has an event, a message of the book is an array whose second
\* element is the data; of further elements it takes no notice.
KrakenOnMessage(data, authenticated) ==
    IF Contains(data, "event")
        /\ data.event \in {"systemStatus", "subscriptionStatus", "error"}
    THEN Outcome(Nothing, authenticated, "return")
    ELSE Outcome(
        IF Contains(data, "array") /\ Len(data.array) >= 2
        THEN LET book == data.array[2]
             IN  IF Contains(book, "bs") \/ Contains(book, "as")
                 THEN KrakenSnapshot(book)
                 ELSE IF Contains(book, "b") \/ Contains(book, "a")
                 THEN KrakenUpdate(book)
                 ELSE Nothing
        ELSE Nothing,
        authenticated, "read")

KrakenSubscribe(symbols) ==
    [event |-> "subscribe", pair |-> symbols, subscription |-> [name |-> "book"]]

KrakenUnsubscribe(symbols) == [event |-> "unsubscribe", pair |-> symbols]

-----------------------------------------------------------------------------
\* Binance.
BinanceSnapshot(data) ==
    IF data.symbol # NotText /\ data.lastUpdateId # NotANumber
        /\ Parses(data.bids) /\ Parses(data.asks)
    THEN Snapshot(data.symbol, data.bids, data.asks)
    ELSE Nothing

BinanceUpdate(data) ==
    IF data.s # NotText /\ data.u # NotANumber /\ Parses(data.b) /\ Parses(data.a)
    THEN Delta(data.s, data.b, data.a)
    ELSE Nothing

\* The answer to a request is told by its result or its id.
BinanceOnMessage(data, authenticated) ==
    IF Contains(data, "result") \/ Contains(data, "id")
    THEN Outcome(Nothing, authenticated, "return")
    ELSE Outcome(
        IF Contains(data, "e") /\ data.e = "depthUpdate" THEN BinanceUpdate(data)
        ELSE IF Contains(data, "lastUpdateId") THEN BinanceSnapshot(data)
        ELSE Nothing,
        authenticated, "read")

\* The name of a symbol's stream.
Stream(symbol) == <<symbol, "@depth@100ms">>

BinanceSubscribe(symbols) ==
    [method |-> "SUBSCRIBE", params |-> {Stream(s) : s \in symbols}, id |-> 1]

BinanceUnsubscribe(symbols) ==
    [method |-> "UNSUBSCRIBE", params |-> {Stream(s) : s \in symbols}, id |-> 1]

-----------------------------------------------------------------------------
OnMessage(venue, data, authenticated) ==
    CASE venue = "coinbase" -> CoinbaseOnMessage(data, authenticated)
      [] venue = "kraken" -> KrakenOnMessage(data, authenticated)
      [] venue = "binance" -> BinanceOnMessage(data, authenticated)

SubscribeRequest(venue, symbols) ==
    CASE venue = "coinbase" -> CoinbaseSubscribe(symbols)
      [] venue = "kraken" -> KrakenSubscribe(symbols)
      [] venue = "binance" -> BinanceSubscribe(symbols)

UnsubscribeRequest(venue, symbols) ==
    CASE venue = "coinbase" -> CoinbaseUnsubscribe(symbols)
      [] venue = "kraken" -> KrakenUnsubscribe(symbols)
      [] venue = "binance" -> BinanceUnsubscribe(symbols)

-----------------------------------------------------------------------------
\* The exchanges' side, which is external: how one writes an event of its
\* book down, and which symbols a request asks it for.
Tagged(levels, side) == [i \in DOMAIN levels |-> <<side, levels[i][1], levels[i][2]>>]

CoinbaseWrites(e) ==
    IF e.kind = "snapshot"
    THEN [type |-> "snapshot", product_id |-> e.symbol, bids |-> e.bids,
          asks |-> e.asks]
    ELSE [type |-> "l2update", product_id |-> e.symbol,
          changes |-> Tagged(e.asks, "sell") \o Tagged(e.bids, "buy")]

\* Kraken leaves a side out that has nothing in it.
KrakenWrites(e) ==
    LET snapshot == e.kind = "snapshot"
        fields == {f \in {"bs", "as", "b", "a"} :
                        /\ snapshot = (f \in {"bs", "as"})
                        /\ (IF f \in {"bs", "b"} THEN e.bids ELSE e.asks) # <<>>}
        book == [f \in fields |-> IF f \in {"bs", "b"} THEN e.bids ELSE e.asks]
    IN  [array |-> <<"channel", book, "book", e.symbol>>]

BinanceWrites(e) ==
    IF e.kind = "snapshot"
    THEN [lastUpdateId |-> 1, symbol |-> e.symbol, bids |-> e.bids, asks |-> e.asks]
    ELSE [e |-> "depthUpdate", s |-> e.symbol, u |-> 1, b |-> e.bids, a |-> e.asks]

Written(venue, e) ==
    CASE venue = "coinbase" -> CoinbaseWrites(e)
      [] venue = "kraken" -> KrakenWrites(e)
      [] venue = "binance" -> BinanceWrites(e)

\* The symbols a request subscribes to.
Asks(request) ==
    IF Contains(request, "product_ids") THEN request.product_ids
    ELSE IF Contains(request, "subscription") THEN request.pair
    ELSE IF Contains(request, "method") /\ request.method = "SUBSCRIBE"
    THEN {stream[1] : stream \in request.params}
    ELSE {}

\* Messages of an exchange that say nothing about its book.
Notices(venue) ==
    CASE venue = "coinbase" ->
            {[type |-> "authenticate", success |-> s] : s \in {"true", "false", NotText}}
            \cup {[type |-> "authenticate"],
                  [type |-> "error", error |-> "authentication_failed"],
                  [type |-> "error", error |-> "authentication_failed",
                   details |-> NotText],
                  [type |-> "subscriptions"],
                  [type |-> "l2update", product_id |-> NotText, changes |-> <<>>],
                  [text |-> "not JSON"]}
      [] venue = "kraken" ->
            {[event |-> "systemStatus"], [event |-> "heartbeat"],
             [array |-> <<"channel">>], [text |-> "not JSON"]}
      [] venue = "binance" ->
            {[result |-> "null", id |-> 1],
             [e |-> "depthUpdate", s |-> "BTC/USD", u |-> NotANumber,
              b |-> <<>>, a |-> <<>>],
             [text |-> "not JSON"]}
=============================================================================
