----------------------------- MODULE ExchangeFeedMC -----------------------------
\* A small instance of ExchangeFeed: two symbols, and events of each kind with
\* a level added, one removed, one on either side, and one that does not parse.
EXTENDS ExchangeFeed

MCSymbols == {"BTC/USD", "ETH/USD"}

MCEvents ==
    { Snapshot("BTC/USD", <<<<1, 2>>, <<2, 1>>>>, <<<<3, 1>>>>),
      Snapshot("BTC/USD", <<<<1, 1>>>>, <<<<3, NotANumber>>>>),
      Delta("ETH/USD", <<<<2, 0>>>>, <<<<3, 1>>, <<4, 2>>>>),
      Delta("BTC/USD", <<<<2, 1>>>>, <<<<NotANumber, 0>>>>) }
=============================================================================
