-------------------------- MODULE MarketDataEngineMC --------------------------
(***************************************************************************)
(* Instances of MarketDataEngine for TLC: the messages, and which adapter  *)
(* feeds which symbol.                                                     *)
(***************************************************************************)
EXTENDS MarketDataEngine, TLC

Snapshot(s, bids, asks) ==
    [isSnapshot |-> TRUE, symbol |-> s, bids |-> bids, asks |-> asks]

Delta(s, bids, asks) ==
    [isSnapshot |-> FALSE, symbol |-> s, bids |-> bids, asks |-> asks]

\* The size sz at every price of ps.
At(ps, sz) == [p \in ps |-> sz]

\* Two bids, so that the lowest is not the best; a book without a bid; a bid
\* that leaves its price to an ask; an ask that leaves its price to a bid,
\* or to nobody.
BtcMessages ==
    {Snapshot("BTC", At({1, 2}, 1), At({3}, 1)),
     Snapshot("BTC", NoLevels, At({2, 3}, 1)),
     Delta("BTC", At({2}, 0), At({2}, 1)),
     Delta("BTC", At({3}, 1), At({3}, 0)),
     Delta("BTC", NoLevels, At({3}, 0))}

\* ETH is a symbol the engine was not given.
BtcAndOtherMessages == BtcMessages \cup {Snapshot("ETH", At({1}, 1), At({2}, 1))}

\* For two threads in one book: each delta has two turns, and applied in
\* turns they would have a bid meet an ask.
RacingMessages ==
    {Snapshot("BTC", At({1}, 1), At({2}, 1)),
     Delta("BTC", At({2}, 1), At({1, 2}, 0))}

\* The adapters are alike when they all feed the same symbols.
AdapterSymmetry == Permutations(Adapters)

FeedAll == [a \in Adapters |-> Symbols]
=============================================================================
