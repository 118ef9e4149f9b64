----------------------------- MODULE OrderBookMC -----------------------------
(***************************************************************************)
(* Instances of OrderBook for TLC.                                         *)
(***************************************************************************)
EXTENDS OrderBook

\* A book as an exchange sends it, and one whose best levels cross.
UncrossedSnapshot == [bids |-> [p \in {1} |-> 1], asks |-> [p \in {2, 3} |-> 1]]

CrossedSnapshot == [bids |-> [p \in {1, 3} |-> 1], asks |-> [p \in {2} |-> 2]]

UncrossedSnapshots == {UncrossedSnapshot}

MixedSnapshots == {UncrossedSnapshot, CrossedSnapshot}
=============================================================================
