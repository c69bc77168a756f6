---------------------------- MODULE MCMasterStream ----------------------------
(***************************************************************************)
(* Small instances of the stream supervisor: one source per kind of feed.   *)
(***************************************************************************)
EXTENDS MasterStream

CONSTANTS s1, s2, y1, y2

\* Coinbase: order messages only, every position comes from a REST call.
Orders == [rows |-> "none", notice |-> TRUE, greets |-> TRUE, falls |-> TRUE, quiet |-> FALSE]
\* Binance and Bybit: the positions that changed, and nothing else.
Changes == [rows |-> "changed", notice |-> FALSE, greets |-> FALSE, falls |-> FALSE,
            quiet |-> FALSE]
\* OKX: the positions that changed, order messages, and answers whose code is
\* not looked at.
Both == [rows |-> "changed", notice |-> TRUE, greets |-> TRUE, falls |-> TRUE, quiet |-> TRUE]

FeedOrders == [s \in Sources |-> Orders]
FeedChanges == [s \in Sources |-> Changes]
FeedBoth == [s \in Sources |-> Both]

FlatOrLong == {0, 1}
AnySide == {-1, 0, 1}
=============================================================================
