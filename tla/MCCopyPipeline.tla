---------------------------- MODULE MCCopyPipeline ----------------------------
(***************************************************************************)
(* Small instances of the pipeline: two deliveries of one fill or of two    *)
(* fills, a route or two on accounts of their own.                          *)
(***************************************************************************)
EXTENDS CopyPipeline, TLC

CONSTANTS d1, d2, d3, r1, r2, a1, a2, s1, e1, e2

\* Two deliveries of the same fill: the operator's API call and the stream.
SameFill == [d \in Deliveries |-> e1]
\* Two fills; d1 and d3 deliver the first.
TwoFills == [d \in Deliveries |-> IF d = d2 THEN e2 ELSE e1]

\* Two operators who replay are the same: nothing in the pipeline tells them
\* apart, so safety may be checked up to their exchange.
Operators == Permutations(Replays)

BothInWorker == [d \in Deliveries |-> "worker"]
BothInApi == [d \in Deliveries |-> "api"]
OneEach == [d \in Deliveries |-> IF d = d1 THEN "api" ELSE "worker"]

OwnAccount == [r \in Routes |-> IF r = r1 THEN a1 ELSE a2]
OneSymbol == [e \in Events |-> s1]

Opens == [e \in Events |-> "OPEN"]
OpenThenClose == [e \in Events |-> IF e = e1 THEN "OPEN" ELSE "CLOSE"]
OpenThenSync == [e \in Events |-> IF e = e1 THEN "OPEN" ELSE "SYNC_TO_TARGET_POSITION"]
=============================================================================
