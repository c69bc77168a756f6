------------------------------ MODULE SignalMath ------------------------------
(***************************************************************************)
(* From a change of the master's position to the command for a follower:    *)
(* the action of the change, the scaled and rounded quantities, the lane    *)
(* and the reduce-only flag. Quantities are integers: the master's in its    *)
(* own units, the follower's in parts of Den of them, so that a scale is a   *)
(* number of parts and every product is exact.                              *)
(***************************************************************************)
EXTENDS Integers

CONSTANT Den  \* parts of a unit

ASSUME DenIsPositive == Den \in Nat \ {0}

Magnitude(x) == IF x < 0 THEN -x ELSE x

ResolveSide(q) == IF q > 0 THEN "LONG" ELSE IF q < 0 THEN "SHORT" ELSE "FLAT"

\* Mutant of ResolveAction: the two signs are compared before zero is.
ResolveActionSigns(previous, current) ==
    CASE (previous > 0 /\ current <= 0) \/ (previous < 0 /\ current >= 0) -> "FLIP"
      [] previous = 0 /\ current # 0 -> "OPEN"
      [] Magnitude(current) > Magnitude(previous) -> "INCREASE"
      [] Magnitude(current) < Magnitude(previous) -> "REDUCE"
      [] OTHER -> "SYNC_TO_TARGET_POSITION"

ResolveAction(previous, current) ==
    CASE previous = 0 /\ current # 0 -> "OPEN"
      [] previous # 0 /\ current = 0 -> "CLOSE"
      [] (previous > 0 /\ current < 0) \/ (previous < 0 /\ current > 0) -> "FLIP"
      [] previous * current > 0 /\ Magnitude(current) > Magnitude(previous) -> "INCREASE"
      [] previous * current > 0 /\ Magnitude(current) < Magnitude(previous) -> "REDUCE"
      [] OTHER -> "SYNC_TO_TARGET_POSITION"

BuildSignal(previous, current) ==
    [action |-> ResolveAction(previous, current), side |-> ResolveSide(current),
     target |-> Magnitude(current), delta |-> current - previous]

\* A symbol rule's factor comes first; a route that copies exactly has one.
EffectiveScale(route) ==
    IF route.rule # 0 THEN route.rule
    ELSE IF route.mode = "SCALE" THEN route.scale ELSE Den

\* The scale is looked at by the mode that scales.
Sourced(route, q) == IF route.mode = "EXACT" THEN q * Den ELSE q * EffectiveScale(route)

\* Down to whole steps; less than the smallest order is nothing.
Normalized(q, limits) ==
    LET rounded == (q \div limits.step) * limits.step
    IN  IF q < limits.min \/ rounded < limits.min THEN 0 ELSE rounded

ScaleTarget(route, q) == Normalized(Magnitude(Sourced(route, q)), route.limits)

\* Mutant of ScaleDelta: the sign is lost with the rounding.
ScaleDeltaUnsigned(route, q) == Normalized(Magnitude(Sourced(route, q)), route.limits)

ScaleDelta(route, q) ==
    LET size == Normalized(Magnitude(Sourced(route, q)), route.limits)
    IN  IF Sourced(route, q) < 0 THEN -size ELSE size

LaneOf(action) ==
    IF action \in {"CLOSE", "REDUCE", "FLIP"} THEN "RISK_PRIORITY" ELSE "NORMAL_EXEC"

ReducesOnly(action) == action \in {"CLOSE", "REDUCE"}

Command(route, signal) ==
    [action |-> signal.action, lane |-> LaneOf(signal.action), side |-> signal.side,
     target |-> ScaleTarget(route, signal.target), delta |-> ScaleDelta(route, signal.delta),
     reduce |-> ReducesOnly(signal.action)]

\* A route gets no command when its target or its delta is rounded away.
TargetRoundedAway(c) == c.target = 0 /\ c.side # "FLAT"
DeltaRoundedAway(c) == c.delta = 0 /\ c.action # "SYNC_TO_TARGET_POSITION"
Planned(c) == ~ TargetRoundedAway(c) /\ ~ DeltaRoundedAway(c)

\* The signed position a task aims at.
ExpectedQuantity(c) ==
    IF c.side = "SHORT" THEN -c.target ELSE IF c.side = "FLAT" THEN 0 ELSE c.target
=============================================================================
