---------------------------- MODULE MCSettlement ----------------------------
EXTENDS Settlement, TLC

CONSTANTS u1, w1, w2, d1

MCUserOf == [s \in Sessions |-> u1]
MCOffRamp == [s \in Sessions |-> "off_ramp"]
\* The newest session buys, the oldest sells.
MCBoth == [s \in Sessions |-> IF s = 1 THEN "off_ramp" ELSE "on_ramp"]

MCPayerOf == [d \in Deposits |-> u1]

WorkerSymmetry == Permutations(Workers)
=============================================================================
