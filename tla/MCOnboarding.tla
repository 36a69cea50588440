---------------------------- MODULE MCOnboarding ----------------------------
EXTENDS Onboarding, TLC

CONSTANTS u1, w1, w2

MCUserOf == [s \in Sessions |-> u1]
MCOffRamp == [s \in Sessions |-> "off_ramp"]
\* The second session moves nothing but crypto.
MCWalletsLast == [s \in Sessions |-> IF s = 2 THEN "wallet_to_wallet" ELSE "on_ramp"]

WorkerSymmetry == Permutations(Workers)
=============================================================================
