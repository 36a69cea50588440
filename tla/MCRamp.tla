------------------------------- MODULE MCRamp -------------------------------
EXTENDS Ramp, TLC

CONSTANTS u1, w1, w2, d1, d2

MCUserOf == [s \in Sessions |-> u1]
MCOffRamp == [s \in Sessions |-> "off_ramp"]
MCOneUnknown == d1 :> u1 @@ d2 :> Absent

WorkerSymmetry == Permutations(Workers)
=============================================================================
