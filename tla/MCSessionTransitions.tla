------------------------ MODULE MCSessionTransitions ------------------------
EXTENDS SessionTransitions, TLC

CONSTANTS s1, s2, u1, w1, w2

MCSessions == {s1}
MCUserOf == s1 :> u1
MCOffRamp == s1 :> "off_ramp"
MCOnRamp == s1 :> "on_ramp"

MCTwoSessions == {s1, s2}
MCTwoUserOf == s1 :> u1 @@ s2 :> u1
MCOnRampAndWallets == s1 :> "on_ramp" @@ s2 :> "wallet_to_wallet"

\* Any target, with a reason of the code and one that settles nothing.
MCAnyCalls == CodeCalls \cup [to : SessionState, reason : {"manual_admin"}]

WorkerSymmetry == Permutations(Workers)
=============================================================================
