---------------------------- MODULE MCIdempotency ----------------------------
EXTENDS Idempotency, TLC

CONSTANTS k1, k2, k3, w1, w2, w3

\* One key for a session, one for an order, one that comes with a bad body.
MCOperationOf == k1 :> "createSession" @@ k2 :> "submitOrder" @@ k3 :> "createSession"
MCOrders == k2 :> "submitOrder"

WorkerSymmetry == Permutations(Workers)
=============================================================================
