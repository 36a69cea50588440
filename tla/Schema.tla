------------------------------- MODULE Schema -------------------------------
(***************************************************************************)
(* What preparing a database promises of its schema, with no runners and   *)
(* no transactions: the migrations take effect one at a time, in order,    *)
(* each once, and each together with the row that records it.              *)
(***************************************************************************)
EXTENDS Naturals

CONSTANT Files

VARIABLES recorded, built

vars == <<recorded, built>>

Init == recorded = {} /\ built = {}

Migrate(v) ==
  /\ built = 1..(v - 1)
  /\ recorded = built
  /\ built' = 1..v
  /\ recorded' = 1..v

Next == \E v \in 1..Files : Migrate(v)

Spec == Init /\ [][Next]_vars

=============================================================================
