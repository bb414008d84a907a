----------------------------- MODULE MCGateway -----------------------------
(* Gateway on small instances.                                              *)
EXTENDS Gateway, TLC

CONSTANTS c1, c2, svc, que, r1, r2, r3, r4, r5, r6, r7, t1, d1, d2

MCKind == [r \in Request |->
  CASE r \in {r1, r4} -> "call" [] r = r2 -> "cast" [] r \in {r3, r6, r7} -> "queue" [] r = r5 -> "conversation"]
MCResource == [r \in Request |-> IF r \in {r3, r6, r7} THEN que ELSE svc]
MCTrid == [r \in Request |-> IF r \in {r1, r2, r3} /\ t1 \in Trid THEN t1 ELSE None]
MCOrigin == [d \in Discovery |-> {}]

MCSymmetry == Permutations(Connection)
=============================================================================
