------------------------ MODULE MCTransactionManager ------------------------
(***************************************************************************)
(* Instances of TransactionManager for TLC: the functions that a .cfg      *)
(* cannot write down, for the sets of model values the .cfg gives.         *)
(***************************************************************************)
EXTENDS TransactionManager, TLC

CONSTANTS g1, g2, x1, x2, p1, p2, r1, r2, i1, i2, i3, i4, e1

(* One global transaction with a branch of its owner and one of a server.  *)
OneGlobal == x1 :> g1 @@ x2 :> g1
(* Two global transactions with one branch each.                           *)
TwoGlobals == x1 :> g1 @@ x2 :> g2
(* Every branch has an owner of its own.                                   *)
OwnOwner == x1 :> p1 @@ x2 :> p2
(* The same for a single branch.                                           *)
OnlyBranch == x1 :> g1
OnlyOwner == x1 :> p1
(* One proxy for each resource, or two for each; one or two for r1 alone.  *)
OnlyProxy == i1 :> r1
BothR1 == i1 :> r1 @@ i3 :> r1
OneProxy == i1 :> r1 @@ i2 :> r2
TwoProxies == i1 :> r1 @@ i2 :> r1 @@ i3 :> r2 @@ i4 :> r2

=============================================================================
