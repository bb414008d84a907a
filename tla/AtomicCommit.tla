----------------------------- MODULE AtomicCommit -----------------------------
(***************************************************************************)
(* What a transaction manager promises to the resources: the parts of one  *)
(* global transaction (a family) are committed all or not at all.  A part  *)
(* may commit without a vote when it is the only one that did any work;    *)
(* a read only part leaves the family when it votes.                       *)
(***************************************************************************)
CONSTANTS
  Part,       \* a resource in a branch
  FamilyOf    \* [Part -> families]: the global transaction of a part

VARIABLE rm   \* what each resource manager has done with a part

State == {"idle", "active", "prepared", "readonly", "committed", "rolledback"}

Family(p) == {q \in Part : FamilyOf[q] = FamilyOf[p]}

Init == rm = [p \in Part |-> "idle"]

Become(p, state) == rm' = [rm EXCEPT ![p] = state]

(* Work in some parts of one family, before any of it is committed. *)
Work(S) ==
  /\ \A p \in S : rm[p] = "idle" /\ S \subseteq Family(p)
  /\ \A p \in S : \A q \in Family(p) : rm[q] # "committed"
  /\ rm' = [p \in Part |-> IF p \in S THEN "active" ELSE rm[p]]

Prepare(p) == rm[p] = "active" /\ Become(p, "prepared")
ReadOnly(p) == rm[p] = "active" /\ Become(p, "readonly")

(* Nothing in the family can be undone any more, or had to be. *)
MayCommit(p) ==
  \/ /\ rm[p] = "prepared"
     /\ \A q \in Family(p) : rm[q] \in {"idle", "readonly", "prepared", "committed"}
  \/ /\ rm[p] = "active"
     /\ \A q \in Family(p) \ {p} : rm[q] = "idle"

Commit(p) == MayCommit(p) /\ Become(p, "committed")

Abort(p) ==
  /\ rm[p] \in {"active", "prepared"}
  /\ \A q \in Family(p) : rm[q] # "committed"
  /\ Become(p, "rolledback")

Next ==
  \/ \E S \in SUBSET Part : Work(S)
  \/ \E p \in Part : Prepare(p) \/ ReadOnly(p) \/ Commit(p) \/ Abort(p)

Spec == Init /\ [][Next]_rm
===============================================================================
