------------------------------- MODULE XACode -------------------------------
(***************************************************************************)
(* The return codes of the XA and TX interfaces as the transaction manager *)
(* ranks and converts them:                                                *)
(*   - transaction/manager/state.h, code::priority::xa: the ranking;       *)
(*   - handle.cpp, accumulate::code: the outcome of several replies;       *)
(*   - common/code/convert.cpp, to::tx: what the application sees.         *)
(* A code is the name of its enumerator.                                   *)
(***************************************************************************)
EXTENDS Naturals

(* Lower is more severe: the values of the enumeration code::priority::xa. *)
Severity ==
  [ heuristic_hazard       |->  0,
    heuristic_mix          |->  1,
    heuristic_commit       |->  2,
    heuristic_rollback     |->  3,
    resource_fail          |->  4,
    resource_error         |->  5,
    rollback_integrity     |->  6,
    rollback_communication |->  7,
    rollback_unspecified   |->  8,
    rollback_other         |->  9,
    rollback_deadlock      |-> 10,
    protocol               |-> 11,
    rollback_protocoll     |-> 12,
    rollback_timeout       |-> 13,
    rollback_transient     |-> 14,
    argument               |-> 15,
    no_migrate             |-> 16,
    outside                |-> 17,
    outstanding_async      |-> 18,
    retry                  |-> 19,
    duplicate_xid          |-> 20,
    invalid_xid            |-> 21,
    ok                     |-> 22,
    read_only              |-> 23 ]

Code == DOMAIN Severity

(* Mutant: one resource that is ok makes the outcome ok. *)
WorstAnyOk(codes) ==
  IF "ok" \in codes THEN "ok"
  ELSE CHOOSE c \in codes : \A d \in codes : Severity[c] <= Severity[d]

(* accumulate::code without failed fan-outs: the most severe of the codes. *)
Worst(codes) ==
  CHOOSE c \in codes : \A d \in codes : Severity[c] <= Severity[d]

TxCode == {"ok", "hazard", "mixed", "no_begin", "protocol", "outside", "fail"}

(* convert::to::tx. *)
ToTx(code) ==
  CASE code \in {"ok", "read_only", "retry"} -> "ok"
    [] code \in {"rollback_unspecified", "rollback_communication",
                 "rollback_deadlock", "rollback_integrity", "rollback_other",
                 "rollback_protocoll", "rollback_timeout",
                 "rollback_transient", "no_migrate", "heuristic_hazard"}
         -> "hazard"
    [] code \in {"heuristic_commit", "heuristic_rollback", "heuristic_mix"}
         -> "mixed"
    [] code \in {"outstanding_async", "resource_error", "invalid_xid"}
         -> "no_begin"
    [] code \in {"argument", "protocol"} -> "protocol"
    [] code \in {"resource_fail", "duplicate_xid", "outside"} -> "outside"
    [] OTHER -> "fail"

(* create::reply: a resource that does not know the transaction has nothing *)
(* left to do, which the manager reports as read_only.                      *)
Normalised(code) == IF code = "invalid_xid" THEN "read_only" ELSE code
=============================================================================
