-------------------------- MODULE MCServiceManager --------------------------
(* Instances of ServiceManager for TLC. *)
EXTENDS ServiceManager

CONSTANTS a, b, d, e, i1, i2, r1, c1, c2, c3

MCPlain == [s \in Service |-> s]
(* The service b has the routes b and d. *)
MCRoutes == [s \in Service |-> IF s = d THEN b ELSE s]
MCNone == [i \in Server |-> {}]
MCNoRemote == [r \in Remote |-> {}]
MCOffersBoth == [i \in Server |-> {a, b}]
MCOffersEach == [i \in Server |-> IF i = i1 THEN {a} ELSE {b, d}]
MCRemoteA == [r \in Remote |-> {a}]
MCPathA == [c \in Call |-> <<a>>]
(* c1 is handed on from the server of a to that of d. *)
MCPathsCross == [c \in Call |-> CASE c = c1 -> <<a, d>> [] c = c2 -> <<d>>
                                  [] c = c3 -> <<a>>]
MCMixed == [c \in Call |-> IF c = c1 THEN "regular" ELSE "forward"]
(* c1 and c3 come in through a gateway, c2 expects no reply. *)
MCInbound == [c \in Call |-> IF c = c2 THEN "forward" ELSE "no_busy"]
MCExtra == [i \in Server |-> IF i = i1 THEN {e} ELSE {}]
MCSingles == {{i} : i \in Server}
=============================================================================
