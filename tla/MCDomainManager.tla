-------------------------- MODULE MCDomainManager --------------------------
(***************************************************************************)
(* Instances of DomainManager for TLC: a server that boots before the      *)
(* service manager, the service manager, a server of several instances,    *)
(* one that cannot be spawned and an executable that depends on both.      *)
(***************************************************************************)
EXTENDS DomainManager, TLC

CONSTANTS core, master, g1, g2, g3, discovery, sm, s1, s2, x1

(* g2 depends on g1 and is listed before it. *)
MCListing == <<g2, g1>>
MCDependencies == g1 :> {} @@ g2 :> {g1}
MCMemberOf == discovery :> {core} @@ sm :> {master} @@ s1 :> {g1} @@ s2 :> {g1, g2} @@ x1 :> {g2}
MCConfigured == discovery :> 1 @@ sm :> 1 @@ s1 :> 3 @@ s2 :> 1 @@ x1 :> 2
MCRestarting == {{}, {s1, x1}}
MCScaling == {<<s1, 1>>, <<sm, 2>>}
MCRestart == {<<{s2, x1}, {s1}>>}

(* g3 depends on g2, g2 on g1, and they are listed g3, g1, g2.            *)
MCUnordered == <<g3, g1, g2>>
MCChain == g3 :> {g2} @@ g1 :> {} @@ g2 :> {g1}
MCMemberOfChain == discovery :> {core} @@ sm :> {master} @@ s1 :> {g1} @@ s2 :> {g2} @@ x1 :> {g3}
MCOne == [alias \in {discovery, sm, s1, s2, x1} |-> 1]
=============================================================================
