--------------------------- MODULE MCCallService ---------------------------
(***************************************************************************)
(* The call service for TLC: a behaviour is one of the registry of calls   *)
(* with the engine at rest, or one of the engine with the registry at      *)
(* rest.  The registry's `head` stands for the engine's fences, which it   *)
(* takes to move forward; that they do is a property of the engine.        *)
(* Fairness is that of the registry, so liveness is about its behaviours.  *)
(***************************************************************************)
EXTENDS MCCallRegistry, MCCallEngine

VARIABLE part

serviceVars == <<callVars, vars, part>>

ServiceInit == CallsInit /\ Init /\ part \in {"registry", "engine"}

ServiceNext ==
    \/ part = "registry" /\ CallsNext /\ UNCHANGED <<vars, part>>
    \/ part = "engine" /\ Next /\ UNCHANGED <<callVars, part>>

ServiceSpec == ServiceInit /\ [][ServiceNext]_serviceVars /\ CallsFairness
=============================================================================
