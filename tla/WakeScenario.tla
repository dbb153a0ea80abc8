---------------------------- MODULE WakeScenario ----------------------------
(***************************************************************************)
(* The events and policies of the instances of WakeRelay: a scope that is  *)
(* open to unknown senders, as the client declares it for introductions,   *)
(* and one the device has not declared.                                    *)
(***************************************************************************)
EXTENDS TLC

CONSTANTS s1, s2, friend, stranger, e1, e2, u1, v1, g1

MCScopeOf == e1 :> s1 @@ e2 :> s1 @@ u1 :> s1 @@ v1 :> s2 @@ g1 :> s1
MCSenderOf == e1 :> friend @@ e2 :> friend @@ u1 :> stranger @@ v1 :> stranger @@ g1 :> friend
MCUntil == g1 :> 1

OpenScope == [enabled |-> TRUE, senders |-> {friend}, open |-> TRUE, once |-> TRUE]

MCPolicies == {
    [rev |-> 1, blocked |-> {}, introductions |-> TRUE, scopes |-> s1 :> OpenScope],
    [rev |-> 2, blocked |-> {stranger}, introductions |-> FALSE,
     scopes |-> s1 :> [OpenScope EXCEPT !.open = FALSE, !.once = FALSE]],
    [rev |-> 2, blocked |-> {}, introductions |-> TRUE, scopes |-> <<>>]}
=============================================================================
