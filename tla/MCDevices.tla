------------------------------ MODULE MCDevices ------------------------------
(***************************************************************************)
(* What devices do with a host, for TLC: a behaviour follows MCClientSync  *)
(* with the Space service at rest, or one of the plans of MCSpaceService   *)
(* with the inbox at rest.  The two share no state.  Fairness is that of   *)
(* the inbox, so the liveness properties speak of the first kind.          *)
(***************************************************************************)
EXTENDS MCClientSync, MCSpaceService

DevicesInit ==
    /\ MCInit
    /\ SpaceInit /\ spacePlan \in SpacePlans \cup {"rest"}
    /\ IF spacePlan = "rest" THEN ~offers[door].asks ELSE alone

DevicesNext ==
    \/ spacePlan = "rest" /\ MCNext /\ UNCHANGED <<spaceVars, spacePlan>>
    \/ spacePlan # "rest" /\ MCSpaceNext /\ UNCHANGED <<vars, alone>>

DevicesSpec ==
    DevicesInit /\ [][DevicesNext]_<<vars, alone, spaceVars, spacePlan>> /\ Fairness
=============================================================================
