------------------------------ MODULE MCRelays ------------------------------
(***************************************************************************)
(* The two stores between devices, for TLC: a behaviour follows one of the *)
(* plans of MCReplica with the wake relay at rest, or one of the plans of  *)
(* MCWakeRelay with the mailboxes at rest.  The two share no state.        *)
(***************************************************************************)
EXTENDS MCReplica, MCWakeRelay

RelaysInit ==
    /\ Init /\ plan \in Plans \cup {"rest"}
    /\ WakeInit /\ wakePlan \in WakePlans \cup {"rest"}
    /\ (plan = "rest") # (wakePlan = "rest")

RelaysNext ==
    \/ plan # "rest" /\ MCNext /\ UNCHANGED <<wakeVars, wakePlan>>
    \/ wakePlan # "rest" /\ MCWakeNext /\ UNCHANGED <<vars, plan>>

RelaysSpec == RelaysInit /\ [][RelaysNext]_<<vars, plan, wakeVars, wakePlan>>
=============================================================================
