---------------------------- MODULE MCClientSync ----------------------------
(***************************************************************************)
(* An instance of ClientSync for TLC with liveness: one trouble with two   *)
(* objects, or two troubles with the object of this device alone, and a    *)
(* third one once the ciphertext of a deleted message is back.             *)
(***************************************************************************)
EXTENDS ClientSync

CONSTANTS x, y

VARIABLE alone

MCInit == Init /\ alone \in BOOLEAN

MCNext ==
    /\ Next
    /\ IF alone THEN /\ y \notin Range(srv'.rows)
                     /\ troubles' = 3 => removed \cap cached # {}
       ELSE troubles' =< 1
    /\ UNCHANGED alone

MCSpec == MCInit /\ [][MCNext]_<<vars, alone>> /\ Fairness
=============================================================================
