-------------------------- MODULE MCWitnessJournal --------------------------
(***************************************************************************)
(* Instances of WitnessJournal for TLC, in two plans: crashes, restores,   *)
(* stale activations and retries with a nonce that is reused, and steps of *)
(* the clock within and between two processes.  Commands c1 and c4         *)
(* register the Spaces s1 and s2, c2 and c3 move the head of s1, and c2    *)
(* reuses the nonce of c1.                                                 *)
(***************************************************************************)
EXTENDS WitnessJournal

CONSTANTS s1, s2, c1, c2, c3, c4, Plans

VARIABLE plan

Body(nonce, space, issued, expires, authority) ==
    [signer |-> "owner", nonce |-> nonce, space |-> space, issued |-> issued,
     expires |-> expires, authority |-> authority]

Bodies == [c \in Commands |->
             CASE c = c1 -> Body(1, s1, 0, 1, TRUE)
               [] c = c2 -> Body(1, s1, 0, 9, TRUE)
               [] c = c3 -> Body(3, s1, 0, 9, TRUE)
               [] c = c4 -> Body(4, s2, 0, 9, TRUE)]

Restoring == INSTANCE WitnessJournal WITH
    Commands <- {c1, c2, c4}, Skew <- 0, MaxEvents <- 3, MaxTime <- 2, MaxElapsed <- 1

Clocks == INSTANCE WitnessJournal WITH
    Commands <- {c2, c3}, Skew <- 1, MaxEvents <- 2, MaxTime <- 3, MaxElapsed <- 1

MCInit == Init /\ plan \in Plans

MCNext ==
    /\ CASE plan = "restoring" -> Restoring!Next
         [] plan = "clocks" -> Clocks!Next /\ Len(journal') >= Len(journal)
    /\ UNCHANGED plan

MCSpec == MCInit /\ [][MCNext]_<<vars, plan>>
=============================================================================
