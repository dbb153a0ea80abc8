------------------------------ MODULE MCWitness ------------------------------
(***************************************************************************)
(* Instances of Witness for TLC, in four plans: one Space whose co-owner   *)
(* is promoted and demoted, loses devices and is invited again, with       *)
(* linked devices and with devices of others; one with                     *)
(* two invitations, a durable request and time; three Spaces that share    *)
(* one journal and its budget.                                             *)
(*                                                                         *)
(* Alice founds every Space with device a1.  Bob has b1, b4 and b2, where  *)
(* b2 was linked by b1, and b3 wraps the key of b1 in another credential.  *)
(* Carol has c1.                                                           *)
(***************************************************************************)
EXTENDS Witness

CONSTANTS s1, s2, s3, alice, bob, carol, a1, b1, b2, b3, b4, c1, p1, p2, r1, Plans

VARIABLE plan

AllIdentityOf == [c \in {a1, b1, b2, b3, b4, c1} |->
                    IF c = a1 THEN alice ELSE IF c = c1 THEN carol ELSE bob]
IdentityOfCreds == [c \in Creds |-> AllIdentityOf[c]]
KeyOfCreds == [c \in Creds |-> IF c = b3 THEN b1 ELSE c]
AuthorizerOfCreds == [c \in Creds |-> IF c = b2 THEN b1 ELSE NoOne]

BothCapSets == {OwnerCaps, ReaderCaps}

Invitation(until, requireApproval, maxUses) ==
    [from |-> 0, until |-> until, requireApproval |-> requireApproval,
     maxUses |-> maxUses]

\* p1 admits once and to anyone, p2 twice and with approval.
PolicyBodies == [p \in PolicyIds |->
                   IF p = p1 THEN Invitation(9, FALSE, 1) ELSE Invitation(2, TRUE, 2)]

\* A durable request of b2 under p2 (admission run).
RequestBodies == [r \in RequestIds |->
                    [policy |-> p2, cred |-> b2, from |-> 0, until |-> 2]]

AdmissionRosters == {{a1}, {a1, b1}}
MembershipRosters == {{a1}, {a1, b1}, {a1, b1, b2}}

Linked == INSTANCE Witness WITH
    Creds <- {a1, b1, b2, b4}, PolicyIds <- {p1}, RequestIds <- {},
    NormalEvents <- 7, ReservedEvents <- 7, MaxTime <- 0

Others == INSTANCE Witness WITH
    Creds <- {a1, b1, b3, c1}, Rosters <- AdmissionRosters, PolicyIds <- {p1}, RequestIds <- {},
    NormalEvents <- 7, ReservedEvents <- 7, MaxTime <- 0

Admission == INSTANCE Witness WITH
    Creds <- {a1, b1, b2}, Rosters <- AdmissionRosters, MaxPolicies <- 2, MaxOpen <- 2,
    NormalEvents <- 6, ReservedEvents <- 6, JournalEvents <- 6

Capacity == INSTANCE Witness WITH
    Creds <- {a1, b1}, Rosters <- AdmissionRosters, RequestIds <- {}

\* What a plan is about.
OnlyFirst == \A s \in Spaces : db'[s].policies[p2] = NewRow

OneSpace == \A s \in Spaces \ {s1} : db'[s] = EmptyTables

MCInit == Init /\ plan \in Plans

MCNext ==
    /\ CASE plan = "linked" -> Linked!Next /\ OneSpace /\ position' =< 6
         [] plan = "others" -> Others!Next /\ OneSpace
         [] plan = "admission" -> Admission!Next /\ OneSpace
         [] plan = "capacity" -> Capacity!Next /\ OnlyFirst
    /\ UNCHANGED plan

MCSpec == MCInit /\ [][MCNext]_<<vars, plan>>
=============================================================================
