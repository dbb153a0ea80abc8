------------------------------ MODULE MCReplica ------------------------------
(***************************************************************************)
(* Instances of Replica for TLC.  A behaviour follows one of three plans:  *)
(* the life of one message and its requests, a tree of mailboxes with      *)
(* cleanup and erasure, or the access nonces.                              *)
(***************************************************************************)
EXTENDS Replica

CONSTANTS Plans, root, child, leaf, loc, body, msg, ctl, ann, bob, a1, a2, TreeTime, BodyLife

VARIABLE plan

KindOf == [o \in Objects |-> CASE o = loc -> "locator" [] o = body -> "body"
                               [] OTHER -> "plain"]
BodyOfLocator == [o \in {loc} |-> body]
SubjectsOf == [o \in Objects |-> IF o \in {loc, body} THEN {ann}
                                 ELSE IF o = msg THEN {bob} ELSE {}]
PeerOf == [o \in Objects |-> IF o = body THEN bob ELSE None]
LifetimeOf == [o \in Objects |-> BodyLife]
QuotaOf == [m \in Roots \cup Children |-> IF m = root THEN 6 ELSE IF m = child THEN 2 ELSE 1]
Issued == [a \in Accesses |-> IF a = a1 THEN 1 ELSE 2]

MCInit == Init /\ plan \in Plans

Messages ==
    /\ plan = "messages"
    /\ \/ Tick
       \/ ReserveMailbox(root)
       \/ \E S \in {{ann}, {ann, bob}} : SetSpaceMembers(root, S)
       \/ Revoke(bob)
       \/ \E o \in {loc, body}, i \in {ann, bob} : root \in db.boxes /\ Post(root, o, i, TRUE)
       \/ Maintain
       \/ root \in db.boxes /\ Inventory(root)
       \/ \E t \in now + 1 .. now + ProofLife : root \in db.boxes /\ RequestMessage(root, body, bob, t)
       \/ root \in db.boxes /\ RequestMessage(root, body, ann, now + ProofLife)
       \/ \E t \in now + 1 .. now + ProofLife : root \in db.boxes /\ AcceptMessage(root, body, bob, t)

Mailboxes ==
    /\ plan = "tree"
    /\ \/ now < TreeTime /\ Tick
       \/ ReserveMailbox(root) \/ DeleteMailboxTree(root)
       \/ \E t \in 1 .. TreeTime : CreateChild(root, child, t)
       \/ \E p \in db.boxes \ {leaf}, t \in 1 .. TreeTime : CreateChild(p, leaf, t)
       \/ RequireContentOwnership
       \/ \E m \in db.boxes, message \in BOOLEAN : Post(m, msg, ann, message)
       \/ \E m \in db.boxes, i \in {bob, None} : Post(m, ctl, i, FALSE)
       \/ \E t \in 1 .. TreeTime : PruneMessages(root, t)
       \/ EraseAccountContent(root, bob)

AccessNonces == plan = "access" /\ (Tick \/ \E a \in Accesses : ConsumeAccess(a))

MCNext == (Messages \/ Mailboxes \/ AccessNonces) /\ UNCHANGED plan

MCSpec == MCInit /\ [][MCNext]_<<vars, plan>>
=============================================================================
