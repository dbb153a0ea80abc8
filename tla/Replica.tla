------------------------------- MODULE Replica -------------------------------
(***************************************************************************)
(* The Replica, the store-and-forward server of encrypted objects:         *)
(* crates/elo-core/src/replica.rs, replica/retention.rs, replica/          *)
(* erasure.rs, and the message proofs of retention_access.rs.              *)
(*                                                                         *)
(* A root mailbox belongs to a Space; delegated child mailboxes share its  *)
(* quota.  A message is two objects: a locator, kept for 30 days, and a    *)
(* body with a lifetime of its own.  A missing body comes back only for a  *)
(* signed request.  Every operation runs under the one database lock, so   *)
(* it is one action; `sweep` and `valid_window` commit even when the       *)
(* operation then fails.                                                   *)
(*                                                                         *)
(* The tables are the fields of db.  Keys of message tables are a root and *)
(* an object.  An identity has one credential.  Callers hold the mailbox   *)
(* tokens.  A proof is named by its deadline, which stands for its nonce.  *)
(* Arrival numbers are in ClientSync.                                      *)
(***************************************************************************)
EXTENDS Integers, FiniteSets, FiniteSetsExt

CONSTANTS
    Roots, Children,   \* mailbox ids
    Objects,
    Kind,              \* [Objects -> {"locator", "body", "plain"}]
    BodyOf,            \* the body a locator names
    Subjects,          \* [Objects -> SUBSET Identities]: the signed owners
    Identities,
    Peer,              \* the other identity of a one-to-one conversation, or None
    Lifetime,          \* [Objects -> Nat]: Never for no expiry
    None,
    Quota,             \* [Roots \cup Children -> Nat]
    Meta,              \* METADATA_BYTES; an object has size one
    Never,
    LocatorLife,       \* 30 days
    RequestLife,       \* 5 minutes
    ProofLife,         \* 5 minutes, and 2 of tolerance
    AcceptLife,        \* 24 hours
    Accesses,          \* signed HTTP requests, each with a nonce
    IssuedAt,          \* [Accesses -> Nat]
    AccessLife,        \* REQUEST_WINDOW
    MaxNonces,         \* 4096 nonces of a credential
    MaxChildren,       \* MAX_CHILD_MAILBOXES
    MaxTime            \* model bound on the clock

ASSUME ReplicaAssumption ==
    /\ Roots \cap Children = {}
    /\ None \notin Identities
    /\ Kind \in [Objects -> {"locator", "body", "plain"}]
    /\ Subjects \in [Objects -> SUBSET Identities]
    /\ Lifetime \in [Objects -> Nat]
    /\ Quota \in [Roots \cup Children -> Nat]
    /\ IssuedAt \in [Accesses -> Nat]
    /\ {Meta, Never, LocatorLife, RequestLife, ProofLife, AcceptLife, AccessLife,
        MaxNonces, MaxChildren, MaxTime} \subseteq Nat
    /\ Never > MaxTime + LocatorLife + ProofLife
    /\ LocatorLife > 0 /\ ProofLife =< AcceptLife

VARIABLES
    now,
    db,        \* the tables
    nonces,    \* access_nonces, by access
    opened,    \* history variable: the end of the last window ever open for a body
    drops,     \* history variable: how often an acceptance removed a body
    consumed   \* history variable: how often an access was let through

vars == <<now, db, nonces, opened, drops, consumed>>

-----------------------------------------------------------------------------
(* The tree of mailboxes.                                                   *)

Put(f, k, v) == [x \in DOMAIN f \cup {k} |-> IF x = k THEN v ELSE f[x]]

Keep(f, S) == [x \in DOMAIN f \cap S |-> f[x]]

Drop(f, S) == [x \in DOMAIN f \ S |-> f[x]]

Empty == [x \in {} |-> x]

Parents(d, S) == {d.deleg[m].parent : m \in S \cap DOMAIN d.deleg}

\* `ancestors`, the mailbox included.  `create_child` allows two levels below a
\* root and refuses a deeper parent, so that three steps reach the root.
Ancestors(d, m) ==
    IF m \notin DOMAIN d.deleg THEN {m}
    ELSE LET up == Parents(d, {m})
             top == Parents(d, up)
         IN {m} \cup up \cup top \cup Parents(d, top)

\* `retention::root`.
Root(d, m) == CHOOSE r \in Ancestors(d, m) : r \notin DOMAIN d.deleg

Tree(d, m) == {c \in d.boxes : m \in Ancestors(d, c)}

\* Rows that go with the deliveries they refer to (ON DELETE CASCADE, and
\* DELETE FROM objects without a delivery).
Cascade(d) ==
    [d EXCEPT !.copies = Keep(@, d.dels),
              !.owners = {w \in @ : \E x \in d.dels : x[2] = w[1]}]

\* The byte budget of a mailbox: every delivery of its tree, and the rows of the
\* message tables when it is a root (`metadata_usage`).
Used(d, m) ==
    Cardinality({x \in d.dels : m \in Ancestors(d, x[1])})
    + Meta * (Cardinality({k \in DOMAIN d.bodies : k[1] = m})
              + Cardinality({k \in DOMAIN d.locators : k[1] = m})
              + Cardinality({k \in DOMAIN d.requests : k[1] = m})
              + Cardinality({k \in DOMAIN d.accepts : k[1] = m}))

-----------------------------------------------------------------------------
(* The lifetime of messages.                                                *)

\* `remove_body`.
RemoveBody(d, k) ==
    Cascade([d EXCEPT
        !.dels = {x \in @ : <<Root(d, x[1]), x[2]>> # k},
        !.bodies[k] = [@ EXCEPT !.expired = TRUE, !.refill = Never]])

\* `sweep`: bodies at their deadline, then locators, with the rows of their
\* bodies and what refers to those, then requests and acceptances.
Sweep(d, t) ==
    LET dead == {k \in DOMAIN d.bodies : ~d.bodies[k].expired
                   /\ (d.bodies[k].expires =< t \/ d.bodies[k].refill =< t)}
        gone == {k \in DOMAIN d.locators : d.locators[k] =< t}
        lost == {<<k[1], BodyOf[k[2]]>> : k \in gone}
    IN Cascade([d EXCEPT
        !.dels = {x \in @ : <<Root(d, x[1]), x[2]>> \notin dead \cup gone},
        !.bodies = [k \in DOMAIN @ \ lost |->
                      IF k \in dead THEN [@[k] EXCEPT !.expired = TRUE, !.refill = Never]
                      ELSE @[k]],
        !.locators = Drop(@, gone),
        !.requests = Keep(@, {q \in DOMAIN @ : @[q].proof > t /\ <<q[1], q[2]>> \notin lost}),
        !.accepts = Keep(@, {q \in DOMAIN @ : @[q].until > t /\ <<q[1], q[2]>> \notin lost})])

\* `authorize`: the delegation of the mailbox itself has not expired.
Authorized(d, m) == m \in d.boxes /\ (m \in DOMAIN d.deleg => d.deleg[m].expires > now)

\* `authorize_identity`, as the transport asks it before every operation.
Admitted(d, m, i) ==
    \A r \in Ancestors(d, m) \cap DOMAIN d.members : i \in d.members[r]

\* `authorize_actor`.
AuthorizeActor(d, m, i) ==
    /\ i \notin d.revoked /\ i \notin d.erased
    /\ m \in d.boxes
    /\ Admitted(d, m, i)
    /\ \A a \in Ancestors(d, m) \cap DOMAIN d.deleg : d.deleg[a].expires > now

\* Requests for a body that are open, whoever made them.
Open(d, k) == {q \in DOMAIN d.requests : <<q[1], q[2]>> = k /\ d.requests[q].until > now}

Unauthorized(d, m, k) == {q \in Open(d, k) : ~AuthorizeActor(d, m, q[3])}

\* Fault: requests are not looked at again.
NotRechecked(d, m, k) == d

\* `valid_window`: deletes the requests of those who are no longer admitted; the
\* window is open if one is left.
ValidWindow(d, m, k) == [d EXCEPT !.requests = Drop(@, Unauthorized(d, m, k))]

Issuer(o) == CHOOSE i \in Subjects[o] : TRUE

\* `check_upload` on the swept tables, after `valid_window`.
CheckUpload(d, m, o, actor) ==
    LET k == <<Root(d, m), o>>
    IN CASE Kind[o] = "locator" -> actor = Issuer(o)
         [] Kind[o] = "body" ->
              /\ actor # None
              /\ IF k \in DOMAIN d.bodies
                 THEN d.bodies[k].expired => Open(d, k) # {}
                 ELSE /\ actor = Issuer(o)
                      /\ \E l \in DOMAIN d.locators :
                           l[1] = k[1] /\ BodyOf[l[2]] = o /\ Lifetime[l[2]] = Lifetime[o]
         [] OTHER -> TRUE

Deadline(t, life) == IF life = Never THEN Never ELSE t + life

\* Fault: a refill lives as long as the original did.
RecordFresh(d, m, o, message) ==
    LET k == <<Root(d, m), o>>
    IN CASE Kind[o] = "locator" -> [d EXCEPT !.locators = Put(@, k, now + LocatorLife)]
         [] Kind[o] = "body" ->
              [d EXCEPT !.bodies = Put(@, k, [expires |-> Deadline(now, Lifetime[o]),
                                              expired |-> FALSE,
                                              refill |-> Deadline(now, Lifetime[o])])]
         [] OTHER -> d

\* `record_upload`.
RecordUpload(d, m, o, message) ==
    LET k == <<Root(d, m), o>>
        window == Max({0} \cup {d.requests[q].until : q \in Open(d, k)})
    IN CASE Kind[o] = "locator" ->
              [d EXCEPT !.locators =
                 IF k \in DOMAIN @ THEN @
                 ELSE Put(@, k, IF Lifetime[o] = Never THEN Never ELSE now + LocatorLife)]
         [] Kind[o] = "body" ->
              [d EXCEPT !.bodies =
                 IF k \notin DOMAIN @
                 THEN Put(@, k, [expires |-> Deadline(now, Lifetime[o]), expired |-> FALSE,
                                 refill |-> Never])
                 ELSE IF ~@[k].expired THEN @
                 ELSE [@ EXCEPT ![k] = [expires |-> IF Lifetime[o] = Never THEN Never ELSE window,
                                        expired |-> FALSE, refill |-> window]]]
         [] Kind[o] = "plain" /\ message -> [d EXCEPT !.copies = Put(@, <<m, o>>, now)]
         [] OTHER -> d

\* UNIQUE (root_mailbox_id, body_object_id): a root has one locator of a body, and the
\* upload of another one is rolled back.
SoleLocator(d, m, o) ==
    Kind[o] = "locator" =>
        \A l \in DOMAIN d.locators :
            l[1] = Root(d, m) /\ BodyOf[l[2]] = BodyOf[o] => l[2] = o

\* `metadata_delta`.
MetadataDelta(d, m, o) ==
    LET k == <<Root(d, m), o>>
    IN IF \/ Kind[o] = "locator" /\ k \notin DOMAIN d.locators
          \/ Kind[o] = "body" /\ k \notin DOMAIN d.bodies
       THEN Meta ELSE 0

\* Fault: only the mailbox of the upload is asked for tombstones.
PrunedHere(d, m, o) == <<m, o>> \in d.pruned

\* `check_pruned`.
Pruned(d, m, o) == \E r \in Ancestors(d, m) : <<r, o>> \in d.pruned

\* The quotas of all ancestors; the message row counts against the root.
Room(d, m, o) ==
    \A a \in Ancestors(d, m) :
        1 + (IF a = Root(d, m) THEN MetadataDelta(d, m, o) ELSE 0) =< Quota[a] - Used(d, a)

\* `ensure_metadata_room`.
MetadataRoom(d, r, delta) == delta > 0 => delta =< Quota[r] - Used(d, r)

\* The owners of an upload: those it was signed for, or in a temporary mailbox
\* the caller when the host requires an owner.
Owners(d, m, o, actor) ==
    IF Subjects[o] # {} THEN Subjects[o]
    ELSE IF d.required /\ m \in DOMAIN d.deleg /\ actor # None THEN {actor} ELSE {}

\* `require_content_ownership` refuses what nobody owns.
Attributable(d, m, o, actor) == d.required => Owners(d, m, o, actor) # {}

\* Nothing is stored for an account that was erased, whoever uploads it.
NoErasedOwner(d, owners) == owners \cap d.erased = {}

-----------------------------------------------------------------------------
(* Operations.                                                              *)

history == <<nonces, opened, drops, consumed>>

Init ==
    /\ now = 0
    /\ db = [boxes |-> {}, deleg |-> Empty, dels |-> {}, copies |-> Empty, owners |-> {},
             bodies |-> Empty, locators |-> Empty, requests |-> Empty, accepts |-> Empty,
             pruned |-> {}, members |-> Empty, erased |-> {}, revoked |-> {},
             required |-> FALSE, coverage |-> TRUE]
    /\ nonces = Empty
    /\ opened = Empty
    /\ drops = Empty
    /\ consumed = [x \in Accesses |-> 0]

Tick == now < MaxTime /\ now' = now + 1 /\ UNCHANGED <<db, history>>

\* `reserve_mailbox`: again with the same capabilities is no change.
ReserveMailbox(r) ==
    /\ r \notin db.boxes
    /\ db' = [db EXCEPT !.boxes = @ \cup {r}]
    /\ UNCHANGED <<now, history>>

RemoveBoxes(d, S) ==
    Cascade([d EXCEPT
        !.dels = {x \in @ : x[1] \notin S},
        !.deleg = Drop(@, S),
        !.boxes = @ \ S,
        !.members = Drop(@, S),
        !.pruned = {p \in @ : p[1] \notin S},
        !.bodies = Keep(@, {k \in DOMAIN @ : k[1] \notin S}),
        !.locators = Keep(@, {k \in DOMAIN @ : k[1] \notin S}),
        !.requests = Keep(@, {k \in DOMAIN @ : k[1] \notin S}),
        !.accepts = Keep(@, {k \in DOMAIN @ : k[1] \notin S})])

\* `create_child`: first everything below an expired delegation goes; when the
\* child is refused after that, the transaction is rolled back.
CreateChild(p, c, until) ==
    LET expired == {m \in db.boxes : \E a \in Ancestors(db, m) \cap DOMAIN db.deleg :
                                        db.deleg[a].expires =< now}
        d == IF expired = {} THEN db ELSE RemoveBoxes(db, expired)
    IN /\ Authorized(db, p) /\ until > now
       /\ Cardinality(Ancestors(d, p)) =< 2
       /\ c \notin d.boxes
       /\ \A a \in Ancestors(d, p) :
            /\ a \in d.boxes /\ Quota[c] =< Quota[a]
            /\ a \in DOMAIN d.deleg => until =< d.deleg[a].expires
            /\ Cardinality(Tree(d, a)) - 1 < MaxChildren
       /\ db' = [d EXCEPT !.boxes = @ \cup {c},
                          !.deleg = Put(@, c, [parent |-> p, expires |-> until])]
       /\ UNCHANGED <<now, history>>

\* `delete_mailbox_tree`.
DeleteMailboxTree(r) ==
    /\ r \in db.boxes
    /\ db' = RemoveBoxes(db, Tree(db, r))
    \* A Space created under the same id starts a history of its own.
    /\ drops' = Keep(drops, {g \in DOMAIN drops : g[1][1] # r})
    /\ UNCHANGED <<now, nonces, opened, consumed>>

\* `set_space_members`; requests and acceptances of others go.
SetSpaceMembers(r, S) ==
    LET members == S \ db.erased
        others == {q \in DOMAIN db.requests \cup DOMAIN db.accepts :
                     q[1] = r /\ q[3] \notin members}
    IN /\ r \in db.boxes
       /\ db' = [db EXCEPT !.members = Put(@, r, members),
                           !.requests = Drop(@, others),
                           !.accepts = Drop(@, others)]
       \* The history starts again for whoever comes back.
       /\ drops' = Keep(drops, {g \in DOMAIN drops : g[1][1] = r => g[2] \in members})
       /\ UNCHANGED <<now, nonces, opened, consumed>>

Revoke(i) ==
    /\ i \notin db.revoked
    /\ db' = [db EXCEPT !.revoked = @ \cup {i}]
    /\ UNCHANGED <<now, history>>

RequireContentOwnership ==
    /\ ~db.required
    /\ db' = [db EXCEPT !.required = TRUE]
    /\ UNCHANGED <<now, history>>

\* `post_inner`: the refusals after `sweep` leave the swept tables behind.  The
\* caller labels the copy as a message or not.
Post(m, o, actor, message) ==
    LET swept == Sweep(db, now)
        k == <<Root(db, m), o>>
        d == IF Kind[o] = "body" /\ actor # None /\ k \in DOMAIN swept.bodies
                  /\ swept.bodies[k].expired /\ ~Pruned(swept, m, o)
             THEN ValidWindow(swept, m, k) ELSE swept
        owners == Owners(d, m, o, actor)
        stored == RecordUpload([d EXCEPT
                     !.dels = @ \cup {<<m, o>>},
                     !.owners = @ \cup {<<o, i>> : i \in owners},
                     !.coverage = @ /\ ~(message /\ owners = {})], m, o, message)
    IN /\ Authorized(db, m)
       /\ IF actor = None THEN Ancestors(db, m) \cap DOMAIN db.members = {}
          ELSE AuthorizeActor(db, m, actor)
       /\ db' = IF /\ ~Pruned(d, m, o)
                   /\ CheckUpload(d, m, o, actor)
                   /\ Attributable(d, m, o, actor)
                   /\ NoErasedOwner(d, owners)
                   /\ <<m, o>> \notin d.dels
                   /\ Room(d, m, o)
                   /\ SoleLocator(d, m, o)
                THEN stored ELSE d
       /\ UNCHANGED <<now, history>>

\* `get`, and `maintain_message_lifetime`: a sweep, and nothing else changes.
Maintain ==
    /\ db' = Sweep(db, now)
    /\ UNCHANGED <<now, history>>

\* `inventory`: `active_requests` looks at every open request.
Inventory(m) ==
    LET d == Sweep(db, now)
        bad == UNION {Unauthorized(d, m, k) : k \in {x \in DOMAIN d.bodies : x[1] = Root(d, m)}}
    IN /\ Authorized(db, m)
       /\ db' = [d EXCEPT !.requests = Drop(@, bad)]
       /\ UNCHANGED <<now, history>>

\* A proof that `Proof::verify` takes now: it is not over, nor too far ahead.
ProofValid(deadline) == deadline > now /\ deadline =< now + ProofLife

Located(d, k) == \E l \in DOMAIN d.locators : l[1] = k[1] /\ BodyOf[l[2]] = k[2]

\* Which receipt of the locator this is, for the history variables: its deadline.
Receipt(d, k) ==
    Max({0} \cup {d.locators[l] : l \in {x \in DOMAIN d.locators :
                                            x[1] = k[1] /\ BodyOf[x[2]] = k[2]}})

\* An open window, or the same proof: a retransmission.
Retransmission(d, q, proof) ==
    q \in DOMAIN d.requests /\ (d.requests[q].until > now \/ d.requests[q].proof = proof)

\* `request_message`.
RequestMessage(m, o, i, proof) ==
    LET k == <<Root(db, m), o>>
        q == <<Root(db, m), o, i>>
        swept == Sweep(db, now)
        known == k \in DOMAIN swept.bodies /\ Located(swept, k)
        d == ValidWindow(swept, m, k)
        admitted == /\ known
                    /\ ~Retransmission(d, q, proof)
                    /\ d.bodies[k].expired
                    /\ MetadataRoom(d, k[1], IF q \in DOMAIN d.requests THEN 0 ELSE Meta)
        until == Min({proof, now + RequestLife})
    IN /\ Kind[o] = "body" /\ ProofValid(proof)
       /\ AuthorizeActor(db, m, i)
       /\ db' = IF ~known THEN swept
                ELSE IF ~admitted THEN d
                ELSE [d EXCEPT !.requests =
                        Put(@, q, [from |-> now, until |-> until, proof |-> proof])]
       /\ opened' = IF admitted
                    THEN Put(opened, k, Max({until} \cup {opened[x] : x \in DOMAIN opened \cap {k}}))
                    ELSE opened
       /\ UNCHANGED <<now, nonces, drops, consumed>>

\* The high-water mark of acceptances.
Accepted(d, q, proof) == q \in DOMAIN d.accepts /\ proof =< d.accepts[q].proof

\* `accept_message`.
AcceptMessage(m, o, i, proof) ==
    LET k == <<Root(db, m), o>>
        q == <<Root(db, m), o, i>>
        d == Sweep(db, now)
        drop == /\ k \in DOMAIN d.bodies /\ Lifetime[o] # Never
                /\ ~Accepted(d, q, proof)
                /\ ~d.bodies[k].expired
                /\ MetadataRoom(d, k[1], IF q \in DOMAIN d.accepts THEN 0 ELSE Meta)
        closed == [d EXCEPT
            !.accepts = Put(@, q, [until |-> now + AcceptLife, proof |-> proof]),
            !.requests = IF q \in DOMAIN @ THEN [@ EXCEPT ![q].until = d.requests[q].from] ELSE @]
        g == <<k, i, proof, Receipt(d, k)>>
    IN /\ Kind[o] = "body" /\ Peer[o] = i /\ ProofValid(proof)
       /\ AuthorizeActor(db, m, i)
       /\ db' = IF drop THEN RemoveBody(closed, k) ELSE d
       /\ drops' = IF drop
                   THEN Put(drops, g, 1 + IF g \in DOMAIN drops THEN drops[g] ELSE 0)
                   ELSE drops
       /\ UNCHANGED <<now, nonces, opened, consumed>>

\* CANDIDATES: legacy messages all of whose copies in the tree are classified and
\* older than the cutoff.
Candidates(d, r, before) ==
    LET tree == Tree(d, r)
        classified(o) == {x \in DOMAIN d.copies : x[1] \in tree /\ x[2] = o}
    IN {o \in Objects :
          /\ classified(o) # {}
          /\ \A x \in classified(o) : d.copies[x] < before
          /\ \A x \in d.dels : x[1] \in tree /\ x[2] = o => x \in DOMAIN d.copies}

\* `prune_messages`, which also removes what an earlier cutoff had named.
PruneMessages(r, before) ==
    LET pruned == db.pruned \cup {<<r, o>> : o \in Candidates(db, r, before)}
    IN /\ r \in db.boxes /\ r \notin DOMAIN db.deleg /\ before =< now
       /\ db' = Cascade([db EXCEPT
                    !.pruned = pruned,
                    !.dels = {x \in @ : ~(x[1] \in Tree(db, r) /\ <<r, x[2]>> \in pruned)}])
       /\ UNCHANGED <<now, history>>

\* `erase_account_content`: only when everything is attributed and this is the
\* only root.
EraseAccountContent(r, i) ==
    LET theirs == {o \in Objects : <<o, i>> \in db.owners}
    IN /\ db.coverage
       /\ db.boxes \ DOMAIN db.deleg = {r}
       /\ db' = Cascade([db EXCEPT
                   !.erased = @ \cup {i},
                   !.pruned = @ \cup {<<r, o>> : o \in theirs},
                   !.dels = {x \in @ : x[2] \notin theirs},
                   !.members = [m \in DOMAIN @ |-> @[m] \ {i}],
                   !.requests = Keep(@, {q \in DOMAIN @ : q[3] # i}),
                   !.accepts = Keep(@, {q \in DOMAIN @ : q[3] # i})])
       /\ UNCHANGED <<now, history>>

\* `access::verify`, then `consume_access`.
ConsumeAccess(a) ==
    LET expires == IssuedAt[a] + AccessLife
        kept == Keep(nonces, {x \in DOMAIN nonces : nonces[x] >= now})
    IN /\ IssuedAt[a] =< now + AccessLife /\ IssuedAt[a] + AccessLife >= now
       /\ expires >= now
       /\ a \notin DOMAIN kept /\ Cardinality(DOMAIN kept) < MaxNonces
       /\ nonces' = Put(kept, a, expires)
       /\ consumed' = [consumed EXCEPT ![a] = @ + 1]
       /\ UNCHANGED <<now, db, opened, drops>>

Next ==
    \/ Tick
    \/ \E r \in Roots : ReserveMailbox(r) \/ DeleteMailboxTree(r)
    \/ \E p \in db.boxes, c \in Children, t \in 1 .. MaxTime : CreateChild(p, c, t)
    \/ \E r \in Roots, S \in SUBSET Identities : SetSpaceMembers(r, S)
    \/ \E i \in Identities : Revoke(i)
    \/ RequireContentOwnership
    \/ \E m \in db.boxes, o \in Objects, i \in Identities \cup {None}, message \in BOOLEAN :
         Post(m, o, i, message)
    \/ Maintain
    \/ \E m \in db.boxes : Inventory(m)
    \/ \E m \in db.boxes, o \in Objects, i \in Identities, t \in 1 .. MaxTime + ProofLife :
         RequestMessage(m, o, i, t) \/ AcceptMessage(m, o, i, t)
    \/ \E r \in Roots, t \in 0 .. MaxTime : PruneMessages(r, t)
    \/ \E r \in Roots, i \in Identities : EraseAccountContent(r, i)
    \/ \E a \in Accesses : ConsumeAccess(a)

Spec == Init /\ [][Next]_vars

-----------------------------------------------------------------------------
(* Properties.                                                              *)

\* What the next caller is served: every operation sweeps first.
Served == Sweep(db, now).dels

\* Rows refer to rows that exist, as the foreign keys of the schema say.
TypeOK ==
    /\ now \in 0 .. MaxTime
    /\ db.boxes \subseteq Roots \cup Children
    /\ DOMAIN db.deleg = db.boxes \cap Children
    /\ \A c \in DOMAIN db.deleg : db.deleg[c].parent \in db.boxes
    /\ db.dels \subseteq db.boxes \X Objects
    /\ DOMAIN db.copies \subseteq db.dels
    /\ DOMAIN db.bodies \cup DOMAIN db.locators \subseteq (Roots \cap db.boxes) \X Objects
    /\ \A q \in DOMAIN db.requests \cup DOMAIN db.accepts : <<q[1], q[2]>> \in DOMAIN db.bodies

\* A mailbox tree never holds more than the quota of any mailbox above it, the
\* message rows of a root included, whatever refills, requests and acceptances
\* come between uploads (post_inner, ensure_metadata_room).
WithinQuota == \A m \in db.boxes : Used(db, m) =< Quota[m]

\* What an owner's cleanup or an erased account removed is never delivered again
\* in that Space, in any mailbox, old or created later (check_pruned).
DeletedStays ==
    \A x \in db.dels, r \in Roots : r \in Ancestors(db, x[1]) => <<r, x[2]>> \notin db.pruned

\* A copy nobody labelled as a message stays until its mailbox or its owner's
\* account goes, even when the same object was also uploaded under that label
\* (CANDIDATES).
KeepsControl ==
    \A x \in db.dels \ DOMAIN db.copies :
      (/\ Kind[x[2]] = "plain" /\ x \notin db'.dels
       /\ x[1] \in db'.boxes /\ Keep(db'.deleg, {x[1]}) = Keep(db.deleg, {x[1]}))
        => \E i \in db'.erased : <<x[2], i>> \in db.owners

\* After an account is erased nothing it owns is stored, it is in no member list
\* and it has no request, whoever uploads next (erase_account_content).
ErasedGone ==
    /\ \A w \in db.owners : w[2] \notin db.erased
    /\ \A r \in DOMAIN db.members : db.members[r] \cap db.erased = {}
    /\ \A q \in DOMAIN db.requests : q[3] \notin db.erased

\* A mailbox that can be used hangs from mailboxes that can be used: `authorize`
\* looks at one delegation, and no ancestor expires or goes first.
NoOrphanMailbox ==
    \A m \in db.boxes : Authorized(db, m) => \A a \in Ancestors(db, m) : Authorized(db, a)

\* The window a proof has opened is not moved by sending the request again, also
\* after the refill came and was accepted, and it ends with the proof
\* (request_message).
KeepsWindows ==
    \A q \in DOMAIN db.requests \cap DOMAIN db'.requests :
      db'.requests[q].proof = db.requests[q].proof
        => db'.requests[q].until =< Min({db.requests[q].until, db.requests[q].proof})

\* A body that came back is served only inside a window that somebody's proof
\* opened; when the windows are over it is gone (sweep, record_upload).
RefillBounded ==
    \A x \in Served :
        LET k == <<Root(db, x[1]), x[2]>>
        IN (k \in DOMAIN db.bodies /\ db.bodies[k].refill # Never) =>
             k \in DOMAIN opened /\ now < opened[k]

\* For one receipt of a locator, an acceptance proof removes a body once; sent again it cannot remove a later
\* refill (accept_message), unless the account was removed in between.
AcceptedOnce == \A g \in DOMAIN drops : drops[g] = 1

\* A signed request passes the transport once, up to and including the instant
\* it expires (consume_access).
AccessOnce == \A a \in Accesses : consumed[a] =< 1

\* As long as its locator is kept, a body that reached its deadline comes back only
\* while somebody who is still admitted asks for it: not by ordinary repair, and
\* not for one who was removed since (check_upload, valid_window).
RefillsOnRequest ==
    \A k \in DOMAIN db.bodies \cap DOMAIN db'.bodies :
      db.bodies[k].expired /\ ~db'.bodies[k].expired
        => \E q \in Open(db', k) : AuthorizeActor(db', k[1], q[3])

\* Storage is used once and within bounds: every mailbox hangs from usable ones, no tree
\* holds more than its quotas, refilled bodies end with their windows, and a signed
\* access or acceptance counts once.
MailboxesSound ==
    /\ TypeOK
    /\ WithinQuota
    /\ NoOrphanMailbox
    /\ RefillBounded
    /\ AcceptedOnce
    /\ AccessOnce

\* What an owner's cleanup or an erasure removed is gone from every mailbox and stays so,
\* whoever uploads it again.
DeletionFinal == DeletedStays /\ ErasedGone

\* What is stored comes and goes by the rules: control records stay, a body comes back
\* only on a request that is still good, and repeating a request buys no more time.
RetentionKept == [][KeepsControl /\ KeepsWindows /\ RefillsOnRequest]_vars

\* docs/REPLICA_RETENTION.md: a message body is kept for the "Finite Space lifetime"
\* and a refilled body "Until its valid request window ends".  Every body of a
\* finite lifetime that is stored has a deadline.
FiniteBodiesEnd ==
    \A x \in db.dels :
        Kind[x[2]] = "body" /\ Lifetime[x[2]] # Never => <<Root(db, x[1]), x[2]>> \in DOMAIN db.bodies
=============================================================================
