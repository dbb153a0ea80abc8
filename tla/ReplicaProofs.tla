---------------------------- MODULE ReplicaProofs ----------------------------
(***************************************************************************)
(* Proofs about Replica: the mailbox tree, what a cleanup or an erasure    *)
(* removed, and the lifetime of message bodies, for any mailboxes,         *)
(* objects, identities and limits.                                         *)
(*                                                                         *)
(* Every operation is a chain of a few changes of the tables: rows are     *)
(* trimmed (a sweep, a window that is looked at again, a body that is      *)
(* removed), mailboxes go, or one row is written.  Each change is shown to *)
(* keep the invariant, and the actions combine them.                       *)
(***************************************************************************)
EXTENDS Replica, FiniteSetTheorems, NaturalsInduction, WellFoundedInduction, TLAPS

-----------------------------------------------------------------------------
(* The inductive invariant.                                                 *)

\* The tables are a record of these fields.
Fields(d) ==
    /\ DOMAIN d = {"boxes", "deleg", "dels", "copies", "owners", "bodies", "locators", "requests",
                   "accepts", "pruned", "members", "erased", "revoked", "coverage", "required"}
    /\ d = [f \in DOMAIN d |-> d[f]]

\* Mailboxes hang at most two levels below a root, and none outlives the one above.
TreeOK(d) ==
    /\ d.boxes \subseteq Roots \cup Children
    /\ DOMAIN d.deleg = d.boxes \cap Children
    /\ \A c \in DOMAIN d.deleg :
         /\ d.deleg[c].parent \in d.boxes
         /\ d.deleg[c].expires \in Nat
         /\ d.deleg[c].parent \in DOMAIN d.deleg =>
              /\ d.deleg[d.deleg[c].parent].parent \notin DOMAIN d.deleg
              /\ d.deleg[c].expires =< d.deleg[d.deleg[c].parent].expires

\* Rows refer to rows that exist, and message rows are of objects of their kind.
RowsOK(d) ==
    /\ d.dels \subseteq d.boxes \X Objects
    /\ DOMAIN d.copies \subseteq d.dels
    /\ d.owners \subseteq Objects \X Identities
    /\ d.pruned \subseteq Roots \X Objects
    /\ \A k \in DOMAIN d.bodies :
         k \in Roots \X Objects /\ k[1] \in d.boxes /\ Kind[k[2]] = "body"
    /\ \A k \in DOMAIN d.locators :
         k \in Roots \X Objects /\ k[1] \in d.boxes /\ Kind[k[2]] = "locator"
    /\ \A q \in DOMAIN d.requests \cup DOMAIN d.accepts :
         q \in Roots \X Objects \X Identities /\ <<q[1], q[2]>> \in DOMAIN d.bodies

\* What was cleaned up or erased is gone.
GoneOK(d) ==
    /\ \A x \in d.dels, r \in Roots : r \in Ancestors(d, x[1]) => <<r, x[2]>> \notin d.pruned
    /\ \A w \in d.owners : w[2] \notin d.erased
    /\ \A r \in DOMAIN d.members : d.members[r] \cap d.erased = {}
    /\ \A q \in DOMAIN d.requests : q[3] \notin d.erased

BodyRow == [expires : Nat, expired : BOOLEAN, refill : Nat]

\* The locator l names the body k.
Names(l, k) == l[1] = k[1] /\ BodyOf[l[2]] = k[2]

\* A body has a locator, and only one; it has a refill deadline only inside a window
\* that was opened for it.
BodiesOK(d, op) ==
    /\ \A k \in DOMAIN op : op[k] \in Nat
    /\ \A k \in DOMAIN d.bodies :
         /\ d.bodies[k] \in BodyRow
         /\ d.bodies[k].refill # Never =>
              /\ ~d.bodies[k].expired
              /\ k \in DOMAIN op
              /\ d.bodies[k].refill =< op[k]
         /\ \E l \in DOMAIN d.locators : Names(l, k)
    /\ \A l \in DOMAIN d.locators : d.locators[l] \in Nat
    /\ \A l1, l2 \in DOMAIN d.locators :
         l1[1] = l2[1] /\ BodyOf[l1[2]] = BodyOf[l2[2]] => l1 = l2

\* A request's window ends with its proof, and is one of those that were opened.
RequestsOK(d, op) ==
    /\ \A q \in DOMAIN d.requests :
         /\ d.requests[q] \in [from : Nat, until : Nat, proof : Nat]
         /\ d.requests[q].from =< d.requests[q].until
         /\ d.requests[q].until =< d.requests[q].proof
         /\ <<q[1], q[2]>> \in DOMAIN op
         /\ d.requests[q].until =< op[<<q[1], q[2]>>]
    /\ \A q \in DOMAIN d.accepts : d.accepts[q] \in [until : Nat, proof : Nat]

\* The tables are finite, and no tree is over its quota.
QuotaOK(d) ==
    /\ IsFiniteSet(d.dels)
    /\ IsFiniteSet(DOMAIN d.bodies) /\ IsFiniteSet(DOMAIN d.locators)
    /\ IsFiniteSet(DOMAIN d.requests) /\ IsFiniteSet(DOMAIN d.accepts)
    /\ \A m \in d.boxes : Used(d, m) =< Quota[m]

TablesOK(d, op) ==
    Fields(d) /\ TreeOK(d) /\ RowsOK(d) /\ GoneOK(d) /\ BodiesOK(d, op) /\ RequestsOK(d, op)

\* An acceptance that removed a body is remembered by its row until its proof or the
\* receipt of the locator is over, or the account is erased.
DropOK(d, t, g) ==
    /\ g \in (Roots \X Objects) \X Identities \X Nat \X Nat
    /\ \/ g[4] =< t
       \/ \E l \in DOMAIN d.locators : Names(l, g[1]) /\ d.locators[l] = g[4]
    /\ \/ g[3] =< t
       \/ g[4] =< t
       \/ g[2] \in d.erased
       \/ LET q == <<g[1][1], g[1][2], g[2]>>
          IN q \in DOMAIN d.accepts /\ g[3] =< d.accepts[q].proof /\ g[3] =< d.accepts[q].until

DropsOK == \A g \in DOMAIN drops : drops[g] = 1 /\ DropOK(db, now, g)

\* A nonce is kept until its access has expired.
NoncesOK ==
    /\ \A a \in DOMAIN nonces : a \in Accesses /\ nonces[a] = IssuedAt[a] + AccessLife
    /\ consumed \in [Accesses -> 0 .. 1]
    /\ \A a \in Accesses : consumed[a] = 1 => a \in DOMAIN nonces \/ IssuedAt[a] + AccessLife < now

ReplicaInv ==
    /\ now \in 0 .. MaxTime
    /\ TablesOK(db, opened)
    /\ QuotaOK(db)
    /\ DropsOK
    /\ NoncesOK

-----------------------------------------------------------------------------
(* The tree of mailboxes.                                                   *)

\* The mailboxes above one follow from the delegations alone.
LEMMA AncestorsSame ==
    ASSUME NEW d, NEW e, e.deleg = d.deleg, NEW m
    PROVE  Ancestors(e, m) = Ancestors(d, m) /\ Root(e, m) = Root(d, m)
BY DEF Ancestors, Parents, Root

LEMMA ParentsOfSet ==
    ASSUME NEW d, NEW m
    PROVE  /\ m \in DOMAIN d.deleg => Parents(d, {m}) = {d.deleg[m].parent}
           /\ m \notin DOMAIN d.deleg => Parents(d, {m}) = {}
           /\ Parents(d, {}) = {}
BY DEF Parents

\* A mailbox is a root, or hangs from a root directly or with one mailbox between.
LEMMA AncestorsAre ==
    ASSUME NEW d, TreeOK(d), NEW m \in d.boxes
    PROVE  /\ m \notin DOMAIN d.deleg => Ancestors(d, m) = {m}
           /\ m \in DOMAIN d.deleg =>
                LET p == d.deleg[m].parent
                IN /\ p \in d.boxes
                   /\ p \notin DOMAIN d.deleg => Ancestors(d, m) = {m, p}
                   /\ p \in DOMAIN d.deleg =>
                        LET g == d.deleg[p].parent
                        IN /\ g \in d.boxes /\ g \notin DOMAIN d.deleg
                           /\ Ancestors(d, m) = {m, p, g}
                           /\ m # p /\ m # g /\ p # g
<1>1. CASE m \notin DOMAIN d.deleg
  BY <1>1 DEF Ancestors
<1>2. CASE m \in DOMAIN d.deleg
  <2> DEFINE p == d.deleg[m].parent
  <2>1. p \in d.boxes
    BY <1>2 DEF TreeOK
  <2>2. Parents(d, {m}) = {p}
    BY <1>2, ParentsOfSet
  <2>3. CASE p \notin DOMAIN d.deleg
    <3>1. Parents(d, {p}) = {} /\ Parents(d, {}) = {}
      BY <2>3, ParentsOfSet
    <3>2. Ancestors(d, m) = {m, p}
      BY <1>2, <2>2, <3>1 DEF Ancestors
    <3> QED
      BY <1>2, <2>1, <2>3, <3>2
  <2>4. CASE p \in DOMAIN d.deleg
    <3> DEFINE g == d.deleg[p].parent
    <3>1. g \in d.boxes /\ g \notin DOMAIN d.deleg
      BY <1>2, <2>4 DEF TreeOK
    <3>2. Parents(d, {p}) = {g} /\ Parents(d, {g}) = {}
      BY <2>4, <3>1, ParentsOfSet
    <3>3. Ancestors(d, m) = {m, p, g}
      BY <1>2, <2>2, <3>2 DEF Ancestors
    <3>4. m # p /\ m # g /\ p # g
      BY <1>2, <2>4, <3>1
    <3> QED
      BY <1>2, <2>1, <2>4, <3>1, <3>3, <3>4
  <2> QED
    BY <2>3, <2>4
<1> QED
  BY <1>1, <1>2

\* What hangs from a mailbox hangs from those above it, none of which expires first.
LEMMA AncestorsUp ==
    ASSUME NEW d, TreeOK(d), NEW m \in d.boxes, NEW a \in Ancestors(d, m)
    PROVE  /\ m \in Ancestors(d, m)
           /\ a \in d.boxes
           /\ Ancestors(d, a) \subseteq Ancestors(d, m)
           /\ a \in DOMAIN d.deleg =>
                /\ m \in DOMAIN d.deleg
                /\ d.deleg[m].expires \in Nat /\ d.deleg[a].expires \in Nat
                /\ d.deleg[m].expires =< d.deleg[a].expires
<1>1. CASE m \notin DOMAIN d.deleg
  BY <1>1, AncestorsAre
<1>2. CASE m \in DOMAIN d.deleg
  <2> DEFINE p == d.deleg[m].parent
  <2>1. CASE p \notin DOMAIN d.deleg
    <3>1. Ancestors(d, m) = {m, p} /\ p \in d.boxes
      BY <1>2, <2>1, AncestorsAre
    <3>2. Ancestors(d, p) = {p}
      BY <3>1, <2>1, AncestorsAre
    <3> QED
      BY <1>2, <2>1, <3>1, <3>2 DEF TreeOK
  <2>2. CASE p \in DOMAIN d.deleg
    <3> DEFINE g == d.deleg[p].parent
    <3>1. /\ Ancestors(d, m) = {m, p, g} /\ p \in d.boxes
          /\ g \in d.boxes /\ g \notin DOMAIN d.deleg
      BY <1>2, <2>2, AncestorsAre
    <3>2. Ancestors(d, g) = {g}
      BY <3>1, AncestorsAre
    <3>3. Ancestors(d, p) = {p, g}
      BY <3>1, <2>2, AncestorsAre
    <3> QED
      BY <1>2, <2>2, <3>1, <3>2, <3>3 DEF TreeOK
  <2> QED
    BY <2>1, <2>2
<1> QED
  BY <1>1, <1>2

\* A mailbox has one root.
LEMMA RootIs ==
    ASSUME NEW d, TreeOK(d), NEW m \in d.boxes
    PROVE  /\ Root(d, m) \in Ancestors(d, m)
           /\ Root(d, m) \in Roots /\ Root(d, m) \in d.boxes
           /\ Root(d, m) \notin DOMAIN d.deleg
           /\ Ancestors(d, Root(d, m)) = {Root(d, m)}
           /\ \A r \in Ancestors(d, m) : r \in Roots => r = Root(d, m)
<1>1. \E r \in Ancestors(d, m) : r \notin DOMAIN d.deleg
  BY AncestorsAre
<1>2. Root(d, m) \in Ancestors(d, m) /\ Root(d, m) \notin DOMAIN d.deleg
  BY <1>1 DEF Root
<1>3. Root(d, m) \in d.boxes
  BY <1>2, AncestorsUp
<1>4. Root(d, m) \in Roots
  BY <1>2, <1>3 DEF TreeOK
<1>5. Ancestors(d, Root(d, m)) = {Root(d, m)}
  BY <1>2, <1>3, AncestorsAre
<1>6. ASSUME NEW r \in Ancestors(d, m), r \in Roots PROVE r = Root(d, m)
  <2>1. r \in d.boxes
    BY AncestorsUp
  <2>2. r \notin DOMAIN d.deleg
    BY <2>1, <1>6, ReplicaAssumption DEF TreeOK
  <2>3. \A a1, a2 \in Ancestors(d, m) :
          a1 \notin DOMAIN d.deleg /\ a2 \notin DOMAIN d.deleg => a1 = a2
    BY AncestorsAre
  <2> QED
    BY <1>2, <1>6, <2>2, <2>3
<1> QED
  BY <1>2, <1>3, <1>4, <1>5, <1>6

-----------------------------------------------------------------------------
(* Rows that go.                                                            *)

\* f has rows of g only, unchanged.
Part(f, g) == DOMAIN f \subseteq DOMAIN g /\ \A x \in DOMAIN f : f[x] = g[x]

\* A body row after its deadline.
Expire(b) == [b EXCEPT !.expired = TRUE, !.refill = Never]

LEMMA ExpireIs ==
    ASSUME NEW b \in BodyRow
    PROVE  /\ Expire(b) \in BodyRow
           /\ Expire(b).expired = TRUE /\ Expire(b).refill = Never
           /\ Expire(b).expires = b.expires
BY ReplicaAssumption DEF Expire, BodyRow

\* e is d without some rows: only message objects go, a body may have expired, a
\* body row goes with its requests and acceptances, and it goes when its locator does.
Trimmed(d, e) ==
    /\ Fields(e)
    /\ e.boxes = d.boxes /\ e.deleg = d.deleg /\ e.pruned = d.pruned
    /\ e.members = d.members /\ e.erased = d.erased /\ e.revoked = d.revoked
    /\ e.coverage = d.coverage /\ e.required = d.required
    /\ e.dels \subseteq d.dels
    /\ \A x \in d.dels \ e.dels : <<Root(d, x[1]), x[2]>> \in DOMAIN d.bodies \cup DOMAIN d.locators
    /\ Part(e.copies, d.copies) /\ DOMAIN e.copies \subseteq e.dels
    /\ e.owners \subseteq d.owners
    /\ DOMAIN e.bodies \subseteq DOMAIN d.bodies
    /\ \A k \in DOMAIN e.bodies :
         e.bodies[k] = d.bodies[k] \/ e.bodies[k] = Expire(d.bodies[k])
    /\ Part(e.locators, d.locators) /\ Part(e.requests, d.requests) /\ Part(e.accepts, d.accepts)
    /\ \A q \in DOMAIN e.requests \cup DOMAIN e.accepts :
         <<q[1], q[2]>> \in DOMAIN d.bodies => <<q[1], q[2]>> \in DOMAIN e.bodies
    /\ \A l \in DOMAIN d.locators : (\E k \in DOMAIN e.bodies : Names(l, k)) => l \in DOMAIN e.locators

LEMMA TrimmedTables ==
    ASSUME NEW d, NEW op, TablesOK(d, op), NEW e, Trimmed(d, e)
    PROVE  TablesOK(e, op)
<1> USE DEF TablesOK
<1>1. Fields(e)
  BY DEF Trimmed
<1>2. TreeOK(e)
  BY DEF Trimmed, TreeOK
<1>3. RowsOK(e)
  BY DEF Trimmed, RowsOK, Part
<1>4. GoneOK(e)
  <2>1. \A m : Ancestors(e, m) = Ancestors(d, m)
    BY AncestorsSame DEF Trimmed
  <2> QED
    BY <2>1 DEF Trimmed, GoneOK, Part
<1>5. BodiesOK(e, op)
  <2>1. ASSUME NEW k \in DOMAIN e.bodies
        PROVE  /\ e.bodies[k] \in BodyRow
               /\ e.bodies[k].refill # Never =>
                    ~e.bodies[k].expired /\ k \in DOMAIN op /\ e.bodies[k].refill =< op[k]
    <3>1. k \in DOMAIN d.bodies
      BY DEF Trimmed
    <3>2. CASE e.bodies[k] = d.bodies[k]
      BY <3>1, <3>2 DEF BodiesOK
    <3>3. CASE e.bodies[k] = Expire(d.bodies[k])
      <4>1. d.bodies[k] \in BodyRow
        BY <3>1 DEF BodiesOK
      <4> QED
        BY <3>3, <4>1, ExpireIs
    <3>4. e.bodies[k] = d.bodies[k] \/ e.bodies[k] = Expire(d.bodies[k])
      BY DEF Trimmed
    <3> QED
      BY <3>2, <3>3, <3>4
  <2>2. ASSUME NEW k \in DOMAIN e.bodies PROVE \E l \in DOMAIN e.locators : Names(l, k)
    BY DEF Trimmed, BodiesOK
  <2>3. /\ \A l \in DOMAIN e.locators : e.locators[l] \in Nat
        /\ \A l1, l2 \in DOMAIN e.locators :
             l1[1] = l2[1] /\ BodyOf[l1[2]] = BodyOf[l2[2]] => l1 = l2
    BY DEF Trimmed, BodiesOK, Part
  <2> QED
    BY <2>1, <2>2, <2>3 DEF BodiesOK
<1>6. RequestsOK(e, op)
  BY DEF Trimmed, RequestsOK, Part
<1> QED
  BY <1>1, <1>2, <1>3, <1>4, <1>5, <1>6

LEMMA CascadeFields ==
    ASSUME NEW d, Fields(d)
    PROVE  /\ Fields(Cascade(d))
           /\ Cascade(d).boxes = d.boxes /\ Cascade(d).deleg = d.deleg
           /\ Cascade(d).pruned = d.pruned /\ Cascade(d).members = d.members
           /\ Cascade(d).erased = d.erased /\ Cascade(d).revoked = d.revoked
           /\ Cascade(d).coverage = d.coverage /\ Cascade(d).required = d.required
           /\ Cascade(d).dels = d.dels /\ Cascade(d).bodies = d.bodies
           /\ Cascade(d).locators = d.locators /\ Cascade(d).requests = d.requests
           /\ Cascade(d).accepts = d.accepts
           /\ Cascade(d).copies = Keep(d.copies, d.dels)
           /\ Cascade(d).owners = {w \in d.owners : \E x \in d.dels : x[2] = w[1]}
BY DEF Cascade, Fields

\* What a sweep at t removes.
Dead(d, t) == {k \in DOMAIN d.bodies : ~d.bodies[k].expired
                 /\ (d.bodies[k].expires =< t \/ d.bodies[k].refill =< t)}

Gone(d, t) == {k \in DOMAIN d.locators : d.locators[k] =< t}

Lost(d, t) == {<<k[1], BodyOf[k[2]]>> : k \in Gone(d, t)}

\* What a sweep at t leaves.
SweptDels(d, t) == {x \in d.dels : <<Root(d, x[1]), x[2]>> \notin Dead(d, t) \cup Gone(d, t)}

SweptBodies(d, t) ==
    [k \in DOMAIN d.bodies \ Lost(d, t) |->
        IF k \in Dead(d, t) THEN Expire(d.bodies[k]) ELSE d.bodies[k]]

SweptRequests(d, t) ==
    Keep(d.requests, {q \in DOMAIN d.requests :
                        d.requests[q].proof > t /\ <<q[1], q[2]>> \notin Lost(d, t)})

SweptAccepts(d, t) ==
    Keep(d.accepts, {q \in DOMAIN d.accepts :
                       d.accepts[q].until > t /\ <<q[1], q[2]>> \notin Lost(d, t)})

LEMMA SweepFields ==
    ASSUME NEW d, Fields(d), NEW t
    PROVE  /\ Fields(Sweep(d, t))
           /\ Sweep(d, t).boxes = d.boxes /\ Sweep(d, t).deleg = d.deleg
           /\ Sweep(d, t).pruned = d.pruned /\ Sweep(d, t).members = d.members
           /\ Sweep(d, t).erased = d.erased /\ Sweep(d, t).revoked = d.revoked
           /\ Sweep(d, t).coverage = d.coverage /\ Sweep(d, t).required = d.required
           /\ Sweep(d, t).dels = SweptDels(d, t)
           /\ Sweep(d, t).copies = Keep(d.copies, SweptDels(d, t))
           /\ Sweep(d, t).owners \subseteq d.owners
           /\ Sweep(d, t).bodies = SweptBodies(d, t)
           /\ Sweep(d, t).locators = Drop(d.locators, Gone(d, t))
           /\ Sweep(d, t).requests = SweptRequests(d, t)
           /\ Sweep(d, t).accepts = SweptAccepts(d, t)
<1> DEFINE b == [d EXCEPT !.dels = SweptDels(d, t), !.bodies = SweptBodies(d, t),
                          !.locators = Drop(d.locators, Gone(d, t)),
                          !.requests = SweptRequests(d, t), !.accepts = SweptAccepts(d, t)]
<1>1. Sweep(d, t) = Cascade(b)
  BY DEF Sweep, Dead, Gone, Lost, SweptDels, SweptBodies, SweptRequests, SweptAccepts, Expire
<1>2. /\ Fields(b)
      /\ b.boxes = d.boxes /\ b.deleg = d.deleg /\ b.pruned = d.pruned
      /\ b.members = d.members /\ b.erased = d.erased /\ b.revoked = d.revoked
      /\ b.coverage = d.coverage /\ b.required = d.required
      /\ b.dels = SweptDels(d, t) /\ b.copies = d.copies /\ b.owners = d.owners
      /\ b.bodies = SweptBodies(d, t) /\ b.locators = Drop(d.locators, Gone(d, t))
      /\ b.requests = SweptRequests(d, t) /\ b.accepts = SweptAccepts(d, t)
  BY DEF Fields
<1> HIDE DEF b
<1>3. /\ Cascade(b).owners \subseteq d.owners
      /\ Cascade(b).copies = Keep(d.copies, SweptDels(d, t))
  BY <1>2, CascadeFields
<1>4. /\ Fields(Cascade(b)) /\ Cascade(b).boxes = b.boxes /\ Cascade(b).deleg = b.deleg
      /\ Cascade(b).pruned = b.pruned /\ Cascade(b).members = b.members
      /\ Cascade(b).erased = b.erased /\ Cascade(b).revoked = b.revoked
      /\ Cascade(b).coverage = b.coverage /\ Cascade(b).required = b.required
      /\ Cascade(b).dels = b.dels /\ Cascade(b).bodies = b.bodies
      /\ Cascade(b).locators = b.locators /\ Cascade(b).requests = b.requests
      /\ Cascade(b).accepts = b.accepts
  BY <1>2, CascadeFields
<1> QED
  BY <1>1, <1>2, <1>3, <1>4

LEMMA SweepTrims ==
    ASSUME NEW d, NEW op, TablesOK(d, op), NEW t
    PROVE  Trimmed(d, Sweep(d, t))
<1> DEFINE e == Sweep(d, t)
<1>1. Fields(d)
  BY DEF TablesOK
<1>2. /\ Fields(e)
      /\ e.boxes = d.boxes /\ e.deleg = d.deleg /\ e.pruned = d.pruned
      /\ e.members = d.members /\ e.erased = d.erased /\ e.revoked = d.revoked
      /\ e.coverage = d.coverage /\ e.required = d.required
      /\ e.dels = SweptDels(d, t) /\ e.copies = Keep(d.copies, SweptDels(d, t))
      /\ e.owners \subseteq d.owners
  BY <1>1, SweepFields
<1>3. e.bodies = SweptBodies(d, t)
  BY <1>1, SweepFields
<1>4. /\ e.locators = Drop(d.locators, Gone(d, t))
      /\ e.requests = SweptRequests(d, t) /\ e.accepts = SweptAccepts(d, t)
  BY <1>1, SweepFields
<1> HIDE DEF e
<1>5. \A x \in d.dels \ e.dels : <<Root(d, x[1]), x[2]>> \in DOMAIN d.bodies \cup DOMAIN d.locators
  BY <1>2 DEF Dead, Gone, SweptDels
<1>6. Part(e.copies, d.copies) /\ DOMAIN e.copies \subseteq e.dels /\ e.dels \subseteq d.dels
  BY <1>2 DEF Part, Keep, SweptDels
<1>7. /\ DOMAIN e.bodies \subseteq DOMAIN d.bodies
      /\ \A k \in DOMAIN e.bodies :
           e.bodies[k] = d.bodies[k] \/ e.bodies[k] = Expire(d.bodies[k])
  BY <1>3 DEF SweptBodies
<1>8. Part(e.locators, d.locators) /\ Part(e.requests, d.requests) /\ Part(e.accepts, d.accepts)
  BY <1>4 DEF Part, Keep, Drop, SweptRequests, SweptAccepts
<1>9. \A q \in DOMAIN e.requests \cup DOMAIN e.accepts :
         <<q[1], q[2]>> \in DOMAIN d.bodies => <<q[1], q[2]>> \in DOMAIN e.bodies
  <2>1. \A q \in DOMAIN e.requests \cup DOMAIN e.accepts : <<q[1], q[2]>> \notin Lost(d, t)
    BY <1>4 DEF Keep, SweptRequests, SweptAccepts
  <2> QED
    BY <1>3, <2>1 DEF SweptBodies
<1>10. \A l \in DOMAIN d.locators : (\E k \in DOMAIN e.bodies : Names(l, k)) => l \in DOMAIN e.locators
  <2> SUFFICES ASSUME NEW l \in DOMAIN d.locators, NEW k \in DOMAIN e.bodies, Names(l, k),
                      l \notin DOMAIN e.locators
               PROVE  FALSE
    OBVIOUS
  <2>1. l \in Gone(d, t)
    BY <1>4 DEF Drop
  <2>2. k \in DOMAIN d.bodies /\ k \notin Lost(d, t)
    BY <1>3 DEF SweptBodies
  <2>3. k = <<l[1], BodyOf[l[2]]>>
    <3>1. k \in Roots \X Objects
      BY <2>2 DEF TablesOK, RowsOK
    <3> QED
      BY <3>1 DEF Names
  <2> QED
    BY <2>1, <2>2, <2>3 DEF Lost
<1> QED
  BY <1>2, <1>5, <1>6, <1>7, <1>8, <1>9, <1>10 DEF Trimmed, e

\* Requests that go, in `valid_window` and `active_requests`.
LEMMA DropTrims ==
    ASSUME NEW d, NEW op, TablesOK(d, op), NEW S
    PROVE  LET e == [d EXCEPT !.requests = Drop(@, S)]
           IN Trimmed(d, e) /\ e.bodies = d.bodies /\ e.locators = d.locators
              /\ e.requests = Drop(d.requests, S) /\ e.accepts = d.accepts /\ e.dels = d.dels
<1> DEFINE r == Drop(d.requests, S)
           e == [d EXCEPT !.requests = r]
<1>1. Part(r, d.requests)
  BY DEF Part, Drop
<1> HIDE DEF r
<1>2. /\ Fields(e)
      /\ e.boxes = d.boxes /\ e.deleg = d.deleg /\ e.pruned = d.pruned
      /\ e.members = d.members /\ e.erased = d.erased /\ e.revoked = d.revoked
      /\ e.coverage = d.coverage /\ e.required = d.required
      /\ e.dels = d.dels /\ e.copies = d.copies /\ e.owners = d.owners
      /\ e.bodies = d.bodies /\ e.locators = d.locators /\ e.accepts = d.accepts
      /\ e.requests = r
  BY DEF Fields, TablesOK
<1>3. DOMAIN d.copies \subseteq d.dels
  BY DEF TablesOK, RowsOK
<1> HIDE DEF e
<1>4. Trimmed(d, e)
  BY <1>1, <1>2, <1>3 DEF Trimmed, Part
<1> QED
  BY <1>2, <1>4 DEF e, r

\* A body that is removed from its root.
LEMMA RemoveTrims ==
    ASSUME NEW d, NEW op, TablesOK(d, op), NEW k \in DOMAIN d.bodies
    PROVE  /\ Trimmed(d, RemoveBody(d, k))
           /\ DOMAIN RemoveBody(d, k).bodies = DOMAIN d.bodies
           /\ RemoveBody(d, k).locators = d.locators
           /\ RemoveBody(d, k).requests = d.requests
           /\ RemoveBody(d, k).accepts = d.accepts
<1> DEFINE dels == {x \in d.dels : <<Root(d, x[1]), x[2]>> # k}
           bodies == [d.bodies EXCEPT ![k] = [@ EXCEPT !.expired = TRUE, !.refill = Never]]
           b == [d EXCEPT !.dels = dels, !.bodies = bodies]
           e == Cascade(b)
<1>1. RemoveBody(d, k) = e
  BY DEF RemoveBody
<1>2. /\ DOMAIN bodies = DOMAIN d.bodies
      /\ \A j \in DOMAIN d.bodies :
           bodies[j] = d.bodies[j] \/ bodies[j] = Expire(d.bodies[j])
  BY DEF Expire
<1>3. dels \subseteq d.dels /\ \A x \in d.dels \ dels : <<Root(d, x[1]), x[2]>> = k
  OBVIOUS
<1> HIDE DEF dels, bodies
<1>4. /\ Fields(b)
      /\ b.boxes = d.boxes /\ b.deleg = d.deleg /\ b.pruned = d.pruned
      /\ b.members = d.members /\ b.erased = d.erased /\ b.revoked = d.revoked
      /\ b.coverage = d.coverage /\ b.required = d.required
      /\ b.dels = dels /\ b.copies = d.copies /\ b.owners = d.owners
      /\ b.bodies = bodies /\ b.locators = d.locators /\ b.accepts = d.accepts
      /\ b.requests = d.requests
  BY DEF Fields, TablesOK
<1> HIDE DEF b
<1>5. /\ Fields(e)
      /\ e.boxes = d.boxes /\ e.deleg = d.deleg /\ e.pruned = d.pruned
      /\ e.members = d.members /\ e.erased = d.erased /\ e.revoked = d.revoked
      /\ e.coverage = d.coverage /\ e.required = d.required
      /\ e.dels = dels /\ e.copies = Keep(d.copies, dels) /\ e.owners \subseteq d.owners
      /\ e.bodies = bodies /\ e.locators = d.locators /\ e.accepts = d.accepts
      /\ e.requests = d.requests
  BY <1>4, CascadeFields
<1> HIDE DEF e
<1>6. Part(e.copies, d.copies) /\ DOMAIN e.copies \subseteq e.dels
  BY <1>5 DEF Part, Keep
<1>7. Trimmed(d, e)
  BY <1>2, <1>3, <1>5, <1>6 DEF Trimmed, Part
<1> QED
  BY <1>1, <1>2, <1>5, <1>7

-----------------------------------------------------------------------------
(* Rows that are written.                                                   *)

LEMMA PutIs ==
    ASSUME NEW f, NEW k, NEW v
    PROVE  /\ DOMAIN Put(f, k, v) = DOMAIN f \cup {k}
           /\ Put(f, k, v)[k] = v
           /\ \A x \in DOMAIN f : x # k => Put(f, k, v)[x] = f[x]
BY DEF Put

LEMMA BoundedMax ==
    ASSUME NEW S \in SUBSET Nat, S # {}, NEW b \in Nat, \A x \in S : x =< b
    PROVE  Max(S) \in S /\ \A x \in S : x =< Max(S)
<1> DEFINE T == {b - x : x \in S}
<1>1. T \in SUBSET Nat /\ T # {}
  OBVIOUS
<1> HIDE DEF T
<1>2. PICK n \in T : \A m \in T : ~(<<m, n>> \in OpToRel(<, Nat))
  BY <1>1, NatLessThanWellFounded, WFMin
<1>3. \A m \in T : n =< m
  <2>1. \A m \in T : m \in Nat /\ n \in Nat /\ ~(m < n)
    BY <1>1, <1>2 DEF OpToRel
  <2> QED
    BY <2>1
<1>4. PICK y \in S : n = b - y
  BY DEF T
<1>5. \A x \in S : y >= x
  <2> SUFFICES ASSUME NEW x \in S PROVE y >= x
    OBVIOUS
  <2>1. n =< b - x
    BY <1>3 DEF T
  <2> QED
    BY <1>4, <2>1
<1>6. Max(S) \in S /\ \A x \in S : Max(S) >= x
  BY <1>5 DEF Max
<1> QED
  BY <1>6

\* A delivery with its owners.
Stored(d, m, o, W, c) ==
    [d EXCEPT !.dels = @ \cup {<<m, o>>}, !.owners = @ \cup {<<o, i>> : i \in W}, !.coverage = c]

LEMMA StoreTables ==
    ASSUME NEW d, NEW op, TablesOK(d, op), NEW m \in d.boxes, NEW o \in Objects,
           ~Pruned(d, m, o), NEW W \in SUBSET Identities, W \cap d.erased = {}, NEW c
    PROVE  LET e == Stored(d, m, o, W, c)
           IN /\ TablesOK(e, op)
              /\ e.dels = d.dels \cup {<<m, o>>}
              /\ e.boxes = d.boxes /\ e.deleg = d.deleg /\ e.pruned = d.pruned
              /\ e.members = d.members /\ e.erased = d.erased /\ e.revoked = d.revoked
              /\ e.copies = d.copies /\ e.bodies = d.bodies /\ e.locators = d.locators
              /\ e.requests = d.requests /\ e.accepts = d.accepts
<1> DEFINE dels == d.dels \cup {<<m, o>>}
           owners == d.owners \cup {<<o, i>> : i \in W}
           e == [d EXCEPT !.dels = dels, !.owners = owners, !.coverage = c]
<1>1. /\ \A x \in dels : x \in d.dels \/ x = <<m, o>>
      /\ d.dels \subseteq dels /\ dels \subseteq d.dels \cup (d.boxes \X Objects)
  OBVIOUS
<1>2. \A w \in owners : w \in d.owners \/ (w \in Objects \X Identities /\ w[2] \in W)
  OBVIOUS
<1> HIDE DEF dels, owners
<1>3. /\ Fields(e)
      /\ e.dels = dels /\ e.owners = owners
      /\ e.boxes = d.boxes /\ e.deleg = d.deleg /\ e.pruned = d.pruned
      /\ e.members = d.members /\ e.erased = d.erased /\ e.revoked = d.revoked
      /\ e.copies = d.copies /\ e.bodies = d.bodies /\ e.locators = d.locators
      /\ e.requests = d.requests /\ e.accepts = d.accepts
  BY DEF Fields, TablesOK
<1> HIDE DEF e
<1>4. TreeOK(e)
  BY <1>3 DEF TreeOK, TablesOK
<1>5. RowsOK(e)
  BY <1>1, <1>2, <1>3 DEF RowsOK, TablesOK
<1>6. GoneOK(e)
  <2>1. \A a : Ancestors(e, a) = Ancestors(d, a)
    BY <1>3, AncestorsSame
  <2>2. \A x \in e.dels, r \in Roots : r \in Ancestors(e, x[1]) => <<r, x[2]>> \notin e.pruned
    <3> SUFFICES ASSUME NEW x \in dels, NEW r \in Roots, r \in Ancestors(d, x[1])
                 PROVE  <<r, x[2]>> \notin d.pruned
      BY <1>3, <2>1
    <3>1. CASE x \in d.dels
      BY <3>1 DEF TablesOK, GoneOK
    <3>2. CASE x = <<m, o>>
      BY <3>2 DEF Pruned
    <3> QED
      BY <1>1, <3>1, <3>2
  <2>3. \A w \in e.owners : w[2] \notin e.erased
    BY <1>2, <1>3 DEF TablesOK, GoneOK
  <2> QED
    BY <1>3, <2>2, <2>3 DEF GoneOK, TablesOK
<1>7. BodiesOK(e, op) /\ RequestsOK(e, op)
  BY <1>3 DEF TablesOK, BodiesOK, RequestsOK
<1> QED
  BY <1>3, <1>4, <1>5, <1>6, <1>7 DEF TablesOK, Stored, dels, owners, e

\* Tables that differ in one of the four message tables only.
Else(d, e) ==
    /\ Fields(e)
    /\ e.boxes = d.boxes /\ e.deleg = d.deleg /\ e.pruned = d.pruned
    /\ e.members = d.members /\ e.erased = d.erased /\ e.revoked = d.revoked
    /\ e.dels = d.dels /\ e.owners = d.owners

LEMMA ElseKeeps ==
    ASSUME NEW d, NEW op, TablesOK(d, op), NEW e, Else(d, e)
    PROVE  /\ TreeOK(e)
           /\ e.requests = d.requests => GoneOK(e)
           /\ (\A q \in DOMAIN e.requests : q[3] \notin e.erased) => GoneOK(e)
<1>1. TreeOK(e)
  BY DEF Else, TreeOK, TablesOK
<1>2. \A a : Ancestors(e, a) = Ancestors(d, a)
  BY AncestorsSame DEF Else
<1> QED
  BY <1>1, <1>2 DEF Else, TablesOK, GoneOK

\* The window of a refill is one that was opened for the body.
LEMMA WindowIs ==
    ASSUME NEW d, NEW op, TablesOK(d, op), now \in Nat, NEW k \in DOMAIN d.bodies,
           Open(d, k) # {}
    PROVE  LET window == Max({0} \cup {d.requests[q].until : q \in Open(d, k)})
           IN window \in Nat /\ window > now /\ k \in DOMAIN op /\ window =< op[k]
<1> DEFINE U == {d.requests[q].until : q \in Open(d, k)}
           S == {0} \cup U
<1>1. \A q \in Open(d, k) :
        /\ d.requests[q].until \in Nat /\ d.requests[q].until > now
        /\ k \in DOMAIN op /\ d.requests[q].until =< op[k]
  <2> SUFFICES ASSUME NEW q \in Open(d, k)
               PROVE  /\ d.requests[q].until \in Nat /\ d.requests[q].until > now
                      /\ k \in DOMAIN op /\ d.requests[q].until =< op[k]
    OBVIOUS
  <2>1. q \in DOMAIN d.requests /\ <<q[1], q[2]>> = k /\ d.requests[q].until > now
    BY DEF Open
  <2> QED
    BY <2>1 DEF TablesOK, RequestsOK
<1>2. k \in DOMAIN op /\ op[k] \in Nat
  BY <1>1 DEF TablesOK, BodiesOK
<1>3. U # {} /\ \A u \in U : u \in Nat /\ u > now /\ u =< op[k]
  BY <1>1
<1> HIDE DEF U
<1>4. S \in SUBSET Nat /\ S # {} /\ \A x \in S : x =< op[k]
  BY <1>2, <1>3
<1> HIDE DEF S
<1>5. Max(S) \in S /\ \A x \in S : x =< Max(S)
  BY <1>2, <1>4, BoundedMax
<1>6. \E u \in U : u =< Max(S)
  BY <1>3, <1>5 DEF S
<1>7. Max(S) \in Nat /\ Max(S) > now /\ Max(S) =< op[k]
  <2>1. PICK u \in U : u =< Max(S)
    BY <1>6
  <2>2. Max(S) \in Nat /\ Max(S) =< op[k]
    BY <1>4, <1>5
  <2>3. u \in Nat /\ u > now
    BY <1>3
  <2> QED
    BY <2>1, <2>2, <2>3
<1> QED
  BY <1>2, <1>7 DEF S, U

\* What an upload needs of the tables: a body that expired has an open window, a new
\* body has its locator, and a new locator is the only one of its body.
Uploadable(d, m, o) ==
    LET k == <<Root(d, m), o>>
    IN /\ Kind[o] = "body" /\ k \in DOMAIN d.bodies /\ d.bodies[k].expired => Open(d, k) # {}
       /\ Kind[o] = "body" /\ k \notin DOMAIN d.bodies => \E l \in DOMAIN d.locators : Names(l, k)
       /\ SoleLocator(d, m, o)

LEMMA RecordTables ==
    ASSUME NEW d, NEW op, TablesOK(d, op), now \in Nat, NEW m \in d.boxes, NEW o \in Objects,
           <<m, o>> \in d.dels, Uploadable(d, m, o), NEW message
    PROVE  /\ TablesOK(RecordUpload(d, m, o, message), op)
           /\ Else(d, RecordUpload(d, m, o, message))
           /\ RecordUpload(d, m, o, message).requests = d.requests
           /\ RecordUpload(d, m, o, message).accepts = d.accepts
<1> DEFINE k == <<Root(d, m), o>>
           e == RecordUpload(d, m, o, message)
<1>0. k \in Roots \X Objects /\ k[1] \in d.boxes /\ k[1] = Root(d, m) /\ k[2] = o
  BY RootIs DEF TablesOK
<1>a. Fields(d) /\ RowsOK(d) /\ BodiesOK(d, op) /\ RequestsOK(d, op)
  BY DEF TablesOK
<1>1. CASE Kind[o] = "locator" /\ k \in DOMAIN d.locators
  <2>1. e = [d EXCEPT !.locators = d.locators]
    BY <1>1 DEF RecordUpload
  <2>2. e = d
    BY <2>1, <1>a DEF Fields
  <2> QED
    BY <2>2, <1>a DEF Else
<1>2. CASE Kind[o] = "locator" /\ k \notin DOMAIN d.locators
  <2> DEFINE v == IF Lifetime[o] = Never THEN Never ELSE now + LocatorLife
             L == Put(d.locators, k, v)
  <2>1. e = [d EXCEPT !.locators = L]
    BY <1>2 DEF RecordUpload
  <2>2. v \in Nat
    BY ReplicaAssumption
  <2> HIDE DEF v
  <2>3. /\ DOMAIN L = DOMAIN d.locators \cup {k} /\ L[k] = v
        /\ \A x \in DOMAIN d.locators : L[x] = d.locators[x]
    BY <1>2 DEF Put
  <2> HIDE DEF L
  <2>4. /\ Else(d, e) /\ e.locators = L /\ e.bodies = d.bodies /\ e.copies = d.copies
        /\ e.requests = d.requests /\ e.accepts = d.accepts
    BY <2>1, <1>a DEF Else, Fields
  <2> HIDE DEF e
  <2>5. RowsOK(e)
    <3>1. \A l \in DOMAIN e.locators :
            l \in Roots \X Objects /\ l[1] \in d.boxes /\ Kind[l[2]] = "locator"
      BY <1>0, <1>2, <1>a, <2>3, <2>4 DEF RowsOK
    <3> QED
      BY <1>a, <2>4, <3>1 DEF RowsOK, Else
  <2>6. BodiesOK(e, op)
    <3>1. \A l \in DOMAIN e.locators : e.locators[l] \in Nat
      BY <1>a, <2>2, <2>3, <2>4 DEF BodiesOK
    <3>2. \A l1, l2 \in DOMAIN e.locators :
            l1[1] = l2[1] /\ BodyOf[l1[2]] = BodyOf[l2[2]] => l1 = l2
      <4>1. ASSUME NEW l \in DOMAIN d.locators, l[1] = k[1], BodyOf[l[2]] = BodyOf[k[2]]
            PROVE  l = k
        <5>1. l[2] = o
          BY <4>1, <1>0, <1>2 DEF Uploadable, SoleLocator
        <5>2. l \in Roots \X Objects
          BY <1>a DEF RowsOK
        <5> QED
          BY <4>1, <5>1, <5>2, <1>0
      <4>2. \A l \in DOMAIN d.locators :
              (l[1] = k[1] /\ BodyOf[l[2]] = BodyOf[k[2]] => l = k)
        BY <4>1
      <4> HIDE DEF k
      <4> SUFFICES ASSUME NEW l1 \in DOMAIN e.locators, NEW l2 \in DOMAIN e.locators,
                          l1[1] = l2[1], BodyOf[l1[2]] = BodyOf[l2[2]]
                   PROVE  l1 = l2
        OBVIOUS
      <4>3. (l1 \in DOMAIN d.locators \/ l1 = k) /\ (l2 \in DOMAIN d.locators \/ l2 = k)
        BY <2>3, <2>4
      <4> QED
        BY <4>2, <4>3, <1>a DEF BodiesOK
    <3>3. \A j \in DOMAIN d.bodies : \E l \in DOMAIN e.locators : Names(l, j)
      BY <1>a, <2>3, <2>4 DEF BodiesOK
    <3> QED
      BY <1>a, <2>4, <3>1, <3>2, <3>3 DEF BodiesOK
  <2>7. RequestsOK(e, op)
    BY <1>a, <2>4 DEF RequestsOK
  <2>8. TreeOK(e) /\ GoneOK(e) /\ Fields(e)
    BY <2>4, ElseKeeps DEF Else
  <2> QED
    BY <2>4, <2>5, <2>6, <2>7, <2>8 DEF TablesOK, e
<1>3. ASSUME Kind[o] = "body", NEW B, e = [d EXCEPT !.bodies = B],
             DOMAIN B = DOMAIN d.bodies \cup {k},
             \A x \in DOMAIN d.bodies : x # k => B[x] = d.bodies[x],
             B[k] \in BodyRow,
             B[k].refill # Never => ~B[k].expired /\ k \in DOMAIN op /\ B[k].refill =< op[k]
      PROVE  /\ TablesOK(e, op) /\ Else(d, e)
             /\ e.requests = d.requests /\ e.accepts = d.accepts
  <2>4. /\ Else(d, e) /\ e.bodies = B /\ e.locators = d.locators /\ e.copies = d.copies
        /\ e.requests = d.requests /\ e.accepts = d.accepts
    BY <1>3, <1>a DEF Else, Fields
  <2> HIDE DEF e
  <2>5. RowsOK(e)
    <3>1. \A j \in DOMAIN e.bodies :
            j \in Roots \X Objects /\ j[1] \in d.boxes /\ Kind[j[2]] = "body"
      BY <1>0, <1>3, <1>a, <2>4 DEF RowsOK
    <3> QED
      BY <1>3, <1>a, <2>4, <3>1 DEF RowsOK, Else
  <2>6. BodiesOK(e, op)
    <3>1. \E l \in DOMAIN d.locators : Names(l, k)
      BY <1>3, <1>a DEF Uploadable, BodiesOK
    <3> HIDE DEF k
    <3>2. ASSUME NEW j \in DOMAIN B
          PROVE  /\ B[j] \in BodyRow
                 /\ B[j].refill # Never => ~B[j].expired /\ j \in DOMAIN op /\ B[j].refill =< op[j]
                 /\ \E l \in DOMAIN d.locators : Names(l, j)
      BY <3>1, <1>3, <1>a DEF BodiesOK
    <3> QED
      BY <1>a, <2>4, <3>2 DEF BodiesOK
  <2>7. RequestsOK(e, op)
    BY <1>a, <2>4 DEF RequestsOK
  <2>8. TreeOK(e) /\ GoneOK(e) /\ Fields(e)
    BY <2>4, ElseKeeps DEF Else
  <2> QED
    BY <2>4, <2>5, <2>6, <2>7, <2>8 DEF TablesOK
<1>4. CASE Kind[o] = "body"
  <2> DEFINE w == Max({0} \cup {d.requests[q].until : q \in Open(d, k)})
             x == IF Lifetime[o] = Never THEN Never ELSE w
             fresh == [expires |-> Deadline(now, Lifetime[o]), expired |-> FALSE, refill |-> Never]
             again == [expires |-> x, expired |-> FALSE, refill |-> w]
             B == IF k \notin DOMAIN d.bodies THEN Put(d.bodies, k, fresh)
                  ELSE IF ~d.bodies[k].expired THEN d.bodies
                  ELSE [d.bodies EXCEPT ![k] = again]
  <2>1. e = [d EXCEPT !.bodies = B]
    BY <1>4 DEF RecordUpload
  <2>2. CASE k \notin DOMAIN d.bodies
    <3>1. B = Put(d.bodies, k, fresh)
      BY <2>2
    <3>2. fresh \in BodyRow /\ fresh.refill = Never
      BY ReplicaAssumption DEF BodyRow, Deadline
    <3> HIDE DEF fresh
    <3>3. /\ DOMAIN B = DOMAIN d.bodies \cup {k} /\ B[k] = fresh
          /\ \A j \in DOMAIN d.bodies : j # k => B[j] = d.bodies[j]
      BY <3>1 DEF Put
    <3> HIDE DEF B, e
    <3>7. TablesOK(e, op) /\ Else(d, e) /\ e.requests = d.requests /\ e.accepts = d.accepts
      BY <1>3, <1>4, <2>1, <3>2, <3>3
    <3> QED
      BY <3>7 DEF e
  <2>3. CASE k \in DOMAIN d.bodies /\ ~d.bodies[k].expired
    <3>1. B = d.bodies
      BY <2>3
    <3>2. B[k] \in BodyRow /\ (B[k].refill # Never => ~B[k].expired /\ k \in DOMAIN op /\ B[k].refill =< op[k])
      BY <1>a, <2>3, <3>1 DEF BodiesOK
    <3> HIDE DEF B, e
    <3>3. DOMAIN B = DOMAIN d.bodies \cup {k}
      BY <2>3, <3>1
    <3>7. TablesOK(e, op) /\ Else(d, e) /\ e.requests = d.requests /\ e.accepts = d.accepts
      BY <1>3, <1>4, <2>1, <3>1, <3>2, <3>3
    <3> QED
      BY <3>7 DEF e
  <2>4. CASE k \in DOMAIN d.bodies /\ d.bodies[k].expired
    <3>1. B = [d.bodies EXCEPT ![k] = again]
      BY <2>4
    <3>2. Open(d, k) # {}
      BY <1>4, <2>4 DEF Uploadable
    <3>3. w \in Nat /\ w > now /\ k \in DOMAIN op /\ w =< op[k]
      BY <2>4, <3>2, WindowIs
    <3> HIDE DEF w
    <3>4. x \in Nat
      BY <3>3, ReplicaAssumption
    <3> HIDE DEF x
    <3>5. again \in BodyRow /\ again.refill = w /\ ~again.expired
      BY <3>3, <3>4 DEF BodyRow
    <3> HIDE DEF again
    <3>6. /\ DOMAIN B = DOMAIN d.bodies \cup {k} /\ B[k] = again
          /\ \A j \in DOMAIN d.bodies : j # k => B[j] = d.bodies[j]
      BY <2>4, <3>1
    <3> HIDE DEF B, e
    <3>7. TablesOK(e, op) /\ Else(d, e) /\ e.requests = d.requests /\ e.accepts = d.accepts
      BY <1>3, <1>4, <2>1, <3>3, <3>5, <3>6
    <3> QED
      BY <3>7 DEF e
  <2> HIDE DEF B, e
  <2> QED
    BY <2>2, <2>3, <2>4 DEF e
<1>5. CASE Kind[o] = "plain" /\ message
  <2> DEFINE C == Put(d.copies, <<m, o>>, now)
  <2>1. e = [d EXCEPT !.copies = C]
    BY <1>5 DEF RecordUpload
  <2>2. DOMAIN C \subseteq d.dels
    BY <1>a DEF RowsOK, Put
  <2> HIDE DEF C
  <2>4. /\ Else(d, e) /\ e.copies = C /\ e.bodies = d.bodies /\ e.locators = d.locators
        /\ e.requests = d.requests /\ e.accepts = d.accepts
    BY <2>1, <1>a DEF Else, Fields
  <2> HIDE DEF e
  <2>5. RowsOK(e)
    BY <1>a, <2>2, <2>4 DEF RowsOK, Else
  <2>6. BodiesOK(e, op) /\ RequestsOK(e, op)
    BY <1>a, <2>4 DEF RequestsOK, BodiesOK
  <2>8. TreeOK(e) /\ GoneOK(e) /\ Fields(e)
    BY <2>4, ElseKeeps DEF Else
  <2> QED
    BY <2>4, <2>5, <2>6, <2>8 DEF TablesOK, e
<1>6. CASE Kind[o] = "plain" /\ ~message
  <2>1. e = d
    BY <1>6 DEF RecordUpload
  <2> QED
    BY <2>1, <1>a DEF Else
<1>7. Kind[o] \in {"locator", "body", "plain"}
  BY ReplicaAssumption
<1> QED
  BY <1>1, <1>2, <1>4, <1>5, <1>6, <1>7

\* Windows are only opened further.
Grows(op, p) ==
    /\ DOMAIN op \subseteq DOMAIN p
    /\ \A k \in DOMAIN p : p[k] \in Nat
    /\ \A k \in DOMAIN op : op[k] =< p[k]

LEMMA GrowTables ==
    ASSUME NEW d, NEW op, TablesOK(d, op), NEW p, Grows(op, p)
    PROVE  TablesOK(d, p)
<1>1. BodiesOK(d, p)
  <2>1. ASSUME NEW k \in DOMAIN d.bodies, d.bodies[k].refill # Never
        PROVE  k \in DOMAIN p /\ d.bodies[k].refill =< p[k]
    <3>1. /\ k \in DOMAIN op /\ d.bodies[k].refill =< op[k] /\ op[k] \in Nat
          /\ d.bodies[k].refill \in Nat
      BY <2>1 DEF TablesOK, BodiesOK, BodyRow
    <3>2. k \in DOMAIN p /\ op[k] =< p[k] /\ p[k] \in Nat
      BY <3>1 DEF Grows
    <3> QED
      BY <3>1, <3>2
  <2> QED
    BY <2>1 DEF TablesOK, BodiesOK, Grows
<1>2. RequestsOK(d, p)
  <2>1. ASSUME NEW q \in DOMAIN d.requests
        PROVE  <<q[1], q[2]>> \in DOMAIN p /\ d.requests[q].until =< p[<<q[1], q[2]>>]
    <3> DEFINE k == <<q[1], q[2]>>
    <3>1. k \in DOMAIN op /\ d.requests[q].until =< op[k] /\ d.requests[q].until \in Nat
      BY DEF TablesOK, RequestsOK
    <3> HIDE DEF k
    <3>2. k \in DOMAIN p /\ op[k] =< p[k] /\ p[k] \in Nat /\ op[k] \in Nat
      BY <3>1 DEF Grows, TablesOK, BodiesOK
    <3>3. k \in DOMAIN p /\ d.requests[q].until =< p[k]
      BY <3>1, <3>2
    <3> QED
      BY <3>3 DEF k
  <2> QED
    BY <2>1 DEF TablesOK, RequestsOK
<1> QED
  BY <1>1, <1>2 DEF TablesOK

RequestRow == [from : Nat, until : Nat, proof : Nat]

\* A request that is written down.
LEMMA RequestTables ==
    ASSUME NEW d, NEW op, TablesOK(d, op), NEW k \in DOMAIN d.bodies, NEW i \in Identities,
           i \notin d.erased, NEW row \in RequestRow,
           row.from =< row.until, row.until =< row.proof, k \in DOMAIN op, row.until =< op[k]
    PROVE  LET q == <<k[1], k[2], i>>
               e == [d EXCEPT !.requests = Put(@, q, row)]
           IN /\ TablesOK(e, op) /\ Else(d, e)
              /\ e.bodies = d.bodies /\ e.locators = d.locators /\ e.accepts = d.accepts
              /\ e.requests = Put(d.requests, q, row)
<1> DEFINE q == <<k[1], k[2], i>>
           R == Put(d.requests, q, row)
           e == [d EXCEPT !.requests = R]
<1>0. k \in Roots \X Objects /\ q \in Roots \X Objects \X Identities /\ <<q[1], q[2]>> = k /\ q[3] = i
  BY DEF TablesOK, RowsOK
<1> HIDE DEF q
<1>1. /\ DOMAIN R = DOMAIN d.requests \cup {q} /\ R[q] = row
      /\ \A x \in DOMAIN d.requests : x # q => R[x] = d.requests[x]
  BY DEF Put
<1> HIDE DEF R
<1>2. /\ Else(d, e) /\ e.requests = R /\ e.bodies = d.bodies /\ e.locators = d.locators
      /\ e.copies = d.copies /\ e.accepts = d.accepts
  BY DEF Else, TablesOK, Fields
<1> HIDE DEF e
<1>3. RowsOK(e)
  BY <1>0, <1>1, <1>2 DEF TablesOK, RowsOK, Else
<1>4. TreeOK(e) /\ GoneOK(e) /\ Fields(e)
  <2>1. \A x \in DOMAIN e.requests : x[3] \notin e.erased
    BY <1>0, <1>1, <1>2 DEF TablesOK, GoneOK, Else
  <2> QED
    BY <1>2, <2>1, ElseKeeps DEF Else
<1>5. BodiesOK(e, op)
  BY <1>2 DEF TablesOK, BodiesOK
<1>6. RequestsOK(e, op)
  <2>1. ASSUME NEW x \in DOMAIN e.requests
        PROVE  /\ e.requests[x] \in RequestRow
               /\ e.requests[x].from =< e.requests[x].until
               /\ e.requests[x].until =< e.requests[x].proof
               /\ <<x[1], x[2]>> \in DOMAIN op
               /\ e.requests[x].until =< op[<<x[1], x[2]>>]
    <3>1. CASE x = q
      BY <3>1, <1>0, <1>1, <1>2
    <3>2. CASE x # q
      <4>1. x \in DOMAIN d.requests /\ e.requests[x] = d.requests[x]
        BY <3>2, <1>1, <1>2
      <4> QED
        BY <4>1 DEF TablesOK, RequestsOK, RequestRow
    <3> QED
      BY <3>1, <3>2
  <2> QED
    BY <1>2, <2>1 DEF TablesOK, RequestsOK, RequestRow
<1> QED
  BY <1>2, <1>3, <1>4, <1>5, <1>6 DEF TablesOK, e, R, q

AcceptRow == [until : Nat, proof : Nat]

\* An acceptance that is written down, and closes the window of its account.
Closed(d, q, row) ==
    [d EXCEPT !.accepts = Put(@, q, row),
              !.requests = IF q \in DOMAIN @ THEN [@ EXCEPT ![q].until = d.requests[q].from] ELSE @]

LEMMA CloseTables ==
    ASSUME NEW d, NEW op, TablesOK(d, op), NEW k \in DOMAIN d.bodies, NEW i \in Identities,
           NEW row \in AcceptRow
    PROVE  LET q == <<k[1], k[2], i>>
               e == Closed(d, q, row)
           IN /\ TablesOK(e, op) /\ Else(d, e)
              /\ e.bodies = d.bodies /\ e.locators = d.locators
              /\ e.accepts = Put(d.accepts, q, row)
              /\ DOMAIN e.requests = DOMAIN d.requests
              /\ \A x \in DOMAIN d.requests :
                   /\ e.requests[x].proof = d.requests[x].proof
                   /\ e.requests[x].until =< d.requests[x].until
<1> DEFINE q == <<k[1], k[2], i>>
           A == Put(d.accepts, q, row)
           R == IF q \in DOMAIN d.requests
                THEN [d.requests EXCEPT ![q].until = d.requests[q].from] ELSE d.requests
           e == Closed(d, q, row)
<1>0. k \in Roots \X Objects /\ q \in Roots \X Objects \X Identities /\ <<q[1], q[2]>> = k
  BY DEF TablesOK, RowsOK
<1> HIDE DEF q
<1>1. /\ DOMAIN A = DOMAIN d.accepts \cup {q} /\ A[q] = row
      /\ \A x \in DOMAIN d.accepts : x # q => A[x] = d.accepts[x]
  BY DEF Put
<1> HIDE DEF A
<1>2. /\ DOMAIN R = DOMAIN d.requests
      /\ \A x \in DOMAIN d.requests :
           /\ R[x] \in RequestRow /\ R[x].proof = d.requests[x].proof
           /\ R[x].from =< R[x].until /\ R[x].until =< d.requests[x].until
  <2>1. ASSUME NEW x \in DOMAIN d.requests
        PROVE  /\ d.requests[x] \in RequestRow
               /\ d.requests[x].from \in Nat /\ d.requests[x].until \in Nat
               /\ d.requests[x].from =< d.requests[x].until
    BY DEF TablesOK, RequestsOK, RequestRow
  <2>2. CASE q \in DOMAIN d.requests
    <3> DEFINE old == d.requests[q]
               new == [old EXCEPT !.until = old.from]
    <3>1. R = [d.requests EXCEPT ![q] = new]
      BY <2>2
    <3>2. old \in RequestRow /\ old.from \in Nat /\ old.until \in Nat /\ old.from =< old.until
      BY <2>1, <2>2
    <3>3. /\ new \in RequestRow /\ new.proof = old.proof /\ new.from =< new.until
          /\ new.until =< old.until
      <4> HIDE DEF old
      <4> QED
        BY <3>2 DEF RequestRow
    <3> HIDE DEF R, new
    <3> QED
      BY <2>1, <2>2, <3>1, <3>3
  <2>3. CASE q \notin DOMAIN d.requests
    BY <2>1, <2>3
  <2> QED
    BY <2>2, <2>3
<1>3. e = [d EXCEPT !.accepts = A, !.requests = R]
  BY DEF Closed, A
<1> HIDE DEF R, e
<1>4. /\ Else(d, e) /\ e.requests = R /\ e.bodies = d.bodies /\ e.locators = d.locators
      /\ e.copies = d.copies /\ e.accepts = A
  BY <1>3 DEF Else, TablesOK, Fields
<1>5. RowsOK(e)
  BY <1>0, <1>1, <1>2, <1>4 DEF TablesOK, RowsOK, Else
<1>6. TreeOK(e) /\ GoneOK(e) /\ Fields(e)
  <2>1. \A x \in DOMAIN e.requests : x[3] \notin e.erased
    BY <1>2, <1>4 DEF TablesOK, GoneOK, Else
  <2> QED
    BY <1>4, <2>1, ElseKeeps DEF Else
<1>7. BodiesOK(e, op)
  BY <1>4 DEF TablesOK, BodiesOK
<1>8. RequestsOK(e, op)
  <2>1. ASSUME NEW x \in DOMAIN e.requests
        PROVE  /\ e.requests[x] \in RequestRow
               /\ e.requests[x].from =< e.requests[x].until
               /\ e.requests[x].until =< e.requests[x].proof
               /\ <<x[1], x[2]>> \in DOMAIN op
               /\ e.requests[x].until =< op[<<x[1], x[2]>>]
    <3>1. x \in DOMAIN d.requests /\ e.requests[x] = R[x]
      BY <1>2, <1>4
    <3>2. /\ d.requests[x].until =< d.requests[x].proof
          /\ d.requests[x].until \in Nat /\ d.requests[x].proof \in Nat
          /\ <<x[1], x[2]>> \in DOMAIN op
          /\ d.requests[x].until =< op[<<x[1], x[2]>>]
          /\ op[<<x[1], x[2]>>] \in Nat
      BY <3>1 DEF TablesOK, RequestsOK, BodiesOK
    <3>3. R[x].until \in Nat /\ R[x] \in RequestRow /\ R[x].proof = d.requests[x].proof
          /\ R[x].from =< R[x].until /\ R[x].until =< d.requests[x].until
      BY <1>2, <3>1 DEF RequestRow
    <3> QED
      BY <3>1, <3>2, <3>3
  <2>2. ASSUME NEW x \in DOMAIN e.accepts PROVE e.accepts[x] \in AcceptRow
    BY <1>1, <1>4 DEF TablesOK, RequestsOK, AcceptRow
  <2> QED
    BY <2>1, <2>2 DEF RequestsOK, RequestRow, AcceptRow
<1>9. \A x \in DOMAIN d.requests :
        e.requests[x].proof = d.requests[x].proof /\ e.requests[x].until =< d.requests[x].until
  BY <1>2, <1>4
<1> QED
  BY <1>2, <1>4, <1>5, <1>6, <1>7, <1>8, <1>9 DEF TablesOK, e, A, q

-----------------------------------------------------------------------------
(* Mailboxes that come and go.                                              *)

LEMMA ParentAbove ==
    ASSUME NEW d, TreeOK(d), NEW c \in DOMAIN d.deleg
    PROVE  c \in d.boxes /\ d.deleg[c].parent \in Ancestors(d, c)
<1>1. c \in d.boxes
  BY DEF TreeOK
<1> QED
  BY <1>1, AncestorsAre

\* The rows of a set of mailboxes that hangs together downwards.
\* The rows of other mailboxes than those of S.
Outside(X, S) == {x \in X : x[1] \notin S}

LEMMA RemovedBoxes ==
    ASSUME NEW d, NEW op, TablesOK(d, op), NEW S,
           \A m \in d.boxes \ S : Ancestors(d, m) \cap S = {}
    PROVE  LET e == RemoveBoxes(d, S)
           IN /\ TablesOK(e, op)
              /\ e.boxes = d.boxes \ S
              /\ e.deleg = Drop(d.deleg, S)
              /\ e.dels = Outside(d.dels, S)
              /\ Part(e.bodies, d.bodies) /\ Part(e.requests, d.requests)
              /\ Part(e.locators, d.locators) /\ Part(e.accepts, d.accepts)
              /\ DOMAIN e.locators = Outside(DOMAIN d.locators, S)
              /\ DOMAIN e.accepts = Outside(DOMAIN d.accepts, S)
              /\ e.erased = d.erased
              /\ \A m \in e.boxes : Ancestors(e, m) = Ancestors(d, m)
<1> DEFINE dels == {x \in d.dels : x[1] \notin S}
           deleg == Drop(d.deleg, S)
           boxes == d.boxes \ S
           members == Drop(d.members, S)
           pruned == {p \in d.pruned : p[1] \notin S}
           bodies == Keep(d.bodies, {k \in DOMAIN d.bodies : k[1] \notin S})
           locators == Keep(d.locators, {k \in DOMAIN d.locators : k[1] \notin S})
           requests == Keep(d.requests, {k \in DOMAIN d.requests : k[1] \notin S})
           accepts == Keep(d.accepts, {k \in DOMAIN d.accepts : k[1] \notin S})
           b == [d EXCEPT !.dels = dels, !.deleg = deleg, !.boxes = boxes, !.members = members,
                          !.pruned = pruned, !.bodies = bodies, !.locators = locators,
                          !.requests = requests, !.accepts = accepts]
           e == RemoveBoxes(d, S)
<1>1. e = Cascade(b)
  BY DEF RemoveBoxes
<1>a. Fields(d) /\ TreeOK(d) /\ RowsOK(d) /\ GoneOK(d) /\ BodiesOK(d, op) /\ RequestsOK(d, op)
  BY DEF TablesOK
<1>2. /\ Part(bodies, d.bodies) /\ Part(locators, d.locators)
      /\ Part(requests, d.requests) /\ Part(accepts, d.accepts)
      /\ \A k \in DOMAIN d.bodies : k \in DOMAIN bodies <=> k[1] \notin S
      /\ \A k \in DOMAIN d.locators : k \in DOMAIN locators <=> k[1] \notin S
      /\ \A k \in DOMAIN d.requests : k \in DOMAIN requests <=> k[1] \notin S
      /\ \A k \in DOMAIN d.accepts : k \in DOMAIN accepts <=> k[1] \notin S
  BY DEF Part, Keep
<1>3. /\ DOMAIN deleg = DOMAIN d.deleg \ S /\ \A c \in DOMAIN deleg : deleg[c] = d.deleg[c]
      /\ DOMAIN members = DOMAIN d.members \ S
      /\ \A c \in DOMAIN members : members[c] = d.members[c]
  BY DEF Drop
<1> HIDE DEF dels, deleg, boxes, members, pruned, bodies, locators, requests, accepts
<1>4. /\ Fields(b)
      /\ b.boxes = boxes /\ b.deleg = deleg /\ b.pruned = pruned
      /\ b.members = members /\ b.erased = d.erased /\ b.revoked = d.revoked
      /\ b.dels = dels /\ b.copies = d.copies /\ b.owners = d.owners
      /\ b.bodies = bodies /\ b.locators = locators
      /\ b.requests = requests /\ b.accepts = accepts
  BY <1>a DEF Fields
<1> HIDE DEF b, e
<1>5. /\ Fields(e)
      /\ e.boxes = boxes /\ e.deleg = deleg /\ e.pruned = pruned
      /\ e.members = members /\ e.erased = d.erased /\ e.revoked = d.revoked
      /\ e.dels = dels /\ e.copies = Keep(d.copies, dels) /\ e.owners \subseteq d.owners
      /\ e.bodies = bodies /\ e.locators = locators
      /\ e.requests = requests /\ e.accepts = accepts
  BY <1>1, <1>4, CascadeFields
<1>6. TreeOK(e)
  <2>1. /\ e.boxes \subseteq Roots \cup Children
        /\ DOMAIN e.deleg = e.boxes \cap Children
    BY <1>a, <1>3, <1>5 DEF TreeOK, boxes
  <2>2. ASSUME NEW c \in DOMAIN e.deleg
        PROVE  /\ c \in DOMAIN d.deleg /\ e.deleg[c] = d.deleg[c]
               /\ d.deleg[c].parent \notin S
    <3>1. c \in DOMAIN d.deleg /\ e.deleg[c] = d.deleg[c] /\ c \notin S
      BY <1>3, <1>5
    <3>2. c \in d.boxes /\ d.deleg[c].parent \in Ancestors(d, c)
      BY <1>a, <3>1, ParentAbove
    <3> QED
      BY <3>1, <3>2
  <2>3. ASSUME NEW c \in DOMAIN e.deleg
        PROVE  /\ e.deleg[c].parent \in e.boxes
               /\ e.deleg[c].expires \in Nat
               /\ e.deleg[c].parent \in DOMAIN e.deleg =>
                    /\ e.deleg[e.deleg[c].parent].parent \notin DOMAIN e.deleg
                    /\ e.deleg[c].expires =< e.deleg[e.deleg[c].parent].expires
    BY <2>2, <1>a, <1>3, <1>5 DEF TreeOK, boxes
  <2> QED
    BY <2>1, <2>3 DEF TreeOK
<1>7. ASSUME NEW m \in e.boxes PROVE Ancestors(e, m) = Ancestors(d, m)
  <2>1. m \in d.boxes /\ m \notin S /\ Ancestors(d, m) \cap S = {}
    BY <1>5 DEF boxes
  <2>2. \A a : a \notin S => (a \in DOMAIN e.deleg <=> a \in DOMAIN d.deleg)
    BY <1>3, <1>5
  <2>3. \A a \in DOMAIN e.deleg : e.deleg[a] = d.deleg[a]
    BY <1>3, <1>5
  <2>4. CASE m \notin DOMAIN d.deleg
    BY <2>1, <2>2, <2>4, <1>a, <1>6, AncestorsAre
  <2>5. CASE m \in DOMAIN d.deleg
    <3> DEFINE p == d.deleg[m].parent
    <3>1. m \in DOMAIN e.deleg /\ e.deleg[m].parent = p
      BY <2>1, <2>2, <2>3, <2>5
    <3>2. p \notin S
      BY <2>1, <2>5, <1>a, ParentAbove
    <3>3. CASE p \notin DOMAIN d.deleg
      <4>1. p \notin DOMAIN e.deleg
        BY <3>2, <3>3, <2>2
      <4>2. Ancestors(e, m) = {m, p}
        BY <1>6, <3>1, <4>1, AncestorsAre
      <4>3. Ancestors(d, m) = {m, p}
        BY <1>a, <2>1, <2>5, <3>3, AncestorsAre
      <4> QED
        BY <4>2, <4>3
    <3>4. CASE p \in DOMAIN d.deleg
      <4> DEFINE g == d.deleg[p].parent
      <4>1. p \in DOMAIN e.deleg /\ e.deleg[p].parent = g
        BY <3>2, <3>4, <2>2, <2>3
      <4>2. Ancestors(e, m) = {m, p, g}
        BY <1>6, <3>1, <4>1, AncestorsAre
      <4>3. Ancestors(d, m) = {m, p, g}
        BY <1>a, <2>1, <2>5, <3>4, AncestorsAre
      <4> QED
        BY <4>2, <4>3
    <3> QED
      BY <3>3, <3>4
  <2> QED
    BY <2>4, <2>5
<1>8. RowsOK(e)
  <2>1. e.dels \subseteq e.boxes \X Objects
    BY <1>a, <1>5 DEF RowsOK, dels, boxes
  <2>2. DOMAIN e.copies \subseteq e.dels
    BY <1>5 DEF Keep
  <2>3. e.owners \subseteq Objects \X Identities /\ e.pruned \subseteq Roots \X Objects
    BY <1>a, <1>5 DEF RowsOK, pruned
  <2>4. /\ \A k \in DOMAIN e.bodies :
             k \in Roots \X Objects /\ k[1] \in e.boxes /\ Kind[k[2]] = "body"
        /\ \A k \in DOMAIN e.locators :
             k \in Roots \X Objects /\ k[1] \in e.boxes /\ Kind[k[2]] = "locator"
    BY <1>a, <1>2, <1>5 DEF RowsOK, Part, boxes
  <2>5. \A q \in DOMAIN e.requests \cup DOMAIN e.accepts :
          q \in Roots \X Objects \X Identities /\ <<q[1], q[2]>> \in DOMAIN e.bodies
    BY <1>a, <1>2, <1>5 DEF RowsOK, Part
  <2> QED
    BY <2>1, <2>2, <2>3, <2>4, <2>5 DEF RowsOK
<1>9. GoneOK(e)
  <2>1. ASSUME NEW x \in e.dels, NEW r \in Roots, r \in Ancestors(e, x[1])
        PROVE  <<r, x[2]>> \notin e.pruned
    <3>1. x \in d.dels /\ x[1] \in e.boxes
      BY <1>5, <1>8 DEF dels, RowsOK
    <3>2. r \in Ancestors(d, x[1])
      BY <2>1, <3>1, <1>7
    <3> QED
      BY <1>a, <1>5, <3>1, <3>2 DEF GoneOK, pruned
  <2>2. /\ \A w \in e.owners : w[2] \notin e.erased
        /\ \A r \in DOMAIN e.members : e.members[r] \cap e.erased = {}
        /\ \A q \in DOMAIN e.requests : q[3] \notin e.erased
    BY <1>a, <1>2, <1>3, <1>5 DEF GoneOK, Part
  <2> QED
    BY <2>1, <2>2 DEF GoneOK
<1>10. BodiesOK(e, op)
  <2>1. ASSUME NEW k \in DOMAIN e.bodies PROVE \E l \in DOMAIN e.locators : Names(l, k)
    BY <1>a, <1>2, <1>5 DEF BodiesOK, Part, Names
  <2> QED
    BY <2>1, <1>a, <1>2, <1>5 DEF BodiesOK, Part
<1>11. RequestsOK(e, op)
  BY <1>a, <1>2, <1>5 DEF RequestsOK, Part
<1>12. TablesOK(e, op)
  BY <1>5, <1>6, <1>8, <1>9, <1>10, <1>11 DEF TablesOK
<1>13. /\ e.dels = Outside(d.dels, S)
       /\ DOMAIN e.locators = Outside(DOMAIN d.locators, S)
       /\ DOMAIN e.accepts = Outside(DOMAIN d.accepts, S)
  BY <1>2, <1>5 DEF dels, Outside, Part
<1> QED
  BY <1>2, <1>5, <1>7, <1>12, <1>13 DEF e, boxes, deleg

\* Two levels below a root, so that a child of this mailbox is not too deep.
LEMMA Shallow ==
    ASSUME NEW d, TreeOK(d), NEW p \in d.boxes, Cardinality(Ancestors(d, p)) =< 2,
           p \in DOMAIN d.deleg
    PROVE  d.deleg[p].parent \notin DOMAIN d.deleg
<1> SUFFICES ASSUME d.deleg[p].parent \in DOMAIN d.deleg PROVE FALSE
  OBVIOUS
<1> DEFINE q == d.deleg[p].parent
           g == d.deleg[q].parent
<1>1. Ancestors(d, p) = {p, q, g} /\ p # q /\ p # g /\ q # g
  BY AncestorsAre
<1> HIDE DEF q, g
<1>2. {p, q, g} = {p, q} \cup {g} /\ g \notin {p, q}
  BY <1>1
<1>3. IsFiniteSet({p, q}) /\ Cardinality({p, q}) = 2
  <2> DEFINE T == {p}
  <2>1. IsFiniteSet(T) /\ Cardinality(T) = 1
    BY FS_Singleton
  <2>2. {p, q} = T \cup {q} /\ q \notin T
    BY <1>1
  <2> HIDE DEF T
  <2>3. IsFiniteSet(T \cup {q}) /\ Cardinality(T \cup {q}) = Cardinality(T) + 1
    BY <2>1, <2>2, FS_AddElement
  <2> QED
    BY <2>1, <2>2, <2>3
<1>4. Cardinality({p, q, g}) = 3
  BY <1>2, <1>3, FS_AddElement
<1> QED
  BY <1>1, <1>4

\* A child of p.
Delegated(d, p, c, until) ==
    [d EXCEPT !.boxes = @ \cup {c}, !.deleg = Put(@, c, [parent |-> p, expires |-> until])]

\* The mailboxes of d have the same ones above them in e.
SameAbove(d, e) == \A m \in d.boxes : Ancestors(e, m) = Ancestors(d, m)

LEMMA DelegatedTables ==
    ASSUME NEW d, NEW op, TablesOK(d, op), NEW p \in d.boxes, NEW c \in Children, c \notin d.boxes,
           NEW until \in Nat,
           p \in DOMAIN d.deleg =>
             d.deleg[p].parent \notin DOMAIN d.deleg /\ until =< d.deleg[p].expires
    PROVE  LET e == Delegated(d, p, c, until)
           IN /\ TablesOK(e, op)
              /\ e.boxes = d.boxes \cup {c}
              /\ e.deleg = Put(d.deleg, c, [parent |-> p, expires |-> until])
              /\ e.dels = d.dels /\ e.bodies = d.bodies /\ e.locators = d.locators
              /\ e.requests = d.requests /\ e.accepts = d.accepts /\ e.erased = d.erased
              /\ SameAbove(d, e)
<1> DEFINE row == [parent |-> p, expires |-> until]
           D == Put(d.deleg, c, row)
           e == [d EXCEPT !.boxes = d.boxes \cup {c}, !.deleg = D]
<1>a. Fields(d) /\ TreeOK(d) /\ RowsOK(d) /\ GoneOK(d) /\ BodiesOK(d, op) /\ RequestsOK(d, op)
  BY DEF TablesOK
<1>0. Delegated(d, p, c, until) = e
  BY DEF Delegated
<1>1. row.parent = p /\ row.expires = until
  OBVIOUS
<1>2. /\ DOMAIN D = DOMAIN d.deleg \cup {c} /\ D[c] = row
      /\ \A x \in DOMAIN d.deleg : x # c => D[x] = d.deleg[x]
  BY DEF Put
<1>3. c \notin DOMAIN d.deleg
  BY <1>a DEF TreeOK
<1> HIDE DEF row, D
<1>4. /\ Fields(e) /\ e.boxes = d.boxes \cup {c} /\ e.deleg = D
      /\ e.pruned = d.pruned /\ e.members = d.members /\ e.erased = d.erased
      /\ e.dels = d.dels /\ e.copies = d.copies /\ e.owners = d.owners
      /\ e.bodies = d.bodies /\ e.locators = d.locators
      /\ e.requests = d.requests /\ e.accepts = d.accepts
  BY <1>a DEF Fields
<1> HIDE DEF e
<1>5. TreeOK(e)
  <2>1. e.boxes \subseteq Roots \cup Children /\ DOMAIN e.deleg = e.boxes \cap Children
    BY <1>a, <1>2, <1>4 DEF TreeOK
  <2>2. ASSUME NEW x \in DOMAIN d.deleg
        PROVE  e.deleg[x] = d.deleg[x] /\ d.deleg[x].parent # c
    BY <1>a, <1>2, <1>3, <1>4 DEF TreeOK
  <2>3. ASSUME NEW x \in DOMAIN e.deleg
        PROVE  /\ e.deleg[x].parent \in e.boxes
               /\ e.deleg[x].expires \in Nat
               /\ e.deleg[x].parent \in DOMAIN e.deleg =>
                    /\ e.deleg[e.deleg[x].parent].parent \notin DOMAIN e.deleg
                    /\ e.deleg[x].expires =< e.deleg[e.deleg[x].parent].expires
    <3>1. CASE x = c
      <4>1. e.deleg[x].parent = p /\ e.deleg[x].expires = until
        BY <3>1, <1>1, <1>2, <1>4
      <4>2. p # c /\ (p \in DOMAIN e.deleg => p \in DOMAIN d.deleg)
        BY <1>2, <1>4
      <4>3. p \in DOMAIN d.deleg =>
              /\ e.deleg[p].parent \notin DOMAIN e.deleg /\ until =< e.deleg[p].expires
        BY <2>2, <1>2, <1>4
      <4> QED
        BY <4>1, <4>2, <4>3, <1>4
    <3>2. CASE x # c
      <4>1. x \in DOMAIN d.deleg /\ e.deleg[x] = d.deleg[x] /\ d.deleg[x].parent # c
        BY <3>2, <2>2, <1>2, <1>4
      <4>2. d.deleg[x].parent \in DOMAIN e.deleg =>
              /\ d.deleg[x].parent \in DOMAIN d.deleg
              /\ e.deleg[d.deleg[x].parent] = d.deleg[d.deleg[x].parent]
              /\ d.deleg[d.deleg[x].parent].parent # c
        BY <4>1, <2>2, <1>2, <1>4
      <4> QED
        BY <4>1, <4>2, <1>a, <1>2, <1>4 DEF TreeOK
    <3> QED
      BY <3>1, <3>2
  <2> QED
    BY <2>1, <2>3 DEF TreeOK
<1>6. ASSUME NEW m \in d.boxes PROVE Ancestors(e, m) = Ancestors(d, m)
  <2>1. m # c /\ m \in e.boxes
    BY <1>4
  <2>2. \A a \in d.boxes : /\ a \in DOMAIN e.deleg <=> a \in DOMAIN d.deleg
                           /\ a \in DOMAIN d.deleg => e.deleg[a] = d.deleg[a]
    BY <1>2, <1>4
  <2>3. CASE m \notin DOMAIN d.deleg
    BY <2>1, <2>2, <2>3, <1>a, <1>5, AncestorsAre
  <2>4. CASE m \in DOMAIN d.deleg
    <3> DEFINE q == d.deleg[m].parent
    <3>1. m \in DOMAIN e.deleg /\ e.deleg[m].parent = q /\ q \in d.boxes
      BY <2>2, <2>4, <1>a DEF TreeOK
    <3>3. CASE q \notin DOMAIN d.deleg
      <4>2. Ancestors(e, m) = {m, q}
        BY <1>5, <2>1, <2>2, <3>1, <3>3, AncestorsAre
      <4>3. Ancestors(d, m) = {m, q}
        BY <1>a, <2>4, <3>3, AncestorsAre
      <4> QED
        BY <4>2, <4>3
    <3>4. CASE q \in DOMAIN d.deleg
      <4> DEFINE g == d.deleg[q].parent
      <4>1. q \in DOMAIN e.deleg /\ e.deleg[q].parent = g
        BY <3>1, <3>4, <2>2
      <4>2. Ancestors(e, m) = {m, q, g}
        BY <1>5, <2>1, <3>1, <4>1, AncestorsAre
      <4>3. Ancestors(d, m) = {m, q, g}
        BY <1>a, <2>4, <3>4, AncestorsAre
      <4> QED
        BY <4>2, <4>3
    <3> QED
      BY <3>3, <3>4
  <2> QED
    BY <2>3, <2>4
<1>7. RowsOK(e)
  BY <1>a, <1>4 DEF RowsOK
<1>8. GoneOK(e)
  <2>1. \A x \in d.dels : x[1] \in d.boxes
    BY <1>a DEF RowsOK
  <2> QED
    BY <1>a, <1>4, <1>6, <2>1 DEF GoneOK
<1>9. BodiesOK(e, op) /\ RequestsOK(e, op)
  BY <1>a, <1>4 DEF BodiesOK, RequestsOK
<1>10. TablesOK(e, op)
  BY <1>4, <1>5, <1>7, <1>8, <1>9 DEF TablesOK
<1> QED
  BY <1>0, <1>4, <1>6, <1>10 DEF D, row, SameAbove

\* A new root.
LEMMA ReservedTables ==
    ASSUME NEW d, NEW op, TablesOK(d, op), NEW r \in Roots, r \notin d.boxes
    PROVE  LET e == [d EXCEPT !.boxes = @ \cup {r}]
           IN /\ TablesOK(e, op)
              /\ e.boxes = d.boxes \cup {r} /\ e.deleg = d.deleg
              /\ e.dels = d.dels /\ e.bodies = d.bodies /\ e.locators = d.locators
              /\ e.requests = d.requests /\ e.accepts = d.accepts /\ e.erased = d.erased
<1> DEFINE e == [d EXCEPT !.boxes = d.boxes \cup {r}]
<1>a. Fields(d) /\ TreeOK(d) /\ RowsOK(d) /\ GoneOK(d) /\ BodiesOK(d, op) /\ RequestsOK(d, op)
  BY DEF TablesOK
<1>1. /\ Fields(e) /\ e.boxes = d.boxes \cup {r} /\ e.deleg = d.deleg
      /\ e.pruned = d.pruned /\ e.members = d.members /\ e.erased = d.erased
      /\ e.dels = d.dels /\ e.copies = d.copies /\ e.owners = d.owners
      /\ e.bodies = d.bodies /\ e.locators = d.locators
      /\ e.requests = d.requests /\ e.accepts = d.accepts
  BY <1>a DEF Fields
<1> HIDE DEF e
<1>2. TreeOK(e)
  BY <1>a, <1>1, ReplicaAssumption DEF TreeOK
<1>3. RowsOK(e)
  BY <1>a, <1>1 DEF RowsOK
<1>4. GoneOK(e)
  <2>1. \A m : Ancestors(e, m) = Ancestors(d, m)
    BY <1>1, AncestorsSame
  <2> QED
    BY <1>a, <1>1, <2>1 DEF GoneOK
<1>5. BodiesOK(e, op) /\ RequestsOK(e, op)
  BY <1>a, <1>1 DEF BodiesOK, RequestsOK
<1>6. TablesOK(e, op)
  BY <1>1, <1>2, <1>3, <1>4, <1>5 DEF TablesOK
<1> QED
  BY <1>1, <1>6 DEF e

\* Mailboxes are kept: what hangs from what, and the message rows other than requests.
Steady(d, e) ==
    /\ Fields(e) /\ e.boxes = d.boxes /\ e.deleg = d.deleg
    /\ e.dels \subseteq d.dels /\ DOMAIN e.copies \subseteq e.dels /\ e.owners \subseteq d.owners
    /\ e.bodies = d.bodies /\ e.locators = d.locators
    /\ Part(e.requests, d.requests) /\ Part(e.accepts, d.accepts)

LEMMA SteadyTables ==
    ASSUME NEW d, NEW op, TablesOK(d, op), NEW e, Steady(d, e),
           e.pruned \subseteq Roots \X Objects, GoneOK(e)
    PROVE  TablesOK(e, op)
<1>1. TreeOK(e)
  BY DEF TreeOK, TablesOK, Steady
<1>2. RowsOK(e)
  BY DEF RowsOK, TablesOK, Steady, Part
<1>3. BodiesOK(e, op) /\ RequestsOK(e, op)
  BY DEF BodiesOK, RequestsOK, TablesOK, Steady, Part
<1> QED
  BY <1>1, <1>2, <1>3 DEF TablesOK, Steady

-----------------------------------------------------------------------------
(* The actions keep the tables.                                             *)

LEMMA CreateTables ==
    ASSUME TablesOK(db, opened), now \in Nat, NEW p \in db.boxes, NEW c \in Children,
           NEW until \in Nat, CreateChild(p, c, until)
    PROVE  /\ TablesOK(db', opened')
           /\ \E S : /\ S \subseteq DOMAIN db.deleg
                     /\ \A m \in S : db.deleg[m].expires =< now
                     /\ \A m \in db.boxes \ S : Ancestors(db, m) \cap S = {}
                     /\ c \notin db.boxes \ S /\ p \in db.boxes \ S
                     /\ LET d == IF S = {} THEN db ELSE RemoveBoxes(db, S)
                        IN /\ TablesOK(d, opened) /\ d.boxes = db.boxes \ S
                           /\ p \in DOMAIN d.deleg =>
                                d.deleg[p].parent \notin DOMAIN d.deleg /\ until =< d.deleg[p].expires
                           /\ db' = Delegated(d, p, c, until)
<1> DEFINE S == {m \in db.boxes : \E a \in Ancestors(db, m) \cap DOMAIN db.deleg :
                                     db.deleg[a].expires =< now}
           d == IF S = {} THEN db ELSE RemoveBoxes(db, S)
<1>a. TreeOK(db)
  BY DEF TablesOK
<1>1. /\ Authorized(db, p) /\ until > now
      /\ Cardinality(Ancestors(d, p)) =< 2
      /\ c \notin d.boxes
      /\ \A a \in Ancestors(d, p) :
           a \in d.boxes /\ (a \in DOMAIN d.deleg => until =< d.deleg[a].expires)
      /\ db' = Delegated(d, p, c, until)
      /\ opened' = opened
  BY DEF CreateChild, Delegated, history
<1>2. \A m \in S : m \in DOMAIN db.deleg /\ db.deleg[m].expires =< now
  <2> SUFFICES ASSUME NEW m \in S PROVE m \in DOMAIN db.deleg /\ db.deleg[m].expires =< now
    OBVIOUS
  <2>1. PICK a \in Ancestors(db, m) : a \in DOMAIN db.deleg /\ db.deleg[a].expires =< now
    OBVIOUS
  <2>2. /\ m \in DOMAIN db.deleg
        /\ db.deleg[m].expires \in Nat /\ db.deleg[a].expires \in Nat
        /\ db.deleg[m].expires =< db.deleg[a].expires
    BY <1>a, <2>1, AncestorsUp
  <2> QED
    BY <2>1, <2>2
<1>3. \A m \in db.boxes \ S : Ancestors(db, m) \cap S = {}
  <2> SUFFICES ASSUME NEW m \in db.boxes, NEW a \in Ancestors(db, m), a \in S PROVE m \in S
    OBVIOUS
  <2>1. Ancestors(db, a) \subseteq Ancestors(db, m)
    BY <1>a, AncestorsUp
  <2> QED
    BY <2>1
<1> HIDE DEF S
<1>4. TablesOK(d, opened) /\ d.boxes = db.boxes \ S
  <2>1. CASE S = {}
    BY <2>1
  <2>2. CASE S # {}
    <3>1. d = RemoveBoxes(db, S)
      BY <2>2
    <3> HIDE DEF d
    <3>2. TablesOK(RemoveBoxes(db, S), opened) /\ RemoveBoxes(db, S).boxes = db.boxes \ S
      BY <1>3, RemovedBoxes
    <3> QED
      BY <3>1, <3>2
  <2> QED
    BY <2>1, <2>2
<1>5. S \subseteq db.boxes
  BY DEF S
<1>6. p \in d.boxes
  <2>1. p \in DOMAIN db.deleg => db.deleg[p].expires > now
    BY <1>1 DEF Authorized
  <2>2. p \notin S
    BY <1>2, <1>a, <2>1 DEF TreeOK
  <2> QED
    BY <1>4, <2>2
<1> HIDE DEF d
<1>7. TreeOK(d)
  BY <1>4 DEF TablesOK
<1>8. p \in DOMAIN d.deleg => d.deleg[p].parent \notin DOMAIN d.deleg /\ until =< d.deleg[p].expires
  <2>1. p \in Ancestors(d, p)
    BY <1>6, <1>7, AncestorsAre
  <2> QED
    BY <1>1, <1>6, <1>7, <2>1, Shallow
<1>9. TablesOK(Delegated(d, p, c, until), opened)
  BY <1>1, <1>4, <1>6, <1>8, DelegatedTables
<1>10. TablesOK(db', opened')
  BY <1>1, <1>9
<1>11. /\ S \subseteq DOMAIN db.deleg
       /\ \A m \in S : db.deleg[m].expires =< now
       /\ c \notin db.boxes \ S /\ p \in db.boxes \ S
  BY <1>1, <1>2, <1>4, <1>6
<1> QED
  BY <1>1, <1>3, <1>4, <1>8, <1>10, <1>11 DEF d

LEMMA TreeClosed ==
    ASSUME NEW d, TreeOK(d), NEW r
    PROVE  \A m \in d.boxes \ Tree(d, r) : Ancestors(d, m) \cap Tree(d, r) = {}
<1> SUFFICES ASSUME NEW m \in d.boxes, NEW a \in Ancestors(d, m), a \in Tree(d, r)
             PROVE  m \in Tree(d, r)
  OBVIOUS
<1>1. Ancestors(d, a) \subseteq Ancestors(d, m)
  BY AncestorsUp
<1> QED
  BY <1>1 DEF Tree

LEMMA DeleteTables ==
    ASSUME TablesOK(db, opened), NEW r \in Roots, DeleteMailboxTree(r)
    PROVE  TablesOK(db', opened')
<1>1. \A m \in db.boxes \ Tree(db, r) : Ancestors(db, m) \cap Tree(db, r) = {}
  BY TreeClosed DEF TablesOK
<1> DEFINE S == Tree(db, r)
<1> HIDE DEF S
<1>2. TablesOK(RemoveBoxes(db, S), opened)
  BY <1>1, RemovedBoxes DEF S
<1> QED
  BY <1>2 DEF DeleteMailboxTree, S

LEMMA MembersTables ==
    ASSUME TablesOK(db, opened), NEW r \in Roots, NEW S \in SUBSET Identities, SetSpaceMembers(r, S)
    PROVE  /\ TablesOK(db', opened') /\ Steady(db, db') /\ db'.erased = db.erased /\ db'.dels = db.dels
           /\ \A q \in DOMAIN db.accepts :
                (q[1] = r => q[3] \in S \ db.erased) => q \in DOMAIN db'.accepts
<1> DEFINE members == S \ db.erased
           others == {q \in DOMAIN db.requests \cup DOMAIN db.accepts :
                        q[1] = r /\ q[3] \notin members}
           M == Put(db.members, r, members)
           R == Drop(db.requests, others)
           A == Drop(db.accepts, others)
<1>0. db' = [db EXCEPT !.members = M, !.requests = R, !.accepts = A] /\ opened' = opened
  BY DEF SetSpaceMembers
<1>1. Part(R, db.requests) /\ Part(A, db.accepts)
  BY DEF Part, Drop
<1>2. /\ DOMAIN M = DOMAIN db.members \cup {r} /\ M[r] \cap db.erased = {}
      /\ \A x \in DOMAIN db.members : x # r => M[x] = db.members[x]
  BY DEF Put
<1>a. \A q \in DOMAIN db.accepts : (q[1] = r => q[3] \in members) => q \in DOMAIN A
  BY DEF Drop
<1> HIDE DEF M, R, A
<1>3. /\ Fields(db') /\ db'.boxes = db.boxes /\ db'.deleg = db.deleg /\ db'.pruned = db.pruned
      /\ db'.members = M /\ db'.erased = db.erased
      /\ db'.dels = db.dels /\ db'.copies = db.copies /\ db'.owners = db.owners
      /\ db'.bodies = db.bodies /\ db'.locators = db.locators
      /\ db'.requests = R /\ db'.accepts = A
  BY <1>0 DEF Fields, TablesOK
<1>4. Steady(db, db')
  BY <1>1, <1>3 DEF Steady, TablesOK, RowsOK
<1>5. GoneOK(db')
  <2>1. \A m : Ancestors(db', m) = Ancestors(db, m)
    BY <1>3, AncestorsSame
  <2> QED
    BY <1>1, <1>2, <1>3, <2>1 DEF GoneOK, TablesOK, Part
<1>6. db'.pruned \subseteq Roots \X Objects
  BY <1>3 DEF TablesOK, RowsOK
<1>7. TablesOK(db', opened)
  BY <1>4, <1>5, <1>6, SteadyTables
<1> QED
  BY <1>0, <1>3, <1>4, <1>7, <1>a

LEMMA FlagTables ==
    ASSUME TablesOK(db, opened), RequireContentOwnership \/ \E i \in Identities : Revoke(i)
    PROVE  TablesOK(db', opened') /\ Steady(db, db') /\ db'.erased = db.erased /\ db'.dels = db.dels
           /\ db'.accepts = db.accepts
<1>0. opened' = opened
  BY DEF RequireContentOwnership, Revoke, history
<1>1. /\ Fields(db') /\ db'.boxes = db.boxes /\ db'.deleg = db.deleg /\ db'.pruned = db.pruned
      /\ db'.members = db.members /\ db'.erased = db.erased
      /\ db'.dels = db.dels /\ db'.copies = db.copies /\ db'.owners = db.owners
      /\ db'.bodies = db.bodies /\ db'.locators = db.locators
      /\ db'.requests = db.requests /\ db'.accepts = db.accepts
  <2>1. CASE RequireContentOwnership
    BY <2>1 DEF Fields, TablesOK, RequireContentOwnership
  <2>2. ASSUME NEW i \in Identities, Revoke(i)
        PROVE  /\ Fields(db') /\ db'.boxes = db.boxes /\ db'.deleg = db.deleg
               /\ db'.pruned = db.pruned
               /\ db'.members = db.members /\ db'.erased = db.erased
               /\ db'.dels = db.dels /\ db'.copies = db.copies /\ db'.owners = db.owners
               /\ db'.bodies = db.bodies /\ db'.locators = db.locators
               /\ db'.requests = db.requests /\ db'.accepts = db.accepts
    BY <2>2 DEF Fields, TablesOK, Revoke
  <2> QED
    BY <2>1, <2>2
<1>2. Steady(db, db')
  BY <1>1 DEF Steady, TablesOK, RowsOK, Part
<1>3. GoneOK(db')
  <2>1. \A m : Ancestors(db', m) = Ancestors(db, m)
    BY <1>1, AncestorsSame
  <2> QED
    BY <1>1, <2>1 DEF GoneOK, TablesOK
<1>4. db'.pruned \subseteq Roots \X Objects
  BY <1>1 DEF TablesOK, RowsOK
<1>5. TablesOK(db', opened)
  BY <1>2, <1>3, <1>4, SteadyTables
<1> QED
  BY <1>0, <1>1, <1>2, <1>5

LEMMA PruneTables ==
    ASSUME TablesOK(db, opened), NEW r \in Roots, NEW before, PruneMessages(r, before)
    PROVE  /\ TablesOK(db', opened') /\ Steady(db, db') /\ db'.erased = db.erased
           /\ db'.accepts = db.accepts
           /\ \A x \in db.dels \ db'.dels : x \in DOMAIN db.copies
<1> DEFINE pruned == db.pruned \cup {<<r, o>> : o \in Candidates(db, r, before)}
           dels == {x \in db.dels : ~(x[1] \in Tree(db, r) /\ <<r, x[2]>> \in pruned)}
           b == [db EXCEPT !.pruned = pruned, !.dels = dels]
<1>0. db' = Cascade(b) /\ opened' = opened
  BY DEF PruneMessages, history
<1>1. /\ pruned \subseteq Roots \X Objects
      /\ \A s, o : <<s, o>> \in pruned =>
           <<s, o>> \in db.pruned \/ (s = r /\ o \in Candidates(db, r, before))
  BY DEF TablesOK, RowsOK, Candidates
<1>2. dels \subseteq db.dels
      /\ \A x \in db.dels : x \in dels <=> ~(x[1] \in Tree(db, r) /\ <<r, x[2]>> \in pruned)
  OBVIOUS
<1> HIDE DEF pruned, dels
<1>3. /\ Fields(b) /\ b.boxes = db.boxes /\ b.deleg = db.deleg /\ b.pruned = pruned
      /\ b.members = db.members /\ b.erased = db.erased
      /\ b.dels = dels /\ b.copies = db.copies /\ b.owners = db.owners
      /\ b.bodies = db.bodies /\ b.locators = db.locators
      /\ b.requests = db.requests /\ b.accepts = db.accepts
  BY DEF Fields, TablesOK
<1> HIDE DEF b
<1>4. /\ Fields(db') /\ db'.boxes = db.boxes /\ db'.deleg = db.deleg /\ db'.pruned = pruned
      /\ db'.members = db.members /\ db'.erased = db.erased
      /\ db'.dels = dels /\ db'.copies = Keep(db.copies, dels) /\ db'.owners \subseteq db.owners
      /\ db'.bodies = db.bodies /\ db'.locators = db.locators
      /\ db'.requests = db.requests /\ db'.accepts = db.accepts
  BY <1>0, <1>3, CascadeFields
<1>5. Steady(db, db')
  BY <1>2, <1>4 DEF Steady, Keep, Part
<1>6. GoneOK(db')
  <2>1. \A m : Ancestors(db', m) = Ancestors(db, m)
    BY <1>4, AncestorsSame
  <2>2. ASSUME NEW x \in db'.dels, NEW s \in Roots, s \in Ancestors(db', x[1])
        PROVE  <<s, x[2]>> \notin db'.pruned
    <3>1. x \in db.dels /\ x[1] \in db.boxes /\ s \in Ancestors(db, x[1])
      BY <1>2, <1>4, <2>1, <2>2 DEF TablesOK, RowsOK
    <3>2. <<s, x[2]>> \notin db.pruned
      BY <3>1 DEF TablesOK, GoneOK
    <3>3. s = r => x[1] \in Tree(db, r)
      BY <3>1 DEF Tree
    <3> QED
      BY <1>1, <1>2, <1>4, <3>1, <3>2, <3>3
  <2> QED
    BY <1>4, <2>2 DEF GoneOK, TablesOK
<1>7. TablesOK(db', opened)
  BY <1>1, <1>4, <1>5, <1>6, SteadyTables
<1>8. ASSUME NEW x \in db.dels, x \notin db'.dels PROVE x \in DOMAIN db.copies
  <2>1. x[1] \in Tree(db, r) /\ <<r, x[2]>> \in pruned
    BY <1>2, <1>4, <1>8
  <2>2. r \in Ancestors(db, x[1])
    BY <2>1 DEF Tree
  <2>3. x[2] \in Candidates(db, r, before)
    BY <1>1, <2>1, <2>2 DEF TablesOK, GoneOK
  <2> QED
    BY <2>1, <2>3 DEF Candidates
<1> QED
  BY <1>0, <1>4, <1>5, <1>7, <1>8

LEMMA EraseTables ==
    ASSUME TablesOK(db, opened), NEW r \in Roots, NEW i \in Identities, EraseAccountContent(r, i)
    PROVE  /\ TablesOK(db', opened') /\ Steady(db, db') /\ db'.erased = db.erased \cup {i}
           /\ \A x \in db.dels \ db'.dels : <<x[2], i>> \in db.owners
           /\ \A q \in DOMAIN db.accepts : q[3] # i => q \in DOMAIN db'.accepts
<1> DEFINE theirs == {o \in Objects : <<o, i>> \in db.owners}
           pruned == db.pruned \cup {<<r, o>> : o \in theirs}
           dels == {x \in db.dels : x[2] \notin theirs}
           M == [m \in DOMAIN db.members |-> db.members[m] \ {i}]
           R == Keep(db.requests, {q \in DOMAIN db.requests : q[3] # i})
           A == Keep(db.accepts, {q \in DOMAIN db.accepts : q[3] # i})
           b == [db EXCEPT !.erased = db.erased \cup {i}, !.pruned = pruned, !.dels = dels,
                           !.members = M, !.requests = R, !.accepts = A]
<1>0. db' = Cascade(b) /\ opened' = opened
  BY DEF EraseAccountContent, history
<1>1. /\ pruned \subseteq Roots \X Objects
      /\ \A s, o : <<s, o>> \in pruned => <<s, o>> \in db.pruned \/ o \in theirs
  <2>1. theirs \subseteq Objects
    OBVIOUS
  <2> HIDE DEF theirs
  <2>2. pruned \subseteq Roots \X Objects
    BY <2>1 DEF TablesOK, RowsOK
  <2>3. \A s, o : <<s, o>> \in pruned => <<s, o>> \in db.pruned \/ o \in theirs
    OBVIOUS
  <2> QED
    BY <2>2, <2>3
<1>2. dels \subseteq db.dels /\ \A x \in db.dels : x \in dels <=> x[2] \notin theirs
  OBVIOUS
<1>3. /\ DOMAIN M = DOMAIN db.members /\ \A m \in DOMAIN M : M[m] = db.members[m] \ {i}
      /\ Part(R, db.requests) /\ Part(A, db.accepts)
      /\ \A q \in DOMAIN R : q[3] # i
      /\ \A q \in DOMAIN db.accepts : q[3] # i => q \in DOMAIN A
  BY DEF Part, Keep
<1>4. \A w \in db.owners : w[2] = i => w[1] \in theirs
  BY DEF TablesOK, RowsOK
<1>5. \A x \in db.dels : x[2] \in theirs => <<x[2], i>> \in db.owners
  OBVIOUS
<1> HIDE DEF theirs, pruned, dels, M, R, A
<1>6. /\ Fields(b) /\ b.boxes = db.boxes /\ b.deleg = db.deleg /\ b.pruned = pruned
      /\ b.members = M /\ b.erased = db.erased \cup {i}
      /\ b.dels = dels /\ b.copies = db.copies /\ b.owners = db.owners
      /\ b.bodies = db.bodies /\ b.locators = db.locators
      /\ b.requests = R /\ b.accepts = A
  BY DEF Fields, TablesOK
<1> HIDE DEF b
<1>7. /\ Fields(db') /\ db'.boxes = db.boxes /\ db'.deleg = db.deleg /\ db'.pruned = pruned
      /\ db'.members = M /\ db'.erased = db.erased \cup {i}
      /\ db'.dels = dels /\ db'.copies = Keep(db.copies, dels)
      /\ db'.owners = {w \in db.owners : \E x \in dels : x[2] = w[1]}
      /\ db'.bodies = db.bodies /\ db'.locators = db.locators
      /\ db'.requests = R /\ db'.accepts = A
  BY <1>0, <1>6, CascadeFields
<1>8. Steady(db, db')
  BY <1>2, <1>3, <1>7 DEF Steady, Keep, Part
<1>9. GoneOK(db')
  <2>1. \A m : Ancestors(db', m) = Ancestors(db, m)
    BY <1>7, AncestorsSame
  <2>2. ASSUME NEW x \in db'.dels, NEW s \in Roots, s \in Ancestors(db', x[1])
        PROVE  <<s, x[2]>> \notin db'.pruned
    BY <1>1, <1>2, <1>7, <2>1, <2>2 DEF TablesOK, GoneOK
  <2>3. ASSUME NEW w \in db'.owners PROVE w[2] \notin db'.erased
    <3>1. w \in db.owners /\ \E x \in dels : x[2] = w[1]
      BY <1>7
    <3>2. w[1] \notin theirs
      BY <1>2, <3>1
    <3>3. w[2] # i /\ w[2] \notin db.erased
      BY <1>4, <3>1, <3>2 DEF TablesOK, GoneOK
    <3> QED
      BY <1>7, <3>3
  <2>4. /\ \A m \in DOMAIN db'.members : db'.members[m] \cap db'.erased = {}
        /\ \A q \in DOMAIN db'.requests : q[3] \notin db'.erased
    BY <1>3, <1>7 DEF TablesOK, GoneOK, Part
  <2> QED
    BY <2>2, <2>3, <2>4 DEF GoneOK
<1>10. TablesOK(db', opened)
  BY <1>1, <1>7, <1>8, <1>9, SteadyTables
<1>11. \A x \in db.dels \ db'.dels : <<x[2], i>> \in db.owners
  BY <1>2, <1>5, <1>7
<1> QED
  BY <1>0, <1>3, <1>7, <1>8, <1>10, <1>11

\* A sweep of the tables.
LEMMA SweptTables ==
    ASSUME TablesOK(db, opened)
    PROVE  TablesOK(Sweep(db, now), opened) /\ Trimmed(db, Sweep(db, now))
<1>1. Trimmed(db, Sweep(db, now))
  BY SweepTrims
<1> QED
  BY <1>1, TrimmedTables

LEMMA MaintainTables ==
    ASSUME TablesOK(db, opened), Maintain
    PROVE  TablesOK(db', opened')
BY SweptTables DEF Maintain, history

LEMMA InventoryTables ==
    ASSUME TablesOK(db, opened), NEW m \in db.boxes, Inventory(m)
    PROVE  /\ TablesOK(db', opened')
           /\ \E S : db' = [Sweep(db, now) EXCEPT !.requests = Drop(@, S)]
<1> DEFINE d == Sweep(db, now)
           S == UNION {Unauthorized(d, m, k) : k \in {x \in DOMAIN d.bodies : x[1] = Root(d, m)}}
<1>1. db' = [d EXCEPT !.requests = Drop(@, S)] /\ opened' = opened
  BY DEF Inventory, history
<1>2. TablesOK(d, opened)
  BY SweptTables
<1> HIDE DEF d, S
<1>3. Trimmed(d, [d EXCEPT !.requests = Drop(@, S)])
  BY <1>2, DropTrims
<1>4. TablesOK(db', opened')
  BY <1>1, <1>2, <1>3, TrimmedTables
<1> QED
  BY <1>1, <1>4 DEF d

\* The tables an upload finds: swept, and the windows of an expired body looked at again.
Base(m, o, actor) ==
    LET swept == Sweep(db, now)
        k == <<Root(db, m), o>>
    IN IF Kind[o] = "body" /\ actor # None /\ k \in DOMAIN swept.bodies
            /\ swept.bodies[k].expired /\ ~Pruned(swept, m, o)
       THEN ValidWindow(swept, m, k) ELSE swept

\* The delivery that it adds to them.
Owned(d, m, o, actor, message) ==
    [d EXCEPT !.dels = @ \cup {<<m, o>>},
              !.owners = @ \cup {<<o, i>> : i \in Owners(d, m, o, actor)},
              !.coverage = @ /\ ~(message /\ Owners(d, m, o, actor) = {})]

LEMMA PostIs ==
    ASSUME NEW m, NEW o, NEW actor, NEW message, Post(m, o, actor, message)
    PROVE  LET d == Base(m, o, actor)
           IN /\ UNCHANGED <<now, history>>
              /\ actor = None \/ AuthorizeActor(db, m, actor)
              /\ \/ db' = d
                 \/ /\ db' = RecordUpload(Owned(d, m, o, actor, message), m, o, message)
                    /\ ~Pruned(d, m, o) /\ CheckUpload(d, m, o, actor)
                    /\ NoErasedOwner(d, Owners(d, m, o, actor))
                    /\ <<m, o>> \notin d.dels /\ Room(d, m, o) /\ SoleLocator(d, m, o)
BY DEF Post, Base, Owned

LEMMA BaseIs ==
    ASSUME TablesOK(db, opened), NEW m, NEW o, NEW actor
    PROVE  LET d == Base(m, o, actor)
               swept == Sweep(db, now)
           IN /\ TablesOK(d, opened) /\ TablesOK(swept, opened) /\ Trimmed(db, swept)
              /\ d.boxes = db.boxes /\ d.deleg = db.deleg /\ d.members = db.members
              /\ d.erased = db.erased /\ d.revoked = db.revoked
              /\ d.dels = swept.dels /\ d.bodies = swept.bodies /\ d.locators = swept.locators
              /\ d.accepts = swept.accepts /\ Part(d.requests, swept.requests)
              /\ \/ d = swept
                 \/ d = ValidWindow(swept, m, <<Root(db, m), o>>)
<1> DEFINE swept == Sweep(db, now)
           k == <<Root(db, m), o>>
           d == Base(m, o, actor)
<1>1. TablesOK(swept, opened) /\ Trimmed(db, swept)
  BY SweptTables
<1>2. d = swept \/ d = ValidWindow(swept, m, k)
  BY DEF Base
<1> HIDE DEF swept, k, d
<1>3. CASE d = swept
  BY <1>1, <1>3 DEF Trimmed, Part, swept, d, k
<1>4. CASE d = ValidWindow(swept, m, k)
  <2> DEFINE S == Unauthorized(swept, m, k)
  <2>1. d = [swept EXCEPT !.requests = Drop(@, S)]
    BY <1>4 DEF ValidWindow
  <2> HIDE DEF S
  <2>2. /\ Trimmed(swept, d) /\ d.bodies = swept.bodies /\ d.locators = swept.locators
        /\ d.requests = Drop(swept.requests, S) /\ d.accepts = swept.accepts
        /\ d.dels = swept.dels
    BY <1>1, <2>1, DropTrims
  <2>3. TablesOK(d, opened)
    BY <1>1, <2>2, TrimmedTables
  <2>4. Part(d.requests, swept.requests)
    BY <2>2 DEF Trimmed
  <2>5. /\ d.boxes = db.boxes /\ d.deleg = db.deleg /\ d.members = db.members
        /\ d.erased = db.erased /\ d.revoked = db.revoked
    BY <1>1, <2>2 DEF Trimmed
  <2> QED
    BY <1>1, <1>4, <2>2, <2>3, <2>4, <2>5 DEF swept, d, k
<1> QED
  BY <1>2, <1>3, <1>4

\* What the upload of a delivery finds after the delivery was added.
LEMMA OwnedIs ==
    ASSUME NEW d, NEW op, TablesOK(d, op), NEW m \in d.boxes, NEW o \in Objects,
           NEW actor \in Identities \cup {None}, NEW message,
           ~Pruned(d, m, o), CheckUpload(d, m, o, actor),
           NoErasedOwner(d, Owners(d, m, o, actor)), SoleLocator(d, m, o)
    PROVE  LET e == Owned(d, m, o, actor, message)
           IN /\ TablesOK(e, op) /\ Uploadable(e, m, o)
              /\ e.dels = d.dels \cup {<<m, o>>}
              /\ e.boxes = d.boxes /\ e.deleg = d.deleg /\ e.pruned = d.pruned
              /\ e.members = d.members /\ e.erased = d.erased /\ e.revoked = d.revoked
              /\ e.copies = d.copies /\ e.bodies = d.bodies /\ e.locators = d.locators
              /\ e.requests = d.requests /\ e.accepts = d.accepts
<1> DEFINE W == Owners(d, m, o, actor)
           e == Owned(d, m, o, actor, message)
           k == <<Root(d, m), o>>
<1>1. W \in SUBSET Identities
  BY ReplicaAssumption DEF Owners
<1>2. W \cap d.erased = {}
  BY DEF NoErasedOwner
<1>3. PICK c : e = Stored(d, m, o, W, c)
  BY DEF Owned, Stored
<1> HIDE DEF W, e
<1>4. /\ TablesOK(e, op)
      /\ e.dels = d.dels \cup {<<m, o>>}
      /\ e.boxes = d.boxes /\ e.deleg = d.deleg /\ e.pruned = d.pruned
      /\ e.members = d.members /\ e.erased = d.erased /\ e.revoked = d.revoked
      /\ e.copies = d.copies /\ e.bodies = d.bodies /\ e.locators = d.locators
      /\ e.requests = d.requests /\ e.accepts = d.accepts
  <2>1. TablesOK(e, op)
    BY <1>1, <1>2, <1>3, StoreTables
  <2>2. e.dels = d.dels \cup {<<m, o>>}
    BY <1>3 DEF Stored, TablesOK, Fields
  <2>3. /\ e.boxes = d.boxes /\ e.deleg = d.deleg /\ e.pruned = d.pruned
        /\ e.members = d.members /\ e.erased = d.erased /\ e.revoked = d.revoked
        /\ e.copies = d.copies /\ e.bodies = d.bodies /\ e.locators = d.locators
        /\ e.requests = d.requests /\ e.accepts = d.accepts
    BY <1>3 DEF Stored, TablesOK, Fields
  <2> QED
    BY <2>1, <2>2, <2>3
<1>5. Root(e, m) = Root(d, m)
  BY <1>4, AncestorsSame
<1>6. Open(e, k) = Open(d, k)
  BY <1>4 DEF Open
<1>7. Uploadable(e, m, o)
  <2>1. Kind[o] = "body" /\ k \in DOMAIN e.bodies /\ e.bodies[k].expired => Open(e, k) # {}
    BY <1>4, <1>6 DEF CheckUpload
  <2>2. Kind[o] = "body" /\ k \notin DOMAIN e.bodies => \E l \in DOMAIN e.locators : Names(l, k)
    BY <1>4 DEF CheckUpload, Names
  <2>3. SoleLocator(e, m, o)
    BY <1>4, <1>5 DEF SoleLocator
  <2> QED
    BY <1>5, <2>1, <2>2, <2>3 DEF Uploadable
<1> QED
  BY <1>4, <1>7 DEF e

LEMMA PostTables ==
    ASSUME TablesOK(db, opened), now \in Nat, NEW m \in db.boxes, NEW o \in Objects,
           NEW actor \in Identities \cup {None}, NEW message, Post(m, o, actor, message)
    PROVE  TablesOK(db', opened')
<1> DEFINE d == Base(m, o, actor)
           e == Owned(d, m, o, actor, message)
<1>1. TablesOK(d, opened) /\ d.boxes = db.boxes
  BY BaseIs
<1>2. opened' = opened
  BY PostIs DEF history
<1>3. \/ db' = d
      \/ /\ db' = RecordUpload(e, m, o, message)
         /\ ~Pruned(d, m, o) /\ CheckUpload(d, m, o, actor)
         /\ NoErasedOwner(d, Owners(d, m, o, actor)) /\ SoleLocator(d, m, o)
  BY PostIs
<1> HIDE DEF d
<1>4. CASE db' = d
  BY <1>1, <1>2, <1>4
<1>5. CASE /\ db' = RecordUpload(e, m, o, message)
           /\ ~Pruned(d, m, o) /\ CheckUpload(d, m, o, actor)
           /\ NoErasedOwner(d, Owners(d, m, o, actor)) /\ SoleLocator(d, m, o)
  <2>1. /\ TablesOK(e, opened) /\ Uploadable(e, m, o)
        /\ <<m, o>> \in e.dels /\ m \in e.boxes
    BY <1>1, <1>5, OwnedIs
  <2> HIDE DEF e
  <2>2. TablesOK(RecordUpload(e, m, o, message), opened)
    BY <2>1, RecordTables
  <2> QED
    BY <1>2, <1>5, <2>2
<1> QED
  BY <1>3, <1>4, <1>5

LEMMA MinPair ==
    ASSUME NEW a \in Nat, NEW b \in Nat
    PROVE  Min({a, b}) \in Nat /\ Min({a, b}) =< a /\ Min({a, b}) =< b /\ Min({a, b}) \in {a, b}
<1>1. \E x \in {a, b} : \A y \in {a, b} : x =< y
  OBVIOUS
<1>2. Min({a, b}) \in {a, b} /\ \A y \in {a, b} : Min({a, b}) =< y
  BY <1>1 DEF Min
<1> QED
  BY <1>2

\* The history of windows after one was opened for k until u.
Opening(op, k, u) == Put(op, k, Max({u} \cup {op[x] : x \in DOMAIN op \cap {k}}))

LEMMA OpeningGrows ==
    ASSUME NEW op, \A x \in DOMAIN op : op[x] \in Nat, NEW k, NEW u \in Nat
    PROVE  Grows(op, Opening(op, k, u)) /\ k \in DOMAIN Opening(op, k, u)
           /\ u =< Opening(op, k, u)[k]
<1> DEFINE S == {u} \cup {op[x] : x \in DOMAIN op \cap {k}}
           p == Opening(op, k, u)
<1>1. PICK b \in Nat : \A x \in S : x =< b
  <2>1. CASE k \in DOMAIN op
    <3>1. op[k] \in Nat /\ u + op[k] \in Nat /\ \A x \in S : x =< u + op[k]
      BY <2>1
    <3> QED
      BY <3>1
  <2>2. CASE k \notin DOMAIN op
    <3>1. \A x \in S : x =< u
      BY <2>2
    <3> QED
      BY <3>1
  <2> QED
    BY <2>1, <2>2
<1>2. S \in SUBSET Nat /\ S # {} /\ u \in S /\ (k \in DOMAIN op => op[k] \in S)
  OBVIOUS
<1>3. p = Put(op, k, Max(S))
  BY DEF Opening
<1> HIDE DEF S, p
<1>4. Max(S) \in S /\ \A x \in S : x =< Max(S)
  BY <1>1, <1>2, BoundedMax
<1>5. Max(S) \in Nat /\ u =< Max(S) /\ (k \in DOMAIN op => op[k] =< Max(S))
  BY <1>2, <1>4
<1>6. /\ DOMAIN p = DOMAIN op \cup {k} /\ p[k] = Max(S)
      /\ \A x \in DOMAIN op : x # k => p[x] = op[x]
  BY <1>3 DEF Put
<1>7. Grows(op, p)
  BY <1>5, <1>6 DEF Grows
<1> QED
  BY <1>5, <1>6, <1>7 DEF p

\* A request leaves the swept tables, without the windows of those who are gone, and
\* opens a window if nothing speaks against it.
LEMMA RequestIs ==
    ASSUME TablesOK(db, opened), now \in Nat, NEW m \in db.boxes, NEW o \in Objects,
           NEW i \in Identities, NEW proof \in Nat, RequestMessage(m, o, i, proof)
    PROVE  LET k == <<Root(db, m), o>>
               q == <<Root(db, m), o, i>>
               swept == Sweep(db, now)
               d == ValidWindow(swept, m, k)
               until == Min({proof, now + RequestLife})
           IN /\ UNCHANGED <<now, nonces, drops, consumed>>
              /\ AuthorizeActor(db, m, i) /\ ProofValid(proof)
              /\ TablesOK(swept, opened) /\ Trimmed(db, swept)
              /\ TablesOK(d, opened) /\ Trimmed(swept, d)
              /\ \/ db' = swept /\ opened' = opened
                 \/ db' = d /\ opened' = opened
                 \/ /\ k \in DOMAIN d.bodies /\ d.bodies[k].expired
                    /\ ~Retransmission(d, q, proof)
                    /\ MetadataRoom(d, k[1], IF q \in DOMAIN d.requests THEN 0 ELSE Meta)
                    /\ db' = [d EXCEPT !.requests =
                                Put(@, q, [from |-> now, until |-> until, proof |-> proof])]
                    /\ opened' = Opening(opened, k, until)
<1> DEFINE k == <<Root(db, m), o>>
           q == <<Root(db, m), o, i>>
           swept == Sweep(db, now)
           d == ValidWindow(swept, m, k)
           until == Min({proof, now + RequestLife})
<1>1. TablesOK(swept, opened) /\ Trimmed(db, swept)
  BY SweptTables
<1>2. TablesOK(d, opened) /\ Trimmed(swept, d) /\ d.bodies = swept.bodies
  <2> HIDE DEF swept, k
  <2> DEFINE S == Unauthorized(swept, m, k)
  <2>1. d = [swept EXCEPT !.requests = Drop(@, S)]
    BY DEF ValidWindow
  <2> HIDE DEF S, d
  <2>2. Trimmed(swept, d) /\ d.bodies = swept.bodies
    BY <1>1, <2>1, DropTrims
  <2> QED
    BY <1>1, <2>2, TrimmedTables
<1>3. /\ UNCHANGED <<now, nonces, drops, consumed>>
      /\ AuthorizeActor(db, m, i) /\ ProofValid(proof)
      /\ \/ db' = swept /\ opened' = opened
         \/ db' = d /\ opened' = opened
         \/ /\ k \in DOMAIN swept.bodies /\ d.bodies[k].expired
            /\ ~Retransmission(d, q, proof)
            /\ MetadataRoom(d, k[1], IF q \in DOMAIN d.requests THEN 0 ELSE Meta)
            /\ db' = [d EXCEPT !.requests =
                        Put(@, q, [from |-> now, until |-> until, proof |-> proof])]
            /\ opened' = Opening(opened, k, until)
  BY DEF RequestMessage, Opening
<1> QED
  BY <1>1, <1>2, <1>3

LEMMA RequestedTables ==
    ASSUME TablesOK(db, opened), now \in Nat, NEW m \in db.boxes, NEW o \in Objects,
           NEW i \in Identities, NEW proof \in Nat, RequestMessage(m, o, i, proof)
    PROVE  TablesOK(db', opened') /\ Grows(opened, opened')
<1> DEFINE k == <<Root(db, m), o>>
           q == <<Root(db, m), o, i>>
           swept == Sweep(db, now)
           d == ValidWindow(swept, m, k)
           until == Min({proof, now + RequestLife})
           row == [from |-> now, until |-> until, proof |-> proof]
<1>1. /\ AuthorizeActor(db, m, i) /\ ProofValid(proof)
      /\ TablesOK(swept, opened) /\ Trimmed(db, swept)
      /\ TablesOK(d, opened) /\ Trimmed(swept, d)
  BY RequestIs
<1>2. \/ db' = swept /\ opened' = opened
      \/ db' = d /\ opened' = opened
      \/ /\ k \in DOMAIN d.bodies
         /\ db' = [d EXCEPT !.requests = Put(@, q, row)]
         /\ opened' = Opening(opened, k, until)
  BY RequestIs
<1>3. /\ until \in Nat /\ now =< until /\ until =< proof
  <2>1. now + RequestLife \in Nat
    BY ReplicaAssumption
  <2>2. proof > now
    BY <1>1 DEF ProofValid
  <2>3. until \in Nat /\ until =< proof /\ until \in {proof, now + RequestLife}
    BY <2>1, MinPair
  <2> QED
    BY <2>2, <2>3, ReplicaAssumption
<1> HIDE DEF until
<1>4. row \in RequestRow /\ row.from = now /\ row.until = until /\ row.proof = proof
  BY <1>3 DEF RequestRow
<1>5. \A x \in DOMAIN opened : opened[x] \in Nat
  BY DEF TablesOK, BodiesOK
<1>6. i \notin d.erased
  BY <1>1 DEF AuthorizeActor, Trimmed
<1>7. q = <<k[1], k[2], i>>
  OBVIOUS
<1> HIDE DEF k, q, swept, d, row
<1>8. CASE k \in DOMAIN d.bodies /\ db' = [d EXCEPT !.requests = Put(@, q, row)]
           /\ opened' = Opening(opened, k, until)
  <2>1. Grows(opened, opened') /\ k \in DOMAIN opened' /\ until =< opened'[k]
    BY <1>3, <1>5, <1>8, OpeningGrows
  <2>2. TablesOK(d, opened')
    BY <1>1, <2>1, GrowTables
  <2> DEFINE p == opened'
  <2>3. TablesOK(d, p) /\ k \in DOMAIN p /\ row.until =< p[k]
    BY <1>4, <2>1, <2>2
  <2> HIDE DEF p
  <2>4. TablesOK([d EXCEPT !.requests = Put(@, <<k[1], k[2], i>>, row)], p)
    BY <1>3, <1>4, <1>6, <1>8, <2>3, RequestTables
  <2> QED
    BY <1>7, <1>8, <2>1, <2>4 DEF p
<1>9. Grows(opened, opened)
  BY <1>5 DEF Grows
<1> QED
  BY <1>1, <1>2, <1>8, <1>9

\* The row of an acceptance, and the tables with it.
Acceptance(proof) == [until |-> now + AcceptLife, proof |-> proof]

Closing(m, o, i, proof) == Closed(Sweep(db, now), <<Root(db, m), o, i>>, Acceptance(proof))

\* An acceptance that removes a body, after the sweep that found it.
Removes(m, o, i, proof) ==
    LET k == <<Root(db, m), o>>
        q == <<Root(db, m), o, i>>
        d == Sweep(db, now)
        e == Closing(m, o, i, proof)
        g == <<k, i, proof, Receipt(d, k)>>
    IN /\ k \in DOMAIN d.bodies /\ ~d.bodies[k].expired
       /\ ~Accepted(d, q, proof)
       /\ MetadataRoom(d, k[1], IF q \in DOMAIN d.accepts THEN 0 ELSE Meta)
       /\ db' = RemoveBody(e, k)
       /\ drops' = Put(drops, g, 1 + IF g \in DOMAIN drops THEN drops[g] ELSE 0)

LEMMA AcceptIs ==
    ASSUME TablesOK(db, opened), NEW m, NEW o, NEW i, NEW proof, AcceptMessage(m, o, i, proof)
    PROVE  /\ UNCHANGED <<now, nonces, opened, consumed>>
           /\ AuthorizeActor(db, m, i) /\ ProofValid(proof) /\ Kind[o] = "body"
           /\ TablesOK(Sweep(db, now), opened) /\ Trimmed(db, Sweep(db, now))
           /\ (db' = Sweep(db, now) /\ drops' = drops) \/ Removes(m, o, i, proof)
<1>1. TablesOK(Sweep(db, now), opened) /\ Trimmed(db, Sweep(db, now))
  BY SweptTables
<1> QED
  BY <1>1 DEF AcceptMessage, Removes, Closing, Closed, Acceptance

\* The same requests, none with a longer window.
Shortens(r, t) ==
    DOMAIN t = DOMAIN r /\ \A x \in DOMAIN r : t[x].proof = r[x].proof /\ t[x].until =< r[x].until

LEMMA ClosingIs ==
    ASSUME TablesOK(Sweep(db, now), opened), now \in Nat, NEW m, NEW o, NEW i \in Identities,
           NEW proof \in Nat, <<Root(db, m), o>> \in DOMAIN Sweep(db, now).bodies
    PROVE  LET q == <<Root(db, m), o, i>>
               d == Sweep(db, now)
               e == Closing(m, o, i, proof)
           IN /\ TablesOK(e, opened) /\ Else(d, e)
              /\ e.bodies = d.bodies /\ e.locators = d.locators
              /\ e.accepts = Put(d.accepts, q, Acceptance(proof))
              /\ Shortens(d.requests, e.requests)
<1> DEFINE k == <<Root(db, m), o>>
           q == <<Root(db, m), o, i>>
           d == Sweep(db, now)
           row == Acceptance(proof)
           e == Closed(d, q, row)
<1>1. e = Closing(m, o, i, proof)
  BY DEF Closing
<1>2. row \in AcceptRow
  BY ReplicaAssumption DEF AcceptRow, Acceptance
<1>3. q = <<k[1], k[2], i>>
  OBVIOUS
<1>4. /\ TablesOK(e, opened) /\ Else(d, e)
      /\ e.bodies = d.bodies /\ e.locators = d.locators
      /\ e.accepts = Put(d.accepts, q, row)
      /\ DOMAIN e.requests = DOMAIN d.requests
      /\ \A x \in DOMAIN d.requests :
           /\ e.requests[x].proof = d.requests[x].proof
           /\ e.requests[x].until =< d.requests[x].until
  <2>1. k \in DOMAIN d.bodies /\ TablesOK(d, opened)
    OBVIOUS
  <2> HIDE DEF k, q, d, row
  <2> QED
    BY <1>2, <1>3, <2>1, CloseTables
<1> QED
  BY <1>1, <1>4 DEF Shortens

LEMMA AcceptTables ==
    ASSUME TablesOK(db, opened), now \in Nat, NEW m \in db.boxes, NEW o \in Objects,
           NEW i \in Identities, NEW proof \in Nat, AcceptMessage(m, o, i, proof)
    PROVE  TablesOK(db', opened')
<1> DEFINE k == <<Root(db, m), o>>
           d == Sweep(db, now)
           e == Closing(m, o, i, proof)
<1>1. opened' = opened /\ TablesOK(d, opened)
      /\ (db' = d \/ Removes(m, o, i, proof))
  BY AcceptIs
<1>2. CASE Removes(m, o, i, proof)
  <2>1. k \in DOMAIN d.bodies /\ db' = RemoveBody(e, k)
    BY <1>2 DEF Removes
  <2>2. TablesOK(e, opened) /\ e.bodies = d.bodies
    BY <1>1, <2>1, ClosingIs
  <2> HIDE DEF k, e, d
  <2>3. Trimmed(e, RemoveBody(e, k))
    BY <2>1, <2>2, RemoveTrims
  <2>4. TablesOK(RemoveBody(e, k), opened)
    BY <2>2, <2>3, TrimmedTables
  <2> QED
    BY <1>1, <2>1, <2>4
<1> QED
  BY <1>1, <1>2

-----------------------------------------------------------------------------
(* The tables stay sound.                                                   *)

TablesInv == now \in 0 .. MaxTime /\ TablesOK(db, opened)

LEMMA TablesInit == Init => TablesInv
<1> SUFFICES ASSUME Init PROVE TablesInv
  OBVIOUS
<1>1. /\ Fields(db)
      /\ db.boxes = {} /\ DOMAIN db.deleg = {} /\ db.dels = {} /\ DOMAIN db.copies = {}
      /\ db.owners = {} /\ DOMAIN db.bodies = {} /\ DOMAIN db.locators = {}
      /\ DOMAIN db.requests = {} /\ DOMAIN db.accepts = {} /\ db.pruned = {}
      /\ DOMAIN db.members = {} /\ DOMAIN opened = {}
  BY DEF Init, Fields, Empty
<1>2. now \in 0 .. MaxTime
  BY ReplicaAssumption DEF Init
<1>3. TreeOK(db) /\ RowsOK(db) /\ GoneOK(db)
  BY <1>1 DEF TreeOK, RowsOK, GoneOK
<1>4. BodiesOK(db, opened) /\ RequestsOK(db, opened)
  BY <1>1 DEF BodiesOK, RequestsOK
<1> QED
  BY <1>1, <1>2, <1>3, <1>4 DEF TablesInv, TablesOK

LEMMA TablesNext == TablesInv /\ [Next]_vars => TablesInv'
<1> SUFFICES ASSUME TablesInv, [Next]_vars PROVE TablesInv'
  OBVIOUS
<1>0. TablesOK(db, opened) /\ now \in Nat /\ now \in 0 .. MaxTime /\ MaxTime \in Nat
  BY ReplicaAssumption DEF TablesInv
<1>1. CASE Tick
  BY <1>0, <1>1 DEF Tick, TablesInv, history
<1>2. ASSUME NEW r \in Roots, ReserveMailbox(r) PROVE TablesInv'
  <2>1. r \notin db.boxes /\ db' = [db EXCEPT !.boxes = @ \cup {r}] /\ opened' = opened /\ now' = now
    BY <1>2 DEF ReserveMailbox, history
  <2>2. TablesOK([db EXCEPT !.boxes = @ \cup {r}], opened)
    BY <1>0, <2>1, ReservedTables
  <2> QED
    BY <1>0, <2>1, <2>2 DEF TablesInv
<1>3. ASSUME NEW r \in Roots, DeleteMailboxTree(r) PROVE TablesInv'
  <2>1. TablesOK(db', opened')
    BY <1>0, <1>3, DeleteTables
  <2> QED
    BY <1>0, <1>3, <2>1 DEF TablesInv, DeleteMailboxTree
<1>4. ASSUME NEW p \in db.boxes, NEW c \in Children, NEW t \in 1 .. MaxTime, CreateChild(p, c, t)
      PROVE  TablesInv'
  <2>1. TablesOK(db', opened')
    BY <1>0, <1>4, CreateTables
  <2> QED
    BY <1>0, <1>4, <2>1 DEF TablesInv, CreateChild
<1>5. ASSUME NEW r \in Roots, NEW S \in SUBSET Identities, SetSpaceMembers(r, S) PROVE TablesInv'
  <2>1. TablesOK(db', opened')
    BY <1>0, <1>5, MembersTables
  <2> QED
    BY <1>0, <1>5, <2>1 DEF TablesInv, SetSpaceMembers
<1>6. CASE RequireContentOwnership \/ \E i \in Identities : Revoke(i)
  <2>1. TablesOK(db', opened')
    BY <1>0, <1>6, FlagTables
  <2>2. now' = now
    BY <1>6 DEF RequireContentOwnership, Revoke
  <2> QED
    BY <1>0, <2>1, <2>2 DEF TablesInv
<1>7. ASSUME NEW m \in db.boxes, NEW o \in Objects, NEW i \in Identities \cup {None},
             NEW message \in BOOLEAN, Post(m, o, i, message)
      PROVE  TablesInv'
  <2>1. TablesOK(db', opened')
    BY <1>0, <1>7, PostTables
  <2>2. now' = now
    BY <1>7 DEF Post
  <2> QED
    BY <1>0, <2>1, <2>2 DEF TablesInv
<1>8. CASE Maintain
  BY <1>0, <1>8, MaintainTables DEF TablesInv, Maintain
<1>9. ASSUME NEW m \in db.boxes, Inventory(m) PROVE TablesInv'
  <2>1. TablesOK(db', opened')
    BY <1>0, <1>9, InventoryTables
  <2> QED
    BY <1>0, <1>9, <2>1 DEF TablesInv, Inventory
<1>10. ASSUME NEW m \in db.boxes, NEW o \in Objects, NEW i \in Identities,
              NEW t \in 1 .. MaxTime + ProofLife, RequestMessage(m, o, i, t)
       PROVE  TablesInv'
  <2>0. t \in Nat
    BY ReplicaAssumption
  <2>1. TablesOK(db', opened')
    BY <1>0, <1>10, <2>0, RequestedTables
  <2>2. now' = now
    BY <1>10 DEF RequestMessage
  <2> QED
    BY <1>0, <2>1, <2>2 DEF TablesInv
<1>11. ASSUME NEW m \in db.boxes, NEW o \in Objects, NEW i \in Identities,
              NEW t \in 1 .. MaxTime + ProofLife, AcceptMessage(m, o, i, t)
       PROVE  TablesInv'
  <2>0. t \in Nat
    BY ReplicaAssumption
  <2>1. TablesOK(db', opened')
    BY <1>0, <1>11, <2>0, AcceptTables
  <2>2. now' = now
    BY <1>11 DEF AcceptMessage
  <2> QED
    BY <1>0, <2>1, <2>2 DEF TablesInv
<1>12. ASSUME NEW r \in Roots, NEW t \in 0 .. MaxTime, PruneMessages(r, t) PROVE TablesInv'
  <2>1. TablesOK(db', opened')
    BY <1>0, <1>12, PruneTables
  <2> QED
    BY <1>0, <1>12, <2>1 DEF TablesInv, PruneMessages
<1>13. ASSUME NEW r \in Roots, NEW i \in Identities, EraseAccountContent(r, i) PROVE TablesInv'
  <2>1. TablesOK(db', opened')
    BY <1>0, <1>13, EraseTables
  <2> QED
    BY <1>0, <1>13, <2>1 DEF TablesInv, EraseAccountContent
<1>14. ASSUME NEW a \in Accesses, ConsumeAccess(a) PROVE TablesInv'
  BY <1>0, <1>14 DEF TablesInv, ConsumeAccess
<1>15. CASE UNCHANGED vars
  BY <1>0, <1>15 DEF TablesInv, vars
<1> QED
  BY <1>1, <1>2, <1>3, <1>4, <1>5, <1>6, <1>7, <1>8, <1>9, <1>10, <1>11, <1>12, <1>13, <1>14, <1>15
     DEF Next

\* Through every operation rows refer to rows that exist, mailboxes hang from mailboxes that
\* live as long, a body has one locator, and its refills and requests stay inside the windows
\* that were opened (replica.rs, replica/retention.rs).
THEOREM MailboxInvariant == Spec => []TablesInv
BY TablesInit, TablesNext, PTL DEF Spec

LEMMA GoneIsFinal == TablesInv => DeletionFinal
BY DEF TablesInv, TablesOK, GoneOK, DeletionFinal, DeletedStays, ErasedGone

\* What a cleanup or an erasure removed is delivered in no mailbox of the Space again and
\* kept for no erased account, whoever uploads it and whatever mailboxes come and go
\* (check_pruned, erase_account_content).
THEOREM DeletionIsFinal == Spec => []DeletionFinal
BY MailboxInvariant, GoneIsFinal, PTL

-----------------------------------------------------------------------------
(* What is stored comes and goes by the rules.                              *)

LEMMA ControlByTrim ==
    ASSUME TablesOK(db, opened),
           \A x \in db.dels \ db'.dels :
             <<Root(db, x[1]), x[2]>> \in DOMAIN db.bodies \cup DOMAIN db.locators
    PROVE  KeepsControl
<1>1. \A x \in db.dels \ db'.dels : Kind[x[2]] # "plain"
  BY DEF TablesOK, RowsOK
<1> QED
  BY <1>1 DEF KeepsControl

LEMMA WindowsByLess ==
    ASSUME TablesOK(db, opened),
           \A q \in DOMAIN db.requests \cap DOMAIN db'.requests :
             db'.requests[q].proof = db.requests[q].proof =>
               db'.requests[q].until \in Nat /\ db'.requests[q].until =< db.requests[q].until
    PROVE  KeepsWindows
<1> SUFFICES ASSUME NEW q \in DOMAIN db.requests \cap DOMAIN db'.requests,
                    db'.requests[q].proof = db.requests[q].proof
             PROVE  db'.requests[q].until =< Min({db.requests[q].until, db.requests[q].proof})
  BY DEF KeepsWindows
<1> DEFINE a == db.requests[q].until
           b == db.requests[q].proof
           c == db'.requests[q].until
<1>1. a \in Nat /\ b \in Nat /\ a =< b
  BY DEF TablesOK, RequestsOK
<1>2. c \in Nat /\ c =< a
  OBVIOUS
<1> HIDE DEF a, b, c
<1>3. Min({a, b}) \in {a, b}
  BY <1>1, MinPair
<1>4. c =< Min({a, b})
  BY <1>1, <1>2, <1>3
<1> QED
  BY <1>4 DEF a, b, c

LEMMA RefillByExpired ==
    ASSUME \A k \in DOMAIN db.bodies \cap DOMAIN db'.bodies :
             db.bodies[k].expired => db'.bodies[k].expired
    PROVE  RefillsOnRequest
BY DEF RefillsOnRequest

\* Requests that are kept unchanged.
LEMMA PartWindows ==
    ASSUME TablesOK(db, opened), Part(db'.requests, db.requests)
    PROVE  KeepsWindows
<1>1. \A q \in DOMAIN db'.requests :
        /\ q \in DOMAIN db.requests /\ db'.requests[q] = db.requests[q]
        /\ db.requests[q].until \in Nat
  BY DEF Part, TablesOK, RequestsOK
<1> QED
  BY <1>1, WindowsByLess

LEMMA TrimExpires ==
    ASSUME NEW d, NEW op, TablesOK(d, op), NEW e, Trimmed(d, e),
           NEW k \in DOMAIN e.bodies
    PROVE  k \in DOMAIN d.bodies /\ (d.bodies[k].expired => e.bodies[k].expired)
<1>1. k \in DOMAIN d.bodies /\ (e.bodies[k] = d.bodies[k] \/ e.bodies[k] = Expire(d.bodies[k]))
  BY DEF Trimmed
<1>2. d.bodies[k] \in BodyRow
  BY <1>1 DEF TablesOK, BodiesOK
<1>3. Expire(d.bodies[k]).expired
  BY <1>2, ExpireIs
<1> QED
  BY <1>1, <1>3

\* A step that only trims rows.
LEMMA TrimStep ==
    ASSUME TablesOK(db, opened), Trimmed(db, db')
    PROVE  KeepsControl /\ KeepsWindows /\ RefillsOnRequest
<1>1. KeepsControl
  BY ControlByTrim DEF Trimmed
<1>2. KeepsWindows
  BY PartWindows DEF Trimmed
<1> DEFINE e == db'
<1>3. Trimmed(db, e)
  OBVIOUS
<1> HIDE DEF e
<1>4. \A k \in DOMAIN e.bodies : k \in DOMAIN db.bodies /\ (db.bodies[k].expired => e.bodies[k].expired)
  BY <1>3, TrimExpires
<1>5. RefillsOnRequest
  BY <1>4, RefillByExpired DEF e
<1> QED
  BY <1>1, <1>2, <1>5

LEMMA TrimTrans ==
    ASSUME NEW d, NEW op, TablesOK(d, op), NEW e, Trimmed(d, e), NEW f, Trimmed(e, f)
    PROVE  Trimmed(d, f)
<1>0. \A m : Root(e, m) = Root(d, m)
  BY AncestorsSame DEF Trimmed
<1>1. /\ Fields(f)
      /\ f.boxes = d.boxes /\ f.deleg = d.deleg /\ f.pruned = d.pruned
      /\ f.members = d.members /\ f.erased = d.erased /\ f.revoked = d.revoked
      /\ f.coverage = d.coverage /\ f.required = d.required
      /\ f.dels \subseteq d.dels /\ f.owners \subseteq d.owners
      /\ DOMAIN f.copies \subseteq f.dels /\ DOMAIN f.bodies \subseteq DOMAIN d.bodies
  BY DEF Trimmed
<1>2. Part(f.copies, d.copies)
  BY DEF Trimmed, Part
<1>3. \A x \in d.dels \ f.dels : <<Root(d, x[1]), x[2]>> \in DOMAIN d.bodies \cup DOMAIN d.locators
  <2> SUFFICES ASSUME NEW x \in d.dels, x \notin f.dels
               PROVE  <<Root(d, x[1]), x[2]>> \in DOMAIN d.bodies \cup DOMAIN d.locators
    OBVIOUS
  <2>1. CASE x \notin e.dels
    BY <2>1 DEF Trimmed
  <2>2. CASE x \in e.dels
    <3>1. <<Root(d, x[1]), x[2]>> \in DOMAIN e.bodies \cup DOMAIN e.locators
      BY <1>0, <2>2 DEF Trimmed
    <3> QED
      BY <3>1 DEF Trimmed, Part
  <2> QED
    BY <2>1, <2>2
<1>4. \A k \in DOMAIN f.bodies : f.bodies[k] = d.bodies[k] \/ f.bodies[k] = Expire(d.bodies[k])
  <2> SUFFICES ASSUME NEW k \in DOMAIN f.bodies
               PROVE  f.bodies[k] = d.bodies[k] \/ f.bodies[k] = Expire(d.bodies[k])
    OBVIOUS
  <2>1. k \in DOMAIN e.bodies /\ k \in DOMAIN d.bodies
    BY DEF Trimmed
  <2>2. f.bodies[k] = e.bodies[k] \/ f.bodies[k] = Expire(e.bodies[k])
    BY DEF Trimmed
  <2>3. e.bodies[k] = d.bodies[k] \/ e.bodies[k] = Expire(d.bodies[k])
    BY <2>1 DEF Trimmed
  <2>4. Expire(Expire(d.bodies[k])) = Expire(d.bodies[k])
    <3>1. d.bodies[k] \in BodyRow
      BY <2>1 DEF TablesOK, BodiesOK
    <3> QED
      BY <3>1 DEF Expire, BodyRow
  <2> QED
    BY <2>2, <2>3, <2>4
<1>5. /\ Part(f.locators, d.locators) /\ Part(f.requests, d.requests) /\ Part(f.accepts, d.accepts)
  BY DEF Trimmed, Part
<1>6. \A q \in DOMAIN f.requests \cup DOMAIN f.accepts :
        <<q[1], q[2]>> \in DOMAIN d.bodies => <<q[1], q[2]>> \in DOMAIN f.bodies
  BY DEF Trimmed, Part
<1>7. \A l \in DOMAIN d.locators : (\E k \in DOMAIN f.bodies : Names(l, k)) => l \in DOMAIN f.locators
  BY DEF Trimmed, Part
<1> QED
  BY <1>1, <1>2, <1>3, <1>4, <1>5, <1>6, <1>7 DEF Trimmed

Retains == KeepsControl /\ KeepsWindows /\ RefillsOnRequest

\* A step that keeps the deliveries, the bodies and the requests it does not remove.
LEMMA QuietRetains ==
    ASSUME TablesOK(db, opened), db'.dels = db.dels, db'.bodies = db.bodies,
           Part(db'.requests, db.requests)
    PROVE  Retains
<1>1. KeepsControl
  BY DEF KeepsControl
<1>2. RefillsOnRequest
  BY RefillByExpired
<1> QED
  BY <1>1, <1>2, PartWindows DEF Retains

LEMMA SameRetains ==
    ASSUME TablesOK(db, opened), db' = db
    PROVE  Retains
BY QuietRetains DEF Part

LEMMA SteadyRetains ==
    ASSUME TablesOK(db, opened), Steady(db, db'),
           \A x \in db.dels \ db'.dels :
             x \in DOMAIN db.copies \/ \E i \in db'.erased : <<x[2], i>> \in db.owners
    PROVE  Retains
<1>1. KeepsControl
  BY DEF KeepsControl
<1>2. RefillsOnRequest
  BY RefillByExpired DEF Steady
<1> QED
  BY <1>1, <1>2, PartWindows DEF Retains, Steady

LEMMA ReserveRetains ==
    ASSUME TablesOK(db, opened), NEW r \in Roots, ReserveMailbox(r)
    PROVE  Retains
<1>1. r \notin db.boxes /\ db' = [db EXCEPT !.boxes = @ \cup {r}]
  BY DEF ReserveMailbox
<1>2. db'.dels = db.dels /\ db'.bodies = db.bodies /\ db'.requests = db.requests
  BY <1>1, ReservedTables
<1> QED
  BY <1>2, QuietRetains DEF Part

LEMMA DeleteRetains ==
    ASSUME TablesOK(db, opened), NEW r \in Roots, DeleteMailboxTree(r)
    PROVE  Retains
<1> DEFINE S == Tree(db, r)
           e == RemoveBoxes(db, S)
<1>1. db' = e
  BY DEF DeleteMailboxTree
<1>2. \A m \in db.boxes \ S : Ancestors(db, m) \cap S = {}
  BY TreeClosed DEF TablesOK
<1> HIDE DEF S
<1>3. /\ e.boxes = db.boxes \ S /\ e.dels = Outside(db.dels, S)
      /\ Part(e.bodies, db.bodies) /\ Part(e.requests, db.requests)
  BY <1>2, RemovedBoxes
<1> HIDE DEF e
<1>4. KeepsControl
  BY <1>1, <1>3 DEF KeepsControl, Outside
<1>5. KeepsWindows
  BY <1>1, <1>3, PartWindows
<1>6. RefillsOnRequest
  BY <1>1, <1>3, RefillByExpired DEF Part
<1> QED
  BY <1>4, <1>5, <1>6 DEF Retains

LEMMA CreateRetains ==
    ASSUME TablesOK(db, opened), now \in Nat, NEW p \in db.boxes, NEW c \in Children,
           NEW until \in Nat, CreateChild(p, c, until)
    PROVE  Retains
<1>0. until > now
  BY DEF CreateChild
<1>1. PICK S : /\ S \subseteq DOMAIN db.deleg
               /\ \A m \in S : db.deleg[m].expires =< now
               /\ \A m \in db.boxes \ S : Ancestors(db, m) \cap S = {}
               /\ c \notin db.boxes \ S /\ p \in db.boxes \ S
               /\ LET d == IF S = {} THEN db ELSE RemoveBoxes(db, S)
                  IN /\ TablesOK(d, opened) /\ d.boxes = db.boxes \ S
                     /\ p \in DOMAIN d.deleg =>
                          d.deleg[p].parent \notin DOMAIN d.deleg /\ until =< d.deleg[p].expires
                     /\ db' = Delegated(d, p, c, until)
  BY CreateTables
<1> DEFINE d == IF S = {} THEN db ELSE RemoveBoxes(db, S)
           e == Delegated(d, p, c, until)
<1>2. /\ TablesOK(d, opened) /\ d.boxes = db.boxes \ S /\ db' = e
      /\ p \in DOMAIN d.deleg => d.deleg[p].parent \notin DOMAIN d.deleg /\ until =< d.deleg[p].expires
  BY <1>1
<1>3. /\ d.dels = Outside(db.dels, S)
      /\ Part(d.bodies, db.bodies) /\ Part(d.requests, db.requests)
  <2>1. CASE S = {}
    BY <2>1 DEF Part, Outside
  <2>2. CASE S # {}
    <3>1. d = RemoveBoxes(db, S)
      BY <2>2
    <3> HIDE DEF d
    <3> QED
      BY <1>1, <3>1, RemovedBoxes
  <2> QED
    BY <2>1, <2>2
<1> HIDE DEF d
<1>4. /\ e.boxes = d.boxes \cup {c}
      /\ e.deleg = Put(d.deleg, c, [parent |-> p, expires |-> until])
      /\ e.dels = d.dels /\ e.bodies = d.bodies /\ e.requests = d.requests
  BY <1>1, <1>2, DelegatedTables
<1> HIDE DEF e
<1>5. KeepsControl
  <2> SUFFICES ASSUME NEW x \in db.dels, x \notin db'.dels, x[1] \in db'.boxes,
                      Keep(db'.deleg, {x[1]}) = Keep(db.deleg, {x[1]})
               PROVE  FALSE
    BY DEF KeepsControl
  <2>1. x[1] \in S /\ x[1] = c
    BY <1>1, <1>2, <1>3, <1>4 DEF Outside
  <2>2. Keep(db.deleg, {c})[c] = db.deleg[c] /\ db.deleg[c].expires =< now
    BY <1>1, <2>1 DEF Keep
  <2>3. Keep(db'.deleg, {c})[c] = [parent |-> p, expires |-> until]
    <3>1. c \in DOMAIN db'.deleg /\ db'.deleg[c] = [parent |-> p, expires |-> until]
      BY <1>2, <1>4 DEF Put
    <3> QED
      BY <3>1 DEF Keep
  <2>4. db.deleg[c].expires = until
    BY <2>1, <2>2, <2>3
  <2> QED
    BY <1>0, <2>2, <2>4
<1>6. KeepsWindows
  BY <1>2, <1>3, <1>4, PartWindows
<1>7. RefillsOnRequest
  BY <1>2, <1>3, <1>4, RefillByExpired DEF Part
<1> QED
  BY <1>5, <1>6, <1>7 DEF Retains

LEMMA InventoryRetains ==
    ASSUME TablesOK(db, opened), NEW m \in db.boxes, Inventory(m)
    PROVE  Retains
<1>1. PICK S : db' = [Sweep(db, now) EXCEPT !.requests = Drop(@, S)]
  BY InventoryTables
<1> DEFINE d == Sweep(db, now)
           e == [d EXCEPT !.requests = Drop(@, S)]
<1>2. TablesOK(d, opened) /\ Trimmed(db, d)
  BY SweptTables
<1> HIDE DEF d
<1>3. Trimmed(d, e)
  BY <1>2, DropTrims
<1> HIDE DEF e
<1>4. Trimmed(db, e)
  BY <1>2, <1>3, TrimTrans
<1>5. db' = e
  BY <1>1 DEF d, e
<1> QED
  BY <1>4, <1>5, TrimStep DEF Retains

LEMMA AcceptRetains ==
    ASSUME TablesOK(db, opened), now \in Nat, NEW m \in db.boxes, NEW o \in Objects,
           NEW i \in Identities, NEW proof \in Nat, AcceptMessage(m, o, i, proof)
    PROVE  Retains
<1> DEFINE k == <<Root(db, m), o>>
           d == Sweep(db, now)
           e == Closing(m, o, i, proof)
<1>1. TablesOK(d, opened) /\ Trimmed(db, d) /\ (db' = d \/ Removes(m, o, i, proof))
  BY AcceptIs
<1>2. CASE db' = d
  BY <1>1, <1>2, TrimStep DEF Retains
<1>3. CASE Removes(m, o, i, proof)
  <2> DEFINE f == RemoveBody(e, k)
  <2>1. k \in DOMAIN d.bodies /\ db' = f
    BY <1>3 DEF Removes
  <2>2. /\ TablesOK(e, opened) /\ Else(d, e)
        /\ e.bodies = d.bodies /\ e.locators = d.locators
        /\ Shortens(d.requests, e.requests)
    BY <1>1, <2>1, ClosingIs
  <2> HIDE DEF k, e, d
  <2>3. Trimmed(e, f)
    BY <2>1, <2>2, RemoveTrims
  <2> HIDE DEF f
  <2>4. KeepsControl
    <3> SUFFICES ASSUME NEW x \in db.dels \ db'.dels
                 PROVE  <<Root(db, x[1]), x[2]>> \in DOMAIN db.bodies \cup DOMAIN db.locators
      BY ControlByTrim
    <3>1. CASE x \notin d.dels
      BY <1>1, <3>1 DEF Trimmed
    <3>2. CASE x \in d.dels
      <4>1. Root(e, x[1]) = Root(db, x[1])
        BY <1>1, <2>2, AncestorsSame DEF Trimmed, Else
      <4>2. <<Root(e, x[1]), x[2]>> \in DOMAIN e.bodies \cup DOMAIN e.locators
        BY <2>1, <2>2, <2>3, <3>2 DEF Trimmed, Else
      <4> QED
        BY <1>1, <2>2, <4>1, <4>2 DEF Trimmed, Part
    <3> QED
      BY <3>1, <3>2
  <2>5. KeepsWindows
    <3> SUFFICES ASSUME NEW q \in DOMAIN db.requests \cap DOMAIN db'.requests
                 PROVE  db'.requests[q].until \in Nat /\ db'.requests[q].until =< db.requests[q].until
      BY WindowsByLess
    <3>1. q \in DOMAIN e.requests /\ db'.requests[q] = e.requests[q]
      BY <2>1, <2>3 DEF Trimmed, Part
    <3>2. q \in DOMAIN d.requests /\ d.requests[q] = db.requests[q]
      BY <1>1, <2>2, <3>1 DEF Trimmed, Part, Shortens
    <3>3. e.requests[q].until \in Nat
      BY <2>2, <3>1 DEF TablesOK, RequestsOK
    <3> QED
      BY <2>2, <3>1, <3>2, <3>3 DEF Shortens
  <2>6. RefillsOnRequest
    <3>1. \A x \in DOMAIN f.bodies : x \in DOMAIN e.bodies /\ (e.bodies[x].expired => f.bodies[x].expired)
      BY <2>2, <2>3, TrimExpires
    <3>2. \A x \in DOMAIN d.bodies : x \in DOMAIN db.bodies /\ (db.bodies[x].expired => d.bodies[x].expired)
      BY <1>1, TrimExpires
    <3> QED
      BY <2>1, <2>2, <3>1, <3>2, RefillByExpired
  <2> QED
    BY <2>4, <2>5, <2>6 DEF Retains
<1> QED
  BY <1>1, <1>2, <1>3

\* Who may act depends on the mailboxes, the members and who was revoked or erased.
LEMMA ActorSame ==
    ASSUME NEW d, NEW e, e.boxes = d.boxes, e.deleg = d.deleg, e.members = d.members,
           e.erased = d.erased, e.revoked = d.revoked, NEW m, NEW i
    PROVE  AuthorizeActor(e, m, i) <=> AuthorizeActor(d, m, i)
<1>1. Ancestors(e, m) = Ancestors(d, m)
  BY AncestorsSame
<1> QED
  BY <1>1 DEF AuthorizeActor, Admitted

\* One who may act in a mailbox may act in its root.
LEMMA ActorAtRoot ==
    ASSUME NEW d, TreeOK(d), NEW m \in d.boxes, NEW i, AuthorizeActor(d, m, i)
    PROVE  AuthorizeActor(d, Root(d, m), i)
<1>1. /\ Root(d, m) \in d.boxes /\ Ancestors(d, Root(d, m)) = {Root(d, m)}
      /\ Root(d, m) \in Ancestors(d, m) /\ Root(d, m) \notin DOMAIN d.deleg
  BY RootIs
<1> QED
  BY <1>1 DEF AuthorizeActor, Admitted

\* A request that a sweep keeps: its proof is not over and its body is still known.
LEMMA SweepKeepsRequest ==
    ASSUME NEW d, Fields(d), NEW t, NEW q \in DOMAIN d.requests, d.requests[q].proof > t,
           <<q[1], q[2]>> \in DOMAIN Sweep(d, t).bodies
    PROVE  q \in DOMAIN Sweep(d, t).requests
<1>1. Sweep(d, t).requests = SweptRequests(d, t) /\ Sweep(d, t).bodies = SweptBodies(d, t)
  BY SweepFields
<1>2. <<q[1], q[2]>> \notin Lost(d, t)
  BY <1>1 DEF SweptBodies
<1> QED
  BY <1>1, <1>2 DEF SweptRequests, Keep

LEMMA RequestRetains ==
    ASSUME TablesOK(db, opened), now \in Nat, NEW m \in db.boxes, NEW o \in Objects,
           NEW i \in Identities, NEW proof \in Nat, RequestMessage(m, o, i, proof)
    PROVE  Retains
<1> DEFINE k == <<Root(db, m), o>>
           q == <<Root(db, m), o, i>>
           swept == Sweep(db, now)
           d == ValidWindow(swept, m, k)
           until == Min({proof, now + RequestLife})
           row == [from |-> now, until |-> until, proof |-> proof]
           f == [d EXCEPT !.requests = Put(@, q, row)]
<1>1. /\ AuthorizeActor(db, m, i) /\ ProofValid(proof)
      /\ TablesOK(swept, opened) /\ Trimmed(db, swept)
      /\ TablesOK(d, opened) /\ Trimmed(swept, d)
      /\ \/ db' = swept
         \/ db' = d
         \/ /\ k \in DOMAIN d.bodies
            /\ ~Retransmission(d, q, proof)
            /\ db' = f
  BY RequestIs
<1>2. d.requests = Drop(swept.requests, Unauthorized(swept, m, k)) /\ d.bodies = swept.bodies
  <2> HIDE DEF swept, k
  <2> QED
    BY <1>1, DropTrims DEF ValidWindow
<1>3. q \in DOMAIN db.requests /\ k \in DOMAIN d.bodies /\ db.requests[q].proof = proof => q \in DOMAIN d.requests
  <2> SUFFICES ASSUME q \in DOMAIN db.requests, k \in DOMAIN d.bodies, db.requests[q].proof = proof
               PROVE  q \in DOMAIN d.requests
    OBVIOUS
  <2>1. q \in DOMAIN swept.requests
    <3>1. <<q[1], q[2]>> \in DOMAIN swept.bodies /\ db.requests[q].proof > now
      BY <1>1, <1>2 DEF ProofValid
    <3>2. Fields(db)
      BY DEF TablesOK
    <3> HIDE DEF q
    <3> QED
      BY <3>1, <3>2, SweepKeepsRequest
  <2>2. q \notin Unauthorized(swept, m, k)
    <3>1. AuthorizeActor(swept, m, i)
      BY <1>1, ActorSame DEF Trimmed
    <3> HIDE DEF swept
    <3> QED
      BY <3>1 DEF Unauthorized
  <2> QED
    BY <1>2, <2>1, <2>2 DEF Drop
<1>4. d.requests = d.requests /\ Fields(d)
  BY <1>1 DEF TablesOK
<1> HIDE DEF swept, d, k
<1>5. Trimmed(db, d)
  BY <1>1, TrimTrans
<1>6. CASE db' = swept \/ db' = d
  BY <1>1, <1>5, <1>6, TrimStep DEF Retains
<1>7. CASE k \in DOMAIN d.bodies /\ ~Retransmission(d, q, proof) /\ db' = f
  <2>1. /\ f.dels = d.dels /\ f.bodies = d.bodies /\ f.requests = Put(d.requests, q, row)
    BY <1>4 DEF Fields
  <2> HIDE DEF f, row
  <2>2. KeepsControl
    BY <1>5, <1>7, <2>1, ControlByTrim DEF Trimmed
  <2>3. RefillsOnRequest
    <3>1. \A x \in DOMAIN d.bodies : x \in DOMAIN db.bodies /\ (db.bodies[x].expired => d.bodies[x].expired)
      BY <1>5, TrimExpires
    <3> QED
      BY <1>7, <2>1, <3>1, RefillByExpired
  <2>4. KeepsWindows
    <3> SUFFICES ASSUME NEW x \in DOMAIN db.requests \cap DOMAIN db'.requests,
                        db'.requests[x].proof = db.requests[x].proof
                 PROVE  db'.requests[x].until \in Nat /\ db'.requests[x].until =< db.requests[x].until
      BY WindowsByLess
    <3>1. x # q
      <4> SUFFICES ASSUME x = q PROVE FALSE
        OBVIOUS
      <4>1. db'.requests[x] = row
        BY <1>7, <2>1 DEF Put
      <4>2. db.requests[q].proof = proof
        BY <4>1 DEF row
      <4>3. q \in DOMAIN d.requests
        BY <1>3, <1>7, <4>2
      <4>4. d.requests[q] = db.requests[q]
        BY <1>5, <4>3 DEF Trimmed, Part
      <4> QED
        BY <1>7, <4>2, <4>3, <4>4 DEF Retransmission
    <3>2. x \in DOMAIN d.requests /\ db'.requests[x] = d.requests[x]
      BY <1>7, <2>1, <3>1 DEF Put
    <3>3. d.requests[x] = db.requests[x] /\ db.requests[x].until \in Nat
      BY <1>5, <3>2 DEF Trimmed, Part, TablesOK, RequestsOK
    <3> QED
      BY <3>2, <3>3
  <2> QED
    BY <2>2, <2>3, <2>4 DEF Retains
<1> QED
  BY <1>1, <1>6, <1>7

\* The only body an upload changes is its own, when it was unknown or had expired.
LEMMA RecordBodies ==
    ASSUME NEW d, Fields(d), NEW m, NEW o \in Objects, NEW message,
           NEW x \in DOMAIN RecordUpload(d, m, o, message).bodies
    PROVE  \/ x \in DOMAIN d.bodies /\ RecordUpload(d, m, o, message).bodies[x] = d.bodies[x]
           \/ /\ x = <<Root(d, m), o>> /\ Kind[o] = "body"
              /\ x \in DOMAIN d.bodies => d.bodies[x].expired
<1> DEFINE k == <<Root(d, m), o>>
           window == Max({0} \cup {d.requests[q].until : q \in Open(d, k)})
           first == [expires |-> Deadline(now, Lifetime[o]), expired |-> FALSE, refill |-> Never]
           again == [expires |-> IF Lifetime[o] = Never THEN Never ELSE window,
                     expired |-> FALSE, refill |-> window]
           bodies == IF k \notin DOMAIN d.bodies THEN Put(d.bodies, k, first)
                     ELSE IF ~d.bodies[k].expired THEN d.bodies
                     ELSE [d.bodies EXCEPT ![k] = again]
           e == RecordUpload(d, m, o, message)
<1>1. CASE Kind[o] = "body"
  <2>1. e = [d EXCEPT !.bodies = bodies]
    BY <1>1 DEF RecordUpload
  <2> HIDE DEF first, again
  <2>2. \A y \in DOMAIN bodies :
          \/ y \in DOMAIN d.bodies /\ bodies[y] = d.bodies[y]
          \/ y = k /\ (y \in DOMAIN d.bodies => d.bodies[y].expired)
    BY DEF Put
  <2> HIDE DEF bodies
  <2>3. e.bodies = bodies
    BY <2>1 DEF Fields
  <2> QED
    BY <1>1, <2>2, <2>3
<1>2. CASE Kind[o] # "body"
  <2>1. e.bodies = d.bodies
    BY <1>2 DEF RecordUpload, Fields
  <2> QED
    BY <2>1
<1> QED
  BY <1>1, <1>2

\* The tables an upload finds are trimmed.
LEMMA BaseTrims ==
    ASSUME TablesOK(db, opened), NEW m, NEW o, NEW actor
    PROVE  Trimmed(db, Base(m, o, actor))
<1> DEFINE swept == Sweep(db, now)
           k == <<Root(db, m), o>>
           d == Base(m, o, actor)
<1>1. TablesOK(swept, opened) /\ Trimmed(db, swept) /\ (d = swept \/ d = ValidWindow(swept, m, k))
  BY BaseIs
<1> HIDE DEF swept, k, d
<1>2. Trimmed(swept, ValidWindow(swept, m, k))
  BY <1>1, DropTrims DEF ValidWindow
<1>3. Trimmed(db, ValidWindow(swept, m, k))
  BY <1>1, <1>2, TrimTrans
<1> QED
  BY <1>1, <1>3 DEF d

\* A body whose locator is known after the sweep was not lost in it.
LEMMA LocatedNotLost ==
    ASSUME NEW d, NEW op, TablesOK(d, op), NEW t \in Nat, NEW k,
           NEW l \in DOMAIN Sweep(d, t).locators, Names(l, k)
    PROVE  k \notin Lost(d, t)
<1> SUFFICES ASSUME k \in Lost(d, t) PROVE FALSE
  OBVIOUS
<1>1. PICK g \in Gone(d, t) : k = <<g[1], BodyOf[g[2]]>>
  BY DEF Lost
<1>2. g \in DOMAIN d.locators /\ Names(g, k)
  BY <1>1 DEF Gone, Names
<1>3. Sweep(d, t).locators = Drop(d.locators, Gone(d, t))
  BY SweepFields DEF TablesOK
<1>4. l \in DOMAIN d.locators /\ l \notin Gone(d, t)
  BY <1>3 DEF Drop
<1>5. l = g
  BY <1>2, <1>4 DEF TablesOK, BodiesOK, Names
<1> QED
  BY <1>1, <1>4, <1>5

\* A body comes back for somebody who may still ask.
LEMMA PostRefills ==
    ASSUME TablesOK(db, opened), now \in Nat, NEW m \in db.boxes, NEW o \in Objects,
           NEW actor \in Identities \cup {None}, Kind[o] = "body",
           ~Pruned(Base(m, o, actor), m, o), CheckUpload(Base(m, o, actor), m, o, actor),
           <<Root(db, m), o>> \in DOMAIN Base(m, o, actor).bodies,
           Base(m, o, actor).bodies[<<Root(db, m), o>>].expired
    PROVE  \E q \in Open(Base(m, o, actor), <<Root(db, m), o>>) :
             AuthorizeActor(db, Root(db, m), q[3])
<1> DEFINE swept == Sweep(db, now)
           k == <<Root(db, m), o>>
           d == Base(m, o, actor)
<1>1. /\ TablesOK(d, opened) /\ TablesOK(swept, opened) /\ Trimmed(db, swept)
      /\ d.deleg = db.deleg /\ d.bodies = swept.bodies
  BY BaseIs
<1>2. Trimmed(db, d)
  BY BaseTrims
<1>3. Root(d, m) = Root(db, m)
  BY <1>1, AncestorsSame
<1>4. actor # None /\ Open(d, k) # {}
  BY <1>3 DEF CheckUpload
<1>5. ~Pruned(swept, m, o)
  <2>1. swept.pruned = d.pruned /\ swept.deleg = d.deleg
    BY <1>1, <1>2 DEF Trimmed
  <2>2. Ancestors(swept, m) = Ancestors(d, m)
    BY <2>1, AncestorsSame
  <2> QED
    BY <2>1, <2>2 DEF Pruned
<1>6. d = ValidWindow(swept, m, k)
  BY <1>1, <1>4, <1>5 DEF Base
<1>7. PICK q \in Open(d, k) : TRUE
  BY <1>4
<1>8. d.requests = Drop(swept.requests, Unauthorized(swept, m, k))
  <2> HIDE DEF swept, k
  <2> QED
    BY <1>1, <1>6, DropTrims DEF ValidWindow
<1>9. q \in Open(swept, k) /\ q \notin Unauthorized(swept, m, k)
  BY <1>7, <1>8 DEF Open, Drop
<1>10. AuthorizeActor(swept, m, q[3])
  BY <1>9 DEF Unauthorized
<1>11. AuthorizeActor(db, m, q[3])
  BY <1>1, <1>10, ActorSame DEF Trimmed
<1>12. AuthorizeActor(db, Root(db, m), q[3])
  BY <1>11, ActorAtRoot DEF TablesOK
<1> QED
  BY <1>7, <1>12

LEMMA PostRetains ==
    ASSUME TablesOK(db, opened), now \in Nat, NEW m \in db.boxes, NEW o \in Objects,
           NEW actor \in Identities \cup {None}, NEW message, Post(m, o, actor, message)
    PROVE  Retains
<1> DEFINE swept == Sweep(db, now)
           k == <<Root(db, m), o>>
           d == Base(m, o, actor)
<1>1. TablesOK(d, opened) /\ d.bodies = swept.bodies /\ d.locators = swept.locators
  BY BaseIs
<1>2. Trimmed(db, d)
  BY BaseTrims
<1>a. /\ d.boxes = db.boxes /\ d.deleg = db.deleg /\ d.members = db.members
      /\ d.erased = db.erased /\ d.revoked = db.revoked
  BY <1>2 DEF Trimmed
<1> DEFINE e == Owned(d, m, o, actor, message)
           f == RecordUpload(e, m, o, message)
<1>3. CASE db' = d
  <2> HIDE DEF d
  <2> QED
    BY <1>2, <1>3, TrimStep DEF Retains
<1>4. CASE /\ db' = f /\ ~Pruned(d, m, o) /\ CheckUpload(d, m, o, actor)
           /\ NoErasedOwner(d, Owners(d, m, o, actor)) /\ SoleLocator(d, m, o)
  <2>0. m \in d.boxes /\ Root(d, m) = Root(db, m)
    BY <1>a, AncestorsSame
  <2>r. /\ Kind[o] = "body" /\ k \in DOMAIN d.bodies /\ d.bodies[k].expired
           => \E q \in Open(d, k) : AuthorizeActor(db, Root(db, m), q[3])
        /\ Kind[o] = "body" /\ k \in DOMAIN db.bodies => k \in DOMAIN d.bodies
    <3>1. Kind[o] = "body" /\ k \in DOMAIN d.bodies /\ d.bodies[k].expired
           => \E q \in Open(d, k) : AuthorizeActor(db, Root(db, m), q[3])
      BY <1>4, PostRefills
    <3>2. ASSUME Kind[o] = "body", k \in DOMAIN db.bodies, k \notin DOMAIN d.bodies PROVE FALSE
      <4>1. PICK l \in DOMAIN swept.locators : Names(l, k)
        BY <1>1, <1>4, <2>0, <3>2 DEF CheckUpload, Names
      <4>2. k \notin Lost(db, now)
        <5> HIDE DEF k
        <5> QED
          BY <4>1, LocatedNotLost
      <4>3. swept.bodies = SweptBodies(db, now)
        BY SweepFields DEF TablesOK
      <4> HIDE DEF k
      <4> QED
        BY <1>1, <3>2, <4>2, <4>3 DEF SweptBodies
    <3> QED
      BY <3>1, <3>2
  <2> HIDE DEF d, swept
  <2>1. /\ TablesOK(e, opened) /\ Uploadable(e, m, o) /\ e.dels = d.dels \cup {<<m, o>>}
        /\ e.boxes = d.boxes /\ e.deleg = d.deleg /\ e.members = d.members
        /\ e.erased = d.erased /\ e.revoked = d.revoked
        /\ e.bodies = d.bodies /\ e.requests = d.requests
    BY <1>1, <1>4, <2>0, OwnedIs
  <2> HIDE DEF e
  <2>2. Else(e, f) /\ f.requests = e.requests
    <3>1. m \in e.boxes /\ <<m, o>> \in e.dels
      BY <2>0, <2>1
    <3>2. Else(e, f)
      BY <2>1, <3>1, RecordTables
    <3>3. f.requests = e.requests
      BY <2>1, <3>1, RecordTables
    <3> QED
      BY <3>2, <3>3
  <2>3. \A x \in DOMAIN f.bodies :
          \/ x \in DOMAIN e.bodies /\ f.bodies[x] = e.bodies[x]
          \/ /\ x = <<Root(e, m), o>> /\ Kind[o] = "body"
             /\ x \in DOMAIN e.bodies => e.bodies[x].expired
    BY <2>1, RecordBodies DEF TablesOK
  <2>4. Root(e, m) = Root(db, m)
    BY <2>0, <2>1, AncestorsSame
  <2>5. db' = f
    BY <1>4
  <2> HIDE DEF f
  <2>6. KeepsControl
    BY <1>2, <2>1, <2>2, <2>5, ControlByTrim DEF Trimmed, Else
  <2>7. KeepsWindows
    BY <1>2, <2>1, <2>2, <2>5, PartWindows DEF Trimmed
  <2>8. RefillsOnRequest
    <3> SUFFICES ASSUME NEW x \in DOMAIN db.bodies \cap DOMAIN db'.bodies,
                        db.bodies[x].expired, ~db'.bodies[x].expired
                 PROVE  \E q \in Open(db', x) : AuthorizeActor(db', x[1], q[3])
      BY DEF RefillsOnRequest
    <3>1. x \in DOMAIN d.bodies => d.bodies[x].expired
      BY <1>2, TrimExpires
    <3>2. x = k /\ Kind[o] = "body"
      BY <2>1, <2>3, <2>4, <2>5, <3>1
    <3>3. k \in DOMAIN d.bodies /\ d.bodies[k].expired
      BY <2>r, <3>1, <3>2
    <3>4. PICK q \in Open(d, k) : AuthorizeActor(db, Root(db, m), q[3])
      BY <2>r, <3>2, <3>3
    <3> HIDE DEF k
    <3>5. q \in Open(f, k)
      BY <2>1, <2>2, <3>4 DEF Open
    <3>6. AuthorizeActor(f, Root(db, m), q[3])
      BY <1>a, <2>1, <2>2, <3>4, ActorSame DEF Else
    <3>7. x[1] = Root(db, m)
      BY <3>2 DEF k
    <3>8. q \in Open(db', x) /\ AuthorizeActor(db', x[1], q[3])
      BY <2>5, <3>2, <3>5, <3>6, <3>7
    <3> QED
      BY <3>8
  <2> QED
    BY <2>6, <2>7, <2>8 DEF Retains
<1> QED
  BY <1>3, <1>4, PostIs

LEMMA StepRetains == TablesInv /\ [Next]_vars => [Retains]_vars
<1> SUFFICES ASSUME TablesInv, [Next]_vars PROVE [Retains]_vars
  OBVIOUS
<1>0. TablesOK(db, opened) /\ now \in Nat /\ MaxTime \in Nat
  BY ReplicaAssumption DEF TablesInv
<1>1. CASE Tick \/ (\E a \in Accesses : ConsumeAccess(a)) \/ UNCHANGED vars
  BY <1>0, <1>1, SameRetains DEF Tick, ConsumeAccess, vars
<1>2. ASSUME NEW r \in Roots, ReserveMailbox(r) PROVE Retains
  BY <1>0, <1>2, ReserveRetains
<1>3. ASSUME NEW r \in Roots, DeleteMailboxTree(r) PROVE Retains
  BY <1>0, <1>3, DeleteRetains
<1>4. ASSUME NEW p \in db.boxes, NEW c \in Children, NEW t \in 1 .. MaxTime, CreateChild(p, c, t)
      PROVE  Retains
  BY <1>0, <1>4, CreateRetains
<1>5. ASSUME NEW r \in Roots, NEW S \in SUBSET Identities, SetSpaceMembers(r, S) PROVE Retains
  BY <1>0, <1>5, MembersTables, SteadyRetains
<1>6. CASE RequireContentOwnership \/ \E i \in Identities : Revoke(i)
  BY <1>0, <1>6, FlagTables, SteadyRetains
<1>7. ASSUME NEW m \in db.boxes, NEW o \in Objects, NEW i \in Identities \cup {None},
             NEW message \in BOOLEAN, Post(m, o, i, message)
      PROVE  Retains
  BY <1>0, <1>7, PostRetains
<1>8. CASE Maintain
  BY <1>0, <1>8, SweptTables, TrimStep DEF Maintain, Retains
<1>9. ASSUME NEW m \in db.boxes, Inventory(m) PROVE Retains
  BY <1>0, <1>9, InventoryRetains
<1>10. ASSUME NEW m \in db.boxes, NEW o \in Objects, NEW i \in Identities,
              NEW t \in 1 .. MaxTime + ProofLife,
              RequestMessage(m, o, i, t) \/ AcceptMessage(m, o, i, t)
       PROVE  Retains
  <2>0. t \in Nat
    BY ReplicaAssumption
  <2> QED
    BY <1>0, <1>10, <2>0, RequestRetains, AcceptRetains
<1>11. ASSUME NEW r \in Roots, NEW t \in 0 .. MaxTime, PruneMessages(r, t) PROVE Retains
  BY <1>0, <1>11, PruneTables, SteadyRetains
<1>12. ASSUME NEW r \in Roots, NEW i \in Identities, EraseAccountContent(r, i) PROVE Retains
  <2>1. /\ Steady(db, db') /\ db'.erased = db.erased \cup {i}
        /\ \A x \in db.dels \ db'.dels : <<x[2], i>> \in db.owners
    BY <1>0, <1>12, EraseTables
  <2> QED
    BY <1>0, <2>1, SteadyRetains
<1> QED
  BY <1>1, <1>2, <1>3, <1>4, <1>5, <1>6, <1>7, <1>8, <1>9, <1>10, <1>11, <1>12 DEF Next

\* Through every operation a control record stays until its mailbox or its owner goes, a
\* body that expired comes back only while somebody still admitted asks for it, and a
\* request sent again opens no longer window (check_upload, valid_window, request_message,
\* CANDIDATES).
THEOREM RetentionIsKept == Spec => RetentionKept
BY MailboxInvariant, StepRetains, PTL DEF Spec, RetentionKept, Retains

-----------------------------------------------------------------------------
(* Usable mailboxes and refills.                                            *)

LEMMA Unorphaned == TablesInv => TypeOK /\ NoOrphanMailbox
<1> SUFFICES ASSUME TablesInv PROVE TypeOK /\ NoOrphanMailbox
  OBVIOUS
<1>0. TreeOK(db) /\ RowsOK(db) /\ now \in 0 .. MaxTime /\ now \in Nat /\ MaxTime \in Nat
  BY ReplicaAssumption DEF TablesInv, TablesOK
<1>1. TypeOK
  <2>1. DOMAIN db.bodies \cup DOMAIN db.locators \subseteq (Roots \cap db.boxes) \X Objects
    BY <1>0 DEF RowsOK
  <2> QED
    BY <1>0, <2>1 DEF TypeOK, TreeOK, RowsOK
<1>2. ASSUME NEW m \in db.boxes, Authorized(db, m), NEW a \in Ancestors(db, m)
      PROVE  Authorized(db, a)
  <2>1. /\ a \in db.boxes
        /\ a \in DOMAIN db.deleg =>
             /\ m \in DOMAIN db.deleg
             /\ db.deleg[m].expires \in Nat /\ db.deleg[a].expires \in Nat
             /\ db.deleg[m].expires =< db.deleg[a].expires
    BY <1>0, AncestorsUp
  <2> QED
    BY <1>0, <1>2, <2>1 DEF Authorized
<1> QED
  BY <1>1, <1>2 DEF NoOrphanMailbox

LEMMA RefillsEnd == TablesInv => RefillBounded
<1> SUFFICES ASSUME TablesInv, NEW x \in Served,
                    <<Root(db, x[1]), x[2]>> \in DOMAIN db.bodies,
                    db.bodies[<<Root(db, x[1]), x[2]>>].refill # Never
             PROVE  <<Root(db, x[1]), x[2]>> \in DOMAIN opened /\ now < opened[<<Root(db, x[1]), x[2]>>]
  BY DEF RefillBounded
<1> DEFINE k == <<Root(db, x[1]), x[2]>>
<1>0. Fields(db) /\ BodiesOK(db, opened) /\ now \in Nat
  BY ReplicaAssumption DEF TablesInv, TablesOK
<1>1. x \in SweptDels(db, now)
  BY <1>0, SweepFields DEF Served
<1>2. k \notin Dead(db, now)
  BY <1>1 DEF SweptDels
<1>3. /\ db.bodies[k] \in BodyRow /\ ~db.bodies[k].expired
      /\ k \in DOMAIN opened /\ opened[k] \in Nat /\ db.bodies[k].refill =< opened[k]
  BY <1>0 DEF BodiesOK
<1> HIDE DEF k
<1>4. ~(db.bodies[k].refill =< now)
  BY <1>2, <1>3 DEF Dead, k
<1> QED
  BY <1>0, <1>3, <1>4 DEF BodyRow, k

-----------------------------------------------------------------------------
(* An access passes once.                                                   *)

NoncesInv == now \in Nat /\ NoncesOK

LEMMA NoncesInit == Init => NoncesInv
BY DEF Init, NoncesInv, NoncesOK, Empty

LEMMA ConsumedOnce ==
    ASSUME NoncesInv, NEW a \in Accesses, ConsumeAccess(a)
    PROVE  NoncesInv'
<1> DEFINE expires == IssuedAt[a] + AccessLife
           kept == Keep(nonces, {x \in DOMAIN nonces : nonces[x] >= now})
<1>0. /\ now \in Nat /\ IssuedAt \in [Accesses -> Nat] /\ AccessLife \in Nat
      /\ \A x \in DOMAIN nonces : x \in Accesses /\ nonces[x] = IssuedAt[x] + AccessLife
      /\ consumed \in [Accesses -> 0 .. 1]
      /\ \A x \in Accesses : consumed[x] = 1 => x \in DOMAIN nonces \/ IssuedAt[x] + AccessLife < now
  BY ReplicaAssumption DEF NoncesInv, NoncesOK
<1>1. /\ expires >= now /\ a \notin DOMAIN kept /\ now' = now
      /\ nonces' = Put(kept, a, expires) /\ consumed' = [consumed EXCEPT ![a] = @ + 1]
  BY DEF ConsumeAccess
<1>2. /\ DOMAIN kept \subseteq DOMAIN nonces
      /\ \A x \in DOMAIN kept : kept[x] = nonces[x]
      /\ \A x \in DOMAIN nonces : nonces[x] >= now => x \in DOMAIN kept
  BY DEF Keep
<1> HIDE DEF kept
<1>3. /\ DOMAIN nonces' = DOMAIN kept \cup {a} /\ nonces'[a] = expires
      /\ \A x \in DOMAIN kept : x # a => nonces'[x] = kept[x]
  BY <1>1 DEF Put
<1>4. consumed[a] = 0
  <2>1. a \in DOMAIN nonces => a \in DOMAIN kept
    BY <1>0, <1>1, <1>2
  <2> QED
    BY <1>0, <1>1, <2>1
<1>5. \A x \in DOMAIN nonces' : x \in Accesses /\ nonces'[x] = IssuedAt[x] + AccessLife
  BY <1>0, <1>2, <1>3
<1>6. consumed' \in [Accesses -> 0 .. 1]
  BY <1>0, <1>1, <1>4
<1>7. ASSUME NEW x \in Accesses, consumed'[x] = 1
      PROVE  x \in DOMAIN nonces' \/ IssuedAt[x] + AccessLife < now
  <2>1. CASE x = a
    BY <1>3, <2>1
  <2>2. CASE x # a
    <3>1. consumed[x] = 1
      BY <1>0, <1>1, <1>7, <2>2
    <3>2. CASE x \in DOMAIN nonces
      <4>1. nonces[x] = IssuedAt[x] + AccessLife /\ IssuedAt[x] \in Nat
        BY <1>0, <3>2
      <4> QED
        BY <1>0, <1>2, <1>3, <3>2, <4>1
    <3> QED
      BY <1>0, <3>1, <3>2
  <2> QED
    BY <2>1, <2>2
<1> QED
  BY <1>0, <1>1, <1>5, <1>6, <1>7 DEF NoncesInv, NoncesOK

LEMMA NoncesNext == NoncesInv /\ [Next]_vars => NoncesInv'
<1> SUFFICES ASSUME NoncesInv, [Next]_vars PROVE NoncesInv'
  OBVIOUS
<1>1. CASE \E a \in Accesses : ConsumeAccess(a)
  BY <1>1, ConsumedOnce
<1>2. CASE Tick
  <2>1. now' = now + 1 /\ nonces' = nonces /\ consumed' = consumed /\ now \in Nat
    BY <1>2 DEF Tick, history, NoncesInv
  <2>2. \A a \in Accesses : IssuedAt[a] + AccessLife \in Nat
    BY ReplicaAssumption
  <2>3. \A a \in Accesses : IssuedAt[a] + AccessLife < now => IssuedAt[a] + AccessLife < now + 1
    BY <2>1, <2>2
  <2> QED
    BY <2>1, <2>3 DEF NoncesInv, NoncesOK
<1>3. CASE now' = now /\ nonces' = nonces /\ consumed' = consumed
  BY <1>3 DEF NoncesInv, NoncesOK
<1> DEFINE Quiet == now' = now /\ nonces' = nonces /\ consumed' = consumed
<1>4. ASSUME NEW r \in Roots, ReserveMailbox(r) \/ DeleteMailboxTree(r) PROVE Quiet
  BY <1>4 DEF ReserveMailbox, DeleteMailboxTree, history
<1>5. ASSUME NEW p, NEW c, NEW t, CreateChild(p, c, t) PROVE Quiet
  BY <1>5 DEF CreateChild, history
<1>6. ASSUME NEW r, NEW S, SetSpaceMembers(r, S) PROVE Quiet
  BY <1>6 DEF SetSpaceMembers
<1>7. ASSUME NEW i, Revoke(i) \/ RequireContentOwnership PROVE Quiet
  BY <1>7 DEF Revoke, RequireContentOwnership, history
<1>8. ASSUME NEW m, NEW o, NEW i, NEW message, Post(m, o, i, message) PROVE Quiet
  BY <1>8 DEF Post, history
<1>9. ASSUME NEW m, Maintain \/ Inventory(m) PROVE Quiet
  BY <1>9 DEF Maintain, Inventory, history
<1>10. ASSUME NEW m, NEW o, NEW i, NEW t, RequestMessage(m, o, i, t) \/ AcceptMessage(m, o, i, t)
       PROVE  Quiet
  BY <1>10 DEF RequestMessage, AcceptMessage
<1>11. ASSUME NEW r, NEW t, PruneMessages(r, t) \/ EraseAccountContent(r, t) PROVE Quiet
  BY <1>11 DEF PruneMessages, EraseAccountContent, history
<1>12. CASE UNCHANGED vars
  BY <1>3, <1>12 DEF vars
<1> QED
  BY <1>1, <1>2, <1>3, <1>4, <1>5, <1>6, <1>7, <1>8, <1>9, <1>10, <1>11, <1>12 DEF Next

LEMMA NoncesHold == Spec => []NoncesInv
BY NoncesInit, NoncesNext, PTL DEF Spec

-----------------------------------------------------------------------------
(* An acceptance counts once.                                               *)

\* f has the row of the object o, and no other new row.
Written(d, f, m, o) ==
    LET k == <<Root(d, m), o>>
    IN /\ DOMAIN f.locators = IF Kind[o] = "locator" THEN DOMAIN d.locators \cup {k} ELSE DOMAIN d.locators
       /\ DOMAIN f.bodies = IF Kind[o] = "body" THEN DOMAIN d.bodies \cup {k} ELSE DOMAIN d.bodies

LEMMA RecordRows ==
    ASSUME NEW d, Fields(d), NEW m, NEW o \in Objects, NEW message
    PROVE  /\ Part(d.locators, RecordUpload(d, m, o, message).locators)
           /\ Written(d, RecordUpload(d, m, o, message), m, o)
<1> DEFINE k == <<Root(d, m), o>>
           window == Max({0} \cup {d.requests[q].until : q \in Open(d, k)})
           first == [expires |-> Deadline(now, Lifetime[o]), expired |-> FALSE, refill |-> Never]
           again == [expires |-> IF Lifetime[o] = Never THEN Never ELSE window,
                     expired |-> FALSE, refill |-> window]
           bodies == IF k \notin DOMAIN d.bodies THEN Put(d.bodies, k, first)
                     ELSE IF ~d.bodies[k].expired THEN d.bodies
                     ELSE [d.bodies EXCEPT ![k] = again]
           v == IF Lifetime[o] = Never THEN Never ELSE now + LocatorLife
           locators == IF k \in DOMAIN d.locators THEN d.locators ELSE Put(d.locators, k, v)
           f == RecordUpload(d, m, o, message)
<1>1. CASE Kind[o] = "body"
  <2>1. f = [d EXCEPT !.bodies = bodies]
    BY <1>1 DEF RecordUpload
  <2> HIDE DEF first, again
  <2>2. DOMAIN bodies = DOMAIN d.bodies \cup {k}
    BY DEF Put
  <2> HIDE DEF bodies
  <2>3. f.bodies = bodies /\ f.locators = d.locators
    BY <2>1 DEF Fields
  <2> QED
    BY <1>1, <2>2, <2>3 DEF Part, Written
<1>2. CASE Kind[o] = "locator"
  <2>1. f = [d EXCEPT !.locators = locators]
    BY <1>2 DEF RecordUpload
  <2> HIDE DEF v
  <2>2. DOMAIN locators = DOMAIN d.locators \cup {k} /\ Part(d.locators, locators)
    BY DEF Put, Part
  <2> HIDE DEF locators
  <2>3. f.bodies = d.bodies /\ f.locators = locators
    BY <2>1 DEF Fields
  <2> QED
    BY <1>2, <2>2, <2>3 DEF Written
<1>3. CASE Kind[o] \notin {"body", "locator"}
  <2>1. f.bodies = d.bodies /\ f.locators = d.locators
    BY <1>3 DEF RecordUpload, Fields
  <2> QED
    BY <1>3, <2>1 DEF Part, Written
<1> QED
  BY <1>1, <1>2, <1>3

\* The row that remembers a removal.
Memory(g) == <<g[1][1], g[1][2], g[2]>>

LEMMA DropByKeep ==
    ASSUME NEW d, NEW t, NEW g, DropOK(d, t, g), NEW e,
           \A l \in DOMAIN d.locators :
             l[1] = g[1][1] => l \in DOMAIN e.locators /\ e.locators[l] = d.locators[l],
           d.erased \subseteq e.erased,
           Memory(g) \in DOMAIN d.accepts =>
             \/ g[2] \in e.erased
             \/ Memory(g) \in DOMAIN e.accepts /\ e.accepts[Memory(g)] = d.accepts[Memory(g)]
    PROVE  DropOK(e, t, g)
<1>1. g \in (Roots \X Objects) \X Identities \X Nat \X Nat
  BY DEF DropOK
<1>2. \/ g[4] =< t
      \/ \E l \in DOMAIN e.locators : Names(l, g[1]) /\ e.locators[l] = g[4]
  BY DEF DropOK, Names
<1>3. \/ g[3] =< t
      \/ g[4] =< t
      \/ g[2] \in e.erased
      \/ /\ Memory(g) \in DOMAIN e.accepts
         /\ g[3] =< e.accepts[Memory(g)].proof /\ g[3] =< e.accepts[Memory(g)].until
  BY DEF DropOK, Memory
<1> QED
  BY <1>1, <1>2, <1>3 DEF DropOK, Memory

LEMMA SweepDrop ==
    ASSUME NEW d, NEW op, TablesOK(d, op), NEW t \in Nat, NEW g, DropOK(d, t, g)
    PROVE  DropOK(Sweep(d, t), t, g)
<1> DEFINE e == Sweep(d, t)
           q == Memory(g)
<1>1. /\ e.locators = Drop(d.locators, Gone(d, t)) /\ e.accepts = SweptAccepts(d, t)
      /\ e.erased = d.erased
  BY SweepFields DEF TablesOK
<1>2. /\ g \in (Roots \X Objects) \X Identities \X Nat \X Nat
      /\ <<q[1], q[2]>> = g[1] /\ g[3] \in Nat /\ g[4] \in Nat
  BY DEF DropOK, Memory
<1>a. /\ \A l \in DOMAIN d.locators : d.locators[l] \in Nat
      /\ \A x \in DOMAIN d.accepts : d.accepts[x].until \in Nat
  BY DEF TablesOK, BodiesOK, RequestsOK
<1>3. CASE g[4] =< t
  BY <1>2, <1>3 DEF DropOK
<1>4. CASE ~(g[4] =< t)
  <2>1. PICK l \in DOMAIN d.locators : Names(l, g[1]) /\ d.locators[l] = g[4]
    BY <1>4 DEF DropOK
  <2>2. l \notin Gone(d, t)
    BY <1>4, <2>1 DEF Gone
  <2>3. l \in DOMAIN e.locators /\ e.locators[l] = g[4]
    BY <1>1, <2>1, <2>2 DEF Drop
  <2>4. g[1] \notin Lost(d, t)
    BY <2>1, <2>3, LocatedNotLost
  <2>5. \/ g[3] =< t
        \/ g[2] \in d.erased
        \/ q \in DOMAIN d.accepts /\ g[3] =< d.accepts[q].proof /\ g[3] =< d.accepts[q].until
    BY <1>4 DEF DropOK, Memory
  <2> HIDE DEF e, q
  <2>6. ASSUME q \in DOMAIN d.accepts, g[3] =< d.accepts[q].until, ~(g[3] =< t)
        PROVE  q \in DOMAIN e.accepts /\ e.accepts[q] = d.accepts[q]
    <3>1. d.accepts[q].until > t
      BY <2>6, <1>2, <1>a
    <3> QED
      BY <1>1, <1>2, <2>4, <2>6, <3>1 DEF SweptAccepts, Keep
  <2>7. \/ g[3] =< t
        \/ g[2] \in e.erased
        \/ q \in DOMAIN e.accepts /\ g[3] =< e.accepts[q].proof /\ g[3] =< e.accepts[q].until
    BY <1>1, <2>5, <2>6
  <2> QED
    BY <1>2, <2>1, <2>3, <2>7 DEF DropOK, Memory, q, e
<1> QED
  BY <1>3, <1>4

\* The one locator of a body is its receipt.
LEMMA ReceiptIs ==
    ASSUME NEW d, NEW op, TablesOK(d, op), NEW k \in DOMAIN d.bodies
    PROVE  \E l \in DOMAIN d.locators : Names(l, k) /\ d.locators[l] = Receipt(d, k)
<1>1. PICK l \in DOMAIN d.locators : Names(l, k)
  BY DEF TablesOK, BodiesOK
<1>2. \A x \in DOMAIN d.locators : Names(x, k) => x = l
  BY <1>1 DEF TablesOK, BodiesOK, Names
<1> DEFINE v == d.locators[l]
           S == {0} \cup {d.locators[y] : y \in {x \in DOMAIN d.locators :
                                                   x[1] = k[1] /\ BodyOf[x[2]] = k[2]}}
<1>3. v \in Nat
  BY DEF TablesOK, BodiesOK
<1>4. S = {0, v}
  BY <1>1, <1>2 DEF Names
<1>5. Receipt(d, k) = Max(S)
  BY DEF Receipt
<1> HIDE DEF v, S
<1>6. S \in SUBSET Nat /\ S # {} /\ \A x \in S : x =< v
  BY <1>3, <1>4
<1>7. Max(S) \in S /\ \A x \in S : x =< Max(S)
  BY <1>3, <1>6, BoundedMax
<1>8. Max(S) = v
  BY <1>3, <1>4, <1>7
<1> QED
  BY <1>1, <1>5, <1>8 DEF v

\* A step after which every removal is remembered still.
LEMMA DropsKept ==
    ASSUME DropsOK, now' = now,
           DOMAIN drops' \subseteq DOMAIN drops, \A g \in DOMAIN drops' : drops'[g] = drops[g],
           \A g \in DOMAIN drops' : DropOK(db, now, g) => DropOK(db', now, g)
    PROVE  DropsOK'
BY DEF DropsOK

LEMMA DropsQuiet ==
    ASSUME DropsOK, now' = now, drops' = drops, db'.erased = db.erased,
           Part(db.locators, db'.locators), db'.accepts = db.accepts
    PROVE  DropsOK'
<1> DEFINE e == db'
<1>1. e.erased = db.erased /\ Part(db.locators, e.locators) /\ e.accepts = db.accepts
  OBVIOUS
<1> HIDE DEF e
<1>2. \A g \in DOMAIN drops : DropOK(db, now, g) => DropOK(e, now, g)
  BY <1>1, DropByKeep DEF Part
<1> QED
  BY <1>2, DropsKept DEF e

LEMMA DropsTick ==
    ASSUME DropsOK, now \in Nat, Tick
    PROVE  DropsOK'
<1>1. db' = db /\ drops' = drops /\ now' = now + 1
  BY DEF Tick, history
<1>2. ASSUME NEW g, DropOK(db, now, g) PROVE DropOK(db, now + 1, g)
  <2>1. g \in (Roots \X Objects) \X Identities \X Nat \X Nat
    BY <1>2 DEF DropOK
  <2>2. /\ g[3] =< now => g[3] =< now + 1
        /\ g[4] =< now => g[4] =< now + 1
    BY <2>1
  <2> QED
    BY <1>2, <2>2 DEF DropOK
<1> QED
  BY <1>1, <1>2 DEF DropsOK

LEMMA DropsMembers ==
    ASSUME TablesOK(db, opened), DropsOK, NEW r \in Roots, NEW S \in SUBSET Identities,
           SetSpaceMembers(r, S)
    PROVE  DropsOK'
<1> DEFINE e == db'
           D == drops'
<1>1. /\ now' = now
      /\ D = Keep(drops, {g \in DOMAIN drops : g[1][1] = r => g[2] \in S \ db.erased})
  BY DEF SetSpaceMembers
<1>2. /\ DOMAIN D \subseteq DOMAIN drops /\ \A g \in DOMAIN D : D[g] = drops[g]
      /\ \A g \in DOMAIN D : g[1][1] = r => g[2] \in S \ db.erased
  BY <1>1 DEF Keep
<1>3. /\ Steady(db, e) /\ e.erased = db.erased
      /\ \A q \in DOMAIN db.accepts :
           (q[1] = r => q[3] \in S \ db.erased) => q \in DOMAIN e.accepts
  BY MembersTables
<1> HIDE DEF e, D
<1>4. ASSUME NEW g \in DOMAIN D, DropOK(db, now, g) PROVE DropOK(e, now, g)
  <2>1. Memory(g)[1] = g[1][1] /\ Memory(g)[3] = g[2]
    BY DEF Memory
  <2>2. Memory(g) \in DOMAIN db.accepts =>
          Memory(g) \in DOMAIN e.accepts /\ e.accepts[Memory(g)] = db.accepts[Memory(g)]
    BY <1>2, <1>3, <2>1 DEF Steady, Part
  <2> QED
    BY <1>3, <1>4, <2>2, DropByKeep DEF Steady
<1> QED
  BY <1>1, <1>2, <1>4, DropsKept DEF e, D

LEMMA DropsErase ==
    ASSUME TablesOK(db, opened), DropsOK, NEW r \in Roots, NEW i \in Identities,
           EraseAccountContent(r, i)
    PROVE  DropsOK'
<1> DEFINE e == db'
<1>1. now' = now /\ drops' = drops
  BY DEF EraseAccountContent, history
<1>2. /\ Steady(db, e) /\ e.erased = db.erased \cup {i}
      /\ \A q \in DOMAIN db.accepts : q[3] # i => q \in DOMAIN e.accepts
  BY EraseTables
<1> HIDE DEF e
<1>3. ASSUME NEW g \in DOMAIN drops, DropOK(db, now, g) PROVE DropOK(e, now, g)
  <2>1. Memory(g)[3] = g[2]
    BY DEF Memory
  <2>2. Memory(g) \in DOMAIN db.accepts =>
          \/ g[2] \in e.erased
          \/ Memory(g) \in DOMAIN e.accepts /\ e.accepts[Memory(g)] = db.accepts[Memory(g)]
    BY <1>2, <2>1 DEF Steady, Part
  <2> QED
    BY <1>2, <1>3, <2>2, DropByKeep DEF Steady
<1> QED
  BY <1>1, <1>3, DropsKept DEF e

\* Mailboxes that go take the rows of their own root only.
LEMMA DropOutside ==
    ASSUME NEW d, NEW op, TablesOK(d, op), NEW S,
           \A m \in d.boxes \ S : Ancestors(d, m) \cap S = {},
           NEW t, NEW g, DropOK(d, t, g), g[1][1] \in d.boxes => g[1][1] \notin S
    PROVE  DropOK(RemoveBoxes(d, S), t, g)
<1> DEFINE e == RemoveBoxes(d, S)
<1>1. Part(e.locators, d.locators) /\ DOMAIN e.locators = Outside(DOMAIN d.locators, S)
  BY RemovedBoxes
<1>2. Part(e.accepts, d.accepts) /\ DOMAIN e.accepts = Outside(DOMAIN d.accepts, S)
  BY RemovedBoxes
<1>3. e.erased = d.erased
  BY RemovedBoxes
<1> HIDE DEF e
<1>4. \A l \in DOMAIN d.locators :
        l[1] = g[1][1] => l \in DOMAIN e.locators /\ e.locators[l] = d.locators[l]
  BY <1>1 DEF Outside, Part, TablesOK, RowsOK
<1>5. Memory(g) \in DOMAIN d.accepts =>
        Memory(g) \in DOMAIN e.accepts /\ e.accepts[Memory(g)] = d.accepts[Memory(g)]
  <2> SUFFICES ASSUME Memory(g) \in DOMAIN d.accepts
               PROVE  Memory(g) \in DOMAIN e.accepts /\ e.accepts[Memory(g)] = d.accepts[Memory(g)]
    OBVIOUS
  <2>1. Memory(g)[1] = g[1][1] /\ <<g[1][1], g[1][2]>> \in DOMAIN d.bodies
    BY DEF Memory, TablesOK, RowsOK
  <2>2. <<g[1][1], g[1][2]>>[1] \in d.boxes
    BY <2>1 DEF TablesOK, RowsOK
  <2>3. g[1][1] \notin S
    BY <2>2
  <2> QED
    BY <1>2, <2>1, <2>3 DEF Outside, Part
<1>6. DropOK(e, t, g)
  BY <1>3, <1>4, <1>5, DropByKeep
<1> QED
  BY <1>6 DEF e

LEMMA DropsDelete ==
    ASSUME TablesOK(db, opened), DropsOK, NEW r \in Roots, DeleteMailboxTree(r)
    PROVE  DropsOK'
<1> DEFINE S == Tree(db, r)
           D == drops'
<1>1. /\ now' = now /\ db' = RemoveBoxes(db, S)
      /\ D = Keep(drops, {g \in DOMAIN drops : g[1][1] # r})
  BY DEF DeleteMailboxTree
<1>2. /\ DOMAIN D \subseteq DOMAIN drops /\ \A g \in DOMAIN D : D[g] = drops[g] /\ g[1][1] # r
  BY <1>1 DEF Keep
<1>3. \A m \in db.boxes \ S : Ancestors(db, m) \cap S = {}
  BY TreeClosed DEF TablesOK
<1>4. ASSUME NEW g \in DOMAIN D, DropOK(db, now, g) PROVE DropOK(RemoveBoxes(db, S), now, g)
  <2>1. g[1][1] \in Roots
    BY <1>4 DEF DropOK
  <2>2. g[1][1] \in db.boxes => g[1][1] \notin S
    <3> SUFFICES ASSUME g[1][1] \in db.boxes PROVE g[1][1] \notin S
      OBVIOUS
    <3>1. g[1][1] \notin DOMAIN db.deleg
      BY <2>1, ReplicaAssumption DEF TablesOK, TreeOK
    <3>2. Ancestors(db, g[1][1]) = {g[1][1]}
      BY <3>1 DEF Ancestors
    <3> QED
      BY <1>2, <3>2 DEF Tree
  <2> HIDE DEF S
  <2> QED
    BY <1>3, <1>4, <2>2, DropOutside
<1> HIDE DEF D, S
<1> QED
  BY <1>1, <1>2, <1>4, DropsKept DEF D

LEMMA DropsCreate ==
    ASSUME TablesOK(db, opened), DropsOK, now \in Nat, NEW p \in db.boxes, NEW c \in Children,
           NEW until \in Nat, CreateChild(p, c, until)
    PROVE  DropsOK'
<1>0. now' = now /\ drops' = drops
  BY DEF CreateChild, history
<1>1. PICK S : /\ S \subseteq DOMAIN db.deleg
               /\ \A m \in S : db.deleg[m].expires =< now
               /\ \A m \in db.boxes \ S : Ancestors(db, m) \cap S = {}
               /\ c \notin db.boxes \ S /\ p \in db.boxes \ S
               /\ LET d == IF S = {} THEN db ELSE RemoveBoxes(db, S)
                  IN /\ TablesOK(d, opened) /\ d.boxes = db.boxes \ S
                     /\ p \in DOMAIN d.deleg =>
                          d.deleg[p].parent \notin DOMAIN d.deleg /\ until =< d.deleg[p].expires
                     /\ db' = Delegated(d, p, c, until)
  BY CreateTables
<1> DEFINE d == IF S = {} THEN db ELSE RemoveBoxes(db, S)
           e == Delegated(d, p, c, until)
<1>2. TablesOK(d, opened) /\ db' = e
  BY <1>1
<1>3. ASSUME NEW g \in DOMAIN drops, DropOK(db, now, g) PROVE DropOK(d, now, g)
  <2>1. g[1][1] \in Roots
    BY <1>3 DEF DropOK
  <2>2. g[1][1] \notin S
    BY <1>1, <2>1, ReplicaAssumption DEF TablesOK, TreeOK
  <2>3. DropOK(RemoveBoxes(db, S), now, g)
    BY <1>1, <1>3, <2>2, DropOutside
  <2> QED
    BY <1>3, <2>3
<1> HIDE DEF d
<1>4. e.locators = d.locators /\ e.accepts = d.accepts /\ e.erased = d.erased
  BY <1>2 DEF Delegated, Fields, TablesOK
<1> HIDE DEF e
<1>5. \A g \in DOMAIN drops : DropOK(db, now, g) => DropOK(e, now, g)
  BY <1>3, <1>4, DropByKeep
<1> QED
  BY <1>0, <1>2, <1>5, DropsKept

\* A sweep, and after it rows are added to the locators at most.
LEMMA DropsSwept ==
    ASSUME TablesOK(db, opened), DropsOK, now \in Nat, now' = now, drops' = drops,
           db'.erased = Sweep(db, now).erased,
           Part(Sweep(db, now).locators, db'.locators), db'.accepts = Sweep(db, now).accepts
    PROVE  DropsOK'
<1> DEFINE d == Sweep(db, now)
           e == db'
<1>1. e.erased = d.erased /\ Part(d.locators, e.locators) /\ e.accepts = d.accepts
  OBVIOUS
<1>2. \A g \in DOMAIN drops : DropOK(db, now, g) => DropOK(d, now, g)
  BY SweepDrop
<1> HIDE DEF d, e
<1>3. \A g \in DOMAIN drops : DropOK(d, now, g) => DropOK(e, now, g)
  BY <1>1, DropByKeep DEF Part
<1>4. \A g \in DOMAIN drops : DropOK(db, now, g) => DropOK(e, now, g)
  BY <1>2, <1>3
<1> QED
  BY <1>4, DropsKept DEF e

LEMMA DropsInventory ==
    ASSUME TablesOK(db, opened), DropsOK, now \in Nat, NEW m \in db.boxes, Inventory(m)
    PROVE  DropsOK'
<1>1. now' = now /\ drops' = drops
  BY DEF Inventory, history
<1>2. PICK S : db' = [Sweep(db, now) EXCEPT !.requests = Drop(@, S)]
  BY InventoryTables
<1>3. Fields(Sweep(db, now))
  BY SweptTables DEF TablesOK
<1> DEFINE d == Sweep(db, now)
<1> HIDE DEF d
<1>4. LET e == [d EXCEPT !.requests = Drop(@, S)]
      IN e.erased = d.erased /\ e.locators = d.locators /\ e.accepts = d.accepts
  BY <1>3 DEF Fields, d
<1>5. db'.erased = d.erased /\ db'.locators = d.locators /\ db'.accepts = d.accepts
  BY <1>2, <1>4 DEF d
<1> QED
  BY <1>1, <1>5, DropsSwept DEF Part, d

LEMMA DropsPost ==
    ASSUME TablesOK(db, opened), DropsOK, now \in Nat, NEW m \in db.boxes, NEW o \in Objects,
           NEW actor \in Identities \cup {None}, NEW message, Post(m, o, actor, message)
    PROVE  DropsOK'
<1> DEFINE swept == Sweep(db, now)
           d == Base(m, o, actor)
<1>1. now' = now /\ drops' = drops
  BY PostIs DEF history
<1>2. TablesOK(d, opened) /\ Trimmed(db, swept)
  BY BaseIs
<1>3. d.erased = db.erased /\ d.boxes = db.boxes
  BY BaseTrims DEF Trimmed
<1>4. d.locators = swept.locators
  BY BaseIs
<1>5. d.accepts = swept.accepts
  BY BaseIs
<1>6. swept.erased = db.erased
  BY <1>2 DEF Trimmed
<1>7. CASE db' = d
  BY <1>1, <1>3, <1>4, <1>5, <1>6, <1>7, DropsSwept DEF Part
<1> DEFINE e == Owned(d, m, o, actor, message)
           f == RecordUpload(e, m, o, message)
<1>8. CASE /\ db' = f /\ ~Pruned(d, m, o) /\ CheckUpload(d, m, o, actor)
           /\ NoErasedOwner(d, Owners(d, m, o, actor)) /\ SoleLocator(d, m, o)
  <2> HIDE DEF d, swept
  <2>1. /\ TablesOK(e, opened) /\ Uploadable(e, m, o) /\ e.dels = d.dels \cup {<<m, o>>}
        /\ e.boxes = d.boxes /\ e.erased = d.erased
        /\ e.locators = d.locators /\ e.accepts = d.accepts
    BY <1>2, <1>3, <1>8, OwnedIs
  <2> HIDE DEF e
  <2>2. m \in e.boxes /\ <<m, o>> \in e.dels /\ Fields(e)
    BY <1>3, <2>1 DEF TablesOK
  <2>3. f.accepts = e.accepts
    BY <2>1, <2>2, RecordTables
  <2>4. Else(e, f)
    BY <2>1, <2>2, RecordTables
  <2>5. Part(e.locators, f.locators)
    BY <2>2, RecordRows
  <2>6. db' = f
    BY <1>8
  <2> HIDE DEF f
  <2>7. /\ db'.erased = swept.erased /\ Part(swept.locators, db'.locators)
        /\ db'.accepts = swept.accepts
    BY <1>3, <1>4, <1>5, <1>6, <2>1, <2>3, <2>4, <2>5, <2>6 DEF Else
  <2> QED
    BY <1>1, <2>7, DropsSwept DEF swept
<1> QED
  BY <1>7, <1>8, PostIs

LEMMA DropsRequest ==
    ASSUME TablesOK(db, opened), DropsOK, now \in Nat, NEW m \in db.boxes, NEW o \in Objects,
           NEW i \in Identities, NEW proof \in Nat, RequestMessage(m, o, i, proof)
    PROVE  DropsOK'
<1> DEFINE k == <<Root(db, m), o>>
           q == <<Root(db, m), o, i>>
           swept == Sweep(db, now)
           d == ValidWindow(swept, m, k)
           row == [from |-> now, until |-> Min({proof, now + RequestLife}), proof |-> proof]
           f == [d EXCEPT !.requests = Put(@, q, row)]
<1>1. /\ now' = now /\ drops' = drops
      /\ TablesOK(swept, opened) /\ TablesOK(d, opened) /\ Trimmed(swept, d)
      /\ db' = swept \/ db' = d \/ db' = f
  BY RequestIs
<1>2. d.locators = swept.locators /\ d.accepts = swept.accepts
  <2> HIDE DEF swept, k
  <2> QED
    BY <1>1, DropTrims DEF ValidWindow
<1>3. d.erased = swept.erased
  BY <1>1 DEF Trimmed
<1>a. Fields(d)
  BY <1>1 DEF TablesOK
<1> HIDE DEF d, row, q
<1>4. f.locators = d.locators /\ f.accepts = d.accepts /\ f.erased = d.erased
  BY <1>a DEF Fields
<1> HIDE DEF f, swept
<1>5. db'.locators = swept.locators /\ db'.accepts = swept.accepts /\ db'.erased = swept.erased
  BY <1>1, <1>2, <1>3, <1>4
<1> QED
  BY <1>1, <1>5, DropsSwept DEF Part, swept

LEMMA DropsAccept ==
    ASSUME TablesOK(db, opened), DropsOK, now \in Nat, NEW m \in db.boxes, NEW o \in Objects,
           NEW i \in Identities, NEW proof \in Nat, AcceptMessage(m, o, i, proof)
    PROVE  DropsOK'
<1> DEFINE k == <<Root(db, m), o>>
           q == <<Root(db, m), o, i>>
           d == Sweep(db, now)
           c == Closing(m, o, i, proof)
           e == RemoveBody(c, k)
           g0 == <<k, i, proof, Receipt(d, k)>>
<1>1. /\ now' = now /\ AuthorizeActor(db, m, i) /\ ProofValid(proof)
      /\ TablesOK(d, opened) /\ Trimmed(db, d)
      /\ (db' = d /\ drops' = drops) \/ Removes(m, o, i, proof)
  BY AcceptIs
<1>2. CASE db' = d /\ drops' = drops
  BY <1>1, <1>2, DropsSwept DEF Part
<1>3. CASE Removes(m, o, i, proof)
  <2>1. /\ k \in DOMAIN d.bodies /\ ~Accepted(d, q, proof) /\ db' = e
        /\ drops' = Put(drops, g0, 1 + IF g0 \in DOMAIN drops THEN drops[g0] ELSE 0)
    BY <1>3 DEF Removes
  <2>2. TablesOK(c, opened) /\ c.bodies = d.bodies /\ c.locators = d.locators
    BY <1>1, <2>1, ClosingIs
  <2>3. c.accepts = Put(d.accepts, q, Acceptance(proof))
    BY <1>1, <2>1, ClosingIs
  <2>4. Else(d, c)
    BY <1>1, <2>1, ClosingIs
  <2>5. \A g \in DOMAIN drops : drops[g] = 1 /\ DropOK(d, now, g)
    BY SweepDrop DEF DropsOK
  <2>6. PICK l \in DOMAIN d.locators : Names(l, k) /\ d.locators[l] = Receipt(d, k)
    BY <1>1, <2>1, ReceiptIs
  <2>7. Receipt(d, k) \in Nat /\ Receipt(d, k) > now
    <3>1. d.locators = Drop(db.locators, Gone(db, now))
      BY SweepFields DEF TablesOK
    <3>2. l \in DOMAIN db.locators /\ l \notin Gone(db, now) /\ d.locators[l] = db.locators[l]
      BY <3>1 DEF Drop
    <3>3. db.locators[l] \in Nat
      BY <3>2 DEF TablesOK, BodiesOK
    <3> QED
      BY <2>6, <3>2, <3>3 DEF Gone
  <2>8. k \in Roots \X Objects
    BY <1>1, <2>1 DEF TablesOK, RowsOK
  <2>9. i \notin d.erased
    BY <1>1 DEF Trimmed, AuthorizeActor
  <2>10. proof > now /\ proof =< now + AcceptLife
    BY <1>1, ReplicaAssumption DEF ProofValid
  <2>11. g0[1] = k /\ g0[2] = i /\ g0[3] = proof /\ g0[4] = Receipt(d, k) /\ Memory(g0) = q
    BY DEF Memory
  <2>12. g0 \notin DOMAIN drops
    <3> SUFFICES ASSUME g0 \in DOMAIN drops PROVE FALSE
      OBVIOUS
    <3>1. DropOK(d, now, g0)
      BY <2>5
    <3> HIDE DEF d, q, g0
    <3>2. q \in DOMAIN d.accepts /\ proof =< d.accepts[q].proof
      BY <3>1, <2>7, <2>9, <2>10, <2>11 DEF DropOK, Memory
    <3> QED
      BY <2>1, <3>2 DEF Accepted
  <2> HIDE DEF d, c, k
  <2>13. Trimmed(c, e) /\ e.locators = c.locators /\ e.accepts = c.accepts
    BY <2>1, <2>2, RemoveTrims
  <2> HIDE DEF e
  <2>14. e.locators = d.locators /\ e.erased = d.erased /\ e.accepts = Put(d.accepts, q, Acceptance(proof))
    BY <2>2, <2>3, <2>4, <2>13 DEF Trimmed, Else
  <2> HIDE DEF q, g0
  <2>15. /\ q \in DOMAIN e.accepts /\ e.accepts[q] = Acceptance(proof)
         /\ \A x \in DOMAIN d.accepts : x # q => x \in DOMAIN e.accepts /\ e.accepts[x] = d.accepts[x]
    BY <2>14 DEF Put
  <2>16. Acceptance(proof).until = now + AcceptLife /\ Acceptance(proof).proof = proof
    BY DEF Acceptance
  <2>17. DropOK(e, now, g0)
    <3>1. g0 \in (Roots \X Objects) \X Identities \X Nat \X Nat
      BY <2>7, <2>8 DEF g0
    <3>2. \E x \in DOMAIN e.locators : Names(x, g0[1]) /\ e.locators[x] = g0[4]
      BY <2>6, <2>11, <2>14
    <3>3. g0[3] =< e.accepts[q].proof /\ g0[3] =< e.accepts[q].until
      BY <2>10, <2>11, <2>15, <2>16
    <3> QED
      BY <2>11, <2>15, <3>1, <3>2, <3>3 DEF DropOK, Memory
  <2>18. ASSUME NEW g \in DOMAIN drops PROVE DropOK(e, now, g)
    <3>1. DropOK(d, now, g)
      BY <2>5
    <3>2. CASE Memory(g) # q
      BY <2>14, <2>15, <3>1, <3>2, DropByKeep
    <3>3. CASE Memory(g) = q /\ q \notin DOMAIN d.accepts
      BY <2>14, <3>1, <3>3, DropByKeep
    <3>4. CASE Memory(g) = q /\ q \in DOMAIN d.accepts
      <4>1. d.accepts[q].proof \in Nat /\ d.accepts[q].proof < proof
        BY <1>1, <2>1, <3>4 DEF Accepted, TablesOK, RequestsOK
      <4>2. /\ g \in (Roots \X Objects) \X Identities \X Nat \X Nat
            /\ g[4] =< now \/ \E x \in DOMAIN d.locators : Names(x, g[1]) /\ d.locators[x] = g[4]
            /\ g[3] =< now \/ g[4] =< now \/ g[2] \in d.erased \/ g[3] =< d.accepts[q].proof
        BY <3>1, <3>4 DEF DropOK, Memory
      <4>3. g[3] \in Nat /\ AcceptLife \in Nat
        BY <4>2, ReplicaAssumption
      <4>4. g[3] =< d.accepts[q].proof => g[3] =< proof /\ g[3] =< now + AcceptLife
        BY <2>10, <4>1, <4>3
      <4> QED
        BY <2>14, <2>15, <2>16, <3>4, <4>2, <4>4 DEF DropOK, Memory
    <3> QED
      BY <3>2, <3>3, <3>4
  <2>19. /\ DOMAIN drops' = DOMAIN drops \cup {g0} /\ drops'[g0] = 1
         /\ \A g \in DOMAIN drops : drops'[g] = 1
    BY <2>1, <2>5, <2>12 DEF Put
  <2> QED
    BY <1>1, <2>1, <2>17, <2>18, <2>19 DEF DropsOK
<1> QED
  BY <1>1, <1>2, <1>3

LEMMA DropsInit == Init => DropsOK
BY DEF Init, DropsOK, Empty

LEMMA DropsNext == TablesInv /\ DropsOK /\ [Next]_vars => DropsOK'
<1> SUFFICES ASSUME TablesInv, DropsOK, [Next]_vars PROVE DropsOK'
  OBVIOUS
<1>0. TablesOK(db, opened) /\ now \in Nat /\ MaxTime \in Nat
  BY ReplicaAssumption DEF TablesInv
<1>1. CASE Tick
  BY <1>0, <1>1, DropsTick
<1>2. CASE (\E a \in Accesses : ConsumeAccess(a)) \/ UNCHANGED vars
  BY <1>2, DropsQuiet DEF ConsumeAccess, vars, Part
<1>3. ASSUME NEW r \in Roots, ReserveMailbox(r) PROVE DropsOK'
  <2>1. now' = now /\ drops' = drops /\ r \notin db.boxes /\ db' = [db EXCEPT !.boxes = @ \cup {r}]
    BY <1>3 DEF ReserveMailbox, history
  <2>2. Fields(db)
    BY <1>0 DEF TablesOK
  <2>3. db'.locators = db.locators /\ db'.accepts = db.accepts /\ db'.erased = db.erased
    BY <2>1, <2>2 DEF Fields
  <2> QED
    BY <2>1, <2>3, DropsQuiet DEF Part
<1>4. ASSUME NEW r \in Roots, DeleteMailboxTree(r) PROVE DropsOK'
  BY <1>0, <1>4, DropsDelete
<1>5. ASSUME NEW p \in db.boxes, NEW c \in Children, NEW t \in 1 .. MaxTime, CreateChild(p, c, t)
      PROVE  DropsOK'
  BY <1>0, <1>5, DropsCreate
<1>6. ASSUME NEW r \in Roots, NEW S \in SUBSET Identities, SetSpaceMembers(r, S) PROVE DropsOK'
  BY <1>0, <1>6, DropsMembers
<1>7. CASE RequireContentOwnership \/ \E i \in Identities : Revoke(i)
  <2>1. now' = now /\ drops' = drops
    BY <1>7 DEF RequireContentOwnership, Revoke, history
  <2>2. Steady(db, db') /\ db'.erased = db.erased /\ db'.accepts = db.accepts
    BY <1>0, <1>7, FlagTables
  <2> QED
    BY <2>1, <2>2, DropsQuiet DEF Steady, Part
<1>8. ASSUME NEW m \in db.boxes, NEW o \in Objects, NEW i \in Identities \cup {None},
             NEW message \in BOOLEAN, Post(m, o, i, message)
      PROVE  DropsOK'
  BY <1>0, <1>8, DropsPost
<1>9. CASE Maintain
  BY <1>0, <1>9, DropsSwept DEF Maintain, history, Part
<1>10. ASSUME NEW m \in db.boxes, Inventory(m) PROVE DropsOK'
  BY <1>0, <1>10, DropsInventory
<1>11. ASSUME NEW m \in db.boxes, NEW o \in Objects, NEW i \in Identities,
              NEW t \in 1 .. MaxTime + ProofLife,
              RequestMessage(m, o, i, t) \/ AcceptMessage(m, o, i, t)
       PROVE  DropsOK'
  <2>0. t \in Nat
    BY ReplicaAssumption
  <2> QED
    BY <1>0, <1>11, <2>0, DropsRequest, DropsAccept
<1>12. ASSUME NEW r \in Roots, NEW t \in 0 .. MaxTime, PruneMessages(r, t) PROVE DropsOK'
  <2>1. now' = now /\ drops' = drops
    BY <1>12 DEF PruneMessages, history
  <2>2. Steady(db, db') /\ db'.erased = db.erased /\ db'.accepts = db.accepts
    BY <1>0, <1>12, PruneTables
  <2> QED
    BY <2>1, <2>2, DropsQuiet DEF Steady, Part
<1>13. ASSUME NEW r \in Roots, NEW i \in Identities, EraseAccountContent(r, i) PROVE DropsOK'
  BY <1>0, <1>13, DropsErase
<1> QED
  BY <1>1, <1>2, <1>3, <1>4, <1>5, <1>6, <1>7, <1>8, <1>9, <1>10, <1>11, <1>12, <1>13 DEF Next

LEMMA DropsHold == Spec => []DropsOK
BY DropsInit, DropsNext, MailboxInvariant, PTL DEF Spec

-----------------------------------------------------------------------------
(* No tree is over its quota.                                               *)

\* What counts against a mailbox: the deliveries of its tree, and its message rows.
Deep(d, m) == {x \in d.dels : m \in Ancestors(d, x[1])}

At(X, m) == {k \in X : k[1] = m}

MetaRows(d, m) ==
    Cardinality(At(DOMAIN d.bodies, m)) + Cardinality(At(DOMAIN d.locators, m))
    + Cardinality(At(DOMAIN d.requests, m)) + Cardinality(At(DOMAIN d.accepts, m))

Finite(d) ==
    /\ IsFiniteSet(d.dels)
    /\ IsFiniteSet(DOMAIN d.bodies) /\ IsFiniteSet(DOMAIN d.locators)
    /\ IsFiniteSet(DOMAIN d.requests) /\ IsFiniteSet(DOMAIN d.accepts)

\* The rows of Y are those of X and at most one more, k.
LEMMA AtGrows ==
    ASSUME NEW X, IsFiniteSet(X), NEW Y, NEW k, Y \subseteq X \cup {k}, NEW m
    PROVE  /\ IsFiniteSet(Y)
           /\ Cardinality(At(X, m)) \in Nat /\ Cardinality(At(Y, m)) \in Nat
           /\ Cardinality(At(Y, m)) =< Cardinality(At(X, m)) + 1
           /\ k \in X \/ k[1] # m \/ k \notin Y => Cardinality(At(Y, m)) =< Cardinality(At(X, m))
<1>1. IsFiniteSet(X \cup {k}) /\ IsFiniteSet(Y)
  <2>1. IsFiniteSet(X \cup {k})
    BY FS_AddElement
  <2> QED
    BY <2>1, FS_Subset
<1>2. IsFiniteSet(At(X, m)) /\ IsFiniteSet(At(Y, m))
  <2>1. At(X, m) \subseteq X /\ At(Y, m) \subseteq Y
    BY DEF At
  <2> QED
    BY <1>1, <2>1, FS_Subset
<1>3. Cardinality(At(X, m)) \in Nat /\ Cardinality(At(Y, m)) \in Nat
  BY <1>2, FS_CardinalityType
<1>4. Cardinality(At(Y, m)) =< Cardinality(At(X, m)) + 1
  <2>1. At(Y, m) \subseteq At(X, m) \cup {k}
    BY DEF At
  <2>2. /\ IsFiniteSet(At(X, m) \cup {k})
        /\ Cardinality(At(X, m) \cup {k}) = Cardinality(At(X, m))
           \/ Cardinality(At(X, m) \cup {k}) = Cardinality(At(X, m)) + 1
    BY <1>2, FS_AddElement
  <2>3. Cardinality(At(Y, m)) =< Cardinality(At(X, m) \cup {k})
    BY <2>1, <2>2, FS_Subset
  <2> QED
    BY <1>3, <2>2, <2>3
<1>5. ASSUME k \in X \/ k[1] # m \/ k \notin Y
      PROVE  Cardinality(At(Y, m)) =< Cardinality(At(X, m))
  <2>1. At(Y, m) \subseteq At(X, m)
    BY <1>5 DEF At
  <2> QED
    BY <1>2, <2>1, FS_Subset
<1> QED
  BY <1>1, <1>3, <1>4, <1>5

LEMMA AtShrinks ==
    ASSUME NEW X, IsFiniteSet(X), NEW Y, Y \subseteq X, NEW m
    PROVE  /\ IsFiniteSet(Y)
           /\ Cardinality(At(X, m)) \in Nat /\ Cardinality(At(Y, m)) \in Nat
           /\ Cardinality(At(Y, m)) =< Cardinality(At(X, m))
<1>1. IsFiniteSet(Y)
  BY FS_Subset
<1>2. At(X, m) \subseteq X /\ At(Y, m) \subseteq At(X, m)
  BY DEF At
<1>3. IsFiniteSet(At(X, m)) /\ IsFiniteSet(At(Y, m))
  BY <1>2, FS_Subset
<1>4. Cardinality(At(X, m)) \in Nat /\ Cardinality(At(Y, m)) \in Nat
  BY <1>3, FS_CardinalityType
<1>5. Cardinality(At(Y, m)) =< Cardinality(At(X, m))
  BY <1>2, <1>3, FS_Subset
<1> QED
  BY <1>1, <1>4, <1>5

LEMMA UsedIs ==
    ASSUME NEW d, Finite(d), NEW m
    PROVE  /\ Used(d, m) = Cardinality(Deep(d, m)) + Meta * MetaRows(d, m)
           /\ IsFiniteSet(Deep(d, m)) /\ Cardinality(Deep(d, m)) \in Nat
           /\ MetaRows(d, m) \in Nat
           /\ Meta * MetaRows(d, m) \in Nat
<1>1. IsFiniteSet(Deep(d, m))
  <2>1. Deep(d, m) \subseteq d.dels
    BY DEF Deep
  <2> QED
    BY <2>1, FS_Subset DEF Finite
<1>2. Cardinality(Deep(d, m)) \in Nat
  BY <1>1, FS_CardinalityType
<1>3. /\ Cardinality(At(DOMAIN d.bodies, m)) \in Nat /\ Cardinality(At(DOMAIN d.locators, m)) \in Nat
      /\ Cardinality(At(DOMAIN d.requests, m)) \in Nat /\ Cardinality(At(DOMAIN d.accepts, m)) \in Nat
  BY AtShrinks DEF Finite
<1>4. MetaRows(d, m) \in Nat
  BY <1>3 DEF MetaRows
<1>5. Meta * MetaRows(d, m) \in Nat
  BY <1>4, ReplicaAssumption
<1>6. Used(d, m) = Cardinality(Deep(d, m)) + Meta * MetaRows(d, m)
  BY DEF Used, Deep, MetaRows, At
<1> QED
  BY <1>1, <1>2, <1>4, <1>5, <1>6

LEMMA MetaTimes ==
    ASSUME NEW a \in Nat, NEW b \in Nat
    PROVE  /\ a =< b => Meta * a =< Meta * b
           /\ a =< b + 1 => Meta * a =< Meta * b + Meta
<1>1. Meta \in Nat
  BY ReplicaAssumption
<1>2. ASSUME NEW x \in Nat, NEW y \in Nat, x =< y PROVE Meta * x =< Meta * y
  <2>1. y - x \in Nat /\ y = x + (y - x)
    BY <1>2
  <2> DEFINE z == y - x
  <2>2. z \in Nat /\ y = x + z
    BY <2>1
  <2> HIDE DEF z
  <2>3. Meta * (x + z) = Meta * x + Meta * z
    BY <1>1, <2>2
  <2>4. Meta * z \in Nat /\ Meta * x \in Nat
    BY <1>1, <2>2
  <2> QED
    BY <2>2, <2>3, <2>4
<1>3. Meta * (b + 1) = Meta * b + Meta
  BY <1>1
<1> QED
  BY <1>2, <1>3

\* e counts against m at most what d did, and a deliveries and b rows more.
LEMMA UsedGrows ==
    ASSUME NEW d, Finite(d), NEW e, Finite(e), NEW m, NEW a \in 0 .. 1, NEW b \in 0 .. 1,
           Cardinality(Deep(e, m)) =< Cardinality(Deep(d, m)) + a,
           MetaRows(e, m) =< MetaRows(d, m) + b
    PROVE  /\ Used(d, m) \in Nat /\ Used(e, m) \in Nat
           /\ b = 0 => Used(e, m) =< Used(d, m) + a
           /\ Used(e, m) =< Used(d, m) + a + Meta
<1> DEFINE p == Cardinality(Deep(d, m))
           q == Cardinality(Deep(e, m))
           x == MetaRows(d, m)
           y == MetaRows(e, m)
           s == Meta * x
           t == Meta * y
<1>1. /\ p \in Nat /\ q \in Nat /\ x \in Nat /\ y \in Nat /\ s \in Nat /\ t \in Nat /\ Meta \in Nat
      /\ Used(d, m) = p + s /\ Used(e, m) = q + t
  BY UsedIs, ReplicaAssumption
<1>2. q =< p + a /\ y =< x + b
  OBVIOUS
<1> HIDE DEF p, q, x, y
<1>3. (b = 0 => t =< s) /\ t =< s + Meta
  <2>1. b = 0 => y =< x
    BY <1>1, <1>2
  <2>2. y =< x + 1
    BY <1>1, <1>2
  <2> QED
    BY <1>1, <2>1, <2>2, MetaTimes
<1> HIDE DEF s, t
<1> QED
  BY <1>1, <1>2, <1>3

LEMMA DeepShrinks ==
    ASSUME NEW d, Finite(d), NEW e, e.dels \subseteq d.dels, NEW m,
           \A x \in e.dels : m \in Ancestors(e, x[1]) => m \in Ancestors(d, x[1])
    PROVE  Cardinality(Deep(e, m)) =< Cardinality(Deep(d, m)) + 0
<1>1. Deep(e, m) \subseteq Deep(d, m)
  BY DEF Deep
<1>2. IsFiniteSet(Deep(d, m)) /\ Cardinality(Deep(d, m)) \in Nat
  BY UsedIs
<1>3. Cardinality(Deep(e, m)) =< Cardinality(Deep(d, m)) /\ Cardinality(Deep(e, m)) \in Nat
  BY <1>1, <1>2, FS_Subset, FS_CardinalityType
<1> QED
  BY <1>2, <1>3

LEMMA QuotaIs ==
    ASSUME NEW d
    PROVE  QuotaOK(d) <=> Finite(d) /\ \A m \in d.boxes : Used(d, m) =< Quota[m]
BY DEF QuotaOK, Finite

\* Message rows that go.
LEMMA RowsShrink ==
    ASSUME NEW d, Finite(d), NEW e,
           DOMAIN e.bodies \subseteq DOMAIN d.bodies, DOMAIN e.locators \subseteq DOMAIN d.locators,
           DOMAIN e.requests \subseteq DOMAIN d.requests, DOMAIN e.accepts \subseteq DOMAIN d.accepts,
           NEW m
    PROVE  MetaRows(e, m) =< MetaRows(d, m) + 0
<1> DEFINE b1 == Cardinality(At(DOMAIN d.bodies, m))
           b2 == Cardinality(At(DOMAIN d.locators, m))
           b3 == Cardinality(At(DOMAIN d.requests, m))
           b4 == Cardinality(At(DOMAIN d.accepts, m))
           c1 == Cardinality(At(DOMAIN e.bodies, m))
           c2 == Cardinality(At(DOMAIN e.locators, m))
           c3 == Cardinality(At(DOMAIN e.requests, m))
           c4 == Cardinality(At(DOMAIN e.accepts, m))
<1>1. b1 \in Nat /\ c1 \in Nat /\ c1 =< b1
  BY AtShrinks DEF Finite
<1>2. b2 \in Nat /\ c2 \in Nat /\ c2 =< b2
  BY AtShrinks DEF Finite
<1>3. b3 \in Nat /\ c3 \in Nat /\ c3 =< b3
  BY AtShrinks DEF Finite
<1>4. b4 \in Nat /\ c4 \in Nat /\ c4 =< b4
  BY AtShrinks DEF Finite
<1>5. MetaRows(d, m) = b1 + b2 + b3 + b4 /\ MetaRows(e, m) = c1 + c2 + c3 + c4
  BY DEF MetaRows
<1> HIDE DEF b1, b2, b3, b4, c1, c2, c3, c4
<1> QED
  BY <1>1, <1>2, <1>3, <1>4, <1>5

\* Rows that go free room.
LEMMA QuotaShrinks ==
    ASSUME NEW d, TreeOK(d), QuotaOK(d), NEW e, e.boxes \subseteq d.boxes, e.dels \subseteq d.dels,
           DOMAIN e.bodies \subseteq DOMAIN d.bodies, DOMAIN e.locators \subseteq DOMAIN d.locators,
           DOMAIN e.requests \subseteq DOMAIN d.requests, DOMAIN e.accepts \subseteq DOMAIN d.accepts,
           \A x \in e.dels : Ancestors(e, x[1]) = Ancestors(d, x[1])
    PROVE  QuotaOK(e)
<1>1. Finite(d) /\ \A m \in d.boxes : Used(d, m) =< Quota[m]
  BY QuotaIs
<1>2. Finite(e)
  BY <1>1, FS_Subset DEF Finite
<1>3. ASSUME NEW m \in e.boxes PROVE Used(e, m) =< Quota[m]
  <2>1. Cardinality(Deep(e, m)) =< Cardinality(Deep(d, m)) + 0
    BY <1>1, DeepShrinks
  <2>2. MetaRows(e, m) =< MetaRows(d, m) + 0
    BY <1>1, RowsShrink
  <2>3. Used(d, m) \in Nat /\ Used(e, m) \in Nat /\ Used(e, m) =< Used(d, m) + 0
    BY <1>1, <1>2, <2>1, <2>2, UsedGrows
  <2>4. Used(d, m) =< Quota[m] /\ Quota[m] \in Nat
    BY <1>1, ReplicaAssumption DEF TreeOK
  <2> QED
    BY <2>3, <2>4
<1> QED
  BY <1>2, <1>3, QuotaIs

LEMMA QuotaTrimmed ==
    ASSUME NEW d, NEW op, TablesOK(d, op), QuotaOK(d), NEW e, Trimmed(d, e)
    PROVE  QuotaOK(e)
<1>1. \A m : Ancestors(e, m) = Ancestors(d, m)
  BY AncestorsSame DEF Trimmed
<1>2. TreeOK(d) /\ e.boxes \subseteq d.boxes
  BY DEF TablesOK, Trimmed
<1>3. /\ e.dels \subseteq d.dels
      /\ DOMAIN e.bodies \subseteq DOMAIN d.bodies /\ DOMAIN e.locators \subseteq DOMAIN d.locators
      /\ DOMAIN e.requests \subseteq DOMAIN d.requests /\ DOMAIN e.accepts \subseteq DOMAIN d.accepts
  BY DEF Trimmed, Part
<1> QED
  BY <1>1, <1>2, <1>3, QuotaShrinks

LEMMA QuotaSteady ==
    ASSUME NEW d, NEW op, TablesOK(d, op), QuotaOK(d), NEW e, Steady(d, e)
    PROVE  QuotaOK(e)
<1>1. \A m : Ancestors(e, m) = Ancestors(d, m)
  BY AncestorsSame DEF Steady
<1>2. TreeOK(d) /\ e.boxes \subseteq d.boxes
  BY DEF TablesOK, Steady
<1>3. /\ e.dels \subseteq d.dels
      /\ DOMAIN e.bodies \subseteq DOMAIN d.bodies /\ DOMAIN e.locators \subseteq DOMAIN d.locators
      /\ DOMAIN e.requests \subseteq DOMAIN d.requests /\ DOMAIN e.accepts \subseteq DOMAIN d.accepts
  BY DEF Steady, Part
<1> QED
  BY <1>1, <1>2, <1>3, QuotaShrinks

LEMMA QuotaRemoved ==
    ASSUME NEW d, NEW op, TablesOK(d, op), QuotaOK(d), NEW S,
           \A m \in d.boxes \ S : Ancestors(d, m) \cap S = {}
    PROVE  QuotaOK(RemoveBoxes(d, S))
<1> DEFINE e == RemoveBoxes(d, S)
<1>1. TablesOK(e, op) /\ e.boxes = d.boxes \ S
  BY RemovedBoxes
<1>2. e.dels = Outside(d.dels, S)
  BY RemovedBoxes
<1>3. \A m \in e.boxes : Ancestors(e, m) = Ancestors(d, m)
  BY RemovedBoxes
<1>4. Part(e.bodies, d.bodies) /\ Part(e.requests, d.requests)
  BY RemovedBoxes
<1>5. Part(e.locators, d.locators) /\ Part(e.accepts, d.accepts)
  BY RemovedBoxes
<1> HIDE DEF e
<1>6. e.boxes \subseteq d.boxes /\ e.dels \subseteq d.dels
  BY <1>1, <1>2 DEF Outside
<1>7. \A x \in e.dels : Ancestors(e, x[1]) = Ancestors(d, x[1])
  BY <1>1, <1>3 DEF TablesOK, RowsOK
<1>8. QuotaOK(e)
  BY <1>4, <1>5, <1>6, <1>7, QuotaShrinks DEF Part, TablesOK
<1> QED
  BY <1>8 DEF e

\* Nothing counts against a mailbox that was just made.
LEMMA QuotaFresh ==
    ASSUME NEW d, NEW op, TablesOK(d, op), QuotaOK(d), NEW c \in Roots \cup Children, c \notin d.boxes,
           NEW e, e.boxes = d.boxes \cup {c}, e.dels = d.dels, e.bodies = d.bodies,
           e.locators = d.locators, e.requests = d.requests, e.accepts = d.accepts,
           \A m \in d.boxes : Ancestors(e, m) = Ancestors(d, m)
    PROVE  QuotaOK(e)
<1>1. Finite(d) /\ \A m \in d.boxes : Used(d, m) =< Quota[m]
  BY QuotaIs
<1>2. Finite(e)
  BY <1>1 DEF Finite
<1>a. TreeOK(d) /\ RowsOK(d)
  BY DEF TablesOK
<1>3. ASSUME NEW m \in d.boxes PROVE Used(e, m) =< Quota[m]
  <2>1. \A x \in e.dels : Ancestors(e, x[1]) = Ancestors(d, x[1])
    BY <1>a DEF RowsOK
  <2>2. Cardinality(Deep(e, m)) =< Cardinality(Deep(d, m)) + 0
    BY <1>1, <2>1, DeepShrinks
  <2>3. MetaRows(e, m) =< MetaRows(d, m) + 0
    BY <1>1, RowsShrink
  <2>4. Used(d, m) \in Nat /\ Used(e, m) \in Nat /\ Used(e, m) =< Used(d, m) + 0
    BY <1>1, <1>2, <2>2, <2>3, UsedGrows
  <2>5. Used(d, m) =< Quota[m] /\ Quota[m] \in Nat
    BY <1>1, <1>a, ReplicaAssumption DEF TreeOK
  <2> QED
    BY <2>4, <2>5
<1>4. Used(e, c) =< Quota[c]
  <2>1. Deep(e, c) = {}
    <3>1. ASSUME NEW x \in d.dels PROVE c \notin Ancestors(e, x[1])
      <4>1. x[1] \in d.boxes
        BY <1>a DEF RowsOK
      <4>2. \A a \in Ancestors(d, x[1]) : a \in d.boxes
        BY <1>a, <4>1, AncestorsUp
      <4> QED
        BY <4>1, <4>2
    <3> QED
      BY <3>1 DEF Deep
  <2>2. /\ At(DOMAIN e.bodies, c) = {} /\ At(DOMAIN e.locators, c) = {}
    BY <1>a DEF At, RowsOK
  <2>3. /\ At(DOMAIN e.requests, c) = {} /\ At(DOMAIN e.accepts, c) = {}
    <3>1. ASSUME NEW q \in DOMAIN d.requests \cup DOMAIN d.accepts PROVE q[1] \in d.boxes
      <4>1. <<q[1], q[2]>> \in DOMAIN d.bodies
        BY <1>a DEF RowsOK
      <4>2. <<q[1], q[2]>>[1] \in d.boxes
        BY <1>a, <4>1 DEF RowsOK
      <4> QED
        BY <4>2
    <3> QED
      BY <3>1 DEF At
  <2>4. Cardinality({}) = 0
    BY FS_EmptySet
  <2>5. MetaRows(e, c) = 0
    BY <2>2, <2>3, <2>4 DEF MetaRows
  <2>6. Used(e, c) = 0 + Meta * 0
    BY <1>2, <2>1, <2>4, <2>5, UsedIs
  <2> QED
    BY <2>6, ReplicaAssumption
<1>5. \A m \in e.boxes : Used(e, m) =< Quota[m]
  BY <1>3, <1>4
<1> QED
  BY <1>2, <1>5, QuotaIs

\* A message row more, where there is room for it.
LEMMA QuotaRow ==
    ASSUME NEW d, NEW op, TablesOK(d, op), QuotaOK(d), NEW e, Finite(e),
           e.boxes = d.boxes, e.deleg = d.deleg, e.dels = d.dels,
           NEW r \in d.boxes, NEW b \in 0 .. 1,
           MetaRows(e, r) =< MetaRows(d, r) + b,
           \A m \in d.boxes : m # r => MetaRows(e, m) =< MetaRows(d, m) + 0,
           MetadataRoom(d, r, IF b = 0 THEN 0 ELSE Meta)
    PROVE  QuotaOK(e)
<1>1. Finite(d) /\ \A m \in d.boxes : Used(d, m) =< Quota[m]
  BY QuotaIs
<1>2. ASSUME NEW m \in d.boxes PROVE Used(e, m) =< Quota[m]
  <2>1. \A x \in e.dels : Ancestors(e, x[1]) = Ancestors(d, x[1])
    BY AncestorsSame
  <2>2. Cardinality(Deep(e, m)) =< Cardinality(Deep(d, m)) + 0
    BY <1>1, <2>1, DeepShrinks
  <2>3. Used(d, m) =< Quota[m] /\ Quota[m] \in Nat /\ Meta \in Nat
    BY <1>1, ReplicaAssumption DEF TreeOK, TablesOK
  <2>4. CASE m # r \/ b = 0
    <3>1. MetaRows(e, m) =< MetaRows(d, m) + 0
      BY <2>4
    <3>2. Used(d, m) \in Nat /\ Used(e, m) \in Nat /\ Used(e, m) =< Used(d, m) + 0
      BY <1>1, <2>2, <3>1, UsedGrows
    <3> QED
      BY <2>3, <3>2
  <2>5. CASE m = r /\ b = 1
    <3>1. Used(d, m) \in Nat /\ Used(e, m) \in Nat /\ Used(e, m) =< Used(d, m) + 0 + Meta
      BY <1>1, <2>2, <2>5, UsedGrows
    <3>2. Meta > 0 => Meta =< Quota[m] - Used(d, m)
      BY <2>5 DEF MetadataRoom
    <3> QED
      BY <2>3, <3>1, <3>2
  <2> QED
    BY <2>4, <2>5
<1> QED
  BY <1>2, QuotaIs

\* A request that is written.
LEMMA QuotaRequest ==
    ASSUME NEW d, NEW op, TablesOK(d, op), QuotaOK(d), NEW e,
           e.boxes = d.boxes, e.deleg = d.deleg, e.dels = d.dels, e.bodies = d.bodies,
           e.locators = d.locators, NEW q, q[1] \in d.boxes,
           DOMAIN e.requests = DOMAIN d.requests \cup {q}, DOMAIN e.accepts = DOMAIN d.accepts,
           MetadataRoom(d, q[1], IF q \in DOMAIN d.requests THEN 0 ELSE Meta)
    PROVE  QuotaOK(e)
<1> DEFINE b == IF q \in DOMAIN d.requests THEN 0 ELSE 1
<1>1. Finite(d)
  BY QuotaIs
<1>2. ASSUME NEW m
      PROVE  /\ IsFiniteSet(DOMAIN e.requests)
             /\ MetaRows(e, m) =< MetaRows(d, m) + b
             /\ m # q[1] => MetaRows(e, m) =< MetaRows(d, m) + 0
  <2> DEFINE x == Cardinality(At(DOMAIN d.requests, m))
             y == Cardinality(At(DOMAIN e.requests, m))
             z1 == Cardinality(At(DOMAIN d.bodies, m))
             z2 == Cardinality(At(DOMAIN d.locators, m))
             z3 == Cardinality(At(DOMAIN d.accepts, m))
  <2>1. /\ IsFiniteSet(DOMAIN e.requests) /\ x \in Nat /\ y \in Nat /\ y =< x + 1
        /\ q \in DOMAIN d.requests \/ q[1] # m => y =< x
    BY <1>1, AtGrows DEF Finite
  <2>2. z1 \in Nat /\ z2 \in Nat /\ z3 \in Nat
    BY <1>1, AtShrinks DEF Finite
  <2>3. MetaRows(d, m) = z1 + z2 + x + z3 /\ MetaRows(e, m) = z1 + z2 + y + z3
    BY DEF MetaRows
  <2> HIDE DEF x, y, z1, z2, z3
  <2> QED
    BY <2>1, <2>2, <2>3
<1>3. Finite(e)
  BY <1>1, <1>2 DEF Finite
<1>4. b \in 0 .. 1 /\ MetadataRoom(d, q[1], IF b = 0 THEN 0 ELSE Meta)
  OBVIOUS
<1> HIDE DEF b
<1> QED
  BY <1>2, <1>3, <1>4, QuotaRow

\* An acceptance that is written.
LEMMA QuotaAccept ==
    ASSUME NEW d, NEW op, TablesOK(d, op), QuotaOK(d), NEW e,
           e.boxes = d.boxes, e.deleg = d.deleg, e.dels = d.dels, e.bodies = d.bodies,
           e.locators = d.locators, NEW q, q[1] \in d.boxes,
           DOMAIN e.accepts = DOMAIN d.accepts \cup {q}, DOMAIN e.requests = DOMAIN d.requests,
           MetadataRoom(d, q[1], IF q \in DOMAIN d.accepts THEN 0 ELSE Meta)
    PROVE  QuotaOK(e)
<1> DEFINE b == IF q \in DOMAIN d.accepts THEN 0 ELSE 1
<1>1. Finite(d)
  BY QuotaIs
<1>2. ASSUME NEW m
      PROVE  /\ IsFiniteSet(DOMAIN e.accepts)
             /\ MetaRows(e, m) =< MetaRows(d, m) + b
             /\ m # q[1] => MetaRows(e, m) =< MetaRows(d, m) + 0
  <2> DEFINE x == Cardinality(At(DOMAIN d.accepts, m))
             y == Cardinality(At(DOMAIN e.accepts, m))
             z1 == Cardinality(At(DOMAIN d.bodies, m))
             z2 == Cardinality(At(DOMAIN d.locators, m))
             z3 == Cardinality(At(DOMAIN d.requests, m))
  <2>1. /\ IsFiniteSet(DOMAIN e.accepts) /\ x \in Nat /\ y \in Nat /\ y =< x + 1
        /\ q \in DOMAIN d.accepts \/ q[1] # m => y =< x
    BY <1>1, AtGrows DEF Finite
  <2>2. z1 \in Nat /\ z2 \in Nat /\ z3 \in Nat
    BY <1>1, AtShrinks DEF Finite
  <2>3. MetaRows(d, m) = z1 + z2 + z3 + x /\ MetaRows(e, m) = z1 + z2 + z3 + y
    BY DEF MetaRows
  <2> HIDE DEF x, y, z1, z2, z3
  <2> QED
    BY <2>1, <2>2, <2>3
<1>3. Finite(e)
  BY <1>1, <1>2 DEF Finite
<1>4. b \in 0 .. 1 /\ MetadataRoom(d, q[1], IF b = 0 THEN 0 ELSE Meta)
  OBVIOUS
<1> HIDE DEF b
<1> QED
  BY <1>2, <1>3, <1>4, QuotaRow

\* A delivery, and the message row of its object, where there is room for both.
LEMMA QuotaStored ==
    ASSUME NEW d, NEW op, TablesOK(d, op), QuotaOK(d), NEW m \in d.boxes, NEW o \in Objects,
           Room(d, m, o), NEW e, e.boxes = d.boxes, e.deleg = d.deleg, e.dels = d.dels \cup {<<m, o>>},
           DOMAIN e.requests = DOMAIN d.requests, DOMAIN e.accepts = DOMAIN d.accepts,
           Written(d, e, m, o)
    PROVE  QuotaOK(e)
<1> DEFINE k == <<Root(d, m), o>>
           x0 == <<m, o>>
           delta == MetadataDelta(d, m, o)
           b == IF \/ Kind[o] = "locator" /\ k \notin DOMAIN d.locators
                   \/ Kind[o] = "body" /\ k \notin DOMAIN d.bodies
                THEN 1 ELSE 0
<1>1. Finite(d) /\ \A c \in d.boxes : Used(d, c) =< Quota[c]
  BY QuotaIs
<1>2. \A c : Ancestors(e, c) = Ancestors(d, c)
  BY AncestorsSame
<1>3. b \in 0 .. 1 /\ delta = (IF b = 0 THEN 0 ELSE Meta) /\ k[1] = Root(d, m)
  BY DEF MetadataDelta
<1>4. /\ DOMAIN e.locators \subseteq DOMAIN d.locators \cup {k}
      /\ DOMAIN e.bodies \subseteq DOMAIN d.bodies \cup {k}
      /\ b = 0 => DOMAIN e.locators \subseteq DOMAIN d.locators /\ DOMAIN e.bodies \subseteq DOMAIN d.bodies
      /\ DOMAIN e.locators \subseteq DOMAIN d.locators \/ DOMAIN e.bodies \subseteq DOMAIN d.bodies
  BY DEF Written
<1> HIDE DEF b, k, delta
<1>5. IsFiniteSet(e.dels)
  <2>1. IsFiniteSet(d.dels) /\ e.dels = d.dels \cup {x0}
    BY <1>1 DEF Finite
  <2> HIDE DEF x0
  <2> QED
    BY <2>1, FS_AddElement
<1>6. ASSUME NEW c
      PROVE  /\ IsFiniteSet(DOMAIN e.locators) /\ IsFiniteSet(DOMAIN e.bodies)
             /\ MetaRows(e, c) =< MetaRows(d, c) + b
             /\ c # k[1] => MetaRows(e, c) =< MetaRows(d, c) + 0
  <2> DEFINE x1 == Cardinality(At(DOMAIN d.locators, c))
             y1 == Cardinality(At(DOMAIN e.locators, c))
             x2 == Cardinality(At(DOMAIN d.bodies, c))
             y2 == Cardinality(At(DOMAIN e.bodies, c))
             z1 == Cardinality(At(DOMAIN d.requests, c))
             z2 == Cardinality(At(DOMAIN d.accepts, c))
  <2>1. /\ IsFiniteSet(DOMAIN e.locators) /\ x1 \in Nat /\ y1 \in Nat /\ y1 =< x1 + 1
        /\ k[1] # c => y1 =< x1
    BY <1>1, <1>4, AtGrows DEF Finite
  <2>2. /\ IsFiniteSet(DOMAIN e.bodies) /\ x2 \in Nat /\ y2 \in Nat /\ y2 =< x2 + 1
        /\ k[1] # c => y2 =< x2
    BY <1>1, <1>4, AtGrows DEF Finite
  <2>3. DOMAIN e.locators \subseteq DOMAIN d.locators => y1 =< x1
    BY <1>1, AtShrinks DEF Finite
  <2>4. DOMAIN e.bodies \subseteq DOMAIN d.bodies => y2 =< x2
    BY <1>1, AtShrinks DEF Finite
  <2>5. z1 \in Nat /\ z2 \in Nat
    BY <1>1, AtShrinks DEF Finite
  <2>6. MetaRows(d, c) = x2 + x1 + z1 + z2 /\ MetaRows(e, c) = y2 + y1 + z1 + z2
    BY DEF MetaRows
  <2> HIDE DEF x1, y1, x2, y2, z1, z2
  <2>7. y1 + y2 =< x1 + x2 + b /\ (c # k[1] => y1 + y2 =< x1 + x2)
    <3>1. (y1 =< x1 \/ y2 =< x2) /\ (b = 0 => y1 =< x1 /\ y2 =< x2)
      BY <1>4, <2>3, <2>4
    <3>2. b = 0 \/ b = 1
      BY <1>3
    <3> QED
      BY <2>1, <2>2, <3>1, <3>2
  <2>8. b \in Nat
    BY <1>3
  <2> QED
    BY <2>1, <2>2, <2>5, <2>6, <2>7, <2>8
<1>7. Finite(e)
  BY <1>1, <1>5, <1>6 DEF Finite
<1>8. ASSUME NEW c \in d.boxes PROVE Used(e, c) =< Quota[c]
  <2>1. Used(d, c) =< Quota[c] /\ Quota[c] \in Nat /\ Meta \in Nat
    BY <1>1, ReplicaAssumption DEF TreeOK, TablesOK
  <2>2. IsFiniteSet(Deep(d, c)) /\ Cardinality(Deep(d, c)) \in Nat
    BY <1>1, UsedIs
  <2>3. CASE c \notin Ancestors(d, m)
    <3>1. Deep(e, c) = Deep(d, c)
      BY <1>2, <2>3 DEF Deep
    <3>2. Root(d, m) \in Ancestors(d, m)
      BY RootIs DEF TablesOK
    <3>3. MetaRows(e, c) =< MetaRows(d, c) + 0
      BY <1>3, <1>6, <2>3, <3>2
    <3>4. Cardinality(Deep(e, c)) =< Cardinality(Deep(d, c)) + 0
      BY <2>2, <3>1
    <3>5. Used(d, c) \in Nat /\ Used(e, c) \in Nat /\ Used(e, c) =< Used(d, c) + 0
      BY <1>1, <1>7, <3>3, <3>4, UsedGrows
    <3> QED
      BY <2>1, <3>5
  <2>4. CASE c \in Ancestors(d, m)
    <3>1. Deep(e, c) \subseteq Deep(d, c) \cup {x0}
      BY <1>2 DEF Deep
    <3> HIDE DEF x0
    <3>2. Cardinality(Deep(e, c)) =< Cardinality(Deep(d, c)) + 1
      <4>1. /\ IsFiniteSet(Deep(d, c) \cup {x0})
            /\ Cardinality(Deep(d, c) \cup {x0}) = Cardinality(Deep(d, c))
               \/ Cardinality(Deep(d, c) \cup {x0}) = Cardinality(Deep(d, c)) + 1
        BY <2>2, FS_AddElement
      <4>2. IsFiniteSet(Deep(e, c)) /\ Cardinality(Deep(e, c)) =< Cardinality(Deep(d, c) \cup {x0})
        BY <3>1, <4>1, FS_Subset
      <4>3. Cardinality(Deep(e, c)) \in Nat
        BY <4>2, FS_CardinalityType
      <4> QED
        BY <2>2, <4>1, <4>2, <4>3
    <3>3. 1 + (IF c = Root(d, m) THEN delta ELSE 0) =< Quota[c] - Used(d, c)
      BY <2>4 DEF Room, delta
    <3>4. CASE c = k[1] /\ b = 1
      <4>1. Used(d, c) \in Nat /\ Used(e, c) \in Nat /\ Used(e, c) =< Used(d, c) + 1 + Meta
        BY <1>1, <1>6, <1>7, <3>2, <3>4, UsedGrows
      <4>2. 1 + Meta =< Quota[c] - Used(d, c)
        BY <1>3, <3>3, <3>4
      <4> QED
        BY <2>1, <4>1, <4>2
    <3>5. CASE c # k[1] \/ b = 0
      <4>1. MetaRows(e, c) =< MetaRows(d, c) + 0
        BY <1>6, <3>5
      <4>2. Used(d, c) \in Nat /\ Used(e, c) \in Nat /\ Used(e, c) =< Used(d, c) + 1
        BY <1>1, <1>7, <3>2, <4>1, UsedGrows
      <4>3. 1 =< Quota[c] - Used(d, c)
        BY <1>3, <3>3, <3>5
      <4> QED
        BY <2>1, <4>2, <4>3
    <3> QED
      BY <1>3, <3>4, <3>5
  <2> QED
    BY <2>3, <2>4
<1> QED
  BY <1>7, <1>8, QuotaIs

LEMMA QuotaSwept ==
    ASSUME TablesOK(db, opened), QuotaOK(db)
    PROVE  QuotaOK(Sweep(db, now))
<1>1. Trimmed(db, Sweep(db, now))
  BY SweptTables
<1> QED
  BY <1>1, QuotaTrimmed

LEMMA QuotaCreate ==
    ASSUME TablesOK(db, opened), QuotaOK(db), now \in Nat, NEW p \in db.boxes, NEW c \in Children,
           NEW until \in Nat, CreateChild(p, c, until)
    PROVE  QuotaOK(db')
<1>1. PICK S : /\ S \subseteq DOMAIN db.deleg
               /\ \A m \in S : db.deleg[m].expires =< now
               /\ \A m \in db.boxes \ S : Ancestors(db, m) \cap S = {}
               /\ c \notin db.boxes \ S /\ p \in db.boxes \ S
               /\ LET d == IF S = {} THEN db ELSE RemoveBoxes(db, S)
                  IN /\ TablesOK(d, opened) /\ d.boxes = db.boxes \ S
                     /\ p \in DOMAIN d.deleg =>
                          d.deleg[p].parent \notin DOMAIN d.deleg /\ until =< d.deleg[p].expires
                     /\ db' = Delegated(d, p, c, until)
  BY CreateTables
<1> DEFINE d == IF S = {} THEN db ELSE RemoveBoxes(db, S)
           e == Delegated(d, p, c, until)
<1>2. /\ TablesOK(d, opened) /\ d.boxes = db.boxes \ S /\ db' = e
      /\ p \in DOMAIN d.deleg => d.deleg[p].parent \notin DOMAIN d.deleg /\ until =< d.deleg[p].expires
  BY <1>1
<1>3. QuotaOK(d)
  <2>1. QuotaOK(RemoveBoxes(db, S))
    BY <1>1, QuotaRemoved
  <2> QED
    BY <2>1
<1> HIDE DEF d
<1>4. p \in d.boxes /\ c \notin d.boxes
  BY <1>1, <1>2
<1>5. /\ e.boxes = d.boxes \cup {c} /\ e.dels = d.dels /\ e.bodies = d.bodies /\ e.locators = d.locators
      /\ e.requests = d.requests /\ e.accepts = d.accepts
  BY <1>2 DEF Delegated, Fields, TablesOK
<1>6. SameAbove(d, e)
  BY <1>2, <1>4, DelegatedTables
<1> HIDE DEF e
<1>7. QuotaOK(e)
  BY <1>2, <1>3, <1>4, <1>5, <1>6, QuotaFresh DEF SameAbove
<1> QED
  BY <1>2, <1>7

LEMMA QuotaReserve ==
    ASSUME TablesOK(db, opened), QuotaOK(db), NEW r \in Roots, ReserveMailbox(r)
    PROVE  QuotaOK(db')
<1> DEFINE e == [db EXCEPT !.boxes = @ \cup {r}]
<1>1. r \notin db.boxes /\ db' = e
  BY DEF ReserveMailbox
<1>2. /\ e.boxes = db.boxes \cup {r} /\ e.deleg = db.deleg /\ e.dels = db.dels
      /\ e.bodies = db.bodies /\ e.locators = db.locators
      /\ e.requests = db.requests /\ e.accepts = db.accepts
  BY <1>1, ReservedTables
<1> HIDE DEF e
<1>3. \A m \in db.boxes : Ancestors(e, m) = Ancestors(db, m)
  BY <1>2, AncestorsSame
<1>4. QuotaOK(e)
  BY <1>1, <1>2, <1>3, QuotaFresh
<1> QED
  BY <1>1, <1>4

LEMMA QuotaDelete ==
    ASSUME TablesOK(db, opened), QuotaOK(db), NEW r \in Roots, DeleteMailboxTree(r)
    PROVE  QuotaOK(db')
<1> DEFINE S == Tree(db, r)
<1>1. db' = RemoveBoxes(db, S)
  BY DEF DeleteMailboxTree
<1>2. \A m \in db.boxes \ S : Ancestors(db, m) \cap S = {}
  BY TreeClosed DEF TablesOK
<1> HIDE DEF S
<1>3. QuotaOK(RemoveBoxes(db, S))
  BY <1>2, QuotaRemoved
<1> QED
  BY <1>1, <1>3

LEMMA QuotaInventory ==
    ASSUME TablesOK(db, opened), QuotaOK(db), NEW m \in db.boxes, Inventory(m)
    PROVE  QuotaOK(db')
<1>1. PICK S : db' = [Sweep(db, now) EXCEPT !.requests = Drop(@, S)]
  BY InventoryTables
<1> DEFINE d == Sweep(db, now)
           e == [d EXCEPT !.requests = Drop(@, S)]
<1>2. TablesOK(d, opened) /\ QuotaOK(d)
  BY SweptTables, QuotaSwept
<1> HIDE DEF d
<1>3. Trimmed(d, e)
  BY <1>2, DropTrims
<1> HIDE DEF e
<1>4. QuotaOK(e)
  BY <1>2, <1>3, QuotaTrimmed
<1> QED
  BY <1>1, <1>4 DEF d, e

LEMMA QuotaPost ==
    ASSUME TablesOK(db, opened), QuotaOK(db), now \in Nat, NEW m \in db.boxes, NEW o \in Objects,
           NEW actor \in Identities \cup {None}, NEW message, Post(m, o, actor, message)
    PROVE  QuotaOK(db')
<1> DEFINE d == Base(m, o, actor)
<1>1. TablesOK(d, opened)
  BY BaseIs
<1>2. Trimmed(db, d)
  BY BaseTrims
<1>3. m \in d.boxes
  BY <1>2 DEF Trimmed
<1> DEFINE e == Owned(d, m, o, actor, message)
           f == RecordUpload(e, m, o, message)
<1>4. \/ db' = d
      \/ /\ db' = f /\ ~Pruned(d, m, o) /\ CheckUpload(d, m, o, actor)
         /\ NoErasedOwner(d, Owners(d, m, o, actor)) /\ SoleLocator(d, m, o) /\ Room(d, m, o)
  BY PostIs
<1> HIDE DEF d
<1>5. QuotaOK(d)
  BY <1>2, QuotaTrimmed
<1>6. CASE /\ db' = f /\ ~Pruned(d, m, o) /\ CheckUpload(d, m, o, actor)
           /\ NoErasedOwner(d, Owners(d, m, o, actor)) /\ SoleLocator(d, m, o) /\ Room(d, m, o)
  <2>1. /\ TablesOK(e, opened) /\ Uploadable(e, m, o) /\ e.dels = d.dels \cup {<<m, o>>}
        /\ e.boxes = d.boxes /\ e.deleg = d.deleg /\ e.bodies = d.bodies /\ e.locators = d.locators
        /\ e.requests = d.requests /\ e.accepts = d.accepts
    BY <1>1, <1>3, <1>6, OwnedIs
  <2> HIDE DEF e
  <2>2. m \in e.boxes /\ <<m, o>> \in e.dels /\ Fields(e)
    BY <1>3, <2>1 DEF TablesOK
  <2>3. Else(e, f)
    BY <2>1, <2>2, RecordTables
  <2>4. f.requests = e.requests
    BY <2>1, <2>2, RecordTables
  <2>5. f.accepts = e.accepts
    BY <2>1, <2>2, RecordTables
  <2>6. Root(e, m) = Root(d, m)
    BY <2>1, AncestorsSame
  <2>7. Written(e, f, m, o)
    BY <2>2, RecordRows
  <2>8. db' = f
    BY <1>6
  <2> HIDE DEF f
  <2>9. /\ f.boxes = d.boxes /\ f.deleg = d.deleg /\ f.dels = d.dels \cup {<<m, o>>}
        /\ DOMAIN f.requests = DOMAIN d.requests /\ DOMAIN f.accepts = DOMAIN d.accepts
    BY <2>1, <2>3, <2>4, <2>5 DEF Else
  <2>a. Written(d, f, m, o)
    BY <2>1, <2>6, <2>7 DEF Written
  <2>10. QuotaOK(f)
    BY <1>1, <1>3, <1>5, <1>6, <2>9, <2>a, QuotaStored
  <2> QED
    BY <2>8, <2>10
<1> QED
  BY <1>4, <1>5, <1>6

LEMMA QuotaRequested ==
    ASSUME TablesOK(db, opened), QuotaOK(db), now \in Nat, NEW m \in db.boxes, NEW o \in Objects,
           NEW i \in Identities, NEW proof \in Nat, RequestMessage(m, o, i, proof)
    PROVE  QuotaOK(db')
<1> DEFINE k == <<Root(db, m), o>>
           q == <<Root(db, m), o, i>>
           swept == Sweep(db, now)
           d == ValidWindow(swept, m, k)
           row == [from |-> now, until |-> Min({proof, now + RequestLife}), proof |-> proof]
           f == [d EXCEPT !.requests = Put(@, q, row)]
<1>1. /\ TablesOK(swept, opened) /\ TablesOK(d, opened) /\ Trimmed(swept, d)
      /\ \/ db' = swept
         \/ db' = d
         \/ /\ k \in DOMAIN d.bodies /\ db' = f
            /\ MetadataRoom(d, k[1], IF q \in DOMAIN d.requests THEN 0 ELSE Meta)
  BY RequestIs
<1>2. QuotaOK(swept)
  BY QuotaSwept
<1>3. k[1] = q[1]
  OBVIOUS
<1> HIDE DEF d, swept, k, q, row
<1>4. QuotaOK(d)
  BY <1>1, <1>2, QuotaTrimmed
<1>5. CASE /\ k \in DOMAIN d.bodies /\ db' = f
           /\ MetadataRoom(d, k[1], IF q \in DOMAIN d.requests THEN 0 ELSE Meta)
  <2>1. Fields(d)
    BY <1>1 DEF TablesOK
  <2>2. /\ f.boxes = d.boxes /\ f.deleg = d.deleg /\ f.dels = d.dels /\ f.bodies = d.bodies
        /\ f.locators = d.locators /\ f.accepts = d.accepts /\ f.requests = Put(d.requests, q, row)
    BY <2>1 DEF Fields
  <2> HIDE DEF f
  <2>3. DOMAIN f.requests = DOMAIN d.requests \cup {q}
    BY <2>2 DEF Put
  <2>4. q[1] \in d.boxes
    BY <1>1, <1>3, <1>5 DEF TablesOK, RowsOK
  <2>5. MetadataRoom(d, q[1], IF q \in DOMAIN d.requests THEN 0 ELSE Meta)
    BY <1>3, <1>5
  <2>6. QuotaOK(f)
    BY <1>1, <1>4, <2>2, <2>3, <2>4, <2>5, QuotaRequest
  <2> QED
    BY <1>5, <2>6
<1> QED
  BY <1>1, <1>2, <1>4, <1>5

LEMMA QuotaAccepted ==
    ASSUME TablesOK(db, opened), QuotaOK(db), now \in Nat, NEW m \in db.boxes, NEW o \in Objects,
           NEW i \in Identities, NEW proof \in Nat, AcceptMessage(m, o, i, proof)
    PROVE  QuotaOK(db')
<1> DEFINE k == <<Root(db, m), o>>
           q == <<Root(db, m), o, i>>
           d == Sweep(db, now)
           c == Closing(m, o, i, proof)
           e == RemoveBody(c, k)
<1>1. TablesOK(d, opened) /\ (db' = d \/ Removes(m, o, i, proof))
  BY AcceptIs
<1>2. QuotaOK(d)
  BY QuotaSwept
<1>3. CASE Removes(m, o, i, proof)
  <2>1. /\ k \in DOMAIN d.bodies /\ db' = e
        /\ MetadataRoom(d, k[1], IF q \in DOMAIN d.accepts THEN 0 ELSE Meta)
    BY <1>3 DEF Removes
  <2>2. TablesOK(c, opened) /\ c.bodies = d.bodies /\ c.locators = d.locators
    BY <1>1, <2>1, ClosingIs
  <2>3. c.accepts = Put(d.accepts, q, Acceptance(proof))
    BY <1>1, <2>1, ClosingIs
  <2>4. Else(d, c) /\ Shortens(d.requests, c.requests)
    BY <1>1, <2>1, ClosingIs
  <2>5. k[1] = q[1]
    OBVIOUS
  <2> HIDE DEF d, c, k, q
  <2>6. DOMAIN c.accepts = DOMAIN d.accepts \cup {q} /\ DOMAIN c.requests = DOMAIN d.requests
    BY <2>3, <2>4 DEF Shortens, Put
  <2>7. q[1] \in d.boxes
    BY <1>1, <2>1, <2>5 DEF TablesOK, RowsOK
  <2>8. c.boxes = d.boxes /\ c.deleg = d.deleg /\ c.dels = d.dels
    BY <2>4 DEF Else
  <2>9. QuotaOK(c)
    BY <1>1, <1>2, <2>1, <2>2, <2>5, <2>6, <2>7, <2>8, QuotaAccept
  <2>10. Trimmed(c, e)
    BY <2>1, <2>2, RemoveTrims
  <2> HIDE DEF e
  <2>11. QuotaOK(e)
    BY <2>2, <2>9, <2>10, QuotaTrimmed
  <2> QED
    BY <2>1, <2>11
<1> QED
  BY <1>1, <1>2, <1>3

LEMMA QuotaInit == Init => QuotaOK(db)
<1> SUFFICES ASSUME Init PROVE QuotaOK(db)
  OBVIOUS
<1>1. /\ db.boxes = {} /\ db.dels = {} /\ DOMAIN db.bodies = {} /\ DOMAIN db.locators = {}
      /\ DOMAIN db.requests = {} /\ DOMAIN db.accepts = {}
  BY DEF Init, Empty
<1> QED
  BY <1>1, FS_EmptySet DEF QuotaOK

LEMMA QuotaNext == TablesInv /\ QuotaOK(db) /\ [Next]_vars => QuotaOK(db)'
<1> SUFFICES ASSUME TablesInv, QuotaOK(db), [Next]_vars PROVE QuotaOK(db')
  OBVIOUS
<1>0. TablesOK(db, opened) /\ now \in Nat /\ MaxTime \in Nat
  BY ReplicaAssumption DEF TablesInv
<1>1. CASE Tick \/ (\E a \in Accesses : ConsumeAccess(a)) \/ UNCHANGED vars
  BY <1>1 DEF Tick, ConsumeAccess, vars
<1>2. ASSUME NEW r \in Roots, ReserveMailbox(r) PROVE QuotaOK(db')
  BY <1>0, <1>2, QuotaReserve
<1>3. ASSUME NEW r \in Roots, DeleteMailboxTree(r) PROVE QuotaOK(db')
  BY <1>0, <1>3, QuotaDelete
<1>4. ASSUME NEW p \in db.boxes, NEW c \in Children, NEW t \in 1 .. MaxTime, CreateChild(p, c, t)
      PROVE  QuotaOK(db')
  BY <1>0, <1>4, QuotaCreate
<1> DEFINE e == db'
<1>5. ASSUME Steady(db, db') PROVE QuotaOK(db')
  <2>1. Steady(db, e)
    BY <1>5
  <2> HIDE DEF e
  <2>2. QuotaOK(e)
    BY <1>0, <2>1, QuotaSteady
  <2> QED
    BY <2>2 DEF e
<1>6. ASSUME NEW r \in Roots, NEW S \in SUBSET Identities, SetSpaceMembers(r, S) PROVE QuotaOK(db')
  BY <1>0, <1>5, <1>6, MembersTables
<1>7. CASE RequireContentOwnership \/ \E i \in Identities : Revoke(i)
  BY <1>0, <1>5, <1>7, FlagTables
<1>8. ASSUME NEW m \in db.boxes, NEW o \in Objects, NEW i \in Identities \cup {None},
             NEW message \in BOOLEAN, Post(m, o, i, message)
      PROVE  QuotaOK(db')
  BY <1>0, <1>8, QuotaPost
<1>9. CASE Maintain
  BY <1>0, <1>9, QuotaSwept DEF Maintain
<1>10. ASSUME NEW m \in db.boxes, Inventory(m) PROVE QuotaOK(db')
  BY <1>0, <1>10, QuotaInventory
<1>11. ASSUME NEW m \in db.boxes, NEW o \in Objects, NEW i \in Identities,
              NEW t \in 1 .. MaxTime + ProofLife,
              RequestMessage(m, o, i, t) \/ AcceptMessage(m, o, i, t)
       PROVE  QuotaOK(db')
  <2>0. t \in Nat
    BY ReplicaAssumption
  <2> QED
    BY <1>0, <1>11, <2>0, QuotaRequested, QuotaAccepted
<1>12. ASSUME NEW r \in Roots, NEW t \in 0 .. MaxTime, PruneMessages(r, t) PROVE QuotaOK(db')
  BY <1>0, <1>5, <1>12, PruneTables
<1>13. ASSUME NEW r \in Roots, NEW i \in Identities, EraseAccountContent(r, i) PROVE QuotaOK(db')
  BY <1>0, <1>5, <1>13, EraseTables
<1> QED
  BY <1>1, <1>2, <1>3, <1>4, <1>6, <1>7, <1>8, <1>9, <1>10, <1>11, <1>12, <1>13 DEF Next

LEMMA QuotaHolds == Spec => []QuotaOK(db)
BY QuotaInit, QuotaNext, MailboxInvariant, PTL DEF Spec

-----------------------------------------------------------------------------

\* The whole invariant: the tables, the quotas, the removals that are remembered and the
\* nonces that are kept (replica.rs, replica/retention.rs).
THEOREM ReplicaInvariant == Spec => []ReplicaInv
<1>1. TablesInv /\ QuotaOK(db) /\ DropsOK /\ NoncesInv => ReplicaInv
  BY DEF TablesInv, NoncesInv, ReplicaInv
<1> QED
  BY <1>1, MailboxInvariant, QuotaHolds, DropsHold, NoncesHold, PTL

LEMMA SoundByInv == ReplicaInv => MailboxesSound
<1> SUFFICES ASSUME ReplicaInv PROVE MailboxesSound
  OBVIOUS
<1>1. TablesInv
  BY DEF ReplicaInv, TablesInv
<1>2. WithinQuota
  BY DEF ReplicaInv, QuotaOK, WithinQuota
<1>3. AcceptedOnce
  BY DEF ReplicaInv, DropsOK, AcceptedOnce
<1>4. AccessOnce
  BY DEF ReplicaInv, NoncesOK, AccessOnce
<1> QED
  BY <1>1, <1>2, <1>3, <1>4, Unorphaned, RefillsEnd DEF MailboxesSound

\* Every mailbox hangs from usable ones, no tree holds more than any quota above it, a
\* refilled body ends with its window, and an acceptance or a signed access counts once, for
\* any mailboxes, objects, accounts and limits (replica.rs, replica/retention.rs, access.rs).
THEOREM MailboxesAreSound == Spec => []MailboxesSound
BY ReplicaInvariant, SoundByInv, PTL
=============================================================================
