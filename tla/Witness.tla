------------------------------- MODULE Witness -------------------------------
(***************************************************************************)
(* The authorization witness: crates/elo-witness/src/engine.rs together    *)
(* with the version-4 authority rules it calls in                          *)
(* crates/elo-core/src/authority/ (witness.rs, witness/durable.rs,         *)
(* recovery.rs) and the budgets of journal/capacity.rs.                    *)
(*                                                                         *)
(* One action is one committed `Engine::apply` transaction.  The engine    *)
(* runs under one mutex and one SQLite transaction, so a command either    *)
(* changes everything the action changes or nothing.  Commands that fail,  *)
(* that repeat an applied request (the stored response is returned) or     *)
(* that only acknowledge an applied policy operation (`noop`) leave the    *)
(* database as it is and are not actions.  A command is fresh: its random  *)
(* nonce was not used before; repeated requests are the subject of         *)
(* WitnessJournal.                                                         *)
(*                                                                         *)
(* Devices may sign any policy, request, intent, approval or proposal at   *)
(* any time.  A signature is modelled by the field that names its signer,  *)
(* so every check of a signature is a check of that field.                 *)
(***************************************************************************)
EXTENDS Integers, Sequences, FiniteSets

CONSTANTS
    Spaces,          \* Space identifiers
    Identities,      \* identity roots
    Creds,           \* device credentials
    IdentityOf,      \* [Creds -> Identities], the root that a credential names
    KeyOf,           \* [Creds -> key], two credentials may wrap one device key
    AuthorizerOf,    \* [Creds -> Creds \cup {NoOne}], the delegating device
    Primary,         \* the identity in the verified genesis
    Founder,         \* the device that signed the genesis
    CapSets,         \* capability sets that owner proposals grant
    Rosters,         \* sets of devices that owner proposals list
    PolicyIds,       \* record ids of owner-signed invitation policies
    PolicyBody,      \* [PolicyIds -> [from, until, requireApproval, maxUses]]
    RequestIds,      \* record ids of durable (v2) join requests
    RequestBody,     \* [RequestIds -> [policy, cred, from, until]]
    NoOne,           \* the absent optional value
    ChallengeLife,   \* 120_000 ms
    Retention,       \* 600_000 ms: unconsumed challenges are kept this long
    MaxPolicies,     \* 4096 policies per Space
    MaxOpen,         \* 256 open challenges per Space
    NormalEvents,    \* 3_072 events per Space
    ReservedEvents,  \* 4_096 events per Space for security reductions
    MaxSpaces,       \* 128 registered Spaces
    JournalEvents,   \* 1_000_000 events in the journal
    MaxTime          \* model bound on the clock

Capability == {"Read", "Post", "ShareHistory", "Manage", "Replicate"}
ReaderCaps == {"Read", "Post"}
OwnerCaps == {"Read", "Post", "ShareHistory", "Manage"}

ASSUME CredAssumption ==
    /\ IdentityOf \in [Creds -> Identities]
    /\ DOMAIN KeyOf = Creds
    /\ AuthorizerOf \in [Creds -> Creds \cup {NoOne}]
    /\ NoOne \notin Creds
    /\ Founder \in Creds
    /\ Primary = IdentityOf[Founder]
    /\ CapSets \subseteq SUBSET Capability
    /\ Rosters \subseteq SUBSET Creds

ASSUME PolicyAssumption ==
    /\ NoOne \notin PolicyIds
    /\ PolicyBody \in [PolicyIds -> [from: Nat, until: Nat,
                                     requireApproval: BOOLEAN, maxUses: Nat \ {0}]]
    /\ NoOne \notin RequestIds /\ NoOne \notin Nat
    /\ \A r \in RequestIds : r \notin Nat
    /\ RequestBody \in [RequestIds -> [policy: PolicyIds, cred: Creds,
                                       from: Nat, until: Nat]]

ASSUME BoundAssumption ==
    /\ ChallengeLife \in Nat \ {0}
    /\ {Retention, MaxPolicies, MaxOpen, MaxTime} \subseteq Nat
    /\ {NormalEvents, ReservedEvents, JournalEvents, MaxSpaces} \subseteq Nat
    /\ NormalEvents =< ReservedEvents

VARIABLES
    now,       \* the wall clock the journal guard accepted
    db,        \* [Spaces -> tables]: the authority-bearing rows of a Space
    digest,    \* [Spaces -> tables]: what the Space's last receipt digested
    usage,     \* [Spaces -> Nat]: journal events of the Space
    position   \* sequence of the last journal event

vars == <<now, db, digest, usage, position>>

-----------------------------------------------------------------------------
(* Configurations.  A chain is the signed sequence of stream configurations;
   the index of a configuration stands for its record id.                   *)

NotMember == [caps |-> {}, creds |-> {}]

MemberRecord == [caps: SUBSET Capability, creds: SUBSET Creds]

Managers(c) == {i \in Identities : "Manage" \in c.members[i].caps}

OwnerCreds(c) == UNION {c.members[i].creds : i \in Managers(c)}

MemberCreds(c) == UNION {c.members[i].creds : i \in Identities}

Readers(c) == UNION {c.members[i].creds :
                       i \in {j \in Identities : "Read" \in c.members[j].caps}}

Tip(chain) == chain[Len(chain)]

ValidConfig(c) ==
    /\ \A i \in Identities :
         /\ c.members[i].creds = {} <=> c.members[i].caps = {}
         /\ \A d \in c.members[i].creds : IdentityOf[d] = i
         /\ "ShareHistory" \in c.members[i].caps => "Read" \in c.members[i].caps
    /\ \A d, e \in MemberCreds(c) : KeyOf[d] = KeyOf[e] => d = e
    /\ Primary \in Managers(c)
    /\ \A i \in Managers(c) : OwnerCaps \subseteq c.members[i].caps

\* validate_controller_transition: only the creator reshapes the owners.
ValidTransition(parent, c) ==
    \/ /\ Managers(parent) = Managers(c)
       /\ parent.members[Primary] = c.members[Primary]
    \/ /\ IdentityOf[c.controller] = Primary
       /\ c.controller \in OwnerCreds(parent)

\* apply_config accepts the configuration as the next head.
Applies(chain, c) == ValidConfig(c) /\ ValidTransition(Tip(chain), c)

\* Fault: an owner then and an owner now, whatever happened between.
OwnerSinceEndpoints(chain, cred, h) ==
    /\ h \in 1..Len(chain)
    /\ cred \in OwnerCreds(chain[h]) \cap OwnerCreds(Tip(chain))

\* witness_owner_at: an owner device now and in every configuration since h.
OwnerSince(chain, cred, h) ==
    /\ h \in 1..Len(chain)
    /\ \A k \in h..Len(chain) : cred \in OwnerCreds(chain[k])

Admissions(chain) == {k \in DOMAIN chain : chain[k].ev.kind = "admission"}

AdmissionsBy(chain, p) == {k \in Admissions(chain) : chain[k].ev.policy = p}

\* Fault: only the departure of the whole identity counts.
RemovalsOfIdentity(chain, i) ==
    {k \in 2..Len(chain) :
        chain[k - 1].members[i].creds # {} /\ chain[k].members[i].creds = {}}

\* The configurations that dropped a device of the identity.
Removals(chain, i) ==
    {k \in 2..Len(chain) :
        ~(chain[k - 1].members[i].creds \subseteq chain[k].members[i].creds)}

-----------------------------------------------------------------------------
(* Policies, challenges and approvals.                                      *)

Approvals(chain) ==
    {NoOne} \cup [issuer: Creds, head: 1..Len(chain), readmission: BOOLEAN]

VerifyInvitation(chain, p, row) ==
    /\ PolicyBody[p].from =< now
    /\ now < PolicyBody[p].until
    /\ OwnerSince(chain, row.issuer, row.head)

\* Fault: the revocation flag of the row is not read.
PolicyUsableRevoked(t, p) ==
    /\ t.policies[p].state # "none"
    /\ t.policies[p].uses < PolicyBody[p].maxUses
    /\ VerifyInvitation(t.chain, p, t.policies[p])

\* `policy`: the stored policy can still issue challenges and admit.
PolicyUsable(t, p) ==
    /\ t.policies[p].state = "active"
    /\ t.policies[p].uses < PolicyBody[p].maxUses
    /\ VerifyInvitation(t.chain, p, t.policies[p])

VerifyJoinRequest(t, r) ==
    LET req == RequestBody[r] IN
    /\ PolicyBody[req.policy].from =< req.from
    /\ req.from =< now
    /\ now < req.until
    /\ req.until =< PolicyBody[req.policy].until

Open(t) == {ch \in t.challenges : ch.expires >= now /\ ch.intent = NoOne}

Removed(t, cred) ==
    \E d \in t.tombstones : d = cred \/ IdentityOf[d] = IdentityOf[cred]

ApprovalAllows(chain, p, cred, approval) ==
    LET removals == Removals(chain, IdentityOf[cred]) IN
    IF approval = NoOne
    THEN ~PolicyBody[p].requireApproval /\ removals = {}
    ELSE /\ removals # {} => approval.readmission
         /\ \A k \in removals : k =< approval.head
         /\ OwnerSince(chain, approval.issuer, approval.head)

\* Fault: any member, an owner too, may gain a device through an invitation.
FinishAdmissionAnyMember(chain, p, cred, id, request, approval) ==
    /\ \A k \in DOMAIN chain : \A d \in MemberCreds(chain[k]) :
         d # cred /\ KeyOf[d] # KeyOf[cred]
    /\ ApprovalAllows(chain, p, cred, approval)

\* finish_witness_admission: what may be appended for this candidate.
FinishAdmission(chain, p, cred, id, request, approval) ==
    LET current == Tip(chain).members[IdentityOf[cred]] IN
    /\ current.creds # {} =>
         /\ current.caps = ReaderCaps
         /\ AuthorizerOf[cred] # NoOne => AuthorizerOf[cred] \in current.creds
    /\ \A k \in DOMAIN chain : \A d \in MemberCreds(chain[k]) :
         d # cred /\ KeyOf[d] # KeyOf[cred]
    /\ \A k \in Admissions(chain) :
         /\ chain[k].ev.at =< now
         /\ chain[k].ev.challenge # id
         /\ chain[k].ev.request # request
    /\ Cardinality(AdmissionsBy(chain, p)) < PolicyBody[p].maxUses
    /\ ApprovalAllows(chain, p, cred, approval)

\* A new identity may read and post; a known one only gains the device.
AdmissionConfig(chain, p, cred, id, request, approval) ==
    LET i == IdentityOf[cred]
        parent == Tip(chain)
        caps == IF parent.members[i].creds = {} THEN ReaderCaps
                                                ELSE parent.members[i].caps
    IN [members |-> [parent.members EXCEPT ![i] =
                       [caps |-> caps, creds |-> @.creds \cup {cred}]],
        controller |-> parent.controller,
        ev |-> [kind |-> "admission", policy |-> p, cred |-> cred,
                challenge |-> id, request |-> request,
                approval |-> approval, at |-> now]]

GenesisConfig ==
    [members |-> [i \in Identities |->
                    IF i = Primary THEN [caps |-> OwnerCaps, creds |-> {Founder}]
                                   ELSE NotMember],
     controller |-> Founder,
     ev |-> [kind |-> "genesis"]]

-----------------------------------------------------------------------------
(* The journal transaction.                                                 *)

NewRow == [state |-> "none", issuer |-> NoOne, head |-> 0, uses |-> 0]

EmptyTables == [chain |-> <<>>,
                policies |-> [p \in PolicyIds |-> NewRow],
                challenges |-> {},
                tombstones |-> {}]

Registered == {s \in Spaces : db[s].chain # <<>>}

\* load: the rows are used only while they match the last signed receipt.  (A
\* full journal refuses every command in Commit; saying so here saves work.)
Loaded(s) == /\ s \in Registered
             /\ position < JournalEvents
             /\ digest[s] = db[s]

\* Fault: consumed challenges are dropped with the expired ones.
PrunedConsumed(t) == [t EXCEPT !.challenges =
                        {ch \in @ : ch.expires >= now - Retention}]

\* Every transaction first drops this Space's long-expired open challenges.
Pruned(t) == [t EXCEPT !.challenges =
                {ch \in @ : ch.expires >= now - Retention \/ ch.intent # NoOne}]

WithChain(t, c) == [t EXCEPT !.chain = Append(@, c)]

\* append_with_budget and commit.
Commit(s, tables, reduction) ==
    /\ position < JournalEvents
    /\ usage[s] + 1 =< IF reduction THEN ReservedEvents ELSE NormalEvents
    /\ db' = [db EXCEPT ![s] = tables]
    /\ digest' = [digest EXCEPT ![s] = tables]
    /\ usage' = [usage EXCEPT ![s] = @ + 1]
    /\ position' = position + 1
    /\ UNCHANGED now

\* Fault: a registration books the events ordinary commands may use.
ReserveSpaceNormal ==
    /\ Cardinality(Registered) < MaxSpaces
    /\ (Cardinality(Registered) + 1) * NormalEvents =< JournalEvents

\* reserve_space: registration books a full lifetime budget.
ReserveSpace ==
    /\ Cardinality(Registered) < MaxSpaces
    /\ (Cardinality(Registered) + 1) * ReservedEvents =< JournalEvents

Register(s) ==
    /\ s \notin Registered
    /\ ReserveSpace
    /\ Commit(s, WithChain(Pruned(db[s]), GenesisConfig), FALSE)

RegisterInvitation(s, p, cred, h) ==
    LET t == Pruned(db[s])
        row == [state |-> "active", issuer |-> cred, head |-> h, uses |-> 0]
    IN /\ Loaded(s)
       /\ cred \in Readers(Tip(t.chain)) \cap OwnerCreds(Tip(t.chain))
       /\ VerifyInvitation(t.chain, p, row)
       /\ t.policies[p].state = "none"
       /\ Cardinality({q \in PolicyIds : t.policies[q].state # "none"}) < MaxPolicies
       /\ Commit(s, [t EXCEPT !.policies[p] = row], FALSE)

RevokeInvitation(s, p, cred) ==
    LET t == Pruned(db[s]) IN
    /\ Loaded(s)
    /\ cred \in Readers(Tip(t.chain)) \cap OwnerCreds(Tip(t.chain))
    /\ t.policies[p].state = "active"
    /\ Commit(s, [t EXCEPT !.policies[p].state = "revoked"], TRUE)

\* A challenge is identified by the journal event that issued it.
Issue(s, t, p, cred, v, request, until) ==
    /\ Cardinality(Open(t)) < MaxOpen
    /\ Commit(s, [t EXCEPT !.challenges = @ \cup
                    {[id |-> position + 1, v |-> v, policy |-> p, cred |-> cred,
                      request |-> request, issued |-> now, expires |-> until,
                      intent |-> NoOne]}], FALSE)

Challenge(s, p, cred) ==
    LET t == Pruned(db[s]) IN
    /\ Loaded(s)
    /\ PolicyUsable(t, p)
    /\ Issue(s, t, p, cred, 1, NoOne, now + ChallengeLife)

ChallengeV2(s, r) ==
    LET t == Pruned(db[s])
        req == RequestBody[r]
        limit == now + ChallengeLife
    IN /\ Loaded(s)
       /\ VerifyJoinRequest(t, r)
       /\ PolicyUsable(t, req.policy)
       /\ \A ch \in t.challenges : ch.intent # r
       /\ Issue(s, t, req.policy, req.cred, 2, r,
                IF limit < req.until THEN limit ELSE req.until)

\* The rows an admission changes besides the chain: consume and count.
Consume(t, ch, request) ==
    [t EXCEPT !.challenges = (@ \ {ch}) \cup {[ch EXCEPT !.intent = request]},
              !.policies[ch.policy].uses = @ + 1]

\* The part that Admit and AdmitV2 share.
AdmitWith(s, t, ch, request, approval) ==
    LET c == AdmissionConfig(t.chain, ch.policy, ch.cred, ch.id, request, approval) IN
    /\ Loaded(s)
    /\ ch \in t.challenges
    /\ PolicyUsable(t, ch.policy)
    /\ ch.intent = NoOne
    /\ Removed(t, ch.cred) => approval # NoOne /\ approval.readmission
    /\ ch.issued =< now
    /\ now < ch.expires
    /\ FinishAdmission(t.chain, ch.policy, ch.cred, ch.id, request, approval)
    /\ Applies(t.chain, c)
    /\ Commit(s, Consume(WithChain(t, c), ch, request), FALSE)

\* A version-1 intent is signed for one challenge and is named after it.
Admit(s, ch, approval) ==
    /\ ch.v = 1
    /\ AdmitWith(s, Pruned(db[s]), ch, ch.id, approval)

AdmitV2(s, ch, approval) ==
    LET t == Pruned(db[s]) IN
    /\ ch.v = 2
    /\ VerifyJoinRequest(t, ch.request)
    /\ \A other \in t.challenges : other.intent # ch.request
    /\ AdmitWith(s, t, ch, ch.request, approval)

\* Proposals for the next configuration, as owner devices may sign them: each
\* member lists devices of its own root with one of the capability sets.
Proposals ==
    {[members |-> [i \in Identities |->
                     LET creds == {d \in roster : IdentityOf[d] = i}
                     IN IF creds = {} THEN NotMember
                        ELSE [caps |-> caps[i], creds |-> creds]],
      controller |-> cred,
      ev |-> [kind |-> "proposal"]] :
       roster \in Rosters, caps \in [Identities -> CapSets], cred \in Creds}

Grants(c) ==
    UNION {{<<i, d, x>> : d \in c.members[i].creds, x \in c.members[i].caps} :
             i \in Identities}

\* The change strictly reduces permissions and may use the reserved budget.
SecurityReduction(parent, c) ==
    /\ Grants(c) \subseteq Grants(parent)
    /\ OwnerCreds(c) \subseteq OwnerCreds(parent)
    /\ Grants(c) # Grants(parent) \/ OwnerCreds(c) # OwnerCreds(parent)

\* The tombstones of an update: devices that no longer are members.
Dropped(parent, c) == MemberCreds(parent) \ MemberCreds(c)

OwnerUpdate(s, cred) ==
    LET t == Pruned(db[s])
        parent == Tip(t.chain)
    IN /\ Loaded(s)
       /\ cred \in Readers(parent) \cap OwnerCreds(parent)
       /\ \E c \in Proposals :
            /\ c.controller \in OwnerCreds(parent)
            /\ Applies(t.chain, c)
            /\ Commit(s, [WithChain(t, c) EXCEPT !.tombstones =
                            @ \cup Dropped(parent, c)],
                      SecurityReduction(parent, c))

Tick ==
    /\ now < MaxTime
    /\ now' = now + 1
    /\ UNCHANGED <<db, digest, usage, position>>

-----------------------------------------------------------------------------
Init ==
    /\ now = 0
    /\ db = [s \in Spaces |-> EmptyTables]
    /\ digest = [s \in Spaces |-> EmptyTables]
    /\ usage = [s \in Spaces |-> 0]
    /\ position = 0

Next ==
    \/ Tick
    \/ \E s \in Spaces :
         \/ Register(s)
         \/ \E p \in PolicyIds, cred \in Creds :
              \/ RevokeInvitation(s, p, cred)
              \/ Challenge(s, p, cred)
              \/ \E h \in 1..Len(db[s].chain) : RegisterInvitation(s, p, cred, h)
         \/ \E r \in RequestIds : ChallengeV2(s, r)
         \/ \E ch \in db[s].challenges, approval \in Approvals(db[s].chain) :
              \/ Admit(s, ch, approval)
              \/ AdmitV2(s, ch, approval)
         \/ \E cred \in Creds : OwnerUpdate(s, cred)

Spec == Init /\ [][Next]_vars

-----------------------------------------------------------------------------
(* Properties.                                                              *)

ApprovalRecord == [issuer: Creds, head: Nat, readmission: BOOLEAN]

EvidenceRecord ==
    [kind: {"genesis", "proposal"}]
    \cup [kind: {"admission"}, policy: PolicyIds, cred: Creds, challenge: Nat,
          request: Nat \cup RequestIds,
          approval: ApprovalRecord \cup {NoOne}, at: Nat]

ConfigRecord ==
    [members: [Identities -> MemberRecord], controller: Creds, ev: EvidenceRecord]

PolicyRow ==
    [state: {"none", "active", "revoked"}, issuer: Creds \cup {NoOne},
     head: Nat, uses: Nat]

ChallengeRow ==
    {row \in [id: Nat, v: {1, 2}, policy: PolicyIds, cred: Creds,
              request: RequestIds \cup {NoOne}, issued: Nat, expires: Nat,
              intent: Nat \cup RequestIds \cup {NoOne}] :
       row.v = 2 => row.request \in RequestIds}

Tables ==
    [chain: Seq(ConfigRecord), policies: [PolicyIds -> PolicyRow],
     challenges: SUBSET ChallengeRow, tombstones: SUBSET Creds]

\* Every row of the witness database has the type its columns declare.
TypeOK ==
    /\ now \in Nat
    /\ db \in [Spaces -> Tables]
    /\ digest \in [Spaces -> Tables]
    /\ usage \in [Spaces -> Nat]
    /\ position \in Nat

\* The counter in the policy row and the admissions in the signed history are
\* two records of the same fact (`policy` reads one, finish_witness_admission
\* the other): they agree, and neither exceeds what the owner granted.
UsesMatch(t, p) ==
    /\ t.policies[p].uses = Cardinality(AdmissionsBy(t.chain, p))
    /\ t.policies[p].uses =< PolicyBody[p].maxUses

UsesMatchChain == \A s \in Spaces, p \in PolicyIds : UsesMatch(db[s], p)

\* A challenge row is marked consumed exactly when the signed history holds
\* the admission that spent it, and no challenge or durable request was spent
\* twice, even after the row's retention has passed.
ConsumptionMatches(t) ==
    /\ {<<ch.id, ch.intent>> : ch \in {x \in t.challenges : x.intent # NoOne}}
         = {<<t.chain[k].ev.challenge, t.chain[k].ev.request>> :
              k \in Admissions(t.chain)}
    /\ \A j, k \in Admissions(t.chain) :
         \/ t.chain[j].ev.challenge = t.chain[k].ev.challenge
         \/ t.chain[j].ev.request = t.chain[k].ev.request
         => j = k

ConsumptionMatchesChain == \A s \in Spaces : ConsumptionMatches(db[s])

\* The tombstone table lists exactly the devices that some step of the signed
\* history removed, so the engine's check for a removed candidate and the
\* history's agree.
TombstonesMatch(t) ==
    t.tombstones = {d \in Creds : \E k \in 2..Len(t.chain) :
                      /\ d \in MemberCreds(t.chain[k - 1])
                      /\ d \notin MemberCreds(t.chain[k])}

TombstonesMatchChain == \A s \in Spaces : TombstonesMatch(db[s])

\* After any device of an identity was removed, that identity gains a device
\* through an invitation only with a readmission approval signed at or after
\* the latest removal ("any device removal remains a boundary even if the
\* identity stays or rejoins").
ReadmissionApproved(chain, k) ==
    LET i == IdentityOf[chain[k].ev.cred]
        approval == chain[k].ev.approval
    IN \A j \in 2..(k - 1) :
         (\E d \in chain[j - 1].members[i].creds : d \notin chain[j].members[i].creds)
         => /\ approval # NoOne
            /\ approval.readmission
            /\ j =< approval.head

NoSilentReadmission ==
    \A s \in Spaces : \A k \in Admissions(db[s].chain) :
      ReadmissionApproved(db[s].chain, k)

\* An admission rests on an invitation and an approval whose signers were
\* owners without a gap from signing to the admission: a demotion kills what
\* was signed before it even if the owner is reinstated.
GrantAlive(policies, chain, k) ==
    LET row == policies[chain[k].ev.policy]
        approval == chain[k].ev.approval
    IN /\ row.state # "none"
       /\ row.head \in 1..(k - 1)
       /\ \A j \in row.head..(k - 1) : row.issuer \in OwnerCreds(chain[j])
       /\ approval # NoOne =>
            /\ approval.head \in 1..(k - 1)
            /\ \A j \in approval.head..(k - 1) :
                 approval.issuer \in OwnerCreds(chain[j])

OldGrantsStayDead ==
    \A s \in Spaces : \A k \in Admissions(db[s].chain) :
      GrantAlive(db[s].policies, db[s].chain, k)

\* No device that ever was a member, and no other credential for its key,
\* enters through an invitation again.
KeyUnused(chain, k) ==
    \A j \in 1..(k - 1) : \A d \in MemberCreds(chain[j]) :
      KeyOf[d] # KeyOf[chain[k].ev.cred]

RetiredDevicesStayOut ==
    \A s \in Spaces : \A k \in Admissions(db[s].chain) : KeyUnused(db[s].chain, k)

\* An invitation never makes a device an owner and never changes the devices
\* of the creator; only a proposal signed by an owner can.
OwnersUntouched(chain, k) ==
    /\ k > 1
    /\ OwnerCreds(chain[k]) = OwnerCreds(chain[k - 1])
    /\ chain[k].members[Primary] = chain[k - 1].members[Primary]

InvitationsNeverMakeOwners ==
    \A s \in Spaces : \A k \in Admissions(db[s].chain) :
      OwnersUntouched(db[s].chain, k)

\* A Space that still has reserved events can always record a revocation or a
\* removal: other Spaces cannot have filled the journal.
RevocationHeadroom ==
    \A s \in Registered : usage[s] < ReservedEvents => position < JournalEvents

\* A revoked invitation stays revoked, admits nobody and issues no challenge,
\* also to a device that was challenged before the revocation.
RevokedIsFinal ==
    [][\A s \in Spaces, p \in PolicyIds :
         db[s].policies[p].state = "revoked" =>
           /\ db'[s].policies[p] = db[s].policies[p]
           /\ AdmissionsBy(db'[s].chain, p) = AdmissionsBy(db[s].chain, p)
           /\ {ch \in db'[s].challenges : ch.policy = p} \subseteq db[s].challenges]_vars

\* The tables beside the signed history say what it says: counters, consumption marks
\* and tombstones are those of the history.
TablesSound ==
    /\ TypeOK
    /\ UsesMatchChain
    /\ ConsumptionMatchesChain
    /\ TombstonesMatchChain

\* What was removed comes back only as the owners decide after the removal: a device,
\* in whatever credential, never through an invitation, and its identity with another
\* device only by a readmission from after it.
RemovedStayOut == NoSilentReadmission /\ RetiredDevicesStayOut
=============================================================================
