---------------------------- MODULE SpaceService ----------------------------
(***************************************************************************)
(* The public service of a Space whose General is managed by its owners'   *)
(* devices (version 2, without a witness): crates/elo-core/src/            *)
(* public_space.rs and public_space/roles.rs.  The host journals the       *)
(* owners' signed intents and closes its gate at once; only an owner's     *)
(* device can sign the next configuration.  It fetches the journal,        *)
(* replays it by itself (owner_admission.rs), builds the configuration     *)
(* (app/invitations/owner_general.rs) and publishes it.                    *)
(*                                                                         *)
(* The service handles one request at a time and saves its whole state     *)
(* before it answers.  Requests are delayed and repeated; an owner's       *)
(* update takes two requests, between which others are served.  Device     *)
(* tombstones are kept for the whole host, so another Space of the host    *)
(* may record one.  A record is named by its place in the journal, a       *)
(* configuration by its sequence number.                                   *)
(***************************************************************************)
EXTENDS Integers, Sequences, FiniteSets, SequencesExt

CONSTANTS
    Persons, Primary,   \* identities, and the one that created the Space
    SpaceDevices,
    HolderOf,           \* the identity of a device
    LinkedBy,           \* the device that signed a linked one's credential, or NoDevice
    FirstDevice,        \* the device of the primary that created the Space
    Invitations, FirstInvitation,
    Elsewhere,          \* revocations other Spaces of the host record: <<target, signer>>
    NoDevice, NoInvitation,
    RowLimit,           \* MAX_CHAT_CREDENTIALS
    JournalLimit,       \* 4096 intents
    MaxHeads            \* model bound on configurations

ASSUME SpaceAssumption ==
    /\ HolderOf \in [SpaceDevices -> Persons]
    /\ LinkedBy \in [SpaceDevices -> SpaceDevices \cup {NoDevice}]
    /\ \A d \in SpaceDevices : LinkedBy[d] # NoDevice => HolderOf[LinkedBy[d]] = HolderOf[d]
    /\ FirstDevice \in SpaceDevices /\ HolderOf[FirstDevice] = Primary
    /\ FirstInvitation \in Invitations /\ NoInvitation \notin Invitations
    /\ NoDevice \notin SpaceDevices /\ IsFiniteSet(SpaceDevices)
    /\ Elsewhere \subseteq SpaceDevices \X (SpaceDevices \cup {NoDevice})
    /\ JournalLimit \in Nat /\ MaxHeads \in Nat \ {0}

VARIABLES
    heads,       \* the configurations: devices, owners and the journal each one commits
    journal,     \* signed intents, in the order the service accepted them
    offers,      \* invitations by id
    applicants,  \* enrolment requests by device
    roles,       \* owners and revision
    removals,    \* identities removed at some time, with the configuration of the removal
    erased,      \* deleted accounts
    revoked,     \* devices whose revocation the service has seen
    tombs,       \* the host's registry: revoked devices and who signed it
    replies,     \* decisions whose reply is still cached
    drafts       \* updates owners' devices have built and not yet published

spaceVars == <<heads, journal, offers, applicants, roles, removals, erased, revoked,
               tombs, replies, drafts>>

With(f, k, v) == [z \in DOMAIN f \cup {k} |-> IF z = k THEN v ELSE f[z]]

Only(f, S) == [z \in DOMAIN f \cap S |-> f[z]]

Nobody == [z \in {} |-> z]

Top == Len(heads)

HeadDevices == heads[Top].devices

OwnersAt(h) == {d \in heads[h].devices : HolderOf[d] \in heads[h].owners}

Held(D) == {HolderOf[d] : d \in D}

-----------------------------------------------------------------------------
(* The service's view of its members.                                       *)

\* Fault: a request that waits for an approval lifts the removal.
RemovalBlocksUntilAsked(i) ==
    /\ i \in DOMAIN removals
    /\ \A d \in DOMAIN applicants : HolderOf[d] = i => applicants[d].status = "removed"

\* `removal_blocks`.
RemovalBlocks(i) ==
    /\ i \in DOMAIN removals
    /\ \A d \in DOMAIN applicants :
          HolderOf[d] = i => applicants[d].status # "approved"

\* `space_access_devices` and `device_admitted`.
AccessDevices ==
    {d \in HeadDevices \ revoked : HolderOf[d] \notin erased /\ ~RemovalBlocks(HolderOf[d])}

\* `space_role_members`: identities with a request and a place in General.
RoleMembers ==
    {i \in Held(DOMAIN applicants) \cap Held(HeadDevices) : i \notin erased /\ ~RemovalBlocks(i)}

\* `device_was_declined`: the last decision on this device is a refusal.
DeviceWasDeclined(d) ==
    LET on == {i \in DOMAIN journal : journal[i].act = "decide" /\ journal[i].obj = d}
    IN \E i \in on : ~journal[i].yes /\ \A k \in on : k =< i

LiveOffer(f, v) == v \in DOMAIN f /\ ~f[v].revoked /\ ~f[v].expired

\* `prune_applicants`, which every request runs.
PruneApplicants(rows, f) ==
    LET kept == Only(rows, {d \in DOMAIN rows :
                   rows[d].status \in {"pending", "eligible"} /\ rows[d].offer # NoInvitation
                      => LiveOffer(f, rows[d].offer)})
    IN IF Cardinality(DOMAIN kept) < RowLimit THEN kept
       ELSE Only(kept, {d \in DOMAIN kept : kept[d].status \notin {"declined", "removed"}})

\* `require_applicant_capacity` for a device that is let in.  The budgets of open
\* requests only refuse and are left out.
HasRoom(rows) == Cardinality({d \in DOMAIN rows : rows[d].status = "approved"}) < RowLimit

\* `apply_device_revocations`, at the start of every request: nothing of the host's
\* registry is left to journal.
Absorbed == HeadDevices \cap DOMAIN tombs \subseteq revoked

\* What a device must be for any request: not revoked on this host, its account not
\* deleted and, unless it is in General, linked by a device that is.
Serves(d) ==
    /\ Absorbed
    /\ d \notin DOMAIN tombs
    /\ HolderOf[d] \notin erased
    /\ LinkedBy[d] # NoDevice /\ d \notin HeadDevices
          => LinkedBy[d] \in HeadDevices \ DOMAIN tombs

\* Fault: an intent signed under an earlier configuration is taken too.
SignedUnderAny(h) == h =< Top

\* The intent was signed under the configuration that still stands.
SignedUnder(h) == h = Top

\* What the service checks before any command that administers the Space.
Administers(d, h) == Serves(d) /\ SignedUnder(h) /\ d \in AccessDevices

IsOwner(d) == d \in OwnersAt(Top) /\ HolderOf[d] \in roles.owners

Intent(act, d, h, obj, yes, rev) ==
    [act |-> act, by |-> d, at |-> h, obj |-> obj, yes |-> yes, rev |-> rev]

RevocationIntent(d, signer) == Intent("revoked", d, 0, signer, TRUE, 0)

Journals(e) == Len(journal) < JournalLimit /\ journal' = Append(journal, e)

Row(status, v, proof) == [status |-> status, offer |-> v, proof |-> proof]

-----------------------------------------------------------------------------
(* Requests of people who want in.                                          *)

\* `join`, with an invitation.
Join(d, v) ==
    /\ Serves(d)
    /\ LiveOffer(offers, v)
    /\ LET rows == PruneApplicants(applicants, offers)
       IN /\ d \in DOMAIN rows => rows[d].status \in {"removed", "declined"}
          /\ d \in AccessDevices => HasRoom(rows)
          /\ applicants' = With(rows, d,
                Row(IF d \in AccessDevices THEN "approved"
                    ELSE IF \/ HolderOf[d] \in DOMAIN removals
                            \/ DeviceWasDeclined(d)
                            \/ offers[v].asks /\ ~IsOwner(d)
                    THEN "pending" ELSE "eligible", v, 0))
    /\ UNCHANGED <<heads, journal, offers, roles, removals, erased, revoked, tombs, replies,
                   drafts>>

\* `status`: a device of General, or one of an approved identity, gets its own request.
Status(d) ==
    /\ Serves(d)
    /\ LET rows == PruneApplicants(applicants, offers)
           approved == \E c \in DOMAIN rows :
                          HolderOf[c] = HolderOf[d] /\ rows[c].status = "approved"
       IN /\ d \notin DOMAIN rows
          /\ HolderOf[d] \in DOMAIN removals => approved
          /\ approved \/ d \in HeadDevices
          /\ d \in AccessDevices => HasRoom(rows)
          /\ applicants' = With(rows, d,
                Row(IF d \in AccessDevices THEN "approved"
                    ELSE IF DeviceWasDeclined(d) \/ LinkedBy[d] = NoDevice THEN "pending"
                    ELSE "eligible", NoInvitation, 0))
    /\ UNCHANGED <<heads, journal, offers, roles, removals, erased, revoked, tombs, replies,
                   drafts>>

\* An invitation runs out; its requests go with the next request served.
OfferExpires(v) ==
    /\ LiveOffer(offers, v)
    /\ offers' = [offers EXCEPT ![v].expired = TRUE]
    /\ applicants' = PruneApplicants(applicants, offers')
    /\ UNCHANGED <<heads, journal, roles, removals, erased, revoked, tombs, replies, drafts>>

\* A request nobody decided or committed for seven days is dropped.
RequestExpires(d) ==
    /\ d \in DOMAIN applicants
    /\ applicants[d].status \in {"pending", "eligible"}
    /\ applicants' = PruneApplicants(Only(applicants, SpaceDevices \ {d}), offers)
    /\ UNCHANGED <<heads, journal, offers, roles, removals, erased, revoked, tombs, replies,
                   drafts>>

-----------------------------------------------------------------------------
(* Intents of owners and of devices.                                        *)

\* `invite`.
Invite(d, h, v, asks) ==
    /\ IsOwner(d)
    /\ v \notin DOMAIN offers
    /\ Journals(Intent("invite", d, h, v, asks, 0))
    /\ offers' = With(offers, v, [asks |-> asks, revoked |-> FALSE, expired |-> FALSE,
                                  proof |-> Len(journal')])
    /\ applicants' = PruneApplicants(applicants, offers')
    /\ UNCHANGED <<heads, roles, removals, erased, revoked, tombs, replies, drafts>>

\* `revoke`: the requests made with the invitation are dropped.
RevokeInvitation(d, h, v) ==
    /\ IsOwner(d)
    /\ v \in DOMAIN offers
    /\ Journals(Intent("revoke", d, h, v, TRUE, 0))
    /\ offers' = [offers EXCEPT ![v].revoked = TRUE]
    /\ applicants' = PruneApplicants(applicants, offers')
    /\ UNCHANGED <<heads, roles, removals, erased, revoked, tombs, replies, drafts>>

\* The identity was removed, or the device refused, under the configuration that stands.
DeniedUnder(x, h) ==
    \/ HolderOf[x] \in DOMAIN removals /\ removals[HolderOf[x]] = h
    \/ \E i \in DOMAIN journal :
          /\ journal[i].act = "decide" /\ journal[i].obj = x
          /\ ~journal[i].yes /\ journal[i].at = h

\* `decide`.  The record is new, or one of the journal that is sent again when its
\* reply is no longer cached.
Decide(d, h, x, yes, i) ==
    LET e == Intent("decide", d, h, x, yes, 0)
        rows == PruneApplicants(applicants, offers)
    IN /\ IsOwner(d)
       /\ x \in DOMAIN applicants /\ applicants[x].status = "pending"
       /\ \/ i = Len(journal) + 1 /\ Journals(e)
          \/ i \in DOMAIN journal \ replies /\ journal[i] = e /\ UNCHANGED journal
       /\ x \in DOMAIN rows
       /\ yes => ~DeniedUnder(x, Top) /\ HasRoom(rows)
       /\ applicants' = [rows EXCEPT ![x].status = IF yes THEN "eligible" ELSE "declined",
                                     ![x].proof = i]
       /\ replies' = replies \cup {i}
       /\ UNCHANGED <<heads, offers, roles, removals, erased, revoked, tombs, drafts>>

\* Fault: every owner changes the owners.
ChangeAllowedByOwners(kind, actor, t, owners) ==
    /\ actor \in owners
    /\ kind # "make_owner" => t # Primary
    /\ kind = "make_owner" => t \notin owners
    /\ kind = "remove_owner" => t \in owners

\* `apply_with_id` and `require_change_authority`: who may make which change.
ChangeAllowed(kind, actor, t, owners) ==
    /\ actor \in owners
    /\ kind # "make_owner" => t # Primary
    /\ kind \in {"make_owner", "remove_owner"} \/ t \in owners => actor = Primary
    /\ kind = "make_owner" => t \notin owners
    /\ kind = "remove_owner" => t \in owners

\* The owners after a change (`apply_with_id`, then `retire_member`).
Changed(kind, t, owners) == IF kind = "make_owner" THEN owners \cup {t} ELSE owners \ {t}

\* `role_change`.  A removed member is refused by the gate from now on.
RoleChange(d, h, kind, t, rev) ==
    /\ rev = roles.revision
    /\ {HolderOf[d], t} \subseteq RoleMembers
    /\ ChangeAllowed(kind, HolderOf[d], t, roles.owners)
    /\ Journals(Intent(kind, d, h, t, TRUE, rev))
    /\ roles' = [owners |-> Changed(kind, t, roles.owners), revision |-> rev + 1]
    /\ LET rows == PruneApplicants(applicants, offers)
       IN IF kind = "remove_member"
          THEN /\ removals' = With(removals, t, Top)
               /\ applicants' = [c \in DOMAIN rows |->
                     IF HolderOf[c] = t THEN [rows[c] EXCEPT !.status = "removed"] ELSE rows[c]]
          ELSE applicants' = rows /\ UNCHANGED removals
    /\ replies' = {}
    /\ UNCHANGED <<heads, offers, erased, revoked, tombs, drafts>>

\* `apply_device_revocations` with something to journal, by any request.
AbsorbRevocations ==
    LET new == (HeadDevices \cap DOMAIN tombs) \ revoked
    IN /\ new # {}
       /\ Len(journal) + Cardinality(new) =< JournalLimit
       /\ \E q \in SetToSeqs(new) :
             journal' = journal \o [i \in DOMAIN q |-> RevocationIntent(q[i], tombs[q[i]])]
       /\ revoked' = revoked \cup new
       /\ UNCHANGED <<heads, offers, applicants, roles, removals, erased, tombs, replies, drafts>>

\* `space_revoke_device`: a device of General retires another one of its identity.
RevokeDevice(d, x, signer) ==
    /\ x # d /\ HolderOf[x] = HolderOf[d] /\ x \in HeadDevices \ DOMAIN tombs
    /\ signer \in {d, NoDevice}
    /\ tombs' = With(tombs, x, signer)
    /\ Journals(RevocationIntent(x, signer))
    /\ revoked' = revoked \cup {x}
    /\ UNCHANGED <<heads, offers, applicants, roles, removals, erased, replies, drafts>>

\* Another Space of the host records a revocation in the registry they share.
RevokedElsewhere(x, signer) ==
    /\ <<x, signer>> \in Elsewhere
    /\ x \notin DOMAIN tombs /\ signer \notin DOMAIN tombs
    /\ tombs' = With(tombs, x, signer)
    /\ UNCHANGED <<heads, journal, offers, applicants, roles, removals, erased, revoked, replies,
                   drafts>>

\* `erase_service_account`, by the host's worker.  Only a device of General leaves an
\* intent in the journal.
EraseAccount(d) ==
    LET p == HolderOf[d]
    IN /\ p # Primary /\ p \notin roles.owners \cup heads[Top].owners \cup erased
       /\ \/ d \in AccessDevices /\ Journals(Intent("deletion", d, 0, p, TRUE, 0))
          \/ (p \notin Held(HeadDevices) \/ RemovalBlocks(p)) /\ UNCHANGED journal
       /\ erased' = erased \cup {p}
       /\ removals' = IF p \in DOMAIN removals THEN removals ELSE With(removals, p, 0)
       /\ applicants' = Only(applicants, {c \in SpaceDevices : HolderOf[c] # p})
       /\ replies' = {}
       /\ UNCHANGED <<heads, offers, roles, revoked, tombs, drafts>>

-----------------------------------------------------------------------------
(* The owner's device: `verify_owner_policy` replays the journal.           *)

EnrolledAt(h, d) == d \in heads[h].devices

EnrolledEver(d) == \E h \in 1 .. Top : EnrolledAt(h, d)

\* `removed_since`: the device left General after configuration h.
RemovedSince(h, d) ==
    \E k \in h .. Top : EnrolledAt(k, d) /\ \E l \in k + 1 .. Top : ~EnrolledAt(l, d)

Committed == heads[Top].commit

\* Fault: who has left since no longer counts for committed intents either.
EnrolledNow(i, d) == EnrolledAt(Top, d)

\* A device that counts as enrolled for the i-th intent.
EnrolledFor(i, d) == IF i =< Len(Committed) THEN EnrolledEver(d) ELSE EnrolledAt(Top, d)

RoleKinds == {"make_owner", "remove_owner", "remove_member"}

ReplayStart ==
    [ok |-> TRUE, owners |-> {Primary}, revision |-> 0, invited |-> {FirstInvitation},
     withdrawn |-> {}, decisions |-> Nobody, denied |-> {}, removed |-> Nobody, revoked |-> {}]

\* A command counts when its configuration is known, is the current one unless it is
\* committed, and lists the signer, whom no earlier intent revokes.
CommandStands(s, e, i) ==
    /\ e.at \in 1 .. Top
    /\ i > Len(Committed) => e.at = Top
    /\ EnrolledAt(e.at, e.by)
    /\ e.by \notin s.revoked

Stands(s, e, i) ==
    IF e.act = "revoked" THEN
        /\ EnrolledFor(i, e.by)
        /\ e.obj # NoDevice => EnrolledFor(i, e.obj) /\ e.obj \notin s.revoked
    ELSE IF e.act = "deletion" THEN
        EnrolledFor(i, e.by) /\ e.by \notin s.revoked /\ e.obj \notin s.owners
    ELSE
        /\ CommandStands(s, e, i)
        /\ e.by \in OwnersAt(e.at) /\ HolderOf[e.by] \in s.owners
        /\ e.act = "invite" => e.obj \notin s.invited
        /\ e.act = "revoke" => e.obj \in s.invited
        /\ e.act \in RoleKinds =>
              /\ e.rev = s.revision
              /\ {HolderOf[e.by], e.obj} \subseteq Held(heads[e.at].devices)
              /\ ChangeAllowed(e.act, HolderOf[e.by], e.obj, s.owners)

Applied(s, e, i) ==
    CASE e.act = "revoked" -> [s EXCEPT !.revoked = @ \cup {e.by}]
      [] e.act = "deletion" -> [s EXCEPT !.removed = With(@, e.obj, [index |-> i, at |-> 0])]
      [] e.act = "invite" ->
            [s EXCEPT !.invited = @ \cup {e.obj}]
      [] e.act = "revoke" -> [s EXCEPT !.withdrawn = @ \cup {e.obj}]
      [] e.act = "decide" ->
            [s EXCEPT !.decisions = With(@, e.obj, [index |-> i, yes |-> e.yes, at |-> e.at]),
                      !.denied = IF e.yes THEN @ ELSE @ \cup {<<e.obj, e.at>>}]
      [] OTHER ->
            [s EXCEPT !.owners = Changed(e.act, e.obj, @), !.revision = @ + 1,
                      !.removed = IF e.act = "remove_member"
                                  THEN With(@, e.obj, [index |-> i, at |-> e.at]) ELSE @]

\* The state of the replay after each intent.  One that does not stand fails it.
Replayed ==
    LET after[i \in 0 .. Len(journal)] ==
            IF i = 0 THEN ReplayStart
            ELSE LET s == after[i - 1]  e == journal[i]
                 IN IF s.ok /\ Stands(s, e, i) THEN Applied(s, e, i)
                    ELSE [s EXCEPT !.ok = FALSE]
    IN after

\* `check_committed_owners`: the committed part must give the owners General has.
Replay ==
    LET after == Replayed
    IN [after[Len(journal)] EXCEPT
           !.ok = @ /\ after[Len(Committed)].owners = heads[Top].owners]

\* An approval lifts an older removal that was decided under another configuration.
Lifts(s, x) ==
    LET c == s.decisions[x]  p == HolderOf[x]
    IN p \in DOMAIN s.removed => /\ c.index > s.removed[p].index
                                 /\ s.removed[p].at # 0 /\ s.removed[p].at # c.at

Approved(s, x) ==
    /\ x \in DOMAIN s.decisions /\ s.decisions[x].yes
    /\ <<x, s.decisions[x].at>> \notin s.denied
    /\ x \notin s.revoked
    /\ ~RemovedSince(s.decisions[x].at, x)

\* Removals that no admission of an approved device has lifted.
StillRemoved(s) ==
    {p \in DOMAIN s.removed :
       ~\E x \in HeadDevices : HolderOf[x] = p /\ Approved(s, x) /\ Lifts(s, x)}

\* The requests `authority_status` lists.
Listed ==
    {d \in DOMAIN applicants : /\ applicants[d].status = "eligible"
                               /\ d \notin revoked /\ HolderOf[d] \notin erased}

ApprovedByName(s, x, out) ==
    /\ Approved(s, x) /\ applicants[x].proof = s.decisions[x].index
    /\ HolderOf[x] \in out => Lifts(s, x)

OpenInvitation(s, v) ==
    /\ v \in s.invited \ s.withdrawn
    /\ LiveOffer(offers, v) /\ ~offers[v].asks

ParentInGeneral(s, x) == LinkedBy[x] \in HeadDevices \ s.revoked

\* The devices the owner's device lets in.
Eligible(s, out) ==
    {x \in Listed \ s.revoked :
       \/ x \in HeadDevices
       \/ ApprovedByName(s, x, out)
       \/ /\ x \in DOMAIN s.decisions =>
                s.decisions[x].yes /\ <<x, s.decisions[x].at>> \notin s.denied
          /\ HolderOf[x] \notin out
          /\ ~EnrolledEver(x)
          /\ ParentInGeneral(s, x) \/ OpenInvitation(s, applicants[x].offer)}

\* `update_owner_general`: the configuration an owner's device builds, with a device it
\* has just linked.
Proposal(s, linked) ==
    LET out == StillRemoved(s)
        gone == out \ {HolderOf[x] : x \in {y \in Eligible(s, out) : ApprovedByName(s, y, out)}}
        new == {x \in Eligible(s, out) : HolderOf[x] \notin gone}
        kept == {x \in HeadDevices \ s.revoked : HolderOf[x] \notin gone}
        devices == kept \cup new \cup linked
    IN [base |-> Top, devices |-> devices, owners |-> s.owners \cap Held(devices),
        commit |-> journal, new |-> new]

\* Every device it adds has its parent in General, or the update fails as a whole.
ParentsActive(s, c) ==
    \A x \in c.new \ HeadDevices :
        LinkedBy[x] # NoDevice => LinkedBy[x] \in HeadDevices \ s.revoked

\* `validate_config` and `validate_controller_transition`: the primary stays an owner,
\* and only its devices change the owners or the primary's own devices.
SignedBy(d, c) ==
    /\ d \in OwnersAt(Top)
    /\ Primary \in c.owners
    /\ c.owners # heads[Top].owners
          \/ {x \in c.devices : HolderOf[x] = Primary}
                 # {x \in HeadDevices : HolderOf[x] = Primary}
          => HolderOf[d] = Primary

Changes(c) ==
    <<c.devices, c.owners, c.commit>> # <<HeadDevices, heads[Top].owners, heads[Top].commit>>

\* `authority_status`: who may ask for the journal and publish.
MayUpdate(d) == Serves(d) /\ d \in OwnersAt(Top) \ revoked

\* The first half of an update: the device fetches, replays and signs.
FetchAuthority(d, linked) ==
    /\ MayUpdate(d)
    /\ \A x \in linked : LinkedBy[x] = d
    /\ LET s == Replay
           c == Proposal(s, linked)
       IN /\ s.ok
          /\ \A x \in linked : x \notin s.revoked /\ HolderOf[d] \in s.owners
          /\ ParentsActive(s, c)
          /\ Changes(c) /\ SignedBy(d, c)
          /\ drafts' = With(drafts, d, [base |-> c.base, devices |-> c.devices,
                                        owners |-> c.owners, commit |-> c.commit])
    /\ UNCHANGED <<heads, journal, offers, applicants, roles, removals, erased, revoked, tombs,
                   replies>>

\* The proposal extends the configuration that stands and commits the whole journal.
Extends(c) == c.base = Top /\ c.commit = journal

\* Every device of General stays, unless an intent takes it out.
KeepsMembers(c) ==
    \A x \in HeadDevices :
        HolderOf[x] \in erased \/ RemovalBlocks(HolderOf[x]) \/ x \in revoked \/ x \in c.devices

\* No device is there that may not be.
AdmitsOnly(c) ==
    \A x \in c.devices :
        /\ HolderOf[x] \notin erased
        /\ HolderOf[x] \in DOMAIN removals =>
              \E y \in DOMAIN applicants : /\ HolderOf[y] = HolderOf[x]
                                           /\ applicants[y].status \in {"eligible", "approved"}
        /\ x \notin revoked \cup DOMAIN tombs
        /\ x \notin HeadDevices =>
              IF LinkedBy[x] # NoDevice
              THEN LinkedBy[x] \in HeadDevices \ (revoked \cup DOMAIN tombs)
              ELSE x \in DOMAIN applicants /\ applicants[x].status = "eligible"

\* `publish_authority`.
Accepts(c) ==
    /\ Extends(c)
    /\ c.owners = roles.owners
    /\ KeepsMembers(c)
    /\ AdmitsOnly(c)

\* The second half: the service takes the configuration.
PublishAuthority(d) ==
    /\ d \in DOMAIN drafts
    /\ Top < MaxHeads
    /\ MayUpdate(d)
    /\ LET c == drafts[d]
           rows == PruneApplicants(applicants, offers)
       IN /\ Accepts(c)
          /\ heads' = Append(heads, [devices |-> c.devices, owners |-> c.owners,
                                     commit |-> c.commit])
          /\ applicants' = [x \in DOMAIN rows |->
                 IF x \in c.devices /\ rows[x].status = "eligible"
                 THEN [rows[x] EXCEPT !.status = "approved"] ELSE rows[x]]
    /\ drafts' = Only(drafts, SpaceDevices \ {d})
    /\ replies' = {}
    /\ UNCHANGED <<journal, offers, roles, removals, erased, revoked, tombs>>

-----------------------------------------------------------------------------

\* The Space as its creator's device and the host have set it up.
SpaceInit ==
    /\ heads = <<[devices |-> {FirstDevice}, owners |-> {Primary}, commit |-> <<>>]>>
    /\ journal = <<>>
    /\ \E asks \in BOOLEAN :
          offers = With(Nobody, FirstInvitation,
                        [asks |-> asks, revoked |-> FALSE, expired |-> FALSE, proof |-> 0])
    /\ applicants = Nobody
    /\ roles = [owners |-> {Primary}, revision |-> 0]
    /\ removals = Nobody
    /\ erased = {} /\ revoked = {} /\ tombs = Nobody
    /\ replies = {} /\ drafts = Nobody

Applying ==
    \/ \E d \in SpaceDevices, v \in Invitations : Join(d, v)
    \/ \E d \in SpaceDevices : Status(d)
    \/ \E v \in Invitations : OfferExpires(v)
    \/ \E d \in SpaceDevices : RequestExpires(d)

Administering ==
    \E d \in SpaceDevices, h \in 1 .. Top :
        /\ Administers(d, h)
        /\ \/ \E v \in Invitations, asks \in BOOLEAN : Invite(d, h, v, asks)
           \/ \E v \in Invitations : RevokeInvitation(d, h, v)
           \/ \E x \in SpaceDevices, yes \in BOOLEAN, i \in 1 .. Len(journal) + 1 :
                 Decide(d, h, x, yes, i)
           \/ \E kind \in RoleKinds, t \in Persons, rev \in 0 .. roles.revision :
                 RoleChange(d, h, kind, t, rev)
           \/ \E x \in SpaceDevices, signer \in SpaceDevices \cup {NoDevice} :
                 RevokeDevice(d, x, signer)

Retiring ==
    \/ AbsorbRevocations
    \/ \E t \in Elsewhere : RevokedElsewhere(t[1], t[2])
    \/ \E d \in SpaceDevices : EraseAccount(d)

Updating ==
    \/ \E d \in SpaceDevices, linked \in {{}} \cup {{x} : x \in SpaceDevices} :
          FetchAuthority(d, linked)
    \/ \E d \in SpaceDevices : PublishAuthority(d)

SpaceNext == Applying \/ Administering \/ Retiring \/ Updating

SpaceSpec == SpaceInit /\ [][SpaceNext]_spaceVars

-----------------------------------------------------------------------------

SpaceTypeOK ==
    /\ \A h \in DOMAIN heads : heads[h].devices \subseteq SpaceDevices /\ heads[h].owners \subseteq Persons
    /\ DOMAIN offers \subseteq Invitations /\ DOMAIN applicants \subseteq SpaceDevices
    /\ roles.owners \subseteq Persons /\ roles.revision \in Nat
    /\ Len(journal) =< JournalLimit

\* The intents accepted while configuration k - 1 stood.
Between(k) == Len(heads[k - 1].commit) + 1 .. Len(heads[k].commit)

\* What takes a device out of General.
TakesOut(e, x) ==
    \/ e.act = "revoked" /\ e.by = x
    \/ e.act \in {"deletion", "remove_member"} /\ e.obj = HolderOf[x]

\* An owner's approval of a device of this identity, newer than its last removal.
ReadmittedBy(j, p) ==
    \A i \in DOMAIN j : j[i].act = "remove_member" /\ j[i].obj = p =>
        \E k \in i + 1 .. Len(j) : /\ j[k].act = "decide" /\ j[k].yes /\ j[k].at # j[i].at
                                   /\ HolderOf[j[k].obj] = p

\* A device is let in by an approval, by its parent in General or with an invitation
\* that asks nobody and is not revoked.
LetIn(k, x) ==
    LET j == heads[k].commit
        approved == {i \in DOMAIN j : j[i].act = "decide" /\ j[i].obj = x /\ j[i].yes}
        refused == {i \in DOMAIN j : j[i].act = "decide" /\ j[i].obj = x /\ ~j[i].yes}
    IN \/ LinkedBy[x] \in OwnersAt(k - 1)
       \/ /\ \A i \in refused : \E l \in approved : l > i /\ j[l].at # j[i].at
          /\ \/ \E i \in approved : \A h \in j[i].at .. k - 1 : ~EnrolledAt(h, x)
             \/ /\ \A h \in 1 .. k - 1 : ~EnrolledAt(h, x)
                /\ \/ LinkedBy[x] \in heads[k - 1].devices
                   \/ \E v \in DOMAIN offers :
                         /\ ~offers[v].asks /\ offers[v].proof =< Len(j)
                         /\ \A i \in DOMAIN j : ~(j[i].act = "revoke" /\ j[i].obj = v)

\* Every change of General rests on the intents it commits: a device leaves at once
\* when an intent takes it out and never otherwise, a device comes by right, and the
\* owners change by intents of the primary's devices.
HeadsJustified ==
    \A k \in 2 .. Top :
        LET j == heads[k].commit
            before == heads[k - 1]
            now == heads[k]
        IN /\ \A x \in before.devices :
                 x \notin now.devices <=> \E i \in Between(k) : TakesOut(j[i], x)
           /\ \A x \in now.devices \ before.devices :
                 /\ \A i \in DOMAIN j : ~(j[i].act = "revoked" /\ j[i].by = x)
                 /\ \A i \in DOMAIN j : ~(j[i].act = "deletion" /\ j[i].obj = HolderOf[x])
                 /\ ReadmittedBy(j, HolderOf[x])
                 /\ LetIn(k, x)
           /\ Primary \in now.owners
           /\ \A p \in (now.owners \ before.owners) \cup (before.owners \ now.owners) :
                 \E i \in Between(k) : j[i].act \in RoleKinds /\ j[i].obj = p
                                       /\ HolderOf[j[i].by] = Primary

\* An intent is committed by the configuration that follows the one it was signed
\* under, whatever happened between.
IntentsLand ==
    /\ \A k \in 1 .. Top : heads[k].commit = SubSeq(journal, 1, Len(heads[k].commit))
    /\ \A i \in DOMAIN journal :
          journal[i].at > 0 =>
              /\ i > Len(heads[journal[i].at].commit)
              /\ journal[i].at < Top => i =< Len(heads[journal[i].at + 1].commit)

\* The gate is closed to whom the journal has taken out, before General follows.
GateClosed ==
    \A d \in AccessDevices :
        /\ \A i \in DOMAIN journal :
              ~(journal[i].act = "revoked" /\ journal[i].by = d)
              /\ ~(journal[i].act = "deletion" /\ journal[i].obj = HolderOf[d])
        /\ ReadmittedBy(Committed, HolderOf[d])
        /\ \A i \in Len(Committed) + 1 .. Len(journal) : ~TakesOut(journal[i], d)

\* What is committed replays for ever, whoever has left since.
CommittedReplays ==
    LET s == Replayed[Len(Committed)] IN s.ok /\ s.owners = heads[Top].owners

\* The state has its types, and the gate refuses whom the journal has taken out: the two
\* halves of a removal, the service's and the owner's, never disagree in favour of the
\* removed (`removal_blocks`, `space_access_devices`).
SpaceSound == SpaceTypeOK /\ GateClosed

\* Every journal the service has accepted can be replayed: an owner's live device can
\* check what was signed and commit it (PROTOCOL.md 164).
JournalReplays == (\E d \in OwnersAt(Top) : MayUpdate(d)) => Replay.ok
=============================================================================
