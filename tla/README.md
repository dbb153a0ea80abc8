# TLA+ verification of elo

Elo is a private messenger for teams: a Rust core (`crates/elo-core`) that every
client embeds, and a set of small services beside it. Nobody trusts a server with
plaintext; what servers are trusted with is *order*: who belongs to a Space now,
which configuration is the newest, which call is open, which command has already
been applied, what was delivered, read or deleted. This directory specifies that part
of the system in TLA+, checks it with TLC on small instances, and proves the main
results with TLAPS.

All paths below are relative to the repository. Every definition that models code
is listed with its lines in `PROJECT.json` ("map").

## 1. The system

| Component | State it keeps | Operations | What is hard |
| --- | --- | --- | --- |
| Witness engine (`elo-witness/engine.rs`, `elo-core/authority/witness*.rs`, `authority/recovery.rs`, `journal/capacity.rs`) | per Space: the signed configuration chain, invitation policies and their use counters, challenges, consumption markers, tombstones of removed devices; shared: event budgets | Register, RegisterInvitation, RevokeInvitation, Challenge (v1, v2), Admit (v1, v2), OwnerUpdate | several copies of one fact in different tables; approvals given at one head and used at another; owners demoted and promoted again; budgets shared by Spaces |
| Witness journal and head service (`elo-witness/journal.rs`, `server.rs`) | hash-chained signed events, the process state (closed, unactivated, active, sealed), the clock anchor, the head cache | open, activate, guard, append, replay, no-op, head request | crash, restore of an old snapshot, stale activation documents, clock steps, lost answers and retries, stale cache |
| Call engine (`elo-call-service/engine.rs`) | per conversation: a fence (newest admitted configuration, recovery, blocked) on disk and in a bounded memory; a receipt per applied command | preparation, verify, execute, authorized_head, maintain, open | a command is prepared under the lock, verified and admitted by the hosting service without it, and executed under it again; eviction; replay; restart; forks |
| Call registry (`elo-call-service/registry.rs`, event branch of `server.rs`) | per conversation: the open call, its participants with their device, key and lease, its invitations, its key epoch | Start, Join, Decline, Cancel, End, Invite, Leave, Heartbeat, ConnectMedia, Media, Signal, Subscribe, tick, configuration_changed, revoke_member | timeouts racing late answers; retries; two connections of one device; membership changing during a call; signals queued across a generation change |
| Attachment storage broker (`elo-storage`) | objects (pending, uploading, uploaded, complete, deleting), transfer tokens, receipts, provider generations, the witness floor | configure, reserve, upload, complete, download, cancel, disable, policy, sweep | crash during an upload, a late write after cancellation, tokens presented twice, witness answers that overtake each other |
| Replica mailboxes (`elo-core/replica.rs`, `replica/`, `retention_access.rs`) | a tree of mailboxes with quotas, deliveries, message bodies and locators with deadlines, requests, acceptances, tombstones, member lists, access nonces | reserve, create child, delete tree, post, get, inventory, request, accept, prune, erase, consume access | deadlines of two rows that belong together, refills, removal between request and refill, quotas over a tree |
| Wake relay (`elo-wake/relay.rs`, `relay/ringing.rs`) | one route per device: policy, scopes, queue, attention, ledger of events, the delivery gate | register, confirm, policy, wake, read, deliver, ring, erase | a newer event replaces a row while the provider call is in flight; policies racing deliveries; rings judged by an older time |
| Client sync and store (`elo-core/sync.rs`, `store/`) | cursors, staged entries, scans, known copies, outbox, local deletions | pass, stage, admit, defer, repair, upload, delete locally | a mailbox restored or created anew reuses arrival numbers; crashes between two commits; deletion of what is on its way |
| Owner-managed Space service (`elo-core/public_space.rs`, `public_space/roles.rs`, `owner_admission.rs`, `app/invitations/owner_general.rs`) | configurations of General, a journal of signed intents, invitations, requests, roles, removals, device tombstones of the host | join, status, invite, revoke, decide, role change, revoke device, erase account, fetch and publish authority | two replicas of one rule (the service's gate and the owner's replay); an update in two requests; tombstones shared by the Spaces of a host |
| Call connections and media provider (`server.rs`, `server/*.rs`, `media.rs`) | subscriptions, hosting grants, event queues, LiveKit rooms | connect, forward, admission tick, reconcile | bounded queues, grants that expire between two events |
| Client witness floor and leases (`elo-core/app/witness_client.rs`, `app/membership.rs`) | the newest position seen, a nonce-bound lease, a generation | refresh, use, invalidate | answers that arrive after a newer one |
| Unwitnessed authority (`authority.rs`, `authority/recovery.rs`, `authority/checkpoint.rs`) | a DAG of configurations, recovery certificates | apply, select head, detect forks | forks, recoveries, checkpoints |
| Team hosting (`elo-team/hosting*`) | accounts, Spaces, admissions, deletion jobs | life cycle, admission queries | deletion in several steps |
| Crypto, records, vault | none of interest | encode, sign, encrypt | assumed sound |
| Desktop and mobile clients, landing page, deployment scripts, vendored code | UI state, files | | out of scope |

How the modelled parts interact:

```
 client ──signed command──▶ witness server ──▶ engine (one mutex, one SQLite tx) ──▶ journal
   ▲                            │ head cache ◀── position of the journal ────────────┘
   └──────── signed receipt ────┤
                                └──head, nonce-bound──▶ storage broker ──▶ provider
 client ──signed command (+ authority proof)──▶ call server
            preparation (lock) ─ verify, hosting admission (no lock) ─ execute (lock)
                                                        │ fence, receipt (SQLite)
                                                        ▼
                                              registry ──events──▶ queues ──▶ connections
 client ──ciphertext──▶ Replica mailboxes ◀──inventory, get── client (sync pass)
 client ──wake, ring──▶ wake relay ──▶ push provider ──▶ device
 owner's device ◀──journal── Space service ◀──requests, intents── members
        └────────next configuration───▶┘
```

The witness serves a Space's configuration chain; the call service and the storage
broker take such a chain as a proof and never go back behind the newest they have
seen. `Witness` and `WitnessJournal` divide the witness: the first says what a command
does to the tables of its Space, the second what becomes of the journal those commands
are appended to. `CallEngine` and `CallRegistry` divide the call service: the first
owns the fence of a conversation and reduces a call to the configuration it was opened
under; the second owns the call and takes a fence that only moves forward.
`CallEngine!RoomsFenced` is the guarantee of the first that the second relies on, and
`ConfigurationChanged` is the step that they share. `Replica` is the server that
`ClientSync` talks to; the latter models it by what it promises, arrival numbers
included.

## 2. Modules

| Module | Role |
| --- | --- |
| `Witness`, `MCWitness`, `WitnessProofs` | the witness engine and the authority rules it calls; instances; theorems |
| `WitnessJournal`, `MCWitnessJournal`, `JournalProofs` | process, journal, activation, clock and head cache; instances; theorems |
| `CallRegistry`, `MCCallRegistry`, `CallRegistryProofs` | calls, signals, timeouts; instances; theorems |
| `CallEngine`, `MCCallEngine`, `CallEngineProofs` | fences and receipts; instances; theorems |
| `MCCallService` | registry and engine in one run |
| `AttachmentLife` | what the storage broker promises about one attachment |
| `StorageBroker`, `MCStorageBroker`, `StorageBrokerProofs` | the broker, its provider and its witness; instances; theorems, the refinement of `AttachmentLife` among them |
| `Replica`, `MCReplica`, `ReplicaProofs` | mailboxes, retention, erasure, access nonces; instances; theorems |
| `WakeRelay`, `WakeScenario`, `MCWakeRelay`, `WakeRelayProofs` | one route of the relay; events and policies of the instances; instances; theorems |
| `MCRelays` | mailboxes and wake relay in one run |
| `ClientSync`, `MCClientSync` | a device's inbox, store and outbox against one mailbox; instances |
| `SpaceService`, `MCSpaceService` | the owner-managed Space service and its owners' devices; instances |
| `MCDevices`, `DevicesProofs` | inbox and Space service in one run; theorems about both |

The composing modules `MCCallService`, `MCRelays` and `MCDevices` run two components
that share no state: a behaviour is one of the first with the second at rest, or the
other way round. Fairness is then that of one half, and the liveness properties speak of
that half only.

Operators whose comment begins with "Fault:" are never used by a specification.
Each is a plausible mistake in the definition that follows it and serves to show
that a property depends on that definition (`PROJECT.json`, "mutants").

### Witness

`db[s]` holds the rows of a Space (`chain`, `policies`, `challenges`,
`tombstones`), `digest[s]` what the last signed receipt says of them, `usage` and
`position` the event budgets, `now` the clock. One action is one committed
`Engine::apply` transaction with everything it calls: the pruning of challenges,
the authority check, the configuration that is built and appended, the tombstones
and counters, the budget. Refused commands change nothing and have no action.

Abstractions:
- a signature is the field that names its signer; devices may sign anything at any
  time, so every order in which signed records reach the witness is explored;
- `KeyOf` stands for the signing key and the age recipient of a device together;
- a v1 intent is named after the challenge it answers;
- registration tickets, proof of work, rate limits and byte budgets only refuse
  commands; contact cards and display data change no decision;
- the 5 s skew, nonces, replay and the compare-and-set on the head are the subject
  of `WitnessJournal`; the cap of 4096 configurations is above the event budget;
- a v2 approval's expiry is checked by the code against the same clock as the
  request's window and is left out, and so is its check that a v2 challenge was issued
  under the head the command names (`elo-witness/src/engine.rs:484`): the model admits
  more; a genesis has the founder as its only member.

### WitnessJournal

`journal` is the events table, and a `Position` the sequence of events up to it,
because every receipt signs the id of the one before. `process` is the `Journal`
value (with its clock anchor and whether it is active or sealed), `heads` the head
cache, `archive` every database that was ever committed, `documents` the activation
documents the operator has written, `released` the positions in answers that left
the host, `stamps` a history of when each event was really made. `Apply(c,
answered)` with `answered = FALSE` is a commit whose answer is lost.

The operator is part of the design: `deploy/witness/README.md:99-123` asks that the
expected position of an activation be taken from the newest evidence there is. The
model takes the operator to be honest in that sense (`Review` uses a position that
extends every released answer), and still allows any older document to be installed
again. Snapshots are whole and consistent; hashes and signatures are perfect.

### CallRegistry

`calls` maps a scope to its call, with `peers` (one device per person, with the key
it joined with and its lease), `invitations`, `epoch`, `phase`. `head` is the fence
of each scope, `signals` what is queued for connections, `clock` the time. Each
operation of `Registry::apply_with_delegation` is an action with the guards of both
functions; `Start` on an open call is a `Join`, as in the code. `RingOut` is the early
return that ends a call which rang out, whatever command finds it. `MaintainCalls` is
`tick`; with `tick(u64::MAX)`, the service's answer to a failed write, all calls end.

Ids are numbered instead of random. Names, captions, readiness marks, `invited_by`
and `answered_at` only travel in events. The clock is monotone. `revoke_space` is
called by tests only.

### CallEngine

`disk` and `receipts` are the tables, `memory` the fences of the process (with
whether the authority is cached and whether its bytes are counted), `rooms` the
configuration of each open call, `jobs` the commands between preparation and
execution, `applied` a history of effects. `execute` is five actions, one for each
way it returns: `Refuse` (at most the fence has been loaded), `Refresh` (known head,
then a duplicate or a refusal), `Block` (a fork), `Admit` (the fence has moved and
the registry refuses), `Apply`. A proof is the configuration it proves, with its
ancestors and recoveries; `Sequence` is the number of ancestors, which is what the
chain's checks make of it. All proofs have size one. What the registry does to the
call is left open (`Outcomes`), so that every result here holds for every command.

### StorageBroker and AttachmentLife

`objects`, `tokens`, `receipts`, `settings`, `providers`, `heads` and `floor` are the
broker's tables; `jobs` what each worker is doing, `sweep` the maintenance task, `puts`
until when the provider may still store something for an object and `blobs` what it has
stored; `journal` and `retired` are the witness; `applied` and `uses` are histories.
A request asks the witness and acts on the answer later (`asked`, `leased`), so answers
overtake each other; a token is looked at before the witness is asked and consumed
after. `AttachmentLife` is the promise: an attachment becomes readable only with the
announced ciphertext stored and no write under way, stays so until it is closed, and is
forgotten only when the provider has nothing of it and will not come to have anything.
`Life` is the refinement mapping.

The first look at the gate before a body is read is folded into jobs that are given up;
the answer of the witness is the one of the moment it was asked; `verify_freshness`
compares with a floor that `observe_witness` compares with again; `ConfigureManaged`
is `Configure`; rate limits, proof of work and byte counts only refuse, and every object
has size one; the clock of broker and witness is one monotone clock; an object is a pair
of Space and id in the code, so `SpaceOf` is fixed. `Detached` says whether the
provider's helper outlives the request it works for (MEGA, section 6).

### Replica

The tables are the fields of `db`; every operation runs under the one database lock and
is one action, with `sweep` and `valid_window` committed also when the operation then
fails. A message is a locator and a body with deadlines of their own. Proofs are named
by their deadlines. `opened`, `drops` and `consumed` are histories of what windows were
open, which acceptances removed a body and which accesses passed.

What the model shows beside the properties: a request proof that is replayed after a
later proof replaced the row's nonce may reopen a window, within its own deadline; the
high-water mark of acceptances is lost when an account is removed and admitted again.

### WakeRelay

One route of one device, one database call per step. `gate` is the delivery gate with
what it has in hand: selected, sending, ringing. `queue`, `attention`, `events` (the
ledger), `scopes`, `policy` and `budget` are the tables; `rings` the calls that wait for
the gate with the time at which they were checked; `read`, `sent`, `latest` and `rung`
are histories. How long a row waits before it is sent is left open.

Not covered: whether a notification is quiet is computed in a database call of its own
(`relay.rs:1064`), so what it says may be older than the payload. Erasing a sender
deletes the attention of its scopes and so re-arms them. Deliveries are at least once
when the record of an answer fails. A ring whose client disconnects stays in the ledger.
The ledger goes with the route, so a ring that is repeated after a new registration
rings again: `RungOnce` is a property of a registration.

### ClientSync

One mailbox of one client. `srv` is the mailbox; `cursor`, `inbox`, `scan`, `copies`,
`cached`, `records`, `outbox`, `floor` and `removed` are tables of the store; `pass` is
the pass in progress, which `operate(&mut self)` serialises. Every request and every
transaction is a step; the mailbox changes and the process may stop between any two of
them. `scan.seen` stands for `seen_round`.

A missing object or a transport error ends the reading (`Gone`, `NetworkFails`); entries
refused for wrong bytes and lazy attachments are left out. `Rejects` stands for two checks,
and `AdmitRejected` keeps their places: what is known to be deleted is discarded before the
authority is asked (`discard_known_removed_inbox`), what is from before the floor only
after it (`finish_inbox`), so such a record may wait for a proof first.

A repair claims any copy that is missing, with or without ciphertext at hand
(`claim_repair`). Without it, `repair_copies` asks the other mailboxes of the device, of
which `Mirrored` says what they hold: `FetchCopy` caches the answer, which is a transaction
of its own before the upload, and `NoSource` gives up until the next pass.
`cache_repair_object` does not look at `local_deleted_objects`, and `finish_scan_page` makes
`replica_copies` rows again for objects that were deleted on this device. So the ciphertext
of a deleted message can come back and be sent to the mailbox that lost it. It stays until
the next `delete_chat_local` of any chat, which discards it again: `DeleteChatLocal` may be
repeated, and includes that cleanup. This disagrees with the comment on `discard_object`
("Keep only metadata tombstones, never an encrypted envelope that still contains removed
text", `store/local_deletion.rs:112`). `NoResurrection` therefore says what the code does
keep: the message is not shown, queued or admitted again, and its ciphertext returns on
this one way only.

### SpaceService

`heads` are the configurations of General with the journal each commits, `journal` the
signed intents, `applicants`, `offers`, `roles`, `removals`, `erased`, `revoked` the
service's state, `tombs` the host's registry, `drafts` what owners' devices have built
and not published. `Replay` is the owner's device: it replays the whole journal by
itself; `Accepts` is what the service checks of the result.

Request budgets, the limit of 128 offers and enrolment budgets only refuse. A new contact
email clears the cached replies, as a role change does, and changes nothing else modelled.
`role_decide` never succeeds, since `pending` is always empty; the legacy step from
eligible to pending cannot be reached. A tombstone that another Space inserts between a
request's prelude and its command is left out. Behaviours that stop a Space, which the
model shows and no property forbids: a linked device that is approved after its parent
left makes the whole update fail; a tombstone of another Space whose signer is not
enrolled here, or was itself revoked before, fails the replay; the journal is full
(section 5).

## 3. Runs

| Run | States | Checks |
| --- | --- | --- |
| `witness_plans` | 212k | `TablesSound`, `RemovedStayOut`, `OldGrantsStayDead`, `InvitationsNeverMakeOwners`, `RevocationHeadroom`, `RevokedIsFinal` |
| `journal_plans` | 4M | `OneJournal`, `RepliesCurrent`, `NoncesSpaced`, `TimesSound` |
| `calls_group` | 91k | `GroupCallSound`, `SignalsStayInGeneration` |
| `call_service` | 294k | `CallsSound`, `FencesSound`, `RoomsFenced`, `AppliedOnce`, `AnswersAreTimely`, `CallsEnd`, `FencesAdvance` |
| `storage_life` | 2M | `RowsSound`, `NoOrphans`, `WithdrawalHonoured`, `ImplementsLife` |
| `relays` | 663k | `MailboxesSound`, `DeletionFinal`, `RetentionKept`, `Honoured`, `ToldOnce`, `NothingLost` |
| `devices` | 138k | `InboxSound`, `NoResurrection`, `SpaceSound`, `HeadsJustified`, `IntentsLand`, `CommittedReplays`, `AllReceived`, `Restored`, `Settled` |
| `engine_proofs`, `storage_mega`, `replica_bodies`, `wake_alert`, `owner_journal` | | one property each that the code violates (section 6) |

What the runs show, and why their bounds are enough:

- `witness_plans` follows one of four plans. *linked*: a co-owner with linked devices;
  the shortest behaviour that could honour a stale grant has seven events (register,
  promote, invite, demote, promote, challenge, admit). *others*: the same with other
  people's devices, one of which wraps another's key. *admission*: two invitations (one
  without approval for one use, one with approval for two), a durable request, removal
  and time; six events are enough for register, invite, challenge, admit, remove, admit
  again. *capacity*: three Spaces, three reserved events for each, and a journal of
  seven: there is room for two reservations, and the third registration has to be
  refused for the other two to stay able to revoke.
- `journal_plans`: *restoring* has two processes, two activation documents, three
  commands on two Spaces, all their crashes, restores and retries; a fork needs one
  answer released, one restore and one activation, and time runs far enough for a nonce
  to be reused after its first command expired. *clocks*: three steps of the wall clock
  with tolerance one would pass a guard that anchors itself again on every call.
- `calls_group`: three people, room for two, one camera, a ringing window shorter than
  the run, a call-only key that expires within it, two configurations.
- `call_service`: a direct and a group call at once, a device that moves, a second
  configuration that drops one device, a key that expires, calls that reach their
  maximal duration before the clock's bound (`LastStart + MaxDuration =< MaxCallTime`).
  In the engine the first conversation has a history, a fork of it and a continuation
  that lacks its recovery; the second has no fork at all. Memory for one fence makes
  every change of conversation an eviction and a reload.
- `storage_life`: one attachment, two workers, six signed commands that cover every
  kind but `policy` and `status`, a second configuration without the uploader, one
  restart. The workers are interchangeable (symmetry).
- `relays`: the mailboxes in three plans (a locator and its body with all deadlines
  within four units of time; a tree of three mailboxes with quotas 6, 2 and 1; two
  accesses with two nonces) and the wake relay in three (four events of two senders on
  one registration within one ledger life; a ring with one other event to clean the
  ledger meanwhile; two registrations).
- `devices`: the inbox with two objects and one trouble, or its own object and two
  troubles, pages of one entry and two generations. The own object is held by another
  mailbox as well; once its ciphertext is back after a deletion a third trouble is
  possible, so that it is also served, lost or deleted again from there. The Space service in plans *links*,
  *host* and *offers* with at most three intents and four configurations.

All runs but the two call runs say `CHECK_DEADLOCK FALSE`: their behaviours end at the
event and time bounds. The call runs check deadlock, because maintenance is always
possible.

Fairness. `CallsEnd` assumes that the clock goes on and that `MaintainCalls` is taken
again and again (`CallsFairness`): `elo-call-service/main.rs:108-116` runs it every
second, in a task of its own that never returns. Nothing is assumed of any client. The
model's clock stops at `MaxCallTime`, which lies after the last moment at which a call
may still be allowed to run. `AllReceived`, `Restored` and `Settled` assume that a full
pass is started again and again and goes on by itself, that an upload that may be
claimed again and again is claimed, and that a configuration that may be committed is
committed (`Fairness` of ClientSync: the scheduler's timer and the loop of a pass);
troubles are finitely many.

## 4. Theorems

Every safety property that a passing run checks is also proved, for every value of the
constants that satisfies the named assumptions; `PROJECT.json` ("theorems") pairs them.
An invariant that makes a system correct is seldom inductive. The strengthening each proof
needed says why the code works, so this section names it.

**Witness** (`WitnessProofs`; `CredAssumption`, `PolicyAssumption`, `BoundAssumption`).
`Inv` says that each of the engine's tables is a function of the signed chain: use
counters count the admissions of the chain, markers name them, tombstones are the devices
that left it. `TablesSound`, `RemovedStayOut`, `OldGrantsStayDead`,
`InvitationsNeverMakeOwners` and the action property `RevokedIsFinal` follow; the smaller
results (`UsesCorrect`, `ConsumptionCorrect`, `ReadmissionSafe` and so on)
are stated by themselves. `RevocationHeadroom` needs `BudgetInv`: the events of the journal
are counted as pairs of a Space and a number, so that their cardinality is bounded by the
reservations of the registered Spaces.

**Witness journal** (`JournalProofs`; `CommandAssumption`, `LimitAssumption`). The
invariant has four parts: every image in the archive is in order, measured and spaced
(`ArchiveInv`), so that a restore starts from a good one; no event is later than the last
time the process has accepted (`ClockInv`); the events of the running process keep the
skew to the anchor it started with (`AnchorInv`); and every released answer is a prefix of
the journal of an active process and of each document that may still activate this one
(`ReleaseInv`). `OneJournal`, `NoncesSpaced`, `TimesSound` and `RepliesCurrent` follow.
The honest operator of section 2 is what carries `OneJournal`; it is a conjunct of `Review`.

**Call engine** (`CallEngineProofs`; `EngineAssumption`: ancestors are finite, reflexive
and transitive). `EngineInv` has the fences of memory and disk, the receipts and the
rooms. `LoadedMemory` says what a fence is after it was evicted and read again, and
`ForkIncomparable` that a fork of the fence stays one. `FencesSound`, `RoomsFenced`,
`AppliedOnce` and the action property `FencesAdvance` follow.

**Call registry** (`CallRegistryProofs`; `CallAssumption`, `LimitAssumption`). Beside the
soundness of one room, `CallsInv` needs two facts that nobody wrote down: an epoch
determines the participants (`Later`: it grows whenever somebody comes or goes), and two
calls never share a device (`Apart`). The first is what keeps queued signals in their
generation, the second what lets a device that moves leave one call only. `CallsSound`,
`GroupCallSound`, `SignalsStayInGeneration` and `AnswersAreTimely` follow.

**Storage broker** (`StorageBrokerProofs`; `BrokerAssumption`, where `PutLife =< BusyLife`
says that the lease of an upload covers the provider's write). The invariant comes in
layers: types; `TablesInv` (a command is applied once, a token used once, settings belong
to their generation); `LeaseInv` (what a worker was told by the witness is at most a lease
old); `StoreInv` (uploads, writes, sweeps and stored objects agree). `WithdrawalHonoured`
needs the first three. `RowsSound`, `NoOrphans` and the refinement `ImplementsLife` need
the last, under the hypothesis `~Detached`: run `storage_mega` refutes `NoOrphans` without
it, so the hypothesis is the boundary of finding 2. Fairness is no part of
`AttachmentLife`, so the refinement is proved as a whole.

**Wake relay** (`WakeRelayProofs`; `WakeAssumption`). `LedgerInv`: what was delivered or
read is in the ledger, what waits or is in hand is not. `AttentionInv`: the last delivery
of a scope holds its attention. `GateInv` and `RingInv` speak of what the gate has in hand
and of calls that wait for it. `GateWait =< RingMargin` is an assumption about time: the
120 s by which the ledger outlives a ring must cover how long a ring waits for the gate,
or a ring would be forgotten and rung twice. `Honoured`, `ToldOnce` and `NothingLost`
follow.

**Inbox** (`DevicesProofs`; `SyncAssumption`). `SyncInv` has the types of the mailbox, of
the entries and of the store, and: the page of a pass that stages says what
the inbox of this epoch says (`PageAgrees`: the check of the page established it, and
nothing changes the epoch before the pass ends); a pending entry has its ciphertext
(`PendingIsCached`); what was announced is kept (`AnnouncedKept`). Entries are of an epoch
that is not after the cursor's, which is why arrival numbers that are used again by a
restored mailbox meet no old entry. Every entry of a deleted object is rejected, so none
waits when its ciphertext is downloaded again, and that download needs a listed copy that
another mailbox holds. `InboxSound` and `NoResurrection` follow.

**Owner-managed Space** (`DevicesProofs`; `SpaceAssumption`: a linked device belongs to the
identity of its parent, devices are finitely many). `SpaceInv` is the largest invariant of
the project, in five layers above the types:

- `LandingInv`: what a configuration commits is a prefix of the journal, and an intent
  stands between the two configurations it was signed under and committed by;
- `GateInv`: revocations, deletions and removals of the journal are in the service's
  tables, and a request that counts is newer than every removal of its identity;
- `ChangesInv`: whoever is in General and in one of those tables has an intent that is not
  yet committed; the owners of the service and of General differ by such intents of the
  primary's devices only;
- `ReplayInv`: the owner's replay and the service agree on the owners whenever the replay
  succeeds, what is committed replays, and a draft on the newest journal replays and lets
  nobody in without a reason;
- `JustifiedInv`: every configuration is justified by what it commits.

`IntentsLand`, `SpaceSound`, `HeadsJustified` and `CommittedReplays` follow. The proof
separates the two copies of the rules. Who leaves, who stays and who owns is justified by
the service's checks alone, whatever an owner's device signs; the replay is needed only for
who *comes*. The replay is a recursive function. That it exists is shown for every length
(`ReplayUpTo`), and what it computes by the least length at which a claim fails, since the
library's induction theorems are out of reach of the provers. `ReplayKept` and
`ReplayPublished` are the heart of `CommittedReplays`: a journal that grows, and a
configuration that is published, change no step of a replay that has succeeded.
Run `owner_journal` shows that the replay of the *whole* journal may fail (finding 5): that
is why `RolesInv` has the success of the replay as its premise.

**Replica** (`ReplicaProofs`; `ReplicaAssumption`). `TablesOK`: mailboxes hang
at most two levels below a root, rows refer to rows, what was cleaned up or erased is gone, a
body has exactly one locator, windows are those that were opened. On top of
it the quotas of every mailbox (`QuotaOK`), what acceptances removed (`DropsOK`) and nonces (`NoncesOK`).
An acceptance's row outlives its proof because `ProofLife =< AcceptLife`. `MailboxesSound`,
`DeletionFinal` and the action property `RetentionKept` follow.

Only model-checked: the liveness properties `CallsEnd`, `AllReceived`, `Restored` and
`Settled`, because the prover handles neither fairness nor `ENABLED`; and the violated
properties of section 6.

## 5. Hazards

`PROJECT.json` lists 40 places where this code is hard to test, each with the properties
that would show it going wrong. Three have none:

- `elo-call-service/engine.rs:482`: receipts are pruned by the wall clock. If it steps back
  over the grace of a pruned receipt, its command counts as new. The model's clock is
  monotone; the command's own expiry bounds the window.
- `elo-storage/engine.rs:763`: a sweep takes the first 32 objects in row order, and a failed
  deletion keeps its place, so 32 objects that cannot be deleted stop the sweep. The model
  has fewer objects than a batch.
- `elo-core/public_space.rs:1893`: a journal that is full when another Space of the host
  retires a device of General refuses every request of this Space. The model shows it, and
  no document says otherwise.

## 6. Findings

Five runs refute what a document, a comment or the protocol says of the code. The lines
and quotations are in `PROJECT.json` ("findings").

1. `engine_proofs`: the call engine's cache of proofs exceeds its bound. A command takes
   the cached authority, the idle fence is cleared meanwhile, and `execute` puts the
   authority back uncounted.
2. `storage_mega`: the 100 s lease of an upload does not cover the MEGA helper, which goes
   on for up to 80 s after a body that took up to 90 s; the ciphertext stays at the provider
   with no row.
3. `replica_bodies`: a body stored or refilled shortly before its locator's 30 days end
   loses its deadline with the locator and is served for ever.
4. `wake_alert`: a quiet delivery of an unknown sender takes the one audible alert of an
   open scope.
5. `owner_journal`: a member who was just made an owner may remove a member before a
   configuration lists its device as an owner's; the journal then fails the replay on every
   owner's device, and no configuration is published again.

## 7. Plan

Modelled and proved so far: the witness, the call service, the storage broker, the wake
relay, the mailboxes, the inbox of a device, and the owner-managed Space. In order of worth:

1. the client's witness floor and its nonce-bound leases (`app/witness_client.rs`,
   `app/membership.rs`): answers that arrive after a newer one, against the fence that
   `StorageBroker` already models for a service;
2. the unwitnessed authority (`authority.rs`, `authority/recovery.rs`): the DAG of
   configurations, recoveries and the choice of a head;
3. deletion of an account in several steps across the services (`elo-team/hosting.rs`),
   whose last steps `Replica`, `WakeRelay` and `SpaceService` have;
4. a weaker form of `JournalReplays` that holds: a journal in which every role change is
   signed by a device of an owner General lists replays as a whole.

## 8. What is not modelled

The repository has some hundred thousand lines of implementation. Most of them are user
interface and desktop or mobile glue, media capture, encodings and cryptography, HTTP and
SQL plumbing, and mail or billing: no state of theirs has more than one actor, or they are
assumed sound (signatures, hashes, encryption, SQLite transactions, the provider's
authentication). The models cover the parts that decide *who*, *which*, *when* and *how
often*, which is a small share of the lines. Within the modelled parts, rate limits, proof
of work, byte budgets and request sizes only refuse and are left out; logging, metrics and
display data change no decision. Each component that is left out, or modelled in part, is
listed with its reason in `PROJECT.json` ("components").
