---------------------------- MODULE CallRegistry ----------------------------
(***************************************************************************)
(* The calls of a call service:                                            *)
(* crates/elo-call-service/src/registry.rs (apply_with_delegation, apply,  *)
(* tick, configuration_changed, revoke_member), with the delivery of       *)
(* signals in server.rs and the membership rule of elo-core's calls.rs.    *)
(*                                                                         *)
(* One lock is held across every action.  A command reaches the registry   *)
(* with an authority whose head is the fence of its scope; CallEngine      *)
(* describes how that fence moves, and here `head` moves forward on its    *)
(* own.  A command that is refused changes nothing and has no action.      *)
(*                                                                         *)
(* Random ids are numbers drawn in order.  Names, captions, the readiness  *)
(* marks and the microphone flag only travel in presence events and are    *)
(* left out.  The clock is taken to be monotone.                           *)
(***************************************************************************)
EXTENDS Integers, FiniteSets

CONSTANTS
    CallScopes,       \* conversations that may hold a call
    DirectScopes,     \* the ones whose chat_kind is Direct
    Identities,
    Devices,          \* credentials
    Owner,            \* [Devices -> Identities]
    CallConfigs,      \* the configurations of a conversation, in order
    Members,          \* [CallConfigs -> SUBSET Identities]
    Callers,          \* [CallConfigs -> SUBSET Devices]: listed, with Read and Post
    Delegations,      \* call-only certificates
    DelegationBody,   \* [Delegations -> [device, scope, config, expires]]
    Nothing,          \* the absent delegation, invitation or time
    RingTtl,          \* 60 s
    ParticipantTtl,   \* 30 s
    EmptyGrace,       \* 15 s
    MaxDuration,      \* 12 h
    MaxParticipants,  \* 25
    MaxCameras,       \* 12
    MaxScreens,       \* 1
    MaxRooms,         \* 1024
    MaxIds,           \* model bound on ids drawn
    MaxEpoch,         \* model bound on key epochs that commands may reach
    MaxSignals,       \* model bound on signals in flight
    LastStart,        \* model bound on the time of a Start
    MaxCallTime       \* model bound on the clock

ASSUME CallAssumption ==
    /\ DirectScopes \subseteq CallScopes
    /\ IsFiniteSet(Identities)
    /\ Owner \in [Devices -> Identities]
    /\ CallConfigs \subseteq Nat
    /\ Members \in [CallConfigs -> SUBSET Identities]
    /\ Callers \in [CallConfigs -> SUBSET Devices]
    /\ \A c \in CallConfigs : \A d \in Callers[c] : Owner[d] \in Members[c]
    /\ DOMAIN DelegationBody = Delegations
    /\ \A v \in Delegations :
         /\ DelegationBody[v].device \in Devices
         /\ DelegationBody[v].scope \in CallScopes
         /\ DelegationBody[v].config \in CallConfigs
         /\ DelegationBody[v].expires \in Nat
    /\ Nothing \notin Delegations

ASSUME LimitAssumption ==
    /\ {RingTtl, ParticipantTtl, EmptyGrace, MaxDuration} \subseteq Nat \ {0}
    /\ MaxParticipants \in Nat \ {0}
    /\ {MaxCameras, MaxScreens, MaxRooms} \subseteq Nat
    /\ {MaxIds, MaxEpoch, MaxSignals, LastStart, MaxCallTime} \subseteq Nat

VARIABLES
    clock,    \* the service's clock
    head,     \* the configuration each scope is fenced at
    calls,    \* the open calls, by scope
    ids,      \* the number of ids drawn so far
    signals   \* signals queued for a device's connection

callVars == <<clock, head, calls, ids, signals>>

-----------------------------------------------------------------------------
(* Calls.                                                                   *)

PutKey(f, k, v) == [x \in DOMAIN f \cup {k} |-> IF x = k THEN v ELSE f[x]]

Keep(f, S) == [x \in DOMAIN f \cap S |-> f[x]]

DropKey(f, k) == [x \in DOMAIN f \ {k} |-> f[x]]

NoEntries == [x \in {} |-> x]

IsDirect(s) == s \in DirectScopes

Open(s) == s \in DOMAIN calls

\* The device in the call, for the person it belongs to.
IsParticipant(room, d) == /\ Owner[d] \in DOMAIN room.peers
                          /\ room.peers[Owner[d]].device = d

\* A participant is a device together with the key it signals with.
PeersOf(room) == {<<room.peers[i].device, room.peers[i].via>> :
                     i \in DOMAIN room.peers}

Pending(room, i) == /\ i \in DOMAIN room.invitations
                    /\ room.invitations[i].expires > clock

\* Fault: nobody looks at the clock of a ringing call.
NeverRungOut(s, room) == FALSE

\* A direct call that nobody answered within its ringing window.
RungOut(s, room) == /\ IsDirect(s)
                    /\ room.phase = "ringing"
                    /\ clock >= room.ringExpires

\* `ensure_free`: a device takes part in one call at a time.
EnsureFree(d, s) == \A t \in DOMAIN calls \ {s} : ~IsParticipant(calls[t], d)

Newcomer(d, via) == [device |-> d, video |-> FALSE, screen |-> FALSE,
                     seen |-> clock, via |-> via, accepted |-> Nothing]

\* Fault: the key epoch stays.
SameEpoch(room, peers) == room.epoch

\* A change of participants starts a new media generation.
NextEpoch(room, peers) ==
    IF DOMAIN peers # DOMAIN room.peers THEN room.epoch + 1 ELSE room.epoch

NewInvitation == [id |-> ids + 1, expires |-> clock + RingTtl]

-----------------------------------------------------------------------------
(* Admission of a command.                                                  *)

\* `require_member`, and the certificate of a delegated command.
Authorized(d, s, via) ==
    /\ d \in Callers[head[s]]
    /\ via # Nothing => /\ DelegationBody[via].device = d
                     /\ DelegationBody[via].scope = s
                     /\ DelegationBody[via].config = head[s]
                     /\ clock < DelegationBody[via].expires

\* A device that is in the call acts through the key it joined with.
SameKey(d, s, via) ==
    (Open(s) /\ IsParticipant(calls[s], d)) => calls[s].peers[Owner[d]].via = via

\* Capture, invitations and hanging up stay with the device itself as well.
SameKeyOrDevice(d, s, via) == via = Nothing \/ SameKey(d, s, via)

\* The frame of a command on an open call.
OnCall(d, s, via) ==
    /\ Open(s)
    /\ Authorized(d, s, via)
    /\ ~RungOut(s, calls[s])
    /\ calls[s].config = head[s]

-----------------------------------------------------------------------------
(* Start and Join.                                                          *)

NewRoom(d, s) ==
    [id |-> ids + 1,
     startedAt |-> clock,
     starter |-> Owner[d],
     phase |-> IF IsDirect(s) THEN "ringing" ELSE "active",
     ringExpires |-> clock + RingTtl,
     invitations |-> IF IsDirect(s)
                     THEN [i \in Members[head[s]] \ {Owner[d]} |-> NewInvitation]
                     ELSE NoEntries,
     config |-> head[s],
     peers |-> [i \in {Owner[d]} |-> Newcomer(d, Nothing)],
     epoch |-> 1,
     emptySince |-> Nothing]

\* The invitation that rings for the person now.
Accepts(room, i, invitation) ==
    /\ Pending(room, i)
    /\ room.invitations[i].id = invitation

\* An invitation id names a ringing that is still pending or that this device
\* has already answered; without one, any member may join.
CanEnter(room, d, invitation) ==
    LET i == Owner[d] IN
    /\ \/ invitation = Nothing
       \/ Accepts(room, i, invitation)
       \/ IsParticipant(room, d) /\ room.peers[i].accepted = invitation
    /\ IF i \in DOMAIN room.peers
       THEN room.peers[i].device = d
       ELSE Cardinality(DOMAIN room.peers) < MaxParticipants

Answers(s, room, i) == IsDirect(s) /\ i # room.starter

\* Fault: a person who joins keeps ringing.
StillRinging(s, room, i) ==
    IF Answers(s, room, i) THEN NoEntries ELSE room.invitations

\* Who still rings once a person is in the call.
RingingWithout(s, room, i) ==
    IF Answers(s, room, i) THEN NoEntries ELSE DropKey(room.invitations, i)

\* The call once the device is in it.
Entered(s, room, d, via, invitation) ==
    LET i     == Owner[d]
        peer  == IF i \in DOMAIN room.peers
                 THEN [room.peers[i] EXCEPT !.seen = clock]
                 ELSE Newcomer(d, via)
        peers == PutKey(room.peers, i,
                     IF invitation = Nothing THEN peer
                     ELSE [peer EXCEPT !.accepted = invitation])
    IN [room EXCEPT
          !.peers = peers,
          !.epoch = NextEpoch(room, peers),
          !.phase = IF Answers(s, room, i) THEN "active" ELSE @,
          !.invitations = RingingWithout(s, room, i),
          !.emptySince = Nothing]

Enter(d, s, via, invitation) ==
    /\ OnCall(d, s, via)
    /\ SameKey(d, s, via)
    /\ EnsureFree(d, s)
    /\ CanEnter(calls[s], d, invitation)
    /\ calls[s].epoch < MaxEpoch
    /\ calls' = [calls EXCEPT ![s] = Entered(s, @, d, via, invitation)]
    /\ UNCHANGED <<clock, head, ids, signals>>

\* A delegated device can join but not start.
Start(d, s) ==
    /\ IsDirect(s) => Cardinality(Members[head[s]]) = 2
    /\ \/ Open(s) /\ Enter(d, s, Nothing, Nothing)
       \/ /\ ~Open(s)
          /\ Authorized(d, s, Nothing)
          /\ EnsureFree(d, s)
          /\ Cardinality(DOMAIN calls) < MaxRooms
          /\ clock =< LastStart /\ ids < MaxIds
          /\ calls' = PutKey(calls, s, NewRoom(d, s))
          /\ ids' = ids + 1
          /\ UNCHANGED <<clock, head, signals>>

Join(d, s, call, via, invitation) ==
    /\ Open(s) /\ calls[s].id = call
    /\ Enter(d, s, via, invitation)

-----------------------------------------------------------------------------
(* The other commands.  Each names a call, and acts on that one or on none.  *)

End(s) == /\ calls' = DropKey(calls, s)
          /\ UNCHANGED <<clock, head, ids, signals>>

Change(s, room) == /\ calls' = [calls EXCEPT ![s] = room]
                   /\ UNCHANGED <<clock, head, ids, signals>>

Participates(d, s, call, via) ==
    /\ OnCall(d, s, via)
    /\ calls[s].id = call
    /\ IsParticipant(calls[s], d)

Decline(d, s, call, via, invitation) ==
    LET room == calls[s]
        i    == Owner[d]
    IN /\ OnCall(d, s, via)
       /\ room.id = call
       /\ i \in DOMAIN room.invitations => room.invitations[i].id = invitation
       /\ IF IsDirect(s)
          THEN /\ room.phase = "ringing"
               /\ i # room.starter
               /\ i \notin DOMAIN room.peers
               /\ End(s)
          ELSE Change(s, [room EXCEPT !.invitations = DropKey(@, i)])

Cancel(d, s, call, via) ==
    /\ Participates(d, s, call, via)
    /\ SameKeyOrDevice(d, s, via)
    /\ IsDirect(s)
    /\ calls[s].phase = "ringing"
    /\ Owner[d] = calls[s].starter
    /\ End(s)

EndCall(d, s, call, via) ==
    /\ Participates(d, s, call, via)
    /\ SameKeyOrDevice(d, s, via)
    /\ IsDirect(s)
    /\ End(s)

\* A pending invitation is left as it is, so that a retry cannot ring twice.
MayRing(room, i) == ~Pending(room, i)

Invite(d, s, call, via, to) ==
    LET room == calls[s] IN
    /\ Participates(d, s, call, via)
    /\ SameKeyOrDevice(d, s, via)
    /\ ~IsDirect(s)
    /\ to # Owner[d]
    /\ to \notin DOMAIN room.peers
    /\ to \in Members[head[s]]
    /\ \E e \in Callers[head[s]] : Owner[e] = to
    /\ MayRing(room, to)
    /\ ids < MaxIds
    /\ calls' = [calls EXCEPT ![s].invitations = PutKey(@, to, NewInvitation)]
    /\ ids' = ids + 1
    /\ UNCHANGED <<clock, head, signals>>

Leave(d, s, call, via) ==
    LET room == calls[s]
        rest == DropKey(room.peers, Owner[d])
    IN /\ Participates(d, s, call, via)
       /\ SameKeyOrDevice(d, s, via)
       /\ IF IsDirect(s) \/ DOMAIN rest = {}
          THEN End(s)
          ELSE /\ room.epoch < MaxEpoch
               /\ Change(s, [room EXCEPT !.peers = rest,
                                         !.epoch = NextEpoch(room, rest)])

\* Heartbeat and ConnectMedia.
Heartbeat(d, s, call, via) ==
    /\ Participates(d, s, call, via)
    /\ SameKey(d, s, via)
    /\ Change(s, [calls[s] EXCEPT !.peers[Owner[d]].seen = clock])

\* The others who already publish a camera or a screen.
OthersWith(room, i, kind) == {j \in DOMAIN room.peers \ {i} : room.peers[j][kind]}

WithinLimits(room, i, video, screen) ==
    /\ video => Cardinality(OthersWith(room, i, "video")) < MaxCameras
    /\ screen => Cardinality(OthersWith(room, i, "screen")) < MaxScreens

Media(d, s, call, via, video, screen) ==
    /\ Participates(d, s, call, via)
    /\ SameKeyOrDevice(d, s, via)
    /\ WithinLimits(calls[s], Owner[d], video, screen)
    /\ Change(s, [calls[s] EXCEPT !.peers[Owner[d]].video = video,
                                  !.peers[Owner[d]].screen = screen,
                                  !.peers[Owner[d]].seen = clock])

-----------------------------------------------------------------------------
(* Signals.                                                                 *)

\* The field `peers` is a history field: who was in the call at the time.
Signal(d, s, call, via, to) ==
    LET room == calls[s] IN
    /\ Participates(d, s, call, via)
    /\ SameKey(d, s, via)
    /\ to # d
    /\ IsParticipant(room, to)
    /\ Cardinality(signals) < MaxSignals
    /\ signals' = signals \cup
         {[scope |-> s, call |-> call, epoch |-> room.epoch, from |-> d,
           to |-> to, peers |-> PeersOf(room)]}
    /\ UNCHANGED <<clock, head, calls, ids>>

\* What the connection of the recipient checks before it forwards.
Forwards(m) ==
    /\ Open(m.scope)
    /\ calls[m.scope].id = m.call
    /\ calls[m.scope].epoch = m.epoch
    /\ IsParticipant(calls[m.scope], m.from)
    /\ IsParticipant(calls[m.scope], m.to)

\* A queued signal is forwarded, dropped as stale or lost with its connection.
Dequeue(m) ==
    /\ m \in signals
    /\ signals' = signals \ {m}
    /\ UNCHANGED <<clock, head, calls, ids>>

-----------------------------------------------------------------------------
(* What happens to a call without its participants.                         *)

\* Any command of a member, Subscribe included, ends a call that has rung out.
RingOut(d, s) ==
    /\ Open(s)
    /\ Authorized(d, s, Nothing)
    /\ RungOut(s, calls[s])
    /\ End(s)

\* Fault: the call survives its configuration.
ConfigurationKept(s, c) ==
    /\ c \in CallConfigs /\ c > head[s]
    /\ head' = [head EXCEPT ![s] = c]
    /\ UNCHANGED <<clock, calls, ids, signals>>

\* The engine admits a newer configuration: the call of the old one ends.
ConfigurationChanged(s, c) ==
    /\ c \in CallConfigs /\ c > head[s]
    /\ head' = [head EXCEPT ![s] = c]
    /\ calls' = IF Open(s) /\ calls[s].config # c THEN DropKey(calls, s) ELSE calls
    /\ UNCHANGED <<clock, ids, signals>>

\* The hosting service no longer admits a person, or their media cannot be
\* reconciled.
RevokeMember(s, i) ==
    /\ Open(s)
    /\ i \in DOMAIN calls[s].peers
    /\ End(s)

\* Whom the sweep keeps, and the call as it leaves it.
Survivors(room) ==
    {i \in DOMAIN room.peers :
       /\ clock - room.peers[i].seen < ParticipantTtl
       /\ LET via == room.peers[i].via
          IN via # Nothing => clock < DelegationBody[via].expires}

Swept(room) ==
    LET alive == Survivors(room) IN
    [room EXCEPT
       !.peers = Keep(@, alive),
       !.invitations = Keep(@, {i \in DOMAIN @ : @[i].expires > clock}),
       !.epoch = NextEpoch(room, Keep(room.peers, alive)),
       !.emptySince = IF alive = {} /\ @ = Nothing THEN clock ELSE @]

\* Fault: one of two may stay behind, or a call may last for ever.
Never(s, room) == FALSE

\* One side of a direct call is gone.
LeftByOne(s, room) == IsDirect(s) /\ Survivors(room) # DOMAIN room.peers

TooLong(s, room) == clock - room.startedAt >= MaxDuration

Expires(s, room) ==
    \/ RungOut(s, room)
    \/ LeftByOne(s, room)
    \/ TooLong(s, room)
    \/ LET since == Swept(room).emptySince
       IN since # Nothing /\ clock - since >= EmptyGrace

\* `tick`, of the maintenance loop and of a state request.
MaintainCalls ==
    /\ calls' = [s \in {t \in DOMAIN calls : ~Expires(t, calls[t])} |->
                   Swept(calls[s])]
    /\ UNCHANGED <<clock, head, ids, signals>>

\* When maintenance itself fails, tick(u64::MAX) ends every call.
MaintainFailed ==
    /\ calls' = NoEntries
    /\ UNCHANGED <<clock, head, ids, signals>>

CallClock ==
    /\ clock < MaxCallTime
    /\ clock' = clock + 1
    /\ UNCHANGED <<head, calls, ids, signals>>

-----------------------------------------------------------------------------
CallsInit ==
    /\ clock = 0
    /\ head \in [CallScopes -> {c \in CallConfigs : \A e \in CallConfigs : c =< e}]
    /\ calls = NoEntries
    /\ ids = 0
    /\ signals = {}

Keys == Delegations \cup {Nothing}

Ids == 1..ids

Command(d, s) ==
    \/ Start(d, s)
    \/ RingOut(d, s)
    \/ \E call \in Ids, via \in Keys :
         \/ \E invitation \in Ids \cup {Nothing} : Join(d, s, call, via, invitation)
         \/ \E invitation \in Ids : Decline(d, s, call, via, invitation)
         \/ Cancel(d, s, call, via)
         \/ EndCall(d, s, call, via)
         \/ \E to \in Identities : Invite(d, s, call, via, to)
         \/ Leave(d, s, call, via)
         \/ Heartbeat(d, s, call, via)
         \/ \E video, screen \in BOOLEAN : Media(d, s, call, via, video, screen)
         \/ \E to \in Devices : Signal(d, s, call, via, to)

CallsNext ==
    \/ \E s \in CallScopes : \E d \in Devices : Command(d, s)
    \/ \E m \in signals : Dequeue(m)
    \/ \E s \in CallScopes, c \in CallConfigs : ConfigurationChanged(s, c)
    \/ \E s \in CallScopes, i \in Identities : RevokeMember(s, i)
    \/ MaintainCalls
    \/ MaintainFailed
    \/ CallClock

CallsSpec == CallsInit /\ [][CallsNext]_callVars

\* Time passes, and the service runs `maintain` every second (main.rs).
CallsFairness == WF_callVars(CallClock) /\ WF_callVars(MaintainCalls)

-----------------------------------------------------------------------------
(* Properties.                                                              *)

Peer == [device : Devices, video : BOOLEAN, screen : BOOLEAN, seen : Nat,
         via : Keys, accepted : Nat \cup {Nothing}]

Invitation == [id : Nat, expires : Nat]

SignalRecord == [scope : CallScopes, call : Nat, epoch : Nat, from : Devices,
                 to : Devices, peers : SUBSET (Devices \X Keys)]

\* Every variable has its type (the structs of registry.rs).
CallsTypeOK ==
    /\ clock \in Nat
    /\ head \in [CallScopes -> CallConfigs]
    /\ DOMAIN calls \subseteq CallScopes
    /\ \A s \in DOMAIN calls :
         LET room == calls[s] IN
         /\ {room.id, room.startedAt, room.ringExpires, room.epoch} \subseteq Nat
         /\ room.starter \in Identities
         /\ room.phase \in {"ringing", "active"}
         /\ DOMAIN room.invitations \subseteq Identities
         /\ \A i \in DOMAIN room.invitations : room.invitations[i] \in Invitation
         /\ room.config \in CallConfigs
         /\ DOMAIN room.peers \subseteq Identities
         /\ \A i \in DOMAIN room.peers : room.peers[i] \in Peer
         /\ room.emptySince \in Nat \cup {Nothing}
    /\ ids \in Nat
    /\ signals \subseteq SignalRecord

\* A device is in at most one call of the whole service, and takes the place
\* of the person it belongs to (`ensure_free`, the participants map).
OneCallPerDevice ==
    \A s, t \in DOMAIN calls :
      \A i \in DOMAIN calls[s].peers, j \in DOMAIN calls[t].peers :
        /\ Owner[calls[s].peers[i].device] = i
        /\ calls[s].peers[i].device = calls[t].peers[j].device => s = t

\* Whoever is in a call may call under the configuration the scope is fenced
\* at, and a key that stands in for a device was issued by that device for
\* this conversation under this configuration: no member who was removed, and
\* no certificate of an older configuration, stays in a call
\* (`configuration_changed`, `delegation::verify`).
PeersAuthorized ==
    \A s \in DOMAIN calls : \A i \in DOMAIN calls[s].peers :
      LET peer == calls[s].peers[i] IN
      /\ peer.device \in Callers[head[s]]
      /\ peer.via # Nothing =>
           /\ DelegationBody[peer.via].device = peer.device
           /\ DelegationBody[peer.via].scope = s
           /\ DelegationBody[peer.via].config = head[s]

\* A direct call rings for the other member while the starter waits alone, and
\* once answered it holds both members until it ends: a hang-up, a lost
\* heartbeat or an expired key of one side never leaves the other behind.
DirectCallShape ==
    \A s \in DOMAIN calls \cap DirectScopes :
      LET room == calls[s]
          both == Members[head[s]]
      IN IF room.phase = "ringing"
         THEN /\ DOMAIN room.peers = {room.starter}
              /\ DOMAIN room.invitations = both \ {room.starter}
         ELSE /\ DOMAIN room.peers = both
              /\ DOMAIN room.invitations = {}

\* Nobody is rung for a call they are in, whichever way they came in
\* (Join with or without the invitation, Start on an open call).
RingsOnlyTheAbsent ==
    \A s \in DOMAIN calls : DOMAIN calls[s].invitations \cap DOMAIN calls[s].peers = {}

\* A signal that the recipient's connection would forward was sent while the
\* same devices, with the same keys, were in the call: negotiation from an
\* earlier media generation never reaches a device that left and came back.
SignalsStayInGeneration ==
    \A m \in signals : Forwards(m) => PeersOf(calls[m.scope]) = m.peers

\* No call has more participants, cameras or screens than the limits allow.
WithinCallLimits ==
    \A s \in DOMAIN calls :
      LET peers == calls[s].peers IN
      /\ Cardinality(DOMAIN peers) =< MaxParticipants
      /\ Cardinality({i \in DOMAIN peers : peers[i].video}) =< MaxCameras
      /\ Cardinality({i \in DOMAIN peers : peers[i].screen}) =< MaxScreens

SameCall(s) == /\ s \in DOMAIN calls \cap DOMAIN calls'
               /\ calls[s].id = calls'[s].id

\* A pending invitation is never extended or replaced, by retries of Invite or anything
\* else, as long as its call goes on.
RingsUntilItsEnd(s) ==
    /\ calls'[s].ringExpires = calls[s].ringExpires
    /\ \A i \in DOMAIN calls[s].invitations \cap DOMAIN calls'[s].invitations :
         \/ calls'[s].invitations[i] = calls[s].invitations[i]
         \/ calls[s].invitations[i].expires =< clock

\* A direct call is answered, and an invitation is accepted, only while it
\* still rings: an answer that arrives late loses against the timeout, and
\* only the invitation of this very ringing can be accepted.
AnsweredInTime(s) ==
    /\ calls[s].phase = "ringing" /\ calls'[s].phase = "active"
         => clock < calls[s].ringExpires
    /\ \A i \in DOMAIN calls'[s].peers :
         LET accepted == calls'[s].peers[i].accepted IN
         \/ accepted = Nothing
         \/ /\ i \in DOMAIN calls[s].peers
            /\ calls[s].peers[i].accepted = accepted
         \/ /\ i \in DOMAIN calls[s].invitations
            /\ calls[s].invitations[i].id = accepted
            /\ clock < calls[s].invitations[i].expires

\* Ringing has one window: neither a retried Invite nor a late answer moves it.
AnswersAreTimely ==
    [][\A s \in CallScopes : SameCall(s) => RingsUntilItsEnd(s) /\ AnsweredInTime(s)]_callVars

\* Whoever is in a call is there once, for the person the device belongs to and by the
\* configuration in force; a direct call holds both sides or rings for one.
CallsSound ==
    /\ CallsTypeOK
    /\ OneCallPerDevice
    /\ PeersAuthorized
    /\ DirectCallShape

\* A group call rings only for those who are not in it, within its limits.
GroupCallSound == RingsOnlyTheAbsent /\ WithinCallLimits

\* Every call ends, even one whose participants never stop their heartbeats.
CallsEnd ==
    \A s \in CallScopes, n \in 1..MaxIds :
      (Open(s) /\ calls[s].id = n) ~> ~(Open(s) /\ calls[s].id = n)
=============================================================================
