------------------------- MODULE CallRegistryProofs -------------------------
(***************************************************************************)
(* Theorems about CallRegistry, for any people, devices, configurations,   *)
(* certificates and limits.                                                *)
(*                                                                         *)
(* Most of the invariant is about one call at a time, so it is stated for  *)
(* any record that may be a call (RoomInv), and each operation has a lemma *)
(* about the call it leaves.  Two facts relate calls to each other and to  *)
(* the signals that wait: a device is in one call, and the key epoch of a  *)
(* call determines who is in it.                                           *)
(***************************************************************************)
EXTENDS CallRegistry, FiniteSetTheorems, TLAPS

-----------------------------------------------------------------------------
(* The inductive invariant.                                                 *)

Partial(S, T) == UNION {[A -> T] : A \in SUBSET S}

Room == [id : Nat, startedAt : Nat, starter : Identities, phase : {"ringing", "active"},
         ringExpires : Nat, invitations : Partial(Identities, Invitation),
         config : CallConfigs, peers : Partial(Identities, Peer), epoch : Nat,
         emptySince : Nat \cup {Nothing}]

\* Everyone in the call is there for themselves and by the configuration h.
PeersSound(h, s, peers) ==
    \A i \in DOMAIN peers :
      /\ Owner[peers[i].device] = i
      /\ peers[i].device \in Callers[h]
      /\ peers[i].via # Nothing =>
           /\ DelegationBody[peers[i].via].device = peers[i].device
           /\ DelegationBody[peers[i].via].scope = s
           /\ DelegationBody[peers[i].via].config = h

\* The invitations of a direct call end with its ringing window, so that a sweep before
\* that keeps them all.
DirectSound(h, s, room) ==
    s \in DirectScopes =>
      /\ Cardinality(Members[h]) = 2
      /\ room.starter \in Members[h]
      /\ room.phase = "ringing" =>
           /\ DOMAIN room.peers = {room.starter}
           /\ DOMAIN room.invitations = Members[h] \ {room.starter}
           /\ \A i \in DOMAIN room.invitations :
                room.invitations[i].expires = room.ringExpires
      /\ room.phase # "ringing" =>
           /\ DOMAIN room.peers = Members[h]
           /\ DOMAIN room.invitations = {}

Absent(room) == DOMAIN room.invitations \cap DOMAIN room.peers = {}

Limited(peers) ==
    /\ Cardinality(DOMAIN peers) =< MaxParticipants
    /\ Cardinality({i \in DOMAIN peers : peers[i].video}) =< MaxCameras
    /\ Cardinality({i \in DOMAIN peers : peers[i].screen}) =< MaxScreens

\* A call of scope s under the configuration h, when n ids have been drawn.
RoomInv(h, n, s, room) ==
    /\ room \in Room
    /\ room.config = h
    /\ room.id =< n
    /\ PeersSound(h, s, room.peers)
    /\ DirectSound(h, s, room)
    /\ Absent(room)
    /\ Limited(room.peers)

\* A call goes on: the epoch grows whenever somebody comes or goes.
Later(room, next) ==
    /\ next.id = room.id
    /\ room.epoch =< next.epoch
    /\ next.epoch = room.epoch => PeersOf(next) = PeersOf(room)

Apart(r, q) ==
    \A i \in DOMAIN r.peers, j \in DOMAIN q.peers : r.peers[i].device # q.peers[j].device

SignalSound(m) ==
    /\ m.call =< ids
    /\ m.scope \in DOMAIN calls /\ calls[m.scope].id = m.call =>
         /\ m.epoch =< calls[m.scope].epoch
         /\ m.epoch = calls[m.scope].epoch => PeersOf(calls[m.scope]) = m.peers

CallsInv ==
    /\ clock \in Nat
    /\ ids \in Nat
    /\ head \in [CallScopes -> CallConfigs]
    /\ calls \in Partial(CallScopes, Room)
    /\ \A s \in DOMAIN calls : RoomInv(head[s], ids, s, calls[s])
    /\ \A s, t \in DOMAIN calls : s # t => Apart(calls[s], calls[t])
    /\ signals \subseteq SignalRecord
    /\ \A m \in signals : SignalSound(m)

-----------------------------------------------------------------------------
(* Functions and finite sets.                                               *)

LEMMA PartialIntro ==
    ASSUME NEW S, NEW T, NEW A, A \subseteq S, NEW f, f \in [A -> T]
    PROVE  f \in Partial(S, T)
BY DEF Partial

LEMMA PartialElim ==
    ASSUME NEW S, NEW T, NEW f \in Partial(S, T)
    PROVE  DOMAIN f \subseteq S /\ f \in [DOMAIN f -> T]
BY DEF Partial

LEMMA PutPartial ==
    ASSUME NEW S, NEW T, NEW f \in Partial(S, T), NEW k \in S, NEW v \in T
    PROVE  PutKey(f, k, v) \in Partial(S, T)
<1>1. DOMAIN f \subseteq S /\ f \in [DOMAIN f -> T]
  BY PartialElim
<1>2. PutKey(f, k, v) \in [DOMAIN f \cup {k} -> T]
  BY <1>1 DEF PutKey
<1>3. DOMAIN f \cup {k} \subseteq S
  BY <1>1
<1> QED
  BY <1>2, <1>3, PartialIntro

LEMMA KeepPartial ==
    ASSUME NEW S, NEW T, NEW f \in Partial(S, T), NEW A
    PROVE  Keep(f, A) \in Partial(S, T)
<1>1. DOMAIN f \subseteq S /\ f \in [DOMAIN f -> T]
  BY PartialElim
<1>2. Keep(f, A) \in [DOMAIN f \cap A -> T]
  BY <1>1 DEF Keep
<1>3. DOMAIN f \cap A \subseteq S
  BY <1>1
<1> QED
  BY <1>2, <1>3, PartialIntro

LEMMA DropPartial ==
    ASSUME NEW S, NEW T, NEW f \in Partial(S, T), NEW k
    PROVE  DropKey(f, k) \in Partial(S, T)
<1>1. DOMAIN f \subseteq S /\ f \in [DOMAIN f -> T]
  BY PartialElim
<1>2. DropKey(f, k) \in [DOMAIN f \ {k} -> T]
  BY <1>1 DEF DropKey
<1>3. DOMAIN f \ {k} \subseteq S
  BY <1>1
<1> QED
  BY <1>2, <1>3, PartialIntro

LEMMA EmptyPartial ==
    ASSUME NEW S, NEW T
    PROVE  NoEntries \in Partial(S, T) /\ DOMAIN NoEntries = {}
<1>1. NoEntries \in [{} -> T]
  BY DEF NoEntries
<1> QED
  BY <1>1, PartialIntro DEF NoEntries

\* A pair is the whole of a set of two.
LEMMA PairIsAll ==
    ASSUME NEW S, IsFiniteSet(S), Cardinality(S) = 2, NEW a \in S, NEW b \in S, a # b
    PROVE  S = {a, b}
<1>1. {a, b} \subseteq S
  OBVIOUS
<1>2. IsFiniteSet({a}) /\ Cardinality({a}) = 1
  BY FS_Singleton
<1>3. ASSUME NEW A, A = {a}
      PROVE  Cardinality(A \cup {b}) = 2
  <2>1. IsFiniteSet(A) /\ Cardinality(A) = 1 /\ b \notin A
    BY <1>2, <1>3
  <2>2. Cardinality(A \cup {b}) = Cardinality(A) + 1
    BY <2>1, FS_AddElement
  <2> QED
    BY <2>1, <2>2
<1>4. Cardinality({a, b}) = 2
  <2>1. {a} \cup {b} = {a, b}
    OBVIOUS
  <2> QED
    BY <1>3, <2>1
<1> QED
  BY <1>1, <1>4, FS_Subset

LEMMA FiniteParts ==
    ASSUME NEW S, S \subseteq Identities
    PROVE  IsFiniteSet(S) /\ Cardinality(S) \in Nat
BY CallAssumption, FS_Subset, FS_CardinalityType

LEMMA FewerParts ==
    ASSUME NEW S, S \subseteq Identities, NEW R, R \subseteq S
    PROVE  Cardinality(R) =< Cardinality(S)
BY FiniteParts, FS_Subset

LEMMA OneMore ==
    ASSUME NEW S, S \subseteq Identities, NEW i \in Identities, NEW R, R \subseteq S \cup {i}
    PROVE  Cardinality(R) =< Cardinality(S) + 1
<1>1. IsFiniteSet(S) /\ Cardinality(S) \in Nat
  BY FiniteParts
<1>2. Cardinality(S \cup {i}) =< Cardinality(S) + 1
  BY <1>1, FS_AddElement
<1>3. S \cup {i} \subseteq Identities
  OBVIOUS
<1>4. Cardinality(R) =< Cardinality(S \cup {i})
  BY <1>3, FewerParts
<1>5. Cardinality(R) \in Nat /\ Cardinality(S \cup {i}) \in Nat
  BY <1>3, FiniteParts
<1> QED
  BY <1>1, <1>2, <1>4, <1>5

-----------------------------------------------------------------------------
(* One call.                                                                *)

LEMMA RoomFacts ==
    ASSUME NEW room \in Room
    PROVE  /\ DOMAIN room.peers \subseteq Identities
           /\ room.peers \in [DOMAIN room.peers -> Peer]
           /\ DOMAIN room.invitations \subseteq Identities
           /\ room.invitations \in [DOMAIN room.invitations -> Invitation]
           /\ room.id \in Nat /\ room.epoch \in Nat
BY PartialElim DEF Room

\* Somebody comes or goes, and the epoch shows it.
LEMMA EpochTells ==
    ASSUME NEW room \in Room, NEW next \in Room, next.id = room.id,
           next.epoch = NextEpoch(room, next.peers),
           DOMAIN next.peers = DOMAIN room.peers =>
             \A i \in DOMAIN room.peers : /\ next.peers[i].device = room.peers[i].device
                                         /\ next.peers[i].via = room.peers[i].via
    PROVE  Later(room, next)
<1>1. room.epoch \in Nat
  BY DEF Room
<1>2. CASE DOMAIN next.peers # DOMAIN room.peers
  BY <1>1, <1>2 DEF NextEpoch, Later
<1>3. CASE DOMAIN next.peers = DOMAIN room.peers
  <2>1. next.epoch = room.epoch
    BY <1>3 DEF NextEpoch
  <2>2. PeersOf(next) = PeersOf(room)
    BY <1>3 DEF PeersOf
  <2> QED
    BY <1>1, <2>1, <2>2 DEF Later
<1> QED
  BY <1>2, <1>3

LEMMA NewRoomSound ==
    ASSUME CallsInv, NEW d \in Devices, NEW s \in CallScopes,
           Authorized(d, s, Nothing),
           IsDirect(s) => Cardinality(Members[head[s]]) = 2
    PROVE  RoomInv(head[s], ids + 1, s, NewRoom(d, s))
<1> DEFINE h == head[s]
           o == Owner[d]
           room == NewRoom(d, s)
<1>1. /\ h \in CallConfigs /\ o \in Identities /\ d \in Callers[h] /\ o \in Members[h]
      /\ Members[h] \subseteq Identities
      /\ clock \in Nat /\ ids \in Nat /\ clock + RingTtl \in Nat
  <2>1. h \in CallConfigs /\ clock \in Nat /\ ids \in Nat
    BY DEF CallsInv
  <2>2. o \in Identities /\ Members[h] \subseteq Identities
    BY <2>1, CallAssumption
  <2>3. d \in Callers[h]
    BY DEF Authorized
  <2>4. o \in Members[h]
    BY <2>1, <2>3, CallAssumption
  <2>5. clock + RingTtl \in Nat
    BY <2>1, LimitAssumption
  <2> QED
    BY <2>1, <2>2, <2>3, <2>4, <2>5
<1>2. Newcomer(d, Nothing) \in Peer
  BY <1>1 DEF Newcomer, Peer, Keys
<1>3. room.peers \in Partial(Identities, Peer)
  <2>1. [i \in {o} |-> Newcomer(d, Nothing)] \in [{o} -> Peer]
    BY <1>2
  <2> QED
    BY <1>1, <2>1, PartialIntro DEF NewRoom
<1>4. NewInvitation \in Invitation /\ NewInvitation.expires = clock + RingTtl
  BY <1>1 DEF NewInvitation, Invitation
<1>5. room.invitations \in Partial(Identities, Invitation)
  <2>1. [i \in Members[h] \ {o} |-> NewInvitation] \in [Members[h] \ {o} -> Invitation]
    BY <1>4
  <2>2. [i \in Members[h] \ {o} |-> NewInvitation] \in Partial(Identities, Invitation)
    BY <1>1, <2>1, PartialIntro
  <2> QED
    BY <2>2, EmptyPartial DEF NewRoom
<1>6. room \in Room
  BY <1>1, <1>3, <1>5 DEF Room, NewRoom
<1>7. PeersSound(h, s, room.peers)
  BY <1>1 DEF PeersSound, NewRoom, Newcomer
<1>8. DirectSound(h, s, room)
  BY <1>1, <1>4 DEF DirectSound, NewRoom, IsDirect
<1>9. Absent(room)
  BY EmptyPartial DEF Absent, NewRoom
<1>10. Limited(room.peers)
  <2>1. Cardinality({o}) = 1 /\ Cardinality({}) = 0
    BY FS_Singleton, FS_EmptySet
  <2>2. DOMAIN room.peers = {o}
    BY DEF NewRoom
  <2>3. {i \in DOMAIN room.peers : room.peers[i].video} = {}
    BY DEF NewRoom, Newcomer
  <2>4. {i \in DOMAIN room.peers : room.peers[i].screen} = {}
    BY DEF NewRoom, Newcomer
  <2> QED
    BY <2>1, <2>2, <2>3, <2>4, LimitAssumption DEF Limited
<1> QED
  BY <1>1, <1>6, <1>7, <1>8, <1>9, <1>10 DEF RoomInv, NewRoom

-----------------------------------------------------------------------------
(* What a command does to the call it acts on.                              *)

\* Nobody is in the call with a device that was not in it before.
Brings(room, next) ==
    \A i \in DOMAIN next.peers :
      i \in DOMAIN room.peers /\ next.peers[i].device = room.peers[i].device

\* The ringing of a call has one window, and an answer falls into it.
Timely(room, next) ==
    /\ next.ringExpires = room.ringExpires
    /\ \A i \in DOMAIN room.invitations \cap DOMAIN next.invitations :
         \/ next.invitations[i] = room.invitations[i]
         \/ room.invitations[i].expires =< clock
    /\ room.phase = "ringing" /\ next.phase = "active" => clock < room.ringExpires
    /\ \A i \in DOMAIN next.peers :
         \/ next.peers[i].accepted = Nothing
         \/ /\ i \in DOMAIN room.peers
            /\ room.peers[i].accepted = next.peers[i].accepted
         \/ /\ i \in DOMAIN room.invitations
            /\ room.invitations[i].id = next.peers[i].accepted
            /\ clock < room.invitations[i].expires

LEMMA EnteredPeers ==
    ASSUME NEW room \in Room, NEW d \in Devices, NEW s, NEW via \in Keys, clock \in Nat,
           NEW invitation \in Nat \cup {Nothing}, CanEnter(room, d, invitation)
    PROVE  LET next == Entered(s, room, d, via, invitation)
               i    == Owner[d]
           IN /\ next.peers \in Partial(Identities, Peer)
              /\ DOMAIN next.peers = DOMAIN room.peers \cup {i}
              /\ \A j \in DOMAIN room.peers \ {i} : next.peers[j] = room.peers[j]
              /\ next.peers[i].device = d
              /\ IF i \in DOMAIN room.peers
                 THEN /\ room.peers[i].device = d
                      /\ next.peers[i].video = room.peers[i].video
                      /\ next.peers[i].screen = room.peers[i].screen
                      /\ next.peers[i].via = room.peers[i].via
                 ELSE /\ ~next.peers[i].video /\ ~next.peers[i].screen
                      /\ next.peers[i].via = via
              /\ \/ next.peers[i].accepted = Nothing
                 \/ /\ i \in DOMAIN room.peers
                    /\ room.peers[i].accepted = next.peers[i].accepted
                 \/ Accepts(room, i, next.peers[i].accepted)
<1> DEFINE i    == Owner[d]
           peer == IF i \in DOMAIN room.peers
                   THEN [room.peers[i] EXCEPT !.seen = clock]
                   ELSE Newcomer(d, via)
           come == IF invitation = Nothing THEN peer
                   ELSE [peer EXCEPT !.accepted = invitation]
           next == Entered(s, room, d, via, invitation)
<1>1. i \in Identities
  BY CallAssumption
<1>2. room.peers \in Partial(Identities, Peer) /\ room.peers \in [DOMAIN room.peers -> Peer]
  BY RoomFacts DEF Room
<1>3. /\ peer \in Peer /\ peer.device = d
      /\ IF i \in DOMAIN room.peers
         THEN /\ room.peers[i].device = d
              /\ peer.video = room.peers[i].video
              /\ peer.screen = room.peers[i].screen
              /\ peer.via = room.peers[i].via
              /\ peer.accepted = room.peers[i].accepted
         ELSE ~peer.video /\ ~peer.screen /\ peer.via = via /\ peer.accepted = Nothing
  <2>1. CASE i \in DOMAIN room.peers
    <3>1. room.peers[i] \in Peer /\ room.peers[i].device = d
      BY <1>2, <2>1 DEF CanEnter
    <3> QED
      BY <2>1, <3>1 DEF Peer
  <2>2. CASE i \notin DOMAIN room.peers
    BY <2>2 DEF Peer, Newcomer
  <2> QED
    BY <2>1, <2>2
<1>4. /\ come \in Peer /\ come.device = d /\ come.video = peer.video
      /\ come.screen = peer.screen /\ come.via = peer.via
      /\ come.accepted = IF invitation = Nothing THEN peer.accepted ELSE invitation
  <2> HIDE DEF peer
  <2> QED
    BY <1>3 DEF Peer
<1>5. next.peers = PutKey(room.peers, i, come)
  BY DEF Entered, Room
<1> HIDE DEF peer, come, next
<1>6. /\ next.peers \in Partial(Identities, Peer)
      /\ DOMAIN next.peers = DOMAIN room.peers \cup {i}
      /\ next.peers[i] = come
      /\ \A j \in DOMAIN room.peers \ {i} : next.peers[j] = room.peers[j]
  <2> HIDE DEF i
  <2>1. room.peers \in Partial(Identities, Peer) /\ come \in Peer
    BY <1>2, <1>4
  <2>2. next.peers \in Partial(Identities, Peer)
    BY <1>1, <2>1, <1>5, PutPartial
  <2> QED
    BY <2>2, <1>5 DEF PutKey
<1>7. \/ come.accepted = Nothing
      \/ /\ i \in DOMAIN room.peers
         /\ room.peers[i].accepted = come.accepted
      \/ Accepts(room, i, come.accepted)
  BY <1>3, <1>4 DEF CanEnter, IsParticipant
<1> QED
  BY <1>3, <1>4, <1>6, <1>7 DEF next

LEMMA MembersFinite ==
    ASSUME NEW h \in CallConfigs
    PROVE  Members[h] \subseteq Identities /\ IsFiniteSet(Members[h])
BY CallAssumption, FiniteParts

LEMMA EnteredRoom ==
    ASSUME NEW h \in CallConfigs, NEW n \in Nat, NEW s \in CallScopes, NEW room,
           RoomInv(h, n, s, room), clock \in Nat,
           NEW d \in Devices, NEW via \in Keys, NEW invitation \in Nat \cup {Nothing},
           d \in Callers[h],
           via # Nothing => /\ DelegationBody[via].device = d
                            /\ DelegationBody[via].scope = s
                            /\ DelegationBody[via].config = h,
           ~RungOut(s, room), CanEnter(room, d, invitation)
    PROVE  LET next == Entered(s, room, d, via, invitation)
           IN /\ RoomInv(h, n, s, next)
              /\ Later(room, next)
              /\ Timely(room, next)
              /\ \A j \in DOMAIN next.peers :
                   \/ next.peers[j].device = d
                   \/ j \in DOMAIN room.peers /\ next.peers[j].device = room.peers[j].device
<1> DEFINE i    == Owner[d]
           next == Entered(s, room, d, via, invitation)
<1>1. /\ room \in Room /\ room.config = h /\ room.id =< n
      /\ PeersSound(h, s, room.peers) /\ DirectSound(h, s, room)
      /\ Absent(room) /\ Limited(room.peers)
  BY DEF RoomInv
<1>2. i \in Identities /\ i \in Members[h] /\ room.epoch \in Nat
  BY <1>1, RoomFacts, CallAssumption
<1>3. /\ next.peers \in Partial(Identities, Peer)
      /\ DOMAIN next.peers = DOMAIN room.peers \cup {i}
      /\ \A j \in DOMAIN room.peers \ {i} : next.peers[j] = room.peers[j]
      /\ next.peers[i].device = d
      /\ IF i \in DOMAIN room.peers
         THEN /\ room.peers[i].device = d
              /\ next.peers[i].video = room.peers[i].video
              /\ next.peers[i].screen = room.peers[i].screen
              /\ next.peers[i].via = room.peers[i].via
         ELSE /\ ~next.peers[i].video /\ ~next.peers[i].screen
              /\ next.peers[i].via = via
      /\ \/ next.peers[i].accepted = Nothing
         \/ /\ i \in DOMAIN room.peers
            /\ room.peers[i].accepted = next.peers[i].accepted
         \/ Accepts(room, i, next.peers[i].accepted)
  BY <1>1, EnteredPeers
<1>4. /\ next.id = room.id /\ next.startedAt = room.startedAt /\ next.starter = room.starter
      /\ next.ringExpires = room.ringExpires /\ next.config = room.config
      /\ next.epoch = NextEpoch(room, next.peers)
      /\ next.phase = IF Answers(s, room, i) THEN "active" ELSE room.phase
      /\ next.invitations = RingingWithout(s, room, i)
      /\ next.emptySince = Nothing
  BY <1>1 DEF Entered, Room
<1>5. /\ next.invitations \in Partial(Identities, Invitation)
      /\ DOMAIN next.invitations \subseteq DOMAIN room.invitations \ {i}
      /\ \A j \in DOMAIN next.invitations : next.invitations[j] = room.invitations[j]
  <2>1. room.invitations \in Partial(Identities, Invitation)
    BY <1>1 DEF Room
  <2>2. DropKey(room.invitations, i) \in Partial(Identities, Invitation)
    BY <2>1, DropPartial
  <2>3. NoEntries \in Partial(Identities, Invitation) /\ DOMAIN NoEntries = {}
    BY EmptyPartial
  <2> QED
    BY <1>4, <2>2, <2>3 DEF RingingWithout, DropKey
<1>6. next \in Room
  <2>1. next.epoch \in Nat
    BY <1>2, <1>4 DEF NextEpoch
  <2>2. next.phase \in {"ringing", "active"}
    BY <1>1, <1>4 DEF Room
  <2>3. next = [room EXCEPT !.peers = next.peers, !.epoch = next.epoch,
                            !.phase = next.phase, !.invitations = next.invitations,
                            !.emptySince = Nothing]
    BY <1>1 DEF Entered, Room
  <2> HIDE DEF next
  <2> QED
    BY <1>1, <1>3, <1>5, <2>1, <2>2, <2>3 DEF Room
<1> HIDE DEF next
<1>7. PeersSound(h, s, next.peers)
  BY <1>1, <1>3 DEF PeersSound
<1>8. DirectSound(h, s, next)
  <2> SUFFICES ASSUME s \in DirectScopes
               PROVE  DirectSound(h, s, next)
    BY DEF DirectSound
  <2>1. Cardinality(Members[h]) = 2 /\ room.starter \in Members[h]
    BY <1>1 DEF DirectSound
  <2>2. CASE room.phase = "ringing" /\ i # room.starter
    <3>1. DOMAIN room.peers = {room.starter}
      BY <1>1, <2>2 DEF DirectSound
    <3>2. next.phase = "active" /\ DOMAIN next.invitations = {}
      BY <1>4, <2>2, EmptyPartial DEF Answers, IsDirect, RingingWithout
    <3>3. Members[h] = {room.starter, i}
      BY <1>2, <2>1, <2>2, MembersFinite, PairIsAll
    <3> QED
      BY <1>3, <1>4, <2>1, <3>1, <3>2, <3>3 DEF DirectSound
  <2>3. CASE room.phase = "ringing" /\ i = room.starter
    <3>1. /\ DOMAIN room.peers = {room.starter}
          /\ DOMAIN room.invitations = Members[h] \ {room.starter}
          /\ \A j \in DOMAIN room.invitations :
               room.invitations[j].expires = room.ringExpires
      BY <1>1, <2>3 DEF DirectSound
    <3>2. next.phase = "ringing" /\ next.invitations = DropKey(room.invitations, i)
      BY <1>4, <2>3 DEF Answers, RingingWithout
    <3>3. DOMAIN next.invitations = DOMAIN room.invitations
      BY <2>3, <3>1, <3>2 DEF DropKey
    <3> QED
      BY <1>3, <1>4, <1>5, <2>1, <2>3, <3>1, <3>2, <3>3 DEF DirectSound
  <2>4. CASE room.phase # "ringing"
    <3>1. DOMAIN room.peers = Members[h] /\ DOMAIN room.invitations = {}
      BY <1>1, <2>4 DEF DirectSound
    <3>2. next.phase # "ringing" /\ DOMAIN next.peers = Members[h]
      BY <1>2, <1>3, <1>4, <2>4, <3>1
    <3> QED
      BY <1>4, <1>5, <2>1, <3>1, <3>2 DEF DirectSound
  <2> QED
    BY <2>2, <2>3, <2>4
<1>9. Absent(next)
  BY <1>1, <1>3, <1>5 DEF Absent
<1>10. Limited(next.peers)
  <2>1. /\ {j \in DOMAIN next.peers : next.peers[j].video}
             = {j \in DOMAIN room.peers : room.peers[j].video}
        /\ {j \in DOMAIN next.peers : next.peers[j].screen}
             = {j \in DOMAIN room.peers : room.peers[j].screen}
    BY <1>3
  <2>2. Cardinality(DOMAIN next.peers) =< MaxParticipants
    <3>1. CASE i \in DOMAIN room.peers
      <4>1. DOMAIN next.peers = DOMAIN room.peers
        BY <1>3, <3>1
      <4> QED
        BY <1>1, <4>1 DEF Limited
    <3>2. CASE i \notin DOMAIN room.peers
      <4>1. DOMAIN room.peers \subseteq Identities
        BY <1>1, RoomFacts
      <4>2. Cardinality(DOMAIN room.peers) \in Nat /\ IsFiniteSet(DOMAIN room.peers)
        BY <4>1, FiniteParts
      <4>3. Cardinality(DOMAIN room.peers) < MaxParticipants
        BY <3>2 DEF CanEnter
      <4>4. Cardinality(DOMAIN next.peers) = Cardinality(DOMAIN room.peers) + 1
        BY <1>3, <3>2, <4>2, FS_AddElement
      <4> QED
        BY <4>2, <4>3, <4>4, LimitAssumption
    <3> QED
      BY <3>1, <3>2
  <2> QED
    BY <1>1, <2>1, <2>2 DEF Limited
<1>11. Later(room, next)
  <2>1. DOMAIN next.peers = DOMAIN room.peers =>
          \A j \in DOMAIN room.peers : /\ next.peers[j].device = room.peers[j].device
                                      /\ next.peers[j].via = room.peers[j].via
    BY <1>3
  <2> QED
    BY <1>1, <1>4, <1>6, <2>1, EpochTells
<1>12. Timely(room, next)
  <2>1. room.phase = "ringing" /\ next.phase = "active" => clock < room.ringExpires
    <3>1. room.ringExpires \in Nat
      BY <1>1 DEF Room
    <3> QED
      BY <1>4, <3>1 DEF Answers, RungOut
  <2>2. ASSUME NEW j \in DOMAIN next.peers
        PROVE  \/ next.peers[j].accepted = Nothing
               \/ /\ j \in DOMAIN room.peers
                  /\ room.peers[j].accepted = next.peers[j].accepted
               \/ /\ j \in DOMAIN room.invitations
                  /\ room.invitations[j].id = next.peers[j].accepted
                  /\ clock < room.invitations[j].expires
    <3>1. CASE j # i
      BY <1>3, <2>2, <3>1
    <3>2. CASE j = i
      <4>1. j \in DOMAIN room.invitations => room.invitations[j].expires \in Nat
        BY <1>1, RoomFacts DEF Invitation
      <4> QED
        BY <1>3, <3>2, <4>1 DEF Accepts, Pending
    <3> QED
      BY <3>1, <3>2
  <2>3. \A j \in DOMAIN room.invitations \cap DOMAIN next.invitations :
          next.invitations[j] = room.invitations[j]
    BY <1>5
  <2> QED
    BY <1>4, <2>1, <2>2, <2>3 DEF Timely
<1>13. RoomInv(h, n, s, next)
  BY <1>1, <1>4, <1>6, <1>7, <1>8, <1>9, <1>10 DEF RoomInv
<1> QED
  BY <1>3, <1>11, <1>12, <1>13 DEF next

\* A call that nobody joins: who stays keeps device and key, and a direct call keeps
\* both the participants and the ringing.
LEMMA NobodyJoins ==
    ASSUME NEW h, NEW n, NEW s, NEW room, RoomInv(h, n, s, room), NEW next \in Room,
           next.id = room.id, next.config = room.config, next.starter = room.starter,
           next.ringExpires = room.ringExpires, next.phase = room.phase,
           next.epoch = NextEpoch(room, next.peers),
           DOMAIN next.peers \subseteq DOMAIN room.peers,
           \A j \in DOMAIN next.peers : /\ next.peers[j].device = room.peers[j].device
                                       /\ next.peers[j].via = room.peers[j].via
                                       /\ next.peers[j].accepted = room.peers[j].accepted,
           \A j \in DOMAIN room.invitations \cap DOMAIN next.invitations :
             \/ next.invitations[j] = room.invitations[j]
             \/ room.invitations[j].expires =< clock,
           s \in DirectScopes => /\ DOMAIN next.peers = DOMAIN room.peers
                                 /\ next.invitations = room.invitations,
           Absent(next), Limited(next.peers)
    PROVE  RoomInv(h, n, s, next) /\ Later(room, next) /\ Timely(room, next)
           /\ Brings(room, next)
<1>1. /\ room \in Room /\ room.config = h /\ room.id =< n
      /\ PeersSound(h, s, room.peers) /\ DirectSound(h, s, room)
  BY DEF RoomInv
<1>2. PeersSound(h, s, next.peers)
  BY <1>1 DEF PeersSound
<1>3. DirectSound(h, s, next)
  BY <1>1 DEF DirectSound
<1>4. Later(room, next)
  BY <1>1, EpochTells
<1>5. Timely(room, next)
  BY DEF Timely
<1> QED
  BY <1>1, <1>2, <1>3, <1>4, <1>5 DEF RoomInv, Brings

LEMMA FewerAreWithinLimits ==
    ASSUME NEW room \in Room, NEW peers, Limited(room.peers),
           DOMAIN peers \subseteq DOMAIN room.peers,
           \A j \in DOMAIN peers : peers[j] = room.peers[j]
    PROVE  Limited(peers)
<1> DEFINE V(p) == {j \in DOMAIN p : p[j].video}
           W(p) == {j \in DOMAIN p : p[j].screen}
<1>1. DOMAIN room.peers \subseteq Identities
  BY RoomFacts
<1>2. V(peers) \subseteq V(room.peers) /\ V(room.peers) \subseteq Identities
  BY <1>1
<1>3. W(peers) \subseteq W(room.peers) /\ W(room.peers) \subseteq Identities
  BY <1>1
<1>4. /\ Cardinality(DOMAIN peers) =< Cardinality(DOMAIN room.peers)
      /\ Cardinality(DOMAIN peers) \in Nat /\ Cardinality(DOMAIN room.peers) \in Nat
  BY <1>1, FewerParts, FiniteParts
<1>5. /\ Cardinality(V(peers)) =< Cardinality(V(room.peers))
      /\ Cardinality(V(peers)) \in Nat /\ Cardinality(V(room.peers)) \in Nat
  <2> HIDE DEF V
  <2>1. V(peers) \subseteq Identities
    BY <1>2
  <2> QED
    BY <1>2, <2>1, FewerParts, FiniteParts
<1>6. /\ Cardinality(W(peers)) =< Cardinality(W(room.peers))
      /\ Cardinality(W(peers)) \in Nat /\ Cardinality(W(room.peers)) \in Nat
  <2> HIDE DEF W
  <2>1. W(peers) \subseteq Identities
    BY <1>3
  <2> QED
    BY <1>3, <2>1, FewerParts, FiniteParts
<1>7. /\ Cardinality(DOMAIN room.peers) =< MaxParticipants
      /\ Cardinality(V(room.peers)) =< MaxCameras
      /\ Cardinality(W(room.peers)) =< MaxScreens
  BY DEF Limited
<1>8. MaxParticipants \in Nat /\ MaxCameras \in Nat /\ MaxScreens \in Nat
  BY LimitAssumption
<1>9. /\ Cardinality(DOMAIN peers) =< MaxParticipants
      /\ Cardinality(V(peers)) =< MaxCameras
      /\ Cardinality(W(peers)) =< MaxScreens
  <2> HIDE DEF V, W
  <2> QED
    BY <1>4, <1>5, <1>6, <1>7, <1>8
<1> QED
  BY <1>9 DEF Limited

LEMMA SweptRoom ==
    ASSUME NEW h, NEW n, NEW s, NEW room, RoomInv(h, n, s, room), clock \in Nat,
           ~Expires(s, room)
    PROVE  LET next == Swept(room)
           IN RoomInv(h, n, s, next) /\ Later(room, next) /\ Timely(room, next)
              /\ Brings(room, next)
<1> DEFINE alive == Survivors(room)
           ring  == {i \in DOMAIN room.invitations : room.invitations[i].expires > clock}
           next  == Swept(room)
<1>1. room \in Room /\ DirectSound(h, s, room) /\ Absent(room) /\ Limited(room.peers)
  BY DEF RoomInv
<1>2. /\ next.id = room.id /\ next.config = room.config /\ next.starter = room.starter
      /\ next.startedAt = room.startedAt
      /\ next.ringExpires = room.ringExpires /\ next.phase = room.phase
      /\ next.peers = Keep(room.peers, alive)
      /\ next.invitations = Keep(room.invitations, ring)
      /\ next.epoch = NextEpoch(room, next.peers)
      /\ next.emptySince \in Nat \cup {Nothing}
  BY <1>1 DEF Swept, Room
<1>3. /\ alive \subseteq DOMAIN room.peers
      /\ DOMAIN next.peers = alive
      /\ \A j \in DOMAIN next.peers : next.peers[j] = room.peers[j]
  BY <1>2 DEF Keep, Survivors
<1>4. /\ DOMAIN next.invitations = ring
      /\ \A j \in DOMAIN next.invitations : next.invitations[j] = room.invitations[j]
  BY <1>2 DEF Keep
<1>5. next \in Room
  <2>1. room.peers \in Partial(Identities, Peer)
        /\ room.invitations \in Partial(Identities, Invitation)
    BY <1>1 DEF Room
  <2>2. next.peers \in Partial(Identities, Peer)
        /\ next.invitations \in Partial(Identities, Invitation)
    <3> HIDE DEF alive, ring, next
    <3> QED
      BY <1>2, <2>1, KeepPartial
  <2>3. next.epoch \in Nat
    BY <1>1, <1>2, RoomFacts DEF NextEpoch
  <2>4. next = [room EXCEPT !.peers = next.peers, !.invitations = next.invitations,
                            !.epoch = next.epoch, !.emptySince = next.emptySince]
    BY <1>1 DEF Swept, Room
  <2> HIDE DEF next
  <2> QED
    BY <1>1, <1>2, <2>2, <2>3, <2>4 DEF Room
<1>6. s \in DirectScopes => /\ DOMAIN next.peers = DOMAIN room.peers
                            /\ next.invitations = room.invitations
  <2> SUFFICES ASSUME s \in DirectScopes
               PROVE  /\ DOMAIN next.peers = DOMAIN room.peers
                      /\ next.invitations = room.invitations
    OBVIOUS
  <2>1. alive = DOMAIN room.peers
    BY DEF Expires, LeftByOne, IsDirect
  <2>2. ring = DOMAIN room.invitations
    <3>1. CASE room.phase = "ringing"
      <4>1. clock < room.ringExpires
        BY <1>1, <3>1 DEF Expires, RungOut, IsDirect, Room
      <4>2. \A j \in DOMAIN room.invitations :
              room.invitations[j].expires = room.ringExpires
        BY <1>1, <3>1 DEF DirectSound
      <4> QED
        BY <4>1, <4>2
    <3>2. CASE room.phase # "ringing"
      BY <1>1, <3>2 DEF DirectSound
    <3> QED
      BY <3>1, <3>2
  <2>3. room.invitations \in [DOMAIN room.invitations -> Invitation]
    BY <1>1, RoomFacts
  <2>4. next.invitations = room.invitations
    BY <1>2, <2>2, <2>3 DEF Keep
  <2> QED
    BY <1>3, <2>1, <2>4
<1>7. Absent(next)
  BY <1>1, <1>3, <1>4 DEF Absent
<1>8. Limited(next.peers)
  BY <1>1, <1>3, FewerAreWithinLimits
<1> HIDE DEF next, alive, ring
<1>9. RoomInv(h, n, s, next) /\ Later(room, next) /\ Timely(room, next)
      /\ Brings(room, next)
  BY <1>2, <1>3, <1>4, <1>5, <1>6, <1>7, <1>8, NobodyJoins
<1> QED
  BY <1>9 DEF next

LEMMA MoreIds ==
    ASSUME NEW h, NEW n \in Nat, NEW m \in Nat, n =< m, NEW s, NEW room, RoomInv(h, n, s, room)
    PROVE  RoomInv(h, m, s, room)
<1>1. room.id \in Nat
  BY DEF RoomInv, Room
<1> QED
  BY <1>1 DEF RoomInv

\* A group call that somebody leaves.
LEMMA LeftRoom ==
    ASSUME NEW h, NEW n, NEW s, NEW room, RoomInv(h, n, s, room), s \notin DirectScopes,
           NEW i
    PROVE  LET rest == DropKey(room.peers, i)
               next == [room EXCEPT !.peers = rest, !.epoch = NextEpoch(room, rest)]
           IN RoomInv(h, n, s, next) /\ Later(room, next) /\ Timely(room, next)
              /\ Brings(room, next)
<1> DEFINE rest == DropKey(room.peers, i)
           next == [room EXCEPT !.peers = rest, !.epoch = NextEpoch(room, rest)]
<1>1. room \in Room /\ Absent(room) /\ Limited(room.peers)
  BY DEF RoomInv
<1>2. /\ next.id = room.id /\ next.config = room.config /\ next.starter = room.starter
      /\ next.ringExpires = room.ringExpires /\ next.phase = room.phase
      /\ next.peers = rest /\ next.invitations = room.invitations
      /\ next.epoch = NextEpoch(room, next.peers)
  BY <1>1 DEF Room
<1>3. /\ DOMAIN rest = DOMAIN room.peers \ {i}
      /\ \A j \in DOMAIN rest : rest[j] = room.peers[j]
  BY DEF DropKey
<1>4. next \in Room
  <2>1. rest \in Partial(Identities, Peer)
    BY <1>1, DropPartial DEF Room
  <2>2. NextEpoch(room, rest) \in Nat
    BY <1>1, RoomFacts DEF NextEpoch
  <2> HIDE DEF rest
  <2> QED
    BY <1>1, <2>1, <2>2 DEF Room
<1> HIDE DEF rest
<1>5. Absent(next)
  BY <1>1, <1>2, <1>3 DEF Absent
<1>6. Limited(next.peers)
  BY <1>1, <1>2, <1>3, FewerAreWithinLimits
<1> HIDE DEF next
<1>7. RoomInv(h, n, s, next) /\ Later(room, next) /\ Timely(room, next)
      /\ Brings(room, next)
  BY <1>2, <1>3, <1>4, <1>5, <1>6, NobodyJoins
<1> QED
  BY <1>7 DEF next, rest

\* A group call whose ringing changes: one invitation is declined, or added where none
\* is pending.
LEMMA RingingRoom ==
    ASSUME NEW h, NEW n, NEW s, NEW room, RoomInv(h, n, s, room), s \notin DirectScopes,
           NEW ring \in Partial(Identities, Invitation),
           DOMAIN ring \cap DOMAIN room.peers = {},
           \A j \in DOMAIN room.invitations \cap DOMAIN ring :
             \/ ring[j] = room.invitations[j]
             \/ room.invitations[j].expires =< clock
    PROVE  LET next == [room EXCEPT !.invitations = ring]
           IN RoomInv(h, n, s, next) /\ Later(room, next) /\ Timely(room, next)
              /\ Brings(room, next)
<1> DEFINE next == [room EXCEPT !.invitations = ring]
<1>1. room \in Room /\ Limited(room.peers)
  BY DEF RoomInv
<1>2. /\ next.id = room.id /\ next.config = room.config /\ next.starter = room.starter
      /\ next.ringExpires = room.ringExpires /\ next.phase = room.phase
      /\ next.peers = room.peers /\ next.invitations = ring
      /\ next.epoch = NextEpoch(room, next.peers)
      /\ next \in Room
  BY <1>1 DEF Room, NextEpoch
<1>3. Absent(next)
  BY <1>2 DEF Absent
<1> HIDE DEF next
<1>4. RoomInv(h, n, s, next) /\ Later(room, next) /\ Timely(room, next)
      /\ Brings(room, next)
  BY <1>1, <1>2, <1>3, NobodyJoins
<1> QED
  BY <1>4 DEF next

\* A call in which one participant is heard of, or turns a camera or a screen on or off.
LEMMA HeardRoom ==
    ASSUME NEW h, NEW n, NEW s, NEW room, RoomInv(h, n, s, room),
           NEW i \in DOMAIN room.peers, NEW peer \in Peer,
           peer.device = room.peers[i].device, peer.via = room.peers[i].via,
           peer.accepted = room.peers[i].accepted,
           peer.video => room.peers[i].video
                           \/ Cardinality(OthersWith(room, i, "video")) < MaxCameras,
           peer.screen => room.peers[i].screen
                           \/ Cardinality(OthersWith(room, i, "screen")) < MaxScreens
    PROVE  LET next == [room EXCEPT !.peers[i] = peer]
           IN RoomInv(h, n, s, next) /\ Later(room, next) /\ Timely(room, next)
              /\ Brings(room, next)
<1> DEFINE next == [room EXCEPT !.peers[i] = peer]
<1>1. room \in Room /\ Absent(room) /\ Limited(room.peers)
  BY DEF RoomInv
<1>2. room.peers \in [DOMAIN room.peers -> Peer] /\ DOMAIN room.peers \subseteq Identities
  BY <1>1, RoomFacts
<1>3. /\ next.id = room.id /\ next.config = room.config /\ next.starter = room.starter
      /\ next.ringExpires = room.ringExpires /\ next.phase = room.phase
      /\ next.peers = [room.peers EXCEPT ![i] = peer] /\ next.invitations = room.invitations
      /\ next.epoch = room.epoch
  BY <1>1 DEF Room
<1>4. /\ DOMAIN next.peers = DOMAIN room.peers /\ next.peers[i] = peer
      /\ \A j \in DOMAIN room.peers \ {i} : next.peers[j] = room.peers[j]
      /\ next.peers \in [DOMAIN room.peers -> Peer]
  BY <1>2, <1>3
<1>5. next.epoch = NextEpoch(room, next.peers)
  BY <1>3, <1>4 DEF NextEpoch
<1>6. next \in Room
  <2>1. next.peers \in Partial(Identities, Peer)
    BY <1>2, <1>4, PartialIntro
  <2>2. next = [room EXCEPT !.peers = next.peers]
    BY <1>1 DEF Room
  <2> HIDE DEF next
  <2> QED
    BY <1>1, <2>1, <2>2 DEF Room
<1> HIDE DEF next
<1>7. Absent(next)
  BY <1>1, <1>3, <1>4 DEF Absent
<1>8. Limited(next.peers)
  <2>1. Cardinality({j \in DOMAIN next.peers : next.peers[j].video}) =< MaxCameras
    <3> DEFINE others == OthersWith(room, i, "video")
               before == {j \in DOMAIN room.peers : room.peers[j].video}
               after  == {j \in DOMAIN next.peers : next.peers[j].video}
    <3>1. others \subseteq Identities /\ before \subseteq Identities
          /\ after \subseteq Identities /\ i \in Identities
      BY <1>2, <1>4 DEF OthersWith
    <3>2. after \subseteq before \/ (peer.video /\ ~room.peers[i].video)
      BY <1>4
    <3>3. peer.video => after \subseteq others \cup {i}
      BY <1>2, <1>4 DEF OthersWith
    <3>4. Cardinality(before) =< MaxCameras
      BY <1>1 DEF Limited
    <3> HIDE DEF others, before, after
    <3>5. Cardinality(others) \in Nat /\ Cardinality(before) \in Nat
          /\ Cardinality(after) \in Nat
      BY <3>1, FiniteParts
    <3>6. CASE after \subseteq before
      <4>1. Cardinality(after) =< Cardinality(before)
        BY <3>1, <3>6, FewerParts
      <4> QED
        BY <3>4, <3>5, <4>1, LimitAssumption DEF after
    <3>7. CASE peer.video /\ ~room.peers[i].video
      <4>1. Cardinality(after) =< Cardinality(others) + 1
        BY <3>1, <3>3, <3>7, OneMore
      <4>2. Cardinality(others) < MaxCameras
        BY <3>7 DEF others
      <4> QED
        BY <3>5, <4>1, <4>2, LimitAssumption DEF after
    <3> QED
      BY <3>2, <3>6, <3>7
  <2>2. Cardinality({j \in DOMAIN next.peers : next.peers[j].screen}) =< MaxScreens
    <3> DEFINE others == OthersWith(room, i, "screen")
               before == {j \in DOMAIN room.peers : room.peers[j].screen}
               after  == {j \in DOMAIN next.peers : next.peers[j].screen}
    <3>1. others \subseteq Identities /\ before \subseteq Identities
          /\ after \subseteq Identities /\ i \in Identities
      BY <1>2, <1>4 DEF OthersWith
    <3>2. after \subseteq before \/ (peer.screen /\ ~room.peers[i].screen)
      BY <1>4
    <3>3. peer.screen => after \subseteq others \cup {i}
      BY <1>2, <1>4 DEF OthersWith
    <3>4. Cardinality(before) =< MaxScreens
      BY <1>1 DEF Limited
    <3> HIDE DEF others, before, after
    <3>5. Cardinality(others) \in Nat /\ Cardinality(before) \in Nat
          /\ Cardinality(after) \in Nat
      BY <3>1, FiniteParts
    <3>6. CASE after \subseteq before
      <4>1. Cardinality(after) =< Cardinality(before)
        BY <3>1, <3>6, FewerParts
      <4> QED
        BY <3>4, <3>5, <4>1, LimitAssumption DEF after
    <3>7. CASE peer.screen /\ ~room.peers[i].screen
      <4>1. Cardinality(after) =< Cardinality(others) + 1
        BY <3>1, <3>3, <3>7, OneMore
      <4>2. Cardinality(others) < MaxScreens
        BY <3>7 DEF others
      <4> QED
        BY <3>5, <4>1, <4>2, LimitAssumption DEF after
    <3> QED
      BY <3>2, <3>6, <3>7
  <2>3. Cardinality(DOMAIN next.peers) =< MaxParticipants
    BY <1>1, <1>4 DEF Limited
  <2> QED
    BY <2>1, <2>2, <2>3 DEF Limited
<1>9. \A j \in DOMAIN next.peers : /\ next.peers[j].device = room.peers[j].device
                                  /\ next.peers[j].via = room.peers[j].via
                                  /\ next.peers[j].accepted = room.peers[j].accepted
  BY <1>4
<1>10. RoomInv(h, n, s, next) /\ Later(room, next) /\ Timely(room, next)
       /\ Brings(room, next)
  BY <1>3, <1>4, <1>5, <1>6, <1>7, <1>8, <1>9, NobodyJoins
<1> QED
  BY <1>10 DEF next

-----------------------------------------------------------------------------
(* What a step does to all the calls.                                       *)

\* A step that keeps the invariant and moves no ringing window.
SoundStep ==
    /\ CallsInv'
    /\ \A s \in DOMAIN calls \cap DOMAIN calls' :
         calls'[s].id = calls[s].id => Timely(calls[s], calls'[s])

LEMMA SameRoom ==
    ASSUME NEW room \in Room
    PROVE  Later(room, room) /\ Timely(room, room) /\ Brings(room, room)
<1>1. room.epoch \in Nat
  BY DEF Room
<1> QED
  BY <1>1 DEF Later, Timely, Brings

LEMMA Growing ==
    ASSUME NEW a \in Room, NEW b \in Room, Later(a, b), NEW m,
           m.epoch \in Nat, m.epoch =< a.epoch, m.epoch = a.epoch => PeersOf(a) = m.peers
    PROVE  m.epoch =< b.epoch /\ (m.epoch = b.epoch => PeersOf(b) = m.peers)
<1>1. a.epoch \in Nat /\ b.epoch \in Nat /\ a.epoch =< b.epoch
      /\ (b.epoch = a.epoch => PeersOf(b) = PeersOf(a))
  BY DEF Later, Room
<1> QED
  BY <1>1

LEMMA CallsGoOn ==
    ASSUME CallsInv, clock' \in Nat, ids' \in Nat, ids =< ids', signals' \subseteq signals,
           head' \in [CallScopes -> CallConfigs],
           DOMAIN calls' \subseteq CallScopes,
           calls' = [s \in DOMAIN calls' |-> calls'[s]],
           \A s \in DOMAIN calls' : RoomInv(head'[s], ids', s, calls'[s]),
           \A s, t \in DOMAIN calls' : s # t => Apart(calls'[s], calls'[t]),
           \A s \in DOMAIN calls' : \/ s \in DOMAIN calls /\ Later(calls[s], calls'[s])
                                    \/ calls'[s].id > ids
    PROVE  CallsInv'
<1>1. \A s \in DOMAIN calls' : calls'[s] \in Room
  BY DEF RoomInv
<1>2. calls' \in Partial(CallScopes, Room)
  <2>1. calls' \in [DOMAIN calls' -> Room]
    BY <1>1
  <2> QED
    BY <2>1, PartialIntro
<1>3. ASSUME NEW m \in signals'
      PROVE  SignalSound(m)'
  <2>1. m \in signals /\ SignalSound(m) /\ m.call \in Nat /\ m.epoch \in Nat
    BY <1>3 DEF CallsInv, SignalRecord
  <2>2. m.call =< ids'
    BY <2>1 DEF CallsInv, SignalSound
  <2>3. ASSUME m.scope \in DOMAIN calls', calls'[m.scope].id = m.call
        PROVE  /\ m.epoch =< calls'[m.scope].epoch
               /\ m.epoch = calls'[m.scope].epoch => PeersOf(calls'[m.scope]) = m.peers
    <3>1. m.scope \in DOMAIN calls /\ Later(calls[m.scope], calls'[m.scope])
      BY <2>1, <2>3 DEF CallsInv, SignalSound
    <3>2. calls[m.scope].id = m.call
      BY <2>3, <3>1 DEF Later
    <3>3. calls[m.scope] \in Room /\ calls'[m.scope] \in Room
      BY <1>1, <2>3, <3>1 DEF CallsInv, RoomInv
    <3>4. /\ m.epoch =< calls[m.scope].epoch
          /\ m.epoch = calls[m.scope].epoch => PeersOf(calls[m.scope]) = m.peers
      BY <2>1, <3>1, <3>2 DEF SignalSound
    <3> QED
      BY <2>1, <3>1, <3>3, <3>4, Growing
  <2> QED
    BY <2>2, <2>3 DEF SignalSound
<1>4. signals' \subseteq SignalRecord
  BY DEF CallsInv
<1> QED
  BY <1>2, <1>3, <1>4 DEF CallsInv

\* Calls end or go on with those who were in them.
LEMMA CallsDwindle ==
    ASSUME CallsInv, clock' \in Nat, ids' \in Nat, ids =< ids', signals' \subseteq signals,
           head' \in [CallScopes -> CallConfigs],
           DOMAIN calls' \subseteq DOMAIN calls,
           calls' = [s \in DOMAIN calls' |-> calls'[s]],
           \A s \in DOMAIN calls' :
             /\ head'[s] = head[s]
             /\ RoomInv(head[s], ids, s, calls'[s])
             /\ Later(calls[s], calls'[s]) /\ Timely(calls[s], calls'[s])
             /\ Brings(calls[s], calls'[s])
    PROVE  SoundStep
<1>1. DOMAIN calls' \subseteq CallScopes /\ ids \in Nat
  BY PartialElim DEF CallsInv
<1>2. \A s \in DOMAIN calls' : RoomInv(head'[s], ids', s, calls'[s])
  BY <1>1, MoreIds
<1>3. ASSUME NEW s \in DOMAIN calls', NEW t \in DOMAIN calls', s # t
      PROVE  Apart(calls'[s], calls'[t])
  <2>1. Apart(calls[s], calls[t]) /\ Brings(calls[s], calls'[s]) /\ Brings(calls[t], calls'[t])
    BY <1>3 DEF CallsInv
  <2> QED
    BY <2>1 DEF Apart, Brings
<1>4. CallsInv'
  BY <1>1, <1>2, <1>3, CallsGoOn
<1> QED
  BY <1>4 DEF SoundStep

\* Calls end or stay as they are.
LEMMA CallsEndOrStay ==
    ASSUME CallsInv, clock' \in Nat, ids' = ids, signals' \subseteq signals,
           head' \in [CallScopes -> CallConfigs],
           DOMAIN calls' \subseteq DOMAIN calls,
           calls' = [s \in DOMAIN calls' |-> calls'[s]],
           \A s \in DOMAIN calls' : head'[s] = head[s] /\ calls'[s] = calls[s]
    PROVE  SoundStep
<1>1. ASSUME NEW s \in DOMAIN calls'
      PROVE  /\ RoomInv(head[s], ids, s, calls'[s])
             /\ Later(calls[s], calls'[s]) /\ Timely(calls[s], calls'[s])
             /\ Brings(calls[s], calls'[s])
  <2>1. RoomInv(head[s], ids, s, calls[s]) /\ calls[s] \in Room /\ calls'[s] = calls[s]
    BY <1>1 DEF CallsInv, RoomInv
  <2> QED
    BY <2>1, SameRoom
<1>2. ids' \in Nat /\ ids =< ids'
  BY DEF CallsInv
<1> QED
  BY <1>1, <1>2, CallsDwindle

\* One call changes, and nobody joins it.
LEMMA OneCallChanges ==
    ASSUME CallsInv, NEW s \in DOMAIN calls, NEW next,
           calls' = [calls EXCEPT ![s] = next],
           clock' = clock, head' = head, signals' = signals, ids' \in Nat, ids =< ids',
           RoomInv(head[s], ids, s, next), Later(calls[s], next), Timely(calls[s], next),
           Brings(calls[s], next)
    PROVE  SoundStep
<1>1. DOMAIN calls' = DOMAIN calls /\ calls' = [t \in DOMAIN calls' |-> calls'[t]]
  BY PartialElim DEF CallsInv
<1>2. ASSUME NEW t \in DOMAIN calls'
      PROVE  /\ RoomInv(head[t], ids, t, calls'[t])
             /\ Later(calls[t], calls'[t]) /\ Timely(calls[t], calls'[t])
             /\ Brings(calls[t], calls'[t])
  <2>1. CASE t = s
    BY <1>1, <2>1 DEF CallsInv
  <2>2. CASE t # s
    <3>1. RoomInv(head[t], ids, t, calls[t]) /\ calls[t] \in Room /\ calls'[t] = calls[t]
      BY <1>1, <1>2, <2>2 DEF CallsInv, RoomInv
    <3> QED
      BY <3>1, SameRoom
  <2> QED
    BY <2>1, <2>2
<1>3. clock' \in Nat /\ head' \in [CallScopes -> CallConfigs] /\ signals' \subseteq signals
  BY DEF CallsInv
<1> QED
  BY <1>1, <1>2, <1>3, CallsDwindle

-----------------------------------------------------------------------------
(* The actions.                                                             *)

LEMMA OpenCall ==
    ASSUME CallsInv, NEW s, Open(s)
    PROVE  /\ s \in CallScopes /\ s \in DOMAIN calls /\ head[s] \in CallConfigs
           /\ RoomInv(head[s], ids, s, calls[s]) /\ calls[s] \in Room
           /\ clock \in Nat /\ ids \in Nat
BY PartialElim DEF CallsInv, Open, RoomInv

LEMMA EndSound ==
    ASSUME CallsInv, NEW s, End(s)
    PROVE  SoundStep
<1>1. /\ DOMAIN calls' = DOMAIN calls \ {s}
      /\ calls' = [t \in DOMAIN calls' |-> calls'[t]]
      /\ \A t \in DOMAIN calls' : calls'[t] = calls[t]
  BY DEF End, DropKey
<1>2. /\ clock' \in Nat /\ ids' = ids /\ signals' \subseteq signals /\ head' = head
      /\ head' \in [CallScopes -> CallConfigs]
  BY DEF End, CallsInv
<1> QED
  BY <1>1, <1>2, CallsEndOrStay

LEMMA EnterSound ==
    ASSUME CallsInv, NEW d \in Devices, NEW s \in CallScopes, NEW via \in Keys,
           NEW invitation \in Nat \cup {Nothing}, Enter(d, s, via, invitation)
    PROVE  SoundStep
<1> DEFINE next == Entered(s, calls[s], d, via, invitation)
<1>1. /\ Open(s) /\ Authorized(d, s, via) /\ ~RungOut(s, calls[s])
      /\ EnsureFree(d, s) /\ CanEnter(calls[s], d, invitation)
      /\ calls' = [calls EXCEPT ![s] = next]
      /\ clock' = clock /\ head' = head /\ ids' = ids /\ signals' = signals
  BY DEF Enter, OnCall
<1>2. /\ s \in DOMAIN calls /\ head[s] \in CallConfigs /\ clock \in Nat /\ ids \in Nat
      /\ RoomInv(head[s], ids, s, calls[s])
  BY <1>1, OpenCall
<1>3. /\ RoomInv(head[s], ids, s, next) /\ Later(calls[s], next) /\ Timely(calls[s], next)
      /\ \A j \in DOMAIN next.peers :
           \/ next.peers[j].device = d
           \/ /\ j \in DOMAIN calls[s].peers
              /\ next.peers[j].device = calls[s].peers[j].device
  <2>1. /\ d \in Callers[head[s]]
        /\ via # Nothing => /\ DelegationBody[via].device = d
                            /\ DelegationBody[via].scope = s
                            /\ DelegationBody[via].config = head[s]
    BY <1>1 DEF Authorized
  <2> QED
    BY <1>1, <1>2, <2>1, EnteredRoom
<1> HIDE DEF next
<1>4. /\ DOMAIN calls' = DOMAIN calls /\ calls' = [t \in DOMAIN calls' |-> calls'[t]]
      /\ DOMAIN calls' \subseteq CallScopes
      /\ calls'[s] = next /\ \A t \in DOMAIN calls \ {s} : calls'[t] = calls[t]
  BY <1>1, <1>2, PartialElim DEF CallsInv
<1>5. ASSUME NEW t \in DOMAIN calls', t # s
      PROVE  Apart(next, calls[t]) /\ Apart(calls[t], next)
  <2>1. t \in DOMAIN calls /\ Apart(calls[s], calls[t])
    BY <1>2, <1>4, <1>5 DEF CallsInv
  <2>2. RoomInv(head[t], ids, t, calls[t])
    BY <2>1 DEF CallsInv
  <2>3. \A j \in DOMAIN calls[t].peers : Owner[calls[t].peers[j].device] = j
    BY <2>2 DEF RoomInv, PeersSound
  <2>4. ~IsParticipant(calls[t], d)
    BY <1>1, <1>5, <2>1 DEF EnsureFree
  <2>5. \A j \in DOMAIN calls[t].peers : calls[t].peers[j].device # d
    BY <2>3, <2>4 DEF IsParticipant
  <2> QED
    BY <1>3, <2>1, <2>5 DEF Apart
<1>6. \A t, u \in DOMAIN calls' : t # u => Apart(calls'[t], calls'[u])
  BY <1>4, <1>5 DEF CallsInv
<1>7. \A t \in DOMAIN calls' : /\ RoomInv(head'[t], ids', t, calls'[t])
                              /\ Later(calls[t], calls'[t]) /\ Timely(calls[t], calls'[t])
  <2> TAKE t \in DOMAIN calls'
  <2>1. CASE t = s
    BY <1>1, <1>3, <1>4, <2>1
  <2>2. CASE t # s
    <3>1. RoomInv(head[t], ids, t, calls[t]) /\ calls[t] \in Room /\ calls'[t] = calls[t]
      BY <1>4, <2>2 DEF CallsInv, RoomInv
    <3> QED
      BY <1>1, <3>1, SameRoom
  <2> QED
    BY <2>1, <2>2
<1>8. /\ clock' \in Nat /\ ids' \in Nat /\ ids =< ids' /\ signals' \subseteq signals
      /\ head' \in [CallScopes -> CallConfigs]
  BY <1>1 DEF CallsInv
<1>9. CallsInv'
  BY <1>4, <1>6, <1>7, <1>8, CallsGoOn
<1> QED
  BY <1>7, <1>9 DEF SoundStep

LEMMA StartSound ==
    ASSUME CallsInv, NEW d \in Devices, NEW s \in CallScopes, Start(d, s)
    PROVE  SoundStep
<1>1. CASE Open(s) /\ Enter(d, s, Nothing, Nothing)
  BY <1>1, EnterSound DEF Keys
<1>2. CASE ~(Open(s) /\ Enter(d, s, Nothing, Nothing))
  <2> DEFINE next == NewRoom(d, s)
  <2>1. /\ IsDirect(s) => Cardinality(Members[head[s]]) = 2
        /\ s \notin DOMAIN calls /\ Authorized(d, s, Nothing) /\ EnsureFree(d, s)
        /\ calls' = PutKey(calls, s, next)
        /\ ids' = ids + 1 /\ clock' = clock /\ head' = head /\ signals' = signals
    BY <1>2 DEF Start, Open
  <2>2. RoomInv(head[s], ids + 1, s, next)
    BY <2>1, NewRoomSound
  <2>3. next.id = ids + 1 /\ \A j \in DOMAIN next.peers : next.peers[j].device = d
    BY DEF NewRoom, Newcomer
  <2> HIDE DEF next
  <2>4. /\ DOMAIN calls' = DOMAIN calls \cup {s}
        /\ calls' = [t \in DOMAIN calls' |-> calls'[t]]
        /\ calls'[s] = next /\ \A t \in DOMAIN calls : calls'[t] = calls[t]
    BY <2>1 DEF PutKey
  <2>5. DOMAIN calls' \subseteq CallScopes
    BY <2>4, PartialElim DEF CallsInv
  <2>6. /\ clock' \in Nat /\ ids \in Nat /\ ids' \in Nat /\ ids =< ids'
        /\ signals' \subseteq signals
        /\ head' \in [CallScopes -> CallConfigs]
    BY <2>1 DEF CallsInv
  <2>7. ASSUME NEW t \in DOMAIN calls
        PROVE  Apart(next, calls[t]) /\ Apart(calls[t], next)
    <3>1. RoomInv(head[t], ids, t, calls[t])
      BY DEF CallsInv
    <3>2. \A j \in DOMAIN calls[t].peers : Owner[calls[t].peers[j].device] = j
      BY <3>1 DEF RoomInv, PeersSound
    <3>3. ~IsParticipant(calls[t], d)
      BY <2>1 DEF EnsureFree
    <3>4. \A j \in DOMAIN calls[t].peers : calls[t].peers[j].device # d
      BY <3>2, <3>3 DEF IsParticipant
    <3> QED
      BY <2>3, <3>4 DEF Apart
  <2>8. \A t, u \in DOMAIN calls' : t # u => Apart(calls'[t], calls'[u])
    BY <2>4, <2>7 DEF CallsInv
  <2>9. ASSUME NEW t \in DOMAIN calls
        PROVE  /\ RoomInv(head'[t], ids', t, calls'[t])
               /\ Later(calls[t], calls'[t]) /\ Timely(calls[t], calls'[t])
    <3>1. RoomInv(head[t], ids, t, calls[t]) /\ calls[t] \in Room /\ calls'[t] = calls[t]
      BY <2>4 DEF CallsInv, RoomInv
    <3>2. RoomInv(head[t], ids', t, calls[t])
      BY <2>6, <3>1, MoreIds
    <3> QED
      BY <2>1, <3>1, <3>2, SameRoom
  <2>10. \A t \in DOMAIN calls' : RoomInv(head'[t], ids', t, calls'[t])
    BY <2>1, <2>2, <2>4, <2>9
  <2>11. \A t \in DOMAIN calls' : \/ t \in DOMAIN calls /\ Later(calls[t], calls'[t])
                                 \/ calls'[t].id > ids
    BY <2>3, <2>4, <2>6, <2>9
  <2>12. CallsInv'
    BY <2>4, <2>5, <2>6, <2>8, <2>10, <2>11, CallsGoOn
  <2> QED
    BY <2>9, <2>12 DEF SoundStep
<1> QED
  BY <1>1, <1>2

LEMMA DeclineSound ==
    ASSUME CallsInv, NEW d \in Devices, NEW s \in CallScopes, NEW call, NEW via,
           NEW invitation, Decline(d, s, call, via, invitation)
    PROVE  SoundStep
<1>1. Open(s)
  BY DEF Decline, OnCall
<1>2. CASE IsDirect(s)
  BY <1>2, EndSound DEF Decline
<1>3. CASE ~IsDirect(s)
  <2> DEFINE ring == DropKey(calls[s].invitations, Owner[d])
             next == [calls[s] EXCEPT !.invitations = ring]
  <2>1. /\ calls' = [calls EXCEPT ![s] = next]
        /\ clock' = clock /\ head' = head /\ ids' = ids /\ signals' = signals
    BY <1>3 DEF Decline, Change
  <2>2. /\ s \in DOMAIN calls /\ RoomInv(head[s], ids, s, calls[s]) /\ calls[s] \in Room
        /\ ids \in Nat
    BY <1>1, OpenCall
  <2>3. ring \in Partial(Identities, Invitation)
    BY <2>2, DropPartial DEF Room
  <2>4. /\ DOMAIN ring \subseteq DOMAIN calls[s].invitations
        /\ \A j \in DOMAIN ring : ring[j] = calls[s].invitations[j]
    BY DEF DropKey
  <2>5. DOMAIN ring \cap DOMAIN calls[s].peers = {}
    BY <2>2, <2>4 DEF RoomInv, Absent
  <2>6. /\ RoomInv(head[s], ids, s, next) /\ Later(calls[s], next)
        /\ Timely(calls[s], next) /\ Brings(calls[s], next)
    <3> HIDE DEF ring
    <3> QED
      BY <1>3, <2>2, <2>3, <2>4, <2>5, RingingRoom DEF IsDirect
  <2> HIDE DEF next
  <2>7. ids' \in Nat /\ ids =< ids'
    BY <2>1, <2>2
  <2> QED
    BY <2>1, <2>2, <2>6, <2>7, OneCallChanges
<1> QED
  BY <1>2, <1>3

LEMMA InviteSound ==
    ASSUME CallsInv, NEW d \in Devices, NEW s \in CallScopes, NEW call, NEW via,
           NEW to \in Identities, Invite(d, s, call, via, to)
    PROVE  SoundStep
<1> DEFINE ring == PutKey(calls[s].invitations, to, NewInvitation)
           next == [calls[s] EXCEPT !.invitations = ring]
<1>1. /\ Open(s) /\ ~IsDirect(s) /\ to \notin DOMAIN calls[s].peers /\ MayRing(calls[s], to)
      /\ ids' = ids + 1 /\ clock' = clock /\ head' = head /\ signals' = signals
  BY DEF Invite, Participates, OnCall
<1>2. /\ s \in DOMAIN calls /\ RoomInv(head[s], ids, s, calls[s]) /\ calls[s] \in Room
      /\ ids \in Nat /\ clock \in Nat
  BY <1>1, OpenCall
<1>3. calls' = [calls EXCEPT ![s] = next]
  BY <1>2 DEF Invite, Room
<1>4. calls[s].invitations \in Partial(Identities, Invitation)
      /\ calls[s].invitations \in [DOMAIN calls[s].invitations -> Invitation]
  BY <1>2, RoomFacts DEF Room
<1>5. NewInvitation \in Invitation
  BY <1>2, LimitAssumption DEF NewInvitation, Invitation
<1>6. ring \in Partial(Identities, Invitation)
  BY <1>4, <1>5, PutPartial
<1>7. /\ DOMAIN ring = DOMAIN calls[s].invitations \cup {to}
      /\ \A j \in DOMAIN calls[s].invitations \ {to} : ring[j] = calls[s].invitations[j]
  BY DEF PutKey
<1>8. DOMAIN ring \cap DOMAIN calls[s].peers = {}
  BY <1>1, <1>2, <1>7 DEF RoomInv, Absent
<1>9. \A j \in DOMAIN calls[s].invitations \cap DOMAIN ring :
        \/ ring[j] = calls[s].invitations[j]
        \/ calls[s].invitations[j].expires =< clock
  <2> HIDE DEF ring
  <2>1. to \in DOMAIN calls[s].invitations => calls[s].invitations[to].expires =< clock
    BY <1>1, <1>2, <1>4 DEF MayRing, Pending, Invitation
  <2> QED
    BY <1>7, <2>1
<1>10. /\ RoomInv(head[s], ids, s, next) /\ Later(calls[s], next)
       /\ Timely(calls[s], next) /\ Brings(calls[s], next)
  <2> HIDE DEF ring
  <2> QED
    BY <1>1, <1>2, <1>6, <1>8, <1>9, RingingRoom DEF IsDirect
<1> HIDE DEF next
<1>11. ids' \in Nat /\ ids =< ids'
  BY <1>1, <1>2
<1> QED
  BY <1>1, <1>2, <1>3, <1>10, <1>11, OneCallChanges

LEMMA LeaveSound ==
    ASSUME CallsInv, NEW d \in Devices, NEW s \in CallScopes, NEW call, NEW via,
           Leave(d, s, call, via)
    PROVE  SoundStep
<1> DEFINE rest == DropKey(calls[s].peers, Owner[d])
           next == [calls[s] EXCEPT !.peers = rest, !.epoch = NextEpoch(calls[s], rest)]
<1>1. Open(s)
  BY DEF Leave, Participates, OnCall
<1>2. CASE IsDirect(s) \/ DOMAIN rest = {}
  BY <1>2, EndSound DEF Leave
<1>3. CASE ~(IsDirect(s) \/ DOMAIN rest = {})
  <2>1. /\ calls' = [calls EXCEPT ![s] = next]
        /\ clock' = clock /\ head' = head /\ ids' = ids /\ signals' = signals
    BY <1>3 DEF Leave, Change
  <2>2. s \in DOMAIN calls /\ RoomInv(head[s], ids, s, calls[s]) /\ ids \in Nat
    BY <1>1, OpenCall
  <2>3. /\ RoomInv(head[s], ids, s, next) /\ Later(calls[s], next)
        /\ Timely(calls[s], next) /\ Brings(calls[s], next)
    BY <1>3, <2>2, LeftRoom DEF IsDirect
  <2> HIDE DEF next
  <2>4. ids' \in Nat /\ ids =< ids'
    BY <2>1, <2>2
  <2> QED
    BY <2>1, <2>2, <2>3, <2>4, OneCallChanges
<1> QED
  BY <1>2, <1>3

\* Heartbeat and Media change what is known of one participant.
LEMMA OneIsHeard ==
    ASSUME CallsInv, NEW d \in Devices, NEW s \in CallScopes, NEW call, NEW via,
           Participates(d, s, call, via),
           NEW peer \in Peer,
           calls' = [calls EXCEPT ![s].peers[Owner[d]] = peer],
           clock' = clock, head' = head, ids' = ids, signals' = signals,
           peer.device = calls[s].peers[Owner[d]].device,
           peer.via = calls[s].peers[Owner[d]].via,
           peer.accepted = calls[s].peers[Owner[d]].accepted,
           peer.video => \/ calls[s].peers[Owner[d]].video
                         \/ Cardinality(OthersWith(calls[s], Owner[d], "video")) < MaxCameras,
           peer.screen => \/ calls[s].peers[Owner[d]].screen
                          \/ Cardinality(OthersWith(calls[s], Owner[d], "screen")) < MaxScreens
    PROVE  SoundStep
<1> DEFINE next == [calls[s] EXCEPT !.peers[Owner[d]] = peer]
<1>1. Open(s) /\ Owner[d] \in DOMAIN calls[s].peers
  BY DEF Participates, OnCall, IsParticipant
<1>2. /\ s \in DOMAIN calls /\ RoomInv(head[s], ids, s, calls[s]) /\ ids \in Nat
  BY <1>1, OpenCall
<1>3. calls' = [calls EXCEPT ![s] = next]
  BY <1>2
<1>4. /\ RoomInv(head[s], ids, s, next) /\ Later(calls[s], next)
      /\ Timely(calls[s], next) /\ Brings(calls[s], next)
  BY <1>1, <1>2, HeardRoom
<1> HIDE DEF next
<1>5. ids' \in Nat /\ ids =< ids'
  BY <1>2
<1> QED
  BY <1>2, <1>3, <1>4, <1>5, OneCallChanges

LEMMA ParticipantRecord ==
    ASSUME CallsInv, NEW d \in Devices, NEW s \in CallScopes, NEW call, NEW via,
           Participates(d, s, call, via)
    PROVE  /\ s \in DOMAIN calls /\ clock \in Nat /\ calls[s] \in Room
           /\ Owner[d] \in DOMAIN calls[s].peers
           /\ calls[s].peers[Owner[d]] \in Peer
<1>1. Open(s) /\ Owner[d] \in DOMAIN calls[s].peers
  BY DEF Participates, OnCall, IsParticipant
<1>2. s \in DOMAIN calls /\ clock \in Nat /\ calls[s] \in Room
  BY <1>1, OpenCall
<1> QED
  BY <1>1, <1>2, RoomFacts

LEMMA HeartbeatSound ==
    ASSUME CallsInv, NEW d \in Devices, NEW s \in CallScopes, NEW call, NEW via,
           Heartbeat(d, s, call, via)
    PROVE  SoundStep
<1> DEFINE old  == calls[s].peers[Owner[d]]
           peer == [old EXCEPT !.seen = clock]
<1>1. Participates(d, s, call, via)
  BY DEF Heartbeat
<1>2. s \in DOMAIN calls /\ clock \in Nat /\ calls[s] \in Room
      /\ Owner[d] \in DOMAIN calls[s].peers /\ old \in Peer
  BY <1>1, ParticipantRecord
<1>3. /\ calls' = [calls EXCEPT ![s].peers[Owner[d]] = peer]
      /\ clock' = clock /\ head' = head /\ ids' = ids /\ signals' = signals
  BY <1>2 DEF Heartbeat, Change
<1>4. /\ peer \in Peer /\ peer.device = old.device /\ peer.via = old.via
      /\ peer.accepted = old.accepted /\ peer.video = old.video /\ peer.screen = old.screen
  <2> HIDE DEF old
  <2> QED
    BY <1>2 DEF Peer
<1> HIDE DEF peer
<1> QED
  BY <1>1, <1>3, <1>4, OneIsHeard

LEMMA MediaSound ==
    ASSUME CallsInv, NEW d \in Devices, NEW s \in CallScopes, NEW call, NEW via,
           NEW video \in BOOLEAN, NEW screen \in BOOLEAN,
           Media(d, s, call, via, video, screen)
    PROVE  SoundStep
<1> DEFINE old  == calls[s].peers[Owner[d]]
           peer == [old EXCEPT !.video = video, !.screen = screen, !.seen = clock]
<1>1. Participates(d, s, call, via) /\ WithinLimits(calls[s], Owner[d], video, screen)
  BY DEF Media
<1>2. s \in DOMAIN calls /\ clock \in Nat /\ calls[s] \in Room
      /\ Owner[d] \in DOMAIN calls[s].peers /\ old \in Peer
  BY <1>1, ParticipantRecord
<1>3. /\ calls' = [calls EXCEPT ![s].peers[Owner[d]] = peer]
      /\ clock' = clock /\ head' = head /\ ids' = ids /\ signals' = signals
  BY <1>2 DEF Media, Change
<1>4. /\ peer \in Peer /\ peer.device = old.device /\ peer.via = old.via
      /\ peer.accepted = old.accepted /\ peer.video = video /\ peer.screen = screen
  <2> HIDE DEF old
  <2> QED
    BY <1>2 DEF Peer
<1> HIDE DEF peer
<1> QED
  BY <1>1, <1>3, <1>4, OneIsHeard DEF WithinLimits

LEMMA SignalIsSound ==
    ASSUME CallsInv, NEW d \in Devices, NEW s \in CallScopes, NEW call, NEW via,
           NEW to \in Devices, Signal(d, s, call, via, to)
    PROVE  SoundStep
<1> DEFINE m == [scope |-> s, call |-> call, epoch |-> calls[s].epoch, from |-> d,
                 to |-> to, peers |-> PeersOf(calls[s])]
<1>1. /\ Open(s) /\ calls[s].id = call
      /\ signals' = signals \cup {m}
      /\ clock' = clock /\ head' = head /\ calls' = calls /\ ids' = ids
  BY DEF Signal, Participates, OnCall
<1>2. /\ s \in DOMAIN calls /\ calls[s] \in Room /\ RoomInv(head[s], ids, s, calls[s])
  BY <1>1, OpenCall
<1>3. calls[s].id \in Nat /\ calls[s].epoch \in Nat /\ calls[s].id =< ids
  BY <1>2, RoomFacts DEF RoomInv
<1>4. m \in SignalRecord
  <2>1. calls[s].peers \in [DOMAIN calls[s].peers -> Peer]
    BY <1>2, RoomFacts
  <2>2. PeersOf(calls[s]) \subseteq Devices \X Keys
    BY <2>1 DEF PeersOf, Peer
  <2> QED
    BY <1>1, <1>3, <2>2 DEF SignalRecord
<1>5. ASSUME NEW o \in signals'
      PROVE  SignalSound(o)'
  <2>1. CASE o = m
    BY <1>1, <1>3, <2>1 DEF SignalSound
  <2>2. CASE o \in signals
    <3>1. SignalSound(o)
      BY <2>2 DEF CallsInv
    <3> QED
      BY <1>1, <3>1 DEF SignalSound
  <2> QED
    BY <1>1, <1>5, <2>1, <2>2
<1> HIDE DEF m
<1>6. CallsInv'
  BY <1>1, <1>4, <1>5 DEF CallsInv
<1>7. \A t \in DOMAIN calls : Timely(calls[t], calls[t])
  BY SameRoom DEF CallsInv, RoomInv
<1> QED
  BY <1>1, <1>6, <1>7 DEF SoundStep

LEMMA ConfigurationSound ==
    ASSUME CallsInv, NEW s \in CallScopes, NEW c \in CallConfigs, ConfigurationChanged(s, c)
    PROVE  SoundStep
<1>1. /\ c > head[s] /\ head' = [head EXCEPT ![s] = c]
      /\ calls' = IF Open(s) /\ calls[s].config # c THEN DropKey(calls, s) ELSE calls
      /\ clock' = clock /\ ids' = ids /\ signals' = signals
  BY DEF ConfigurationChanged
<1>2. head' \in [CallScopes -> CallConfigs] /\ clock' \in Nat /\ signals' \subseteq signals
  BY <1>1 DEF CallsInv
<1>3. Open(s) => calls[s].config # c
  <2>1. head[s] \in Nat
    BY CallAssumption DEF CallsInv
  <2>2. Open(s) => calls[s].config = head[s]
    BY DEF CallsInv, RoomInv, Open
  <2> QED
    BY <1>1, <2>1, <2>2
<1>4. /\ DOMAIN calls' = DOMAIN calls \ {s}
      /\ calls' = [t \in DOMAIN calls' |-> calls'[t]]
      /\ \A t \in DOMAIN calls' : calls'[t] = calls[t]
  <2>1. CASE Open(s)
    BY <1>1, <1>3, <2>1 DEF DropKey
  <2>2. CASE ~Open(s)
    <3>1. calls \in [DOMAIN calls -> Room]
      BY PartialElim DEF CallsInv
    <3> QED
      BY <1>1, <2>2, <3>1 DEF Open
  <2> QED
    BY <2>1, <2>2
<1>5. \A t \in DOMAIN calls' : head'[t] = head[t]
  BY <1>1, <1>4, PartialElim DEF CallsInv
<1> QED
  BY <1>1, <1>2, <1>4, <1>5, CallsEndOrStay

LEMMA MaintainSound ==
    ASSUME CallsInv, MaintainCalls
    PROVE  SoundStep
<1>1. /\ DOMAIN calls' = {t \in DOMAIN calls : ~Expires(t, calls[t])}
      /\ calls' = [s \in DOMAIN calls' |-> calls'[s]]
      /\ \A s \in DOMAIN calls' : calls'[s] = Swept(calls[s])
      /\ clock' = clock /\ head' = head /\ ids' = ids /\ signals' = signals
  BY DEF MaintainCalls
<1>2. ASSUME NEW s \in DOMAIN calls'
      PROVE  /\ head'[s] = head[s]
             /\ RoomInv(head[s], ids, s, calls'[s])
             /\ Later(calls[s], calls'[s]) /\ Timely(calls[s], calls'[s])
             /\ Brings(calls[s], calls'[s])
  <2>1. s \in DOMAIN calls /\ ~Expires(s, calls[s]) /\ calls'[s] = Swept(calls[s])
    BY <1>1, <1>2
  <2>2. RoomInv(head[s], ids, s, calls[s]) /\ clock \in Nat
    BY <2>1 DEF CallsInv
  <2> QED
    BY <1>1, <2>1, <2>2, SweptRoom
<1>3. /\ clock' \in Nat /\ ids' \in Nat /\ ids =< ids' /\ signals' \subseteq signals
      /\ head' \in [CallScopes -> CallConfigs] /\ DOMAIN calls' \subseteq DOMAIN calls
  BY <1>1 DEF CallsInv
<1> QED
  BY <1>1, <1>2, <1>3, CallsDwindle

LEMMA OtherStepsSound ==
    ASSUME CallsInv,
           \/ \E m \in signals : Dequeue(m)
           \/ MaintainFailed
           \/ CallClock
           \/ UNCHANGED callVars
    PROVE  SoundStep
<1>1. calls \in [DOMAIN calls -> Room]
  BY PartialElim DEF CallsInv
<1>2. /\ clock' \in Nat /\ ids' = ids /\ signals' \subseteq signals /\ head' = head
      /\ head' \in [CallScopes -> CallConfigs]
      /\ calls' = NoEntries \/ calls' = calls
  BY DEF Dequeue, MaintainFailed, CallClock, callVars, CallsInv
<1>3. /\ DOMAIN calls' \subseteq DOMAIN calls
      /\ calls' = [s \in DOMAIN calls' |-> calls'[s]]
      /\ \A s \in DOMAIN calls' : calls'[s] = calls[s]
  <2>1. CASE calls' = NoEntries
    BY <2>1 DEF NoEntries
  <2>2. CASE calls' = calls
    BY <1>1, <2>2
  <2> QED
    BY <1>2, <2>1, <2>2
<1> QED
  BY <1>2, <1>3, CallsEndOrStay

LEMMA CommandSound ==
    ASSUME CallsInv, NEW d \in Devices, NEW s \in CallScopes, Command(d, s)
    PROVE  SoundStep
<1>1. Ids \subseteq Nat
  BY DEF CallsInv, Ids
<1>2. CASE Start(d, s)
  BY <1>2, StartSound
<1>3. CASE RingOut(d, s)
  BY <1>3, EndSound DEF RingOut
<1>4. ASSUME NEW call \in Ids, NEW via \in Keys,
             \/ \E invitation \in Ids \cup {Nothing} : Join(d, s, call, via, invitation)
             \/ \E invitation \in Ids : Decline(d, s, call, via, invitation)
             \/ Cancel(d, s, call, via)
             \/ EndCall(d, s, call, via)
             \/ \E to \in Identities : Invite(d, s, call, via, to)
             \/ Leave(d, s, call, via)
             \/ Heartbeat(d, s, call, via)
             \/ \E video, screen \in BOOLEAN : Media(d, s, call, via, video, screen)
             \/ \E to \in Devices : Signal(d, s, call, via, to)
      PROVE  SoundStep
  <2>1. ASSUME NEW invitation \in Ids \cup {Nothing}, Join(d, s, call, via, invitation)
        PROVE  SoundStep
    <3>1. invitation \in Nat \cup {Nothing} /\ Enter(d, s, via, invitation)
      BY <1>1, <2>1 DEF Join
    <3> QED
      BY <1>4, <3>1, EnterSound
  <2>2. CASE Cancel(d, s, call, via)
    BY <2>2, EndSound DEF Cancel
  <2>3. CASE EndCall(d, s, call, via)
    BY <2>3, EndSound DEF EndCall
  <2> QED
    BY <1>4, <2>1, <2>2, <2>3, DeclineSound, InviteSound, LeaveSound, HeartbeatSound,
       MediaSound, SignalIsSound
<1> QED
  BY <1>2, <1>3, <1>4 DEF Command

LEMMA StepsSound ==
    ASSUME CallsInv, [CallsNext]_callVars
    PROVE  SoundStep
<1>1. ASSUME NEW s \in CallScopes, NEW d \in Devices, Command(d, s)
      PROVE  SoundStep
  BY <1>1, CommandSound
<1>2. ASSUME NEW s \in CallScopes, NEW c \in CallConfigs, ConfigurationChanged(s, c)
      PROVE  SoundStep
  BY <1>2, ConfigurationSound
<1>3. ASSUME NEW s \in CallScopes, NEW i \in Identities, RevokeMember(s, i)
      PROVE  SoundStep
  BY <1>3, EndSound DEF RevokeMember
<1>4. CASE MaintainCalls
  BY <1>4, MaintainSound
<1>5. CASE \/ \E m \in signals : Dequeue(m)
           \/ MaintainFailed
           \/ CallClock
           \/ UNCHANGED callVars
  BY <1>5, OtherStepsSound
<1> QED
  BY <1>1, <1>2, <1>3, <1>4, <1>5 DEF CallsNext

LEMMA InitSound ==
    ASSUME CallsInit
    PROVE  CallsInv
<1>1. NoEntries \in Partial(CallScopes, Room) /\ DOMAIN NoEntries = {}
  BY EmptyPartial
<1>2. head \in [CallScopes -> CallConfigs]
  BY DEF CallsInit
<1> QED
  BY <1>1, <1>2 DEF CallsInit, CallsInv

-----------------------------------------------------------------------------
(* Theorems.                                                                *)

\* In every state of the registry (registry.rs) each open call is sound under the
\* configuration in force, no device is in two calls, and what a waiting signal says of
\* its call's key epoch is true.
THEOREM CallsInvariant == CallsSpec => []CallsInv
<1>1. CallsInit => CallsInv
  BY InitSound
<1>2. CallsInv /\ [CallsNext]_callVars => CallsInv'
  BY StepsSound DEF SoundStep
<1> QED
  BY <1>1, <1>2, PTL DEF CallsSpec

LEMMA InvImpliesSound ==
    ASSUME CallsInv
    PROVE  CallsSound /\ GroupCallSound
<1>1. DOMAIN calls \subseteq CallScopes
  BY PartialElim DEF CallsInv
<1>2. ASSUME NEW s \in DOMAIN calls
      PROVE  /\ calls[s] \in Room /\ PeersSound(head[s], s, calls[s].peers)
             /\ DirectSound(head[s], s, calls[s]) /\ Absent(calls[s])
             /\ Limited(calls[s].peers)
             /\ DOMAIN calls[s].peers \subseteq Identities
             /\ calls[s].peers \in [DOMAIN calls[s].peers -> Peer]
             /\ DOMAIN calls[s].invitations \subseteq Identities
             /\ calls[s].invitations \in [DOMAIN calls[s].invitations -> Invitation]
  <2>1. RoomInv(head[s], ids, s, calls[s])
    BY DEF CallsInv
  <2>2. calls[s] \in Room
    BY <2>1 DEF RoomInv
  <2> QED
    BY <2>1, <2>2, RoomFacts DEF RoomInv
<1>3. CallsTypeOK
  <2>1. ASSUME NEW s \in DOMAIN calls
        PROVE  /\ {calls[s].id, calls[s].startedAt, calls[s].ringExpires, calls[s].epoch}
                    \subseteq Nat
               /\ calls[s].starter \in Identities
               /\ calls[s].phase \in {"ringing", "active"}
               /\ calls[s].config \in CallConfigs
               /\ calls[s].emptySince \in Nat \cup {Nothing}
    BY <1>2 DEF Room
  <2> QED
    BY <1>1, <1>2, <2>1 DEF CallsTypeOK, CallsInv
<1>4. OneCallPerDevice
  BY <1>2 DEF OneCallPerDevice, CallsInv, PeersSound, Apart
<1>5. PeersAuthorized
  BY <1>2 DEF PeersAuthorized, PeersSound
<1>6. DirectCallShape
  BY <1>2 DEF DirectCallShape, DirectSound
<1>7. RingsOnlyTheAbsent
  BY <1>2 DEF RingsOnlyTheAbsent, Absent
<1>8. WithinCallLimits
  BY <1>2 DEF WithinCallLimits, Limited
<1> QED
  BY <1>3, <1>4, <1>5, <1>6, <1>7, <1>8 DEF CallsSound, GroupCallSound

\* Whoever is in a call is there once, for the person the device belongs to and by the
\* configuration in force, and a direct call holds both sides or rings for one
\* (`ensure_free`, `configuration_changed`, `tick` in registry.rs).
THEOREM CallsAreSound == CallsSpec => []CallsSound
<1>1. CallsInv => CallsSound
  BY InvImpliesSound
<1> QED
  BY <1>1, CallsInvariant, PTL

\* A group call rings only for those who are not in it and stays within the limits on
\* participants, cameras and screens, whatever the order of joins, invitations, media
\* changes and sweeps.
THEOREM GroupCallsAreSound == CallsSpec => []GroupCallSound
<1>1. CallsInv => GroupCallSound
  BY InvImpliesSound
<1> QED
  BY <1>1, CallsInvariant, PTL

\* A signal that the recipient's connection would forward (server.rs) was sent while the
\* same devices, with the same keys, were in the call.
THEOREM SignalsKeepTheirGeneration == CallsSpec => []SignalsStayInGeneration
<1>1. CallsInv => SignalsStayInGeneration
  BY DEF CallsInv, SignalSound, SignalsStayInGeneration, Forwards, Open
<1> QED
  BY <1>1, CallsInvariant, PTL

\* No step of the registry extends or replaces a pending invitation, and an answer counts
\* only within the ringing window and for the invitation of this very ringing.
THEOREM AnswersWithinTheWindow == CallsSpec => AnswersAreTimely
<1>1. CallsInv /\ [CallsNext]_callVars =>
        [\A s \in CallScopes : SameCall(s) => RingsUntilItsEnd(s) /\ AnsweredInTime(s)]_callVars
  <2> SUFFICES ASSUME CallsInv, [CallsNext]_callVars, NEW s \in CallScopes, SameCall(s)
               PROVE  RingsUntilItsEnd(s) /\ AnsweredInTime(s)
    OBVIOUS
  <2>1. Timely(calls[s], calls'[s])
    BY StepsSound DEF SoundStep, SameCall
  <2> QED
    BY <2>1 DEF Timely, RingsUntilItsEnd, AnsweredInTime
<1> QED
  BY <1>1, CallsInvariant, PTL DEF CallsSpec, AnswersAreTimely
=============================================================================
