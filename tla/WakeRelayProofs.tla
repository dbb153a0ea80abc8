--------------------------- MODULE WakeRelayProofs ---------------------------
(***************************************************************************)
(* Theorems about WakeRelay, for any events, senders, policies and limits, *)
(* and any number of registrations.                                        *)
(*                                                                         *)
(* The invariant says what the tables owe each other: a row waits in its   *)
(* own scope and is neither recorded as delivered nor as read; what is     *)
(* recorded is in the ledger; and who holds the gate holds it for a        *)
(* registration that cannot come back once it is over.                     *)
(***************************************************************************)
EXTENDS WakeRelay, FiniteSetTheorems, TLAPS

-----------------------------------------------------------------------------
(* Types and limits.                                                        *)

QueueRow(s, row) ==
    /\ row.event \in Events /\ ScopeOf[row.event] = s
    /\ row.expires \in Nat

\* A row waits in the scope of its event, and a route was registered.
TypeInv ==
    /\ WakeTypeOK
    /\ IsFiniteSet(DOMAIN queue) /\ IsFiniteSet(DOMAIN events)
    /\ \A s \in DOMAIN queue : QueueRow(s, queue[s])
    /\ budget \in Nat
    /\ route # "none" => registered # 0
    /\ gate.kind # "free" => gate.of \in 1 .. registered
    /\ gate.kind \in {"selected", "sending"} => ScopeOf[gate.event] \in Scopes

\* A table that only lost rows.
LEMMA Shrinks ==
    ASSUME NEW S, IsFiniteSet(S), NEW T \in SUBSET S, NEW limit \in Nat,
           Cardinality(S) =< limit
    PROVE  IsFiniteSet(T) /\ Cardinality(T) =< limit
<1>1. IsFiniteSet(T) /\ Cardinality(T) =< Cardinality(S)
  BY FS_Subset
<1>2. Cardinality(S) \in Nat /\ Cardinality(T) \in Nat
  BY <1>1, FS_CardinalityType
<1> QED
  BY <1>1, <1>2

\* A table that has room for one more row.
LEMMA Grows ==
    ASSUME NEW S, IsFiniteSet(S), NEW x, NEW limit \in Nat, Cardinality(S) < limit
    PROVE  IsFiniteSet(S \cup {x}) /\ Cardinality(S \cup {x}) =< limit
<1>1. /\ IsFiniteSet(S \cup {x})
      /\ Cardinality(S \cup {x}) = Cardinality(S) \/ Cardinality(S \cup {x}) = Cardinality(S) + 1
  BY FS_AddElement
<1>2. Cardinality(S) \in Nat
  BY FS_CardinalityType
<1> QED
  BY <1>1, <1>2

LEMMA NothingIsEmpty == DOMAIN Nothing = {} /\ IsFiniteSet({}) /\ Cardinality({}) = 0
BY FS_EmptySet DEF Nothing

LEMMA WakeLimits ==
    /\ {LedgerLife, RingLife, RingMargin, GateWait, QueueLimit, EventLimit, MaxWakeTime,
        MaxRegistrations, UntrustedGap} \subseteq Nat
    /\ UntrustedGap # 0 /\ GateWait =< RingMargin
    /\ \A e \in Events : ScopeOf[e] \in Scopes
    /\ \A g \in Rings : Until[g] \in Nat
BY WakeAssumption

-----------------------------------------------------------------------------
(* Steps that share an effect.                                              *)

\* The tables are as they were.
Rests == UNCHANGED <<policy, scopes, queue, attention, events, budget, binding, read, sent,
                     latest>>

\* The tables are gone with the route.
Cleared ==
    /\ policy' = NoPolicy /\ scopes' = Nothing /\ queue' = Nothing /\ attention' = Nothing
    /\ events' = Nothing /\ budget' = 0 /\ binding' = FALSE
    /\ read' = Nothing /\ sent' = {} /\ latest' = Nothing

\* The route keeps its tables; a challenge is sent again, answered, or shown to be lost.
RouteRests ==
    /\ Rests /\ UNCHANGED <<time, erased, registered, gate, rings, rung>>
    /\ \/ route' = route
       \/ /\ route \in {"pending", "active"} /\ route' \in {"active", "lapsed"}
          /\ challenges' = challenges
    /\ \/ challenges' \subseteq challenges
       \/ route = "pending" /\ challenges' = challenges \cup {registered}

\* The route goes: it had expired or was never confirmed, or nothing is being delivered.
RouteEnds ==
    /\ Cleared /\ route' = "none" /\ UNCHANGED <<time, registered, gate, rings, rung>>
    /\ challenges' \subseteq challenges
    /\ gate.kind = "free" \/ route \in {"pending", "lapsed"}
    /\ challenges' # challenges => route # "active"
    /\ erased' = erased \/ (gate.kind = "free" /\ erased' = erased \cup {"owner"})

RouteBegins ==
    /\ Cleared /\ UNCHANGED <<time, erased, gate, rings, rung>>
    /\ route \in {"none", "lapsed"} /\ route' = "pending"
    /\ registered < MaxRegistrations /\ registered' = registered + 1
    /\ challenges' = challenges \cup {registered'}

LEMMA RouteSteps ==
    ASSUME Routes
    PROVE  RouteRests \/ RouteEnds \/ RouteBegins
<1>1. CASE Register
  BY <1>1 DEF Register, Cleared, RouteBegins
<1>2. CASE RegisterAgain
  BY <1>2 DEF RegisterAgain, Rests, Tables, RouteRests
<1>3. CASE Confirm \/ Lapse
  BY <1>3 DEF Confirm, Lapse, Rests, Tables, RouteRests
<1>4. ASSUME NoRoute, UNCHANGED <<time, registered, gate, rings, rung>>,
             challenges' \subseteq challenges,
             gate.kind = "free" \/ route \in {"pending", "lapsed"},
             challenges' # challenges => route # "active",
             erased' = erased \/ (gate.kind = "free" /\ erased' = erased \cup {"owner"})
      PROVE  RouteEnds
  BY <1>4 DEF NoRoute, Cleared, RouteEnds
<1>5. CASE Purge \/ Remove \/ EraseOwner
  BY <1>4, <1>5 DEF Purge, Remove, EraseOwner
<1>6. ASSUME NEW c \in challenges, ChallengeFails(c)
      PROVE  RouteRests \/ RouteEnds
  <2>1. CASE c = registered /\ route = "pending"
    BY <1>4, <1>6, <2>1 DEF ChallengeFails
  <2>2. CASE ~(c = registered /\ route = "pending")
    BY <1>6, <2>2 DEF ChallengeFails, Rests, Tables, RouteRests
  <2> QED
    BY <2>1, <2>2
<1> QED
  BY <1>1, <1>2, <1>3, <1>5, <1>6 DEF Routes

\* The worker cleans up: the route goes, or rows that have expired.
LEMMA CleanSteps ==
    ASSUME Clean
    PROVE  \/ RouteEnds
           \/ /\ queue' = [t \in Live |-> queue[t]]
              /\ UNCHANGED <<time, route, registered, challenges, policy, scopes, attention,
                             events, budget, erased, binding, gate, rings, read, sent, rung,
                             latest>>
<1>1. CASE route = "lapsed"
  BY <1>1 DEF Clean, RouteEnds, Cleared, NoRoute
<1>2. CASE route # "lapsed"
  BY <1>2 DEF Clean
<1> QED
  BY <1>1, <1>2

\* Rows that a step leaves in the queue are as they were.
QueueShrinks ==
    /\ DOMAIN queue' \subseteq DOMAIN queue
    /\ \A s \in DOMAIN queue' : queue'[s] = queue[s]

LEMMA TypeKept ==
    ASSUME TypeInv, QueueShrinks, UNCHANGED <<route, registered, challenges>>,
           time' \in 0 .. MaxWakeTime,
           policy' = policy \/ (route = "active" /\ policy' \in Policies),
           binding' => binding \/ route = "active",
           DOMAIN attention' \subseteq Scopes,
           IsFiniteSet(DOMAIN events'), Cardinality(DOMAIN events') =< EventLimit,
           budget' \in Nat,
           \/ gate'.kind = "free"
           \/ /\ gate'.kind \in {"selected", "sending", "ringing"}
              /\ gate'.of \in 1 .. registered
              /\ gate'.kind # "ringing" => ScopeOf[gate'.event] \in Scopes
    PROVE  TypeInv'
<1>1. IsFiniteSet(DOMAIN queue') /\ Cardinality(DOMAIN queue') =< QueueLimit
  BY Shrinks, WakeLimits DEF TypeInv, WakeTypeOK, QueueShrinks
<1>2. \A s \in DOMAIN queue' : QueueRow(s, queue'[s])
  BY DEF TypeInv, QueueShrinks
<1>3. WakeTypeOK'
  BY <1>1 DEF TypeInv, WakeTypeOK, QueueShrinks
<1> QED
  BY <1>1, <1>2, <1>3 DEF TypeInv, QueueRow

LEMMA RouteTypes ==
    ASSUME TypeInv, RouteRests \/ RouteEnds \/ RouteBegins
    PROVE  TypeInv'
<1>1. CASE RouteRests
  <2>1. registered \in Nat /\ challenges \subseteq 1 .. registered
        /\ (route = "pending" => registered # 0)
    BY DEF TypeInv, WakeTypeOK
  <2>2. challenges' \subseteq 1 .. registered
    <3>1. CASE challenges' \subseteq challenges
      BY <2>1, <3>1
    <3>2. CASE route = "pending" /\ challenges' = challenges \cup {registered}
      <4>1. registered \in 1 .. registered
        BY <2>1, <3>2
      <4> QED
        BY <2>1, <3>2, <4>1
    <3> QED
      BY <1>1, <3>1, <3>2 DEF RouteRests
  <2>3. /\ Rests /\ UNCHANGED <<time, registered, gate>>
        /\ route' \in {"none", "pending", "active", "lapsed"}
        /\ route' \in {"none", "pending"} => route' = route
        /\ route' # "none" => route # "none"
    BY <1>1 DEF RouteRests, TypeInv, WakeTypeOK
  <2>4. WakeTypeOK'
    BY <2>2, <2>3 DEF Rests, TypeInv, WakeTypeOK
  <2> QED
    BY <2>3, <2>4 DEF Rests, TypeInv, QueueRow
<1>2. CASE RouteEnds
  BY <1>2, NothingIsEmpty, WakeLimits DEF RouteEnds, Cleared, TypeInv, WakeTypeOK
<1>3. CASE RouteBegins
  BY <1>3, NothingIsEmpty, WakeLimits DEF RouteBegins, Cleared, TypeInv, WakeTypeOK
<1> QED
  BY <1>1, <1>2, <1>3

LEMMA WakeTypes ==
    ASSUME TypeInv, NEW e \in Events, Wake(e)
    PROVE  TypeInv'
<1>1. /\ UNCHANGED <<time, route, registered, challenges, policy, binding, attention, gate>>
      /\ route = "active" /\ Cardinality(DOMAIN queue) < QueueLimit
      /\ Cardinality(DOMAIN events \ Outdated) < EventLimit
      /\ events' = With(Less(events, Outdated), e, time + LedgerLife)
      /\ budget' = IF Trusted(e) THEN budget ELSE time + UntrustedGap
  BY DEF Wake
<1>2. PICK until \in Nat : queue' = With(Less(queue, Displaced(e)), ScopeOf[e],
                                         [event |-> e, expires |-> until])
  <2>1. time \in Nat
    BY DEF TypeInv, WakeTypeOK
  <2>2. \A until : until = time + (IF e \in Brief THEN RingLife ELSE LedgerLife)
          => until \in Nat
    BY <2>1, WakeLimits
  <2> QED
    BY <2>2 DEF Wake
<1>3. budget' \in Nat
  BY <1>1, WakeLimits DEF TypeInv, WakeTypeOK
<1>4. IsFiniteSet(DOMAIN events') /\ Cardinality(DOMAIN events') =< EventLimit
  <2>1. DOMAIN events' = (DOMAIN events \ Outdated) \cup {e}
    BY <1>1 DEF With, Less
  <2>2. IsFiniteSet(DOMAIN events \ Outdated)
    BY FS_Subset DEF TypeInv
  <2> QED
    BY <1>1, <2>1, <2>2, Grows, WakeLimits
<1>5. IsFiniteSet(DOMAIN queue') /\ Cardinality(DOMAIN queue') =< QueueLimit
  <2>1. DOMAIN queue' \subseteq DOMAIN queue \cup {ScopeOf[e]}
    BY <1>2 DEF With, Less
  <2>2. /\ IsFiniteSet(DOMAIN queue \cup {ScopeOf[e]})
        /\ Cardinality(DOMAIN queue \cup {ScopeOf[e]}) =< QueueLimit
    BY <1>1, Grows, WakeLimits DEF TypeInv
  <2> QED
    BY <2>1, <2>2, Shrinks, WakeLimits
<1>6. \A s \in DOMAIN queue' : s \in Scopes /\ QueueRow(s, queue'[s])
  BY <1>2, WakeLimits DEF With, Less, TypeInv, WakeTypeOK, QueueRow
<1>7. WakeTypeOK'
  BY <1>1, <1>4, <1>5, <1>6 DEF TypeInv, WakeTypeOK
<1> QED
  BY <1>1, <1>3, <1>4, <1>5, <1>6, <1>7 DEF TypeInv, QueueRow

LEMMA TypeStep ==
    ASSUME TypeInv, [WakeNext]_wakeVars
    PROVE  TypeInv'
<1>1. /\ time \in 0 .. MaxWakeTime /\ budget \in Nat /\ DOMAIN attention \subseteq Scopes
      /\ IsFiniteSet(DOMAIN events) /\ Cardinality(DOMAIN events) =< EventLimit
      /\ EventLimit \in Nat
      /\ gate.kind \in {"free", "selected", "sending", "ringing"}
      /\ gate.kind # "free" => gate.of \in 1 .. registered
      /\ gate.kind \in {"selected", "sending"} => ScopeOf[gate.event] \in Scopes
  BY WakeLimits DEF TypeInv, WakeTypeOK
<1>2. ASSUME UNCHANGED <<time, route, registered, challenges, events, budget>>,
             policy' = policy, binding' => binding \/ route = "active", QueueShrinks,
             DOMAIN attention' \subseteq Scopes,
             gate' = gate \/ gate'.kind = "free"
      PROVE  TypeInv'
  BY <1>1, <1>2, TypeKept
<1>3. CASE Routes
  BY <1>3, RouteSteps, RouteTypes
<1>4. ASSUME NEW x \in Senders, EraseSender(x)
      PROVE  TypeInv'
  <2> DEFINE gone == {s \in DOMAIN queue : SenderOf[queue[s].event] = x}
  <2>1. /\ UNCHANGED <<time, route, registered, challenges, policy, budget, binding, gate>>
        /\ queue' = Less(queue, gone) /\ attention' = Less(attention, gone)
        /\ DOMAIN events' \subseteq DOMAIN events
    BY <1>4 DEF EraseSender, Less
  <2>2. QueueShrinks /\ DOMAIN attention' \subseteq Scopes
    BY <1>1, <2>1 DEF Less, QueueShrinks
  <2>3. IsFiniteSet(DOMAIN events') /\ Cardinality(DOMAIN events') =< EventLimit
    BY <1>1, <2>1, Shrinks
  <2> HIDE DEF gone
  <2> QED
    BY <1>1, <2>1, <2>2, <2>3, TypeKept
<1>5. ASSUME NEW p \in Policies, SetPolicy(p)
      PROVE  TypeInv'
  <2>1. /\ UNCHANGED <<time, route, registered, challenges, events, budget, binding, gate>>
        /\ route = "active" /\ policy' = p
    BY <1>5 DEF SetPolicy
  <2>2. QueueShrinks
    BY <1>5 DEF SetPolicy, QueueShrinks
  <2>3. DOMAIN attention' \subseteq Scopes
    BY <1>1, <1>5 DEF SetPolicy, Less
  <2> QED
    BY <1>1, <2>1, <2>2, <2>3, TypeKept
<1>6. ASSUME NEW e \in Events, Wake(e) \/ Read(e)
      PROVE  TypeInv'
  <2>1. CASE Wake(e)
    BY <2>1, WakeTypes
  <2>2. CASE Read(e)
    <3> DEFINE kept == Less(events, Outdated)
    <3>1. /\ UNCHANGED <<time, route, registered, challenges, policy, budget, binding, gate>>
          /\ events' = Recalled(e, kept)
          /\ DOMAIN attention' \subseteq Scopes /\ QueueShrinks
      BY <1>1, <2>2 DEF Read, Less, QueueShrinks
    <3>2. DOMAIN kept \subseteq DOMAIN events
      BY DEF Less
    <3>3. IsFiniteSet(DOMAIN kept) /\ Cardinality(DOMAIN kept) =< EventLimit
      BY <1>1, <3>2, Shrinks
    <3> HIDE DEF kept
    <3>4. \/ DOMAIN events' = DOMAIN kept
          \/ DOMAIN events' = DOMAIN kept \cup {e} /\ Cardinality(DOMAIN kept) < EventLimit
      BY <3>1 DEF Recalled, With
    <3>5. IsFiniteSet(DOMAIN events') /\ Cardinality(DOMAIN events') =< EventLimit
      BY <1>1, <3>3, <3>4, Grows
    <3> QED
      BY <1>1, <3>1, <3>5, TypeKept
  <2> QED
    BY <1>6, <2>1, <2>2
<1>7. CASE Delivery
  <2>1. ASSUME NEW s \in Scopes, Select(s)
        PROVE  TypeInv'
    <3>1. /\ UNCHANGED <<time, route, registered, challenges, policy, budget, binding, events,
                         attention>>
          /\ s \in DOMAIN queue /\ route = "active"
          /\ gate' = [kind |-> "selected", event |-> queue[s].event, of |-> registered]
          /\ QueueShrinks
      BY <2>1 DEF Select, Live, QueueShrinks
    <3>2. registered \in 1 .. registered /\ ScopeOf[queue[s].event] = s
      BY <3>1 DEF TypeInv, WakeTypeOK, QueueRow
    <3> QED
      BY <1>1, <3>1, <3>2, TypeKept
  <2>2. CASE Send
    <3>1. /\ UNCHANGED <<time, route, registered, challenges, Tables>>
          /\ gate.kind = "selected" /\ gate'.kind = "sending" /\ gate'.of = gate.of
          /\ gate'.event = gate.event
      BY <2>2 DEF Send
    <3>2. QueueShrinks
      BY <3>1 DEF Tables, QueueShrinks
    <3> QED
      BY <1>1, <3>1, <3>2, TypeKept DEF Tables
  <2>3. CASE Sent
    <3>1. /\ UNCHANGED <<time, route, registered, challenges, policy, budget, binding, events>>
          /\ gate.kind = "sending" /\ gate'.kind = "free" /\ QueueShrinks
          /\ DOMAIN attention' = DOMAIN attention \cup {ScopeOf[gate.event]}
      BY <2>3 DEF Sent, Less, With, QueueShrinks, Free
    <3> QED
      BY <1>1, <1>2, <3>1
  <2>4. CASE Unregistered
    BY <2>4, NothingIsEmpty, WakeLimits
       DEF Unregistered, NoRoute, Free, TypeInv, WakeTypeOK
  <2>5. CASE NotSent
    <3>1. /\ UNCHANGED <<time, route, registered, challenges, policy, budget, binding, events,
                         queue, attention>>
          /\ gate'.kind = "free"
      BY <2>5 DEF NotSent, Tables, Free
    <3> QED
      BY <1>1, <1>2, <3>1 DEF QueueShrinks
  <2>6. CASE Clean
    <3>1. CASE RouteEnds
      BY <3>1, RouteTypes
    <3>2. ASSUME queue' = [t \in Live |-> queue[t]],
                 UNCHANGED <<time, route, registered, challenges, policy, budget, binding,
                             events, attention, gate>>
          PROVE  TypeInv'
      <4>1. QueueShrinks
        BY <3>2 DEF QueueShrinks, Live
      <4> QED
        BY <1>1, <1>2, <3>2, <4>1
    <3> QED
      BY <2>6, <3>1, <3>2, CleanSteps
  <2> QED
    BY <1>7, <2>1, <2>2, <2>3, <2>4, <2>5, <2>6 DEF Delivery
<1>8. ASSUME UNCHANGED <<time, route, registered, challenges, policy, budget, queue, events,
                         attention>>,
             binding' => binding \/ route = "active", gate' = gate \/ gate'.kind = "free"
      PROVE  TypeInv'
  BY <1>1, <1>2, <1>8 DEF QueueShrinks
<1>9. CASE Calls
  <2>1. CASE (\E g \in Rings : Ask(g)) \/ Rang \/ Bind(TRUE) \/ Bind(FALSE)
    <3>1. UNCHANGED <<time, route, registered, challenges, policy, budget, queue, events,
                      attention>>
      BY <2>1 DEF Ask, Rang, Bind, Tables
    <3>2. binding' => binding \/ route = "active"
      BY <2>1 DEF Ask, Rang, Bind, Tables
    <3>3. gate' = gate \/ gate' = Free
      BY <2>1 DEF Ask, Rang, Bind
    <3>4. Free.kind = "free"
      BY DEF Free
    <3> QED
      BY <1>8, <3>1, <3>2, <3>3, <3>4
  <2>2. CASE RingFails(TRUE) \/ RingFails(FALSE)
    <3>1. /\ UNCHANGED <<time, route, registered, challenges, policy, budget, queue, attention>>
          /\ gate'.kind = "free" /\ DOMAIN events' \subseteq DOMAIN events
      BY <2>2 DEF RingFails, Less, Free
    <3>3. binding' => binding
      BY <2>2 DEF RingFails
    <3>2. IsFiniteSet(DOMAIN events') /\ Cardinality(DOMAIN events') =< EventLimit
      BY <1>1, <3>1, Shrinks
    <3> QED
      BY <1>1, <3>1, <3>2, <3>3, TypeKept DEF QueueShrinks
  <2>3. ASSUME NEW w \in rings, Ring(w)
        PROVE  TypeInv'
    <3> DEFINE past == {e \in DOMAIN events : events[e] =< w.at}
               kept == Less(events, past)
               new == w.event \notin DOMAIN kept /\ Cardinality(DOMAIN kept) < EventLimit
    <3>1. UNCHANGED <<time, route, registered, challenges, policy, budget, queue, attention,
                      binding>>
      BY <2>3 DEF Ring
    <3>2. DOMAIN kept \subseteq DOMAIN events
      BY DEF Less
    <3>3. \/ UNCHANGED <<events, gate>>
          \/ /\ route = "active"
             /\ events' = IF new THEN With(kept, w.event, RememberedUntil(w.event)) ELSE kept
             /\ gate' = IF new
                        THEN [kind |-> "ringing", event |-> w.event, of |-> registered]
                        ELSE gate
      BY <2>3 DEF Ring
    <3> HIDE DEF kept
    <3>4. IsFiniteSet(DOMAIN kept) /\ Cardinality(DOMAIN kept) =< EventLimit
      BY <1>1, <3>2, Shrinks
    <3>5. \/ DOMAIN events' = DOMAIN events
          \/ DOMAIN events' = DOMAIN kept
          \/ DOMAIN events' = DOMAIN kept \cup {w.event} /\ Cardinality(DOMAIN kept) < EventLimit
      BY <3>3 DEF With
    <3>6. IsFiniteSet(DOMAIN events') /\ Cardinality(DOMAIN events') =< EventLimit
      BY <1>1, <3>4, <3>5, Grows
    <3>7. \/ gate' = gate
          \/ gate'.kind = "ringing" /\ gate'.of = registered /\ route = "active"
      BY <3>3
    <3>8. route = "active" => registered \in 1 .. registered
      BY DEF TypeInv, WakeTypeOK
    <3> QED
      BY <1>1, <3>1, <3>6, <3>7, <3>8, TypeKept DEF QueueShrinks
  <2> QED
    BY <1>9, <2>1, <2>2, <2>3 DEF Calls
<1>10. CASE Elapse
  <2>1. time' \in 0 .. MaxWakeTime /\ UNCHANGED <<route, registered, challenges, Tables, gate>>
    BY <1>1, <1>10, WakeLimits DEF Elapse
  <2> QED
    BY <1>1, <2>1, TypeKept DEF QueueShrinks, Tables
<1>11. CASE UNCHANGED wakeVars
  BY <1>8, <1>11 DEF wakeVars
<1> QED
  BY <1>3, <1>4, <1>5, <1>6, <1>7, <1>9, <1>10, <1>11 DEF WakeNext

-----------------------------------------------------------------------------
(* What is delivered, read and remembered.                                  *)

\* Recorded as delivered, or as read while the ledger had room to remember it.
Recorded == sent \cup {e \in DOMAIN read : read[e]}

\* What is recorded is in the ledger; what waits or is in hand is not recorded.
LedgerInv ==
    /\ Recorded \subseteq DOMAIN events
    /\ \A s \in DOMAIN queue : queue[s].event \notin Recorded
    /\ gate.kind # "free" => gate.event \notin Recorded

\* The last delivery since a scope was re-armed holds its attention.
AttentionInv == \A s \in DOMAIN latest : s \in DOMAIN attention /\ attention[s] = latest[s]

LEMMA LedgerKept ==
    ASSUME LedgerInv, QueueShrinks, UNCHANGED <<events, sent, read>>,
           gate' = gate \/ gate'.kind = "free"
    PROVE  LedgerInv'
BY DEF LedgerInv, QueueShrinks, Recorded

LEMMA LedgerCleared ==
    ASSUME Cleared
    PROVE  LedgerInv' /\ AttentionInv'
<1>1. DOMAIN queue' = {} /\ DOMAIN latest' = {} /\ DOMAIN read' = {} /\ sent' = {}
  BY NothingIsEmpty DEF Cleared
<1>2. Recorded' = {}
  BY <1>1 DEF Recorded
<1> QED
  BY <1>1, <1>2 DEF LedgerInv, AttentionInv

\* The ledger loses what is out of date, with what is recorded of it.
LEMMA LedgerCleaned ==
    ASSUME LedgerInv, NEW past \in SUBSET DOMAIN events,
           read' = Less(read, past), sent' = sent \ past
    PROVE  Recorded' \subseteq Recorded \ past
BY DEF Recorded, Less

LEMMA LedgerStep ==
    ASSUME TypeInv, LedgerInv, [WakeNext]_wakeVars
    PROVE  LedgerInv'
<1>0. Free.kind = "free"
  BY DEF Free
<1>1. ASSUME RouteRests \/ RouteEnds \/ RouteBegins
      PROVE  LedgerInv'
  <2>1. CASE RouteRests
    BY <2>1, LedgerKept DEF RouteRests, Rests, QueueShrinks
  <2> QED
    BY <1>1, <2>1, LedgerCleared DEF RouteEnds, RouteBegins
<1>2. ASSUME NEW x \in Senders, EraseSender(x)
      PROVE  LedgerInv'
  <2> DEFINE gone == {s \in DOMAIN queue : SenderOf[queue[s].event] = x}
  <2>1. /\ UNCHANGED <<read, sent, gate>> /\ gate.kind = "free"
        /\ queue' = Less(queue, gone)
        /\ events' = Less(events, {queue[s].event : s \in gone})
    BY <1>2 DEF EraseSender
  <2>2. Recorded' = Recorded /\ Recorded \cap {queue[s].event : s \in gone} = {}
    BY <2>1 DEF LedgerInv, Recorded
  <2>3. Recorded' \subseteq DOMAIN events'
    BY <2>1, <2>2 DEF LedgerInv, Less
  <2>4. \A s \in DOMAIN queue' : queue'[s].event \notin Recorded'
    BY <2>1, <2>2 DEF LedgerInv, Less
  <2> QED
    BY <2>1, <2>3, <2>4 DEF LedgerInv
<1>3. ASSUME NEW p \in Policies, SetPolicy(p)
      PROVE  LedgerInv'
  <2>1. QueueShrinks /\ UNCHANGED <<events, sent, read, gate>>
    BY <1>3 DEF SetPolicy, QueueShrinks
  <2> QED
    BY <2>1, LedgerKept
<1>4. ASSUME NEW e \in Events, Wake(e)
      PROVE  LedgerInv'
  <2>1. /\ read' = Less(read, Outdated) /\ sent' = sent \ Outdated /\ gate' = gate
        /\ e \notin DOMAIN events
        /\ events' = With(Less(events, Outdated), e, time + LedgerLife)
    BY <1>4 DEF Wake, Unseen
  <2>2. Recorded' \subseteq Recorded \ Outdated
    BY <2>1, LedgerCleaned DEF Outdated
  <2>3. Recorded' \subseteq DOMAIN events' /\ e \notin Recorded'
    BY <2>1, <2>2 DEF LedgerInv, With, Less
  <2>4. \A s \in DOMAIN queue' : queue'[s].event = e \/ (s \in DOMAIN queue /\ queue'[s] = queue[s])
    BY <1>4 DEF Wake, With, Less
  <2> QED
    BY <2>1, <2>2, <2>3, <2>4 DEF LedgerInv
<1>5. ASSUME NEW e \in Events, Read(e)
      PROVE  LedgerInv'
  <2> DEFINE kept == Less(events, Outdated)
             room == e \in DOMAIN kept \/ Cardinality(DOMAIN kept) < EventLimit
  <2>1. /\ read' = With(Less(read, Outdated), e, room) /\ sent' = sent \ Outdated
        /\ gate' = gate /\ gate.kind = "free"
        /\ events' = Recalled(e, kept)
        /\ queue' = Less(queue, {s \in DOMAIN queue : s = ScopeOf[e] /\ queue[s].event = e})
    BY <1>5 DEF Read
  <2>2. DOMAIN kept = DOMAIN events \ Outdated
    BY DEF Less
  <2> HIDE DEF kept
  <2>3. DOMAIN kept \subseteq DOMAIN events' /\ (room => e \in DOMAIN events')
    BY <2>1 DEF Recalled, With
  <2> HIDE DEF room
  <2>4. Recorded' \subseteq (Recorded \ Outdated) \cup {e}
    BY <2>1 DEF Recorded, With, Less
  <2>5. e \in Recorded' => room \/ e \in sent \ Outdated
    BY <2>1 DEF Recorded, With
  <2>6. Recorded' \subseteq DOMAIN events'
    <3>1. sent \subseteq DOMAIN events /\ Recorded \ Outdated \subseteq DOMAIN kept
      BY <2>2 DEF LedgerInv, Recorded
    <3> QED
      BY <2>2, <2>3, <2>4, <2>5, <3>1
  <2>7. \A s \in DOMAIN queue' : /\ s \in DOMAIN queue /\ queue'[s] = queue[s]
                                 /\ queue'[s].event # e
    BY <2>1 DEF Less, TypeInv, QueueRow
  <2> QED
    BY <2>1, <2>4, <2>6, <2>7 DEF LedgerInv
<1>6. CASE Delivery
  <2>1. ASSUME NEW s \in Scopes, Select(s)
        PROVE  LedgerInv'
    <3>1. /\ QueueShrinks /\ UNCHANGED <<events, sent, read>> /\ s \in DOMAIN queue
          /\ gate'.event = queue[s].event
      BY <2>1 DEF Select, Live, QueueShrinks
    <3> QED
      BY <3>1 DEF LedgerInv, QueueShrinks, Recorded
  <2>2. CASE Send
    <3>1. /\ UNCHANGED <<events, sent, read, queue>>
          /\ gate.kind # "free" /\ gate'.event = gate.event
      BY <2>2 DEF Send, Tables
    <3> QED
      BY <3>1 DEF LedgerInv, Recorded
  <2>3. CASE Sent
    <3>1. /\ UNCHANGED <<events, read>> /\ gate' = Free
          /\ sent' = sent \cup ({gate.event} \cap DOMAIN events)
          /\ queue' = Less(queue, Done(gate.event))
      BY <2>3 DEF Sent
    <3>2. /\ Recorded' \subseteq Recorded \cup {gate.event}
          /\ gate.event \in Recorded' => gate.event \in Recorded \/ gate.event \in DOMAIN events
      BY <3>1 DEF Recorded
    <3>3. \A s \in DOMAIN queue' : /\ s \in DOMAIN queue /\ queue'[s] = queue[s]
                                   /\ queue'[s].event # gate.event
      BY <3>1 DEF Less, Done, TypeInv, QueueRow
    <3> QED
      BY <1>0, <3>1, <3>2, <3>3 DEF LedgerInv
  <2>4. CASE Unregistered
    BY <2>4, LedgerCleared DEF Unregistered, NoRoute, Cleared
  <2>5. CASE NotSent
    <3>1. UNCHANGED <<events, sent, read, queue>> /\ gate' = Free
      BY <2>5 DEF NotSent, Tables
    <3> QED
      BY <1>0, <3>1, LedgerKept DEF QueueShrinks
  <2>6. CASE Clean
    <3>1. ASSUME queue' = [t \in Live |-> queue[t]], UNCHANGED <<events, sent, read, gate>>
          PROVE  LedgerInv'
      <4>1. QueueShrinks
        BY <3>1 DEF QueueShrinks, Live
      <4> QED
        BY <3>1, <4>1, LedgerKept
    <3> QED
      BY <1>1, <2>6, <3>1, CleanSteps
  <2> QED
    BY <1>6, <2>1, <2>2, <2>3, <2>4, <2>5, <2>6 DEF Delivery
<1>7. CASE Calls
  <2>1. CASE (\E g \in Rings : Ask(g)) \/ Rang \/ Bind(TRUE) \/ Bind(FALSE)
    <3>1. UNCHANGED <<events, sent, read, queue>> /\ (gate' = gate \/ gate' = Free)
      BY <2>1 DEF Ask, Rang, Bind, Tables
    <3> QED
      BY <1>0, <3>1, LedgerKept DEF QueueShrinks
  <2>2. CASE RingFails(TRUE) \/ RingFails(FALSE)
    <3>1. /\ UNCHANGED <<sent, read, queue>> /\ gate' = Free /\ gate.kind = "ringing"
          /\ events' = Less(events, {gate.event})
      BY <2>2 DEF RingFails
    <3> QED
      BY <1>0, <3>1 DEF LedgerInv, Recorded, Less
  <2>3. ASSUME NEW w \in rings, Ring(w)
        PROVE  LedgerInv'
    <3> DEFINE past == {e \in DOMAIN events : events[e] =< w.at}
               kept == Less(events, past)
               new == w.event \notin DOMAIN kept /\ Cardinality(DOMAIN kept) < EventLimit
    <3>1. queue' = queue
      BY <2>3 DEF Ring
    <3>2. \/ UNCHANGED <<events, read, sent, gate>>
          \/ /\ events' = IF new THEN With(kept, w.event, RememberedUntil(w.event)) ELSE kept
             /\ read' = Less(read, past) /\ sent' = sent \ past
             /\ gate' = IF new
                        THEN [kind |-> "ringing", event |-> w.event, of |-> registered]
                        ELSE gate
      BY <2>3 DEF Ring
    <3>3. DOMAIN kept = DOMAIN events \ past /\ past \in SUBSET DOMAIN events
      BY DEF Less
    <3> HIDE DEF kept, past
    <3>4. ASSUME read' = Less(read, past), sent' = sent \ past,
                 events' = IF new THEN With(kept, w.event, RememberedUntil(w.event)) ELSE kept,
                 gate' = IF new
                         THEN [kind |-> "ringing", event |-> w.event, of |-> registered]
                         ELSE gate
          PROVE  LedgerInv'
      <4>1. Recorded' \subseteq Recorded \ past
        BY <3>3, <3>4, LedgerCleaned
      <4>2. DOMAIN kept \subseteq DOMAIN events'
        BY <3>4 DEF With
      <4>3. Recorded' \subseteq DOMAIN kept
        BY <3>3, <4>1 DEF LedgerInv
      <4>4. gate' = gate \/ gate'.event \notin DOMAIN kept
        BY <3>4
      <4> QED
        BY <3>1, <4>1, <4>2, <4>3, <4>4 DEF LedgerInv
    <3>5. CASE UNCHANGED <<events, read, sent, gate>>
      BY <3>1, <3>5, LedgerKept DEF QueueShrinks
    <3> QED
      BY <3>2, <3>4, <3>5
  <2> QED
    BY <1>7, <2>1, <2>2, <2>3 DEF Calls
<1>8. CASE Elapse \/ UNCHANGED wakeVars
  <2>1. UNCHANGED <<events, sent, read, queue, gate>>
    BY <1>8 DEF Elapse, Tables, wakeVars
  <2> QED
    BY <2>1, LedgerKept DEF QueueShrinks
<1> QED
  BY <1>1, <1>2, <1>3, <1>4, <1>5, <1>6, <1>7, <1>8, RouteSteps DEF WakeNext

LEMMA AttentionStep ==
    ASSUME AttentionInv, [WakeNext]_wakeVars
    PROVE  AttentionInv'
<1>1. ASSUME UNCHANGED <<attention, latest>>
      PROVE  AttentionInv'
  BY <1>1 DEF AttentionInv
<1>2. ASSUME RouteRests \/ RouteEnds \/ RouteBegins
      PROVE  AttentionInv'
  BY <1>1, <1>2, LedgerCleared DEF RouteRests, Rests, RouteEnds, RouteBegins
<1>3. ASSUME NEW x \in Senders, EraseSender(x)
      PROVE  AttentionInv'
  BY <1>3 DEF EraseSender, Less, AttentionInv
<1>4. ASSUME NEW p \in Policies, SetPolicy(p)
      PROVE  AttentionInv'
  BY <1>4 DEF SetPolicy, Less, AttentionInv
<1>5. ASSUME NEW e \in Events, Read(e)
      PROVE  AttentionInv'
  BY <1>5 DEF Read, Less, Rearmed, AttentionInv
<1>6. ASSUME NEW e \in Events, Wake(e)
      PROVE  AttentionInv'
  BY <1>1, <1>6 DEF Wake
<1>7. CASE Delivery
  <2>1. CASE Sent
    BY <2>1 DEF Sent, With, AttentionInv
  <2>2. CASE Unregistered
    BY <2>2, LedgerCleared DEF Unregistered, NoRoute, Cleared
  <2>3. CASE Clean
    BY <1>1, <1>2, <2>3, CleanSteps
  <2>4. CASE (\E s \in Scopes : Select(s)) \/ Send \/ NotSent
    <3>1. UNCHANGED <<attention, latest>>
      BY <2>4 DEF Select, Send, NotSent, Tables
    <3> QED
      BY <1>1, <3>1
  <2> QED
    BY <1>7, <2>1, <2>2, <2>3, <2>4 DEF Delivery
<1>8. CASE Calls \/ Elapse \/ UNCHANGED wakeVars
  <2>1. UNCHANGED <<attention, latest>>
    BY <1>8 DEF Calls, Ask, Ring, Rang, RingFails, Bind, Elapse, Tables, wakeVars
  <2> QED
    BY <1>1, <2>1
<1> QED
  BY <1>2, <1>3, <1>4, <1>5, <1>6, <1>7, <1>8, RouteSteps DEF WakeNext

-----------------------------------------------------------------------------
(* Who holds the gate.                                                      *)

\* A delivery of this registration began when it was confirmed.
HeldInv == gate.kind # "free" /\ gate.of = registered => route # "pending"

GateInv == HeldInv /\ Honoured /\ AlertsOnce

SendersStand == \A s \in DOMAIN queue : SenderOf[queue[s].event] \notin erased

\* What is in hand stays in hand, or its route is over for good.
LEMMA HandKept ==
    ASSUME GateInv, UNCHANGED <<gate, registered, policy, scopes, erased, binding, latest>>,
           route' = "active" => route \in {"pending", "active"},
           route' = "pending" => route = "pending",
           SendersStand'
    PROVE  GateInv'
<1>1. HeldInv'
  BY DEF GateInv, HeldInv
<1>2. gate.kind # "free" /\ gate.of = registered /\ route' = "active" => route = "active"
  BY DEF GateInv, HeldInv
<1>3. Honoured'
  BY <1>2 DEF GateInv, Honoured, InHand, SendersStand, Qualifies, MayRing, Enabled, Trusted
<1>4. AlertsOnce'
  BY <1>2 DEF GateInv, AlertsOnce, InHand, Repeats
<1> QED
  BY <1>1, <1>3, <1>4 DEF GateInv

LEMMA HandEmpty ==
    ASSUME gate'.kind = "free" \/ ~(gate'.of = registered' /\ route' \in {"active", "pending"}),
           SendersStand'
    PROVE  GateInv'
BY DEF GateInv, HeldInv, Honoured, AlertsOnce, InHand, SendersStand

LEMMA SendGate ==
    ASSUME AttentionInv, GateInv, Send
    PROVE  GateInv'
<1> DEFINE s == ScopeOf[gate.event]
<1>1. /\ UNCHANGED <<route, registered, Tables, erased>> /\ gate.kind = "selected"
      /\ gate' = [kind |-> "sending", event |-> gate.event, of |-> gate.of, quiet |-> Quiet(s)]
  BY DEF Send
<1>2. gate'.kind = "sending" /\ gate'.event = gate.event /\ gate'.of = gate.of
  BY <1>1
<1>3. HeldInv'
  BY <1>1, <1>2 DEF GateInv, HeldInv
<1>4. Honoured'
  <2>1. InHand({"selected", "sending"})' => InHand({"selected", "sending"})
    BY <1>1, <1>2 DEF InHand
  <2>2. ~InHand({"ringing"})'
    BY <1>2 DEF InHand
  <2>3. Qualifies(gate.event)' = Qualifies(gate.event)
    BY <1>1, <1>2 DEF Qualifies, Tables
  <2> QED
    BY <1>1, <1>2, <2>1, <2>2, <2>3 DEF GateInv, Honoured, Tables
<1>5. AlertsOnce'
  <2>1. ASSUME ~gate'.quiet, ~Repeats(s)
        PROVE  s \notin DOMAIN latest
    <3>1. ~Quiet(s)
      BY <1>1, <2>1
    <3>2. s \notin DOMAIN attention
      BY <2>1, <3>1 DEF Quiet
    <3> QED
      BY <3>2 DEF AttentionInv
  <2>2. latest' = latest /\ policy' = policy
    BY <1>1 DEF Tables
  <2>3. Repeats(s)' <=> Repeats(s)
    BY <1>2, <2>2 DEF Repeats
  <2> QED
    BY <1>2, <2>1, <2>2, <2>3 DEF AlertsOnce, Repeats
<1> QED
  BY <1>3, <1>4, <1>5 DEF GateInv

LEMMA GateStep ==
    ASSUME TypeInv, AttentionInv, GateInv, [WakeNext]_wakeVars
    PROVE  GateInv'
<1>0. Free.kind = "free" /\ SendersStand
  BY DEF Free, GateInv, Honoured, SendersStand
<1>1. ASSUME QueueShrinks, erased' = erased
      PROVE  SendersStand'
  BY <1>0, <1>1 DEF SendersStand, QueueShrinks
<1>2. ASSUME queue' = Nothing
      PROVE  SendersStand'
  BY <1>2, NothingIsEmpty DEF SendersStand
<1>3. ASSUME RouteRests \/ RouteEnds \/ RouteBegins
      PROVE  GateInv'
  <2>1. CASE RouteRests
    <3>1. QueueShrinks /\ erased' = erased
      BY <2>1 DEF RouteRests, Rests, QueueShrinks
    <3> QED
      BY <1>1, <2>1, <3>1, HandKept DEF RouteRests, Rests
  <2>2. CASE RouteEnds
    <3>1. queue' = Nothing /\ route' = "none"
      BY <2>2 DEF RouteEnds, Cleared
    <3> QED
      BY <1>2, <3>1, HandEmpty
  <2>3. CASE RouteBegins
    <3>1. queue' = Nothing /\ gate' = gate /\ registered' = registered + 1
      BY <2>3 DEF RouteBegins, Cleared
    <3>2. gate.kind = "free" \/ gate.of # registered + 1
      BY DEF TypeInv, WakeTypeOK
    <3> QED
      BY <1>2, <3>1, <3>2, HandEmpty
  <2> QED
    BY <1>3, <2>1, <2>2, <2>3
<1>4. ASSUME NEW x \in Senders, EraseSender(x)
      PROVE  GateInv'
  <2>1. gate'.kind = "free"
    BY <1>4 DEF EraseSender
  <2>2. SendersStand'
    BY <1>0, <1>4 DEF EraseSender, Less, SendersStand
  <2> QED
    BY <2>1, <2>2, HandEmpty
<1>5. ASSUME NEW p \in Policies, SetPolicy(p)
      PROVE  GateInv'
  <2>1. gate'.kind = "free" /\ QueueShrinks /\ erased' = erased
    BY <1>5 DEF SetPolicy, QueueShrinks
  <2> QED
    BY <1>1, <2>1, HandEmpty
<1>6. ASSUME NEW e \in Events, Wake(e)
      PROVE  GateInv'
  <2>1. UNCHANGED <<gate, route, registered, policy, scopes, erased, binding, latest>>
    BY <1>6 DEF Wake
  <2>2. SendersStand'
    BY <1>0, <1>6 DEF Wake, With, Less, SendersStand
  <2> QED
    BY <2>1, <2>2, HandKept
<1>7. ASSUME NEW e \in Events, Read(e)
      PROVE  GateInv'
  <2>1. gate'.kind = "free" /\ QueueShrinks /\ erased' = erased
    BY <1>7 DEF Read, Less, QueueShrinks
  <2> QED
    BY <1>1, <2>1, HandEmpty
<1>8. CASE Delivery
  <2>1. ASSUME NEW s \in Scopes, Select(s)
        PROVE  GateInv'
    <3>1. /\ QueueShrinks /\ UNCHANGED <<erased, route, registered, policy, scopes>>
          /\ s \in DOMAIN queue /\ Qualifies(queue[s].event) /\ route = "active"
          /\ gate'.event = queue[s].event /\ gate'.kind = "selected"
      BY <2>1 DEF Select, Live, QueueShrinks
    <3>2. SendersStand'
      BY <1>1, <3>1
    <3>3. Qualifies(gate.event)'
      BY <3>1 DEF Qualifies
    <3>4. SenderOf[gate'.event] \notin erased'
      BY <1>0, <3>1 DEF SendersStand
    <3> QED
      BY <3>1, <3>2, <3>3, <3>4 DEF GateInv, HeldInv, Honoured, AlertsOnce, InHand, SendersStand
  <2>2. CASE Send
    BY <2>2, SendGate
  <2>3. CASE Sent \/ NotSent
    <3>1. gate' = Free /\ QueueShrinks /\ erased' = erased
      BY <2>3 DEF Sent, NotSent, Tables, Less, QueueShrinks
    <3> QED
      BY <1>0, <1>1, <3>1, HandEmpty
  <2>4. CASE Unregistered
    <3>1. gate' = Free /\ queue' = Nothing
      BY <2>4 DEF Unregistered, NoRoute
    <3> QED
      BY <1>0, <1>2, <3>1, HandEmpty
  <2>5. CASE Clean
    <3>1. ASSUME queue' = [t \in Live |-> queue[t]], UNCHANGED <<erased, gate>>
          PROVE  GateInv'
      <4>1. QueueShrinks /\ gate.kind = "free"
        BY <2>5, <3>1 DEF QueueShrinks, Live, Clean
      <4> QED
        BY <1>1, <3>1, <4>1, HandEmpty
    <3> QED
      BY <1>3, <2>5, <3>1, CleanSteps
  <2> QED
    BY <1>8, <2>1, <2>2, <2>3, <2>4, <2>5 DEF Delivery
<1>9. CASE Calls
  <2>1. QueueShrinks /\ erased' = erased
    BY <1>9 DEF Calls, Ask, Rang, RingFails, Ring, Bind, Tables, QueueShrinks
  <2>2. CASE Rang \/ RingFails(TRUE) \/ RingFails(FALSE)
    <3>1. gate' = Free
      BY <2>2 DEF Rang, RingFails
    <3> QED
      BY <1>0, <1>1, <2>1, <3>1, HandEmpty
  <2>3. CASE Bind(TRUE) \/ Bind(FALSE)
    <3>1. gate'.kind = "free"
      BY <2>3 DEF Bind
    <3> QED
      BY <1>1, <2>1, <3>1, HandEmpty
  <2>4. ASSUME NEW g \in Rings, Ask(g)
        PROVE  GateInv'
    BY <1>1, <2>1, <2>4, HandKept DEF Ask, Tables
  <2>5. ASSUME NEW w \in rings, Ring(w)
        PROVE  GateInv'
    <3>1. UNCHANGED <<route, registered, policy, scopes, erased, binding, latest>>
      BY <2>5 DEF Ring
    <3>2. CASE gate' = gate
      BY <1>1, <2>1, <3>1, <3>2, HandKept
    <3>3. CASE gate' # gate
      <4>1. /\ gate'.kind = "ringing" /\ gate'.event = w.event
            /\ route = "active" /\ MayRing(w.event)
        BY <2>5, <3>3 DEF Ring
      <4>2. MayRing(gate.event)'
        BY <3>1, <4>1 DEF MayRing, Enabled, Trusted
      <4>3. SendersStand'
        BY <1>1, <2>1
      <4> QED
        BY <3>1, <4>1, <4>2, <4>3
           DEF GateInv, HeldInv, Honoured, AlertsOnce, InHand, SendersStand
    <3> QED
      BY <3>2, <3>3
  <2> QED
    BY <1>9, <2>2, <2>3, <2>4, <2>5 DEF Calls
<1>10. CASE Elapse \/ UNCHANGED wakeVars
  <2>1. /\ UNCHANGED <<gate, route, registered, policy, scopes, erased, binding, latest>>
        /\ QueueShrinks
    BY <1>10 DEF Elapse, Tables, wakeVars, QueueShrinks
  <2> QED
    BY <1>1, <2>1, HandKept
<1> QED
  BY <1>3, <1>4, <1>5, <1>6, <1>7, <1>8, <1>9, <1>10, RouteSteps DEF WakeNext

-----------------------------------------------------------------------------
(* Rings.                                                                   *)

\* A ring that was handed over is in the ledger, or nobody can ask for it any more.
Remembered(g) ==
    \/ g \in DOMAIN events /\ events[g] = RememberedUntil(g)
    \/ RememberedUntil(g) =< time
    \/ SenderOf[g] \in erased

\* A ring waits for the gate no longer than GateWait and was asked for before it expired.
WaitInv ==
    \A w \in rings : /\ w.event \in Rings /\ w.at \in Nat
                     /\ w.at =< time /\ time =< w.at + GateWait
                     /\ w.at < Until[w.event]

RungInv ==
    /\ rung \in [1 .. MaxRegistrations -> [Rings -> Nat]]
    /\ \A n \in 1 .. MaxRegistrations, g \in Rings :
         rung[n][g] =< 1 /\ (n > registered => rung[n][g] = 0)
    /\ \A g \in Rings :
         registered # 0 /\ route # "none" /\ rung[registered][g] # 0 => Remembered(g)

\* The ring in hand has not been handed over.
RingingInv ==
    gate.kind = "ringing" =>
      /\ gate.event \in Rings
      /\ rung[gate.of][gate.event] = 0 /\ rung[registered][gate.event] = 0
      /\ gate.of = registered /\ route # "none" => Remembered(gate.event)

RingInv == WaitInv /\ RungInv /\ RingingInv

\* A memory goes only when it is out of date.
LEMMA Remembers ==
    ASSUME NEW g \in Rings, Remembered(g), time \in Nat, time' \in Nat, time =< time',
           erased \subseteq erased',
           \A e \in DOMAIN events : \/ e \in DOMAIN events' /\ events'[e] = events[e]
                                    \/ events[e] =< time
                                    \/ e # g
                                    \/ SenderOf[e] \in erased'
    PROVE  Remembered(g)'
<1>1. RememberedUntil(g) \in Nat
  BY WakeLimits DEF RememberedUntil
<1>2. CASE g \in DOMAIN events /\ events[g] = RememberedUntil(g)
  BY <1>1, <1>2 DEF Remembered, RememberedUntil
<1>3. CASE RememberedUntil(g) =< time
  BY <1>1, <1>3 DEF Remembered, RememberedUntil
<1>4. CASE SenderOf[g] \in erased
  BY <1>4 DEF Remembered
<1> QED
  BY <1>2, <1>3, <1>4 DEF Remembered

\* Steps that hand nothing over, and take nothing from memory before its time.
LEMMA RingKept ==
    ASSUME TypeInv, TypeInv', RingInv,
           rings' \subseteq rings, rung' = rung, registered' = registered,
           time' = time \/ \A w \in rings' : time' =< w.at + GateWait,
           time =< time',
           gate' = gate \/ gate'.kind \in {"free", "selected", "sending"},
           route' # "none" => route # "none",
           route' = "none" \/ \A g \in Rings : Remembered(g) => Remembered(g)'
    PROVE  RingInv'
<1>1. WaitInv'
  <2>1. time \in Nat /\ time' \in Nat /\ GateWait \in Nat
    BY WakeLimits DEF TypeInv, WakeTypeOK
  <2> SUFFICES ASSUME NEW w \in rings'
               PROVE  /\ w.event \in Rings /\ w.at \in Nat
                      /\ w.at =< time' /\ time' =< w.at + GateWait
                      /\ w.at < Until[w.event]
    BY DEF WaitInv
  <2>2. /\ w.event \in Rings /\ w.at \in Nat /\ w.at < Until[w.event]
        /\ w.at =< time /\ time =< w.at + GateWait
    BY DEF RingInv, WaitInv
  <2> QED
    BY <2>1, <2>2
<1>2. RungInv'
  BY DEF RingInv, RungInv
<1>3. RingingInv'
  BY DEF RingInv, RingingInv
<1> QED
  BY <1>1, <1>2, <1>3 DEF RingInv

LEMMA RouteRing ==
    ASSUME TypeInv, TypeInv', RingInv, RouteRests \/ RouteEnds \/ RouteBegins
    PROVE  RingInv'
<1>0. time \in Nat /\ registered \in Nat /\ (route # "none" => registered # 0)
      /\ (gate.kind # "free" => gate.of \in 1 .. registered)
      /\ registered' =< MaxRegistrations /\ MaxRegistrations \in Nat /\ registered' \in Nat
  BY WakeLimits DEF TypeInv, WakeTypeOK
<1>1. CASE RouteRests
  <2>1. /\ UNCHANGED <<time, erased, events, gate, rings, rung, registered>>
        /\ route' # "none" => route # "none"
    BY <1>1 DEF RouteRests, Rests
  <2>2. \A g \in Rings : Remembered(g) => Remembered(g)'
    BY <2>1 DEF Remembered, RememberedUntil
  <2>3. time =< time'
    BY <1>0, <2>1
  <2> QED
    BY <2>1, <2>2, <2>3, RingKept
<1>2. CASE RouteEnds
  <2>1. UNCHANGED <<time, gate, rings, rung, registered>> /\ route' = "none"
    BY <1>2 DEF RouteEnds
  <2>2. time =< time'
    BY <1>0, <2>1
  <2> QED
    BY <2>1, <2>2, RingKept
<1>3. CASE RouteBegins
  <2>1. /\ UNCHANGED <<time, gate, rings, rung>> /\ registered' = registered + 1
        /\ registered < MaxRegistrations
    BY <1>3 DEF RouteBegins
  <2>2. registered' \in 1 .. MaxRegistrations /\ registered' > registered
    BY <1>0, <2>1
  <2>3. \A g \in Rings : rung[registered'][g] = 0
    BY <2>2 DEF RingInv, RungInv
  <2>4. \A n \in 1 .. MaxRegistrations : n > registered' => n > registered
    BY <1>0, <2>1
  <2>5. WaitInv'
    BY <2>1 DEF RingInv, WaitInv
  <2>6. RungInv'
    BY <2>1, <2>3, <2>4 DEF RingInv, RungInv
  <2>7. gate.kind # "free" => gate.of # registered'
    BY <1>0, <2>1
  <2>8. RingingInv'
    BY <2>1, <2>3, <2>7 DEF RingInv, RingingInv
  <2> QED
    BY <2>5, <2>6, <2>8 DEF RingInv
<1> QED
  BY <1>1, <1>2, <1>3

\* A request is answered by the ledger as it stood when it came; it still finds every ring
\* that was handed over.
LEMMA RingIsNew ==
    ASSUME TypeInv, RingInv, route = "active", NEW w \in rings,
           SenderOf[w.event] \notin erased,
           w.event \notin DOMAIN events \/ events[w.event] =< w.at
    PROVE  rung[registered][w.event] = 0
<1>1. /\ w.event \in Rings /\ w.at \in Nat /\ time =< w.at + GateWait
      /\ w.at < Until[w.event]
  BY DEF RingInv, WaitInv
<1>2. /\ Until[w.event] \in Nat /\ RingMargin \in Nat /\ GateWait \in Nat
      /\ GateWait =< RingMargin /\ time \in Nat
  BY <1>1, WakeLimits DEF TypeInv, WakeTypeOK
<1>3. ~(Until[w.event] + RingMargin =< time) /\ ~(Until[w.event] + RingMargin =< w.at)
  BY <1>1, <1>2
<1>4. ~Remembered(w.event)
  BY <1>3 DEF Remembered, RememberedUntil
<1> QED
  BY <1>1, <1>4 DEF TypeInv, RingInv, RungInv

LEMMA RingRing ==
    ASSUME TypeInv, TypeInv', RingInv, NEW w \in rings, Ring(w)
    PROVE  RingInv'
<1> DEFINE past == {e \in DOMAIN events : events[e] =< w.at}
           kept == Less(events, past)
           new == w.event \notin DOMAIN kept /\ Cardinality(DOMAIN kept) < EventLimit
<1>1. UNCHANGED <<time, route, registered, erased, rung>> /\ rings' \subseteq rings
  BY DEF Ring
<1>2. /\ time \in Nat /\ w.at \in Nat /\ w.at =< time /\ w.event \in Rings
      /\ Until[w.event] \in Nat /\ RingMargin \in Nat
  BY WakeLimits DEF TypeInv, WakeTypeOK, RingInv, WaitInv
<1>3. \A e \in DOMAIN events : (e \in DOMAIN kept /\ kept[e] = events[e]) \/ events[e] =< w.at
  BY DEF Less
<1>4. time =< time'
  BY <1>1, <1>2
<1>5. CASE UNCHANGED <<events, gate>>
  <2>1. \A g \in Rings : Remembered(g) => Remembered(g)'
    BY <1>1, <1>5 DEF Remembered, RememberedUntil
  <2> QED
    BY <1>1, <1>4, <1>5, <2>1, RingKept
<1>6. ASSUME NEW g \in Rings, Remembered(g),
             \A e \in DOMAIN kept : e \in DOMAIN events' /\ events'[e] = kept[e]
      PROVE  Remembered(g)'
  <2>1. RememberedUntil(g) \in Nat
    BY WakeLimits DEF RememberedUntil
  <2>2. CASE g \in DOMAIN events /\ events[g] = RememberedUntil(g)
    <3>1. CASE g \in DOMAIN kept /\ kept[g] = events[g]
      BY <1>6, <2>2, <3>1 DEF Remembered, RememberedUntil
    <3>2. CASE events[g] =< w.at
      BY <1>1, <1>2, <2>1, <2>2, <3>2 DEF Remembered, RememberedUntil
    <3> QED
      BY <1>3, <2>2, <3>1, <3>2
  <2> QED
    BY <1>1, <1>6, <2>2 DEF Remembered, RememberedUntil
<1>7. CASE /\ events' = kept /\ gate' = gate
  <2>1. \A g \in Rings : Remembered(g) => Remembered(g)'
    BY <1>6, <1>7
  <2> QED
    BY <1>1, <1>4, <1>7, <2>1, RingKept
<1>8. CASE /\ events' = With(kept, w.event, RememberedUntil(w.event)) /\ new
           /\ route = "active" /\ MayRing(w.event)
           /\ gate' = [kind |-> "ringing", event |-> w.event, of |-> registered]
  <2>1. w.event \notin DOMAIN kept /\ SenderOf[w.event] \notin erased
    BY <1>8 DEF MayRing
  <2>2. w.event \notin DOMAIN events \/ events[w.event] =< w.at
    BY <1>3, <2>1
  <2>3. rung[registered][w.event] = 0
    BY <1>8, <2>1, <2>2, RingIsNew
  <2> HIDE DEF kept
  <2>4. /\ \A e \in DOMAIN kept : e \in DOMAIN events' /\ events'[e] = kept[e]
        /\ w.event \in DOMAIN events' /\ events'[w.event] = RememberedUntil(w.event)
    BY <1>8, <2>1 DEF With
  <2>5. \A g \in Rings : Remembered(g) => Remembered(g)'
    BY <1>6, <2>4
  <2>6. WaitInv'
    BY <1>1 DEF RingInv, WaitInv
  <2>7. RungInv'
    BY <1>1, <2>5 DEF RingInv, RungInv
  <2>8. RingingInv'
    <3>1. gate'.event = w.event /\ gate'.of = registered
      BY <1>8
    <3>2. Remembered(gate.event)'
      BY <2>4, <3>1 DEF Remembered, RememberedUntil
    <3> QED
      BY <1>1, <1>2, <2>3, <3>1, <3>2 DEF RingingInv
  <2> QED
    BY <2>6, <2>7, <2>8 DEF RingInv
<1> QED
  BY <1>5, <1>7, <1>8 DEF Ring

LEMMA RangRing ==
    ASSUME TypeInv, TypeInv', RingInv, Rang
    PROVE  RingInv'
<1> DEFINE n == gate.of
           g == gate.event
<1>1. /\ UNCHANGED <<time, route, registered, events, erased, rings>>
      /\ gate.kind = "ringing" /\ gate'.kind = "free"
      /\ rung' = [rung EXCEPT ![n][g] = @ + 1]
  BY DEF Rang, Tables, Free
<1>2. /\ g \in Rings /\ rung[n][g] = 0
      /\ n = registered /\ route # "none" => Remembered(g)
  BY <1>1 DEF RingInv, RingingInv
<1>3. n \in 1 .. MaxRegistrations /\ n =< registered /\ registered \in Nat
  BY <1>1, WakeLimits DEF TypeInv, WakeTypeOK
<1>4. rung \in [1 .. MaxRegistrations -> [Rings -> Nat]]
  BY DEF RingInv, RungInv
<1> HIDE DEF n, g
<1>5. /\ rung' \in [1 .. MaxRegistrations -> [Rings -> Nat]]
      /\ rung'[n][g] = 1
      /\ \A m \in 1 .. MaxRegistrations, f \in Rings :
           ~(m = n /\ f = g) => rung'[m][f] = rung[m][f]
  BY <1>1, <1>2, <1>3, <1>4
<1>6. \A f \in Rings : Remembered(f) => Remembered(f)'
  BY <1>1 DEF Remembered, RememberedUntil
<1>7. WaitInv'
  BY <1>1 DEF RingInv, WaitInv
<1>8. \A m \in 1 .. MaxRegistrations, f \in Rings :
        rung'[m][f] =< 1 /\ (m > registered' => rung'[m][f] = 0)
  BY <1>1, <1>3, <1>5 DEF RingInv, RungInv
<1>9. \A f \in Rings :
        registered' # 0 /\ route' # "none" /\ rung'[registered'][f] # 0 => Remembered(f)'
  <2>1. registered # 0 => registered \in 1 .. MaxRegistrations
    BY DEF TypeInv, WakeTypeOK
  <2> QED
    BY <1>1, <1>2, <1>5, <1>6, <2>1 DEF RingInv, RungInv
<1>10. RungInv'
  BY <1>5, <1>8, <1>9 DEF RungInv
<1>11. RingingInv'
  BY <1>1 DEF RingingInv
<1> QED
  BY <1>7, <1>10, <1>11 DEF RingInv

\* A ring that failed is forgotten, and only that one.
LEMMA RingFailsRing ==
    ASSUME TypeInv, TypeInv', RingInv, NEW invalid \in BOOLEAN, RingFails(invalid)
    PROVE  RingInv'
<1>1. /\ UNCHANGED <<time, route, registered, erased, rings, rung>>
      /\ gate.kind = "ringing" /\ gate'.kind = "free"
      /\ events' = Less(events, {gate.event})
  BY DEF RingFails, Free
<1>2. rung[registered][gate.event] = 0
  BY <1>1 DEF RingInv, RingingInv
<1>3. \A g \in Rings : g # gate.event /\ Remembered(g) => Remembered(g)'
  BY <1>1 DEF Remembered, RememberedUntil, Less
<1>4. WaitInv'
  BY <1>1 DEF RingInv, WaitInv
<1>5. RungInv'
  BY <1>1, <1>2, <1>3 DEF RingInv, RungInv
<1>6. RingingInv'
  BY <1>1 DEF RingingInv
<1> QED
  BY <1>4, <1>5, <1>6 DEF RingInv

LEMMA RingStep ==
    ASSUME TypeInv, TypeInv', RingInv, [WakeNext]_wakeVars
    PROVE  RingInv'
<1>0. /\ time \in Nat /\ time' \in Nat /\ LedgerLife \in Nat /\ GateWait \in Nat
      /\ Free.kind = "free"
  BY WakeLimits DEF TypeInv, WakeTypeOK, Free
<1>1. ASSUME time' = time
      PROVE  time =< time'
  BY <1>0, <1>1
<1>2. ASSUME UNCHANGED <<time, registered, rings, rung>>, route' # "none" => route # "none",
             erased \subseteq erased',
             gate' = gate \/ gate'.kind \in {"free", "selected", "sending"},
             \A e \in DOMAIN events : \/ e \in DOMAIN events' /\ events'[e] = events[e]
                                      \/ events[e] =< time
                                      \/ SenderOf[e] \in erased'
      PROVE  RingInv'
  <2>1. time =< time'
    BY <1>1, <1>2
  <2>2. \A g \in Rings : Remembered(g) => Remembered(g)'
    BY <1>0, <1>2, <2>1, Remembers
  <2> QED
    BY <1>2, <2>1, <2>2, RingKept
<1>3. ASSUME UNCHANGED <<time, registered, rings, rung, route, erased, events>>,
             gate' = gate \/ gate'.kind \in {"free", "selected", "sending"}
      PROVE  RingInv'
  BY <1>2, <1>3
<1>4. ASSUME NEW x \in Senders, EraseSender(x)
      PROVE  RingInv'
  <2>1. /\ UNCHANGED <<time, registered, rings, rung, route, gate>>
        /\ erased' = erased \cup {x}
        /\ \A e \in DOMAIN events : \/ e \in DOMAIN events' /\ events'[e] = events[e]
                                    \/ SenderOf[e] = x
    BY <1>4 DEF EraseSender, Less
  <2> QED
    BY <1>2, <2>1
<1>5. ASSUME NEW p \in Policies, SetPolicy(p)
      PROVE  RingInv'
  BY <1>3, <1>5 DEF SetPolicy
<1>6. ASSUME NEW e \in Events, Wake(e) \/ Read(e)
      PROVE  RingInv'
  <2>1. UNCHANGED <<time, registered, rings, rung, route, erased, gate>>
    BY <1>6 DEF Wake, Read
  <2>2. \A f \in DOMAIN events : \/ f \in DOMAIN events' /\ events'[f] = events[f]
                                 \/ events[f] =< time
    <3>1. CASE Wake(e)
      BY <3>1 DEF Wake, Unseen, With, Less, Outdated
    <3>2. CASE Read(e)
      BY <3>2 DEF Read, Recalled, With, Less, Outdated
    <3> QED
      BY <1>6, <3>1, <3>2
  <2> QED
    BY <1>2, <2>1, <2>2
<1>7. CASE Delivery
  <2>1. CASE Unregistered
    <3>1. UNCHANGED <<time, registered, rings, rung>> /\ route' = "none" /\ gate'.kind = "free"
      BY <2>1 DEF Unregistered, NoRoute, Free
    <3> QED
      BY <1>1, <3>1, RingKept
  <2>2. CASE Clean
    <3>1. CASE RouteEnds
      BY <3>1, RouteRing
    <3>2. CASE UNCHANGED <<time, registered, rings, rung, route, erased, events, gate>>
      BY <1>3, <3>2
    <3> QED
      BY <2>2, <3>1, <3>2, CleanSteps
  <2>3. CASE (\E s \in Scopes : Select(s)) \/ Send \/ Sent \/ NotSent
    <3>1. UNCHANGED <<time, registered, rings, rung, route, erased, events>>
      BY <2>3 DEF Select, Send, Sent, NotSent, Tables
    <3>2. gate'.kind \in {"free", "selected", "sending"}
      BY <1>0, <2>3 DEF Select, Send, Sent, NotSent
    <3> QED
      BY <1>3, <3>1, <3>2
  <2> QED
    BY <1>7, <2>1, <2>2, <2>3 DEF Delivery
<1>8. CASE Calls
  <2>1. ASSUME NEW g \in Rings, Ask(g)
        PROVE  RingInv'
    <3>1. /\ UNCHANGED <<time, registered, rung, route, erased, events, gate>>
          /\ Until[g] > time /\ rings' = rings \cup {[event |-> g, at |-> time]}
      BY <2>1 DEF Ask, Tables
    <3>2. Until[g] \in Nat /\ time =< time + GateWait /\ time =< time
      BY <1>0, WakeLimits
    <3>3. WaitInv'
      BY <1>0, <3>1, <3>2 DEF RingInv, WaitInv
    <3>4. \A f \in Rings : Remembered(f)' = Remembered(f)
      BY <3>1 DEF Remembered, RememberedUntil
    <3>5. RungInv'
      BY <3>1, <3>4 DEF RingInv, RungInv
    <3>6. RingingInv'
      BY <3>1, <3>4 DEF RingInv, RingingInv
    <3> QED
      BY <3>3, <3>5, <3>6 DEF RingInv
  <2>2. CASE Bind(TRUE) \/ Bind(FALSE)
    <3>1. UNCHANGED <<time, registered, rings, rung, route, erased, events, gate>>
      BY <2>2 DEF Bind
    <3> QED
      BY <1>3, <3>1
  <2> QED
    BY <1>8, <2>1, <2>2, RingRing, RangRing, RingFailsRing DEF Calls
<1>9. CASE Elapse
  <2>1. /\ UNCHANGED <<registered, rings, rung, route, erased, events, gate>>
        /\ time' = time + 1 /\ \A w \in rings : time < w.at + GateWait
    BY <1>9 DEF Elapse, Tables
  <2>2. time =< time'
    BY <1>0, <2>1
  <2>3. \A w \in rings' : time' =< w.at + GateWait
    <3>1. \A w \in rings : w.at \in Nat
      BY DEF RingInv, WaitInv
    <3> QED
      BY <1>0, <2>1, <3>1
  <2>4. \A g \in Rings : Remembered(g) => Remembered(g)'
    BY <1>0, <2>1, <2>2, Remembers
  <2> QED
    BY <2>1, <2>2, <2>3, <2>4, RingKept
<1>10. CASE UNCHANGED wakeVars
  BY <1>3, <1>10 DEF wakeVars
<1> QED
  BY <1>4, <1>5, <1>6, <1>7, <1>8, <1>9, <1>10, RouteSteps, RouteRing DEF WakeNext

-----------------------------------------------------------------------------
(* What was accepted.                                                       *)

\* The rows that stay are as they were, and what leaves has a reason.
LEMMA NothingLostKept ==
    ASSUME challenges' = challenges,
           \A s \in DOMAIN queue \cap DOMAIN queue' : queue'[s] = queue[s],
           LosesNothing
    PROVE  LosesNothing /\ KeepsTrusted /\ KeepsConfirmed
BY DEF KeepsTrusted, KeepsConfirmed

LEMMA RouteLoses ==
    ASSUME registered \in Nat, RouteRests \/ RouteEnds \/ RouteBegins
    PROVE  LosesNothing /\ KeepsTrusted /\ KeepsConfirmed
<1>1. KeepsConfirmed
  BY DEF RouteRests, RouteEnds, RouteBegins, KeepsConfirmed
<1>2. CASE RouteRests
  BY <1>1, <1>2 DEF RouteRests, Rests, LosesNothing, KeepsTrusted
<1>3. CASE RouteEnds \/ RouteBegins
  <2>1. DOMAIN queue' = {} /\ (route' = "none" \/ registered' # registered)
    BY <1>3, NothingIsEmpty DEF RouteEnds, RouteBegins, Cleared
  <2> QED
    BY <1>1, <2>1 DEF LosesNothing, KeepsTrusted
<1> QED
  BY <1>2, <1>3

LEMMA WakeLoses ==
    ASSUME TypeInv, NEW e \in Events, Wake(e)
    PROVE  LosesNothing /\ KeepsTrusted /\ KeepsConfirmed
<1> DEFINE s == ScopeOf[e]
<1>1. /\ UNCHANGED <<challenges, policy>> /\ Heard(e)
      /\ budget' = IF Trusted(e) THEN budget ELSE time + UntrustedGap
      /\ DOMAIN queue' = (DOMAIN queue \ Displaced(e)) \cup {s}
      /\ queue'[s].event = e
      /\ \A t \in DOMAIN queue \ Displaced(e) : t = s \/ queue'[t] = queue[t]
  BY DEF Wake, With, Less
<1>2. time \in Nat /\ budget \in Nat /\ UntrustedGap \in Nat \ {0}
  BY WakeAssumption DEF TypeInv, WakeTypeOK
<1>3. ASSUME NEW t \in DOMAIN queue, t \notin DOMAIN queue'
      PROVE  ~Trusted(queue[t].event) /\ budget' # budget
  <2>1. ~Trusted(e) /\ ~Trusted(queue[t].event)
    BY <1>1, <1>3 DEF Displaced
  <2>2. budget =< time /\ budget' = time + UntrustedGap
    BY <1>1, <2>1 DEF Heard
  <2> QED
    BY <1>2, <2>1, <2>2
<1>4. LosesNothing
  BY <1>3 DEF LosesNothing
<1>5. ASSUME NEW t \in DOMAIN queue \cap DOMAIN queue',
             Trusted(queue[t].event), queue'[t].event # queue[t].event
      PROVE  Allows(policy', queue'[t].event)
  <2>1. t \notin Displaced(e)
    BY <1>5 DEF Displaced
  <2>2. t = s
    BY <1>1, <1>5, <2>1
  <2>3. Trusted(e)
    BY <1>1, <1>5, <2>2 DEF Heard, TrustedPending
  <2> QED
    BY <1>1, <2>2, <2>3 DEF Trusted
<1>6. KeepsTrusted
  BY <1>5 DEF KeepsTrusted
<1> QED
  BY <1>1, <1>4, <1>6 DEF KeepsConfirmed

LEMMA LosesStep ==
    ASSUME TypeInv, [WakeNext]_wakeVars
    PROVE  LosesNothing /\ KeepsTrusted /\ KeepsConfirmed
<1>0. registered \in Nat /\ time \in Nat /\ \A s \in DOMAIN queue : queue[s].expires \in Nat
  BY DEF TypeInv, WakeTypeOK, QueueRow
<1>1. ASSUME UNCHANGED <<challenges, queue>>
      PROVE  LosesNothing /\ KeepsTrusted /\ KeepsConfirmed
  BY <1>1 DEF LosesNothing, KeepsTrusted, KeepsConfirmed
<1>2. ASSUME NEW x \in Senders, EraseSender(x)
      PROVE  LosesNothing /\ KeepsTrusted /\ KeepsConfirmed
  BY <1>2, NothingLostKept DEF EraseSender, Less, LosesNothing
<1>3. ASSUME NEW p \in Policies, SetPolicy(p)
      PROVE  LosesNothing /\ KeepsTrusted /\ KeepsConfirmed
  <2>1. /\ challenges' = challenges /\ policy' = p
        /\ queue' = [s \in {t \in DOMAIN queue : Wanted(p, scopes', queue[t].event)} |-> queue[s]]
    BY <1>3 DEF SetPolicy
  <2> QED
    BY <2>1, NothingLostKept DEF LosesNothing
<1>4. ASSUME NEW e \in Events, Read(e)
      PROVE  LosesNothing /\ KeepsTrusted /\ KeepsConfirmed
  <2>1. /\ challenges' = challenges /\ e \in DOMAIN read'
        /\ queue' = Less(queue, {s \in DOMAIN queue : s = ScopeOf[e] /\ queue[s].event = e})
    BY <1>4 DEF Read, With
  <2> QED
    BY <2>1, NothingLostKept DEF Less, LosesNothing
<1>5. ASSUME queue' = [t \in Live |-> queue[t]], challenges' = challenges
      PROVE  LosesNothing /\ KeepsTrusted /\ KeepsConfirmed
  <2>1. LosesNothing
    BY <1>0, <1>5 DEF Live, LosesNothing
  <2> QED
    BY <1>5, <2>1, NothingLostKept DEF Live
<1>6. CASE Delivery
  <2>1. CASE Sent
    <3>1. /\ challenges' = challenges /\ queue' = Less(queue, Done(gate.event))
          /\ ScopeOf[gate.event] \in DOMAIN latest'
          /\ latest'[ScopeOf[gate.event]] = gate.event
      BY <2>1 DEF Sent, With
    <3> QED
      BY <3>1, NothingLostKept DEF Less, Done, LosesNothing
  <2>2. CASE Unregistered
    <3>1. DOMAIN queue' = {} /\ route' = "none" /\ challenges' = challenges
      BY <2>2, NothingIsEmpty DEF Unregistered, NoRoute
    <3> QED
      BY <3>1, NothingLostKept DEF LosesNothing
  <2>3. CASE \E s \in Scopes : Select(s)
    BY <1>5, <2>3 DEF Select
  <2>4. CASE Clean
    BY <1>0, <1>5, <2>4, CleanSteps, RouteLoses
  <2>5. CASE Send \/ NotSent
    BY <1>1, <2>5 DEF Send, NotSent, Tables
  <2> QED
    BY <1>6, <2>1, <2>2, <2>3, <2>4, <2>5 DEF Delivery
<1>7. CASE Calls \/ Elapse \/ UNCHANGED wakeVars
  <2>1. UNCHANGED <<challenges, queue>>
    BY <1>7 DEF Calls, Ask, Ring, Rang, RingFails, Bind, Elapse, Tables, wakeVars
  <2> QED
    BY <1>1, <2>1
<1> QED
  BY <1>0, <1>2, <1>3, <1>4, <1>6, <1>7, RouteSteps, RouteLoses, WakeLoses DEF WakeNext

-----------------------------------------------------------------------------
(* The theorems.                                                            *)

WakeInv == TypeInv /\ LedgerInv /\ AttentionInv /\ GateInv /\ RingInv

LEMMA WakeStarts ==
    ASSUME WakeInit
    PROVE  WakeInv
<1>1. /\ DOMAIN queue = {} /\ DOMAIN events = {} /\ DOMAIN attention = {}
      /\ DOMAIN read = {} /\ DOMAIN latest = {} /\ sent = {} /\ rings = {}
      /\ IsFiniteSet({}) /\ Cardinality({}) = 0
      /\ gate.kind = "free"
  BY NothingIsEmpty DEF WakeInit, Free
<1>2. TypeInv
  BY <1>1, WakeLimits DEF WakeInit, TypeInv, WakeTypeOK
<1>3. LedgerInv /\ AttentionInv
  BY <1>1 DEF LedgerInv, AttentionInv, Recorded
<1>4. GateInv
  BY <1>1 DEF GateInv, HeldInv, Honoured, AlertsOnce, InHand
<1>5. RingInv
  <2>1. WaitInv /\ RingingInv
    BY <1>1 DEF WaitInv, RingingInv
  <2>2. RungInv
    BY WakeLimits DEF WakeInit, RungInv
  <2> QED
    BY <2>1, <2>2 DEF RingInv
<1> QED
  BY <1>2, <1>3, <1>4, <1>5 DEF WakeInv

LEMMA WakeStep ==
    ASSUME WakeInv, [WakeNext]_wakeVars
    PROVE  WakeInv'
<1>1. TypeInv'
  BY TypeStep DEF WakeInv
<1> QED
  BY <1>1, LedgerStep, AttentionStep, GateStep, RingStep DEF WakeInv

\* The tables of the relay (relay.rs) agree with each other in every state, whatever the
\* provider answers and whenever it does.
THEOREM WakeInvariant == WakeSpec => []WakeInv
<1>1. WakeInit => WakeInv
  BY WakeStarts
<1>2. WakeInv /\ [WakeNext]_wakeVars => WakeInv'
  BY WakeStep
<1> QED
  BY <1>1, <1>2, PTL DEF WakeSpec

\* A policy or an erasure that was acknowledged (relay.rs, `policy` and `erase`) holds for
\* what the gate has in hand and for everything that waits.
THEOREM PoliciesAreHonoured == WakeSpec => []Honoured
<1>1. WakeInv => Honoured
  BY DEF WakeInv, GateInv
<1> QED
  BY <1>1, WakeInvariant, PTL

\* A delivery is recorded once, alerts once, and is silent about what was read; a route is
\* rung once by a ring (relay/ringing.rs).
THEOREM DevicesAreToldOnce == WakeSpec => []ToldOnce
<1>1. WakeInv => ToldOnce
  <2> SUFFICES ASSUME WakeInv
               PROVE  ToldOnce
    OBVIOUS
  <2>1. WakeTypeOK /\ AlertsOnce
    BY DEF WakeInv, TypeInv, GateInv
  <2>2. RecordedOnce /\ ReadIsQuiet
    BY DEF WakeInv, LedgerInv, Recorded, RecordedOnce, ReadIsQuiet, InHand
  <2>3. RungOnce
    BY DEF WakeInv, RingInv, RungInv, RungOnce
  <2> QED
    BY <2>1, <2>2, <2>3 DEF ToldOnce
<1> QED
  BY <1>1, WakeInvariant, PTL

\* No step of the relay takes a row that waits without a reason of the device's or of time,
\* and a challenge that fails late leaves the confirmed route alone.
THEOREM NothingIsLost == WakeSpec => NothingLost
<1>1. WakeInv /\ [WakeNext]_wakeVars => [LosesNothing /\ KeepsTrusted /\ KeepsConfirmed]_wakeVars
  BY LosesStep DEF WakeInv
<1> QED
  BY <1>1, WakeInvariant, PTL DEF WakeSpec, NothingLost
=============================================================================
