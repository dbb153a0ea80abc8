------------------------------ MODULE WakeRelay ------------------------------
(***************************************************************************)
(* The wake relay: crates/elo-wake/src/relay.rs and relay/ringing.rs.      *)
(*                                                                         *)
(* One route of one device.  Each database call is a step; the delivery    *)
(* gate spans the calls and the provider's answer of one delivery or ring, *)
(* and orders them with policies, reads, removals and erasures.  Wakes,    *)
(* registrations and confirmations do not take it.                         *)
(*                                                                         *)
(* An event has its scope and its sender from the start.  How long a row   *)
(* waits before it is sent (2 seconds, backoff, 5 seconds between two      *)
(* sends) is left open: a row may be sent as soon as it is there.  Rate    *)
(* limits, wrong keys and route counts only refuse and are left out.       *)
(***************************************************************************)
EXTENDS Integers, FiniteSets

CONSTANTS
    Scopes, Events, Rings, Senders,
    ScopeOf,      \* scope of an event or a ring
    SenderOf,     \* sender of an event or a ring
    Brief,        \* events of the category session_start
    Policies,     \* what the device may ask for
    LedgerLife,   \* 86400 seconds of an event in the ledger and in the queue
    RingLife,     \* 60 seconds, at most, of a ring or a session hint
    Until,        \* the expiry of a ring
    RingMargin,   \* 120 seconds a ring is remembered longer
    GateWait,     \* model bound on how long a ring waits for the gate
    UntrustedGap, \* 300 seconds between two unknown senders
    QueueLimit,   \* 64 rows
    EventLimit,   \* 4096 events of the ledger
    MaxWakeTime, MaxRegistrations

ASSUME WakeAssumption ==
    /\ ScopeOf \in [Events \cup Rings -> Scopes]
    /\ Until \in [Rings -> Nat]
    /\ {LedgerLife, RingLife, RingMargin, GateWait, QueueLimit, EventLimit, MaxWakeTime,
        MaxRegistrations} \subseteq Nat
    /\ UntrustedGap \in Nat \ {0}
    /\ GateWait =< RingMargin

VARIABLES
    time,
    route,       \* "none", "pending", "active" or "lapsed": past its expiry, not deleted yet
    registered,  \* how often the route was inserted: names its challenge
    challenges,  \* challenges at the provider
    policy,      \* the policy in force
    scopes,      \* enabled or muted, for every scope ever declared
    queue,       \* the pending event of a scope and its expiry
    attention,   \* the event last delivered in a scope and not read
    events,      \* the ledger: expiry of every event seen
    budget,      \* when the next unknown sender is heard
    erased,      \* accounts that are gone
    binding,     \* the device takes calls
    gate,        \* who holds the delivery gate
    rings,       \* rings that wait for the gate, and when they were checked
    read,        \* history: events read, and whether the ledger had room for them
    sent,        \* history: events recorded as delivered and remembered
    rung,        \* history: how often a ring was handed over, by registration
    latest       \* history: the last event delivered in a scope since it was re-armed

wakeVars == <<time, route, registered, challenges, policy, scopes, queue, attention, events,
          budget, erased, binding, gate, rings, read, sent, rung, latest>>

NoPolicy == [rev |-> 0]

Free == [kind |-> "free"]

Nothing == [x \in {} |-> x]

With(f, k, v) == [x \in DOMAIN f \cup {k} |-> IF x = k THEN v ELSE f[x]]

Less(f, S) == [x \in DOMAIN f \ S |-> f[x]]

-----------------------------------------------------------------------------
(* Policy.                                                                  *)

\* scope_senders has the sender of e in its scope.
Allows(p, e) ==
    p.rev > 0 /\ ScopeOf[e] \in DOMAIN p.scopes /\ SenderOf[e] \in p.scopes[ScopeOf[e]].senders

Trusted(e) == Allows(policy, e)

Opened(p, s) == s \in DOMAIN p.scopes /\ p.scopes[s].open

Repeats(s) == policy.rev > 0 /\ s \in DOMAIN policy.scopes /\ ~policy.scopes[s].once

Enabled(s) == s \in DOMAIN scopes /\ scopes[s]

\* What the device wants to hear of: the conditions of `wake`, repeated when a row is
\* selected and when a policy is replaced.
Wanted(p, declared, e) ==
    LET s == ScopeOf[e]
    IN /\ p.rev > 0 /\ SenderOf[e] \notin p.blocked
       /\ IF s \in DOMAIN declared THEN declared[s] /\ (Opened(p, s) \/ Allows(p, e))
          ELSE p.introductions

Qualifies(e) == Wanted(policy, scopes, e)

Outdated == {e \in DOMAIN events : events[e] =< time}

-----------------------------------------------------------------------------
(* Registration.                                                            *)

NoRoute ==
    /\ route' = "none" /\ policy' = NoPolicy /\ scopes' = Nothing /\ queue' = Nothing
    /\ attention' = Nothing /\ events' = Nothing /\ budget' = 0 /\ binding' = FALSE
    /\ read' = Nothing /\ sent' = {} /\ latest' = Nothing

Tables == <<policy, scopes, queue, attention, events, budget, binding, read, sent, latest>>

\* A new route, once an expired one is deleted; its challenge goes to the device.
Register ==
    /\ "owner" \notin erased
    /\ route \in {"none", "lapsed"} /\ registered < MaxRegistrations
    /\ policy' = NoPolicy /\ scopes' = Nothing /\ queue' = Nothing /\ attention' = Nothing
    /\ events' = Nothing /\ budget' = 0 /\ binding' = FALSE
    /\ read' = Nothing /\ sent' = {} /\ latest' = Nothing
    /\ route' = "pending" /\ registered' = registered + 1
    /\ challenges' = challenges \cup {registered + 1}
    /\ UNCHANGED <<time, erased, gate, rings, rung>>

\* The same registration again: its challenge is sent once more.
RegisterAgain ==
    /\ "owner" \notin erased /\ route = "pending"
    /\ challenges' = challenges \cup {registered}
    /\ UNCHANGED <<time, route, registered, Tables, erased, gate, rings, rung>>

\* The provider does not take the challenge, or not in time: the route goes if it is
\* the one of the challenge and has not been confirmed.
ChallengeFails(c) ==
    /\ c \in challenges /\ challenges' = challenges \ {c}
    /\ IF c = registered /\ route = "pending" THEN NoRoute ELSE UNCHANGED <<route, Tables>>
    /\ UNCHANGED <<time, registered, erased, gate, rings, rung>>

\* The device shows the challenge it received; the answer of the provider to the relay
\* may still be under way.
Confirm ==
    /\ route \in {"pending", "active"}
    /\ route' = "active"
    /\ UNCHANGED <<time, registered, challenges, Tables, erased, gate, rings, rung>>

\* 30 days, or 10 minutes before it is confirmed.
Lapse ==
    /\ route \in {"pending", "active"}
    /\ route' = "lapsed"
    /\ UNCHANGED <<time, registered, challenges, Tables, erased, gate, rings, rung>>

\* Any registration deletes the routes that have expired.
Purge ==
    /\ route = "lapsed" /\ NoRoute
    /\ UNCHANGED <<time, registered, challenges, erased, gate, rings, rung>>

Remove ==
    /\ gate.kind = "free" /\ route # "none" /\ NoRoute
    /\ UNCHANGED <<time, registered, challenges, erased, gate, rings, rung>>

\* The account of the device is erased.
EraseOwner ==
    /\ gate.kind = "free" /\ "owner" \notin erased
    /\ erased' = erased \cup {"owner"} /\ NoRoute
    /\ UNCHANGED <<time, registered, challenges, gate, rings, rung>>

\* The account of a sender is erased, with everything of it that waits.
EraseSender(x) ==
    LET gone == {s \in DOMAIN queue : SenderOf[queue[s].event] = x}
    IN /\ gate.kind = "free" /\ x \notin erased
       /\ erased' = erased \cup {x}
       /\ queue' = Less(queue, gone)
       /\ attention' = Less(attention, gone)
       /\ events' = Less(events, {queue[s].event : s \in gone})
       /\ latest' = Less(latest, gone)
       /\ UNCHANGED <<time, route, registered, challenges, policy, scopes, budget, binding,
                      gate, rings, read, sent, rung>>

-----------------------------------------------------------------------------
(* What the device says: policies, reads, calls.                            *)

\* Fault: the gate is not taken.
SetPolicyUngated(p) ==
    /\ route = "active" /\ p.rev > policy.rev
    /\ policy' = p
    /\ scopes' = [s \in DOMAIN scopes \cup DOMAIN p.scopes |->
                    s \in DOMAIN p.scopes /\ p.scopes[s].enabled]
    /\ queue' = [s \in {t \in DOMAIN queue : Wanted(p, scopes', queue[t].event)} |-> queue[s]]
    /\ UNCHANGED <<time, route, registered, challenges, attention, events, budget, erased,
                   binding, gate, rings, read, sent, rung, latest>>

\* `policy`: a newer revision replaces everything, a declared scope that is not named
\* any more is muted, and what no longer qualifies leaves the queue.
SetPolicy(p) ==
    /\ gate.kind = "free" /\ route = "active" /\ p.rev > policy.rev
    /\ policy' = p
    /\ scopes' = [s \in DOMAIN scopes \cup DOMAIN p.scopes |->
                    s \in DOMAIN p.scopes /\ p.scopes[s].enabled]
    /\ queue' = [s \in {t \in DOMAIN queue : Wanted(p, scopes', queue[t].event)} |-> queue[s]]
    /\ attention' = Less(attention, {s \in DOMAIN p.scopes : ~p.scopes[s].once})
    /\ latest' = Less(latest, {s \in DOMAIN p.scopes : ~p.scopes[s].once})
    /\ UNCHANGED <<time, route, registered, challenges, events, budget, erased, binding,
                   gate, rings, read, sent, rung>>

\* The scopes a read re-arms: the event is the last one delivered there.
Rearmed(e) == {s \in DOMAIN attention : s = ScopeOf[e] /\ attention[s] = e}

\* A read event joins the ledger while there is room.
Recalled(e, ledger) ==
    IF e \notin DOMAIN ledger /\ Cardinality(DOMAIN ledger) < EventLimit
    THEN With(ledger, e, time + LedgerLife) ELSE ledger

\* `read`: the event is remembered, so that a wake which comes later is not heard.
Read(e) ==
    LET kept == Less(events, Outdated)
        room == e \in DOMAIN kept \/ Cardinality(DOMAIN kept) < EventLimit
    IN /\ gate.kind = "free" /\ route = "active"
       /\ events' = Recalled(e, kept)
       /\ attention' = Less(attention, Rearmed(e))
       /\ queue' = Less(queue, {s \in DOMAIN queue : s = ScopeOf[e] /\ queue[s].event = e})
       /\ read' = With(Less(read, Outdated), e, room)
       /\ sent' = sent \ Outdated
       /\ latest' = Less(latest, {s \in DOMAIN latest : latest[s] = e})
       /\ UNCHANGED <<time, route, registered, challenges, policy, scopes, budget, erased,
                      binding, gate, rings, rung>>

Bind(b) ==
    /\ gate.kind = "free" /\ b # binding
    /\ b => route = "active"
    /\ binding' = b
    /\ UNCHANGED <<time, route, registered, challenges, policy, scopes, queue, attention,
                   events, budget, erased, gate, rings, read, sent, rung, latest>>

-----------------------------------------------------------------------------
(* Wakes.                                                                   *)

TrustedPending(s) == s \in DOMAIN queue /\ Trusted(queue[s].event)

\* An unknown sender is heard when nobody trusted waits and its budget allows.
Heard(e) == Trusted(e) \/ (~TrustedPending(ScopeOf[e]) /\ budget =< time)

\* Rows an unknown sender's event displaces: at most one such row waits.
Displaced(e) ==
    IF Trusted(e) THEN {} ELSE {s \in DOMAIN queue : ~Trusted(queue[s].event)}

Unseen(e) == e \notin DOMAIN events

\* `wake`: everything that is refused, or dropped in silence, changes nothing.
Wake(e) ==
    LET s == ScopeOf[e]
        until == time + IF e \in Brief THEN RingLife ELSE LedgerLife
    IN /\ route = "active" /\ SenderOf[e] \notin erased
       /\ Qualifies(e) /\ Heard(e) /\ Unseen(e)
       /\ e \in Brief => Enabled(s) /\ Trusted(e)
       /\ Cardinality(DOMAIN queue) < QueueLimit
       /\ Cardinality(DOMAIN events \ Outdated) < EventLimit
       /\ events' = With(Less(events, Outdated), e, time + LedgerLife)
       /\ queue' = With(Less(queue, Displaced(e)), s, [event |-> e, expires |-> until])
       /\ budget' = IF Trusted(e) THEN budget ELSE time + UntrustedGap
       /\ read' = Less(read, Outdated) /\ sent' = sent \ Outdated
       /\ UNCHANGED <<time, route, registered, challenges, policy, scopes, attention, erased,
                      binding, gate, rings, rung, latest>>

-----------------------------------------------------------------------------
(* Delivery.                                                                *)

Live == {s \in DOMAIN queue : queue[s].expires > time}

\* `deliver_due` takes the gate and selects a row that still qualifies.
Select(s) ==
    /\ gate.kind = "free" /\ route = "active"
    /\ s \in Live /\ Qualifies(queue[s].event)
    /\ queue' = [t \in Live |-> queue[t]]
    /\ gate' = [kind |-> "selected", event |-> queue[s].event, of |-> registered]
    /\ UNCHANGED <<time, route, registered, challenges, policy, scopes, attention, events,
                   budget, erased, binding, rings, read, sent, rung, latest>>

\* The worker finds nothing to do and deletes what has expired.
Clean ==
    /\ gate.kind = "free" /\ \A s \in Live : ~Qualifies(queue[s].event) \/ route # "active"
    /\ IF route = "lapsed" THEN NoRoute
       ELSE /\ queue' = [t \in Live |-> queue[t]]
            /\ UNCHANGED <<route, policy, scopes, attention, events, budget, binding, read,
                           sent, latest>>
    /\ UNCHANGED <<time, registered, challenges, erased, gate, rings, rung>>

\* Whether the notification is quiet is read in a call of its own, from the row that
\* is there now.
Quiet(s) ==
    \/ s \notin DOMAIN queue \/ ~TrustedPending(s)
    \/ ~Enabled(s)
    \/ s \in DOMAIN attention /\ ~Repeats(s)

Send ==
    /\ gate.kind = "selected"
    /\ gate' = [kind |-> "sending", event |-> gate.event, of |-> gate.of,
                quiet |-> Quiet(ScopeOf[gate.event])]
    /\ UNCHANGED <<time, route, registered, challenges, Tables, erased, rings, rung>>

\* Fault: whatever waits in the scope is taken for delivered.
DoneInScope(e) == {s \in DOMAIN queue : s = ScopeOf[e]}

Done(e) == {s \in DOMAIN queue : s = ScopeOf[e] /\ queue[s].event = e}

\* The provider took it.
Sent ==
    LET e == gate.event
        s == ScopeOf[e]
    IN /\ gate.kind = "sending" /\ route # "none"
       /\ attention' = With(attention, s, e)
       /\ queue' = Less(queue, Done(e))
       /\ latest' = With(latest, s, e)
       /\ sent' = sent \cup ({e} \cap DOMAIN events)
       /\ gate' = Free
       /\ UNCHANGED <<time, route, registered, challenges, policy, scopes, events, budget,
                      erased, binding, rings, read, rung>>

Unregistered ==
    /\ gate.kind = "sending" /\ NoRoute /\ gate' = Free
    /\ UNCHANGED <<time, registered, challenges, erased, rings, rung>>

\* The provider failed, the answer could not be recorded, or the relay stopped; the row
\* is tried again later.
NotSent ==
    /\ gate.kind \in {"selected", "sending"} /\ gate' = Free
    /\ UNCHANGED <<time, route, registered, challenges, Tables, erased, rings, rung>>

-----------------------------------------------------------------------------
(* Calls.                                                                   *)

\* `ring` checks the proof and its expiry, then waits for the gate.
Ask(g) ==
    /\ Until[g] > time /\ Until[g] =< time + RingLife
    /\ [event |-> g, at |-> time] \notin rings
    /\ rings' = rings \cup {[event |-> g, at |-> time]}
    /\ UNCHANGED <<time, route, registered, challenges, Tables, erased, gate, rung>>

MayRing(g) ==
    /\ binding /\ Enabled(ScopeOf[g]) /\ Trusted(g)
    /\ SenderOf[g] \notin policy.blocked /\ SenderOf[g] \notin erased

\* Fault: a ring is remembered as long as it is valid.
RememberedToTheEnd(g) == Until[g]

RememberedUntil(g) == Until[g] + RingMargin

\* The ledger is cleaned by the time at which the ring was checked.
Ring(w) ==
    LET past == {e \in DOMAIN events : events[e] =< w.at}
        kept == Less(events, past)
        new == w.event \notin DOMAIN kept /\ Cardinality(DOMAIN kept) < EventLimit
    IN /\ gate.kind = "free" /\ w \in rings
       /\ rings' = rings \ {w}
       /\ IF route = "active" /\ MayRing(w.event)
          THEN /\ events' = IF new THEN With(kept, w.event, RememberedUntil(w.event)) ELSE kept
               /\ read' = Less(read, past) /\ sent' = sent \ past
               /\ gate' = IF new THEN [kind |-> "ringing", event |-> w.event, of |-> registered]
                          ELSE gate
          ELSE UNCHANGED <<events, read, sent, gate>>
       /\ UNCHANGED <<time, route, registered, challenges, policy, scopes, queue, attention,
                      budget, erased, binding, rung, latest>>

Rang ==
    /\ gate.kind = "ringing" /\ gate' = Free
    /\ rung' = [rung EXCEPT ![gate.of][gate.event] = @ + 1]
    /\ UNCHANGED <<time, route, registered, challenges, Tables, erased, rings>>

\* The provider failed or took longer than 8 seconds: the ring may be tried again.
RingFails(invalid) ==
    /\ gate.kind = "ringing" /\ gate' = Free
    /\ events' = Less(events, {gate.event})
    /\ binding' = (binding /\ ~invalid)
    /\ UNCHANGED <<time, route, registered, challenges, policy, scopes, queue, attention,
                   budget, erased, rings, read, sent, rung, latest>>

Elapse ==
    /\ time < MaxWakeTime /\ \A w \in rings : time < w.at + GateWait
    /\ time' = time + 1
    /\ UNCHANGED <<route, registered, challenges, Tables, erased, gate, rings, rung>>

-----------------------------------------------------------------------------

WakeInit ==
    /\ time = 0 /\ route = "none" /\ registered = 0 /\ challenges = {}
    /\ policy = NoPolicy /\ scopes = Nothing /\ queue = Nothing /\ attention = Nothing
    /\ events = Nothing /\ budget = 0 /\ erased = {} /\ binding = FALSE
    /\ gate = Free /\ rings = {}
    /\ read = Nothing /\ sent = {} /\ latest = Nothing
    /\ rung = [n \in 1 .. MaxRegistrations |-> [g \in Rings |-> 0]]

Routes ==
    \/ Register \/ RegisterAgain \/ Confirm \/ Lapse \/ Purge \/ Remove \/ EraseOwner
    \/ \E c \in challenges : ChallengeFails(c)

Delivery == (\E s \in Scopes : Select(s)) \/ Send \/ Sent \/ Unregistered \/ NotSent \/ Clean

Calls ==
    \/ \E g \in Rings : Ask(g)
    \/ \E w \in rings : Ring(w)
    \/ Rang \/ RingFails(TRUE) \/ RingFails(FALSE)
    \/ Bind(TRUE) \/ Bind(FALSE)

WakeNext ==
    \/ Routes \/ Delivery \/ Calls \/ Elapse
    \/ \E x \in Senders : EraseSender(x)
    \/ \E p \in Policies : SetPolicy(p)
    \/ \E e \in Events : Wake(e) \/ Read(e)

WakeSpec == WakeInit /\ [][WakeNext]_wakeVars

-----------------------------------------------------------------------------
(* Properties.                                                              *)

WakeTypeOK ==
    /\ time \in 0 .. MaxWakeTime /\ route \in {"none", "pending", "active", "lapsed"}
    /\ registered \in 0 .. MaxRegistrations /\ challenges \subseteq 1 .. registered
    /\ policy \in Policies \cup {NoPolicy}
    /\ DOMAIN queue \cup DOMAIN attention \subseteq Scopes
    /\ Cardinality(DOMAIN queue) =< QueueLimit
    /\ Cardinality(DOMAIN events) =< EventLimit
    /\ route \in {"none", "pending"} => policy = NoPolicy /\ DOMAIN queue = {} /\ ~binding
    /\ gate.kind \in {"free", "selected", "sending", "ringing"}

InHand(kinds) == gate.kind \in kinds /\ gate.of = registered /\ route = "active"

\* Once a policy or an erasure is acknowledged, nothing it excludes is at the provider
\* or goes there: neither a row selected before, nor a ring that waited for the gate.
Honoured ==
    /\ InHand({"selected", "sending"}) =>
         Qualifies(gate.event) /\ SenderOf[gate.event] \notin erased
    /\ InHand({"ringing"}) => MayRing(gate.event)
    /\ \A s \in DOMAIN queue : SenderOf[queue[s].event] \notin erased

\* An event is recorded as delivered once while the ledger remembers it, however often
\* its wake is repeated, before, during or after its delivery.
RecordedOnce == InHand({"sending"}) => gate.event \notin sent

\* A scope that alerts once stays quiet until the event last delivered in it is read:
\* reading an older one, or a wake that is late, does not re-arm it.
AlertsOnce ==
    (InHand({"sending"}) /\ ~gate.quiet /\ ~Repeats(ScopeOf[gate.event])) =>
        ScopeOf[gate.event] \notin DOMAIN latest

\* What was read on the device is not announced afterwards, also when the read comes
\* before the wake; only a ledger that is full forgets.
ReadIsQuiet ==
    InHand({"selected", "sending"}) => ~(gate.event \in DOMAIN read /\ read[gate.event])

\* A route is rung once by a ring, although a request that waited for the gate is judged
\* by the time at which it came.
RungOnce == \A n \in 1 .. MaxRegistrations, g \in Rings : rung[n][g] =< 1

\* What is accepted stays until it is delivered, read, expired, excluded by the device or
\* erased; the answer for one event never takes another one with it.
LosesNothing ==
    \A s \in DOMAIN queue :
      LET e == queue[s].event
      IN s \notin DOMAIN queue' =>
           \/ queue[s].expires =< time \/ route' = "none" \/ registered' # registered
           \/ e \in DOMAIN read'
           \/ s \in DOMAIN latest' /\ latest'[s] = e
           \/ ~Wanted(policy', scopes', e) \/ SenderOf[e] \in erased'
           \/ ~Trusted(e) /\ budget' # budget

\* An unknown sender's event never takes the place of a trusted one that waits.
KeepsTrusted ==
    \A s \in DOMAIN queue \cap DOMAIN queue' :
      Trusted(queue[s].event) /\ queue'[s].event # queue[s].event
        => Allows(policy', queue'[s].event)

\* A challenge that fails late does not take the route that was confirmed meanwhile.
KeepsConfirmed == challenges' # challenges /\ route = "active" => route' = "active"

\* No answer, timeout or stranger takes from the device what was accepted for it.
NothingLost == [][LosesNothing /\ KeepsTrusted /\ KeepsConfirmed]_wakeVars

\* The device is told once of an event and of a ring, and not of what it has read, within
\* the limits of the queue and the ledger.
ToldOnce ==
    /\ WakeTypeOK
    /\ RecordedOnce
    /\ AlertsOnce
    /\ ReadIsQuiet
    /\ RungOnce

\* What the code says of unknown senders: they never use up the alert of a scope, so
\* that a trusted event is quiet only when an alert was heard.
UnknownTakeNoAlert ==
    (InHand({"sending"}) /\ gate.quiet /\ Trusted(gate.event) /\ Enabled(ScopeOf[gate.event])
       /\ TrustedPending(ScopeOf[gate.event]) /\ ScopeOf[gate.event] \in DOMAIN attention)
      => Trusted(attention[ScopeOf[gate.event]])
=============================================================================
