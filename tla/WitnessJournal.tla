--------------------------- MODULE WitnessJournal ---------------------------
(***************************************************************************)
(* The life of a witness process around its signed journal:                *)
(* crates/elo-witness/src/journal.rs (open, activate, guard, replay,       *)
(* append), the request frame of engine.rs (head, apply) and the head      *)
(* cache of server.rs.                                                     *)
(*                                                                         *)
(* Witness describes what a command does to a Space; here a command only   *)
(* appends its event, and the subject is everything around it: crashes,    *)
(* restores of older databases, operator activations, clock steps, lost    *)
(* answers and retries.                                                    *)
(*                                                                         *)
(* Every receipt signs the id of the receipt before it, so the record id   *)
(* of a receipt stands for the journal that ends in it: a Position is the  *)
(* sequence of events up to it.  The signing key is one, signatures and    *)
(* hashes are perfect, and a database is always one that SQLite committed  *)
(* as a whole.                                                             *)
(***************************************************************************)
EXTENDS Integers, Sequences, FiniteSets, SequencesExt

CONSTANTS
    Spaces,          \* Space identifiers
    Commands,        \* record ids of signed commands
    CommandBody,     \* [Commands -> [signer, nonce, space, issued, expires, authority]]
    NoHead,          \* the absent authority head
    Skew,            \* 5_000 ms
    NonceRetention,  \* 600_000 ms
    ActivationLife,  \* 600_000 ms
    MaxEvents,       \* 1_000_000 journal events
    MaxStarts,       \* model bound on process starts
    MaxDocuments,    \* model bound on activation documents
    MaxTime,         \* model bound on the wall clock
    MaxElapsed       \* model bound on the monotonic clock

ASSUME CommandAssumption ==
    /\ NoHead \notin Commands
    /\ DOMAIN CommandBody = Commands
    /\ \A c \in Commands :
         /\ CommandBody[c].space \in Spaces
         /\ CommandBody[c].issued \in Nat
         /\ CommandBody[c].expires \in Nat
         /\ CommandBody[c].authority \in BOOLEAN

ASSUME LimitAssumption ==
    /\ {Skew, NonceRetention, ActivationLife} \subseteq Nat
    /\ {MaxEvents, MaxStarts, MaxDocuments, MaxTime, MaxElapsed} \subseteq Nat

VARIABLES
    wall,      \* the host's wall clock
    mono,      \* the host's monotonic clock
    journal,   \* the events table of the live database
    process,   \* the Journal value of the running process
    heads,     \* the head cache of the running process
    archive,   \* every database that was ever committed, as backups may hold it
    released,  \* the positions in signed answers that left the host
    reply,     \* the last freshness answer
    documents, \* the activation documents the operator has written
    stamps     \* history variable: the process and monotonic time of each event

vars == <<wall, mono, journal, process, heads, archive, released, reply,
          documents, stamps>>

-----------------------------------------------------------------------------
(* The journal.                                                             *)

EventsOf(events, s) == {k \in DOMAIN events : events[k].space = s}

LastOf(events, s) == CHOOSE k \in EventsOf(events, s) :
                       \A j \in EventsOf(events, s) : j =< k

\* The authority head that the last receipt of the Space names.
HeadOf(events, s) == IF EventsOf(events, s) = {} THEN NoHead
                     ELSE events[LastOf(events, s)].head

LastTime(events) == IF events = <<>> THEN 0 ELSE events[Len(events)].at

\* `replay`: the command has an event.
Applied(events, c) == \E k \in DOMAIN events : events[k].command = c

\* Fault: only the same command counts as a use of the nonce.
NonceTakenByCommand(events, c) == Applied(events, c)

\* A row of command_nonces outlives its command by NonceRetention.
NonceTaken(events, c) ==
    \E k \in DOMAIN events :
      LET other == CommandBody[events[k].command] IN
      /\ other.signer = CommandBody[c].signer
      /\ other.nonce = CommandBody[c].nonce
      /\ other.expires >= wall - NonceRetention

\* The time window of a command.
Fresh(c) ==
    /\ wall < CommandBody[c].expires
    /\ CommandBody[c].issued =< wall + Skew

\* A command that moves the authority head is named as the new head; the
\* first command of a Space is its registration and always does.
EventFor(events, c) ==
    LET s == CommandBody[c].space IN
    [command |-> c, space |-> s, at |-> wall,
     head |-> IF CommandBody[c].authority THEN c ELSE HeadOf(events, s)]

-----------------------------------------------------------------------------
(* The process.                                                             *)

Down == [up |-> FALSE, nonce |-> 0, active |-> FALSE, failed |-> FALSE,
         last |-> 0, anchorWall |-> 0, anchorMono |-> 0]

\* Journal::open: a process starts sealed and never before the last event.
Start ==
    /\ ~process.up
    /\ process.nonce < MaxStarts
    /\ wall >= LastTime(journal)
    /\ process' = [up |-> TRUE, nonce |-> process.nonce + 1, active |-> FALSE,
                   failed |-> FALSE, last |-> wall,
                   anchorWall |-> wall, anchorMono |-> mono]
    /\ UNCHANGED <<wall, mono, journal, heads, archive, released, reply,
                   documents, stamps>>

\* The process ends and its cache with it; the counter stays, as every
\* process draws a startup nonce of its own.
Crash ==
    /\ process.up
    /\ process' = [Down EXCEPT !.nonce = process.nonce]
    /\ heads' = [s \in Spaces |-> NoHead]
    /\ UNCHANGED <<wall, mono, journal, archive, released, reply, documents, stamps>>

\* The host is returned to a backup, or a backup is brought forward again.
Restore ==
    /\ ~process.up
    /\ \E image \in archive :
         journal' = image.journal /\ stamps' = image.stamps
    /\ UNCHANGED <<wall, mono, process, heads, archive, released, reply, documents>>

\* The operator writes an activation for the running process.  The expected
\* position comes from evidence kept outside the host: it extends every
\* answer that left the host.
Review ==
    /\ process.up
    /\ Cardinality(documents) < MaxDocuments
    /\ \E expected \in {image.journal : image \in archive} :
         /\ \A position \in released : IsPrefix(position, expected)
         /\ documents' = documents \cup
              {[nonce |-> process.nonce, expected |-> expected,
                expires |-> wall + ActivationLife]}
    /\ UNCHANGED <<wall, mono, journal, process, heads, archive, released,
                   reply, stamps>>

\* Fault: a document for another process is accepted.
ActivateAnyProcess(doc) ==
    /\ process.up
    /\ ~process.active
    /\ ~process.failed
    /\ wall >= process.last
    /\ doc.expected = journal
    /\ doc.expires >= wall
    /\ doc.expires =< wall + ActivationLife
    /\ process' = [process EXCEPT !.active = TRUE, !.last = wall,
                                  !.anchorWall = wall, !.anchorMono = mono]
    /\ UNCHANGED <<wall, mono, journal, heads, archive, released, reply,
                   documents, stamps>>

\* Journal::activate, called by Service::work when it finds a document.  Any
\* document ever written may be installed, also for a later process.
Activate(doc) ==
    /\ process.up
    /\ ~process.active
    /\ ~process.failed
    /\ wall >= process.last
    /\ doc.nonce = process.nonce
    /\ doc.expected = journal
    /\ doc.expires >= wall
    /\ doc.expires =< wall + ActivationLife
    /\ process' = [process EXCEPT !.active = TRUE, !.last = wall,
                                  !.anchorWall = wall, !.anchorMono = mono]
    /\ UNCHANGED <<wall, mono, journal, heads, archive, released, reply,
                   documents, stamps>>

\* The wall clock moved forward, and by as much as the monotonic clock.
ClockSound ==
    LET passed == IF wall > process.anchorWall THEN wall - process.anchorWall ELSE 0
        elapsed == mono - process.anchorMono
    IN /\ wall >= process.last
       /\ passed - elapsed =< Skew
       /\ elapsed - passed =< Skew

\* Fault: every passing check moves the clock anchor.
GuardReanchored ==
    /\ process.active
    /\ ClockSound
    /\ process' = [process EXCEPT !.last = wall, !.anchorWall = wall,
                                  !.anchorMono = mono]

\* Journal::guard when it passes, the first step of every request.
Guard ==
    /\ process.active
    /\ ClockSound
    /\ process' = [process EXCEPT !.last = wall]

\* Journal::guard when it fails: this process is sealed for good.
Seal ==
    /\ process.active
    /\ ~ClockSound
    /\ process' = [process EXCEPT !.active = FALSE, !.failed = TRUE]
    /\ UNCHANGED <<wall, mono, journal, heads, archive, released, reply,
                   documents, stamps>>

-----------------------------------------------------------------------------
(* Requests.                                                                *)

\* A readiness probe, or a request refused after the guard.
Ready ==
    /\ Guard
    /\ UNCHANGED <<wall, mono, journal, heads, archive, released, reply,
                   documents, stamps>>

\* A command whose transaction commits.  The answer leaves the host or, with
\* the connection or the process, is lost.
Apply(c, answered) ==
    LET s == CommandBody[c].space
        longer == Append(journal, EventFor(journal, c))
        longerStamps == Append(stamps, [nonce |-> process.nonce, mono |-> mono])
    IN /\ Guard
       /\ Fresh(c)
       /\ EventsOf(journal, s) = {} => CommandBody[c].authority
       /\ ~Applied(journal, c)
       /\ ~NonceTaken(journal, c)
       /\ Len(journal) < MaxEvents
       /\ journal' = longer
       /\ stamps' = longerStamps
       /\ archive' = archive \cup {[journal |-> longer, stamps |-> longerStamps]}
       /\ released' = released \cup (IF answered THEN {longer} ELSE {})
       /\ UNCHANGED <<wall, mono, heads, reply, documents>>

\* A repeated command gets the receipt it got, or should have got, before.
Replay(c) ==
    /\ Guard
    /\ Fresh(c)
    /\ \E k \in DOMAIN journal :
         /\ journal[k].command = c
         /\ released' = released \cup {SubSeq(journal, 1, k)}
    /\ UNCHANGED <<wall, mono, journal, heads, archive, reply, documents, stamps>>

\* `noop`: a new command for what is already so is acknowledged where the
\* journal stands.
Noop(c) ==
    /\ Guard
    /\ Fresh(c)
    /\ EventsOf(journal, CommandBody[c].space) # {}
    /\ ~Applied(journal, c)
    /\ ~NonceTaken(journal, c)
    /\ released' = released \cup {journal}
    /\ UNCHANGED <<wall, mono, journal, heads, archive, reply, documents, stamps>>

\* Fault: an entry is a hit whatever was recorded since.
CacheHitAlways(s, k) == heads[s] # NoHead

\* HeadCache::reply: the entry was made at the Space's last event and agrees
\* with the receipt of that event.
CacheHit(s, k) ==
    /\ heads[s] # NoHead
    /\ heads[s].event = SubSeq(journal, 1, k)
    /\ heads[s].head = journal[k].head

\* A signed freshness answer; a miss reads the stored authority instead.
Freshness(s) ==
    LET k == LastOf(journal, s)
        head == IF CacheHit(s, k) THEN heads[s].head ELSE HeadOf(journal, s)
    IN /\ Guard
       /\ EventsOf(journal, s) # {}
       /\ heads' = [heads EXCEPT ![s] = [event |-> SubSeq(journal, 1, k),
                                         head |-> head]]
       /\ reply' = [space |-> s, position |-> journal, head |-> head]
       /\ released' = released \cup {journal}
       /\ UNCHANGED <<wall, mono, journal, archive, documents, stamps>>

-----------------------------------------------------------------------------
(* The clocks.                                                              *)

Tick ==
    /\ wall < MaxTime /\ mono < MaxElapsed
    /\ wall' = wall + 1
    /\ mono' = mono + 1
    /\ UNCHANGED <<journal, process, heads, archive, released, reply,
                   documents, stamps>>

\* The wall clock is set.
Step ==
    /\ \E t \in 0..MaxTime : wall' = t
    /\ UNCHANGED <<mono, journal, process, heads, archive, released, reply,
                   documents, stamps>>

NoReply == [space |-> NoHead, position |-> <<>>, head |-> NoHead]

Init ==
    /\ wall = 0
    /\ mono = 0
    /\ journal = <<>>
    /\ process = Down
    /\ heads = [s \in Spaces |-> NoHead]
    /\ archive = {[journal |-> <<>>, stamps |-> <<>>]}
    /\ released = {}
    /\ reply = NoReply
    /\ documents = {}
    /\ stamps = <<>>

Next ==
    \/ Tick
    \/ Step
    \/ Start
    \/ Crash
    \/ Restore
    \/ Review
    \/ \E doc \in documents : Activate(doc)
    \/ Seal
    \/ Ready
    \/ \E c \in Commands :
         \/ \E answered \in BOOLEAN : Apply(c, answered)
         \/ Replay(c)
         \/ Noop(c)
    \/ \E s \in Spaces : Freshness(s)

Spec == Init /\ [][Next]_vars

-----------------------------------------------------------------------------
(* Properties.                                                              *)

Event == [command: Commands, space: Spaces, at: Nat, head: Commands \cup {NoHead}]

Stamp == [nonce: Nat, mono: Nat]

Images == [journal: Seq(Event), stamps: Seq(Stamp)]

Process == [up: BOOLEAN, nonce: Nat, active: BOOLEAN, failed: BOOLEAN,
            last: Nat, anchorWall: Nat, anchorMono: Nat]

\* The values of the state, and a stamp for every event.
TypeOK ==
    /\ wall \in Nat /\ mono \in Nat
    /\ journal \in Seq(Event)
    /\ stamps \in Seq(Stamp)
    /\ Len(stamps) = Len(journal)
    /\ process \in Process
    /\ DOMAIN heads = Spaces
    /\ \A s \in Spaces : heads[s] # NoHead =>
         heads[s] \in [event: Seq(Event), head: Commands \cup {NoHead}]
    /\ archive \subseteq Images
    /\ \A image \in archive : Len(image.stamps) = Len(image.journal)
    /\ released \subseteq Seq(Event)
    /\ \A doc \in documents :
         doc.nonce \in Nat /\ doc.expected \in Seq(Event) /\ doc.expires \in Nat

\* Whatever is restored, retried or lost, the answers that leave the host
\* describe one journal: no two receipts or freshness positions contradict
\* each other ("the independent check that makes a restored snapshot fail
\* closed").
OneJournal ==
    \A p, q \in released : IsPrefix(p, q) \/ IsPrefix(q, p)

\* Accepted times never run backwards along the journal, across clock steps,
\* restarts and restores.  Challenge and invitation expiry rest on it.
Ordered(events) ==
    \A j, k \in DOMAIN events : j =< k => events[j].at =< events[k].at

TimesOrdered == Ordered(journal)

\* Between two events of one process the accepted times measure the real time
\* that passed, up to twice the tolerated skew, however often the wall clock
\* was nudged in between.
Measured(events, marks) ==
    \A j, k \in DOMAIN events :
      LET wallTime == events[k].at - events[j].at
          realTime == marks[k].mono - marks[j].mono
      IN j < k /\ marks[j].nonce = marks[k].nonce =>
           wallTime - realTime =< 2 * Skew /\ realTime - wallTime =< 2 * Skew

TimesMeasured == Measured(journal, stamps)

\* A signer's nonce serves a second command only after the first one expired,
\* so no moment accepts two commands with one nonce.
Spaced(events) ==
    \A j, k \in DOMAIN events :
      LET one == CommandBody[events[j].command]
          two == CommandBody[events[k].command]
      IN j < k /\ one.signer = two.signer /\ one.nonce = two.nonce =>
           one.expires =< events[k].at

NoncesSpaced == Spaced(journal)

\* A freshness answer names the authority head in force at the position it
\* signs, although heads are cached while other Spaces move the journal.
RepliesCurrent ==
    reply # NoReply => reply.head = HeadOf(reply.position, reply.space)

\* The time the journal accepted can be relied on: it never runs backwards, and between
\* events of one process it measures what really passed.
TimesSound ==
    /\ TypeOK
    /\ TimesOrdered
    /\ TimesMeasured
=============================================================================
