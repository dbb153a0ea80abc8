---------------------------- MODULE JournalProofs ----------------------------
(***************************************************************************)
(* Theorems about WitnessJournal, for any commands, any limits and any     *)
(* number of crashes, restores and clock steps.                            *)
(*                                                                         *)
(* The invariant ties every database that was ever committed to the        *)
(* answers that left the host: an active process continues a journal that  *)
(* extends all of them, and a sealed one that can still be activated has   *)
(* only documents that expect such a journal.                              *)
(***************************************************************************)
EXTENDS WitnessJournal, TLAPS

-----------------------------------------------------------------------------
(* Sequences and prefixes.                                                  *)

LEMMA EventAt ==
    ASSUME NEW p \in Seq(Event), NEW k \in DOMAIN p
    PROVE  /\ p[k].command \in Commands /\ p[k].space \in Spaces
           /\ p[k].at \in Nat /\ p[k].head \in Commands \cup {NoHead}
<1>1. p[k] \in Event
  OBVIOUS
<1> QED
  BY <1>1 DEF Event

LEMMA StampAt ==
    ASSUME NEW p \in Seq(Stamp), NEW k \in DOMAIN p
    PROVE  p[k].nonce \in Nat /\ p[k].mono \in Nat
<1>1. p[k] \in Stamp
  OBVIOUS
<1> QED
  BY <1>1 DEF Stamp

LEMMA PrefixElements ==
    ASSUME NEW p \in Seq(Event), NEW q \in Seq(Event)
    PROVE  IsPrefix(p, q) <=> /\ Len(p) =< Len(q)
                              /\ \A i \in 1..Len(p) : p[i] = q[i]
BY DEF IsPrefix

LEMMA PrefixTransitive ==
    ASSUME NEW p \in Seq(Event), NEW q \in Seq(Event), NEW r \in Seq(Event),
           IsPrefix(p, q), IsPrefix(q, r)
    PROVE  IsPrefix(p, r)
BY PrefixElements

LEMMA PrefixAppend ==
    ASSUME NEW p \in Seq(Event), NEW e \in Event
    PROVE  IsPrefix(p, Append(p, e))
<1>1. Append(p, e) \in Seq(Event) /\ Len(p) =< Len(Append(p, e))
  OBVIOUS
<1>2. \A i \in 1..Len(p) : p[i] = Append(p, e)[i]
  OBVIOUS
<1> QED
  BY <1>1, <1>2, PrefixElements

LEMMA PrefixSub ==
    ASSUME NEW p \in Seq(Event), NEW k \in DOMAIN p
    PROVE  SubSeq(p, 1, k) \in Seq(Event) /\ IsPrefix(SubSeq(p, 1, k), p)
<1>1. SubSeq(p, 1, k) \in Seq(Event) /\ Len(SubSeq(p, 1, k)) = k /\ k =< Len(p)
  OBVIOUS
<1>2. \A i \in 1..k : SubSeq(p, 1, k)[i] = p[i]
  OBVIOUS
<1> QED
  BY <1>1, <1>2, PrefixElements

LEMMA PrefixesLinear ==
    ASSUME NEW p \in Seq(Event), NEW q \in Seq(Event), NEW r \in Seq(Event),
           IsPrefix(p, r), IsPrefix(q, r)
    PROVE  IsPrefix(p, q) \/ IsPrefix(q, p)
BY PrefixElements

\* Answers that agree with the journal agree with each other, also after one
\* more that agrees with it.
LEMMA OneMore ==
    ASSUME NEW r \in Seq(Event), NEW p \in Seq(Event), released \subseteq Seq(Event),
           OneJournal, \A q \in released : IsPrefix(q, r), IsPrefix(p, r),
           released' \subseteq released \cup {p}
    PROVE  OneJournal'
<1> SUFFICES ASSUME NEW x \in released', NEW y \in released'
             PROVE  IsPrefix(x, y) \/ IsPrefix(y, x)
  BY DEF OneJournal
<1>1. x \in Seq(Event) /\ y \in Seq(Event) /\ IsPrefix(x, r) /\ IsPrefix(y, r)
  OBVIOUS
<1> QED
  BY <1>1, PrefixesLinear

-----------------------------------------------------------------------------
(* The inductive invariant.                                                 *)

\* Every Space with events has a last one.
HasLast(events) ==
    \A s \in Spaces : EventsOf(events, s) # {} =>
      \E k \in EventsOf(events, s) : \A j \in EventsOf(events, s) : j =< k

ImageOK(image) ==
    /\ HasLast(image.journal)
    /\ Ordered(image.journal)
    /\ Measured(image.journal, image.stamps)
    /\ Spaced(image.journal)
    /\ \A k \in DOMAIN image.stamps : image.stamps[k].nonce =< process.nonce

Live == [journal |-> journal, stamps |-> stamps]

ArchiveInv == Live \in archive /\ \A image \in archive : ImageOK(image)

ClockInv ==
    /\ process.active => process.up
    /\ process.up =>
         /\ \A k \in DOMAIN journal : journal[k].at =< process.last
         /\ process.anchorMono =< mono
         /\ process.anchorWall =< process.last

\* The events of the running process keep the skew to its anchor.
AnchorInv ==
    /\ process.active =>
         \A k \in DOMAIN journal : stamps[k].nonce = process.nonce =>
           LET passed == journal[k].at - process.anchorWall
               elapsed == stamps[k].mono - process.anchorMono
           IN passed - elapsed =< Skew /\ elapsed - passed =< Skew
    /\ process.up /\ ~process.active /\ ~process.failed =>
         \A k \in DOMAIN stamps : stamps[k].nonce # process.nonce

ReleaseInv ==
    /\ OneJournal
    /\ process.active => \A p \in released : IsPrefix(p, journal)
    /\ \A doc \in documents : doc.nonce =< process.nonce
    /\ process.up /\ ~process.active /\ ~process.failed =>
         \A doc \in documents : doc.nonce = process.nonce =>
           \A p \in released : IsPrefix(p, doc.expected)

Inv == TypeOK /\ ArchiveInv /\ ClockInv /\ AnchorInv /\ ReleaseInv

LEMMA InitInv == Init => Inv
<1> SUFFICES ASSUME Init PROVE Inv
  OBVIOUS
<1>1. TypeOK
  BY DEF Init, TypeOK, Down, Process, Images
<1>2. ArchiveInv
  BY DEF Init, ArchiveInv, Live, ImageOK, HasLast, EventsOf, Ordered, Measured, Spaced
<1>3. ClockInv /\ AnchorInv /\ ReleaseInv
  BY DEF Init, ClockInv, AnchorInv, ReleaseInv, OneJournal, Down
<1> QED
  BY <1>1, <1>2, <1>3 DEF Inv

\* The images stay sound while their set and the startup counter's past do.
LEMMA ArchiveStable ==
    ASSUME TypeOK, ArchiveInv, archive' = archive, Live' \in archive,
           process'.nonce \in Nat, process.nonce =< process'.nonce
    PROVE  ArchiveInv'
<1>1. ASSUME NEW image \in archive PROVE ImageOK(image)'
  <2>1. \A k \in DOMAIN image.stamps :
          image.stamps[k].nonce \in Nat /\ image.stamps[k].nonce =< process.nonce
    BY <1>1, StampAt DEF TypeOK, ArchiveInv, ImageOK, Images
  <2>2. \A k \in DOMAIN image.stamps : image.stamps[k].nonce =< process'.nonce
    BY <2>1 DEF TypeOK, Process
  <2> QED
    BY <1>1, <2>2 DEF ArchiveInv, ImageOK
<1> QED
  BY <1>1 DEF ArchiveInv

-----------------------------------------------------------------------------
(* The steps.                                                               *)

LEMMA TickInv == Inv /\ (Tick \/ Step \/ UNCHANGED vars) => Inv'
<1> SUFFICES ASSUME Inv, Tick \/ Step \/ UNCHANGED vars PROVE Inv'
  OBVIOUS
<1>1. /\ UNCHANGED <<journal, process, heads, archive, released, documents, stamps>>
      /\ wall' \in Nat /\ mono' \in Nat /\ mono =< mono'
  BY LimitAssumption DEF Inv, TypeOK, Tick, Step, vars
<1>2. TypeOK'
  BY <1>1 DEF Inv, TypeOK
<1>3. ArchiveInv'
  BY <1>1, ArchiveStable DEF Inv, ArchiveInv, Live, TypeOK, Process
<1>4. ClockInv'
  BY <1>1 DEF Inv, ClockInv, TypeOK, Process
<1>5. AnchorInv' /\ ReleaseInv'
  BY <1>1 DEF Inv, AnchorInv, ReleaseInv, OneJournal
<1> QED
  BY <1>2, <1>3, <1>4, <1>5 DEF Inv

LEMMA StartInv == Inv /\ Start => Inv'
<1> SUFFICES ASSUME Inv, Start PROVE Inv'
  OBVIOUS
<1>1. /\ UNCHANGED <<wall, mono, journal, heads, archive, released, documents, stamps>>
      /\ process' = [up |-> TRUE, nonce |-> process.nonce + 1, active |-> FALSE,
                     failed |-> FALSE, last |-> wall,
                     anchorWall |-> wall, anchorMono |-> mono]
      /\ wall >= LastTime(journal)
  BY DEF Start
<1>2. TypeOK'
  BY <1>1 DEF Inv, TypeOK, Process
<1>3. ArchiveInv'
  BY <1>1, ArchiveStable DEF Inv, ArchiveInv, Live, TypeOK, Process
<1>4. ClockInv'
  <2>1. \A k \in DOMAIN journal : journal[k].at =< wall
    <3> SUFFICES ASSUME NEW k \in DOMAIN journal PROVE journal[k].at =< wall
      OBVIOUS
    <3>1. Ordered(journal)
      BY DEF Inv, ArchiveInv, Live, ImageOK
    <3>2. journal \in Seq(Event) /\ wall \in Nat
      BY DEF Inv, TypeOK
    <3>3. Len(journal) \in DOMAIN journal /\ k =< Len(journal) /\ journal # <<>>
      BY <3>2
    <3>4. journal[k].at =< journal[Len(journal)].at
      BY <3>1, <3>3 DEF Ordered
    <3>5. journal[Len(journal)].at =< wall
      BY <1>1, <3>3 DEF LastTime
    <3>6. journal[k].at \in Nat /\ journal[Len(journal)].at \in Nat
      BY <3>2, <3>3, EventAt
    <3> QED
      BY <3>2, <3>4, <3>5, <3>6
  <2> QED
    BY <1>1, <2>1 DEF Inv, ClockInv, TypeOK
<1>5. AnchorInv'
  BY <1>1 DEF Inv, AnchorInv, ArchiveInv, Live, ImageOK, TypeOK, Process, Stamp
<1>6. ReleaseInv'
  BY <1>1 DEF Inv, ReleaseInv, OneJournal, TypeOK, Process
<1> QED
  BY <1>2, <1>3, <1>4, <1>5, <1>6 DEF Inv

LEMMA CrashInv == Inv /\ Crash => Inv'
<1> SUFFICES ASSUME Inv, Crash PROVE Inv'
  OBVIOUS
<1>1. /\ UNCHANGED <<wall, mono, journal, archive, released, documents, stamps>>
      /\ process'.nonce = process.nonce /\ ~process'.up /\ ~process'.active
      /\ heads' = [s \in Spaces |-> NoHead]
      /\ process' \in Process
  BY DEF Crash, Down, Inv, TypeOK, Process
<1>2. TypeOK'
  BY <1>1 DEF Inv, TypeOK
<1>3. ArchiveInv'
  BY <1>1, ArchiveStable DEF Inv, ArchiveInv, Live, TypeOK, Process
<1>4. ClockInv' /\ AnchorInv' /\ ReleaseInv'
  BY <1>1 DEF Inv, ClockInv, AnchorInv, ReleaseInv, OneJournal
<1> QED
  BY <1>2, <1>3, <1>4 DEF Inv

LEMMA RestoreInv == Inv /\ Restore => Inv'
<1> SUFFICES ASSUME Inv, Restore PROVE Inv'
  OBVIOUS
<1>1. PICK image \in archive : journal' = image.journal /\ stamps' = image.stamps
  BY DEF Restore
<1>2. /\ UNCHANGED <<wall, mono, process, heads, archive, released, documents>>
      /\ ~process.up /\ ~process.active
  BY DEF Restore, Inv, ClockInv
<1>3. TypeOK'
  BY <1>1, <1>2 DEF Inv, TypeOK, Images
<1>4. ArchiveInv'
  <2>1. image = [journal |-> image.journal, stamps |-> image.stamps]
    BY <1>1 DEF Inv, TypeOK, Images
  <2>2. Live' \in archive
    BY <1>1, <2>1 DEF Live
  <2> QED
    BY <1>2, <2>2, ArchiveStable DEF Inv, TypeOK, Process
<1>5. ClockInv' /\ AnchorInv' /\ ReleaseInv'
  BY <1>2 DEF Inv, ClockInv, AnchorInv, ReleaseInv, OneJournal
<1> QED
  BY <1>3, <1>4, <1>5 DEF Inv

LEMMA ReviewInv == Inv /\ Review => Inv'
<1> SUFFICES ASSUME Inv, Review PROVE Inv'
  OBVIOUS
<1>1. PICK image \in archive :
        /\ \A position \in released : IsPrefix(position, image.journal)
        /\ documents' = documents \cup
             {[nonce |-> process.nonce, expected |-> image.journal,
               expires |-> wall + ActivationLife]}
  BY DEF Review
<1>2. UNCHANGED <<wall, mono, journal, process, heads, archive, released, stamps>>
  BY DEF Review
<1>3. TypeOK'
  BY <1>1, <1>2, LimitAssumption DEF Inv, TypeOK, Process, Images
<1>4. ArchiveInv'
  BY <1>2, ArchiveStable DEF Inv, ArchiveInv, Live, TypeOK, Process
<1>5. ClockInv' /\ AnchorInv'
  BY <1>2 DEF Inv, ClockInv, AnchorInv
<1>6. ReleaseInv'
  BY <1>1, <1>2 DEF Inv, ReleaseInv, OneJournal, TypeOK, Process
<1> QED
  BY <1>3, <1>4, <1>5, <1>6 DEF Inv

\* The heart of the matter: only a document for this very process, written
\* when its journal extended every answer, makes it active.
LEMMA ActivateInv ==
    ASSUME Inv, NEW doc \in documents, Activate(doc)
    PROVE  Inv'
<1>1. /\ UNCHANGED <<wall, mono, journal, heads, archive, released, documents, stamps>>
      /\ process' = [process EXCEPT !.active = TRUE, !.last = wall,
                                    !.anchorWall = wall, !.anchorMono = mono]
      /\ process.up /\ ~process.active /\ ~process.failed
      /\ process.last =< wall
      /\ doc.nonce = process.nonce /\ doc.expected = journal
  BY DEF Activate, Inv, TypeOK, Process
<1>2. TypeOK' /\ process'.nonce = process.nonce
  BY <1>1 DEF Inv, TypeOK, Process
<1>3. ArchiveInv'
  BY <1>1, <1>2, ArchiveStable DEF Inv, ArchiveInv, Live, TypeOK, Process
<1>4. process'.active /\ process'.up /\ process'.last = wall
      /\ process'.anchorWall = wall /\ process'.anchorMono = mono
  BY <1>1 DEF Inv, TypeOK, Process
<1>5. ClockInv'
  <2>1. \A k \in DOMAIN journal : journal[k].at =< wall
    BY <1>1, EventAt DEF Inv, ClockInv, TypeOK, Process
  <2> QED
    BY <1>1, <1>4, <2>1 DEF Inv, ClockInv, TypeOK
<1>6. AnchorInv'
  <2>1. \A k \in DOMAIN journal : stamps[k].nonce # process.nonce
    BY <1>1 DEF Inv, AnchorInv, TypeOK
  <2> QED
    BY <1>1, <1>2, <1>4, <2>1 DEF AnchorInv
<1>7. ReleaseInv'
  BY <1>1, <1>2, <1>4 DEF Inv, ReleaseInv, OneJournal
<1> QED
  BY <1>2, <1>3, <1>5, <1>6, <1>7 DEF Inv

LEMMA SealInv == Inv /\ Seal => Inv'
<1> SUFFICES ASSUME Inv, Seal PROVE Inv'
  OBVIOUS
<1>1. /\ UNCHANGED <<wall, mono, journal, heads, archive, released, documents, stamps>>
      /\ process' = [process EXCEPT !.active = FALSE, !.failed = TRUE]
      /\ process.up
  BY DEF Seal, Inv, ClockInv
<1>2. /\ process' \in Process /\ process'.nonce = process.nonce
      /\ process'.up /\ ~process'.active /\ process'.failed
      /\ process'.last = process.last
      /\ process'.anchorWall = process.anchorWall
      /\ process'.anchorMono = process.anchorMono
  BY <1>1 DEF Inv, TypeOK, Process
<1>3. TypeOK'
  BY <1>1, <1>2 DEF Inv, TypeOK
<1>4. ArchiveInv'
  BY <1>1, <1>2, ArchiveStable DEF Inv, ArchiveInv, Live, TypeOK, Process
<1>5. ClockInv' /\ AnchorInv' /\ ReleaseInv'
  BY <1>1, <1>2 DEF Inv, ClockInv, AnchorInv, ReleaseInv, OneJournal
<1> QED
  BY <1>3, <1>4, <1>5 DEF Inv

\* What a passed guard says of the process.
LEMMA GuardFacts ==
    ASSUME Inv, Guard
    PROVE  /\ process' \in Process /\ process'.nonce = process.nonce
           /\ process.active /\ process.up
           /\ process'.active /\ process'.up
           /\ process'.last = wall /\ process.last =< wall
           /\ process'.anchorWall = process.anchorWall
           /\ process'.anchorMono = process.anchorMono
           /\ LET passed == wall - process.anchorWall
                  elapsed == mono - process.anchorMono
              IN passed - elapsed =< Skew /\ elapsed - passed =< Skew
<1>1. /\ process \in Process /\ wall \in Nat /\ mono \in Nat
      /\ process.active /\ process.up /\ process.anchorWall =< process.last
  BY DEF Inv, TypeOK, ClockInv, Guard
<1>2. process' = [process EXCEPT !.last = wall] /\ process.last =< wall
  BY <1>1 DEF Guard, ClockSound, Process
<1>3. LET passed == wall - process.anchorWall
          elapsed == mono - process.anchorMono
      IN passed - elapsed =< Skew /\ elapsed - passed =< Skew
  BY <1>1, <1>2, LimitAssumption DEF Guard, ClockSound, Process
<1> QED
  BY <1>1, <1>2, <1>3 DEF Process

\* A passed guard is no earlier than any event.
LEMMA PastEvents ==
    ASSUME Inv, Guard
    PROVE  \A k \in DOMAIN journal : journal[k].at =< wall
<1> SUFFICES ASSUME NEW k \in DOMAIN journal PROVE journal[k].at =< wall
  OBVIOUS
<1>1. journal[k].at =< process.last /\ process.last =< wall
  BY GuardFacts DEF Inv, ClockInv
<1>2. journal[k].at \in Nat
  BY EventAt DEF Inv, TypeOK
<1>3. process.last \in Nat /\ wall \in Nat
  BY DEF Inv, TypeOK, Process
<1> QED
  BY <1>1, <1>2, <1>3

\* A request that leaves the journal alone and answers with a part of it.
LEMMA AnswerInv ==
    ASSUME Inv, Guard, NEW p \in Seq(Event), IsPrefix(p, journal),
           released \subseteq released', released' \subseteq released \cup {p},
           UNCHANGED <<wall, mono, journal, archive, documents, stamps>>,
           DOMAIN heads' = Spaces,
           \A s \in Spaces : heads'[s] # NoHead =>
             heads'[s] \in [event: Seq(Event), head: Commands \cup {NoHead}]
    PROVE  Inv'
<1>1. TypeOK'
  BY GuardFacts DEF Inv, TypeOK
<1>2. ArchiveInv'
  BY GuardFacts, ArchiveStable DEF Inv, ArchiveInv, Live, TypeOK, Process
<1>3. ClockInv'
  <2>1. \A k \in DOMAIN journal : journal[k].at =< wall
    BY PastEvents
  <2>2. process.anchorWall =< wall /\ process.anchorMono =< mono
    BY GuardFacts DEF Inv, ClockInv, TypeOK, Process
  <2> QED
    BY GuardFacts, <2>1, <2>2 DEF ClockInv
<1>4. AnchorInv'
  BY GuardFacts DEF Inv, AnchorInv
<1>5. ReleaseInv'
  <2>1. \A q \in released : IsPrefix(q, journal)
    BY GuardFacts DEF Inv, ReleaseInv
  <2>2. OneJournal'
    <3>1. journal \in Seq(Event) /\ released \subseteq Seq(Event) /\ OneJournal
      BY DEF Inv, ReleaseInv, TypeOK
    <3> QED
      BY <2>1, <3>1, OneMore
  <2> QED
    BY GuardFacts, <2>1, <2>2 DEF Inv, ReleaseInv
<1> QED
  BY <1>1, <1>2, <1>3, <1>4, <1>5 DEF Inv

LEMMA JournalIsPrefix == TypeOK => journal \in Seq(Event) /\ IsPrefix(journal, journal)
BY PrefixElements DEF TypeOK

LEMMA ReadyInv == Inv /\ Ready => Inv'
BY AnswerInv, JournalIsPrefix DEF Inv, TypeOK, Ready

LEMMA ReplayInv ==
    ASSUME Inv, NEW c \in Commands, Replay(c)
    PROVE  Inv'
<1>1. PICK k \in DOMAIN journal : released' = released \cup {SubSeq(journal, 1, k)}
  BY DEF Replay
<1>2. SubSeq(journal, 1, k) \in Seq(Event) /\ IsPrefix(SubSeq(journal, 1, k), journal)
  BY PrefixSub DEF Inv, TypeOK
<1>3. /\ Guard
      /\ UNCHANGED <<wall, mono, journal, heads, archive, documents, stamps>>
  BY DEF Replay
<1> DEFINE p == SubSeq(journal, 1, k)
<1> HIDE DEF p
<1>4. p \in Seq(Event) /\ IsPrefix(p, journal) /\ released' = released \cup {p}
  BY <1>1, <1>2 DEF p
<1> QED
  BY <1>3, <1>4, AnswerInv DEF Inv, TypeOK

LEMMA NoopInv ==
    ASSUME Inv, NEW c \in Commands, Noop(c)
    PROVE  Inv'
BY AnswerInv, JournalIsPrefix DEF Inv, TypeOK, Noop

\* The last event of a Space is one of its events.
LEMMA LastFacts ==
    ASSUME Inv, NEW s \in Spaces, EventsOf(journal, s) # {}
    PROVE  /\ LastOf(journal, s) \in EventsOf(journal, s)
           /\ LastOf(journal, s) \in DOMAIN journal
           /\ HeadOf(journal, s) \in Commands \cup {NoHead}
           /\ HeadOf(journal, s) = journal[LastOf(journal, s)].head
<1>1. \E k \in EventsOf(journal, s) : \A j \in EventsOf(journal, s) : j =< k
  BY DEF Inv, ArchiveInv, Live, ImageOK, HasLast
<1>2. LastOf(journal, s) \in EventsOf(journal, s)
  BY <1>1 DEF LastOf
<1>3. HeadOf(journal, s) = journal[LastOf(journal, s)].head
  BY DEF HeadOf
<1>4. LastOf(journal, s) \in DOMAIN journal
  BY <1>2 DEF EventsOf
<1>5. journal[LastOf(journal, s)].head \in Commands \cup {NoHead}
  BY <1>4, EventAt DEF Inv, TypeOK
<1> QED
  BY <1>2, <1>3, <1>4, <1>5

LEMMA FreshnessInv ==
    ASSUME Inv, NEW s \in Spaces, Freshness(s)
    PROVE  Inv'
<1> DEFINE k == LastOf(journal, s)
           head == IF CacheHit(s, k) THEN heads[s].head ELSE HeadOf(journal, s)
           p == SubSeq(journal, 1, k)
<1>1. /\ Guard
      /\ EventsOf(journal, s) # {}
      /\ heads' = [heads EXCEPT ![s] = [event |-> p, head |-> head]]
      /\ released' = released \cup {journal}
      /\ UNCHANGED <<wall, mono, journal, archive, documents, stamps>>
  BY DEF Freshness
<1>2. head \in Commands \cup {NoHead}
  BY <1>1, LastFacts DEF CacheHit
<1>3. p \in Seq(Event)
  BY <1>1, LastFacts, PrefixSub DEF Inv, TypeOK
<1> HIDE DEF k, head, p
<1>4. /\ DOMAIN heads' = Spaces
      /\ \A x \in Spaces : heads'[x] # NoHead =>
           heads'[x] \in [event: Seq(Event), head: Commands \cup {NoHead}]
  BY <1>1, <1>2, <1>3 DEF Inv, TypeOK
<1> QED
  BY <1>1, <1>4, AnswerInv, JournalIsPrefix DEF Inv

-----------------------------------------------------------------------------
(* A committed command.                                                     *)

\* Appending to both sequences leaves what was there.
LEMMA AppendEvent ==
    ASSUME TypeOK, NEW e \in Event, NEW m \in Stamp
    PROVE  /\ Append(journal, e) \in Seq(Event) /\ Append(stamps, m) \in Seq(Stamp)
           /\ DOMAIN Append(journal, e) = 1..(Len(journal) + 1)
           /\ DOMAIN Append(stamps, m) = 1..(Len(journal) + 1)
           /\ DOMAIN journal = 1..Len(journal) /\ DOMAIN stamps = 1..Len(journal)
           /\ Len(journal) \in Nat
           /\ Len(Append(stamps, m)) = Len(Append(journal, e))
           /\ \A k \in 1..Len(journal) : /\ Append(journal, e)[k] = journal[k]
                                         /\ Append(stamps, m)[k] = stamps[k]
           /\ Append(journal, e)[Len(journal) + 1] = e
           /\ Append(stamps, m)[Len(journal) + 1] = m
<1>1. /\ journal \in Seq(Event) /\ stamps \in Seq(Stamp)
      /\ Len(stamps) = Len(journal)
  BY DEF TypeOK
<1> QED
  BY <1>1

\* The event of a command.
LEMMA EventType ==
    ASSUME Inv, NEW c \in Commands
    PROVE  /\ EventFor(journal, c) \in Event
           /\ EventFor(journal, c).at = wall
           /\ EventFor(journal, c).command = c
<1>1. CommandBody[c].space \in Spaces
  BY CommandAssumption
<1>2. HeadOf(journal, CommandBody[c].space) \in Commands \cup {NoHead}
  <2>1. CASE EventsOf(journal, CommandBody[c].space) = {}
    BY <2>1 DEF HeadOf
  <2>2. CASE EventsOf(journal, CommandBody[c].space) # {}
    BY <1>1, <2>2, LastFacts
  <2> QED
    BY <2>1, <2>2
<1>3. wall \in Nat
  BY DEF Inv, TypeOK
<1> QED
  BY <1>1, <1>2, <1>3 DEF EventFor, Event

LEMMA ApplyInv ==
    ASSUME Inv, NEW c \in Commands, NEW answered \in BOOLEAN, Apply(c, answered)
    PROVE  Inv'
<1> DEFINE e == EventFor(journal, c)
           m == [nonce |-> process.nonce, mono |-> mono]
           n == Len(journal) + 1
<1>1. /\ Guard /\ ~NonceTaken(journal, c)
      /\ journal' = Append(journal, e)
      /\ stamps' = Append(stamps, m)
      /\ archive' = archive \cup {Live'}
      /\ released \subseteq released' /\ released' \subseteq released \cup {journal'}
      /\ UNCHANGED <<wall, mono, heads, documents>>
  BY DEF Apply, Live
<1>2. /\ e \in Event /\ e.at = wall /\ e.command = c
  BY EventType
<1>3. /\ m \in Stamp /\ m.nonce = process.nonce /\ m.mono = mono
  BY DEF Inv, TypeOK, Process, Stamp
<1> HIDE DEF e, m
<1>4. /\ journal' \in Seq(Event) /\ stamps' \in Seq(Stamp)
      /\ Len(stamps') = Len(journal')
      /\ DOMAIN journal' = 1..n /\ DOMAIN stamps' = 1..n
      /\ DOMAIN journal = 1..(n - 1) /\ DOMAIN stamps = 1..(n - 1)
      /\ n \in Nat \ {0}
      /\ \A k \in 1..(n - 1) : journal'[k] = journal[k] /\ stamps'[k] = stamps[k]
      /\ journal'[n] = e /\ stamps'[n] = m
  BY <1>1, <1>2, <1>3, AppendEvent DEF Inv
<1> HIDE DEF n
<1>5. Live'.journal = journal' /\ Live'.stamps = stamps' /\ Live' \in Images
  BY <1>4 DEF Live, Images
<1>6. TypeOK'
  BY <1>1, <1>4, <1>5, GuardFacts DEF Inv, TypeOK
<1>7. \A k \in 1..(n - 1) :
        /\ journal[k].at \in Nat /\ stamps[k].mono \in Nat /\ stamps[k].nonce \in Nat
        /\ journal[k].at =< wall
  BY <1>1, <1>4, EventAt, StampAt, PastEvents DEF Inv, TypeOK
<1>8. /\ wall \in Nat /\ mono \in Nat /\ process.nonce \in Nat /\ Skew \in Nat
      /\ process.anchorWall \in Nat /\ process.anchorMono \in Nat
  BY LimitAssumption DEF Inv, TypeOK, Process
<1>9. ImageOK(Live)
  BY DEF Inv, ArchiveInv
<1>10. \A k \in 1..n : stamps'[k].nonce = process.nonce =>
         LET passed == journal'[k].at - process.anchorWall
             elapsed == stamps'[k].mono - process.anchorMono
         IN passed - elapsed =< Skew /\ elapsed - passed =< Skew
  <2>1. \A k \in 1..(n - 1) : stamps[k].nonce = process.nonce =>
          LET passed == journal[k].at - process.anchorWall
              elapsed == stamps[k].mono - process.anchorMono
          IN passed - elapsed =< Skew /\ elapsed - passed =< Skew
    BY <1>1, <1>4, GuardFacts DEF Inv, AnchorInv
  <2>2. LET passed == e.at - process.anchorWall
            elapsed == m.mono - process.anchorMono
        IN passed - elapsed =< Skew /\ elapsed - passed =< Skew
    BY <1>1, <1>2, <1>3, GuardFacts
  <2> SUFFICES ASSUME NEW k \in 1..n, stamps'[k].nonce = process.nonce
               PROVE  LET passed == journal'[k].at - process.anchorWall
                          elapsed == stamps'[k].mono - process.anchorMono
                      IN passed - elapsed =< Skew /\ elapsed - passed =< Skew
    OBVIOUS
  <2>3. CASE k = n
    BY <1>4, <2>2, <2>3
  <2>4. CASE k # n
    <3>1. k \in 1..(n - 1)
      BY <1>4, <2>4
    <3>2. journal'[k] = journal[k] /\ stamps'[k] = stamps[k]
      BY <1>4, <3>1
    <3> QED
      BY <2>1, <3>1, <3>2
  <2> QED
    BY <2>3, <2>4
<1>11. HasLast(journal')
  <2> SUFFICES ASSUME NEW s \in Spaces, EventsOf(journal', s) # {}
               PROVE  \E k \in EventsOf(journal', s) :
                        \A j \in EventsOf(journal', s) : j =< k
    BY DEF HasLast
  <2>1. CASE e.space = s
    <3>1. n \in EventsOf(journal', s) /\ \A j \in EventsOf(journal', s) : j =< n
      BY <1>4, <2>1 DEF EventsOf
    <3> QED
      BY <3>1
  <2>2. CASE e.space # s
    <3>1. EventsOf(journal', s) = EventsOf(journal, s)
      BY <1>4, <2>2 DEF EventsOf
    <3> QED
      BY <3>1, <1>9 DEF ImageOK, HasLast, Live
  <2> QED
    BY <2>1, <2>2
<1>12. Ordered(journal')
  <2> SUFFICES ASSUME NEW j \in 1..n, NEW k \in 1..n, j =< k
               PROVE  journal'[j].at =< journal'[k].at
    BY <1>4 DEF Ordered
  <2>1. CASE k = n /\ j = n
    BY <1>2, <1>4, <1>8, <2>1
  <2>2. CASE k = n /\ j # n
    <3>1. j \in 1..(n - 1)
      BY <1>4, <2>2
    <3> QED
      BY <1>2, <1>4, <1>7, <2>2, <3>1
  <2>3. CASE k # n
    <3>1. j \in 1..(n - 1) /\ k \in 1..(n - 1)
      BY <1>4, <2>3
    <3>2. journal[j].at =< journal[k].at
      BY <1>4, <1>9, <3>1 DEF ImageOK, Live, Ordered
    <3> QED
      BY <1>4, <3>1, <3>2
  <2> QED
    BY <2>1, <2>2, <2>3
<1>13. Measured(journal', stamps')
  <2> SUFFICES ASSUME NEW j \in 1..n, NEW k \in 1..n, j < k,
                      stamps'[j].nonce = stamps'[k].nonce
               PROVE  LET wallTime == journal'[k].at - journal'[j].at
                          realTime == stamps'[k].mono - stamps'[j].mono
                      IN /\ wallTime - realTime =< 2 * Skew
                         /\ realTime - wallTime =< 2 * Skew
    BY <1>4 DEF Measured
  <2>1. j \in 1..(n - 1) /\ journal'[j] = journal[j] /\ stamps'[j] = stamps[j]
    BY <1>4
  <2>2. CASE k = n
    <3>1. stamps'[j].nonce = process.nonce /\ stamps'[k].nonce = process.nonce
      BY <1>3, <1>4, <2>2
    <3>2. /\ LET passed == journal'[j].at - process.anchorWall
                 elapsed == stamps'[j].mono - process.anchorMono
             IN passed - elapsed =< Skew /\ elapsed - passed =< Skew
          /\ LET passed == journal'[k].at - process.anchorWall
                 elapsed == stamps'[k].mono - process.anchorMono
             IN passed - elapsed =< Skew /\ elapsed - passed =< Skew
      BY <1>10, <3>1
    <3>3. /\ journal'[j].at \in Nat /\ journal'[k].at \in Nat
          /\ stamps'[j].mono \in Nat /\ stamps'[k].mono \in Nat
      BY <1>2, <1>3, <1>4, <1>7, <1>8, <2>1, <2>2
    <3> QED
      BY <1>8, <3>2, <3>3
  <2>3. CASE k # n
    <3>1. k \in 1..(n - 1) /\ journal'[k] = journal[k] /\ stamps'[k] = stamps[k]
      BY <1>4, <2>3
    <3>2. Measured(journal, stamps)
      BY <1>9 DEF ImageOK, Live
    <3> QED
      BY <1>4, <2>1, <3>1, <3>2 DEF Measured
  <2> QED
    BY <2>2, <2>3
<1>14. Spaced(journal')
  <2> SUFFICES ASSUME NEW j \in 1..n, NEW k \in 1..n, j < k,
                      CommandBody[journal'[j].command].signer =
                        CommandBody[journal'[k].command].signer,
                      CommandBody[journal'[j].command].nonce =
                        CommandBody[journal'[k].command].nonce
               PROVE  CommandBody[journal'[j].command].expires =< journal'[k].at
    BY <1>4 DEF Spaced
  <2>1. j \in 1..(n - 1) /\ journal'[j] = journal[j]
    BY <1>4
  <2>2. CASE k = n
    <3>1. ~(CommandBody[journal[j].command].expires >= wall - NonceRetention)
      BY <1>1, <1>2, <1>4, <2>1, <2>2 DEF NonceTaken
    <3>2. /\ CommandBody[journal[j].command].expires \in Nat
          /\ NonceRetention \in Nat
      BY <1>4, <2>1, EventAt, CommandAssumption, LimitAssumption DEF Inv, TypeOK
    <3>3. CommandBody[journal[j].command].expires =< wall
      BY <1>8, <3>1, <3>2
    <3> QED
      BY <1>2, <1>4, <2>1, <2>2, <3>3
  <2>3. CASE k # n
    <3>1. k \in 1..(n - 1) /\ journal'[k] = journal[k]
      BY <1>4, <2>3
    <3>2. Spaced(journal)
      BY <1>9 DEF ImageOK, Live
    <3> QED
      BY <1>4, <2>1, <3>1, <3>2 DEF Spaced
  <2> QED
    BY <2>2, <2>3
<1>15. \A k \in DOMAIN stamps' : stamps'[k].nonce =< process.nonce
  <2> SUFFICES ASSUME NEW k \in 1..n PROVE stamps'[k].nonce =< process.nonce
    BY <1>4
  <2>1. CASE k = n
    BY <1>3, <1>4, <1>8, <2>1
  <2>2. CASE k # n
    <3>1. k \in 1..(n - 1)
      BY <1>4, <2>2
    <3> QED
      BY <1>4, <1>9, <3>1 DEF ImageOK, Live
  <2> QED
    BY <2>1, <2>2
<1>16. ArchiveInv'
  <2>1. process'.nonce = process.nonce
    BY <1>1, GuardFacts
  <2>2. ImageOK(Live)'
    BY <1>5, <1>11, <1>12, <1>13, <1>14, <1>15, <2>1 DEF ImageOK
  <2>3. ASSUME NEW image \in archive PROVE ImageOK(image)'
    BY <2>1, <2>3 DEF Inv, ArchiveInv, ImageOK
  <2> QED
    BY <1>1, <2>2, <2>3 DEF ArchiveInv
<1>17. ClockInv'
  <2>1. \A k \in DOMAIN journal' : journal'[k].at =< wall
    <3> SUFFICES ASSUME NEW k \in 1..n PROVE journal'[k].at =< wall
      BY <1>4
    <3>1. CASE k = n
      BY <1>2, <1>4, <1>8, <3>1
    <3>2. CASE k # n
      BY <1>4, <1>7, <3>2
    <3> QED
      BY <3>1, <3>2
  <2>2. process.anchorWall =< wall /\ process.anchorMono =< mono
    BY <1>1, GuardFacts DEF Inv, ClockInv, TypeOK, Process
  <2> QED
    BY <1>1, GuardFacts, <2>1, <2>2 DEF ClockInv
<1>18. AnchorInv'
  BY <1>1, <1>4, <1>10, GuardFacts DEF AnchorInv
<1>19. ReleaseInv'
  <2>1. /\ journal \in Seq(Event) /\ released \subseteq Seq(Event) /\ OneJournal
        /\ \A q \in released : IsPrefix(q, journal)
    BY <1>1, GuardFacts DEF Inv, TypeOK, ReleaseInv
  <2>2. IsPrefix(journal, journal')
    BY <1>1, <1>2, <2>1, PrefixAppend
  <2>3. \A q \in released : IsPrefix(q, journal')
    BY <1>4, <2>1, <2>2, PrefixTransitive
  <2>4. IsPrefix(journal', journal')
    BY <1>4, PrefixElements
  <2>5. OneJournal'
    BY <1>1, <1>4, <2>1, <2>3, <2>4, OneMore
  <2> QED
    BY <1>1, GuardFacts, <2>3, <2>4, <2>5 DEF Inv, ReleaseInv
<1> QED
  BY <1>6, <1>16, <1>17, <1>18, <1>19 DEF Inv

-----------------------------------------------------------------------------
(* The theorems.                                                            *)

LEMMA NextInv == Inv /\ [Next]_vars => Inv'
BY TickInv, StartInv, CrashInv, RestoreInv, ReviewInv, ActivateInv, SealInv,
   ReadyInv, ApplyInv, ReplayInv, NoopInv, FreshnessInv DEF Next

\* Every reachable state satisfies the inductive invariant: the databases
\* that backups hold are sound, and an active process continues a journal
\* that extends every answer that left the host.
THEOREM JournalInvariant == Spec => []Inv
BY InitInv, NextInv, PTL DEF Spec

\* Every value in the process and its database has its type.
THEOREM JournalTyped == Spec => []TypeOK
<1>1. Inv => TypeOK
  BY DEF Inv
<1> QED
  BY <1>1, JournalInvariant, PTL

\* No two signed answers contradict each other, whatever is restored.
THEOREM ForkFree == Spec => []OneJournal
<1>1. Inv => OneJournal
  BY DEF Inv, ReleaseInv
<1> QED
  BY <1>1, JournalInvariant, PTL

\* Accepted times never run backwards.
THEOREM JournalOrdered == Spec => []TimesOrdered
<1>1. Inv => TimesOrdered
  BY DEF Inv, ArchiveInv, Live, ImageOK, TimesOrdered
<1> QED
  BY <1>1, JournalInvariant, PTL

\* Accepted times of one process measure real time up to twice the skew.
THEOREM JournalMeasured == Spec => []TimesMeasured
<1>1. Inv => TimesMeasured
  BY DEF Inv, ArchiveInv, Live, ImageOK, TimesMeasured
<1> QED
  BY <1>1, JournalInvariant, PTL

\* A nonce serves a second command only after the first one expired.
THEOREM NonceSpacing == Spec => []NoncesSpaced
<1>1. Inv => NoncesSpaced
  BY DEF Inv, ArchiveInv, Live, ImageOK, NoncesSpaced
<1> QED
  BY <1>1, JournalInvariant, PTL

\* Accepted times never run backwards and measure what really passed.
THEOREM TimesTrusted == Spec => []TimesSound
BY JournalTyped, JournalOrdered, JournalMeasured, PTL DEF TimesSound

\* An answer takes its head from the cache only when the entry agrees with the receipt of
\* the Space's last event, which is what a reader of the journal would find.
LEMMA FreshnessAnswers ==
    ASSUME NEW s \in Spaces, Freshness(s)
    PROVE  reply'.head = HeadOf(reply'.position, reply'.space)
<1> DEFINE k == LastOf(journal, s)
           head == IF CacheHit(s, k) THEN heads[s].head ELSE HeadOf(journal, s)
<1>1. /\ EventsOf(journal, s) # {}
      /\ reply' = [space |-> s, position |-> journal, head |-> head]
  BY DEF Freshness
<1>2. HeadOf(journal, s) = journal[k].head
  BY <1>1 DEF HeadOf
<1>3. head = HeadOf(journal, s)
  BY <1>2 DEF CacheHit
<1> HIDE DEF head
<1> QED
  BY <1>1, <1>3

LEMMA RepliesStep ==
    ASSUME RepliesCurrent, [Next]_vars
    PROVE  RepliesCurrent'
<1>1. ASSUME NEW s \in Spaces, Freshness(s)
      PROVE  RepliesCurrent'
  BY <1>1, FreshnessAnswers DEF RepliesCurrent
<1>2. ASSUME reply' = reply
      PROVE  RepliesCurrent'
  BY <1>2 DEF RepliesCurrent, NoReply
<1>3. CASE Tick \/ Step \/ Start \/ Crash \/ Restore \/ Review \/ Seal \/ Ready
           \/ (\E doc \in documents : Activate(doc)) \/ UNCHANGED vars
  <2>1. reply' = reply
    BY <1>3 DEF Tick, Step, Start, Crash, Restore, Review, Seal, Ready, Activate, vars
  <2> QED
    BY <1>2, <2>1
<1>4. ASSUME NEW c \in Commands,
             (\E answered \in BOOLEAN : Apply(c, answered)) \/ Replay(c) \/ Noop(c)
      PROVE  RepliesCurrent'
  <2>1. reply' = reply
    BY <1>4 DEF Apply, Replay, Noop
  <2> QED
    BY <1>2, <2>1
<1> QED
  BY <1>1, <1>3, <1>4 DEF Next

\* Every freshness answer names the authority head in force at the position it signs,
\* whatever the head cache held while other Spaces moved the journal (server.rs,
\* `HeadCache::reply`).
THEOREM FreshnessCurrent == Spec => []RepliesCurrent
<1>1. Init => RepliesCurrent
  BY DEF Init, RepliesCurrent
<1>2. RepliesCurrent /\ [Next]_vars => RepliesCurrent'
  BY RepliesStep
<1> QED
  BY <1>1, <1>2, PTL DEF Spec
=============================================================================
