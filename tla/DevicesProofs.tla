---------------------------- MODULE DevicesProofs ----------------------------
(***************************************************************************)
(* Safety of what devices do with a host, for every number of objects,     *)
(* arrival numbers, restores and failures: the inbox of a device           *)
(* (ClientSync), and, for every number of people, devices, invitations and *)
(* intents, the service of a Space its owners manage (SpaceService).       *)
(***************************************************************************)
EXTENDS ClientSync, SpaceService, FiniteSetTheorems, TLAPS

-----------------------------------------------------------------------------
(* Least elements.                                                          *)

LEMMA LeastNatural ==
    ASSUME NEW S \in SUBSET Nat, S # {}
    PROVE  \E n \in S : \A m \in S : n =< m
<1>1. PICK n \in S : \A m \in S : ~(<<m, n>> \in OpToRel(<, Nat))
  BY NatLessThanWellFounded, WFMin
<1>2. \A m \in S : m \in Nat /\ n \in Nat /\ ~(m < n)
  BY <1>1 DEF OpToRel
<1> QED
  BY <1>2

LEMMA MinFacts ==
    ASSUME NEW S \in SUBSET Nat, S # {}
    PROVE  Min(S) \in S
BY LeastNatural DEF Min

LEMMA MaxPair ==
    ASSUME NEW a \in Nat, NEW b \in Nat
    PROVE  Max({a, b}) \in {a, b} /\ Max({a, b}) >= a /\ Max({a, b}) >= b
<1>1. \E x \in {a, b} : \A y \in {a, b} : x >= y
  OBVIOUS
<1> QED
  BY <1>1 DEF Max

-----------------------------------------------------------------------------
(* The inductive invariant of the inbox, in parts.                          *)

RowSets == UNION {[D -> Objects] : D \in SUBSET (1..MaxSeq)}

Mailboxes ==
    [gen: 1..MaxGeneration, rows: RowSets, last: 0..MaxSeq, expired: SUBSET Objects,
     wanted: SUBSET Objects, pruned: SUBSET Objects, flying: SUBSET Objects]

BoxOK(m) == m \in Mailboxes /\ DOMAIN m.rows \subseteq 1..m.last

MailboxOK == BoxOK(srv)

EntryStates == {"PENDING", "WAITING_FOR_PROOF", "ACCEPTED", "REJECTED"}

\* Entries are of this epoch or an earlier one, and there is none before the first
\* page was staged.
EntriesOK ==
    /\ cursor \in [gen: 0..MaxGeneration, seq: 0..MaxSeq, epoch: Nat]
    /\ DOMAIN inbox \subseteq Nat \X Nat \X Nat
    /\ \A k \in DOMAIN inbox :
         inbox[k] \in [object: Objects, state: EntryStates] /\ k[3] =< cursor.epoch
    /\ cursor.gen = 0 => DOMAIN inbox = {}

StoreOK ==
    /\ DOMAIN copies \subseteq Objects /\ DOMAIN outbox \subseteq Objects
    /\ cached \subseteq Objects /\ records \subseteq Objects
    /\ floor \subseteq Objects /\ removed \subseteq Objects
    /\ troubles \in 0..MaxTroubles

PageOK(page) == page.gen \in 1..MaxGeneration /\ page.rows \in RowSets

\* The fields of a pass, by its phase.
PassOK ==
    /\ pass.phase \in {"idle", "check", "stage", "admit", "repair", "upload"}
    /\ pass.phase = "idle" => pass = Idle
    /\ pass.phase = "check" =>
         /\ pass = [phase |-> "check", kind |-> pass.kind, page |-> pass.page]
         /\ PageOK(pass.page)
    /\ pass.phase = "stage" =>
         /\ pass = [phase |-> "stage", kind |-> pass.kind, page |-> pass.page, left |-> pass.left]
         /\ PageOK(pass.page) /\ pass.left \subseteq DOMAIN pass.page.rows
    /\ pass.phase = "admit" => pass = [phase |-> "admit", kind |-> pass.kind]
    /\ pass.phase = "repair" => pass = [phase |-> "repair", tried |-> pass.tried]
    /\ pass.phase = "upload" =>
         pass = [phase |-> "upload", object |-> pass.object] /\ pass.object \in Objects

\* The page of a pass that stages says what the inbox of this epoch says: the check
\* of the page established it, and nothing changes the epoch before the pass ends.
PageAgrees ==
    pass.phase = "stage" =>
      \A s \in DOMAIN pass.page.rows :
        Key(pass.page.gen, s) \in DOMAIN inbox =>
          inbox[Key(pass.page.gen, s)].object = pass.page.rows[s]

\* What was announced is here, or was deleted here.
AnnouncedKept ==
    /\ announced \in [Objects -> {0, 1}]
    /\ \A o \in Objects : announced[o] = 1 => o \in records \cup removed

SyncInv ==
    /\ MailboxOK
    /\ EntriesOK
    /\ StoreOK
    /\ PassOK
    /\ PageAgrees
    /\ PendingIsCached
    /\ AnnouncedKept
    /\ NoResurrection

-----------------------------------------------------------------------------
(* The mailbox.                                                             *)

LEMMA RowsFacts ==
    ASSUME NEW f \in RowSets
    PROVE  DOMAIN f \subseteq 1..MaxSeq /\ \A s \in DOMAIN f : f[s] \in Objects
BY DEF RowSets

LEMMA RowsIntro ==
    ASSUME NEW D \in SUBSET (1..MaxSeq), NEW f \in [D -> Objects]
    PROVE  f \in RowSets
BY DEF RowSets

LEMMA StoredOK ==
    ASSUME MailboxOK, NEW o \in Objects, CanStore(o)
    PROVE  BoxOK(Stored(o))
<1>1. CASE o \in Served
  BY <1>1 DEF MailboxOK, Stored
<1>2. CASE o \notin Served
  <2> DEFINE n == srv.last + 1
             rows == Put(srv.rows, n, o)
  <2>1. srv \in Mailboxes /\ srv.rows \in RowSets /\ srv.last \in 0..MaxSeq
        /\ DOMAIN srv.rows \subseteq 1..srv.last
    BY DEF MailboxOK, BoxOK, Mailboxes
  <2>2. srv.last < MaxSeq /\ MaxSeq \in Nat
    BY <1>2, SyncAssumption DEF CanStore
  <2>3. n \in 1..MaxSeq /\ n \in 0..MaxSeq /\ DOMAIN srv.rows \subseteq 1..n
    BY <2>1, <2>2
  <2>4. \A s \in DOMAIN srv.rows : srv.rows[s] \in Objects
    BY <2>1, RowsFacts
  <2>5. DOMAIN rows = DOMAIN srv.rows \cup {n} /\ rows \in [DOMAIN srv.rows \cup {n} -> Objects]
    <3> HIDE DEF n
    <3> QED
      BY <2>4 DEF Put
  <2>6. DOMAIN rows \subseteq 1..n /\ DOMAIN rows \subseteq 1..MaxSeq
    BY <2>1, <2>2, <2>3, <2>5
  <2> HIDE DEF rows, n
  <2>7. rows \in RowSets
    BY <2>5, <2>6, RowsIntro
  <2>8. Stored(o) = [srv EXCEPT !.rows = rows, !.last = n,
                                !.expired = @ \ {o}, !.wanted = @ \ {o}]
    BY <1>2 DEF Stored, rows, n
  <2>9. Stored(o) \in Mailboxes /\ Stored(o).rows = rows /\ Stored(o).last = n
    BY <2>1, <2>3, <2>7, <2>8 DEF Mailboxes
  <2> QED
    BY <2>6, <2>9 DEF BoxOK
<1> QED
  BY <1>1, <1>2

LEMMA FlyingOK ==
    ASSUME NEW m, BoxOK(m), NEW F \in SUBSET Objects
    PROVE  BoxOK([m EXCEPT !.flying = F])
BY DEF BoxOK, Mailboxes

LEMMA WithoutOK ==
    ASSUME MailboxOK, NEW o, NEW E \in SUBSET Objects, NEW P \in SUBSET Objects
    PROVE  BoxOK([srv EXCEPT !.rows = Without(o), !.expired = E])
           /\ BoxOK([srv EXCEPT !.rows = Without(o), !.pruned = P])
<1>1. srv \in Mailboxes /\ DOMAIN srv.rows \subseteq 1..srv.last /\ srv.rows \in RowSets
  BY DEF MailboxOK, BoxOK, Mailboxes
<1> DEFINE D == {t \in DOMAIN srv.rows : srv.rows[t] # o}
<1>2. D \subseteq 1..MaxSeq /\ D \subseteq 1..srv.last /\ Without(o) \in [D -> Objects]
  BY <1>1, RowsFacts DEF Without
<1>3. Without(o) \in RowSets /\ DOMAIN Without(o) \subseteq 1..srv.last
  <2> HIDE DEF D
  <2> QED
    BY <1>2, RowsIntro
<1> QED
  BY <1>1, <1>3 DEF BoxOK, Mailboxes

LEMMA ClaimedFacts ==
    ASSUME Repairable # {}
    PROVE  Claimed \in Repairable /\ Claimed \in DOMAIN copies
BY DEF Claimed, Repairable

\* Whatever is uploaded, lost, restored or created anew, the mailbox is one.
LEMMA MailboxStep ==
    ASSUME SyncInv, Next
    PROVE  MailboxOK'
<1>1. /\ MailboxOK /\ StoreOK /\ PassOK
      /\ srv \in Mailboxes /\ DOMAIN srv.rows \subseteq 1..srv.last
  BY DEF SyncInv, MailboxOK, BoxOK
<1>2. /\ srv.expired \subseteq Objects /\ srv.wanted \subseteq Objects /\ srv.pruned \subseteq Objects
      /\ srv.flying \subseteq Objects /\ srv.gen \in 1..MaxGeneration /\ srv.last \in 0..MaxSeq
  BY <1>1 DEF Mailboxes
<1>3. Empty \in RowSets /\ DOMAIN Empty = {}
  <2>1. {} \in SUBSET (1..MaxSeq) /\ Empty \in [{} -> Objects]
    BY DEF Empty
  <2> QED
    BY <2>1, RowsIntro
<1>4. ASSUME NEW o \in Objects, Publish(o) PROVE MailboxOK'
  BY <1>1, <1>4, StoredOK DEF Publish, MailboxOK
<1>5. ASSUME NEW o \in Objects, LateUpload(o) PROVE MailboxOK'
  <2>1. BoxOK(IF CanStore(o) THEN Stored(o) ELSE srv)
    BY <1>1, StoredOK DEF MailboxOK
  <2> DEFINE m == IF CanStore(o) THEN Stored(o) ELSE srv
  <2>2. m.flying \ {o} \in SUBSET Objects
    BY <2>1 DEF BoxOK, Mailboxes
  <2> HIDE DEF m
  <2>3. srv' = [m EXCEPT !.flying = m.flying \ {o}]
    BY <1>5 DEF LateUpload, m
  <2>4. BoxOK([m EXCEPT !.flying = m.flying \ {o}])
    BY <2>1, <2>2, FlyingOK DEF m
  <2> QED
    BY <2>3, <2>4 DEF MailboxOK
<1>6. ASSUME NEW o \in Objects, Expire(o) PROVE MailboxOK'
  BY <1>1, <1>2, <1>6, WithoutOK DEF Expire, MailboxOK
<1>7. ASSUME NEW o \in Objects, Want(o) PROVE MailboxOK'
  BY <1>1, <1>7 DEF Want, MailboxOK, BoxOK, Mailboxes
<1>8. ASSUME NEW o \in Objects, Prune(o) PROVE MailboxOK'
  BY <1>1, <1>2, <1>8, WithoutOK DEF Prune, MailboxOK
<1>9. ASSUME NEW b \in Backups, Restore(b) PROVE MailboxOK'
  <2>1. b.rows \in RowSets /\ b.last \in 0..MaxSeq /\ DOMAIN b.rows \subseteq 1..b.last
    <3>1. CASE b = [rows |-> Empty, last |-> 0]
      BY <1>3, <3>1, SyncAssumption
    <3>2. ASSUME NEW o \in Objects, b = [rows |-> [s \in {1} |-> o], last |-> 1]
          PROVE  b.rows \in RowSets /\ b.last \in 0..MaxSeq /\ DOMAIN b.rows \subseteq 1..b.last
      <4>1. 1 < srv.last /\ MaxSeq \in Nat
        BY <1>9, <3>2, SyncAssumption DEF Restore
      <4>2. 1 \in 1..MaxSeq /\ 1 \in 0..MaxSeq
        BY <1>2, <4>1
      <4>3. [s \in {1} |-> o] \in [{1} -> Objects] /\ {1} \in SUBSET (1..MaxSeq)
        BY <4>2
      <4>4. [s \in {1} |-> o] \in RowSets
        BY <4>3, RowsIntro
      <4> QED
        BY <3>2, <4>2, <4>4
    <3> QED
      BY <3>1, <3>2 DEF Backups
  <2>2. srv' = [srv EXCEPT !.rows = b.rows, !.last = b.last,
                          !.expired = {}, !.wanted = {}, !.pruned = {}]
    BY <1>9 DEF Restore
  <2> QED
    BY <1>1, <2>1, <2>2 DEF MailboxOK, BoxOK, Mailboxes
<1>10. CASE Recreate
  <2>1. srv.gen + 1 \in 1..MaxGeneration
    BY <1>2, <1>10, SyncAssumption DEF Recreate
  <2>2. 0 \in 0..MaxSeq
    BY SyncAssumption
  <2> QED
    BY <1>1, <1>3, <1>10, <2>1, <2>2 DEF Recreate, MailboxOK, BoxOK, Mailboxes
<1>11. CASE Upload
  BY <1>1, <1>11, StoredOK DEF Upload, PassOK, MailboxOK
<1>12. CASE UploadFails \/ Crash
  <2>1. \/ srv' = srv
        \/ pass.phase = "upload" /\ srv' = [srv EXCEPT !.flying = srv.flying \cup {pass.object}]
    BY <1>12 DEF UploadFails, Crash
  <2>2. pass.phase = "upload" => srv.flying \cup {pass.object} \in SUBSET Objects
    BY <1>1, <1>2 DEF PassOK
  <2> QED
    BY <1>1, <2>1, <2>2, FlyingOK DEF MailboxOK
<1>13. CASE Repair
  BY <1>1, <1>13, ClaimedFacts, StoredOK DEF Repair, Resends, StoreOK, MailboxOK
<1>14. CASE UNCHANGED srv
  BY <1>1, <1>14 DEF MailboxOK, BoxOK
<1>15. (StartPass("tap") \/ StartPass("full") \/ Reading \/ Admission \/ NetworkFails
        \/ CommitConfiguration) => UNCHANGED srv
  BY DEF StartPass, Reading, Check, Reset, Skip, Stage, StagePruned, Gone, FinishScanPage,
         EndTap, Admission, AdmitRejected, Admit, Defer, EndAdmission, NetworkFails,
         CommitConfiguration
<1>16. (FetchCopy \/ NoSource \/ RepairPruned \/ RepairExpired \/ EndRepair \/ UploadPruned)
         => UNCHANGED srv
  BY DEF FetchCopy, NoSource, RepairPruned, RepairExpired, EndRepair, UploadPruned
<1>17. \A o, older : (Compose(o) \/ ClaimUpload(o) \/ DeleteChatLocal(older)) => UNCHANGED srv
  BY DEF Compose, ClaimUpload, DeleteChatLocal
<1> QED
  BY <1>4, <1>5, <1>6, <1>7, <1>8, <1>9, <1>10, <1>11, <1>12, <1>13, <1>14, <1>15, <1>16, <1>17
  DEF Next, Mailbox, Repairing, Sending

-----------------------------------------------------------------------------
(* The entries of the inbox.                                                *)

Entry == [object: Objects, state: EntryStates]

\* A review of the inbox changes states and nothing else of the entries.
Reviewed ==
    /\ DOMAIN inbox' = DOMAIN inbox
    /\ \A k \in DOMAIN inbox : inbox'[k] \in Entry /\ inbox'[k].object = inbox[k].object
    /\ UNCHANGED <<cursor, pass>>

\* The entry that is admitted next is one that waits.
LEMMA FirstFacts ==
    ASSUME EntriesOK, Pending # {}
    PROVE  /\ First(Pending) \in Pending /\ First(Pending) \in DOMAIN inbox
           /\ inbox[First(Pending)].object \in Objects
           /\ inbox[First(Pending)].state = "PENDING"
<1> DEFINE S == {k[2] : k \in Pending}
<1>1. Pending \subseteq DOMAIN inbox /\ Pending \subseteq Nat \X Nat \X Nat
  BY DEF Pending, EntriesOK
<1>2. S \in SUBSET Nat /\ S # {}
  BY <1>1
<1>3. PICK n \in S : \A m \in S : n =< m
  <2> HIDE DEF S
  <2> QED
    BY <1>2, LeastNatural
<1>4. PICK k \in Pending : k[2] = n
  BY <1>3
<1>5. \A j \in Pending : k[2] =< j[2]
  BY <1>3, <1>4
<1>6. First(Pending) \in Pending
  BY <1>4, <1>5 DEF First
<1> QED
  BY <1>1, <1>6 DEF Pending, EntriesOK

LEMMA DiscardReviews ==
    ASSUME EntriesOK, NEW S, Discard(S), UNCHANGED <<cursor, pass>>
    PROVE  Reviewed
<1>1. inbox' = [k \in DOMAIN inbox |->
                  IF inbox[k].object \in S THEN [inbox[k] EXCEPT !.state = "REJECTED"]
                  ELSE inbox[k]]
  BY DEF Discard
<1>2. \A k \in DOMAIN inbox : inbox[k] \in Entry
  BY DEF EntriesOK, Entry
<1>3. \A e \in Entry : /\ [e EXCEPT !.state = "REJECTED"] \in Entry
                       /\ [e EXCEPT !.state = "REJECTED"].object = e.object
  BY DEF Entry, EntryStates
<1> QED
  BY <1>1, <1>2, <1>3 DEF Reviewed

LEMMA ReviewsReview ==
    ASSUME EntriesOK,
           \/ AdmitRejected \/ Admit \/ Defer \/ CommitConfiguration
           \/ \E older \in SUBSET Objects : DeleteChatLocal(older)
    PROVE  Reviewed
<1>1. \A k \in DOMAIN inbox : inbox[k] \in Entry
  BY DEF EntriesOK, Entry
<1>2. \A e \in Entry, state \in EntryStates :
        [e EXCEPT !.state = state] \in Entry /\ [e EXCEPT !.state = state].object = e.object
  BY DEF Entry
<1>3. CASE AdmitRejected
  BY <1>3, DiscardReviews DEF AdmitRejected
<1>4. ASSUME NEW older \in SUBSET Objects, DeleteChatLocal(older) PROVE Reviewed
  BY <1>4, DiscardReviews DEF DeleteChatLocal
<1>5. CASE Admit
  <2>1. inbox' = [inbox EXCEPT ![First(Pending)] = [@ EXCEPT !.state = "ACCEPTED"]]
        /\ UNCHANGED <<cursor, pass>>
    BY <1>5 DEF Admit
  <2> QED
    BY <1>1, <1>2, <2>1 DEF Reviewed, EntryStates
<1>6. CASE Defer
  <2>1. inbox' = [inbox EXCEPT ![First(Pending)] = [@ EXCEPT !.state = "WAITING_FOR_PROOF"]]
        /\ UNCHANGED <<cursor, pass>>
    BY <1>6 DEF Defer
  <2> QED
    BY <1>1, <1>2, <2>1 DEF Reviewed, EntryStates
<1>7. CASE CommitConfiguration
  <2>1. inbox' = [k \in DOMAIN inbox |->
                   IF inbox[k].state = "WAITING_FOR_PROOF"
                   THEN [inbox[k] EXCEPT !.state = "PENDING"] ELSE inbox[k]]
        /\ UNCHANGED <<cursor, pass>>
    BY <1>7 DEF CommitConfiguration
  <2> QED
    BY <1>1, <1>2, <2>1 DEF Reviewed, EntryStates
<1> QED
  BY <1>3, <1>4, <1>5, <1>6, <1>7

\* The number that is staged next is one of the page.
LEMMA NextFacts ==
    ASSUME SyncInv, pass.phase = "stage", pass.left # {}
    PROVE  /\ NextEntry \in pass.left /\ NextEntry \in DOMAIN pass.page.rows
           /\ NextEntry \in 1..MaxSeq /\ pass.page.rows[NextEntry] \in Objects
           /\ pass.page.gen \in 1..MaxGeneration
<1>1. /\ pass.left \subseteq DOMAIN pass.page.rows /\ pass.page.gen \in 1..MaxGeneration
      /\ pass.page.rows \in RowSets
  BY DEF SyncInv, PassOK, PageOK
<1>2. DOMAIN pass.page.rows \subseteq 1..MaxSeq /\ MaxSeq \in Nat
      /\ \A s \in DOMAIN pass.page.rows : pass.page.rows[s] \in Objects
  BY <1>1, RowsFacts, SyncAssumption
<1>3. pass.left \in SUBSET Nat
  BY <1>1, <1>2
<1>4. NextEntry \in pass.left
  BY <1>3, MinFacts DEF NextEntry
<1> QED
  BY <1>1, <1>2, <1>4

\* Everything but a reset, a staged entry and a review leaves cursor and inbox alone.
LEMMA CursorSteps ==
    ASSUME Next
    PROVE  \/ Reset \/ Stage
           \/ AdmitRejected \/ Admit \/ Defer \/ CommitConfiguration
           \/ \E older \in SUBSET Objects : DeleteChatLocal(older)
           \/ UNCHANGED <<cursor, inbox>>
<1>1. Mailbox => UNCHANGED <<cursor, inbox>>
  BY DEF Mailbox, Publish, LateUpload, Expire, Want, Prune, Restore, Recreate, tables
<1>2. (StartPass("tap") \/ StartPass("full")) => UNCHANGED <<cursor, inbox>>
  BY DEF StartPass
<1>3. (Check \/ Skip \/ StagePruned \/ Gone \/ FinishScanPage \/ EndTap \/ EndAdmission
       \/ NetworkFails \/ Crash) => UNCHANGED <<cursor, inbox>>
  BY DEF Check, Skip, StagePruned, Gone, FinishScanPage, EndTap, EndAdmission, NetworkFails,
         Crash, tables
<1>4. (Repairing \/ Sending) => UNCHANGED <<cursor, inbox>>
  BY DEF Repairing, FetchCopy, NoSource, Repair, RepairPruned, RepairExpired, EndRepair,
         Sending, Upload, UploadPruned, UploadFails, tables
<1>5. \A o : (Compose(o) \/ ClaimUpload(o)) => UNCHANGED <<cursor, inbox>>
  BY DEF Compose, ClaimUpload
<1> QED
  BY <1>1, <1>2, <1>3, <1>4, <1>5 DEF Next, Reading, Admission

LEMMA EntriesStep ==
    ASSUME SyncInv, Next
    PROVE  EntriesOK'
<1>1. /\ EntriesOK /\ MailboxOK /\ cursor \in [gen: 0..MaxGeneration, seq: 0..MaxSeq, epoch: Nat]
      /\ MaxSeq \in Nat /\ MaxGeneration \in Nat
      /\ DOMAIN inbox \subseteq Nat \X Nat \X Nat
      /\ \A k \in DOMAIN inbox : inbox[k] \in Entry /\ k[3] =< cursor.epoch
  BY SyncAssumption DEF SyncInv, EntriesOK, Entry
<1>2. CASE UNCHANGED <<cursor, inbox>>
  BY <1>1, <1>2 DEF EntriesOK
<1>3. CASE Reviewed
  BY <1>1, <1>3 DEF EntriesOK, Reviewed, Entry
<1>4. CASE Reset
  <2>1. srv.gen \in 1..MaxGeneration
    BY <1>1 DEF MailboxOK, BoxOK, Mailboxes
  <2>2. inbox' = inbox /\ cursor' = [gen |-> srv.gen, seq |-> 0,
                     epoch |-> IF cursor.gen = 0 THEN 0 ELSE cursor.epoch + 1]
    BY <1>4 DEF Reset, Page
  <2>3. cursor' \in [gen: 0..MaxGeneration, seq: 0..MaxSeq, epoch: Nat] /\ cursor'.gen # 0
    BY <1>1, <2>1, <2>2
  <2>4. \A k \in DOMAIN inbox : k[3] =< cursor'.epoch
    <3>1. CASE cursor.gen = 0
      BY <1>1, <3>1 DEF EntriesOK
    <3>2. CASE cursor.gen # 0
      BY <1>1, <2>2, <3>2
    <3> QED
      BY <3>1, <3>2
  <2> QED
    BY <1>1, <2>2, <2>3, <2>4 DEF EntriesOK, Entry
<1>5. CASE Stage
  <2> DEFINE s == NextEntry
             o == pass.page.rows[s]
             k == Key(pass.page.gen, s)
             e == [object |-> o, state |-> IF o \in removed THEN "REJECTED" ELSE "PENDING"]
  <2>1. /\ s \in 1..MaxSeq /\ o \in Objects /\ pass.page.gen \in 1..MaxGeneration
    BY <1>5, NextFacts DEF Stage
  <2>2. /\ inbox' = IF k \in DOMAIN inbox THEN inbox ELSE Put(inbox, k, e)
        /\ cursor' = [cursor EXCEPT
                       !.gen = pass.page.gen,
                       !.seq = IF cursor.gen = pass.page.gen THEN Max({@, s}) ELSE s]
    BY <1>5 DEF Stage
  <2> DEFINE n == IF cursor.gen = pass.page.gen THEN Max({cursor.seq, s}) ELSE s
  <2>3. n \in 0..MaxSeq
    <3>1. cursor.seq \in Nat /\ s \in Nat /\ cursor.seq \in 0..MaxSeq /\ s \in 0..MaxSeq
      BY <1>1, <2>1
    <3> HIDE DEF s
    <3> QED
      BY <3>1, MaxPair
  <2>4. /\ cursor' \in [gen: 0..MaxGeneration, seq: 0..MaxSeq, epoch: Nat]
        /\ cursor'.epoch = cursor.epoch /\ cursor'.gen # 0
    <3>1. cursor' = [cursor EXCEPT !.gen = pass.page.gen, !.seq = n]
      BY <2>2
    <3>2. pass.page.gen \in 0..MaxGeneration /\ pass.page.gen # 0
      BY <1>1, <2>1
    <3> HIDE DEF n, s
    <3> QED
      BY <1>1, <2>3, <3>1, <3>2
  <2>5. k \in Nat \X Nat \X Nat /\ k[3] = cursor.epoch /\ e \in Entry
    BY <1>1, <2>1 DEF Key, Entry, EntryStates
  <2> HIDE DEF k, e, s, o
  <2>6. /\ DOMAIN inbox' \subseteq Nat \X Nat \X Nat
        /\ \A j \in DOMAIN inbox' : inbox'[j] \in Entry /\ j[3] =< cursor'.epoch
    <3>1. CASE k \in DOMAIN inbox
      BY <1>1, <2>2, <2>4, <3>1
    <3>2. CASE k \notin DOMAIN inbox
      <4>1. DOMAIN inbox' = DOMAIN inbox \cup {k} /\ inbox'[k] = e
            /\ \A j \in DOMAIN inbox : inbox'[j] = inbox[j]
        BY <2>2, <3>2 DEF Put
      <4>2. cursor.epoch =< cursor.epoch
        BY <1>1
      <4> QED
        BY <1>1, <2>4, <2>5, <4>1, <4>2
    <3> QED
      BY <3>1, <3>2
  <2> QED
    BY <2>4, <2>6 DEF EntriesOK, Entry
<1> QED
  BY <1>1, <1>2, <1>3, <1>4, <1>5, CursorSteps, ReviewsReview

-----------------------------------------------------------------------------
(* The store and the pass.                                                  *)

\* A known mailbox copy, or one that is remembered now.
LEMMA RememberedFacts ==
    ASSUME NEW o
    PROVE  DOMAIN Remembered(o) = DOMAIN copies \cup {o}
BY DEF Remembered, Put

LEMMA TombstoneFacts ==
    ASSUME NEW o, Tombstone(o)
    PROVE  DOMAIN copies' = DOMAIN copies \cup {o} /\ DOMAIN outbox' = DOMAIN outbox
BY DEF Tombstone, Put

LEMMA DiscardFacts ==
    ASSUME NEW S, Discard(S)
    PROVE  /\ removed' = removed \cup S /\ records' = records \ S /\ cached' = cached \ S
           /\ DOMAIN outbox' = DOMAIN outbox \ S /\ DOMAIN copies' = DOMAIN copies \ S
BY DEF Discard, Drop

\* The sets of objects the store keeps after a step.
Kept == <<DOMAIN copies, DOMAIN outbox, cached, records, floor, removed>>

\* The store has the same objects, and perhaps more copies are known.
Carried ==
    /\ DOMAIN outbox' = DOMAIN outbox /\ UNCHANGED <<cached, records, floor, removed>>
    /\ DOMAIN copies \subseteq DOMAIN copies' /\ DOMAIN copies' \subseteq Objects

\* What each step does to the objects of the store.
LEMMA StoreSteps ==
    ASSUME SyncInv, Next
    PROVE  \/ Carried
           \/ FetchCopy
           \/ Stage
           \/ AdmitRejected
           \/ Admit
           \/ \E older \in SUBSET Objects : DeleteChatLocal(older)
           \/ \E o \in Own : Compose(o)
<1>1. StoreOK /\ PassOK /\ DOMAIN copies \subseteq Objects
  BY DEF SyncInv, StoreOK
<1>2. ASSUME Mailbox \/ Check \/ Reset \/ Skip \/ Gone \/ EndTap \/ EndAdmission \/ Defer
             \/ NetworkFails \/ NoSource \/ EndRepair
      PROVE  Carried
  <2>1. UNCHANGED <<copies, outbox, cached, records, floor, removed>>
    BY <1>2 DEF Mailbox, Publish, LateUpload, Expire, Want, Prune, Restore, Recreate, Check, Reset,
                Skip, Gone, EndTap, EndAdmission, Defer, NetworkFails, NoSource, EndRepair, tables
  <2> QED
    BY <1>1, <2>1 DEF Carried
<1>3. ASSUME NEW kind, StartPass(kind) PROVE Carried
  BY <1>1, <1>3 DEF StartPass, Carried
<1>4. ASSUME StagePruned PROVE Carried
  <2>1. PICK o \in Objects : Tombstone(o) /\ UNCHANGED <<cached, records, floor, removed>>
    BY <1>4, NextFacts DEF StagePruned
  <2>2. DOMAIN copies' = DOMAIN copies \cup {o} /\ DOMAIN outbox' = DOMAIN outbox
    BY <2>1, TombstoneFacts
  <2> QED
    BY <1>1, <2>1, <2>2 DEF Carried
<1>5. ASSUME FinishScanPage PROVE Carried
  <2>1. Range(pass.page.rows) \subseteq Objects
    BY <1>1, <1>5, RowsFacts DEF FinishScanPage, PassOK, PageOK, Range
  <2>2. DOMAIN CopiesShown(pass.page) = DOMAIN copies \cup Range(pass.page.rows)
    BY DEF CopiesShown
  <2>3. DOMAIN copies' = DOMAIN CopiesShown(pass.page) /\ UNCHANGED <<outbox, cached, records, floor, removed>>
    BY <1>5 DEF FinishScanPage
  <2> QED
    BY <1>1, <2>1, <2>2, <2>3 DEF Carried
<1>6. ASSUME Repair \/ RepairExpired PROVE Carried
  <2>1. DOMAIN copies' = DOMAIN copies /\ UNCHANGED <<outbox, cached, records, floor, removed>>
    BY <1>6 DEF Repair, RepairExpired
  <2> QED
    BY <1>1, <2>1 DEF Carried
<1>7. ASSUME RepairPruned PROVE Carried
  <2>1. PICK o \in DOMAIN copies : Tombstone(o) /\ UNCHANGED <<cached, records, floor, removed>>
    BY <1>7, ClaimedFacts DEF RepairPruned, Resends
  <2> QED
    BY <1>1, <2>1, TombstoneFacts DEF Carried
<1>8. ASSUME Upload PROVE Carried
  <2>1. pass.object \in Objects
    BY <1>1, <1>8 DEF Upload, PassOK
  <2>2. /\ DOMAIN copies' = DOMAIN Remembered(pass.object)
        /\ DOMAIN outbox' = DOMAIN outbox /\ UNCHANGED <<cached, records, floor, removed>>
    BY <1>8 DEF Upload
  <2> QED
    BY <1>1, <2>1, <2>2, RememberedFacts DEF Carried
<1>9. ASSUME UploadPruned PROVE Carried
  <2>1. PICK o \in Objects : Tombstone(o) /\ UNCHANGED <<cached, records, floor, removed>>
    BY <1>1, <1>9 DEF UploadPruned, PassOK
  <2>2. DOMAIN copies' = DOMAIN copies \cup {o} /\ DOMAIN outbox' = DOMAIN outbox
    BY <2>1, TombstoneFacts
  <2> QED
    BY <1>1, <2>1, <2>2 DEF Carried
<1>10. ASSUME NEW o, UploadFails \/ Crash \/ CommitConfiguration \/ ClaimUpload(o) PROVE Carried
  <2>1. DOMAIN outbox' = DOMAIN outbox /\ UNCHANGED <<copies, cached, records, floor, removed>>
    BY <1>10 DEF UploadFails, Crash, CommitConfiguration, ClaimUpload
  <2> QED
    BY <1>1, <2>1 DEF Carried
<1>11. \/ Carried \/ FetchCopy \/ Stage \/ AdmitRejected \/ Admit
       \/ \E older \in SUBSET Objects : DeleteChatLocal(older)
       \/ \E o \in Own : Compose(o)
  BY <1>2, <1>3, <1>4, <1>5, <1>6, <1>7, <1>8, <1>9, <1>10
  DEF Next, Reading, Admission, Repairing, Sending
<1> QED
  BY <1>11

\* Of the steps that change the store, what changes.
LEMMA StageStore ==
    ASSUME SyncInv, Stage, NEW o, o = pass.page.rows[NextEntry]
    PROVE  /\ o \in Objects
           /\ cached' = IF o \notin removed THEN cached \cup {o} ELSE cached
           /\ DOMAIN copies \subseteq DOMAIN copies' /\ DOMAIN copies' \subseteq DOMAIN copies \cup {o}
           /\ UNCHANGED <<records, outbox, floor, removed>>
<1>1. o \in Objects
  BY NextFacts DEF Stage
<1>2. /\ cached' = IF o \notin removed THEN cached \cup {o} ELSE cached
      /\ copies' = IF o \in removed THEN copies ELSE Remembered(o)
      /\ UNCHANGED <<records, outbox, floor, removed>>
  BY DEF Stage
<1> QED
  BY <1>1, <1>2, RememberedFacts

LEMMA FetchStore ==
    ASSUME SyncInv, FetchCopy
    PROVE  \E o \in Mirrored \cap DOMAIN copies :
             cached' = cached \cup {o}
             /\ UNCHANGED <<copies, inbox, records, outbox, floor, removed, announced>>
BY ClaimedFacts DEF FetchCopy

LEMMA ComposeStore ==
    ASSUME NEW o, Compose(o)
    PROVE  /\ o \in Own /\ o \notin records \cup removed \cup floor
           /\ records' = records \cup {o} /\ cached' = cached \cup {o}
           /\ DOMAIN outbox' = DOMAIN outbox \cup {o}
           /\ UNCHANGED <<copies, floor, removed, inbox, announced>>
BY DEF Compose, Put

LEMMA TroublesStep ==
    ASSUME SyncInv, Next
    PROVE  troubles' \in 0..MaxTroubles
<1>1. troubles \in 0..MaxTroubles /\ MaxTroubles \in Nat
  BY SyncAssumption DEF SyncInv, StoreOK
<1>2. troubles' = troubles \/ Trouble
  <2>1. Mailbox => troubles' = troubles \/ Trouble
    BY DEF Mailbox, Publish, LateUpload, Expire, Want, Prune, Restore, Recreate
  <2>2. (Reading \/ StartPass("tap") \/ StartPass("full")) => troubles' = troubles
    BY DEF Reading, Check, Reset, Skip, Stage, StagePruned, Gone, FinishScanPage, EndTap, StartPass
  <2>3. (Admission \/ Repairing) => troubles' = troubles
    BY DEF Admission, AdmitRejected, Admit, Defer, EndAdmission, Repairing, FetchCopy, NoSource,
           Repair, RepairPruned, RepairExpired, EndRepair
  <2>4. (Sending \/ NetworkFails \/ Crash \/ CommitConfiguration) => troubles' = troubles \/ Trouble
    BY DEF Sending, Upload, UploadPruned, UploadFails, NetworkFails, Crash, CommitConfiguration
  <2>5. \A o, older : (Compose(o) \/ ClaimUpload(o) \/ DeleteChatLocal(older))
                        => troubles' = troubles \/ Trouble
    BY DEF Compose, ClaimUpload, DeleteChatLocal
  <2> QED
    BY <2>1, <2>2, <2>3, <2>4, <2>5 DEF Next
<1>3. Trouble => troubles' \in 0..MaxTroubles
  BY <1>1 DEF Trouble
<1> QED
  BY <1>1, <1>2, <1>3

LEMMA StoreStep ==
    ASSUME SyncInv, Next
    PROVE  StoreOK'
<1>1. StoreOK /\ EntriesOK /\ troubles' \in 0..MaxTroubles
  BY TroublesStep DEF SyncInv
<1>2. CASE Carried
  BY <1>1, <1>2 DEF StoreOK, Carried
<1>3. CASE Stage
  BY <1>1, <1>3, StageStore DEF StoreOK
<1>4. CASE AdmitRejected
  <2>1. PICK o \in Objects : Discard({o}) /\ UNCHANGED floor
    BY <1>1, <1>4, FirstFacts DEF AdmitRejected
  <2>2. /\ removed' = removed \cup {o} /\ records' = records \ {o} /\ cached' = cached \ {o}
        /\ DOMAIN outbox' = DOMAIN outbox \ {o} /\ DOMAIN copies' = DOMAIN copies \ {o}
    BY <2>1, DiscardFacts
  <2> QED
    BY <1>1, <2>1, <2>2 DEF StoreOK
<1>5. CASE Admit
  <2>1. PICK o \in Objects : records' = records \cup {o}
    BY <1>1, <1>5, FirstFacts DEF Admit
  <2>2. UNCHANGED <<copies, outbox, cached, floor, removed>>
    BY <1>5 DEF Admit
  <2> QED
    BY <1>1, <2>1, <2>2 DEF StoreOK
<1>6. ASSUME NEW older \in SUBSET Objects, DeleteChatLocal(older) PROVE StoreOK'
  <2>1. PICK S : S = records \cup (cached \cap removed) /\ Discard(S) /\ floor' = floor \cup older
    BY <1>6 DEF DeleteChatLocal
  <2>2. /\ removed' = removed \cup S /\ records' = records \ S /\ cached' = cached \ S
        /\ DOMAIN outbox' = DOMAIN outbox \ S /\ DOMAIN copies' = DOMAIN copies \ S
    BY <2>1, DiscardFacts
  <2> QED
    BY <1>1, <2>1, <2>2 DEF StoreOK
<1>7. ASSUME NEW o \in Own, Compose(o) PROVE StoreOK'
  <2>1. /\ o \in Objects /\ records' = records \cup {o} /\ cached' = cached \cup {o}
        /\ DOMAIN outbox' = DOMAIN outbox \cup {o} /\ UNCHANGED <<copies, floor, removed>>
    BY <1>7, ComposeStore, SyncAssumption
  <2> QED
    BY <1>1, <2>1 DEF StoreOK
<1>8. CASE FetchCopy
  BY <1>1, <1>8, FetchStore, SyncAssumption DEF StoreOK
<1> HIDE DEF StoreOK
<1> QED
  BY <1>2, <1>3, <1>4, <1>5, <1>6, <1>7, <1>8, StoreSteps

LEMMA PageFacts ==
    ASSUME MailboxOK, NEW after
    PROVE  PageOK(Page(after))
<1> DEFINE later == {s \in DOMAIN srv.rows : s > after}
           kept == {s \in later : Cardinality({t \in later : t < s}) < PageSize}
           rows == [s \in kept |-> srv.rows[s]]
<1>1. srv.gen \in 1..MaxGeneration /\ srv.rows \in RowSets
  BY DEF MailboxOK, BoxOK, Mailboxes
<1>2. Page(after).gen = srv.gen /\ Page(after).rows = rows
  BY DEF Page
<1>3. kept \subseteq DOMAIN srv.rows
  OBVIOUS
<1> HIDE DEF kept
<1>4. kept \in SUBSET (1..MaxSeq) /\ rows \in [kept -> Objects]
  BY <1>1, <1>3, RowsFacts
<1>5. rows \in RowSets
  <2> HIDE DEF rows
  <2> QED
    BY <1>4, RowsIntro
<1> QED
  BY <1>1, <1>2, <1>5 DEF PageOK

\* What each step does to the pass.
LEMMA PassSteps ==
    ASSUME SyncInv, Next
    PROVE  \/ pass' = pass
           \/ pass' = Idle
           \/ pass' = [phase |-> "admit", kind |-> pass.kind]
           \/ \E kind \in {"tap", "full"} : StartPass(kind)
           \/ Check \/ Reset
           \/ /\ pass.phase = "stage" /\ pass.left # {}
              /\ pass' = [pass EXCEPT !.left = @ \ {NextEntry}]
           \/ \E T : pass' = [phase |-> "repair", tried |-> T]
           \/ \E o \in Own : ClaimUpload(o)
<1>1. PassOK
  BY DEF SyncInv
<1>2. Mailbox => pass' = pass
  BY DEF Mailbox, Publish, LateUpload, Expire, Want, Prune, Restore, Recreate
<1>3. (Skip \/ Stage \/ StagePruned) =>
        /\ pass.phase = "stage" /\ pass.left # {}
        /\ pass' = [pass EXCEPT !.left = @ \ {NextEntry}]
  BY DEF Skip, Stage, StagePruned
<1>4. (FinishScanPage \/ EndTap \/ Gone \/ NetworkFails)
        => pass' = [phase |-> "admit", kind |-> pass.kind]
  BY DEF FinishScanPage, EndTap, Gone, NetworkFails
<1>5. (AdmitRejected \/ Admit \/ Defer \/ CommitConfiguration \/ FetchCopy) => pass' = pass
  BY DEF AdmitRejected, Admit, Defer, CommitConfiguration, FetchCopy
<1>6. EndAdmission => pass' = Idle \/ pass' = [phase |-> "repair", tried |-> {}]
  BY DEF EndAdmission
<1>7. (Sending \/ EndRepair \/ Crash) => pass' = Idle
  BY DEF Sending, Upload, UploadPruned, UploadFails, EndRepair, Crash
<1>8. (NoSource \/ Repair \/ RepairPruned \/ RepairExpired)
        => pass' = [phase |-> "repair", tried |-> pass.tried \cup {Claimed}]
  <2>1. (NoSource \/ Repair \/ RepairPruned \/ RepairExpired)
          => pass.phase = "repair" /\ pass' = [pass EXCEPT !.tried = pass.tried \cup {Claimed}]
    BY DEF NoSource, Repair, RepairPruned, RepairExpired, Resends
  <2>2. pass.phase = "repair" => pass = [phase |-> "repair", tried |-> pass.tried]
    BY <1>1 DEF PassOK
  <2> QED
    BY <2>1, <2>2
<1>9. \A o, older : (Compose(o) \/ DeleteChatLocal(older)) => pass' = pass
  BY DEF Compose, DeleteChatLocal
<1> QED
  BY <1>2, <1>3, <1>4, <1>5, <1>6, <1>7, <1>8, <1>9
  DEF Next, Reading, Admission, Repairing

LEMMA PassStep ==
    ASSUME SyncInv, Next
    PROVE  PassOK'
<1>1. PassOK /\ MailboxOK
  BY DEF SyncInv
<1>2. CASE pass' = pass
  BY <1>1, <1>2 DEF PassOK, PageOK
<1>3. CASE pass' = Idle
  BY <1>3 DEF PassOK, Idle
<1>4. CASE pass' = [phase |-> "admit", kind |-> pass.kind]
  BY <1>4 DEF PassOK
<1>5. ASSUME NEW kind, StartPass(kind) PROVE PassOK'
  <2>1. PICK after : pass' = [phase |-> "check", kind |-> kind, page |-> Page(after)]
    BY <1>5 DEF StartPass
  <2>2. PICK page : pass' = [phase |-> "check", kind |-> kind, page |-> page] /\ PageOK(page)
    BY <1>1, <2>1, PageFacts
  <2> QED
    BY <2>2 DEF PassOK, PageOK
<1>6. CASE Check
  <2>1. /\ pass' = [phase |-> "stage", kind |-> pass.kind, page |-> pass.page,
                    left |-> DOMAIN pass.page.rows]
        /\ PageOK(pass.page)
    BY <1>1, <1>6 DEF Check, PassOK
  <2> QED
    BY <2>1 DEF PassOK, PageOK
<1>7. CASE Reset
  <2>1. pass' = [phase |-> "stage", kind |-> pass.kind, page |-> Page(0),
                 left |-> DOMAIN Page(0).rows]
    BY <1>7 DEF Reset
  <2>2. PICK page : /\ pass' = [phase |-> "stage", kind |-> pass.kind, page |-> page,
                                left |-> DOMAIN page.rows]
                    /\ PageOK(page)
    BY <1>1, <2>1, PageFacts
  <2> QED
    BY <2>2 DEF PassOK, PageOK
<1>8. CASE /\ pass.phase = "stage" /\ pass.left # {}
           /\ pass' = [pass EXCEPT !.left = @ \ {NextEntry}]
  <2>1. /\ pass = [phase |-> "stage", kind |-> pass.kind, page |-> pass.page, left |-> pass.left]
        /\ PageOK(pass.page) /\ pass.left \subseteq DOMAIN pass.page.rows
    BY <1>1, <1>8 DEF PassOK
  <2>2. pass' = [phase |-> "stage", kind |-> pass.kind, page |-> pass.page,
                 left |-> pass.left \ {NextEntry}]
    BY <1>8, <2>1
  <2> QED
    BY <2>1, <2>2 DEF PassOK, PageOK
<1>9. ASSUME NEW T, pass' = [phase |-> "repair", tried |-> T] PROVE PassOK'
  BY <1>9 DEF PassOK
<1>10. ASSUME NEW o \in Own, ClaimUpload(o) PROVE PassOK'
  BY <1>10, SyncAssumption DEF ClaimUpload, PassOK
<1> QED
  BY <1>2, <1>3, <1>4, <1>5, <1>6, <1>7, <1>8, <1>9, <1>10, PassSteps

\* The check or the reset made page and inbox agree; staging keeps it so.
LEMMA AgreesStep ==
    ASSUME SyncInv, Next
    PROVE  PageAgrees'
<1>1. PassOK /\ EntriesOK /\ PageAgrees /\ MailboxOK
  BY DEF SyncInv
<1>2. CASE pass'.phase # "stage"
  BY <1>2 DEF PageAgrees
<1>3. CASE Check
  <2>1. /\ pass'.page = pass.page /\ UNCHANGED <<cursor, inbox>> /\ ~Regressed(pass.page)
        /\ PageOK(pass.page)
    BY <1>1, <1>3 DEF Check, PassOK
  <2>2. CASE cursor.gen = 0
    <3>1. DOMAIN inbox = {}
      BY <1>1, <2>2 DEF EntriesOK
    <3> QED
      BY <2>1, <3>1 DEF PageAgrees
  <2>3. CASE cursor.gen # 0
    <3>1. cursor.gen = pass.page.gen
      BY <2>1, <2>3 DEF Regressed
    <3>2. \A s \in DOMAIN pass.page.rows :
            Key(pass.page.gen, s) \in DOMAIN inbox =>
              inbox[Key(pass.page.gen, s)].object = pass.page.rows[s]
      BY <2>1, <3>1 DEF Regressed
    <3> QED
      BY <2>1, <3>2 DEF PageAgrees, Key
  <2> QED
    BY <2>2, <2>3
<1>4. CASE Reset
  <2>1. inbox' = inbox /\ cursor'.epoch = IF cursor.gen = 0 THEN 0 ELSE cursor.epoch + 1
    BY <1>4 DEF Reset
  <2>2. \A g, s : <<g, s, cursor'.epoch>> \notin DOMAIN inbox
    <3>1. CASE cursor.gen = 0
      BY <1>1, <3>1 DEF EntriesOK
    <3>2. CASE cursor.gen # 0
      <4>1. cursor.epoch \in Nat /\ cursor'.epoch = cursor.epoch + 1
        BY <1>1, <2>1, <3>2 DEF EntriesOK
      <4>2. \A k \in DOMAIN inbox : k[3] # cursor'.epoch
        BY <1>1, <4>1 DEF EntriesOK
      <4> QED
        BY <4>2
    <3> QED
      BY <3>1, <3>2
  <2> QED
    BY <2>1, <2>2 DEF PageAgrees, Key
<1>5. CASE Stage
  <2> DEFINE s == NextEntry
             o == pass.page.rows[s]
             k == Key(pass.page.gen, s)
             e == [object |-> o, state |-> IF o \in removed THEN "REJECTED" ELSE "PENDING"]
  <2>1. /\ pass.phase = "stage" /\ pass' = [pass EXCEPT !.left = @ \ {s}]
        /\ inbox' = IF k \in DOMAIN inbox THEN inbox ELSE Put(inbox, k, e)
        /\ cursor' = [cursor EXCEPT
                       !.gen = pass.page.gen,
                       !.seq = IF cursor.gen = pass.page.gen THEN Max({@, s}) ELSE s]
    BY <1>5 DEF Stage
  <2>2. cursor'.epoch = cursor.epoch
    BY <1>1, <2>1 DEF EntriesOK
  <2>3. pass'.page = pass.page
    BY <1>1, <2>1 DEF PassOK
  <2>4. e.object = pass.page.rows[s] /\ s \in Nat
    BY <1>5, NextFacts DEF Stage
  <2> HIDE DEF e, s
  <2>5. ASSUME NEW t \in DOMAIN pass.page.rows, Key(pass.page.gen, t) \in DOMAIN inbox'
        PROVE  inbox'[Key(pass.page.gen, t)].object = pass.page.rows[t]
    <3>1. CASE Key(pass.page.gen, t) \in DOMAIN inbox
      <4>1. inbox'[Key(pass.page.gen, t)] = inbox[Key(pass.page.gen, t)]
        BY <2>1, <3>1 DEF Put
      <4> QED
        BY <1>1, <2>1, <3>1, <4>1 DEF PageAgrees
    <3>2. CASE Key(pass.page.gen, t) \notin DOMAIN inbox
      <4>1. Key(pass.page.gen, t) = k /\ inbox'[k] = e
        BY <2>1, <2>5, <3>2 DEF Put
      <4>2. t = s
        BY <4>1 DEF Key
      <4> QED
        BY <2>4, <4>1, <4>2
    <3> QED
      BY <3>1, <3>2
  <2>6. \A t : Key(pass.page.gen, t)' = Key(pass.page.gen, t)
    BY <2>2, <2>3 DEF Key
  <2> QED
    BY <2>3, <2>5, <2>6 DEF PageAgrees
<1>6. CASE /\ UNCHANGED <<cursor, inbox>> /\ ~Check /\ ~Reset
           /\ pass'.phase = "stage"
  <2>1. pass'.page = pass.page /\ pass.phase = "stage"
    BY <1>1, <1>6, PassSteps DEF Idle, StartPass, ClaimUpload, PassOK
  <2> QED
    BY <1>1, <1>6, <2>1 DEF PageAgrees, Key
<1>7. CASE Reviewed
  BY <1>1, <1>7 DEF PageAgrees, Reviewed, Key
<1> QED
  BY <1>1, <1>2, <1>3, <1>4, <1>5, <1>6, <1>7, CursorSteps, ReviewsReview

-----------------------------------------------------------------------------
(* Admission, announcements and deletion.                                   *)

LEMMA PendingStep ==
    ASSUME SyncInv, Next
    PROVE  PendingIsCached'
<1> DEFINE Waits == {"PENDING", "WAITING_FOR_PROOF"}
<1>1. /\ EntriesOK /\ PendingIsCached
      /\ \A k \in DOMAIN inbox : inbox[k] \in Entry
  BY DEF SyncInv, EntriesOK, Entry
<1>2. ASSUME UNCHANGED inbox, cached \subseteq cached' PROVE PendingIsCached'
  BY <1>1, <1>2 DEF PendingIsCached
<1>3. CASE Stage
  <2> DEFINE s == NextEntry
             o == pass.page.rows[s]
             k == Key(pass.page.gen, s)
             e == [object |-> o, state |-> IF o \in removed THEN "REJECTED" ELSE "PENDING"]
  <2>1. /\ inbox' = IF k \in DOMAIN inbox THEN inbox ELSE Put(inbox, k, e)
        /\ cached' = IF o \notin removed THEN cached \cup {o} ELSE cached
    BY <1>3 DEF Stage
  <2>2. e.object = o /\ (e.state \in Waits => o \notin removed)
    OBVIOUS
  <2> HIDE DEF e, o, s, k
  <2>3. ASSUME NEW j \in DOMAIN inbox', inbox'[j].state \in Waits
        PROVE  inbox'[j].object \in cached'
    <3>1. (j \in DOMAIN inbox /\ inbox'[j] = inbox[j]) \/ inbox'[j] = e
      BY <2>1, <2>3 DEF Put
    <3>2. CASE j \in DOMAIN inbox /\ inbox'[j] = inbox[j]
      BY <1>1, <2>1, <2>3, <3>2 DEF PendingIsCached
    <3>3. CASE inbox'[j] = e
      BY <2>1, <2>2, <2>3, <3>3
    <3> QED
      BY <3>1, <3>2, <3>3
  <2> QED
    BY <2>3 DEF PendingIsCached
<1>4. ASSUME NEW S, Discard(S) PROVE PendingIsCached'
  <2>1. /\ cached' = cached \ S
        /\ inbox' = [k \in DOMAIN inbox |->
                      IF inbox[k].object \in S THEN [inbox[k] EXCEPT !.state = "REJECTED"]
                      ELSE inbox[k]]
    BY <1>4 DEF Discard
  <2>2. ASSUME NEW k \in DOMAIN inbox', inbox'[k].state \in Waits
        PROVE  inbox'[k].object \in cached'
    <3>1. inbox[k].object \notin S /\ inbox'[k] = inbox[k] /\ k \in DOMAIN inbox
      BY <1>1, <2>1, <2>2 DEF Entry
    <3> QED
      BY <1>1, <2>1, <2>2, <3>1 DEF PendingIsCached
  <2> QED
    BY <2>2 DEF PendingIsCached
<1>5. CASE Admit \/ Defer
  <2>1. PICK state : inbox' = [inbox EXCEPT ![First(Pending)] = [@ EXCEPT !.state = state]]
    BY <1>5 DEF Admit, Defer
  <2>2. Pending # {} /\ UNCHANGED cached
    BY <1>5 DEF Admit, Defer
  <2>3. /\ First(Pending) \in DOMAIN inbox /\ inbox[First(Pending)].state = "PENDING"
    BY <1>1, <2>2, FirstFacts
  <2>4. ASSUME NEW k \in DOMAIN inbox', inbox'[k].state \in Waits
        PROVE  inbox'[k].object \in cached'
    <3>1. k \in DOMAIN inbox /\ inbox[k] \in Entry /\ inbox'[k].object = inbox[k].object
          /\ inbox[k].state \in Waits
      BY <1>1, <2>1, <2>3, <2>4 DEF Entry
    <3> QED
      BY <1>1, <2>2, <3>1 DEF PendingIsCached
  <2> QED
    BY <2>4 DEF PendingIsCached
<1>6. CASE CommitConfiguration
  <2>1. /\ UNCHANGED cached
        /\ inbox' = [k \in DOMAIN inbox |->
                      IF inbox[k].state = "WAITING_FOR_PROOF"
                      THEN [inbox[k] EXCEPT !.state = "PENDING"] ELSE inbox[k]]
    BY <1>6 DEF CommitConfiguration
  <2>2. ASSUME NEW k \in DOMAIN inbox', inbox'[k].state \in Waits
        PROVE  inbox'[k].object \in cached'
    <3>1. k \in DOMAIN inbox /\ inbox'[k].object = inbox[k].object /\ inbox[k].state \in Waits
      BY <1>1, <2>1, <2>2 DEF Entry
    <3> QED
      BY <1>1, <2>1, <3>1 DEF PendingIsCached
  <2> QED
    BY <2>2 DEF PendingIsCached
<1>7. CASE AdmitRejected \/ \E older \in SUBSET Objects : DeleteChatLocal(older)
  <2>1. PICK S : Discard(S)
    BY <1>7 DEF AdmitRejected, DeleteChatLocal
  <2> QED
    BY <1>4, <2>1
<1>8. CASE /\ UNCHANGED <<cursor, inbox>> /\ ~Stage /\ ~AdmitRejected
           /\ ~\E older \in SUBSET Objects : DeleteChatLocal(older)
  <2>1. cached \subseteq cached'
    BY <1>8, StoreSteps DEF Carried, FetchCopy, Admit, Compose
  <2> QED
    BY <1>2, <1>8, <2>1
<1>9. CASE Reset
  BY <1>2, <1>9 DEF Reset
<1> QED
  BY <1>3, <1>5, <1>6, <1>7, <1>8, <1>9, CursorSteps

LEMMA AnnouncedUnchanged ==
    ASSUME Next, ~Admit
    PROVE  UNCHANGED announced
<1>1. Mailbox => UNCHANGED announced
  BY DEF Mailbox, Publish, LateUpload, Expire, Want, Prune, Restore, Recreate
<1>2. (Reading \/ StartPass("tap") \/ StartPass("full")) => UNCHANGED announced
  BY DEF Reading, Check, Reset, Skip, Stage, StagePruned, Gone, FinishScanPage, EndTap, StartPass
<1>3. (AdmitRejected \/ Defer \/ EndAdmission \/ Repairing) => UNCHANGED announced
  BY DEF AdmitRejected, Defer, EndAdmission, Repairing, FetchCopy, NoSource, Repair,
         RepairPruned, RepairExpired, EndRepair
<1>4. (Sending \/ NetworkFails \/ Crash \/ CommitConfiguration) => UNCHANGED announced
  BY DEF Sending, Upload, UploadPruned, UploadFails, NetworkFails, Crash, CommitConfiguration
<1>5. \A o, older : (Compose(o) \/ ClaimUpload(o) \/ DeleteChatLocal(older)) => UNCHANGED announced
  BY DEF Compose, ClaimUpload, DeleteChatLocal
<1> QED
  BY <1>1, <1>2, <1>3, <1>4, <1>5 DEF Next, Admission

LEMMA AdmitFacts ==
    ASSUME SyncInv, Admit
    PROVE  \E o \in Objects :
             /\ o \notin removed \cup floor
             /\ records' = records \cup {o}
             /\ announced' = [announced EXCEPT ![o] = @ + IF o \notin records THEN 1 ELSE 0]
             /\ UNCHANGED <<removed, floor, cached, outbox>>
<1>1. Pending # {} /\ EntriesOK
  BY DEF Admit, SyncInv
<1> DEFINE o == inbox[First(Pending)].object
<1>2. o \in Objects
  BY <1>1, FirstFacts
<1>3. /\ o \notin removed \cup floor
      /\ records' = records \cup {o}
      /\ announced' = [announced EXCEPT ![o] = @ + IF o \notin records THEN 1 ELSE 0]
      /\ UNCHANGED <<removed, floor, cached, outbox>>
  BY DEF Admit, Rejects, IsNew
<1> HIDE DEF o
<1> QED
  BY <1>2, <1>3

\* The record of what was announced goes only with a deletion here.
LEMMA AnnouncedStep ==
    ASSUME SyncInv, Next
    PROVE  AnnouncedKept'
<1>1. /\ AnnouncedKept /\ announced \in [Objects -> {0, 1}]
      /\ \A o \in Objects : announced[o] = 1 => o \in records \cup removed
  BY DEF SyncInv, AnnouncedKept
<1>2. CASE Admit
  <2>1. PICK o \in Objects :
             /\ o \notin removed \cup floor
             /\ records' = records \cup {o}
             /\ announced' = [announced EXCEPT ![o] = @ + IF o \notin records THEN 1 ELSE 0]
             /\ UNCHANGED <<removed, floor, cached, outbox>>
    BY <1>2, AdmitFacts
  <2>2. announced[o] + (IF o \notin records THEN 1 ELSE 0) \in {0, 1}
    BY <1>1, <2>1
  <2>3. announced' \in [Objects -> {0, 1}] /\ \A x \in Objects \ {o} : announced'[x] = announced[x]
    BY <1>1, <2>1, <2>2
  <2> QED
    BY <1>1, <2>1, <2>3 DEF AnnouncedKept
<1>3. CASE ~Admit
  <2>1. announced' = announced
    BY <1>3, AnnouncedUnchanged
  <2>2. records \cup removed \subseteq records' \cup removed'
    <3>1. ASSUME NEW S, Discard(S) PROVE records \cup removed \subseteq records' \cup removed'
      BY <3>1, DiscardFacts
    <3>2. CASE AdmitRejected \/ \E older \in SUBSET Objects : DeleteChatLocal(older)
      <4>1. PICK S : Discard(S)
        BY <3>2 DEF AdmitRejected, DeleteChatLocal
      <4> QED
        BY <3>1, <4>1
    <3>3. CASE Stage
      BY <3>3 DEF Stage
    <3>4. ASSUME NEW o \in Own, Compose(o) PROVE records \cup removed \subseteq records' \cup removed'
      BY <3>4, ComposeStore
    <3> QED
      BY <1>3, <3>2, <3>3, <3>4, StoreSteps DEF Carried, FetchCopy
  <2> QED
    BY <1>1, <2>1, <2>2 DEF AnnouncedKept
<1> QED
  BY <1>2, <1>3

\* What is deleted leaves records and outbox, and nothing of it enters them.
LEMMA ShownStep ==
    ASSUME SyncInv, Next
    PROVE  NotShownAgain'
<1>1. /\ (removed \cup floor) \cap records = {}
      /\ removed \cap DOMAIN outbox = {}
  BY DEF SyncInv, NoResurrection, NotShownAgain
<1>2. CASE Carried
  BY <1>1, <1>2 DEF NotShownAgain, Carried
<1>3. CASE Stage
  BY <1>1, <1>3, StageStore DEF NotShownAgain
<1>4. CASE AdmitRejected
  <2>1. PICK S : Discard(S) /\ UNCHANGED floor
    BY <1>4 DEF AdmitRejected
  <2>2. /\ removed' = removed \cup S /\ records' = records \ S
        /\ DOMAIN outbox' = DOMAIN outbox \ S
    BY <2>1, DiscardFacts
  <2> QED
    BY <1>1, <2>1, <2>2 DEF NotShownAgain
<1>5. CASE Admit
  <2>1. PICK o \in Objects :
             /\ o \notin removed \cup floor
             /\ records' = records \cup {o}
             /\ UNCHANGED <<removed, floor, cached, outbox>>
    BY <1>5, AdmitFacts
  <2> QED
    BY <1>1, <2>1 DEF NotShownAgain
<1>6. ASSUME NEW older \in SUBSET Objects, DeleteChatLocal(older) PROVE NotShownAgain'
  <2>1. PICK S : records \subseteq S /\ Discard(S)
    BY <1>6 DEF DeleteChatLocal
  <2>2. /\ removed' = removed \cup S /\ records' = records \ S
        /\ DOMAIN outbox' = DOMAIN outbox \ S
    BY <2>1, DiscardFacts
  <2> QED
    BY <1>1, <2>1, <2>2 DEF NotShownAgain
<1>7. ASSUME NEW o \in Own, Compose(o) PROVE NotShownAgain'
  <2>1. /\ o \notin records \cup removed \cup floor
        /\ records' = records \cup {o}
        /\ DOMAIN outbox' = DOMAIN outbox \cup {o} /\ UNCHANGED <<floor, removed>>
    BY <1>7, ComposeStore
  <2> QED
    BY <1>1, <2>1 DEF NotShownAgain
<1>8. CASE FetchCopy
  BY <1>1, <1>8 DEF FetchCopy, NotShownAgain
<1> QED
  BY <1>2, <1>3, <1>4, <1>5, <1>6, <1>7, <1>8, StoreSteps

\* Ciphertext of a deleted message is one a repair fetched for a copy that is known.
LEMMA RefetchStep ==
    ASSUME SyncInv, Next
    PROVE  OnlyRefetched'
<1>1. removed \cap cached \subseteq Mirrored \cap DOMAIN copies
  BY DEF SyncInv, NoResurrection, OnlyRefetched
<1>2. CASE Carried
  BY <1>1, <1>2 DEF OnlyRefetched, Carried
<1>3. CASE Stage
  BY <1>1, <1>3, StageStore DEF OnlyRefetched
<1>4. ASSUME NEW S, Discard(S) PROVE OnlyRefetched'
  <2>1. /\ removed' = removed \cup S /\ cached' = cached \ S
        /\ DOMAIN copies' = DOMAIN copies \ S
    BY <1>4, DiscardFacts
  <2> QED
    BY <1>1, <2>1 DEF OnlyRefetched
<1>5. CASE AdmitRejected \/ \E older \in SUBSET Objects : DeleteChatLocal(older)
  <2>1. PICK S : Discard(S)
    BY <1>5 DEF AdmitRejected, DeleteChatLocal
  <2> QED
    BY <1>4, <2>1
<1>6. CASE Admit
  BY <1>1, <1>6 DEF Admit, OnlyRefetched
<1>7. ASSUME NEW o \in Own, Compose(o) PROVE OnlyRefetched'
  BY <1>1, <1>7, ComposeStore DEF OnlyRefetched
<1>8. CASE FetchCopy
  BY <1>1, <1>8, FetchStore DEF OnlyRefetched
<1> QED
  BY <1>2, <1>3, <1>5, <1>6, <1>7, <1>8, StoreSteps

\* Everything but a deletion leaves the list of the deleted alone.
LEMMA RemovedSteps ==
    ASSUME SyncInv, Next
    PROVE  \/ UNCHANGED removed
           \/ AdmitRejected \/ \E older \in SUBSET Objects : DeleteChatLocal(older)
BY StoreSteps DEF Carried, FetchCopy, Stage, Admit, Compose

\* An entry of a deleted message is rejected when it comes and stays so.
LEMMA RejectedStep ==
    ASSUME SyncInv, Next
    PROVE  NotAdmittedAgain'
<1>1. /\ EntriesOK /\ NotAdmittedAgain
      /\ \A k \in DOMAIN inbox : inbox[k] \in Entry
  BY DEF SyncInv, EntriesOK, Entry, NoResurrection
<1>2. CASE Stage
  <2> DEFINE s == NextEntry
             o == pass.page.rows[s]
             k == Key(pass.page.gen, s)
             e == [object |-> o, state |-> IF o \in removed THEN "REJECTED" ELSE "PENDING"]
  <2>1. inbox' = (IF k \in DOMAIN inbox THEN inbox ELSE Put(inbox, k, e)) /\ UNCHANGED removed
    BY <1>2 DEF Stage
  <2>2. e.object \in removed => e.state = "REJECTED"
    OBVIOUS
  <2> HIDE DEF e, o, s, k
  <2>3. ASSUME NEW j \in DOMAIN inbox', inbox'[j].object \in removed'
        PROVE  inbox'[j].state = "REJECTED"
    <3>1. (j \in DOMAIN inbox /\ inbox'[j] = inbox[j]) \/ inbox'[j] = e
      BY <2>1, <2>3 DEF Put
    <3> QED
      BY <1>1, <2>1, <2>2, <2>3, <3>1 DEF NotAdmittedAgain
  <2> QED
    BY <2>3 DEF NotAdmittedAgain
<1>3. CASE AdmitRejected \/ \E older \in SUBSET Objects : DeleteChatLocal(older)
  <2>1. PICK S : Discard(S)
    BY <1>3 DEF AdmitRejected, DeleteChatLocal
  <2>2. /\ removed' = removed \cup S
        /\ inbox' = [k \in DOMAIN inbox |->
                      IF inbox[k].object \in S THEN [inbox[k] EXCEPT !.state = "REJECTED"]
                      ELSE inbox[k]]
    BY <2>1 DEF Discard
  <2>3. ASSUME NEW k \in DOMAIN inbox', inbox'[k].object \in removed'
        PROVE  inbox'[k].state = "REJECTED"
    <3>1. k \in DOMAIN inbox /\ inbox[k] \in Entry
      BY <1>1, <2>2, <2>3
    <3>2. CASE inbox[k].object \in S
      BY <2>2, <3>1, <3>2 DEF Entry
    <3>3. CASE inbox[k].object \notin S
      BY <1>1, <2>2, <2>3, <3>1, <3>3 DEF NotAdmittedAgain
    <3> QED
      BY <3>2, <3>3
  <2> QED
    BY <2>3 DEF NotAdmittedAgain
<1>4. CASE Admit \/ Defer
  <2>1. PICK state : inbox' = [inbox EXCEPT ![First(Pending)] = [@ EXCEPT !.state = state]]
    BY <1>4 DEF Admit, Defer
  <2>2. /\ Pending # {} /\ UNCHANGED removed
        /\ inbox[First(Pending)].object \notin removed
    BY <1>4 DEF Admit, Defer, Rejects
  <2>3. First(Pending) \in DOMAIN inbox
    BY <1>1, <2>2, FirstFacts
  <2>4. ASSUME NEW k \in DOMAIN inbox', inbox'[k].object \in removed'
        PROVE  inbox'[k].state = "REJECTED"
    <3>1. k \in DOMAIN inbox /\ inbox[k] \in Entry /\ inbox'[k].object = inbox[k].object
      BY <1>1, <2>1, <2>3, <2>4 DEF Entry
    <3>2. k # First(Pending)
      BY <2>2, <2>4, <3>1
    <3>3. inbox'[k] = inbox[k]
      BY <2>1, <3>1, <3>2
    <3> QED
      BY <1>1, <2>2, <2>4, <3>1, <3>3 DEF NotAdmittedAgain
  <2> QED
    BY <2>4 DEF NotAdmittedAgain
<1>5. CASE CommitConfiguration
  <2>1. /\ UNCHANGED removed
        /\ inbox' = [k \in DOMAIN inbox |->
                      IF inbox[k].state = "WAITING_FOR_PROOF"
                      THEN [inbox[k] EXCEPT !.state = "PENDING"] ELSE inbox[k]]
    BY <1>5 DEF CommitConfiguration
  <2>2. ASSUME NEW k \in DOMAIN inbox', inbox'[k].object \in removed'
        PROVE  inbox'[k].state = "REJECTED"
    <3>1. k \in DOMAIN inbox /\ inbox'[k].object = inbox[k].object
      BY <1>1, <2>1, <2>2 DEF Entry
    <3>2. inbox[k].state = "REJECTED"
      BY <1>1, <2>1, <2>2, <3>1 DEF NotAdmittedAgain
    <3> QED
      BY <2>1, <3>1, <3>2
  <2> QED
    BY <2>2 DEF NotAdmittedAgain
<1>6. CASE UNCHANGED inbox /\ UNCHANGED removed
  BY <1>1, <1>6 DEF NotAdmittedAgain
<1>7. CASE Reset
  BY <1>6, <1>7 DEF Reset
<1> QED
  BY <1>2, <1>3, <1>4, <1>5, <1>6, <1>7, CursorSteps, RemovedSteps

LEMMA ResurrectionStep ==
    ASSUME SyncInv, Next
    PROVE  NoResurrection'
BY ShownStep, RefetchStep, RejectedStep DEF NoResurrection

LEMMA SyncInit == Init => SyncInv
<1> SUFFICES ASSUME Init PROVE SyncInv
  OBVIOUS
<1>1. Empty \in RowSets /\ DOMAIN Empty = {}
  <2>1. {} \in SUBSET (1..MaxSeq) /\ Empty \in [{} -> Objects]
    BY DEF Empty
  <2> QED
    BY <2>1, RowsIntro
<1>2. 1 \in 1..MaxGeneration /\ 0 \in 0..MaxGeneration /\ 0 \in 0..MaxSeq /\ 0 \in 0..MaxTroubles
  BY SyncAssumption
<1>3. MailboxOK
  BY <1>1, <1>2 DEF Init, MailboxOK, BoxOK, Mailboxes
<1>4. EntriesOK
  BY <1>1, <1>2 DEF Init, EntriesOK
<1>5. StoreOK /\ PassOK
  BY <1>1, <1>2 DEF Init, StoreOK, PassOK, Idle
<1>6. PageAgrees /\ PendingIsCached
  BY <1>1 DEF Init, PageAgrees, PendingIsCached, Idle
<1>7. AnnouncedKept /\ NoResurrection
  BY <1>1 DEF Init, AnnouncedKept, NoResurrection, NotShownAgain, NotAdmittedAgain, OnlyRefetched
<1> QED
  BY <1>3, <1>4, <1>5, <1>6, <1>7 DEF SyncInv

\* The inductive invariant of the inbox.
THEOREM SyncInvariant == Spec => []SyncInv
<1>1. SyncInv /\ UNCHANGED vars => SyncInv'
  BY DEF SyncInv, vars, MailboxOK, BoxOK, EntriesOK, StoreOK, PassOK, PageOK, PageAgrees,
         PendingIsCached, AnnouncedKept, NoResurrection, NotShownAgain, NotAdmittedAgain,
         OnlyRefetched, Key
<1>2. SyncInv /\ Next => SyncInv'
  BY MailboxStep, EntriesStep, StoreStep, PassStep, AgreesStep, PendingStep, AnnouncedStep,
     ResurrectionStep DEF SyncInv
<1> QED
  BY <1>1, <1>2, SyncInit, PTL DEF Spec

LEMMA InboxFromInv == SyncInv => InboxSound
<1> SUFFICES ASSUME SyncInv PROVE InboxSound
  OBVIOUS
<1>1. TypeOK
  <2>1. srv.gen \in 1..MaxGeneration /\ srv.last \in 0..MaxSeq /\ DOMAIN srv.rows \subseteq 1..srv.last
        /\ srv.rows \in RowSets
    BY DEF SyncInv, MailboxOK, BoxOK, Mailboxes
  <2>2. Served \subseteq Objects
    BY <2>1, RowsFacts DEF Served, Range
  <2>3. cursor.gen \in 0..MaxGeneration /\ cursor.seq \in 0..MaxSeq
        /\ \A k \in DOMAIN inbox : k[3] =< cursor.epoch /\ inbox[k].state \in EntryStates
    BY DEF SyncInv, EntriesOK
  <2> QED
    BY <2>1, <2>2, <2>3 DEF SyncInv, StoreOK, TypeOK, EntryStates
<1>2. NoIntegrityError
  BY NextFacts DEF SyncInv, NoIntegrityError, PageAgrees
<1>3. AnnouncedOnce
  <2>1. announced \in [Objects -> {0, 1}]
    BY DEF SyncInv, AnnouncedKept
  <2> QED
    BY <2>1 DEF AnnouncedOnce
<1> QED
  BY <1>1, <1>2, <1>3 DEF InboxSound, SyncInv

\* Whatever the mailbox went through, no entry stops a pass, what waits has its
\* ciphertext and nothing is announced twice (stage_inbox, finish_inbox, discard_object).
THEOREM InboxIsSound == Spec => []InboxSound
BY SyncInvariant, InboxFromInv, PTL

\* What was deleted on this device is never shown, queued or admitted again (rejects,
\* discard_object, delete_chat_local), and ciphertext of it comes back only with the
\* download of repair_copies, for a mailbox that listed the message after the deletion.
THEOREM DeletedStaysDeleted == Spec => []NoResurrection
<1>1. SyncInv => NoResurrection
  BY DEF SyncInv
<1> QED
  BY <1>1, SyncInvariant, PTL

-----------------------------------------------------------------------------
(* The owner-managed Space.  The replay of an owner's device is a recursive *)
(* function: it exists, and unfolds.                                        *)

\* One step of the owner's replay, and its recursion.
ReplayStep(s, i) ==
    LET e == journal[i]
    IN IF s.ok /\ Stands(s, e, i) THEN Applied(s, e, i) ELSE [s EXCEPT !.ok = FALSE]

ReplayBody(f, i) == IF i = 0 THEN ReplayStart ELSE ReplayStep(f[i - 1], i)

LEMMA ReplayChosen ==
    ASSUME NEW g, g = [i \in 0..Len(journal) |-> ReplayBody(g, i)]
    PROVE  Replayed = [i \in 0..Len(journal) |-> ReplayBody(Replayed, i)]
BY DEF Replayed, ReplayBody, ReplayStep

LEMMA ReplayUpTo ==
    ASSUME NEW n \in Nat
    PROVE  \E g : g = [i \in 0..n |-> ReplayBody(g, i)]
<1> DEFINE Bad == {m \in Nat : ~\E g : g = [i \in 0..m |-> ReplayBody(g, i)]}
<1>1. SUFFICES ASSUME Bad # {} PROVE FALSE
  OBVIOUS
<1>2. PICK m \in Bad : \A k \in Bad : m =< k
  BY <1>1, LeastNatural
<1>3. CASE m = 0
  <2> DEFINE g == [i \in 0..0 |-> ReplayStart]
  <2>1. g = [i \in 0..0 |-> ReplayBody(g, i)]
    BY DEF ReplayBody
  <2> QED
    BY <1>3, <2>1
<1>4. CASE m # 0
  <2>1. m - 1 \in Nat /\ m - 1 \notin Bad
    BY <1>2, <1>4
  <2>2. PICK g : g = [i \in 0..m - 1 |-> ReplayBody(g, i)]
    BY <2>1
  <2> DEFINE h == [i \in 0..m |-> IF i = m THEN ReplayStep(g[m - 1], m) ELSE g[i]]
  <2>3. ASSUME NEW i \in 0..m PROVE h[i] = ReplayBody(h, i)
    <3>1. CASE i = 0
      BY <3>1, <1>2, <1>4, <2>2 DEF ReplayBody
    <3>2. CASE i = m
      <4>1. h[m - 1] = g[m - 1]
        BY <2>1
      <4>2. h[i] = ReplayStep(h[m - 1], m)
        BY <4>1, <3>2
      <4> QED
        BY <4>2, <3>2, <1>4 DEF ReplayBody
    <3>3. CASE i # 0 /\ i # m
      <4>1. i - 1 \in 0..m - 1 /\ i - 1 # m /\ i \in 0..m - 1 /\ i - 1 \in 0..m
        BY <3>3, <2>1
      <4>2. h[i - 1] = g[i - 1] /\ h[i] = g[i]
        BY <4>1, <3>3
      <4>3. g[i] = ReplayBody(g, i)
        BY <4>1, <2>2
      <4> QED
        BY <4>2, <4>3, <3>3 DEF ReplayBody
    <3> QED
      BY <3>1, <3>2, <3>3
  <2> HIDE DEF h
  <2>4. h = [i \in 0..m |-> h[i]]
    BY DEF h
  <2>5. h = [i \in 0..m |-> ReplayBody(h, i)]
    BY <2>3, <2>4, Zenon
  <2> QED
    BY <2>5
<1> QED
  BY <1>3, <1>4

LEMMA ReplayFacts ==
    ASSUME Len(journal) \in Nat
    PROVE  /\ Replayed[0] = ReplayStart
           /\ \A i \in 1..Len(journal) : Replayed[i] = ReplayStep(Replayed[i - 1], i)
<1>1. PICK g : g = [i \in 0..Len(journal) |-> ReplayBody(g, i)]
  BY ReplayUpTo
<1>2. Replayed = [i \in 0..Len(journal) |-> ReplayBody(Replayed, i)]
  BY <1>1, ReplayChosen
<1> QED
  BY <1>2 DEF ReplayBody

-----------------------------------------------------------------------------
(* The service's tables have their types.                                   *)

Acts == {"invite", "revoke", "decide", "revoked", "deletion"} \cup RoleKinds

IntentObjects == Invitations \cup SpaceDevices \cup Persons \cup {NoDevice}

Intents ==
    [act: Acts, by: SpaceDevices, at: Nat, obj: IntentObjects, yes: BOOLEAN, rev: Nat]

Configurations == [devices: SUBSET SpaceDevices, owners: SUBSET Persons, commit: Seq(Intents)]

Drafts ==
    [base: Nat, devices: SUBSET SpaceDevices, owners: SUBSET Persons, commit: Seq(Intents)]

Rows ==
    [status: {"pending", "eligible", "approved", "declined", "removed"},
     offer: Invitations \cup {NoInvitation}, proof: Nat]

Offers == [asks: BOOLEAN, revoked: BOOLEAN, expired: BOOLEAN, proof: Nat]

\* The tables that an owner's intent changes least.
JournalOK == journal \in Seq(Intents) /\ Len(journal) =< JournalLimit

HeadsOK == heads \in Seq(Configurations) /\ Len(heads) >= 1

RegistryOK ==
    /\ roles \in [owners: SUBSET Persons, revision: Nat]
    /\ revoked \subseteq SpaceDevices /\ erased \subseteq Persons
    /\ DOMAIN tombs \subseteq SpaceDevices
    /\ \A x \in DOMAIN tombs : tombs[x] \in SpaceDevices \cup {NoDevice}
    /\ DOMAIN removals \subseteq Persons /\ \A p \in DOMAIN removals : removals[p] \in 0..Top

RowsOK(rows) == DOMAIN rows \subseteq SpaceDevices /\ \A d \in DOMAIN rows : rows[d] \in Rows

OffersOK(f) == DOMAIN f \subseteq Invitations /\ \A v \in DOMAIN f : f[v] \in Offers

DraftsOK == DOMAIN drafts \subseteq SpaceDevices /\ \A d \in DOMAIN drafts : drafts[d] \in Drafts

SpaceTypes ==
    JournalOK /\ HeadsOK /\ RegistryOK /\ RowsOK(applicants) /\ OffersOK(offers) /\ DraftsOK

LEMMA WithFacts ==
    ASSUME NEW f, NEW k, NEW v
    PROVE  /\ DOMAIN With(f, k, v) = DOMAIN f \cup {k}
           /\ With(f, k, v)[k] = v
           /\ \A z \in DOMAIN f : z # k => With(f, k, v)[z] = f[z]
BY DEF With

LEMMA OnlyFacts ==
    ASSUME NEW f, NEW S
    PROVE  /\ DOMAIN Only(f, S) = DOMAIN f \cap S
           /\ \A z \in DOMAIN f \cap S : Only(f, S)[z] = f[z]
BY DEF Only

\* Pruning only drops rows, and none that is approved or has a live invitation.
Pruned(rows, f, p) ==
    /\ DOMAIN p \subseteq DOMAIN rows
    /\ \A d \in DOMAIN p : p[d] = rows[d]
    /\ \A d \in DOMAIN rows : rows[d].status = "approved" => d \in DOMAIN p
    /\ \A d \in DOMAIN rows :
         rows[d].status = "eligible" /\ (rows[d].offer = NoInvitation \/ LiveOffer(f, rows[d].offer))
            => d \in DOMAIN p
    /\ \A d \in DOMAIN p :
         p[d].status \in {"pending", "eligible"} /\ p[d].offer # NoInvitation
            => LiveOffer(f, p[d].offer)

LEMMA PruneFacts ==
    ASSUME NEW rows, NEW f
    PROVE  Pruned(rows, f, PruneApplicants(rows, f))
<1> DEFINE K == {d \in DOMAIN rows : rows[d].status \in {"pending", "eligible"}
                    /\ rows[d].offer # NoInvitation => LiveOffer(f, rows[d].offer)}
           kept == Only(rows, K)
           M == {d \in DOMAIN kept : kept[d].status \notin {"declined", "removed"}}
<1>1. DOMAIN kept = K /\ \A d \in K : kept[d] = rows[d]
  <2>1. K \subseteq DOMAIN rows
    OBVIOUS
  <2> HIDE DEF K
  <2> QED
    BY <2>1, DOMAIN rows \cap K = K DEF Only
<1>2. DOMAIN Only(kept, M) = M /\ \A d \in M : Only(kept, M)[d] = kept[d]
  <2>1. M \subseteq DOMAIN kept
    OBVIOUS
  <2> HIDE DEF M, kept
  <2> QED
    BY <2>1, DOMAIN kept \cap M = M DEF Only
<1>3. PruneApplicants(rows, f) = kept \/ PruneApplicants(rows, f) = Only(kept, M)
  BY DEF PruneApplicants
<1> HIDE DEF kept
<1>4. Pruned(rows, f, kept)
  BY <1>1 DEF Pruned
<1>5. Pruned(rows, f, Only(kept, M))
  BY <1>1, <1>2 DEF Pruned
<1> QED
  BY <1>3, <1>4, <1>5

-----------------------------------------------------------------------------
(* What a step does to the journal.                                         *)

\* The journal only grows, by intents that the tables of the next state know.
Extended ==
    /\ Len(journal') >= Len(journal)
    /\ \A i \in DOMAIN journal : i \in DOMAIN journal' /\ journal'[i] = journal[i]

NewIntents == (DOMAIN journal') \ DOMAIN journal

\* Nobody of the removed identity has a request that still counts.
ShutOut(rows, p) ==
    \A d \in DOMAIN rows : HolderOf[d] = p => rows[d].status \notin {"eligible", "approved"}

KnownIntent(e) ==
    \/ e.act = "revoked" /\ e.at = 0 /\ e.by \in revoked'
    \/ e.act = "deletion" /\ e.at = 0 /\ e.obj \in erased'
    \/ /\ e.act \in {"invite", "revoke", "decide"} \cup RoleKinds
       /\ e.at = Top
       /\ e.act = "remove_member" =>
            /\ e.obj \in DOMAIN removals' /\ removals'[e.obj] = Top
            /\ ShutOut(applicants', e.obj)

LEMMA IntentFacts ==
    ASSUME NEW act \in Acts, NEW d \in SpaceDevices, NEW h \in Nat, NEW obj \in IntentObjects,
           NEW yes \in BOOLEAN, NEW rev \in Nat
    PROVE  /\ Intent(act, d, h, obj, yes, rev) \in Intents
           /\ Intent(act, d, h, obj, yes, rev).act = act
           /\ Intent(act, d, h, obj, yes, rev).by = d
           /\ Intent(act, d, h, obj, yes, rev).at = h
           /\ Intent(act, d, h, obj, yes, rev).obj = obj
           /\ Intent(act, d, h, obj, yes, rev).yes = yes
           /\ Intent(act, d, h, obj, yes, rev).rev = rev
BY DEF Intent, Intents

LEMMA JournalsFacts ==
    ASSUME JournalOK, NEW e \in Intents, Journals(e)
    PROVE  /\ JournalOK' /\ Extended
           /\ Len(journal') = Len(journal) + 1
           /\ journal'[Len(journal) + 1] = e
           /\ NewIntents = {Len(journal) + 1}
<1>1. journal \in Seq(Intents) /\ journal' = Append(journal, e) /\ Len(journal) < JournalLimit
  BY DEF JournalOK, Journals
<1>2. /\ journal' \in Seq(Intents) /\ Len(journal') = Len(journal) + 1
      /\ journal'[Len(journal) + 1] = e
      /\ \A i \in 1..Len(journal) : journal'[i] = journal[i]
  BY <1>1
<1>3. DOMAIN journal = 1..Len(journal) /\ DOMAIN journal' = 1..Len(journal')
  BY <1>1, <1>2
<1>4. Len(journal) \in Nat /\ JournalLimit \in Nat
  BY <1>1, SpaceAssumption
<1> QED
  BY <1>1, <1>2, <1>3, <1>4 DEF JournalOK, Extended, NewIntents

LEMMA OrderFacts ==
    ASSUME NEW S, IsFiniteSet(S), NEW q \in SetToSeqs(S)
    PROVE  /\ q \in Seq(S) /\ Len(q) = Cardinality(S) /\ Cardinality(S) \in Nat
           /\ \A x \in S : \E i \in 1..Len(q) : q[i] = x
<1>1. Cardinality(S) \in Nat
  BY FS_CardinalityType
<1>2. q \in [1..Cardinality(S) -> S]
      /\ \A i, j \in 1..Cardinality(S) : i # j => q[i] # q[j]
  BY DEF SetToSeqs
<1>3. q \in Seq(S) /\ Len(q) = Cardinality(S)
  BY <1>1, <1>2
<1>4. q \in Injection(1..Cardinality(S), S)
  BY <1>2 DEF Injection, IsInjective
<1>5. Cardinality(1..Cardinality(S)) = Cardinality(S)
  BY <1>1, FS_Interval
<1>6. q \in Surjection(1..Cardinality(S), S)
  BY <1>4, <1>5, FS_Injection
<1> QED
  BY <1>1, <1>3, <1>6 DEF Surjection

\* The devices whose revocation is still to be journaled.
Unseen == (HeadDevices \cap DOMAIN tombs) \ revoked

LEMMA AbsorbFacts ==
    ASSUME SpaceTypes, AbsorbRevocations
    PROVE  /\ JournalOK' /\ Extended
           /\ revoked' = revoked \cup Unseen
           /\ \A i \in NewIntents :
                /\ journal'[i].act = "revoked" /\ journal'[i].at = 0
                /\ journal'[i].by \in Unseen
           /\ \A x \in Unseen : \E i \in NewIntents : journal'[i].by = x
<1>1. journal \in Seq(Intents) /\ Len(journal) \in Nat
  BY DEF SpaceTypes, JournalOK
<1>2. Unseen \subseteq SpaceDevices /\ \A x \in Unseen : tombs[x] \in SpaceDevices \cup {NoDevice}
  BY DEF SpaceTypes, RegistryOK, Unseen
<1>3. IsFiniteSet(Unseen)
  BY <1>2, FS_Subset, SpaceAssumption
<1>4. PICK q \in SetToSeqs(Unseen) :
         journal' = journal \o [i \in DOMAIN q |-> RevocationIntent(q[i], tombs[q[i]])]
  BY DEF AbsorbRevocations, Unseen
<1>5. /\ q \in Seq(Unseen) /\ Len(q) = Cardinality(Unseen) /\ Len(q) \in Nat
      /\ \A x \in Unseen : \E i \in 1..Len(q) : q[i] = x
  BY <1>3, OrderFacts
<1> DEFINE r == [i \in DOMAIN q |-> RevocationIntent(q[i], tombs[q[i]])]
<1>6. \A x \in Unseen : /\ RevocationIntent(x, tombs[x]) \in Intents
                        /\ RevocationIntent(x, tombs[x]).act = "revoked"
                        /\ RevocationIntent(x, tombs[x]).at = 0
                        /\ RevocationIntent(x, tombs[x]).by = x
  BY <1>2 DEF RevocationIntent, Intent, Intents, Acts, IntentObjects
<1>7. DOMAIN q = 1..Len(q) /\ \A i \in 1..Len(q) : q[i] \in Unseen
  BY <1>5
<1>8. r \in Seq(Intents) /\ Len(r) = Len(q) /\ \A i \in 1..Len(q) : r[i] = RevocationIntent(q[i], tombs[q[i]])
  BY <1>5, <1>6, <1>7
<1> HIDE DEF r
<1>9. /\ journal' \in Seq(Intents) /\ Len(journal') = Len(journal) + Len(q)
      /\ \A i \in 1..Len(journal) : journal'[i] = journal[i]
      /\ \A i \in 1..Len(q) : journal'[Len(journal) + i] = r[i]
  BY <1>1, <1>4, <1>5, <1>8 DEF r
<1>10. DOMAIN journal = 1..Len(journal) /\ DOMAIN journal' = 1..Len(journal')
  BY <1>1, <1>9
<1>11. Len(journal) + Len(q) =< JournalLimit /\ revoked' = revoked \cup Unseen
  BY <1>5 DEF AbsorbRevocations, Unseen
<1>12. JournalOK' /\ Extended
  BY <1>1, <1>5, <1>9, <1>10, <1>11 DEF JournalOK, Extended
<1>13. ASSUME NEW i \in NewIntents
       PROVE  /\ journal'[i].act = "revoked" /\ journal'[i].at = 0
              /\ journal'[i].by \in Unseen
  <2>1. i - Len(journal) \in 1..Len(q) /\ i = Len(journal) + (i - Len(journal))
    BY <1>1, <1>5, <1>9, <1>10 DEF NewIntents
  <2>2. journal'[i] = r[i - Len(journal)]
    BY <2>1, <1>9
  <2> QED
    BY <2>1, <2>2, <1>8, <1>6, <1>7
<1>14. ASSUME NEW x \in Unseen PROVE \E i \in NewIntents : journal'[i].by = x
  <2>1. PICK i \in 1..Len(q) : q[i] = x
    BY <1>5
  <2>2. Len(journal) + i \in NewIntents
    BY <1>1, <1>5, <1>9, <1>10 DEF NewIntents
  <2>3. journal'[Len(journal) + i].by = x
    BY <2>1, <1>9, <1>8, <1>6
  <2> QED
    BY <2>2, <2>3
<1> QED
  BY <1>11, <1>12, <1>13, <1>14

JournalGrows ==
    /\ JournalOK' /\ Extended
    /\ \A i \in NewIntents : KnownIntent(journal'[i])
    /\ heads' = heads \/ journal' = journal
    /\ revoked \subseteq revoked' /\ erased \subseteq erased'

LEMMA JournalRests ==
    ASSUME JournalOK, journal' = journal, revoked \subseteq revoked', erased \subseteq erased'
    PROVE  JournalGrows
<1>1. Len(journal') = Len(journal) /\ Len(journal) \in Nat
  BY DEF JournalOK
<1>2. NewIntents = {} /\ JournalOK' /\ Extended
  BY <1>1 DEF NewIntents, JournalOK, Extended
<1> QED
  BY <1>2 DEF JournalGrows

LEMMA JournalTakes ==
    ASSUME JournalOK, NEW e \in Intents, Journals(e), KnownIntent(e), heads' = heads,
           revoked \subseteq revoked', erased \subseteq erased'
    PROVE  JournalGrows
BY JournalsFacts DEF JournalGrows

LEMMA JournalStep ==
    ASSUME SpaceTypes, SpaceNext
    PROVE  JournalGrows
<1> USE SpaceAssumption
<1>1. JournalOK /\ Top \in Nat /\ Top >= 1
  BY DEF SpaceTypes, JournalOK, HeadsOK, Top
<1>2. CASE Applying
  <2>1. journal' = journal /\ revoked' = revoked /\ erased' = erased
    BY <1>2 DEF Applying, Join, Status, OfferExpires, RequestExpires
  <2> QED
    BY <1>1, <2>1, JournalRests
<1>3. CASE Updating
  <2>1. journal' = journal /\ revoked' = revoked /\ erased' = erased
    BY <1>3 DEF Updating, FetchAuthority, PublishAuthority
  <2> QED
    BY <1>1, <2>1, JournalRests
<1>4. CASE Administering
  <2>1. PICK d \in SpaceDevices, h \in 1..Top :
          /\ Administers(d, h)
          /\ \/ \E v \in Invitations, asks \in BOOLEAN : Invite(d, h, v, asks)
             \/ \E v \in Invitations : RevokeInvitation(d, h, v)
             \/ \E x \in SpaceDevices, yes \in BOOLEAN, i \in 1 .. Len(journal) + 1 :
                   Decide(d, h, x, yes, i)
             \/ \E kind \in RoleKinds, t \in Persons, rev \in 0 .. roles.revision :
                   RoleChange(d, h, kind, t, rev)
             \/ \E x \in SpaceDevices, signer \in SpaceDevices \cup {NoDevice} :
                   RevokeDevice(d, x, signer)
    BY <1>4 DEF Administering
  <2>2. h = Top /\ h \in Nat
    BY <2>1, <1>1 DEF Administers, SignedUnder
  <2>3. CASE \E v \in Invitations, asks \in BOOLEAN : Invite(d, h, v, asks)
    <3>1. PICK v \in Invitations, asks \in BOOLEAN : Invite(d, h, v, asks)
      BY <2>3
    <3> DEFINE e == Intent("invite", d, h, v, asks, 0)
    <3>2. e \in Intents /\ e.act = "invite" /\ e.at = Top
      BY <2>2 DEF Intent, Intents, Acts, IntentObjects
    <3> HIDE DEF e
    <3>3. Journals(e) /\ heads' = heads /\ revoked' = revoked /\ erased' = erased
      BY <3>1 DEF Invite, e
    <3> QED
      BY <3>2, <3>3, <1>1, JournalTakes DEF KnownIntent
  <2>4. CASE \E v \in Invitations : RevokeInvitation(d, h, v)
    <3>1. PICK v \in Invitations : RevokeInvitation(d, h, v)
      BY <2>4
    <3> DEFINE e == Intent("revoke", d, h, v, TRUE, 0)
    <3>2. e \in Intents /\ e.act = "revoke" /\ e.at = Top
      BY <2>2 DEF Intent, Intents, Acts, IntentObjects
    <3> HIDE DEF e
    <3>3. Journals(e) /\ heads' = heads /\ revoked' = revoked /\ erased' = erased
      BY <3>1 DEF RevokeInvitation, e
    <3> QED
      BY <3>2, <3>3, <1>1, JournalTakes DEF KnownIntent
  <2>5. CASE \E x \in SpaceDevices, yes \in BOOLEAN, i \in 1 .. Len(journal) + 1 :
               Decide(d, h, x, yes, i)
    <3>1. PICK x \in SpaceDevices, yes \in BOOLEAN, i \in 1 .. Len(journal) + 1 :
            Decide(d, h, x, yes, i)
      BY <2>5
    <3> DEFINE e == Intent("decide", d, h, x, yes, 0)
    <3>2. e \in Intents /\ e.act = "decide" /\ e.at = Top
      BY <2>2 DEF Intent, Intents, Acts, IntentObjects
    <3> HIDE DEF e
    <3>3. (Journals(e) \/ journal' = journal)
          /\ heads' = heads /\ revoked' = revoked /\ erased' = erased
      BY <3>1 DEF Decide, e
    <3> QED
      BY <3>2, <3>3, <1>1, JournalTakes, JournalRests DEF KnownIntent
  <2>6. CASE \E kind \in RoleKinds, t \in Persons, rev \in 0 .. roles.revision :
               RoleChange(d, h, kind, t, rev)
    <3>1. PICK kind \in RoleKinds, t \in Persons, rev \in 0 .. roles.revision :
            RoleChange(d, h, kind, t, rev)
      BY <2>6
    <3> DEFINE e == Intent(kind, d, h, t, TRUE, rev)
               rows == PruneApplicants(applicants, offers)
    <3>2. rev \in Nat
      BY DEF SpaceTypes, RegistryOK
    <3>3. e \in Intents /\ e.act = kind /\ e.at = Top /\ e.obj = t
      BY <2>2, <3>2 DEF Intent, Intents, Acts, IntentObjects
    <3> HIDE DEF e
    <3>4. Journals(e) /\ heads' = heads /\ revoked' = revoked /\ erased' = erased
      BY <3>1 DEF RoleChange, e
    <3>5. ASSUME kind = "remove_member"
          PROVE  t \in DOMAIN removals' /\ removals'[t] = Top /\ ShutOut(applicants', t)
      <4>1. removals' = With(removals, t, Top)
            /\ applicants' = [c \in DOMAIN rows |->
                 IF HolderOf[c] = t THEN [rows[c] EXCEPT !.status = "removed"] ELSE rows[c]]
        BY <3>1, <3>5 DEF RoleChange
      <4> HIDE DEF rows
      <4>2. t \in DOMAIN removals' /\ removals'[t] = Top
        BY <4>1 DEF With
      <4>3. \A c \in DOMAIN rows : rows[c] \in Rows
        BY PruneFacts DEF SpaceTypes, RowsOK, Pruned, rows
      <4>4. ShutOut(applicants', t)
        BY <4>1, <4>3 DEF ShutOut, Rows
      <4> QED
        BY <4>2, <4>4
    <3>6. KnownIntent(e)
      BY <3>3, <3>5 DEF KnownIntent
    <3> QED
      BY <3>3, <3>4, <3>6, <1>1, JournalTakes
  <2>7. CASE \E x \in SpaceDevices, signer \in SpaceDevices \cup {NoDevice} :
               RevokeDevice(d, x, signer)
    <3>1. PICK x \in SpaceDevices, signer \in SpaceDevices \cup {NoDevice} :
            RevokeDevice(d, x, signer)
      BY <2>7
    <3> DEFINE e == RevocationIntent(x, signer)
    <3>2. e \in Intents /\ e.act = "revoked" /\ e.at = 0 /\ e.by = x
      BY DEF RevocationIntent, Intent, Intents, Acts, IntentObjects
    <3> HIDE DEF e
    <3>3. Journals(e) /\ heads' = heads /\ revoked' = revoked \cup {x} /\ erased' = erased
      BY <3>1 DEF RevokeDevice, e
    <3> QED
      BY <3>2, <3>3, <1>1, JournalTakes DEF KnownIntent
  <2> QED
    BY <2>1, <2>3, <2>4, <2>5, <2>6, <2>7
<1>5. CASE Retiring
  <2>1. CASE AbsorbRevocations
    <3>1. heads' = heads /\ erased' = erased
      BY <2>1 DEF AbsorbRevocations
    <3>2. /\ JournalOK' /\ Extended
          /\ revoked' = revoked \cup Unseen
          /\ \A i \in NewIntents :
               /\ journal'[i].act = "revoked" /\ journal'[i].at = 0
               /\ journal'[i].by \in Unseen
      BY <2>1, AbsorbFacts
    <3> QED
      BY <3>1, <3>2 DEF JournalGrows, KnownIntent
  <2>2. CASE \E t \in Elsewhere : RevokedElsewhere(t[1], t[2])
    <3>1. journal' = journal /\ revoked' = revoked /\ erased' = erased
      BY <2>2 DEF RevokedElsewhere
    <3> QED
      BY <1>1, <3>1, JournalRests
  <2>3. CASE \E d \in SpaceDevices : EraseAccount(d)
    <3>1. PICK d \in SpaceDevices : EraseAccount(d)
      BY <2>3
    <3> DEFINE e == Intent("deletion", d, 0, HolderOf[d], TRUE, 0)
    <3>2. e \in Intents /\ e.act = "deletion" /\ e.at = 0 /\ e.obj = HolderOf[d]
      BY DEF Intent, Intents, Acts, IntentObjects
    <3> HIDE DEF e
    <3>3. (Journals(e) \/ journal' = journal)
          /\ heads' = heads /\ revoked' = revoked /\ erased' = erased \cup {HolderOf[d]}
      BY <3>1 DEF EraseAccount, e
    <3> QED
      BY <3>2, <3>3, <1>1, JournalTakes, JournalRests DEF KnownIntent
  <2> QED
    BY <1>5, <2>1, <2>2, <2>3 DEF Retiring
<1> QED
  BY <1>2, <1>3, <1>4, <1>5 DEF SpaceNext

-----------------------------------------------------------------------------
(* The other tables.                                                        *)

LEMMA HeadFacts ==
    ASSUME HeadsOK
    PROVE  /\ Top \in Nat /\ Top >= 1 /\ DOMAIN heads = 1..Top
           /\ \A k \in 1..Top : heads[k] \in Configurations
BY DEF HeadsOK, Top

LEMMA HeadFields ==
    ASSUME HeadsOK, NEW k \in 1..Top
    PROVE  /\ heads[k].devices \subseteq SpaceDevices /\ heads[k].owners \subseteq Persons
           /\ heads[k].commit \in Seq(Intents)
<1>1. heads[k] \in Configurations
  BY HeadFacts
<1> QED
  BY <1>1 DEF Configurations

LEMMA TopFields ==
    ASSUME HeadsOK
    PROVE  /\ HeadDevices \subseteq SpaceDevices /\ heads[Top].owners \subseteq Persons
           /\ Committed \in Seq(Intents)
<1>1. Top \in 1..Top
  BY HeadFacts
<1> QED
  BY <1>1, HeadFields DEF HeadDevices, Committed

LEMMA JournalFacts ==
    ASSUME JournalOK
    PROVE  /\ Len(journal) \in Nat /\ DOMAIN journal = 1..Len(journal)
           /\ \A i \in 1..Len(journal) : journal[i] \in Intents /\ journal[i].at \in Nat
<1>1. /\ journal \in Seq(Intents) /\ Len(journal) \in Nat /\ DOMAIN journal = 1..Len(journal)
      /\ \A i \in 1..Len(journal) : journal[i] \in Intents
  BY DEF JournalOK
<1>2. \A e \in Intents : e.at \in Nat
  BY DEF Intents
<1> QED
  BY <1>1, <1>2

LEMMA HeadsRest ==
    ASSUME HeadsOK, heads' = heads
    PROVE  HeadsOK'
BY DEF HeadsOK

\* What a device that administers the Space may send.
Command(d, h) ==
    \/ \E v \in Invitations, asks \in BOOLEAN : Invite(d, h, v, asks)
    \/ \E v \in Invitations : RevokeInvitation(d, h, v)
    \/ \E x \in SpaceDevices, yes \in BOOLEAN, i \in 1 .. Len(journal) + 1 :
          Decide(d, h, x, yes, i)
    \/ \E kind \in RoleKinds, t \in Persons, rev \in 0 .. roles.revision :
          RoleChange(d, h, kind, t, rev)
    \/ \E x \in SpaceDevices, signer \in SpaceDevices \cup {NoDevice} :
          RevokeDevice(d, x, signer)

LEMMA Commands ==
    ASSUME Administering
    PROVE  \E d \in SpaceDevices, h \in 1..Top : Administers(d, h) /\ Command(d, h)
BY DEF Administering, Command

LEMMA HeadsStep ==
    ASSUME SpaceTypes, SpaceNext
    PROVE  /\ HeadsOK'
           /\ heads' = heads \/ \E d \in SpaceDevices : PublishAuthority(d)
<1>1. HeadsOK /\ DraftsOK
  BY DEF SpaceTypes
<1>2. CASE \E d \in SpaceDevices : PublishAuthority(d)
  <2>1. PICK d \in SpaceDevices : PublishAuthority(d)
    BY <1>2
  <2> DEFINE c == [devices |-> drafts[d].devices, owners |-> drafts[d].owners,
                   commit |-> drafts[d].commit]
  <2>2. drafts[d] \in Drafts /\ heads' = Append(heads, c)
    BY <2>1, <1>1 DEF PublishAuthority, DraftsOK
  <2>3. c \in Configurations
    BY <2>2 DEF Drafts, Configurations
  <2> HIDE DEF c
  <2> QED
    BY <1>1, <1>2, <2>2, <2>3 DEF HeadsOK
<1>3. CASE ~\E d \in SpaceDevices : PublishAuthority(d)
  <2>1. heads' = heads
    <3>1. CASE Applying
      BY <3>1 DEF Applying, Join, Status, OfferExpires, RequestExpires
    <3>2. CASE Administering
      <4>1. PICK d \in SpaceDevices, h \in 1..Top : Command(d, h)
        BY <3>2, Commands
      <4> QED
        BY <4>1 DEF Command, Invite, RevokeInvitation, Decide, RoleChange, RevokeDevice
    <3>3. CASE Retiring
      BY <3>3 DEF Retiring, AbsorbRevocations, RevokedElsewhere, EraseAccount
    <3>4. CASE Updating
      BY <1>3, <3>4 DEF Updating, FetchAuthority
    <3> QED
      BY <3>1, <3>2, <3>3, <3>4 DEF SpaceNext
  <2> QED
    BY <1>1, <2>1, HeadsRest
<1> QED
  BY <1>2, <1>3

\* A step changes the requests in one of a few ways.
LEMMA HeldFacts ==
    ASSUME NEW D \in SUBSET SpaceDevices
    PROVE  Held(D) \subseteq Persons
BY SpaceAssumption DEF Held

RowsSteps ==
    LET rows == PruneApplicants(applicants, offers)
    IN \/ applicants' = applicants
       \/ applicants' = PruneApplicants(applicants, offers')
       \/ \E S : \/ applicants' = Only(applicants, S)
                 \/ applicants' = PruneApplicants(Only(applicants, S), offers)
       \/ \E d \in SpaceDevices, st \in {"pending", "eligible", "approved"},
             v \in Invitations \cup {NoInvitation} : applicants' = With(rows, d, Row(st, v, 0))
       \/ \E x \in DOMAIN rows, st \in {"eligible", "declined"}, i \in Nat :
             applicants' = [rows EXCEPT ![x].status = st, ![x].proof = i]
       \/ \E t : applicants' = [c \in DOMAIN rows |->
             IF HolderOf[c] = t THEN [rows[c] EXCEPT !.status = "removed"] ELSE rows[c]]
       \/ \E D : applicants' = [x \in DOMAIN rows |->
             IF x \in D /\ rows[x].status = "eligible"
             THEN [rows[x] EXCEPT !.status = "approved"] ELSE rows[x]]

LEMMA OnlyRows ==
    ASSUME NEW rows, NEW S, RowsOK(rows)
    PROVE  RowsOK(Only(rows, S))
BY DEF RowsOK, Only

LEMMA PrunedRows ==
    ASSUME NEW rows, NEW f, RowsOK(rows)
    PROVE  RowsOK(PruneApplicants(rows, f))
BY PruneFacts DEF RowsOK, Pruned

LEMMA RowsTyped ==
    ASSUME RowsOK(applicants), RowsSteps
    PROVE  RowsOK(applicants')
<1> DEFINE rows == PruneApplicants(applicants, offers)
<1>1. RowsOK(rows)
  BY PrunedRows
<1>2. CASE applicants' = applicants
  BY <1>2
<1>3. CASE applicants' = PruneApplicants(applicants, offers')
  BY <1>3, PrunedRows
<1>4. CASE \E S : \/ applicants' = Only(applicants, S)
                  \/ applicants' = PruneApplicants(Only(applicants, S), offers)
  <2>1. PICK S : \/ applicants' = Only(applicants, S)
                 \/ applicants' = PruneApplicants(Only(applicants, S), offers)
    BY <1>4
  <2>2. RowsOK(Only(applicants, S))
    BY OnlyRows
  <2>3. RowsOK(PruneApplicants(Only(applicants, S), offers))
    BY <2>2, PrunedRows
  <2> QED
    BY <2>1, <2>2, <2>3
<1> HIDE DEF rows
<1>5. CASE \E d \in SpaceDevices, st \in {"pending", "eligible", "approved"},
             v \in Invitations \cup {NoInvitation} : applicants' = With(rows, d, Row(st, v, 0))
  BY <1>1, <1>5 DEF RowsOK, Row, Rows, With
<1>6. CASE \E x \in DOMAIN rows, st \in {"eligible", "declined"}, i \in Nat :
             applicants' = [rows EXCEPT ![x].status = st, ![x].proof = i]
  BY <1>1, <1>6 DEF RowsOK, Rows
<1>7. CASE \E t : applicants' = [c \in DOMAIN rows |->
             IF HolderOf[c] = t THEN [rows[c] EXCEPT !.status = "removed"] ELSE rows[c]]
  BY <1>1, <1>7 DEF RowsOK, Rows
<1>8. CASE \E D : applicants' = [x \in DOMAIN rows |->
             IF x \in D /\ rows[x].status = "eligible"
             THEN [rows[x] EXCEPT !.status = "approved"] ELSE rows[x]]
  BY <1>1, <1>8 DEF RowsOK, Rows
<1> QED
  BY <1>2, <1>3, <1>4, <1>5, <1>6, <1>7, <1>8 DEF RowsSteps, rows

LEMMA RowsStep ==
    ASSUME SpaceTypes, SpaceNext
    PROVE  RowsOK(applicants')
<1> DEFINE rows == PruneApplicants(applicants, offers)
<1>1. RowsOK(applicants)
  BY DEF SpaceTypes
<1>2. CASE Applying
  <2>1. ASSUME NEW d \in SpaceDevices, NEW v \in Invitations, Join(d, v) PROVE RowsSteps
    <3>1. \E st \in {"pending", "eligible", "approved"} : applicants' = With(rows, d, Row(st, v, 0))
      BY <2>1 DEF Join
    <3> QED
      BY <3>1 DEF RowsSteps
  <2>2. ASSUME NEW d \in SpaceDevices, Status(d) PROVE RowsSteps
    <3>1. \E st \in {"pending", "eligible", "approved"} :
            applicants' = With(rows, d, Row(st, NoInvitation, 0))
      BY <2>2 DEF Status
    <3> QED
      BY <3>1 DEF RowsSteps
  <2>3. ASSUME NEW v \in Invitations, OfferExpires(v) PROVE RowsSteps
    BY <2>3 DEF OfferExpires, RowsSteps
  <2>4. ASSUME NEW d \in SpaceDevices, RequestExpires(d) PROVE RowsSteps
    BY <2>4 DEF RequestExpires, RowsSteps
  <2> QED
    BY <1>1, <1>2, <2>1, <2>2, <2>3, <2>4, RowsTyped DEF Applying
<1>3. CASE Administering
  <2>1. ASSUME NEW d \in SpaceDevices, NEW h, NEW v \in Invitations, NEW asks \in BOOLEAN,
               Invite(d, h, v, asks)
        PROVE  RowsSteps
    BY <2>1 DEF Invite, RowsSteps
  <2>2. ASSUME NEW d \in SpaceDevices, NEW h, NEW v \in Invitations, RevokeInvitation(d, h, v)
        PROVE  RowsSteps
    BY <2>2 DEF RevokeInvitation, RowsSteps
  <2>3. ASSUME NEW d \in SpaceDevices, NEW h, NEW x \in SpaceDevices, NEW yes \in BOOLEAN,
               NEW i \in 1 .. Len(journal) + 1, Decide(d, h, x, yes, i)
        PROVE  RowsSteps
    <3>1. x \in DOMAIN rows /\ i \in Nat
      BY <2>3 DEF Decide, SpaceTypes, JournalOK
    <3>2. \E st \in {"eligible", "declined"} :
             applicants' = [rows EXCEPT ![x].status = st, ![x].proof = i]
      BY <2>3 DEF Decide
    <3> QED
      BY <3>1, <3>2 DEF RowsSteps
  <2>4. ASSUME NEW d \in SpaceDevices, NEW h, NEW kind, NEW t, NEW rev,
               RoleChange(d, h, kind, t, rev)
        PROVE  RowsOK(applicants')
    <3>1. CASE kind = "remove_member"
      <4>1. applicants' = [c \in DOMAIN rows |->
              IF HolderOf[c] = t THEN [rows[c] EXCEPT !.status = "removed"] ELSE rows[c]]
        BY <2>4, <3>1 DEF RoleChange
      <4>2. RowsSteps
        BY <4>1 DEF RowsSteps
      <4> QED
        BY <1>1, <4>2, RowsTyped
    <3>2. CASE kind # "remove_member"
      BY <1>1, <2>4, <3>2, PrunedRows DEF RoleChange
    <3> QED
      BY <3>1, <3>2
  <2>5. ASSUME NEW d \in SpaceDevices, NEW x, NEW signer, RevokeDevice(d, x, signer)
        PROVE  RowsSteps
    BY <2>5 DEF RevokeDevice, RowsSteps
  <2> QED
    BY <1>1, <1>3, <2>1, <2>2, <2>3, <2>4, <2>5, RowsTyped DEF Administering
<1>4. CASE Retiring
  <2>1. ASSUME NEW d \in SpaceDevices, EraseAccount(d) PROVE RowsSteps
    BY <2>1 DEF EraseAccount, RowsSteps
  <2>2. AbsorbRevocations => RowsSteps
    BY DEF AbsorbRevocations, RowsSteps
  <2>3. ASSUME NEW x, NEW s, RevokedElsewhere(x, s) PROVE RowsSteps
    BY <2>3 DEF RevokedElsewhere, RowsSteps
  <2> QED
    BY <1>1, <1>4, <2>1, <2>2, <2>3, RowsTyped DEF Retiring
<1>5. CASE Updating
  <2>1. ASSUME NEW d \in SpaceDevices, NEW linked, FetchAuthority(d, linked) PROVE RowsSteps
    BY <2>1 DEF FetchAuthority, RowsSteps
  <2>2. ASSUME NEW d \in SpaceDevices, PublishAuthority(d) PROVE RowsSteps
    <3>1. applicants' = [x \in DOMAIN rows |->
             IF x \in drafts[d].devices /\ rows[x].status = "eligible"
             THEN [rows[x] EXCEPT !.status = "approved"] ELSE rows[x]]
      BY <2>2 DEF PublishAuthority
    <3> QED
      BY <3>1 DEF RowsSteps
  <2> QED
    BY <1>1, <1>5, <2>1, <2>2, RowsTyped DEF Updating
<1> QED
  BY <1>2, <1>3, <1>4, <1>5 DEF SpaceNext

\* Invitations are never forgotten, and what they ask for never changes.
OffersKept ==
    /\ OffersOK(offers')
    /\ DOMAIN offers \subseteq DOMAIN offers'
    /\ \A v \in DOMAIN offers :
         offers'[v].asks = offers[v].asks /\ offers'[v].proof = offers[v].proof
    /\ \A v \in DOMAIN offers' \ DOMAIN offers : offers'[v].proof = Len(journal')

LEMMA OffersStep ==
    ASSUME SpaceTypes, SpaceNext
    PROVE  OffersKept
<1>1. OffersOK(offers)
  BY DEF SpaceTypes
<1>2. CASE offers' = offers
  BY <1>1, <1>2 DEF OffersKept
<1>3. ASSUME NEW v \in Invitations, OfferExpires(v) PROVE OffersKept
  BY <1>1, <1>3 DEF OfferExpires, OffersKept, OffersOK, Offers
<1>4. ASSUME NEW d, NEW h, NEW v \in Invitations, RevokeInvitation(d, h, v) PROVE OffersKept
  BY <1>1, <1>4 DEF RevokeInvitation, OffersKept, OffersOK, Offers
<1>5. ASSUME NEW d, NEW h, NEW v \in Invitations, NEW asks \in BOOLEAN, Invite(d, h, v, asks),
             Len(journal') \in Nat
      PROVE  OffersKept
  BY <1>1, <1>5 DEF Invite, OffersKept, OffersOK, Offers, With
<1>6. Len(journal') \in Nat
  BY JournalStep DEF JournalGrows, JournalOK
<1>7. CASE Applying
  BY <1>2, <1>3, <1>7 DEF Applying, Join, Status, RequestExpires
<1>8. CASE Administering
  <2>1. PICK d \in SpaceDevices, h \in 1..Top : Command(d, h)
    BY <1>8, Commands
  <2> QED
    BY <1>2, <1>4, <1>5, <1>6, <2>1 DEF Command, Decide, RoleChange, RevokeDevice
<1>9. CASE Retiring
  BY <1>2, <1>9 DEF Retiring, AbsorbRevocations, RevokedElsewhere, EraseAccount
<1>10. CASE Updating
  BY <1>2, <1>10 DEF Updating, FetchAuthority, PublishAuthority
<1> QED
  BY <1>7, <1>8, <1>9, <1>10 DEF SpaceNext

LEMMA RegistryStep ==
    ASSUME SpaceTypes, SpaceNext
    PROVE  RegistryOK'
<1> USE SpaceAssumption
<1>1. RegistryOK /\ HeadsOK
  BY DEF SpaceTypes
<1>2. Top \in Nat /\ Top >= 1 /\ HeadDevices \subseteq SpaceDevices
  BY <1>1, HeadFacts, TopFields
<1>3. CASE UNCHANGED <<roles, revoked, erased, tombs, removals>> /\ Top' \in Nat /\ Top' >= Top
  BY <1>1, <1>2, <1>3 DEF RegistryOK
<1>4. CASE Applying
  <2>1. UNCHANGED <<heads, roles, revoked, erased, tombs, removals>>
    BY <1>4 DEF Applying, Join, Status, OfferExpires, RequestExpires
  <2> QED
    BY <1>2, <1>3, <2>1 DEF Top
<1>5. CASE Updating
  <2>1. heads' = heads \/ \E c : heads' = Append(heads, c)
    BY <1>5 DEF Updating, FetchAuthority, PublishAuthority
  <2>2. Top' \in Nat /\ Top' >= Top
    BY <1>1, <2>1 DEF Top, HeadsOK
  <2> QED
    BY <1>3, <1>5, <2>2 DEF Updating, FetchAuthority, PublishAuthority
<1>6. CASE Administering
  <2>1. PICK d \in SpaceDevices, h \in 1..Top : Command(d, h)
    BY <1>6, Commands
  <2>2. ASSUME NEW v, NEW asks, Invite(d, h, v, asks) PROVE RegistryOK'
    BY <1>2, <1>3, <2>2 DEF Invite, Top
  <2>3. ASSUME NEW v, RevokeInvitation(d, h, v) PROVE RegistryOK'
    BY <1>2, <1>3, <2>3 DEF RevokeInvitation, Top
  <2>4. ASSUME NEW x, NEW yes, NEW i, Decide(d, h, x, yes, i) PROVE RegistryOK'
    BY <1>2, <1>3, <2>4 DEF Decide, Top
  <2>5. ASSUME NEW kind \in RoleKinds, NEW t \in Persons, NEW rev, RoleChange(d, h, kind, t, rev)
        PROVE  RegistryOK'
    <3>1. /\ rev = roles.revision
          /\ roles' = [owners |-> Changed(kind, t, roles.owners), revision |-> rev + 1]
          /\ heads' = heads /\ revoked' = revoked /\ erased' = erased /\ tombs' = tombs
      BY <2>5 DEF RoleChange
    <3>2. removals' = With(removals, t, Top) \/ removals' = removals
      BY <2>5 DEF RoleChange
    <3>3. Changed(kind, t, roles.owners) \subseteq Persons /\ rev + 1 \in Nat
      BY <1>1, <3>1 DEF RegistryOK, Changed
    <3>4. roles' \in [owners: SUBSET Persons, revision: Nat]
      BY <3>1, <3>3
    <3>5. DOMAIN removals' \subseteq Persons /\ \A p \in DOMAIN removals' : removals'[p] \in 0..Top
      BY <1>1, <1>2, <3>2 DEF RegistryOK, With
    <3> QED
      BY <1>1, <3>1, <3>4, <3>5 DEF RegistryOK, Top
  <2>6. ASSUME NEW x \in SpaceDevices, NEW signer \in SpaceDevices \cup {NoDevice},
               RevokeDevice(d, x, signer)
        PROVE  RegistryOK'
    <3>1. /\ heads' = heads /\ roles' = roles /\ erased' = erased /\ removals' = removals
          /\ revoked' = revoked \cup {x} /\ tombs' = With(tombs, x, signer)
      BY <2>6 DEF RevokeDevice
    <3> QED
      BY <1>1, <3>1 DEF RegistryOK, Top, With
  <2> QED
    BY <2>1, <2>2, <2>3, <2>4, <2>5, <2>6 DEF Command
<1>7. CASE Retiring
  <2>1. CASE AbsorbRevocations
    <3>1. /\ heads' = heads /\ roles' = roles /\ erased' = erased /\ removals' = removals
          /\ tombs' = tombs /\ revoked' \subseteq revoked \cup HeadDevices
      BY <2>1 DEF AbsorbRevocations
    <3> QED
      BY <1>1, <1>2, <3>1 DEF RegistryOK, Top
  <2>2. ASSUME NEW t \in Elsewhere, RevokedElsewhere(t[1], t[2]) PROVE RegistryOK'
    <3>1. /\ heads' = heads /\ roles' = roles /\ erased' = erased /\ removals' = removals
          /\ revoked' = revoked /\ tombs' = With(tombs, t[1], t[2])
      BY <2>2 DEF RevokedElsewhere
    <3>2. t[1] \in SpaceDevices /\ t[2] \in SpaceDevices \cup {NoDevice}
      OBVIOUS
    <3> QED
      BY <1>1, <3>1, <3>2 DEF RegistryOK, Top, With
  <2>3. ASSUME NEW d \in SpaceDevices, EraseAccount(d) PROVE RegistryOK'
    <3>1. /\ heads' = heads /\ roles' = roles /\ tombs' = tombs /\ revoked' = revoked
          /\ erased' = erased \cup {HolderOf[d]}
          /\ removals' = removals \/ removals' = With(removals, HolderOf[d], 0)
      BY <2>3 DEF EraseAccount
    <3>2. HolderOf[d] \in Persons
      OBVIOUS
    <3>3. DOMAIN removals' \subseteq Persons /\ \A p \in DOMAIN removals' : removals'[p] \in 0..Top
      BY <1>1, <1>2, <3>1, <3>2 DEF RegistryOK, With
    <3> QED
      BY <1>1, <3>1, <3>2, <3>3 DEF RegistryOK, Top
  <2> QED
    BY <1>7, <2>1, <2>2, <2>3 DEF Retiring
<1> QED
  BY <1>4, <1>5, <1>6, <1>7 DEF SpaceNext

\* What an owner's device has fetched and signed is kept, and one draft is new at most.
LEMMA FetchFacts ==
    ASSUME SpaceTypes, NEW d \in SpaceDevices, NEW linked \in SUBSET SpaceDevices,
           FetchAuthority(d, linked)
    PROVE  \E c \in Drafts :
             /\ c.base = Top /\ c.commit = journal
             /\ c.devices = Proposal(Replay, linked).devices
             /\ c.owners = Proposal(Replay, linked).owners
             /\ drafts' = With(drafts, d, c)
<1> USE SpaceAssumption
<1> DEFINE s == Replay
           p == Proposal(s, linked)
           c == [base |-> p.base, devices |-> p.devices, owners |-> p.owners, commit |-> p.commit]
<1>1. drafts' = With(drafts, d, c)
  BY DEF FetchAuthority
<1> HIDE DEF s
<1>2. Top \in Nat /\ HeadDevices \subseteq SpaceDevices /\ journal \in Seq(Intents)
      /\ DOMAIN applicants \subseteq SpaceDevices
  BY HeadFacts, TopFields DEF SpaceTypes, JournalOK, RowsOK
<1>3. p.base = Top /\ p.commit = journal /\ p.owners \subseteq Held(p.devices)
  BY DEF Proposal
<1>4. p.devices \subseteq HeadDevices \cup DOMAIN applicants \cup linked
  BY DEF Proposal, Eligible, Listed
<1> HIDE DEF p
<1>5. p.owners \subseteq Persons
  BY <1>2, <1>3, <1>4, HeldFacts
<1>6. c \in Drafts
  BY <1>2, <1>3, <1>4, <1>5 DEF Drafts
<1> QED
  BY <1>1, <1>3, <1>6 DEF p, s

LEMMA DraftsStep ==
    ASSUME SpaceTypes, SpaceNext
    PROVE  DraftsOK'
<1>1. DraftsOK
  BY DEF SpaceTypes
<1>2. CASE drafts' = drafts
  BY <1>1, <1>2 DEF DraftsOK
<1>3. ASSUME NEW d \in SpaceDevices, NEW linked \in SUBSET SpaceDevices, FetchAuthority(d, linked)
      PROVE  DraftsOK'
  <2>1. PICK c \in Drafts : drafts' = With(drafts, d, c)
    BY <1>3, FetchFacts
  <2> QED
    BY <1>1, <2>1 DEF DraftsOK, With
<1>4. ASSUME NEW d, PublishAuthority(d) PROVE DraftsOK'
  BY <1>1, <1>4 DEF PublishAuthority, DraftsOK, Only
<1>5. CASE Applying
  BY <1>2, <1>5 DEF Applying, Join, Status, OfferExpires, RequestExpires
<1>6. CASE Administering
  <2>1. PICK d \in SpaceDevices, h \in 1..Top : Command(d, h)
    BY <1>6, Commands
  <2> QED
    BY <1>2, <2>1 DEF Command, Invite, RevokeInvitation, Decide, RoleChange, RevokeDevice
<1>7. CASE Retiring
  BY <1>2, <1>7 DEF Retiring, AbsorbRevocations, RevokedElsewhere, EraseAccount
<1>8. CASE Updating
  BY <1>3, <1>4, <1>8 DEF Updating
<1> QED
  BY <1>5, <1>6, <1>7, <1>8 DEF SpaceNext

LEMMA SpaceTypesStep ==
    ASSUME SpaceTypes, SpaceNext
    PROVE  SpaceTypes'
BY JournalStep, HeadsStep, RegistryStep, RowsStep, OffersStep, DraftsStep
   DEF SpaceTypes, JournalGrows, OffersKept

-----------------------------------------------------------------------------
(* Every configuration commits a part of the journal.                       *)

\* The length of what configuration k commits.
Committing(k) == Len(heads[k].commit)

CommitsOK ==
    /\ \A k \in 1..Top :
         /\ Committing(k) =< Len(journal)
         /\ \A i \in 1..Committing(k) : heads[k].commit[i] = journal[i]
    /\ \A k, l \in 1..Top : k =< l => Committing(k) =< Committing(l)

\* Where an intent that was signed under a configuration stands in the journal.
Landed(i) ==
    journal[i].at > 0 =>
       /\ i > Committing(journal[i].at)
       /\ journal[i].at < Top => i =< Committing(journal[i].at + 1)

LandingInv ==
    /\ CommitsOK
    /\ \A i \in DOMAIN journal : journal[i].at \in 0..Top /\ Landed(i)

LEMMA CommittingFacts ==
    ASSUME HeadsOK, NEW k \in 1..Top
    PROVE  Committing(k) \in Nat
BY HeadFields DEF Committing

LEMMA PublishFacts ==
    ASSUME SpaceTypes, NEW d \in SpaceDevices, PublishAuthority(d)
    PROVE  /\ Top' = Top + 1 /\ journal' = journal
           /\ \A k \in 1..Top : heads'[k] = heads[k]
           /\ heads'[Top + 1].devices = drafts[d].devices
           /\ heads'[Top + 1].owners = drafts[d].owners
           /\ heads'[Top + 1].commit = journal
           /\ drafts[d] \in Drafts /\ Accepts(drafts[d])
<1> DEFINE c == [devices |-> drafts[d].devices, owners |-> drafts[d].owners,
                 commit |-> drafts[d].commit]
<1>1. /\ drafts[d] \in Drafts /\ Accepts(drafts[d]) /\ drafts[d].commit = journal
      /\ heads' = Append(heads, c) /\ journal' = journal
  BY DEF PublishAuthority, SpaceTypes, DraftsOK, Accepts, Extends
<1>2. c \in Configurations
  BY <1>1 DEF Drafts, Configurations
<1>3. heads \in Seq(Configurations) /\ Len(heads) \in Nat
  BY DEF SpaceTypes, HeadsOK
<1> HIDE DEF c
<1>4. /\ Len(heads') = Len(heads) + 1 /\ heads'[Len(heads) + 1] = c
      /\ \A k \in 1..Len(heads) : heads'[k] = heads[k]
  BY <1>1, <1>2, <1>3
<1> QED
  BY <1>1, <1>4 DEF Top, c

LEMMA LandingStep ==
    ASSUME SpaceTypes, LandingInv, SpaceNext
    PROVE  LandingInv'
<1>1. /\ JournalOK /\ HeadsOK /\ Top \in Nat /\ Top >= 1 /\ Len(journal) \in Nat
      /\ DOMAIN journal = 1..Len(journal) /\ \A i \in DOMAIN journal : journal[i].at \in Nat
  BY HeadFacts, JournalFacts DEF SpaceTypes
<1>2. JournalGrows /\ SpaceTypes'
  BY JournalStep, SpaceTypesStep
<1>3. /\ Len(journal') \in Nat /\ DOMAIN journal' = 1..Len(journal')
      /\ Len(journal') >= Len(journal)
      /\ \A i \in 1..Len(journal) : journal'[i] = journal[i]
  BY <1>1, <1>2 DEF JournalGrows, Extended, JournalOK
<1>4. \A k \in 1..Top : Committing(k) \in Nat
  BY <1>1, CommittingFacts
<1>5. CASE heads' = heads
  <2>1. Top' = Top /\ \A k \in 1..Top : Committing(k)' = Committing(k) /\ heads'[k] = heads[k]
    BY <1>5 DEF Top, Committing
  <2>2. CommitsOK'
    BY <1>1, <1>3, <1>4, <2>1 DEF CommitsOK, LandingInv
  <2>3. ASSUME NEW i \in DOMAIN journal' PROVE journal'[i].at \in 0..Top /\ Landed(i)'
    <3>1. CASE i \in DOMAIN journal
      <4>1. journal'[i] = journal[i] /\ journal[i].at \in 0..Top /\ Landed(i)
        BY <1>1, <1>3, <3>1 DEF LandingInv
      <4> QED
        BY <4>1, <2>1, <1>1 DEF Landed
    <3>2. CASE i \notin DOMAIN journal
      <4>1. KnownIntent(journal'[i]) /\ i > Len(journal)
        BY <1>1, <1>2, <1>3, <3>2 DEF JournalGrows, NewIntents
      <4>2. journal'[i].at = 0 \/ journal'[i].at = Top
        BY <4>1 DEF KnownIntent
      <4>3. Committing(Top) =< Len(journal)
        BY <1>1 DEF LandingInv, CommitsOK
      <4> QED
        BY <1>1, <1>3, <1>4, <2>1, <4>1, <4>2, <4>3 DEF Landed
    <3> QED
      BY <3>1, <3>2
  <2> QED
    BY <2>1, <2>2, <2>3 DEF LandingInv
<1>6. ASSUME NEW d \in SpaceDevices, PublishAuthority(d) PROVE LandingInv'
  <2>1. /\ Top' = Top + 1 /\ journal' = journal
        /\ \A k \in 1..Top : heads'[k] = heads[k]
        /\ heads'[Top + 1].commit = journal
    BY <1>6, PublishFacts
  <2>2. \A k \in 1..Top : Committing(k)' = Committing(k)
    BY <2>1 DEF Committing
  <2>3. ASSUME NEW k, k = Top + 1 PROVE Committing(k)' = Len(journal)
    BY <2>1, <2>3 DEF Committing
  <2>4. CommitsOK'
    <3>1. ASSUME NEW k \in 1..Top + 1
          PROVE  /\ Committing(k)' =< Len(journal)
                 /\ \A i \in 1..Committing(k)' : heads'[k].commit[i] = journal[i]
      BY <1>1, <1>4, <2>1, <2>2, <2>3 DEF CommitsOK, LandingInv
    <3>2. ASSUME NEW k \in 1..Top + 1, NEW l \in 1..Top + 1, k =< l
          PROVE  Committing(k)' =< Committing(l)'
      <4>1. CASE l = Top + 1
        BY <3>1, <2>3, <4>1
      <4>2. CASE l # Top + 1
        BY <1>1, <2>2, <3>2, <4>2 DEF CommitsOK, LandingInv
      <4> QED
        BY <4>1, <4>2
    <3> QED
      BY <2>1, <3>1, <3>2 DEF CommitsOK
  <2>5. ASSUME NEW i \in DOMAIN journal' PROVE journal'[i].at \in 0..Top' /\ Landed(i)'
    <3>1. journal'[i] = journal[i] /\ journal[i].at \in 0..Top /\ Landed(i) /\ i =< Len(journal)
      BY <1>1, <2>1 DEF LandingInv
    <3>2. PICK a \in 0..Top : a = journal[i].at
      BY <3>1
    <3>3. a > 0 => i > Committing(a) /\ (a < Top => i =< Committing(a + 1))
      BY <3>1, <3>2 DEF Landed
    <3>4. a > 0 => i > Committing(a)'
      BY <1>1, <2>2, <3>3
    <3>5. ASSUME NEW b, b = a + 1, a > 0 PROVE i =< Committing(b)'
      BY <1>1, <2>2, <2>3, <3>1, <3>3, <3>5
    <3>6. a > 0 => i =< Committing(a + 1)'
      BY <3>5
    <3> QED
      BY <1>1, <2>1, <3>1, <3>2, <3>4, <3>6 DEF Landed
  <2> QED
    BY <2>4, <2>5 DEF LandingInv
<1> QED
  BY <1>5, <1>6, HeadsStep

LEMMA LandedFromInv ==
    ASSUME SpaceTypes, LandingInv
    PROVE  IntentsLand
<1>1. /\ JournalOK /\ HeadsOK /\ Top \in Nat /\ Len(journal) \in Nat
      /\ journal \in Seq(Intents) /\ DOMAIN journal = 1..Len(journal)
  BY HeadFacts, JournalFacts DEF SpaceTypes, JournalOK
<1>2. ASSUME NEW k \in 1..Top PROVE heads[k].commit = SubSeq(journal, 1, Len(heads[k].commit))
  <2>1. heads[k].commit \in Seq(Intents) /\ Len(heads[k].commit) \in Nat
    BY <1>1, HeadFields
  <2>2. /\ Len(heads[k].commit) =< Len(journal)
        /\ \A i \in 1..Len(heads[k].commit) : heads[k].commit[i] = journal[i]
    BY DEF LandingInv, CommitsOK, Committing
  <2> DEFINE c == heads[k].commit
             s == SubSeq(journal, 1, Len(c))
  <2> HIDE DEF c
  <2>3. s \in Seq(Intents) /\ Len(s) = Len(c) /\ \A i \in 1..Len(c) : s[i] = journal[i]
    BY <1>1, <2>1, <2>2 DEF c
  <2> HIDE DEF s
  <2>4. c = s
    BY <2>1, <2>2, <2>3 DEF c
  <2> QED
    BY <2>4 DEF c, s
<1>3. ASSUME NEW i \in DOMAIN journal, journal[i].at > 0
      PROVE  /\ i > Len(heads[journal[i].at].commit)
             /\ journal[i].at < Top => i =< Len(heads[journal[i].at + 1].commit)
  BY <1>3 DEF LandingInv, Landed, Committing
<1> QED
  BY <1>2, <1>3 DEF IntentsLand

\* What was signed and is not committed was signed under the configuration that stands.
LEMMA Uncommitted ==
    ASSUME SpaceTypes, LandingInv, NEW i \in DOMAIN journal
    PROVE  /\ journal[i].at > 0 /\ i > Len(Committed) => journal[i].at = Top
           /\ journal[i].at = Top => i > Len(Committed)
           /\ journal[i].at > 0 /\ journal[i].at < Top => i =< Len(Committed)
           /\ Len(Committed) \in Nat /\ Len(Committed) =< Len(journal)
<1>1. Top \in Nat /\ Top >= 1 /\ Top \in 1..Top /\ HeadsOK
  BY HeadFacts DEF SpaceTypes
<1>2. Len(Committed) = Committing(Top) /\ Committing(Top) \in Nat
      /\ Committing(Top) =< Len(journal)
  BY <1>1, CommittingFacts DEF Committed, Committing, LandingInv, CommitsOK
<1>3. journal[i].at \in 0..Top /\ Landed(i)
  BY DEF LandingInv
<1>4. ASSUME journal[i].at > 0, journal[i].at < Top PROVE i =< Len(Committed)
  <2>1. journal[i].at + 1 \in 1..Top
    BY <1>1, <1>3, <1>4
  <2>2. i =< Committing(journal[i].at + 1)
    BY <1>3, <1>4 DEF Landed
  <2>3. Committing(journal[i].at + 1) =< Committing(Top)
    BY <1>1, <2>1 DEF LandingInv, CommitsOK
  <2>4. Committing(journal[i].at + 1) \in Nat /\ i \in Nat
    BY <2>1, <1>1, CommittingFacts, JournalFacts DEF SpaceTypes
  <2> QED
    BY <1>2, <2>2, <2>3, <2>4
<1>5. i \in Nat
  BY JournalFacts DEF SpaceTypes
<1>6. journal[i].at = Top => i > Len(Committed)
  BY <1>1, <1>2, <1>3 DEF Landed
<1>7. journal[i].at > 0 /\ i > Len(Committed) => journal[i].at = Top
  BY <1>1, <1>2, <1>3, <1>4, <1>5
<1> QED
  BY <1>2, <1>4, <1>6, <1>7

-----------------------------------------------------------------------------
(* The gate: what the journal says of a device or an identity, the          *)
(* service's tables say too.                                                *)

Counts(st) == st \in {"eligible", "approved"}

\* Revocations, deletions and removals of the journal are in the tables.
KnownInv ==
    \A i \in DOMAIN journal :
        /\ journal[i].act = "revoked" => journal[i].by \in revoked
        /\ journal[i].act = "deletion" => journal[i].obj \in erased
        /\ journal[i].act = "remove_member" =>
             /\ journal[i].at > 0
             /\ journal[i].obj \in DOMAIN removals
             /\ journal[i].at =< removals[journal[i].obj]

\* A removal that is not yet committed leaves the removed identity no request.
FreshInv ==
    \A i \in DOMAIN journal :
        i > Len(Committed) /\ journal[i].act = "remove_member"
           => ShutOut(applicants, journal[i].obj)

\* A request that counts is newer than every removal of its identity.
ReadmissionInv ==
    \A d \in DOMAIN applicants :
        Counts(applicants[d].status) => ReadmittedBy(journal, HolderOf[d])

\* Whoever is in General was let in after its last committed removal.
HeadInv == \A x \in HeadDevices : ReadmittedBy(Committed, HolderOf[x])

GateInv == KnownInv /\ FreshInv /\ ReadmissionInv /\ HeadInv

\* Removals are never forgotten, and later ones replace earlier ones.
RemovalsKept ==
    \A p \in DOMAIN removals : p \in DOMAIN removals' /\ removals'[p] >= removals[p]

LEMMA RemovalsStep ==
    ASSUME SpaceTypes, SpaceNext
    PROVE  RemovalsKept
<1>1. Top \in Nat /\ \A p \in DOMAIN removals : removals[p] \in 0..Top
  BY HeadFacts DEF SpaceTypes, RegistryOK
<1>2. CASE removals' = removals
  BY <1>1, <1>2 DEF RemovalsKept
<1>3. ASSUME NEW d, NEW h, NEW kind, NEW t, NEW rev, RoleChange(d, h, kind, t, rev)
      PROVE  RemovalsKept
  <2>1. removals' = removals \/ removals' = With(removals, t, Top)
    BY <1>3 DEF RoleChange
  <2> QED
    BY <1>1, <2>1 DEF RemovalsKept, With
<1>4. ASSUME NEW d, EraseAccount(d) PROVE RemovalsKept
  <2>1. removals' = removals
        \/ (removals' = With(removals, HolderOf[d], 0) /\ HolderOf[d] \notin DOMAIN removals)
    BY <1>4 DEF EraseAccount
  <2> QED
    BY <1>1, <2>1 DEF RemovalsKept, With
<1>5. CASE Applying
  BY <1>2, <1>5 DEF Applying, Join, Status, OfferExpires, RequestExpires
<1>6. CASE Administering
  <2>1. PICK d \in SpaceDevices, h \in 1..Top : Command(d, h)
    BY <1>6, Commands
  <2> QED
    BY <1>2, <1>3, <2>1 DEF Command, Invite, RevokeInvitation, Decide, RevokeDevice
<1>7. CASE Retiring
  BY <1>2, <1>4, <1>7 DEF Retiring, AbsorbRevocations, RevokedElsewhere
<1>8. CASE Updating
  BY <1>2, <1>8 DEF Updating, FetchAuthority, PublishAuthority
<1> QED
  BY <1>5, <1>6, <1>7, <1>8 DEF SpaceNext

LEMMA KnownStep ==
    ASSUME SpaceTypes, KnownInv, SpaceNext
    PROVE  KnownInv'
<1>1. JournalGrows /\ RemovalsKept
  BY JournalStep, RemovalsStep
<1>2. ASSUME NEW i \in DOMAIN journal'
      PROVE  /\ journal'[i].act = "revoked" => journal'[i].by \in revoked'
             /\ journal'[i].act = "deletion" => journal'[i].obj \in erased'
             /\ journal'[i].act = "remove_member" =>
                  /\ journal'[i].at > 0
                  /\ journal'[i].obj \in DOMAIN removals'
                  /\ journal'[i].at =< removals'[journal'[i].obj]
  <2>1. CASE i \in DOMAIN journal
    <3>1. journal'[i] = journal[i]
      BY <1>1, <2>1 DEF JournalGrows, Extended
    <3>2. revoked \subseteq revoked' /\ erased \subseteq erased'
      BY <1>1 DEF JournalGrows
    <3>3. journal[i].at \in Nat
      BY <2>1, JournalFacts DEF SpaceTypes
    <3>4. ASSUME journal[i].act = "remove_member"
          PROVE  /\ journal[i].at > 0
                 /\ journal[i].obj \in DOMAIN removals'
                 /\ journal[i].at =< removals'[journal[i].obj]
      <4>1. /\ journal[i].at > 0
            /\ journal[i].obj \in DOMAIN removals
            /\ journal[i].at =< removals[journal[i].obj]
        BY <2>1, <3>4 DEF KnownInv
      <4>2. removals[journal[i].obj] \in Nat
        BY <4>1, HeadFacts DEF SpaceTypes, RegistryOK
      <4>3. SpaceTypes'
        BY SpaceTypesStep
      <4>4. journal[i].obj \in DOMAIN removals' /\ removals'[journal[i].obj] >= removals[journal[i].obj]
        BY <1>1, <4>1 DEF RemovalsKept
      <4>5. removals'[journal[i].obj] \in 0..Top' /\ Top' \in Nat
        BY <4>3, <4>4, HeadFacts DEF SpaceTypes, RegistryOK, HeadsOK, Top
      <4> QED
        BY <3>3, <4>1, <4>2, <4>4, <4>5
    <3> QED
      BY <2>1, <3>1, <3>2, <3>4 DEF KnownInv
  <2>2. CASE i \notin DOMAIN journal
    <3>1. KnownIntent(journal'[i])
      BY <1>1, <2>2 DEF JournalGrows, NewIntents
    <3>2. Top \in Nat /\ Top >= 1
      BY HeadFacts DEF SpaceTypes
    <3> QED
      BY <3>1, <3>2 DEF KnownIntent, RoleKinds
  <2> QED
    BY <2>1, <2>2
<1> QED
  BY <1>2 DEF KnownInv

\* How a request comes to count in one step: it did before, its identity was never
\* removed or has a request that is approved, or an owner of the configuration that
\* stands has let it in.
EarnedBy(d, k) ==
    /\ heads' = heads
    /\ k \in DOMAIN journal'
    /\ journal'[k].act = "decide" /\ journal'[k].obj = d
    /\ journal'[k].yes /\ journal'[k].at = Top
    /\ HolderOf[d] \in DOMAIN removals => removals[HolderOf[d]] # Top

Earned(d) ==
    \/ d \in DOMAIN applicants /\ Counts(applicants[d].status)
    \/ HolderOf[d] \notin DOMAIN removals
    \/ \E c \in DOMAIN applicants :
         HolderOf[c] = HolderOf[d] /\ applicants[c].status = "approved"
    \/ \E k : EarnedBy(d, k)

RowsEarned == \A d \in DOMAIN applicants' : Counts(applicants'[d].status) => Earned(d)

\* A device with access has a request that is approved, if it was ever removed.
LEMMA AccessFacts ==
    ASSUME NEW d \in AccessDevices
    PROVE  HolderOf[d] \notin DOMAIN removals
           \/ \E c \in DOMAIN applicants :
                HolderOf[c] = HolderOf[d] /\ applicants[c].status = "approved"
BY DEF AccessDevices, RemovalBlocks

LEMMA EarnedWith ==
    ASSUME NEW d \in SpaceDevices, NEW st, NEW v,
           applicants' = With(PruneApplicants(applicants, offers), d, Row(st, v, 0)),
           Counts(st) => Earned(d)
    PROVE  RowsEarned
<1> DEFINE rows == PruneApplicants(applicants, offers)
<1>1. Pruned(applicants, offers, rows)
  BY PruneFacts
<1> HIDE DEF rows
<1>2. applicants' = With(rows, d, Row(st, v, 0))
  BY DEF rows
<1>3. applicants'[d].status = st
  BY <1>2 DEF With, Row
<1>4. \A c \in DOMAIN applicants' : c # d => c \in DOMAIN applicants /\ applicants'[c] = applicants[c]
  BY <1>1, <1>2 DEF With, Pruned
<1> QED
  BY <1>3, <1>4 DEF RowsEarned, Earned

LEMMA EarnedPruned ==
    ASSUME NEW rows, NEW f, applicants' = PruneApplicants(rows, f),
           \A d \in DOMAIN rows : d \in DOMAIN applicants /\ rows[d] = applicants[d]
    PROVE  RowsEarned
BY PruneFacts DEF Pruned, RowsEarned, Earned

LEMMA EarnedApplying ==
    ASSUME SpaceTypes, Applying
    PROVE  RowsEarned
<1> DEFINE rows == PruneApplicants(applicants, offers)
<1>1. Pruned(applicants, offers, rows)
  BY PruneFacts
<1>2. ASSUME NEW d \in SpaceDevices, NEW v \in Invitations, Join(d, v) PROVE RowsEarned
  <2> DEFINE st == IF d \in AccessDevices THEN "approved"
                   ELSE IF \/ HolderOf[d] \in DOMAIN removals
                           \/ DeviceWasDeclined(d)
                           \/ offers[v].asks /\ ~IsOwner(d)
                   THEN "pending" ELSE "eligible"
  <2>1. applicants' = With(rows, d, Row(st, v, 0))
    BY <1>2 DEF Join
  <2>2. Counts(st) => Earned(d)
    <3>1. CASE d \in AccessDevices
      BY <3>1, AccessFacts DEF Earned
    <3>2. CASE d \notin AccessDevices
      BY <3>2 DEF Earned, Counts
    <3> QED
      BY <3>1, <3>2
  <2> HIDE DEF st
  <2> QED
    BY <2>1, <2>2, EarnedWith
<1>3. ASSUME NEW d \in SpaceDevices, Status(d) PROVE RowsEarned
  <2> DEFINE st == IF d \in AccessDevices THEN "approved"
                   ELSE IF DeviceWasDeclined(d) \/ LinkedBy[d] = NoDevice THEN "pending"
                   ELSE "eligible"
  <2>1. applicants' = With(rows, d, Row(st, NoInvitation, 0))
    BY <1>3 DEF Status
  <2>2. HolderOf[d] \in DOMAIN removals =>
          \E c \in DOMAIN rows : HolderOf[c] = HolderOf[d] /\ rows[c].status = "approved"
    BY <1>3 DEF Status
  <2>3. Earned(d)
    BY <1>1, <2>2 DEF Earned, Pruned
  <2> HIDE DEF st
  <2> QED
    BY <2>1, <2>3, EarnedWith
<1>4. ASSUME NEW v \in Invitations, OfferExpires(v) PROVE RowsEarned
  <2>1. applicants' = PruneApplicants(applicants, offers')
    BY <1>4 DEF OfferExpires
  <2> QED
    BY <2>1, EarnedPruned
<1>5. ASSUME NEW d \in SpaceDevices, RequestExpires(d) PROVE RowsEarned
  <2>1. applicants' = PruneApplicants(Only(applicants, SpaceDevices \ {d}), offers)
    BY <1>5 DEF RequestExpires
  <2>2. \A c \in DOMAIN Only(applicants, SpaceDevices \ {d}) :
          c \in DOMAIN applicants /\ Only(applicants, SpaceDevices \ {d})[c] = applicants[c]
    BY DEF Only
  <2> QED
    BY <2>1, <2>2, EarnedPruned
<1> QED
  BY <1>2, <1>3, <1>4, <1>5 DEF Applying

LEMMA DecideEarned ==
    ASSUME SpaceTypes, NEW d \in SpaceDevices, NEW h \in Nat, Administers(d, h),
           NEW x \in SpaceDevices, NEW yes \in BOOLEAN, NEW i \in 1 .. Len(journal) + 1,
           Decide(d, h, x, yes, i)
    PROVE  RowsEarned
<1> DEFINE rows == PruneApplicants(applicants, offers)
           e == Intent("decide", d, h, x, yes, 0)
<1>1. Pruned(applicants, offers, rows) /\ h = Top
  BY PruneFacts DEF Administers, SignedUnder
<1>2. e \in Intents /\ e.act = "decide" /\ e.at = Top /\ e.obj = x /\ e.yes = yes
  BY <1>1 DEF Intent, Intents, Acts, IntentObjects
<1> HIDE DEF e
<1>3. /\ x \in DOMAIN rows /\ heads' = heads
      /\ applicants' = [rows EXCEPT ![x].status = IF yes THEN "eligible" ELSE "declined",
                                    ![x].proof = i]
      /\ yes => ~DeniedUnder(x, Top)
      /\ \/ i = Len(journal) + 1 /\ Journals(e)
         \/ i \in DOMAIN journal /\ journal[i] = e /\ journal' = journal
  BY DEF Decide, e
<1>4. i \in DOMAIN journal' /\ journal'[i] = e
  <2>1. JournalOK
    BY DEF SpaceTypes
  <2>2. CASE i = Len(journal) + 1 /\ Journals(e)
    <3>1. i \in NewIntents /\ journal'[i] = e
      BY <2>1, <2>2, <1>2, JournalsFacts
    <3> QED
      BY <3>1 DEF NewIntents
  <2> QED
    BY <1>3, <2>2
<1> HIDE DEF rows
<1>5. rows[x] \in Rows
  BY <1>1, <1>3 DEF Pruned, SpaceTypes, RowsOK
<1>6. /\ DOMAIN applicants' = DOMAIN rows
      /\ \A c \in DOMAIN rows : c # x => applicants'[c] = rows[c]
      /\ applicants'[x].status = IF yes THEN "eligible" ELSE "declined"
  BY <1>3, <1>5 DEF Rows
<1>7. yes => EarnedBy(x, i)
  BY <1>2, <1>3, <1>4 DEF EarnedBy, DeniedUnder
<1>8. ASSUME NEW c \in DOMAIN applicants', Counts(applicants'[c].status) PROVE Earned(c)
  <2>1. CASE c = x
    BY <1>6, <1>7, <1>8, <2>1 DEF Earned, Counts
  <2>2. CASE c # x
    BY <1>1, <1>6, <1>8, <2>2 DEF Earned, Pruned
  <2> QED
    BY <2>1, <2>2
<1> QED
  BY <1>8 DEF RowsEarned

LEMMA EarnedStep ==
    ASSUME SpaceTypes, SpaceNext
    PROVE  RowsEarned
<1> DEFINE rows == PruneApplicants(applicants, offers)
<1>1. Pruned(applicants, offers, rows)
  BY PruneFacts
<1>2. \A c \in DOMAIN rows : rows[c] \in Rows
  BY <1>1 DEF Pruned, SpaceTypes, RowsOK
<1>3. CASE applicants' = applicants
  BY <1>3 DEF RowsEarned, Earned
<1>4. CASE Applying
  BY <1>4, EarnedApplying
<1>5. CASE Administering
  <2>1. PICK d \in SpaceDevices, h \in 1..Top : Administers(d, h) /\ Command(d, h)
    BY <1>5, Commands
  <2>2. h \in Nat
    BY HeadFacts DEF SpaceTypes
  <2>3. ASSUME NEW v, NEW asks, Invite(d, h, v, asks) PROVE RowsEarned
    <3>1. applicants' = PruneApplicants(applicants, offers')
      BY <2>3 DEF Invite
    <3> QED
      BY <3>1, EarnedPruned
  <2>4. ASSUME NEW v, RevokeInvitation(d, h, v) PROVE RowsEarned
    <3>1. applicants' = PruneApplicants(applicants, offers')
      BY <2>4 DEF RevokeInvitation
    <3> QED
      BY <3>1, EarnedPruned
  <2>5. ASSUME NEW kind, NEW t, NEW rev, RoleChange(d, h, kind, t, rev) PROVE RowsEarned
    <3>1. \/ applicants' = rows
          \/ applicants' = [c \in DOMAIN rows |->
               IF HolderOf[c] = t THEN [rows[c] EXCEPT !.status = "removed"] ELSE rows[c]]
      BY <2>5 DEF RoleChange
    <3> HIDE DEF rows
    <3>2. DOMAIN applicants' = DOMAIN rows
          /\ \A c \in DOMAIN rows : applicants'[c] = rows[c] \/ applicants'[c].status = "removed"
      BY <1>2, <3>1 DEF Rows
    <3> QED
      BY <1>1, <3>2 DEF RowsEarned, Earned, Pruned, Counts
  <2>6. ASSUME NEW x, NEW signer, RevokeDevice(d, x, signer) PROVE RowsEarned
    BY <1>3, <2>6 DEF RevokeDevice
  <2> QED
    BY <2>1, <2>2, <2>3, <2>4, <2>5, <2>6, DecideEarned DEF Command
<1>6. CASE Retiring
  <2>1. ASSUME NEW d \in SpaceDevices, EraseAccount(d) PROVE RowsEarned
    <3>1. PICK S : applicants' = Only(applicants, S)
      BY <2>1 DEF EraseAccount
    <3> QED
      BY <3>1 DEF Only, RowsEarned, Earned
  <2> QED
    BY <1>3, <1>6, <2>1 DEF Retiring, AbsorbRevocations, RevokedElsewhere
<1>7. CASE Updating
  <2>1. ASSUME NEW d \in SpaceDevices, PublishAuthority(d) PROVE RowsEarned
    <3>1. applicants' = [x \in DOMAIN rows |->
             IF x \in drafts[d].devices /\ rows[x].status = "eligible"
             THEN [rows[x] EXCEPT !.status = "approved"] ELSE rows[x]]
      BY <2>1 DEF PublishAuthority
    <3> HIDE DEF rows
    <3>2. DOMAIN applicants' = DOMAIN rows
          /\ \A c \in DOMAIN rows : applicants'[c] = rows[c] \/ rows[c].status = "eligible"
      BY <3>1
    <3> QED
      BY <1>1, <3>2 DEF RowsEarned, Earned, Pruned, Counts
  <2> QED
    BY <1>3, <1>7, <2>1 DEF Updating, FetchAuthority
<1> QED
  BY <1>4, <1>5, <1>6, <1>7 DEF SpaceNext

LEMMA FreshStep ==
    ASSUME SpaceTypes, LandingInv, KnownInv, FreshInv, SpaceNext
    PROVE  FreshInv'
<1>1. JournalGrows /\ RowsEarned
  BY JournalStep, EarnedStep
<1>2. CASE heads' = heads
  <2>1. Committed' = Committed
    BY <1>2 DEF Committed, Top
  <2>2. ASSUME NEW i \in DOMAIN journal', i > Len(Committed), journal'[i].act = "remove_member"
        PROVE  ShutOut(applicants', journal'[i].obj)
    <3>1. CASE i \notin DOMAIN journal
      <4>1. KnownIntent(journal'[i])
        BY <1>1, <3>1 DEF JournalGrows, NewIntents
      <4> QED
        BY <2>2, <4>1 DEF KnownIntent
    <3>2. CASE i \in DOMAIN journal
      <4>1. journal'[i] = journal[i]
        BY <1>1, <3>2 DEF JournalGrows, Extended
      <4> DEFINE p == journal[i].obj
      <4>2. ShutOut(applicants, p)
        BY <2>2, <3>2, <4>1 DEF FreshInv
      <4>3. p \in DOMAIN removals /\ journal[i].at =< removals[p] /\ journal[i].at > 0
        BY <2>2, <3>2, <4>1 DEF KnownInv
      <4>4. journal[i].at = Top
        BY <2>2, <3>2, <4>3, Uncommitted
      <4>5. removals[p] = Top
        BY <4>3, <4>4, HeadFacts DEF SpaceTypes, RegistryOK
      <4> HIDE DEF p
      <4>6. ASSUME NEW d \in DOMAIN applicants', HolderOf[d] = p, Counts(applicants'[d].status)
            PROVE  FALSE
        <5>1. Earned(d)
          BY <1>1, <4>6 DEF RowsEarned
        <5> QED
          BY <4>2, <4>3, <4>5, <4>6, <5>1 DEF Earned, EarnedBy, ShutOut, Counts
      <4>7. ShutOut(applicants', p)
        BY <4>6 DEF ShutOut, Counts
      <4> QED
        BY <4>1, <4>7 DEF p
    <3> QED
      BY <3>1, <3>2
  <2> QED
    BY <2>1, <2>2 DEF FreshInv
<1>3. ASSUME NEW d \in SpaceDevices, PublishAuthority(d) PROVE FreshInv'
  <2>1. Committed' = journal /\ journal' = journal
    BY <1>3, PublishFacts DEF Committed
  <2>2. \A i \in DOMAIN journal : ~(i > Len(journal))
    BY JournalFacts DEF SpaceTypes
  <2> QED
    BY <2>1, <2>2 DEF FreshInv
<1> QED
  BY <1>2, <1>3, HeadsStep

LEMMA ReadmissionStep ==
    ASSUME SpaceTypes, LandingInv, KnownInv, ReadmissionInv, SpaceNext
    PROVE  ReadmissionInv'
<1>1. JournalGrows /\ RowsEarned
  BY JournalStep, EarnedStep
<1>2. /\ Len(journal) \in Nat /\ DOMAIN journal = 1..Len(journal)
      /\ Len(journal') \in Nat /\ DOMAIN journal' = 1..Len(journal')
      /\ Len(journal') >= Len(journal)
      /\ \A i \in 1..Len(journal) : journal'[i] = journal[i]
  BY <1>1, JournalFacts DEF SpaceTypes, JournalGrows, JournalOK, Extended
<1>3. ASSUME NEW d \in DOMAIN applicants', Counts(applicants'[d].status)
      PROVE  ReadmittedBy(journal', HolderOf[d])
  <2> DEFINE p == HolderOf[d]
  <2>1. Earned(d)
    BY <1>1, <1>3 DEF RowsEarned
  <2>2. ASSUME NEW i \in DOMAIN journal',
               journal'[i].act = "remove_member", journal'[i].obj = p
        PROVE  \E k \in i + 1 .. Len(journal') :
                 /\ journal'[k].act = "decide" /\ journal'[k].yes
                 /\ journal'[k].at # journal'[i].at /\ HolderOf[journal'[k].obj] = p
    <3>1. CASE i \notin DOMAIN journal
      <4>1. KnownIntent(journal'[i])
        BY <1>1, <3>1 DEF JournalGrows, NewIntents
      <4>2. ShutOut(applicants', p)
        BY <2>2, <4>1 DEF KnownIntent
      <4> QED
        BY <1>3, <4>2 DEF ShutOut, Counts
    <3>2. CASE i \in DOMAIN journal
      <4>1. journal'[i] = journal[i]
        BY <1>2, <3>2
      <4>2. p \in DOMAIN removals /\ journal[i].at =< removals[p] /\ journal[i].at > 0
        BY <2>2, <3>2, <4>1 DEF KnownInv
      <4>3. CASE ReadmittedBy(journal, p)
        <5>1. PICK k \in i + 1 .. Len(journal) :
                /\ journal[k].act = "decide" /\ journal[k].yes
                /\ journal[k].at # journal[i].at /\ HolderOf[journal[k].obj] = p
          BY <2>2, <3>2, <4>1, <4>3 DEF ReadmittedBy
        <5>2. k \in i + 1 .. Len(journal') /\ k \in 1..Len(journal)
          BY <1>2, <3>2
        <5>3. journal'[k] = journal[k]
          BY <1>2, <5>2
        <5> QED
          BY <4>1, <5>1, <5>2, <5>3
      <4>4. ASSUME NEW k, EarnedBy(d, k)
            PROVE  /\ k \in i + 1 .. Len(journal')
                   /\ journal'[k].act = "decide" /\ journal'[k].yes
                   /\ journal'[k].at # journal'[i].at /\ HolderOf[journal'[k].obj] = p
        <5>1. /\ heads' = heads /\ k \in DOMAIN journal' /\ journal'[k].at = Top
              /\ removals[p] # Top
          BY <4>2, <4>4 DEF EarnedBy
        <5>2. removals[p] \in 0..Top /\ Top \in Nat /\ journal[i].at \in Nat
          BY <3>2, <4>2, HeadFacts, JournalFacts DEF SpaceTypes, RegistryOK
        <5>3. journal[i].at < Top
          BY <4>2, <5>1, <5>2
        <5>4. i =< Len(Committed) /\ Len(Committed) \in Nat
          BY <3>2, <4>2, <5>3, Uncommitted
        <5>5. k > Len(Committed)
          <6>1. SpaceTypes' /\ LandingInv'
            BY SpaceTypesStep, LandingStep
          <6>2. Committed' = Committed /\ Top' = Top
            BY <5>1 DEF Committed, Top
          <6>3. Landed(k)' /\ Top \in 1..Top
            BY <5>1, <6>1, <5>2, HeadFacts DEF LandingInv, SpaceTypes
          <6>4. k > Len(heads'[journal'[k].at].commit)
            BY <5>1, <5>2, <6>3 DEF Landed, Committing
          <6> QED
            BY <5>1, <6>4 DEF Committed
        <5>6. k \in i + 1 .. Len(journal')
          BY <1>2, <3>2, <5>1, <5>4, <5>5
        <5> QED
          BY <4>1, <4>4, <5>2, <5>3, <5>6 DEF EarnedBy
      <4>5. CASE d \in DOMAIN applicants /\ Counts(applicants[d].status)
        BY <4>3, <4>5 DEF ReadmissionInv
      <4>6. CASE \E c \in DOMAIN applicants :
                   HolderOf[c] = HolderOf[d] /\ applicants[c].status = "approved"
        BY <4>3, <4>6 DEF ReadmissionInv, Counts
      <4>7. CASE \E k : EarnedBy(d, k)
        BY <4>4, <4>7
      <4> QED
        BY <2>1, <4>2, <4>5, <4>6, <4>7 DEF Earned
    <3> QED
      BY <3>1, <3>2
  <2> QED
    BY <2>2 DEF ReadmittedBy
<1> QED
  BY <1>3 DEF ReadmissionInv

\* Nobody comes or stays in a configuration the service accepts whom the journal has
\* taken out, whatever the owner's device made of it.
LEMMA AcceptedFacts ==
    ASSUME SpaceTypes, KnownInv, FreshInv, ReadmissionInv, NEW c \in Drafts, Accepts(c),
           NEW x \in c.devices
    PROVE  /\ ReadmittedBy(journal, HolderOf[x])
           /\ \A i \in DOMAIN journal :
                /\ ~(journal[i].act = "revoked" /\ journal[i].by = x)
                /\ ~(journal[i].act = "deletion" /\ journal[i].obj = HolderOf[x])
                /\ i > Len(Committed) => ~TakesOut(journal[i], x)
<1> DEFINE p == HolderOf[x]
<1>1. /\ p \notin erased
      /\ p \in DOMAIN removals =>
              \E y \in DOMAIN applicants : /\ HolderOf[y] = p
                                           /\ applicants[y].status \in {"eligible", "approved"}
      /\ x \notin revoked
  BY DEF Accepts, AdmitsOnly
<1>2. ReadmittedBy(journal, p)
  <2>1. CASE p \in DOMAIN removals
    BY <1>1, <2>1 DEF ReadmissionInv, Counts
  <2>2. CASE p \notin DOMAIN removals
    BY <2>2 DEF KnownInv, ReadmittedBy
  <2> QED
    BY <2>1, <2>2
<1>3. ASSUME NEW i \in DOMAIN journal
      PROVE  /\ ~(journal[i].act = "revoked" /\ journal[i].by = x)
             /\ ~(journal[i].act = "deletion" /\ journal[i].obj = p)
  BY <1>1 DEF KnownInv
<1>4. ASSUME NEW i \in DOMAIN journal, i > Len(Committed), TakesOut(journal[i], x)
      PROVE  FALSE
  <2>1. journal[i].act = "remove_member" /\ journal[i].obj = p
    BY <1>3, <1>4 DEF TakesOut
  <2>2. ShutOut(applicants, p) /\ p \in DOMAIN removals
    BY <1>4, <2>1 DEF FreshInv, KnownInv
  <2> QED
    BY <1>1, <2>2 DEF ShutOut
<1> QED
  BY <1>2, <1>3, <1>4

LEMMA HeadStep ==
    ASSUME SpaceTypes, KnownInv, FreshInv, ReadmissionInv, HeadInv, SpaceNext
    PROVE  HeadInv'
<1>1. CASE heads' = heads
  <2>1. Committed' = Committed /\ HeadDevices' = HeadDevices
    BY <1>1 DEF Committed, HeadDevices, Top
  <2> QED
    BY <2>1 DEF HeadInv, ReadmittedBy
<1>2. ASSUME NEW d \in SpaceDevices, PublishAuthority(d) PROVE HeadInv'
  <2>1. /\ Committed' = journal /\ HeadDevices' = drafts[d].devices
        /\ drafts[d] \in Drafts /\ Accepts(drafts[d])
    BY <1>2, PublishFacts DEF Committed, HeadDevices
  <2>2. \A x \in drafts[d].devices : ReadmittedBy(journal, HolderOf[x])
    BY <2>1, AcceptedFacts
  <2> QED
    BY <2>1, <2>2 DEF HeadInv
<1> QED
  BY <1>1, <1>2, HeadsStep

LEMMA GateFromInv ==
    ASSUME SpaceTypes, LandingInv, GateInv
    PROVE  SpaceSound
<1>1. ASSUME NEW d \in AccessDevices
      PROVE  /\ \A i \in DOMAIN journal :
                  ~(journal[i].act = "revoked" /\ journal[i].by = d)
                  /\ ~(journal[i].act = "deletion" /\ journal[i].obj = HolderOf[d])
             /\ ReadmittedBy(Committed, HolderOf[d])
             /\ \A i \in Len(Committed) + 1 .. Len(journal) : ~TakesOut(journal[i], d)
  <2>1. d \in HeadDevices \ revoked /\ HolderOf[d] \notin erased /\ ~RemovalBlocks(HolderOf[d])
    BY DEF AccessDevices
  <2>2. \A i \in DOMAIN journal :
           /\ ~(journal[i].act = "revoked" /\ journal[i].by = d)
           /\ ~(journal[i].act = "deletion" /\ journal[i].obj = HolderOf[d])
    BY <2>1 DEF GateInv, KnownInv
  <2>3. ReadmittedBy(Committed, HolderOf[d])
    BY <2>1 DEF GateInv, HeadInv
  <2>4. ASSUME NEW i \in Len(Committed) + 1 .. Len(journal), TakesOut(journal[i], d) PROVE FALSE
    <3>1. Committed \in Seq(Intents) /\ Len(Committed) \in Nat
      BY TopFields DEF SpaceTypes
    <3>2. i \in DOMAIN journal /\ i > Len(Committed)
      BY <3>1, JournalFacts DEF SpaceTypes
    <3>3. journal[i].act = "remove_member" /\ journal[i].obj = HolderOf[d]
      BY <2>2, <2>4, <3>2 DEF TakesOut
    <3>4. ShutOut(applicants, HolderOf[d]) /\ HolderOf[d] \in DOMAIN removals
      BY <3>2, <3>3 DEF GateInv, FreshInv, KnownInv
    <3> QED
      BY <2>1, <3>4 DEF ShutOut, RemovalBlocks
  <2> QED
    BY <2>2, <2>3, <2>4
<1>2. GateClosed
  BY <1>1 DEF GateClosed
<1>3. SpaceTypeOK
  <2>1. \A h \in DOMAIN heads : heads[h].devices \subseteq SpaceDevices /\ heads[h].owners \subseteq Persons
    BY HeadFacts, HeadFields DEF SpaceTypes
  <2> QED
    BY <2>1 DEF SpaceTypeOK, SpaceTypes, JournalOK, OffersOK, RowsOK, RegistryOK
<1> QED
  BY <1>2, <1>3 DEF SpaceSound

-----------------------------------------------------------------------------
(* What a configuration changes, the intents it commits explain.            *)

\* An intent that is not yet committed.
IntentPending(act, p) ==
    \E i \in DOMAIN journal : i > Len(Committed) /\ journal[i].act = act /\ journal[i].obj = p

RetirementPending(x) ==
    \E i \in DOMAIN journal : i > Len(Committed) /\ journal[i].act = "revoked" /\ journal[i].by = x

HasApproved(rows, p) == \E d \in DOMAIN rows : HolderOf[d] = p /\ rows[d].status = "approved"

LiveRows(rows, f) ==
    \A d \in DOMAIN rows :
        rows[d].status \in {"pending", "eligible"} /\ rows[d].offer # NoInvitation
           => LiveOffer(f, rows[d].offer)

RequestsLive == LiveRows(applicants, offers)

RevokedInv == \A x \in HeadDevices : x \in revoked => RetirementPending(x)

BlockedInv ==
    \A x \in HeadDevices :
        HolderOf[x] \in DOMAIN removals /\ HolderOf[x] \notin erased
           => HasApproved(applicants, HolderOf[x]) \/ IntentPending("remove_member", HolderOf[x])

ErasedInv ==
    \A x \in HeadDevices :
        HolderOf[x] \in erased
           => IntentPending("deletion", HolderOf[x]) \/ IntentPending("remove_member", HolderOf[x])

OwnerChangePending(p) ==
    \E i \in DOMAIN journal : /\ i > Len(Committed) /\ journal[i].act \in RoleKinds
                              /\ journal[i].obj = p /\ HolderOf[journal[i].by] = Primary

OwnersInv ==
    /\ Primary \in roles.owners
    /\ \A p \in (roles.owners \ heads[Top].owners) \cup (heads[Top].owners \ roles.owners) :
         OwnerChangePending(p)

ChangesInv == RequestsLive /\ RevokedInv /\ BlockedInv /\ ErasedInv /\ OwnersInv

\* What is pending stays so while the configuration stands, and new intents are pending.
StillPending ==
    /\ \A i \in DOMAIN journal : i > Len(Committed) =>
         i \in DOMAIN journal' /\ i > Len(Committed') /\ journal'[i] = journal[i]
    /\ \A i \in NewIntents : i \in DOMAIN journal' /\ i > Len(Committed')

LEMMA PendingKept ==
    ASSUME SpaceTypes, LandingInv, SpaceNext, heads' = heads
    PROVE  StillPending
<1>1. Committed' = Committed
  BY DEF Committed, Top
<1>2. JournalGrows
  BY JournalStep
<1>3. Len(Committed) \in Nat /\ Len(Committed) =< Len(journal)
  <2>1. Top \in 1..Top /\ HeadsOK
    BY HeadFacts DEF SpaceTypes
  <2> QED
    BY <2>1, CommittingFacts DEF LandingInv, CommitsOK, Committed, Committing
<1>4. /\ Len(journal) \in Nat /\ DOMAIN journal = 1..Len(journal)
      /\ Len(journal') \in Nat /\ DOMAIN journal' = 1..Len(journal')
  BY <1>2, JournalFacts DEF SpaceTypes, JournalGrows, JournalOK
<1>5. \A i \in NewIntents : i \in DOMAIN journal' /\ i > Len(Committed)
  BY <1>3, <1>4 DEF NewIntents
<1>6. \A i \in DOMAIN journal : i \in DOMAIN journal' /\ journal'[i] = journal[i]
  BY <1>2 DEF JournalGrows, Extended
<1> QED
  BY <1>1, <1>5, <1>6 DEF StillPending

LEMMA PendingMoves ==
    ASSUME StillPending
    PROVE  /\ \A act, p : IntentPending(act, p) => IntentPending(act, p)'
           /\ \A x : RetirementPending(x) => RetirementPending(x)'
           /\ \A p : OwnerChangePending(p) => OwnerChangePending(p)'
<1>1. ASSUME NEW act, NEW p, IntentPending(act, p) PROVE IntentPending(act, p)'
  <2>1. PICK i \in DOMAIN journal : i > Len(Committed) /\ journal[i].act = act /\ journal[i].obj = p
    BY <1>1 DEF IntentPending
  <2>2. i \in DOMAIN journal' /\ i > Len(Committed') /\ journal'[i] = journal[i]
    BY <2>1 DEF StillPending
  <2> QED
    BY <2>1, <2>2 DEF IntentPending
<1>2. ASSUME NEW x, RetirementPending(x) PROVE RetirementPending(x)'
  <2>1. PICK i \in DOMAIN journal : i > Len(Committed) /\ journal[i].act = "revoked" /\ journal[i].by = x
    BY <1>2 DEF RetirementPending
  <2>2. i \in DOMAIN journal' /\ i > Len(Committed') /\ journal'[i] = journal[i]
    BY <2>1 DEF StillPending
  <2> QED
    BY <2>1, <2>2 DEF RetirementPending
<1>3. ASSUME NEW p, OwnerChangePending(p) PROVE OwnerChangePending(p)'
  <2>1. PICK i \in DOMAIN journal :
            /\ i > Len(Committed) /\ journal[i].act \in RoleKinds
            /\ journal[i].obj = p /\ HolderOf[journal[i].by] = Primary
    BY <1>3 DEF OwnerChangePending
  <2>2. i \in DOMAIN journal' /\ i > Len(Committed') /\ journal'[i] = journal[i]
    BY <2>1 DEF StillPending
  <2> QED
    BY <2>1, <2>2 DEF OwnerChangePending
<1> QED
  BY <1>1, <1>2, <1>3

LEMMA LiveStep ==
    ASSUME SpaceTypes, RequestsLive, SpaceNext
    PROVE  RequestsLive'
<1> DEFINE rows == PruneApplicants(applicants, offers)
<1>1. Pruned(applicants, offers, rows)
  BY PruneFacts
<1>2. \A c \in DOMAIN rows : rows[c] \in Rows
  BY <1>1 DEF Pruned, SpaceTypes, RowsOK
<1>3. CASE UNCHANGED <<applicants, offers>>
  BY <1>3 DEF RequestsLive, LiveRows, LiveOffer
<1>4. ASSUME NEW r, applicants' = PruneApplicants(r, offers') PROVE RequestsLive'
  BY <1>4, PruneFacts DEF RequestsLive, LiveRows, Pruned, LiveOffer
<1>5. LiveRows(rows, offers)
  BY <1>1 DEF LiveRows, Pruned
<1>6. CASE Applying
  <2>1. ASSUME NEW d \in SpaceDevices, NEW v \in Invitations, Join(d, v) PROVE RequestsLive'
    <3>1. PICK st : applicants' = With(rows, d, Row(st, v, 0)) /\ LiveOffer(offers, v) /\ offers' = offers
      BY <2>1 DEF Join
    <3> HIDE DEF rows
    <3> QED
      BY <1>5, <3>1 DEF RequestsLive, LiveRows, With, Row
  <2>2. ASSUME NEW d \in SpaceDevices, Status(d) PROVE RequestsLive'
    <3>1. PICK st : applicants' = With(rows, d, Row(st, NoInvitation, 0)) /\ offers' = offers
      BY <2>2 DEF Status
    <3> HIDE DEF rows
    <3> QED
      BY <1>5, <3>1 DEF RequestsLive, LiveRows, With, Row
  <2>3. ASSUME NEW v, OfferExpires(v) PROVE RequestsLive'
    <3>1. applicants' = PruneApplicants(applicants, offers')
      BY <2>3 DEF OfferExpires
    <3> QED
      BY <1>4, <3>1
  <2>4. ASSUME NEW d, RequestExpires(d) PROVE RequestsLive'
    <3>1. PICK r : applicants' = PruneApplicants(r, offers')
      BY <2>4 DEF RequestExpires
    <3> QED
      BY <1>4, <3>1
  <2> QED
    BY <1>6, <2>1, <2>2, <2>3, <2>4 DEF Applying
<1>7. CASE Administering
  <2>1. PICK d \in SpaceDevices, h \in 1..Top : Command(d, h)
    BY <1>7, Commands
  <2>2. ASSUME NEW v, NEW asks, Invite(d, h, v, asks) PROVE RequestsLive'
    <3>1. applicants' = PruneApplicants(applicants, offers')
      BY <2>2 DEF Invite
    <3> QED
      BY <1>4, <3>1
  <2>3. ASSUME NEW v, RevokeInvitation(d, h, v) PROVE RequestsLive'
    <3>1. applicants' = PruneApplicants(applicants, offers')
      BY <2>3 DEF RevokeInvitation
    <3> QED
      BY <1>4, <3>1
  <2>4. ASSUME NEW x, NEW yes, NEW i, Decide(d, h, x, yes, i) PROVE RequestsLive'
    <3>1. PICK st : /\ applicants' = [rows EXCEPT ![x].status = st, ![x].proof = i]
                    /\ x \in DOMAIN rows /\ applicants[x].status = "pending" /\ offers' = offers
      BY <2>4 DEF Decide
    <3>2. rows[x].status = "pending"
      BY <1>1, <3>1 DEF Pruned
    <3> HIDE DEF rows
    <3>3. applicants'[x].offer = rows[x].offer /\ DOMAIN applicants' = DOMAIN rows
          /\ \A c \in DOMAIN rows : c # x => applicants'[c] = rows[c]
      BY <1>2, <3>1 DEF Rows
    <3> QED
      BY <1>5, <3>1, <3>2, <3>3 DEF RequestsLive, LiveRows
  <2>5. ASSUME NEW kind, NEW t, NEW rev, RoleChange(d, h, kind, t, rev) PROVE RequestsLive'
    <3>1. /\ offers' = offers
          /\ \/ applicants' = rows
             \/ applicants' = [c \in DOMAIN rows |->
                 IF HolderOf[c] = t THEN [rows[c] EXCEPT !.status = "removed"] ELSE rows[c]]
      BY <2>5 DEF RoleChange
    <3> HIDE DEF rows
    <3>2. DOMAIN applicants' = DOMAIN rows
          /\ \A c \in DOMAIN rows : applicants'[c] = rows[c] \/ applicants'[c].status = "removed"
      BY <1>2, <3>1 DEF Rows
    <3> QED
      BY <1>5, <3>1, <3>2 DEF RequestsLive, LiveRows
  <2>6. ASSUME NEW x, NEW signer, RevokeDevice(d, x, signer) PROVE RequestsLive'
    BY <1>3, <2>6 DEF RevokeDevice
  <2> QED
    BY <2>1, <2>2, <2>3, <2>4, <2>5, <2>6 DEF Command
<1>8. CASE Retiring
  <2>1. ASSUME NEW d, EraseAccount(d) PROVE RequestsLive'
    <3>1. PICK S : applicants' = Only(applicants, S) /\ offers' = offers
      BY <2>1 DEF EraseAccount
    <3> QED
      BY <3>1 DEF RequestsLive, LiveRows, Only
  <2> QED
    BY <1>3, <1>8, <2>1 DEF Retiring, AbsorbRevocations, RevokedElsewhere
<1>9. CASE Updating
  <2>1. ASSUME NEW d, PublishAuthority(d) PROVE RequestsLive'
    <3>1. /\ offers' = offers
          /\ applicants' = [x \in DOMAIN rows |->
             IF x \in drafts[d].devices /\ rows[x].status = "eligible"
             THEN [rows[x] EXCEPT !.status = "approved"] ELSE rows[x]]
      BY <2>1 DEF PublishAuthority
    <3> HIDE DEF rows
    <3>2. DOMAIN applicants' = DOMAIN rows
          /\ \A c \in DOMAIN rows : applicants'[c] = rows[c] \/ applicants'[c].status = "approved"
      BY <1>2, <3>1 DEF Rows
    <3> QED
      BY <1>5, <3>1, <3>2 DEF RequestsLive, LiveRows
  <2> QED
    BY <1>3, <1>9, <2>1 DEF Updating, FetchAuthority
<1> QED
  BY <1>6, <1>7, <1>8, <1>9 DEF SpaceNext

LEMMA RevokedStep ==
    ASSUME SpaceTypes, LandingInv, RevokedInv, SpaceNext
    PROVE  RevokedInv'
<1>1. CASE heads' = heads
  <2>1. HeadDevices' = HeadDevices /\ StillPending
    BY <1>1, PendingKept DEF HeadDevices, Top
  <2>2. \A x : RetirementPending(x) => RetirementPending(x)'
    BY <2>1, PendingMoves
  <2>3. ASSUME NEW x \in revoked' \ revoked PROVE RetirementPending(x)'
    <3>1. ASSUME NEW i \in NewIntents, journal'[i].act = "revoked", journal'[i].by = x
          PROVE  RetirementPending(x)'
      BY <2>1, <3>1 DEF StillPending, RetirementPending
    <3>2. CASE AbsorbRevocations
      <4>1. /\ revoked' = revoked \cup Unseen
            /\ \A y \in Unseen : \E i \in NewIntents : journal'[i].by = y
            /\ \A i \in NewIntents : journal'[i].act = "revoked"
        BY <3>2, AbsorbFacts
      <4> QED
        BY <3>1, <4>1
    <3>3. ASSUME NEW d \in SpaceDevices, NEW y \in SpaceDevices,
                 NEW signer \in SpaceDevices \cup {NoDevice}, RevokeDevice(d, y, signer)
          PROVE  RetirementPending(x)'
      <4> DEFINE e == RevocationIntent(y, signer)
      <4>1. e \in Intents /\ e.act = "revoked" /\ e.by = y
        BY DEF RevocationIntent, Intent, Intents, Acts, IntentObjects
      <4> HIDE DEF e
      <4>2. Journals(e) /\ revoked' = revoked \cup {y} /\ JournalOK
        BY <3>3 DEF RevokeDevice, e, SpaceTypes
      <4>3. Len(journal) + 1 \in NewIntents /\ journal'[Len(journal) + 1] = e
        BY <4>1, <4>2, JournalsFacts
      <4> QED
        BY <3>1, <4>1, <4>2, <4>3
    <3>4. CASE Applying
      BY <3>4 DEF Applying, Join, Status, OfferExpires, RequestExpires
    <3>5. CASE Administering
      <4>1. PICK d \in SpaceDevices, h \in 1..Top : Command(d, h)
        BY <3>5, Commands
      <4> QED
        BY <3>3, <4>1 DEF Command, Invite, RevokeInvitation, Decide, RoleChange
    <3>6. CASE Retiring
      BY <3>2, <3>6 DEF Retiring, RevokedElsewhere, EraseAccount
    <3>7. CASE Updating
      BY <3>7 DEF Updating, FetchAuthority, PublishAuthority
    <3> QED
      BY <3>4, <3>5, <3>6, <3>7 DEF SpaceNext
  <2> QED
    BY <2>1, <2>2, <2>3 DEF RevokedInv
<1>2. ASSUME NEW d \in SpaceDevices, PublishAuthority(d) PROVE RevokedInv'
  <2>1. HeadDevices' = drafts[d].devices /\ Accepts(drafts[d]) /\ revoked' = revoked
    BY <1>2, PublishFacts DEF HeadDevices, PublishAuthority
  <2> QED
    BY <2>1 DEF RevokedInv, Accepts, AdmitsOnly
<1> QED
  BY <1>1, <1>2, HeadsStep

\* A new removal or an approved request that is lost has its reason in the same step.
RemovalJournaled(p) ==
    \E i \in NewIntents : journal'[i].act = "remove_member" /\ journal'[i].obj = p

LEMMA ReasonsStep ==
    ASSUME SpaceTypes, SpaceNext, NEW p
    PROVE  /\ p \in DOMAIN removals' /\ p \notin DOMAIN removals
                => p \in erased' \/ RemovalJournaled(p)
           /\ HasApproved(applicants, p)
                => HasApproved(applicants', p) \/ p \in erased' \/ RemovalJournaled(p)
<1> DEFINE rows == PruneApplicants(applicants, offers)
           Goal == /\ p \in DOMAIN removals' /\ p \notin DOMAIN removals
                         => p \in erased' \/ RemovalJournaled(p)
                   /\ HasApproved(applicants, p)
                         => HasApproved(applicants', p) \/ p \in erased' \/ RemovalJournaled(p)
<1> SUFFICES Goal
  OBVIOUS
<1>1. Pruned(applicants, offers, rows) /\ \A c \in DOMAIN rows : rows[c] \in Rows
  BY PruneFacts DEF Pruned, SpaceTypes, RowsOK
<1>2. CASE UNCHANGED <<removals, applicants>>
  BY <1>2 DEF HasApproved
<1>3. ASSUME NEW f, applicants' = PruneApplicants(applicants, f), removals' = removals PROVE Goal
  BY <1>3, PruneFacts DEF Pruned, HasApproved
<1>4. CASE Applying
  <2>1. ASSUME NEW d, NEW v, Join(d, v) PROVE Goal
    <3>1. PICK st : applicants' = With(rows, d, Row(st, v, 0)) /\ removals' = removals
                    /\ (d \in DOMAIN rows => rows[d].status \in {"removed", "declined"})
      BY <2>1 DEF Join
    <3> HIDE DEF rows
    <3> QED
      BY <1>1, <3>1 DEF HasApproved, Pruned, With
  <2>2. ASSUME NEW d, Status(d) PROVE Goal
    <3>1. PICK st : applicants' = With(rows, d, Row(st, NoInvitation, 0)) /\ removals' = removals
                    /\ d \notin DOMAIN rows
      BY <2>2 DEF Status
    <3> HIDE DEF rows
    <3> QED
      BY <1>1, <3>1 DEF HasApproved, Pruned, With
  <2>3. ASSUME NEW v, OfferExpires(v) PROVE Goal
    BY <1>3, <2>3 DEF OfferExpires
  <2>4. ASSUME NEW d \in SpaceDevices, RequestExpires(d) PROVE Goal
    <3> DEFINE r == Only(applicants, SpaceDevices \ {d})
    <3>1. /\ applicants' = PruneApplicants(r, offers) /\ removals' = removals
          /\ applicants[d].status \in {"pending", "eligible"}
      BY <2>4 DEF RequestExpires
    <3>2. \A c \in DOMAIN applicants : applicants[c].status = "approved" =>
             c \in DOMAIN r /\ r[c] = applicants[c]
      BY <3>1 DEF Only, SpaceTypes, RowsOK
    <3> HIDE DEF r
    <3>3. Pruned(r, offers, applicants')
      BY <3>1, PruneFacts
    <3> QED
      BY <3>1, <3>2, <3>3 DEF HasApproved, Pruned
  <2> QED
    BY <1>4, <2>1, <2>2, <2>3, <2>4 DEF Applying
<1>5. CASE Administering
  <2>1. PICK d \in SpaceDevices, h \in 1..Top : Administers(d, h) /\ Command(d, h)
    BY <1>5, Commands
  <2>2. ASSUME NEW v, NEW asks, Invite(d, h, v, asks) PROVE Goal
    BY <1>3, <2>2 DEF Invite
  <2>3. ASSUME NEW v, RevokeInvitation(d, h, v) PROVE Goal
    BY <1>3, <2>3 DEF RevokeInvitation
  <2>4. ASSUME NEW x, NEW yes, NEW i, Decide(d, h, x, yes, i) PROVE Goal
    <3>1. PICK st : /\ applicants' = [rows EXCEPT ![x].status = st, ![x].proof = i]
                    /\ applicants[x].status = "pending" /\ removals' = removals
      BY <2>4 DEF Decide
    <3> HIDE DEF rows
    <3> QED
      BY <1>1, <3>1 DEF HasApproved, Pruned
  <2>5. ASSUME NEW kind \in RoleKinds, NEW t \in Persons, NEW rev \in 0..roles.revision,
               RoleChange(d, h, kind, t, rev)
        PROVE  Goal
    <3> DEFINE e == Intent(kind, d, h, t, TRUE, rev)
    <3>1. rev \in Nat /\ h \in Nat
      BY HeadFacts DEF SpaceTypes, RegistryOK
    <3>2. e \in Intents /\ e.act = kind /\ e.obj = t
      BY <3>1 DEF Intent, Intents, Acts, IntentObjects
    <3> HIDE DEF e
    <3>3. Journals(e) /\ JournalOK
      BY <2>5 DEF RoleChange, e, SpaceTypes
    <3>4. Len(journal) + 1 \in NewIntents /\ journal'[Len(journal) + 1] = e
      BY <3>2, <3>3, JournalsFacts
    <3>5. CASE kind = "remove_member" /\ p = t
      BY <3>2, <3>4, <3>5 DEF RemovalJournaled
    <3>6. CASE kind # "remove_member"
      BY <1>3, <2>5, <3>6 DEF RoleChange
    <3>7. CASE kind = "remove_member" /\ p # t
      <4>1. /\ removals' = With(removals, t, Top)
            /\ applicants' = [c \in DOMAIN rows |->
                 IF HolderOf[c] = t THEN [rows[c] EXCEPT !.status = "removed"] ELSE rows[c]]
        BY <2>5, <3>7 DEF RoleChange
      <4> HIDE DEF rows
      <4>2. DOMAIN removals' = DOMAIN removals \cup {t}
        BY <4>1 DEF With
      <4>3. HasApproved(applicants, p) => HasApproved(applicants', p)
        BY <1>1, <3>7, <4>1 DEF HasApproved, Pruned
      <4> QED
        BY <3>7, <4>2, <4>3
    <3> QED
      BY <3>5, <3>6, <3>7
  <2>6. ASSUME NEW x, NEW signer, RevokeDevice(d, x, signer) PROVE Goal
    BY <1>2, <2>6 DEF RevokeDevice
  <2> HIDE DEF Goal
  <2> QED
    BY <2>1, <2>2, <2>3, <2>4, <2>5, <2>6 DEF Command
<1>6. CASE Retiring
  <2>1. ASSUME NEW d, EraseAccount(d) PROVE Goal
    <3> DEFINE q == HolderOf[d]
    <3>1. /\ erased' = erased \cup {q}
          /\ removals' = removals \/ removals' = With(removals, q, 0)
          /\ applicants' = Only(applicants, {c \in SpaceDevices : HolderOf[c] # q})
      BY <2>1 DEF EraseAccount
    <3> HIDE DEF q
    <3>2. DOMAIN removals' \subseteq DOMAIN removals \cup {q}
      BY <3>1 DEF With
    <3>3. p # q /\ HasApproved(applicants, p) => HasApproved(applicants', p)
      BY <3>1 DEF HasApproved, Only, SpaceTypes, RowsOK
    <3> QED
      BY <3>1, <3>2, <3>3
  <2> HIDE DEF Goal
  <2> QED
    BY <1>2, <1>6, <2>1 DEF Retiring, AbsorbRevocations, RevokedElsewhere
<1>7. CASE Updating
  <2>1. ASSUME NEW d, PublishAuthority(d) PROVE Goal
    <3>1. /\ removals' = removals
          /\ applicants' = [x \in DOMAIN rows |->
             IF x \in drafts[d].devices /\ rows[x].status = "eligible"
             THEN [rows[x] EXCEPT !.status = "approved"] ELSE rows[x]]
      BY <2>1 DEF PublishAuthority
    <3> HIDE DEF rows
    <3> QED
      BY <1>1, <3>1 DEF HasApproved, Pruned
  <2> HIDE DEF Goal
  <2> QED
    BY <1>2, <1>7, <2>1 DEF Updating, FetchAuthority
<1> QED
  BY <1>4, <1>5, <1>6, <1>7 DEF SpaceNext

LEMMA BlockedStep ==
    ASSUME SpaceTypes, LandingInv, GateInv, RequestsLive, BlockedInv, SpaceNext
    PROVE  BlockedInv'
<1>1. CASE heads' = heads
  <2>1. HeadDevices' = HeadDevices /\ StillPending
    BY <1>1, PendingKept DEF HeadDevices, Top
  <2>2. ASSUME NEW x \in HeadDevices, HolderOf[x] \in DOMAIN removals', HolderOf[x] \notin erased'
        PROVE  HasApproved(applicants', HolderOf[x]) \/ IntentPending("remove_member", HolderOf[x])'
    <3> DEFINE p == HolderOf[x]
    <3>1. RemovalJournaled(p) => IntentPending("remove_member", p)'
      BY <2>1 DEF RemovalJournaled, StillPending, IntentPending
    <3>2. IntentPending("remove_member", p) => IntentPending("remove_member", p)'
      BY <2>1, PendingMoves
    <3>3. p \in DOMAIN removals \/ RemovalJournaled(p)
      BY <2>2, ReasonsStep
    <3>4. HasApproved(applicants, p) => HasApproved(applicants', p) \/ RemovalJournaled(p)
      BY <2>2, ReasonsStep
    <3>5. p \notin erased
      BY <2>2, JournalStep DEF JournalGrows
    <3> QED
      BY <3>1, <3>2, <3>3, <3>4, <3>5 DEF BlockedInv
  <2> QED
    BY <2>1, <2>2 DEF BlockedInv
<1>2. ASSUME NEW d \in SpaceDevices, PublishAuthority(d) PROVE BlockedInv'
  <2> DEFINE c == drafts[d]
             rows == PruneApplicants(applicants, offers)
  <2>1. /\ HeadDevices' = c.devices /\ c \in Drafts /\ Accepts(c) /\ journal' = journal
        /\ erased' = erased /\ removals' = removals
        /\ applicants' = [y \in DOMAIN rows |->
             IF y \in c.devices /\ rows[y].status = "eligible"
             THEN [rows[y] EXCEPT !.status = "approved"] ELSE rows[y]]
    BY <1>2, PublishFacts DEF HeadDevices, PublishAuthority
  <2>2. Pruned(applicants, offers, rows) /\ \A y \in DOMAIN rows : rows[y] \in Rows
    BY PruneFacts DEF Pruned, SpaceTypes, RowsOK
  <2> HIDE DEF rows, c
  <2>3. ASSUME NEW x \in c.devices, HolderOf[x] \in DOMAIN removals, HolderOf[x] \notin erased
        PROVE  HasApproved(applicants', HolderOf[x])
    <3> DEFINE p == HolderOf[x]
    <3>1. CASE \E z \in HeadDevices : HolderOf[z] = p
      <4>1. HasApproved(applicants, p) \/ IntentPending("remove_member", p)
        BY <2>3, <3>1 DEF BlockedInv
      <4>2. ~IntentPending("remove_member", p)
        <5>1. \A i \in DOMAIN journal : i > Len(Committed) => ~TakesOut(journal[i], x)
          BY <2>1, <2>3, AcceptedFacts DEF GateInv
        <5> QED
          BY <5>1 DEF IntentPending, TakesOut
      <4>3. ~RemovalJournaled(p)
        BY <2>1 DEF RemovalJournaled, NewIntents
      <4> QED
        BY <4>1, <4>2, <4>3, <2>1, <2>3, ReasonsStep
    <3>2. CASE ~\E z \in HeadDevices : HolderOf[z] = p
      <4>1. x \in SpaceDevices
        BY <2>1 DEF Drafts
      <4>2. x \notin HeadDevices
        BY <3>2
      <4>3. LinkedBy[x] # NoDevice => LinkedBy[x] \in HeadDevices
        BY <2>1, <4>2 DEF Accepts, AdmitsOnly
      <4>4. LinkedBy[x] = NoDevice
        BY <3>2, <4>1, <4>3, SpaceAssumption
      <4>5. x \in DOMAIN applicants /\ applicants[x].status = "eligible"
        BY <2>1, <4>2, <4>4 DEF Accepts, AdmitsOnly
      <4>6. applicants[x].offer = NoInvitation \/ LiveOffer(offers, applicants[x].offer)
        BY <4>5 DEF RequestsLive, LiveRows
      <4>7. x \in DOMAIN rows /\ rows[x].status = "eligible"
        BY <2>2, <4>5, <4>6 DEF Pruned
      <4>8. x \in DOMAIN applicants' /\ applicants'[x].status = "approved"
        BY <2>1, <2>2, <4>7 DEF Rows
      <4> QED
        BY <4>8 DEF HasApproved
    <3> QED
      BY <3>1, <3>2
  <2> QED
    BY <2>1, <2>3 DEF BlockedInv
<1> QED
  BY <1>1, <1>2, HeadsStep

LEMMA ErasedStep ==
    ASSUME SpaceTypes, LandingInv, BlockedInv, ErasedInv, SpaceNext
    PROVE  ErasedInv'
<1>1. CASE heads' = heads
  <2>1. HeadDevices' = HeadDevices /\ StillPending
    BY <1>1, PendingKept DEF HeadDevices, Top
  <2>2. \A act, p : IntentPending(act, p) => IntentPending(act, p)'
    BY <2>1, PendingMoves
  <2>3. ASSUME NEW x \in HeadDevices, HolderOf[x] \in erased' \ erased
        PROVE  IntentPending("deletion", HolderOf[x])' \/ IntentPending("remove_member", HolderOf[x])'
    <3> DEFINE p == HolderOf[x]
    <3>1. \E d \in SpaceDevices : EraseAccount(d) /\ HolderOf[d] = p
      <4>1. CASE Applying
        BY <2>3, <4>1 DEF Applying, Join, Status, OfferExpires, RequestExpires
      <4>2. CASE Administering
        <5>1. PICK d \in SpaceDevices, h \in 1..Top : Command(d, h)
          BY <4>2, Commands
        <5> QED
          BY <2>3, <5>1 DEF Command, Invite, RevokeInvitation, Decide, RoleChange, RevokeDevice
      <4>3. CASE Retiring
        <5>1. \E d \in SpaceDevices : EraseAccount(d)
          BY <2>3, <4>3 DEF Retiring, AbsorbRevocations, RevokedElsewhere
        <5> QED
          BY <2>3, <5>1 DEF EraseAccount
      <4>4. CASE Updating
        BY <2>3, <4>4 DEF Updating, FetchAuthority, PublishAuthority
      <4> QED
        BY <4>1, <4>2, <4>3, <4>4 DEF SpaceNext
    <3>2. PICK d \in SpaceDevices : EraseAccount(d) /\ HolderOf[d] = p
      BY <3>1
    <3> DEFINE e == Intent("deletion", d, 0, p, TRUE, 0)
    <3>3. e \in Intents /\ e.act = "deletion" /\ e.obj = p
      BY <3>2, SpaceAssumption DEF Intent, Intents, Acts, IntentObjects
    <3> HIDE DEF e
    <3>4. Journals(e) \/ p \notin Held(HeadDevices) \/ RemovalBlocks(p)
      BY <3>2 DEF EraseAccount, e
    <3>5. CASE Journals(e)
      <4>1. Len(journal) + 1 \in NewIntents /\ journal'[Len(journal) + 1] = e
        BY <3>3, <3>5, JournalsFacts DEF SpaceTypes
      <4> QED
        BY <2>1, <3>3, <4>1 DEF StillPending, IntentPending
    <3>6. CASE RemovalBlocks(p)
      BY <2>2, <2>3, <3>6 DEF BlockedInv, RemovalBlocks, HasApproved
    <3>7. p \in Held(HeadDevices)
      BY DEF Held
    <3> QED
      BY <3>4, <3>5, <3>6, <3>7
  <2> QED
    BY <2>1, <2>2, <2>3 DEF ErasedInv
<1>2. ASSUME NEW d \in SpaceDevices, PublishAuthority(d) PROVE ErasedInv'
  <2>1. HeadDevices' = drafts[d].devices /\ Accepts(drafts[d]) /\ erased' = erased
    BY <1>2, PublishFacts DEF HeadDevices, PublishAuthority
  <2> QED
    BY <2>1 DEF ErasedInv, Accepts, AdmitsOnly
<1> QED
  BY <1>1, <1>2, HeadsStep

LEMMA OwnersStep ==
    ASSUME SpaceTypes, LandingInv, OwnersInv, SpaceNext
    PROVE  OwnersInv'
<1>1. ASSUME heads' = heads, roles' = roles PROVE OwnersInv'
  <2>1. \A p : OwnerChangePending(p) => OwnerChangePending(p)'
    BY <1>1, PendingKept, PendingMoves
  <2> QED
    BY <1>1, <2>1 DEF OwnersInv, Top
<1>2. ASSUME NEW d \in SpaceDevices, NEW h \in 1..Top, NEW kind \in RoleKinds, NEW t \in Persons,
             NEW rev \in 0..roles.revision, RoleChange(d, h, kind, t, rev)
      PROVE  OwnersInv'
  <2> DEFINE e == Intent(kind, d, h, t, TRUE, rev)
  <2>1. rev \in Nat /\ h \in Nat
    BY HeadFacts DEF SpaceTypes, RegistryOK
  <2>2. e \in Intents /\ e.act = kind /\ e.obj = t /\ e.by = d
    BY <2>1 DEF Intent, Intents, Acts, IntentObjects
  <2> HIDE DEF e
  <2>3. /\ Journals(e) /\ JournalOK /\ heads' = heads
        /\ roles'.owners = Changed(kind, t, roles.owners)
        /\ ChangeAllowed(kind, HolderOf[d], t, roles.owners)
    BY <1>2 DEF RoleChange, e, SpaceTypes
  <2>4. Len(journal) + 1 \in NewIntents /\ journal'[Len(journal) + 1] = e
    BY <2>2, <2>3, JournalsFacts
  <2>5. StillPending
    BY <2>3, PendingKept
  <2>6. \A p : OwnerChangePending(p) => OwnerChangePending(p)'
    BY <2>5, PendingMoves
  <2>7. HolderOf[d] = Primary => OwnerChangePending(t)'
    BY <2>2, <2>4, <2>5 DEF StillPending, OwnerChangePending
  <2>8. \A p : p # t => (p \in roles'.owners <=> p \in roles.owners)
    BY <2>3 DEF Changed
  <2>9. HolderOf[d] # Primary => roles'.owners = roles.owners
    BY <2>3 DEF Changed, ChangeAllowed, RoleKinds
  <2>10. Primary \in roles'.owners
    BY <2>3 DEF Changed, ChangeAllowed, OwnersInv
  <2>11. heads'[Top'].owners = heads[Top].owners
    BY <2>3 DEF Top
  <2>12. ASSUME NEW p \in (roles'.owners \ heads[Top].owners) \cup (heads[Top].owners \ roles'.owners)
         PROVE  OwnerChangePending(p)'
    <3>1. CASE p = t /\ HolderOf[d] = Primary
      BY <2>7, <3>1
    <3>2. CASE ~(p = t /\ HolderOf[d] = Primary)
      BY <2>6, <2>8, <2>9, <3>2 DEF OwnersInv
    <3> QED
      BY <3>1, <3>2
  <2> QED
    BY <2>10, <2>11, <2>12 DEF OwnersInv
<1>3. ASSUME NEW d \in SpaceDevices, PublishAuthority(d) PROVE OwnersInv'
  <2>1. heads'[Top'].owners = drafts[d].owners /\ Accepts(drafts[d]) /\ roles' = roles
    BY <1>3, PublishFacts DEF PublishAuthority
  <2> QED
    BY <2>1 DEF OwnersInv, Accepts
<1>4. CASE Applying
  BY <1>1, <1>4 DEF Applying, Join, Status, OfferExpires, RequestExpires
<1>5. CASE Administering
  <2>1. PICK d \in SpaceDevices, h \in 1..Top : Command(d, h)
    BY <1>5, Commands
  <2> QED
    BY <1>1, <1>2, <2>1 DEF Command, Invite, RevokeInvitation, Decide, RevokeDevice
<1>6. CASE Retiring
  BY <1>1, <1>6 DEF Retiring, AbsorbRevocations, RevokedElsewhere, EraseAccount
<1>7. CASE Updating
  BY <1>1, <1>3, <1>7 DEF Updating, FetchAuthority
<1> QED
  BY <1>4, <1>5, <1>6, <1>7 DEF SpaceNext

-----------------------------------------------------------------------------
(* What the replay of an owner's device computes.                           *)

ReplayFields(s) ==
    /\ DOMAIN s = {"ok", "owners", "revision", "invited", "withdrawn", "decisions", "denied",
                   "removed", "revoked"}
    /\ s = [f \in DOMAIN s |-> s[f]]

ReplayUnfolded ==
    Len(journal) \in Nat =>
       /\ Replayed[0] = ReplayStart
       /\ \A i \in 1..Len(journal) : Replayed[i] = ReplayStep(Replayed[i - 1], i)

LEMMA ReplayUnfolds == ReplayUnfolded
BY ReplayFacts DEF ReplayUnfolded

LEMMA ReplayUnfoldsNext == ReplayUnfolded'
BY ReplayUnfolds, PTL

LEMMA AppliedFacts ==
    ASSUME NEW s, ReplayFields(s), NEW e, NEW i
    PROVE  /\ ReplayFields(Applied(s, e, i))
           /\ Applied(s, e, i).ok = s.ok
           /\ e.act \notin RoleKinds /\ e.act \in Acts => Applied(s, e, i).owners = s.owners
           /\ e.act \in RoleKinds => Applied(s, e, i).owners = Changed(e.act, e.obj, s.owners)
BY DEF Applied, ReplayFields, RoleKinds, Acts

LEMMA FailedFacts ==
    ASSUME NEW s, ReplayFields(s)
    PROVE  ReplayFields([s EXCEPT !.ok = FALSE]) /\ [s EXCEPT !.ok = FALSE].ok = FALSE
BY DEF ReplayFields

LEMMA StartFacts == ReplayFields(ReplayStart) /\ ReplayStart.ok = TRUE
                    /\ ReplayStart.owners = {Primary} /\ ReplayStart.decisions = Nobody
BY DEF ReplayStart, ReplayFields

LEMMA ReplayShape ==
    ASSUME JournalOK, NEW n \in 0..Len(journal)
    PROVE  ReplayFields(Replayed[n])
<1> DEFINE Bad == {m \in 0..Len(journal) : ~ReplayFields(Replayed[m])}
<1>1. Len(journal) \in Nat
  BY JournalFacts
<1>2. SUFFICES ASSUME Bad # {} PROVE FALSE
  OBVIOUS
<1>3. PICK m \in Bad : \A k \in Bad : m =< k
  <2>1. Bad \in SUBSET Nat
    BY <1>1
  <2> HIDE DEF Bad
  <2> QED
    BY <1>2, <2>1, LeastNatural
<1>4. m # 0
  BY <1>1, <1>3, ReplayUnfolds, StartFacts DEF ReplayUnfolded
<1>5. m \in 1..Len(journal) /\ m - 1 \in 0..Len(journal) /\ m - 1 \notin Bad
  BY <1>1, <1>3, <1>4
<1>6. ReplayFields(Replayed[m - 1]) /\ Replayed[m] = ReplayStep(Replayed[m - 1], m)
  BY <1>1, <1>5, ReplayUnfolds DEF ReplayUnfolded
<1>7. ReplayFields(ReplayStep(Replayed[m - 1], m))
  BY <1>6, AppliedFacts, FailedFacts DEF ReplayStep
<1> QED
  BY <1>3, <1>6, <1>7

\* A step of a replay that has not failed.
LEMMA ReplayGoesOn ==
    ASSUME JournalOK, NEW i \in 1..Len(journal), Replayed[i].ok
    PROVE  /\ Replayed[i - 1].ok
           /\ Stands(Replayed[i - 1], journal[i], i)
           /\ Replayed[i] = Applied(Replayed[i - 1], journal[i], i)
<1>1. Len(journal) \in Nat /\ i - 1 \in 0..Len(journal)
  BY JournalFacts
<1>2. ReplayFields(Replayed[i - 1]) /\ Replayed[i] = ReplayStep(Replayed[i - 1], i)
  BY <1>1, ReplayShape, ReplayUnfolds DEF ReplayUnfolded
<1>3. Replayed[i - 1].ok /\ Stands(Replayed[i - 1], journal[i], i)
  BY <1>2, FailedFacts DEF ReplayStep
<1> QED
  BY <1>2, <1>3 DEF ReplayStep

LEMMA ReplayOkBefore ==
    ASSUME JournalOK, NEW n \in 0..Len(journal), Replayed[n].ok, NEW i \in 0..n
    PROVE  Replayed[i].ok
<1> DEFINE Good == {m \in i..n : Replayed[m].ok}
<1>1. Len(journal) \in Nat /\ n \in Nat /\ i \in Nat /\ i =< n
  BY JournalFacts
<1>2. n \in Good /\ Good \in SUBSET Nat
  BY <1>1
<1>3. PICK m \in Good : \A k \in Good : m =< k
  <2> HIDE DEF Good
  <2> QED
    BY <1>2, LeastNatural
<1>4. CASE m = i
  BY <1>3, <1>4
<1>5. CASE m # i
  <2>1. m \in 1..Len(journal) /\ m - 1 \in i..n
    BY <1>1, <1>3, <1>5
  <2>2. Replayed[m - 1].ok
    BY <1>3, <2>1, ReplayGoesOn
  <2>3. m - 1 \in Good /\ ~(m =< m - 1)
    BY <2>1, <2>2
  <2> QED
    BY <1>3, <2>3
<1> QED
  BY <1>4, <1>5

\* What a replay of the first n intents knows of decisions and revoked invitations.
Recorded(s, n) ==
    /\ \A x \in DOMAIN s.decisions :
         /\ s.decisions[x].index \in 1..n
         /\ journal[s.decisions[x].index].act = "decide"
         /\ journal[s.decisions[x].index].obj = x
         /\ journal[s.decisions[x].index].yes = s.decisions[x].yes
         /\ journal[s.decisions[x].index].at = s.decisions[x].at
    /\ \A i \in 1..n :
         journal[i].act = "decide" =>
            /\ journal[i].obj \in DOMAIN s.decisions
            /\ i =< s.decisions[journal[i].obj].index
            /\ ~journal[i].yes => <<journal[i].obj, journal[i].at>> \in s.denied
    /\ \A i \in 1..n : journal[i].act = "revoke" => journal[i].obj \in s.withdrawn

LEMMA RecordedStep ==
    ASSUME JournalOK, NEW i \in 1..Len(journal), NEW s, ReplayFields(s), Recorded(s, i - 1)
    PROVE  Recorded(Applied(s, journal[i], i), i)
<1> DEFINE e == journal[i]
           t == Applied(s, e, i)
<1>1. Len(journal) \in Nat /\ e \in Intents /\ e.act \in Acts /\ i - 1 \in Nat /\ i \in Nat
      /\ \A k \in 1..i : k \in 1..i - 1 \/ k = i
  BY JournalFacts DEF Intents
<1> HIDE DEF e
<1>2. /\ e.act = "decide" =>
           /\ t.decisions = With(s.decisions, e.obj, [index |-> i, yes |-> e.yes, at |-> e.at])
           /\ t.denied = (IF e.yes THEN s.denied ELSE s.denied \cup {<<e.obj, e.at>>})
      /\ e.act # "decide" => t.decisions = s.decisions /\ t.denied = s.denied
      /\ t.withdrawn = (IF e.act = "revoke" THEN s.withdrawn \cup {e.obj} ELSE s.withdrawn)
  BY <1>1 DEF Applied, ReplayFields, RoleKinds, Acts
<1> HIDE DEF t
<1>3. ASSUME NEW k \in 1..i, journal[k].act = "revoke" PROVE journal[k].obj \in t.withdrawn
  BY <1>1, <1>2, <1>3 DEF Recorded, e
<1>4. CASE e.act # "decide"
  <2>1. t.decisions = s.decisions /\ t.denied = s.denied
    BY <1>2, <1>4
  <2>2. \A k \in 1..i : journal[k].act = "decide" => k \in 1..i - 1
    BY <1>1, <1>4 DEF e
  <2>3. \A n \in 1..i - 1 : n \in 1..i
    BY <1>1
  <2> QED
    BY <1>3, <2>1, <2>2, <2>3 DEF Recorded, t, e
<1>5. CASE e.act = "decide"
  <2> DEFINE c == [index |-> i, yes |-> e.yes, at |-> e.at]
  <2>1. c.index = i /\ c.yes = e.yes /\ c.at = e.at
    OBVIOUS
  <2> HIDE DEF c
  <2>2. /\ DOMAIN t.decisions = DOMAIN s.decisions \cup {e.obj} /\ t.decisions[e.obj] = c
        /\ \A x \in DOMAIN s.decisions : x # e.obj => t.decisions[x] = s.decisions[x]
        /\ s.denied \subseteq t.denied /\ (~e.yes => <<e.obj, e.at>> \in t.denied)
    BY <1>2, <1>5 DEF With, c
  <2>3. ASSUME NEW x \in DOMAIN t.decisions
        PROVE  /\ t.decisions[x].index \in 1..i
               /\ journal[t.decisions[x].index].act = "decide"
               /\ journal[t.decisions[x].index].obj = x
               /\ journal[t.decisions[x].index].yes = t.decisions[x].yes
               /\ journal[t.decisions[x].index].at = t.decisions[x].at
    <3>1. CASE x = e.obj
      BY <1>1, <1>5, <2>1, <2>2, <3>1 DEF e
    <3>2. CASE x # e.obj
      <4>1. x \in DOMAIN s.decisions /\ t.decisions[x] = s.decisions[x]
        BY <2>2, <3>2
      <4>2. s.decisions[x].index \in 1..i
        BY <1>1, <4>1 DEF Recorded
      <4> QED
        BY <4>1, <4>2 DEF Recorded
    <3> QED
      BY <3>1, <3>2
  <2>4. ASSUME NEW k \in 1..i, journal[k].act = "decide"
        PROVE  /\ journal[k].obj \in DOMAIN t.decisions
               /\ k =< t.decisions[journal[k].obj].index
               /\ ~journal[k].yes => <<journal[k].obj, journal[k].at>> \in t.denied
    <3>1. CASE k = i
      BY <1>1, <2>1, <2>2, <3>1 DEF e
    <3>2. CASE k # i
      <4>1. /\ journal[k].obj \in DOMAIN s.decisions
            /\ k =< s.decisions[journal[k].obj].index
            /\ ~journal[k].yes => <<journal[k].obj, journal[k].at>> \in s.denied
        BY <1>1, <2>4, <3>2 DEF Recorded
      <4>2. CASE journal[k].obj = e.obj
        BY <1>1, <2>1, <2>2, <4>1, <4>2
      <4>3. CASE journal[k].obj # e.obj
        BY <2>2, <4>1, <4>3
      <4> QED
        BY <4>2, <4>3
    <3> QED
      BY <3>1, <3>2
  <2> QED
    BY <1>3, <2>3, <2>4 DEF Recorded, t, e
<1> QED
  BY <1>4, <1>5

LEMMA ReplayRecords ==
    ASSUME JournalOK, NEW n \in 0..Len(journal), Replayed[n].ok
    PROVE  Recorded(Replayed[n], n)
<1> DEFINE Bad == {m \in 0..n : ~Recorded(Replayed[m], m)}
<1>1. Len(journal) \in Nat /\ n \in Nat /\ n =< Len(journal)
  BY JournalFacts
<1>2. SUFFICES ASSUME Bad # {} PROVE FALSE
  BY <1>1
<1>3. PICK m \in Bad : \A k \in Bad : m =< k
  <2>1. Bad \in SUBSET Nat
    BY <1>1
  <2> HIDE DEF Bad
  <2> QED
    BY <1>2, <2>1, LeastNatural
<1>4. m # 0
  <2>1. Replayed[0] = ReplayStart
    BY <1>1, ReplayUnfolds DEF ReplayUnfolded
  <2>2. DOMAIN ReplayStart.decisions = {} /\ 1..0 = {}
    BY StartFacts DEF Nobody
  <2>3. Recorded(ReplayStart, 0)
    BY <2>2 DEF Recorded
  <2> QED
    BY <1>3, <2>1, <2>3
<1>5. m \in 1..Len(journal) /\ m \in 0..n /\ m - 1 \in 0..Len(journal) /\ m - 1 \in 0..n
      /\ m - 1 \notin Bad
  BY <1>1, <1>3, <1>4
<1>6. Recorded(Replayed[m - 1], m - 1)
  BY <1>5
<1>7. Replayed[m].ok
  BY <1>5, ReplayOkBefore
<1>8. Replayed[m] = Applied(Replayed[m - 1], journal[m], m) /\ ReplayFields(Replayed[m - 1])
  BY <1>5, <1>7, ReplayGoesOn, ReplayShape
<1>9. Recorded(Replayed[m], m)
  BY <1>5, <1>6, <1>8, RecordedStep
<1> QED
  BY <1>3, <1>9

\* While the configuration stands, an intent stands or not as before.
LEMMA StandsKept ==
    ASSUME heads' = heads, NEW s, NEW e, NEW i
    PROVE  Stands(s, e, i)' <=> Stands(s, e, i)
<1>1. Top' = Top /\ Committed' = Committed
  BY DEF Top, Committed
<1>2. \A h, d : EnrolledAt(h, d)' <=> EnrolledAt(h, d)
  BY DEF EnrolledAt
<1>3. \A d : EnrolledEver(d)' <=> EnrolledEver(d)
  BY <1>1, <1>2 DEF EnrolledEver
<1>4. \A d : EnrolledFor(i, d)' <=> EnrolledFor(i, d)
  BY <1>1, <1>2, <1>3 DEF EnrolledFor, EnrolledAt
<1>5. CommandStands(s, e, i)' <=> CommandStands(s, e, i)
  BY <1>1, <1>2 DEF CommandStands
<1>6. \A h : OwnersAt(h)' = OwnersAt(h)
  BY DEF OwnersAt
<1> QED
  BY <1>4, <1>5, <1>6 DEF Stands

\* A publication forgets no reason: what stood, stands.
LEMMA StandsPublished ==
    ASSUME SpaceTypes, NEW d \in SpaceDevices, PublishAuthority(d), NEW s, NEW e,
           NEW i \in 1..Len(journal), Stands(s, e, i)
    PROVE  Stands(s, e, i)'
<1>1. /\ Top' = Top + 1 /\ Committed' = journal
      /\ \A k \in 1..Top : heads'[k] = heads[k]
  BY PublishFacts DEF Committed
<1>2. Top \in Nat /\ Top >= 1 /\ Len(journal) \in Nat
  BY HeadFacts, JournalFacts DEF SpaceTypes
<1>3. i =< Len(Committed') /\ ~(i > Len(Committed')) /\ \A k \in 1..Top : k \in 1..Top'
  BY <1>1, <1>2
<1>4. \A x : EnrolledFor(i, x) => EnrolledEver(x)
  BY <1>2 DEF EnrolledFor, EnrolledEver
<1>5. \A x : EnrolledEver(x) => EnrolledEver(x)'
  <2>1. ASSUME NEW x, NEW h \in 1..Top, EnrolledAt(h, x) PROVE h \in 1..Top' /\ EnrolledAt(h, x)'
    BY <1>1, <1>3, <2>1 DEF EnrolledAt
  <2> QED
    BY <2>1 DEF EnrolledEver
<1>6. \A x : EnrolledFor(i, x) => EnrolledFor(i, x)'
  BY <1>3, <1>4, <1>5 DEF EnrolledFor
<1>7. ASSUME CommandStands(s, e, i)
      PROVE  /\ CommandStands(s, e, i)' /\ heads'[e.at] = heads[e.at]
             /\ OwnersAt(e.at) = {x \in heads'[e.at].devices : HolderOf[x] \in heads'[e.at].owners}
  BY <1>1, <1>3, <1>7 DEF CommandStands, EnrolledAt, OwnersAt
<1> QED
  BY <1>6, <1>7 DEF Stands, OwnersAt

ReplayRigid ==
    Len(journal) \in Nat =>
       \A i \in 1..Len(journal) : \A s, e :
          s = Replayed[i - 1] /\ e = journal[i] =>
             Replayed[i] = IF s.ok /\ Stands(s, e, i) THEN Applied(s, e, i)
                           ELSE [s EXCEPT !.ok = FALSE]

LEMMA ReplayIsRigid == ReplayRigid
BY ReplayUnfolds DEF ReplayRigid, ReplayUnfolded, ReplayStep

LEMMA ReplayIsRigidNext == ReplayRigid'
BY ReplayIsRigid, PTL

\* What has been replayed replays to the same, with a longer journal ...
LEMMA ReplayKept ==
    ASSUME SpaceTypes, SpaceNext, heads' = heads, NEW n \in 0..Len(journal)
    PROVE  Replayed'[n] = Replayed[n]
<1> DEFINE Bad == {m \in 0..Len(journal) : Replayed'[m] # Replayed[m]}
<1>1. JournalOK /\ Len(journal) \in Nat
  BY JournalFacts DEF SpaceTypes
<1>2. /\ Len(journal') \in Nat /\ Len(journal) =< Len(journal')
      /\ \A i \in 1..Len(journal) : journal'[i] = journal[i]
  BY <1>1, JournalStep, JournalFacts DEF JournalGrows, Extended, JournalOK
<1>3. SUFFICES ASSUME Bad # {} PROVE FALSE
  OBVIOUS
<1>4. PICK m \in Bad : \A k \in Bad : m =< k
  <2>1. Bad \in SUBSET Nat
    BY <1>1
  <2> HIDE DEF Bad
  <2> QED
    BY <1>3, <2>1, LeastNatural
<1>5. m # 0
  <2>1. Replayed[0] = ReplayStart /\ Replayed'[0] = ReplayStart'
    BY <1>1, <1>2, ReplayUnfolds, ReplayUnfoldsNext DEF ReplayUnfolded
  <2>2. ReplayStart' = ReplayStart
    BY DEF ReplayStart, Nobody
  <2> QED
    BY <1>4, <2>1, <2>2
<1>6. m \in 1..Len(journal) /\ m \in 1..Len(journal') /\ Replayed'[m - 1] = Replayed[m - 1]
  BY <1>1, <1>2, <1>4, <1>5
<1>7. PICK s : s = Replayed[m - 1]
  OBVIOUS
<1>8. PICK e : e = journal[m]
  OBVIOUS
<1>9. Replayed[m] = IF s.ok /\ Stands(s, e, m) THEN Applied(s, e, m) ELSE [s EXCEPT !.ok = FALSE]
  BY <1>1, <1>6, <1>7, <1>8, ReplayIsRigid DEF ReplayRigid
<1>10. s = Replayed'[m - 1] /\ e = journal'[m]
  BY <1>2, <1>6, <1>7, <1>8
<1>11. Replayed'[m] = IF s.ok /\ Stands(s, e, m)' THEN Applied(s, e, m)'
                      ELSE [s EXCEPT !.ok = FALSE]
  BY <1>2, <1>6, <1>10, ReplayIsRigidNext DEF ReplayRigid
<1>12. Stands(s, e, m)' <=> Stands(s, e, m)
  BY StandsKept
<1>13. Applied(s, e, m)' = Applied(s, e, m)
  BY DEF Applied
<1>14. Replayed'[m] = Replayed[m]
  BY <1>9, <1>11, <1>12, <1>13
<1> QED
  BY <1>4, <1>14

\* ... and under the next configuration, if nothing of it has failed.
LEMMA ReplayPublished ==
    ASSUME SpaceTypes, NEW d \in SpaceDevices, PublishAuthority(d),
           Replayed[Len(journal)].ok, NEW n \in 0..Len(journal)
    PROVE  Replayed'[n] = Replayed[n]
<1> DEFINE Bad == {m \in 0..Len(journal) : Replayed'[m] # Replayed[m]}
<1>1. JournalOK /\ Len(journal) \in Nat /\ Len(journal) \in 0..Len(journal)
  BY JournalFacts DEF SpaceTypes
<1>2. journal' = journal
  BY PublishFacts
<1>3. SUFFICES ASSUME Bad # {} PROVE FALSE
  OBVIOUS
<1>4. PICK m \in Bad : \A k \in Bad : m =< k
  <2>1. Bad \in SUBSET Nat
    BY <1>1
  <2> HIDE DEF Bad
  <2> QED
    BY <1>3, <2>1, LeastNatural
<1>5. m # 0
  <2>1. Replayed[0] = ReplayStart /\ Replayed'[0] = ReplayStart'
    BY <1>1, <1>2, ReplayUnfolds, ReplayUnfoldsNext DEF ReplayUnfolded
  <2>2. ReplayStart' = ReplayStart
    BY DEF ReplayStart, Nobody
  <2> QED
    BY <1>4, <2>1, <2>2
<1>6. m \in 1..Len(journal) /\ Replayed'[m - 1] = Replayed[m - 1]
  BY <1>1, <1>4, <1>5
<1>7. PICK s : s = Replayed[m - 1]
  OBVIOUS
<1>8. PICK e : e = journal[m]
  OBVIOUS
<1>9. Replayed[m].ok
  BY <1>1, <1>6, ReplayOkBefore
<1>10. s.ok /\ Stands(s, e, m) /\ Replayed[m] = Applied(s, e, m)
  BY <1>1, <1>6, <1>7, <1>8, <1>9, ReplayGoesOn
<1>11. s = Replayed'[m - 1] /\ e = journal'[m] /\ Len(journal') \in Nat /\ m \in 1..Len(journal')
  BY <1>1, <1>2, <1>6, <1>7, <1>8
<1>12. Replayed'[m] = IF s.ok /\ Stands(s, e, m)' THEN Applied(s, e, m)'
                      ELSE [s EXCEPT !.ok = FALSE]
  BY <1>11, ReplayIsRigidNext DEF ReplayRigid
<1>13. Stands(s, e, m)'
  BY <1>6, <1>10, StandsPublished
<1>14. Applied(s, e, m)' = Applied(s, e, m)
  BY DEF Applied
<1>15. Replayed'[m] = Replayed[m]
  BY <1>10, <1>12, <1>13, <1>14
<1> QED
  BY <1>4, <1>15

\* The properties of the replay that hold in every state, for use in the next one.
ReplayRuns ==
    JournalOK =>
       /\ \A n \in 0..Len(journal) : ReplayFields(Replayed[n])
       /\ \A n \in 0..Len(journal) : Replayed[n].ok => \A i \in 0..n : Replayed[i].ok
       /\ \A i \in 1..Len(journal) : \A s, e :
            s = Replayed[i - 1] /\ e = journal[i] /\ Replayed[i].ok
               => Replayed[i] = Applied(s, e, i)

LEMMA ReplayDoesRun == ReplayRuns
BY ReplayShape, ReplayOkBefore, ReplayGoesOn DEF ReplayRuns

LEMMA ReplayDoesRunNext == ReplayRuns'
BY ReplayDoesRun, PTL

\* Owners change by one intent at a time.
OwnersFollow ==
    \/ roles' = roles /\ \A i \in NewIntents : journal'[i].act \notin RoleKinds
    \/ /\ NewIntents = {Len(journal) + 1} /\ Len(journal') = Len(journal) + 1
       /\ journal'[Len(journal) + 1].act \in RoleKinds
       /\ roles'.owners = Changed(journal'[Len(journal) + 1].act, journal'[Len(journal) + 1].obj,
                                  roles.owners)

LEMMA OwnersFollowStep ==
    ASSUME SpaceTypes, SpaceNext
    PROVE  OwnersFollow
<1> USE SpaceAssumption
<1>1. JournalOK /\ Top \in Nat
  BY HeadFacts DEF SpaceTypes
<1>2. CASE journal' = journal /\ roles' = roles
  BY <1>2 DEF OwnersFollow, NewIntents
<1>3. ASSUME NEW e \in Intents, Journals(e), e.act \notin RoleKinds, roles' = roles
      PROVE  OwnersFollow
  <2>1. NewIntents = {Len(journal) + 1} /\ journal'[Len(journal) + 1] = e
    BY <1>1, <1>3, JournalsFacts
  <2> QED
    BY <1>3, <2>1 DEF OwnersFollow
<1>4. CASE Applying
  BY <1>2, <1>4 DEF Applying, Join, Status, OfferExpires, RequestExpires
<1>5. CASE Administering
  <2>1. PICK d \in SpaceDevices, h \in 1..Top : Command(d, h)
    BY <1>5, Commands
  <2>2. h \in Nat
    BY <1>1
  <2>3. ASSUME NEW v \in Invitations, NEW asks \in BOOLEAN, Invite(d, h, v, asks) PROVE OwnersFollow
    <3> DEFINE e == Intent("invite", d, h, v, asks, 0)
    <3>1. e \in Intents /\ e.act \notin RoleKinds
      BY <2>2 DEF Intent, Intents, Acts, IntentObjects, RoleKinds
    <3> HIDE DEF e
    <3> QED
      BY <1>3, <2>3, <3>1 DEF Invite, e
  <2>4. ASSUME NEW v \in Invitations, RevokeInvitation(d, h, v) PROVE OwnersFollow
    <3> DEFINE e == Intent("revoke", d, h, v, TRUE, 0)
    <3>1. e \in Intents /\ e.act \notin RoleKinds
      BY <2>2 DEF Intent, Intents, Acts, IntentObjects, RoleKinds
    <3> HIDE DEF e
    <3> QED
      BY <1>3, <2>4, <3>1 DEF RevokeInvitation, e
  <2>5. ASSUME NEW x \in SpaceDevices, NEW yes \in BOOLEAN, NEW i, Decide(d, h, x, yes, i)
        PROVE  OwnersFollow
    <3> DEFINE e == Intent("decide", d, h, x, yes, 0)
    <3>1. e \in Intents /\ e.act \notin RoleKinds
      BY <2>2 DEF Intent, Intents, Acts, IntentObjects, RoleKinds
    <3> HIDE DEF e
    <3>2. roles' = roles /\ (Journals(e) \/ journal' = journal)
      BY <2>5 DEF Decide, e
    <3> QED
      BY <1>2, <1>3, <3>1, <3>2
  <2>6. ASSUME NEW kind \in RoleKinds, NEW t \in Persons, NEW rev \in 0..roles.revision,
               RoleChange(d, h, kind, t, rev)
        PROVE  OwnersFollow
    <3> DEFINE e == Intent(kind, d, h, t, TRUE, rev)
    <3>1. rev \in Nat
      BY DEF SpaceTypes, RegistryOK
    <3>2. e \in Intents /\ e.act = kind /\ e.obj = t
      BY <2>2, <3>1 DEF Intent, Intents, Acts, IntentObjects
    <3> HIDE DEF e
    <3>3. Journals(e) /\ roles'.owners = Changed(kind, t, roles.owners)
      BY <2>6 DEF RoleChange, e
    <3>4. NewIntents = {Len(journal) + 1} /\ journal'[Len(journal) + 1] = e
          /\ Len(journal') = Len(journal) + 1
      BY <1>1, <3>2, <3>3, JournalsFacts
    <3> QED
      BY <3>2, <3>3, <3>4 DEF OwnersFollow
  <2>7. ASSUME NEW x \in SpaceDevices, NEW signer \in SpaceDevices \cup {NoDevice},
               RevokeDevice(d, x, signer)
        PROVE  OwnersFollow
    <3> DEFINE e == RevocationIntent(x, signer)
    <3>1. e \in Intents /\ e.act \notin RoleKinds
      BY DEF RevocationIntent, Intent, Intents, Acts, IntentObjects, RoleKinds
    <3> HIDE DEF e
    <3> QED
      BY <1>3, <2>7, <3>1 DEF RevokeDevice, e
  <2> QED
    BY <2>1, <2>3, <2>4, <2>5, <2>6, <2>7 DEF Command
<1>6. CASE Retiring
  <2>1. CASE AbsorbRevocations
    <3>1. roles' = roles /\ \A i \in NewIntents : journal'[i].act = "revoked"
      BY <2>1, AbsorbFacts DEF AbsorbRevocations
    <3> QED
      BY <3>1 DEF OwnersFollow, RoleKinds
  <2>2. ASSUME NEW d \in SpaceDevices, EraseAccount(d) PROVE OwnersFollow
    <3> DEFINE e == Intent("deletion", d, 0, HolderOf[d], TRUE, 0)
    <3>1. e \in Intents /\ e.act \notin RoleKinds
      BY DEF Intent, Intents, Acts, IntentObjects, RoleKinds
    <3> HIDE DEF e
    <3>2. roles' = roles /\ (Journals(e) \/ journal' = journal)
      BY <2>2 DEF EraseAccount, e
    <3> QED
      BY <1>2, <1>3, <3>1, <3>2
  <2> QED
    BY <1>2, <1>6, <2>1, <2>2 DEF Retiring, RevokedElsewhere
<1>7. CASE Updating
  BY <1>2, <1>7 DEF Updating, FetchAuthority, PublishAuthority
<1> QED
  BY <1>4, <1>5, <1>6, <1>7 DEF SpaceNext

\* The owner's replay and the service agree on the owners.
RolesInv == Replayed[Len(journal)].ok => Replayed[Len(journal)].owners = roles.owners

LEMMA RolesKeptStep ==
    ASSUME SpaceTypes, RolesInv, SpaceNext, heads' = heads
    PROVE  RolesInv'
<1>1. SUFFICES ASSUME Replayed'[Len(journal')].ok
               PROVE  Replayed'[Len(journal')].owners = roles'.owners
  BY DEF RolesInv
<1>2. /\ JournalOK /\ JournalOK' /\ Len(journal) \in Nat /\ Len(journal') \in Nat
      /\ Len(journal) =< Len(journal')
      /\ DOMAIN journal = 1..Len(journal) /\ DOMAIN journal' = 1..Len(journal')
      /\ \A i \in 1..Len(journal') : journal'[i] \in Intents
  BY JournalStep, JournalFacts DEF SpaceTypes, JournalGrows, Extended, JournalOK
<1>3. /\ \A n \in 0..Len(journal') : ReplayFields(Replayed'[n]) /\ Replayed'[n].ok
      /\ \A i \in 1..Len(journal') : \A s, e :
            s = Replayed'[i - 1] /\ e = journal'[i] => Replayed'[i] = Applied(s, e, i)'
  BY <1>1, <1>2, ReplayDoesRunNext DEF ReplayRuns, ReplayFields
<1>4. \A s, e, i : Applied(s, e, i)' = Applied(s, e, i)
  BY DEF Applied
<1>5. \A i \in 1..Len(journal') : Replayed'[i] = Applied(Replayed'[i - 1], journal'[i], i)
  BY <1>3, <1>4
<1>6. Replayed'[Len(journal)] = Replayed[Len(journal)]
  BY <1>2, ReplayKept
<1>7. Replayed'[Len(journal)].owners = roles.owners
  BY <1>2, <1>3, <1>6 DEF RolesInv
<1>8. ASSUME NEW i \in 1..Len(journal')
      PROVE  /\ journal'[i].act \notin RoleKinds => Replayed'[i].owners = Replayed'[i - 1].owners
             /\ journal'[i].act \in RoleKinds =>
                  Replayed'[i].owners = Changed(journal'[i].act, journal'[i].obj, Replayed'[i - 1].owners)
  <2>1. PICK s : s = Replayed'[i - 1]
    OBVIOUS
  <2>2. PICK e : e = journal'[i]
    OBVIOUS
  <2>3. ReplayFields(s) /\ e.act \in Acts /\ Replayed'[i] = Applied(s, e, i)
    BY <1>2, <1>3, <1>5, <2>1, <2>2 DEF Intents
  <2>4. /\ e.act \notin RoleKinds => Applied(s, e, i).owners = s.owners
        /\ e.act \in RoleKinds => Applied(s, e, i).owners = Changed(e.act, e.obj, s.owners)
    BY <2>3, AppliedFacts
  <2> QED
    BY <2>1, <2>2, <2>3, <2>4
<1>9. CASE roles' = roles /\ \A i \in NewIntents : journal'[i].act \notin RoleKinds
  <2> DEFINE Bad == {m \in Len(journal)..Len(journal') : Replayed'[m].owners # roles.owners}
  <2>1. SUFFICES ASSUME Bad # {} PROVE FALSE
    BY <1>2, <1>9
  <2>2. PICK m \in Bad : \A k \in Bad : m =< k
    <3>1. Bad \in SUBSET Nat
      BY <1>2
    <3> HIDE DEF Bad
    <3> QED
      BY <2>1, <3>1, LeastNatural
  <2>3. m # Len(journal)
    BY <1>7, <2>2
  <2>4. m - 1 \in Len(journal)..Len(journal') /\ m - 1 \notin Bad /\ m \in 1..Len(journal')
        /\ m \in NewIntents
    <3>1. /\ m \in Len(journal)..Len(journal') /\ Len(journal) \in Nat /\ Len(journal') \in Nat
          /\ m # Len(journal)
      BY <1>2, <2>2, <2>3
    <3>2. \A a, b \in Nat : \A k \in a..b :
            k # a => k \in 1..b /\ k \notin 1..a /\ k - 1 \in a..b /\ ~(k =< k - 1)
      OBVIOUS
    <3>3. m \in 1..Len(journal') /\ m \notin 1..Len(journal)
          /\ m - 1 \in Len(journal)..Len(journal') /\ ~(m =< m - 1)
      BY <3>1, <3>2
    <3> HIDE DEF Bad
    <3> QED
      BY <1>2, <2>2, <3>3 DEF NewIntents
  <2>5. Replayed'[m].owners = roles.owners
    BY <1>8, <1>9, <2>4
  <2> QED
    BY <2>2, <2>5
<1>10. CASE ~(roles' = roles /\ \A i \in NewIntents : journal'[i].act \notin RoleKinds)
  <2> DEFINE n == Len(journal) + 1
  <2>1. /\ Len(journal') = n /\ journal'[n].act \in RoleKinds
        /\ roles'.owners = Changed(journal'[n].act, journal'[n].obj, roles.owners)
    BY <1>10, OwnersFollowStep DEF OwnersFollow
  <2>2. n \in 1..Len(journal') /\ n - 1 = Len(journal)
    BY <1>2, <2>1
  <2> HIDE DEF n
  <2>3. Replayed'[n].owners = Changed(journal'[n].act, journal'[n].obj, Replayed'[Len(journal)].owners)
    BY <1>8, <2>1, <2>2
  <2> QED
    BY <1>7, <2>1, <2>3
<1> QED
  BY <1>9, <1>10

-----------------------------------------------------------------------------
(* What an owner's device has signed on the newest journal lets nobody in   *)
(* without a reason.                                                        *)

Approvals(j, x) == {i \in DOMAIN j : j[i].act = "decide" /\ j[i].obj = x /\ j[i].yes}

Refusals(j, x) == {i \in DOMAIN j : j[i].act = "decide" /\ j[i].obj = x /\ ~j[i].yes}

Overruled(j, x) ==
    \A i \in Refusals(j, x) : \E l \in Approvals(j, x) : l > i /\ j[l].at # j[i].at

OpenDoor(j, v) ==
    /\ ~offers[v].asks /\ offers[v].proof =< Len(j)
    /\ \A i \in DOMAIN j : ~(j[i].act = "revoke" /\ j[i].obj = v)

\* `LetIn`, for a configuration that would commit j and follow configuration k.
ComesByRight(j, k, x) ==
    \/ LinkedBy[x] \in OwnersAt(k)
    \/ /\ Overruled(j, x)
       /\ \/ \E i \in Approvals(j, x) : \A h \in j[i].at .. k : ~EnrolledAt(h, x)
          \/ /\ \A h \in 1 .. k : ~EnrolledAt(h, x)
             /\ LinkedBy[x] \in heads[k].devices \/ \E v \in DOMAIN offers : OpenDoor(j, v)

ProofsInv == \A v \in DOMAIN offers : offers[v].proof =< Len(journal)

DraftRight(c) ==
    /\ c.base =< Top /\ Len(c.commit) =< Len(journal)
    /\ c.base = Top /\ c.commit = journal =>
         /\ Replayed[Len(journal)].ok
         /\ \A x \in c.devices \ HeadDevices : ComesByRight(journal, Top, x)

DraftsInv == \A d \in DOMAIN drafts : DraftRight(drafts[d])

LEMMA LetInFacts ==
    ASSUME NEW k \in Nat, NEW x, ComesByRight(heads[k].commit, k - 1, x)
    PROVE  LetIn(k, x)
BY DEF ComesByRight, LetIn, Overruled, Approvals, Refusals, OpenDoor

LEMMA ProofsStep ==
    ASSUME SpaceTypes, ProofsInv, SpaceNext
    PROVE  ProofsInv'
<1>1. OffersKept /\ JournalGrows
  BY OffersStep, JournalStep
<1>2. Len(journal) \in Nat /\ Len(journal') \in Nat /\ Len(journal) =< Len(journal')
  BY <1>1, JournalFacts DEF SpaceTypes, JournalGrows, JournalOK, Extended
<1>3. ASSUME NEW v \in DOMAIN offers' PROVE offers'[v].proof =< Len(journal')
  <2>1. CASE v \in DOMAIN offers
    <3>1. offers[v].proof \in Nat /\ offers[v].proof =< Len(journal)
      BY <2>1 DEF ProofsInv, SpaceTypes, OffersOK, Offers
    <3> QED
      BY <1>1, <1>2, <2>1, <3>1 DEF OffersKept
  <2>2. CASE v \notin DOMAIN offers
    BY <1>1, <1>2, <2>2 DEF OffersKept
  <2> QED
    BY <2>1, <2>2
<1> QED
  BY <1>3 DEF ProofsInv

LEMMA FetchedRight ==
    ASSUME SpaceTypes, ProofsInv, NEW d \in SpaceDevices, NEW linked \in SUBSET SpaceDevices,
           FetchAuthority(d, linked)
    PROVE  /\ Replayed[Len(journal)].ok
           /\ \A x \in Proposal(Replay, linked).devices \ HeadDevices :
                ComesByRight(journal, Top, x)
<1> DEFINE n == Len(journal)
           r == Replayed[n]
           s == Replay
<1>1. JournalOK /\ n \in Nat /\ n \in 0..n /\ DOMAIN journal = 1..n
      /\ \A i \in 1..n : journal[i].at \in Nat
  BY JournalFacts DEF SpaceTypes
<1>2. ReplayFields(r)
  BY <1>1, ReplayShape
<1>3. s = [r EXCEPT !.ok = @ /\ Replayed[Len(Committed)].owners = heads[Top].owners]
  BY DEF Replay
<1>4. s.ok
  BY DEF FetchAuthority
<1> HIDE DEF r, s
<1>5. r.ok /\ s.decisions = r.decisions /\ s.denied = r.denied /\ s.withdrawn = r.withdrawn
  BY <1>2, <1>3, <1>4 DEF ReplayFields
<1>6. Recorded(r, n)
  BY <1>1, <1>5, ReplayRecords DEF r
<1>7. Recorded(s, n)
  BY <1>5, <1>6 DEF Recorded
<1>8. d \in OwnersAt(Top) /\ \A x \in linked : LinkedBy[x] = d
  BY DEF FetchAuthority, MayUpdate
<1>9. Top \in Nat /\ Top >= 1
  BY HeadFacts DEF SpaceTypes
<1>10. ASSUME NEW x, x \in DOMAIN s.decisions =>
                       s.decisions[x].yes /\ <<x, s.decisions[x].at>> \notin s.denied
       PROVE  Overruled(journal, x)
  <2>1. ASSUME NEW i \in Refusals(journal, x)
        PROVE  \E l \in Approvals(journal, x) : l > i /\ journal[l].at # journal[i].at
    <3>1. i \in 1..n /\ journal[i].act = "decide" /\ journal[i].obj = x /\ ~journal[i].yes
      BY <1>1 DEF Refusals
    <3>2. x \in DOMAIN s.decisions /\ i =< s.decisions[x].index
          /\ <<x, journal[i].at>> \in s.denied
      BY <1>7, <3>1 DEF Recorded
    <3> DEFINE l == s.decisions[x].index
    <3>3. /\ l \in 1..n /\ journal[l].act = "decide" /\ journal[l].obj = x
          /\ journal[l].yes = s.decisions[x].yes /\ journal[l].at = s.decisions[x].at
      BY <1>7, <3>2 DEF Recorded
    <3> HIDE DEF l
    <3>4. l \in Approvals(journal, x) /\ journal[l].at # journal[i].at /\ l # i
      BY <1>1, <1>10, <3>1, <3>2, <3>3 DEF Approvals
    <3>5. l > i
      BY <1>1, <3>1, <3>2, <3>3, <3>4 DEF l
    <3> QED
      BY <3>4, <3>5
  <2> QED
    BY <2>1 DEF Overruled
<1>11. ASSUME NEW x, x \notin HeadDevices, Approved(s, x) PROVE ComesByRight(journal, Top, x)
  <2>1. /\ x \in DOMAIN s.decisions /\ s.decisions[x].yes
        /\ <<x, s.decisions[x].at>> \notin s.denied /\ ~RemovedSince(s.decisions[x].at, x)
    BY <1>11 DEF Approved
  <2> DEFINE l == s.decisions[x].index
  <2>2. /\ l \in 1..n /\ journal[l].act = "decide" /\ journal[l].obj = x
        /\ journal[l].yes = s.decisions[x].yes /\ journal[l].at = s.decisions[x].at
    BY <1>7, <2>1 DEF Recorded
  <2> HIDE DEF l
  <2>3. l \in Approvals(journal, x)
    BY <1>1, <2>1, <2>2 DEF Approvals
  <2>4. ASSUME NEW h \in journal[l].at .. Top, EnrolledAt(h, x) PROVE FALSE
    <3>1. ~EnrolledAt(Top, x)
      BY <1>11 DEF EnrolledAt, HeadDevices
    <3>2. h # Top /\ Top \in h + 1 .. Top
      BY <1>1, <1>9, <2>2, <2>4, <3>1
    <3> QED
      BY <2>1, <2>2, <2>4, <3>1, <3>2 DEF RemovedSince
  <2> QED
    BY <1>10, <2>1, <2>3, <2>4 DEF ComesByRight
<1>12. ASSUME NEW x, ~EnrolledEver(x),
              x \in DOMAIN s.decisions =>
                s.decisions[x].yes /\ <<x, s.decisions[x].at>> \notin s.denied,
              ParentInGeneral(s, x) \/ OpenInvitation(s, applicants[x].offer)
       PROVE  ComesByRight(journal, Top, x)
  <2>1. Overruled(journal, x) /\ \A h \in 1 .. Top : ~EnrolledAt(h, x)
    BY <1>10, <1>12 DEF EnrolledEver
  <2>2. CASE ParentInGeneral(s, x)
    BY <2>1, <2>2 DEF ComesByRight, ParentInGeneral, HeadDevices
  <2>3. CASE OpenInvitation(s, applicants[x].offer)
    <3> DEFINE v == applicants[x].offer
    <3>1. v \in DOMAIN offers /\ ~offers[v].asks /\ v \notin s.withdrawn
      BY <2>3 DEF OpenInvitation, LiveOffer
    <3>2. \A i \in 1..n : ~(journal[i].act = "revoke" /\ journal[i].obj = v)
      BY <1>7, <3>1 DEF Recorded
    <3> HIDE DEF v
    <3>3. OpenDoor(journal, v)
      BY <1>1, <3>1, <3>2 DEF OpenDoor, ProofsInv
    <3> QED
      BY <2>1, <3>1, <3>3 DEF ComesByRight
  <2> QED
    BY <1>12, <2>2, <2>3
<1>13. ASSUME NEW x \in Proposal(s, linked).devices \ HeadDevices
       PROVE  ComesByRight(journal, Top, x)
  <2>1. x \in linked \/ \E out : x \in Eligible(s, out)
    BY DEF Proposal
  <2>2. CASE x \in linked
    BY <1>8, <2>2 DEF ComesByRight
  <2>3. ASSUME NEW out, x \in Eligible(s, out) PROVE ComesByRight(journal, Top, x)
    BY <1>11, <1>12, <1>13, <2>3 DEF Eligible, ApprovedByName
  <2> QED
    BY <2>1, <2>2, <2>3
<1> QED
  BY <1>5, <1>13 DEF r, s

\* Decisions are signed under a configuration.
DatedInv ==
    \A i \in DOMAIN journal : journal[i].act = "decide" => journal[i].at \in Nat /\ journal[i].at >= 1

LEMMA DatedStep ==
    ASSUME SpaceTypes, DatedInv, SpaceNext
    PROVE  DatedInv'
<1>1. JournalGrows /\ Top \in Nat /\ Top >= 1
  BY JournalStep, HeadFacts DEF SpaceTypes
<1>2. ASSUME NEW i \in DOMAIN journal', journal'[i].act = "decide"
      PROVE  journal'[i].at \in Nat /\ journal'[i].at >= 1
  <2>1. CASE i \in DOMAIN journal
    BY <1>1, <1>2, <2>1 DEF JournalGrows, Extended, DatedInv
  <2>2. CASE i \notin DOMAIN journal
    <3>1. KnownIntent(journal'[i])
      BY <1>1, <2>2 DEF JournalGrows, NewIntents
    <3> QED
      BY <1>1, <1>2, <3>1 DEF KnownIntent
  <2> QED
    BY <2>1, <2>2
<1> QED
  BY <1>2 DEF DatedInv

Dated(j) == \A i \in DOMAIN j : j[i].act = "decide" => j[i].at \in Nat /\ j[i].at >= 1

\* A reason to be let in lasts as long as the configurations it speaks of.
LEMMA RightKept ==
    ASSUME OffersKept, NEW j, Dated(j), NEW k \in Nat, k >= 1,
           \A l \in 1..k : heads'[l] = heads[l], NEW x, ComesByRight(j, k, x)
    PROVE  ComesByRight(j, k, x)'
<1>1. heads'[k] = heads[k]
  OBVIOUS
<1>2. \A h \in 1..k : EnrolledAt(h, x)' <=> EnrolledAt(h, x)
  BY DEF EnrolledAt
<1>3. OwnersAt(k)' = OwnersAt(k)
  BY <1>1 DEF OwnersAt
<1>4. CASE LinkedBy[x] \in OwnersAt(k)
  BY <1>3, <1>4 DEF ComesByRight
<1>5. CASE LinkedBy[x] \notin OwnersAt(k)
  <2>1. Overruled(j, x)
    BY <1>5 DEF ComesByRight
  <2>2. Overruled(j, x)' /\ Approvals(j, x)' = Approvals(j, x)
    BY <2>1 DEF Overruled, Approvals, Refusals
  <2>3. ASSUME NEW i \in Approvals(j, x), \A h \in j[i].at .. k : ~EnrolledAt(h, x)
        PROVE  ComesByRight(j, k, x)'
    <3>1. j[i].at \in Nat /\ j[i].at >= 1
      BY DEF Approvals, Dated
    <3>2. \A h \in j[i].at .. k : ~EnrolledAt(h, x)'
      BY <1>2, <2>3, <3>1
    <3>3. i \in Approvals(j, x)'
      BY <2>2
    <3> QED
      BY <2>2, <3>2, <3>3 DEF ComesByRight
  <2>4. ASSUME \A h \in 1 .. k : ~EnrolledAt(h, x),
               LinkedBy[x] \in heads[k].devices \/ \E v \in DOMAIN offers : OpenDoor(j, v)
        PROVE  ComesByRight(j, k, x)'
    <3>1. \A h \in 1 .. k : ~EnrolledAt(h, x)'
      BY <1>2, <2>4
    <3>2. \A v \in DOMAIN offers : OpenDoor(j, v) => v \in DOMAIN offers' /\ OpenDoor(j, v)'
      BY DEF OffersKept, OpenDoor
    <3>3. LinkedBy[x] \in heads'[k].devices \/ \E v \in DOMAIN offers' : OpenDoor(j, v)'
      BY <1>1, <2>4, <3>2
    <3> QED
      BY <2>2, <3>1, <3>3 DEF ComesByRight
  <2> QED
    BY <1>5, <2>3, <2>4 DEF ComesByRight
<1> QED
  BY <1>4, <1>5

\* The reason of a draft stays the reason while nothing of its base changes.
LEMMA DraftKept ==
    ASSUME SpaceTypes, DatedInv, SpaceNext, heads' = heads, NEW c \in Drafts, DraftRight(c)
    PROVE  DraftRight(c)'
<1>1. Top' = Top /\ HeadDevices' = HeadDevices /\ Top \in Nat /\ Top >= 1
  BY HeadFacts DEF SpaceTypes, Top, HeadDevices
<1>2. /\ Len(journal) \in Nat /\ Len(journal') \in Nat /\ Len(journal) =< Len(journal')
      /\ journal \in Seq(Intents) /\ journal' \in Seq(Intents)
      /\ \A i \in 1..Len(journal) : journal'[i] = journal[i]
  BY JournalStep, JournalFacts DEF SpaceTypes, JournalGrows, Extended, JournalOK
<1>3. c.commit \in Seq(Intents) /\ Len(c.commit) \in Nat /\ c.base \in Nat
  BY DEF Drafts
<1>4. c.base =< Top' /\ Len(c.commit) =< Len(journal')
  BY <1>1, <1>2, <1>3 DEF DraftRight
<1>5. ASSUME c.base = Top', c.commit = journal'
      PROVE  /\ Replayed'[Len(journal')].ok
             /\ \A x \in c.devices \ HeadDevices' : ComesByRight(journal, Top, x)'
  <2>1. Len(journal') = Len(journal)
    BY <1>2, <1>5 DEF DraftRight
  <2>2. journal' = journal
    BY <1>2, <2>1
  <2>3. Replayed[Len(journal)].ok /\ \A x \in c.devices \ HeadDevices : ComesByRight(journal, Top, x)
    BY <1>1, <1>5, <2>2 DEF DraftRight
  <2>4. Replayed'[Len(journal)] = Replayed[Len(journal)]
    BY <1>2, ReplayKept
  <2>5. PICK j : j = journal
    OBVIOUS
  <2>6. PICK k : k = Top
    OBVIOUS
  <2>7. ASSUME NEW x \in c.devices \ HeadDevices' PROVE ComesByRight(journal, Top, x)'
    <3>1. ComesByRight(j, k, x) /\ Dated(j) /\ k \in Nat /\ k >= 1
      BY <1>1, <2>3, <2>5, <2>6 DEF Dated, DatedInv
    <3>2. ComesByRight(j, k, x)'
      BY <3>1, OffersStep, RightKept
    <3>3. j = journal' /\ k = Top'
      BY <1>1, <2>2, <2>5, <2>6
    <3> QED
      BY <3>2, <3>3
  <2> QED
    BY <2>1, <2>3, <2>4, <2>7
<1> QED
  BY <1>4, <1>5 DEF DraftRight

LEMMA DraftsRightStep ==
    ASSUME SpaceTypes, ProofsInv, DatedInv, DraftsInv, SpaceNext
    PROVE  DraftsInv'
<1>1. \A d \in DOMAIN drafts : drafts[d] \in Drafts /\ DraftRight(drafts[d])
  BY DEF SpaceTypes, DraftsOK, DraftsInv
<1>2. CASE heads' = heads /\ drafts' = drafts
  <2>1. \A c \in Drafts : DraftRight(c) => DraftRight(c)'
    BY <1>2, DraftKept
  <2>2. ASSUME NEW d \in DOMAIN drafts' PROVE DraftRight(drafts[d])'
    <3>1. PICK c \in Drafts : c = drafts[d] /\ DraftRight(c)
      BY <1>1, <1>2
    <3>2. DraftRight(c)' /\ c = drafts'[d]
      BY <1>2, <2>1, <3>1
    <3> QED
      BY <3>2
  <2> QED
    BY <2>2 DEF DraftsInv
<1>3. ASSUME NEW d \in SpaceDevices, NEW linked \in SUBSET SpaceDevices, FetchAuthority(d, linked)
      PROVE  DraftsInv'
  <2>1. PICK c \in Drafts :
          /\ c.base = Top /\ c.commit = journal
          /\ c.devices = Proposal(Replay, linked).devices
          /\ drafts' = With(drafts, d, c)
    BY <1>3, FetchFacts
  <2>2. heads' = heads
    BY <1>3 DEF FetchAuthority
  <2>3. DraftRight(c)
    <3>1. Top \in Nat /\ Len(journal) \in Nat
      BY HeadFacts, JournalFacts DEF SpaceTypes
    <3>2. /\ Replayed[Len(journal)].ok
          /\ \A x \in c.devices \ HeadDevices : ComesByRight(journal, Top, x)
      BY <1>3, <2>1, FetchedRight
    <3> QED
      BY <2>1, <3>1, <3>2 DEF DraftRight
  <2>4. \A b \in Drafts : DraftRight(b) => DraftRight(b)'
    BY <2>2, DraftKept
  <2>5. ASSUME NEW e \in DOMAIN drafts' PROVE DraftRight(drafts[e])'
    <3>1. (e = d /\ drafts'[e] = c) \/ (e \in DOMAIN drafts /\ drafts'[e] = drafts[e])
      BY <2>1, <2>5 DEF With
    <3>2. PICK b \in Drafts : b = drafts'[e] /\ DraftRight(b)
      BY <1>1, <2>3, <3>1
    <3>3. DraftRight(b)'
      BY <2>4, <3>2
    <3> QED
      BY <3>2, <3>3
  <2> QED
    BY <2>5 DEF DraftsInv
<1>4. ASSUME NEW d \in SpaceDevices, PublishAuthority(d) PROVE DraftsInv'
  <2>1. Top' = Top + 1 /\ journal' = journal /\ Top \in Nat
    BY <1>4, PublishFacts, HeadFacts DEF SpaceTypes
  <2>2. DOMAIN drafts' \subseteq DOMAIN drafts /\ \A e \in DOMAIN drafts' : drafts'[e] = drafts[e]
    BY <1>4, OnlyFacts DEF PublishAuthority
  <2>3. ASSUME NEW e \in DOMAIN drafts' PROVE DraftRight(drafts[e])'
    <3>1. PICK b \in Drafts : b = drafts'[e] /\ DraftRight(b)
      BY <1>1, <2>2
    <3>2. b.base \in Nat /\ b.base =< Top /\ Len(b.commit) =< Len(journal)
      BY <3>1 DEF Drafts, DraftRight
    <3>3. b.base =< Top' /\ b.base # Top' /\ Len(b.commit) =< Len(journal')
      BY <2>1, <3>2
    <3>4. DraftRight(b)'
      BY <3>3 DEF DraftRight
    <3> QED
      BY <3>1, <3>4
  <2> QED
    BY <2>3 DEF DraftsInv
<1>5. CASE Applying
  BY <1>2, <1>5 DEF Applying, Join, Status, OfferExpires, RequestExpires
<1>6. CASE Administering
  <2>1. PICK d \in SpaceDevices, h \in 1..Top : Command(d, h)
    BY <1>6, Commands
  <2>2. heads' = heads /\ drafts' = drafts
    BY <2>1 DEF Command, Invite, RevokeInvitation, Decide, RoleChange, RevokeDevice
  <2> QED
    BY <1>2, <2>2
<1>7. CASE Retiring
  <2>1. heads' = heads /\ drafts' = drafts
    BY <1>7 DEF Retiring, AbsorbRevocations, RevokedElsewhere, EraseAccount
  <2> QED
    BY <1>2, <2>1
<1>8. CASE Updating
  <2>1. ASSUME NEW l \in {{}} \cup {{x} : x \in SpaceDevices} PROVE l \in SUBSET SpaceDevices
    OBVIOUS
  <2> QED
    BY <1>3, <1>4, <1>8, <2>1 DEF Updating
<1> QED
  BY <1>5, <1>6, <1>7, <1>8 DEF SpaceNext

-----------------------------------------------------------------------------
(* What is committed replays, and every configuration is justified.         *)

\* A configuration the service takes was signed on a journal that replays.
LEMMA PublishedReplays ==
    ASSUME SpaceTypes, DraftsInv, RolesInv, NEW d \in SpaceDevices, PublishAuthority(d)
    PROVE  /\ Replayed[Len(journal)].ok
           /\ Replayed'[Len(journal)] = Replayed[Len(journal)]
           /\ Replayed[Len(journal)].owners = roles.owners
           /\ drafts[d].owners = roles.owners
           /\ \A x \in drafts[d].devices \ HeadDevices : ComesByRight(journal, Top, x)
<1>1. d \in DOMAIN drafts /\ Accepts(drafts[d])
  BY DEF PublishAuthority
<1>2. drafts[d].base = Top /\ drafts[d].commit = journal /\ drafts[d].owners = roles.owners
  BY <1>1 DEF Accepts, Extends
<1>3. /\ Replayed[Len(journal)].ok
      /\ \A x \in drafts[d].devices \ HeadDevices : ComesByRight(journal, Top, x)
  BY <1>1, <1>2 DEF DraftsInv, DraftRight
<1>4. Len(journal) \in 0..Len(journal)
  BY JournalFacts DEF SpaceTypes
<1>5. Replayed'[Len(journal)] = Replayed[Len(journal)]
  BY <1>3, <1>4, ReplayPublished
<1> QED
  BY <1>2, <1>3, <1>5 DEF RolesInv

LEMMA RolesStep ==
    ASSUME SpaceTypes, DraftsInv, RolesInv, SpaceNext
    PROVE  RolesInv'
<1>1. CASE heads' = heads
  BY <1>1, RolesKeptStep
<1>2. ASSUME NEW d \in SpaceDevices, PublishAuthority(d) PROVE RolesInv'
  <2>1. journal' = journal /\ roles' = roles
    BY <1>2 DEF PublishAuthority
  <2> QED
    BY <1>2, <2>1, PublishedReplays DEF RolesInv
<1> QED
  BY <1>1, <1>2, HeadsStep

LEMMA CommittedStep ==
    ASSUME SpaceTypes, LandingInv, DraftsInv, RolesInv, CommittedReplays, SpaceNext
    PROVE  CommittedReplays'
<1>1. CASE heads' = heads
  <2>1. Top' = Top /\ Committed' = Committed
    BY <1>1 DEF Top, Committed
  <2>2. Len(Committed) \in 0..Len(journal)
    <3>1. Top \in 1..Top /\ Len(journal) \in Nat
      BY HeadFacts, JournalFacts DEF SpaceTypes
    <3>2. Committing(Top) \in Nat /\ Committing(Top) =< Len(journal)
      BY <3>1, CommittingFacts DEF SpaceTypes, LandingInv, CommitsOK
    <3> QED
      BY <3>1, <3>2 DEF Committing, Committed
  <2>3. Replayed'[Len(Committed)] = Replayed[Len(Committed)]
    BY <1>1, <2>2, ReplayKept
  <2> QED
    BY <1>1, <2>1, <2>3 DEF CommittedReplays
<1>2. ASSUME NEW d \in SpaceDevices, PublishAuthority(d) PROVE CommittedReplays'
  <2>1. Committed' = journal /\ heads'[Top'].owners = drafts[d].owners
    BY <1>2, PublishFacts DEF Committed
  <2> QED
    BY <1>2, <2>1, PublishedReplays DEF CommittedReplays
<1> QED
  BY <1>1, <1>2, HeadsStep

\* What `HeadsJustified` says of configuration k: who leaves ...
LeavesAt(k) ==
    \A x \in heads[k - 1].devices :
        x \notin heads[k].devices <=> \E i \in Between(k) : TakesOut(heads[k].commit[i], x)

\* ... who comes ...
ComesAt(k) ==
    \A x \in heads[k].devices \ heads[k - 1].devices :
        /\ \A i \in DOMAIN heads[k].commit :
             ~(heads[k].commit[i].act = "revoked" /\ heads[k].commit[i].by = x)
        /\ \A i \in DOMAIN heads[k].commit :
             ~(heads[k].commit[i].act = "deletion" /\ heads[k].commit[i].obj = HolderOf[x])
        /\ ReadmittedBy(heads[k].commit, HolderOf[x])
        /\ ComesByRight(heads[k].commit, k - 1, x)

\* ... and who owns.
OwnsAt(k) ==
    /\ Primary \in heads[k].owners
    /\ \A p \in (heads[k].owners \ heads[k - 1].owners) \cup (heads[k - 1].owners \ heads[k].owners) :
         \E i \in Between(k) : /\ heads[k].commit[i].act \in RoleKinds
                               /\ heads[k].commit[i].obj = p
                               /\ HolderOf[heads[k].commit[i].by] = Primary

JustifiedAt(k) == LeavesAt(k) /\ ComesAt(k) /\ OwnsAt(k)

JustifiedInv == \A k \in 2 .. Top : JustifiedAt(k)

LEMMA JustifiedFromInv ==
    ASSUME SpaceTypes, JustifiedInv
    PROVE  HeadsJustified
<1>1. Top \in Nat
  BY HeadFacts DEF SpaceTypes
<1>2. ASSUME NEW k \in 2 .. Top, NEW x, ComesByRight(heads[k].commit, k - 1, x) PROVE LetIn(k, x)
  BY <1>1, <1>2, LetInFacts
<1> QED
  BY <1>2 DEF HeadsJustified, JustifiedInv, JustifiedAt, LeavesAt, ComesAt, OwnsAt

LEMMA JustifiedKept ==
    ASSUME OffersKept, NEW k \in Nat, k >= 2, \A l \in 1..k : heads'[l] = heads[l],
           Dated(heads[k].commit), JustifiedAt(k)
    PROVE  JustifiedAt(k)'
<1>1. heads'[k] = heads[k] /\ heads'[k - 1] = heads[k - 1] /\ k - 1 \in Nat /\ k - 1 >= 1
      /\ \A l \in 1..k - 1 : heads'[l] = heads[l]
  OBVIOUS
<1>2. Between(k)' = Between(k)
  BY <1>1 DEF Between
<1>3. PICK j : j = heads[k].commit
  OBVIOUS
<1>4. LeavesAt(k)'
  <2>1. \A x : \A i : TakesOut(j[i], x)' <=> TakesOut(j[i], x)
    BY DEF TakesOut
  <2> QED
    BY <1>1, <1>2, <1>3, <2>1 DEF JustifiedAt, LeavesAt, TakesOut
<1>5. ComesAt(k)'
  <2>1. ASSUME NEW x, ComesByRight(j, k - 1, x) PROVE ComesByRight(j, k - 1, x)'
    BY <1>1, <1>3, <2>1, RightKept
  <2>2. \A x : ReadmittedBy(j, HolderOf[x])' <=> ReadmittedBy(j, HolderOf[x])
    BY DEF ReadmittedBy
  <2>3. j = heads'[k].commit
    BY <1>1, <1>3
  <2> QED
    BY <1>1, <1>3, <2>1, <2>2, <2>3 DEF JustifiedAt, ComesAt
<1>6. OwnsAt(k)'
  BY <1>1, <1>2 DEF JustifiedAt, OwnsAt
<1> QED
  BY <1>4, <1>5, <1>6 DEF JustifiedAt

\* The configuration the service takes is justified.
LEMMA JustifiedNew ==
    ASSUME SpaceTypes, LandingInv, GateInv, ChangesInv, DatedInv, DraftsInv, RolesInv,
           NEW d \in SpaceDevices, PublishAuthority(d), NEW n, n = Top + 1
    PROVE  JustifiedAt(n)'
<1> DEFINE c == drafts[d]
<1>1. /\ Top \in Nat /\ Top >= 1 /\ \A k \in 1..Top : heads'[k] = heads[k]
      /\ heads'[n].devices = c.devices /\ heads'[n].owners = c.owners /\ heads'[n].commit = journal
      /\ c \in Drafts /\ Accepts(c)
  BY PublishFacts, HeadFacts DEF SpaceTypes
<1> HIDE DEF c
<1>2. n - 1 = Top /\ heads'[n - 1] = heads[Top] /\ n - 1 \in Nat
  BY <1>1
<1>3. /\ Len(journal) \in Nat /\ DOMAIN journal = 1..Len(journal)
      /\ Len(Committed) \in Nat
  <2>1. Top \in 1..Top
    BY <1>1
  <2> QED
    BY <2>1, JournalFacts, CommittingFacts DEF SpaceTypes, Committing, Committed
<1>4. Between(n)' = Len(Committed) + 1 .. Len(journal)
  BY <1>1, <1>2 DEF Between, Committed
<1>5. \A i : i \in Between(n)' <=> i \in DOMAIN journal /\ i > Len(Committed)
  BY <1>3, <1>4
<1>6. ASSUME NEW x \in c.devices
      PROVE  /\ ReadmittedBy(journal, HolderOf[x])
             /\ \A i \in DOMAIN journal :
                  /\ ~(journal[i].act = "revoked" /\ journal[i].by = x)
                  /\ ~(journal[i].act = "deletion" /\ journal[i].obj = HolderOf[x])
                  /\ i > Len(Committed) => ~TakesOut(journal[i], x)
  BY <1>1, AcceptedFacts DEF GateInv
<1>7. LeavesAt(n)'
  <2>1. ASSUME NEW x \in HeadDevices, x \notin c.devices
        PROVE  \E i \in Between(n)' : TakesOut(journal[i], x)
    <3>1. HolderOf[x] \in erased \/ RemovalBlocks(HolderOf[x]) \/ x \in revoked
      BY <1>1, <2>1 DEF Accepts, KeepsMembers
    <3>2. ASSUME IntentPending("deletion", HolderOf[x]) \/ IntentPending("remove_member", HolderOf[x])
          PROVE  \E i \in Between(n)' : TakesOut(journal[i], x)
      BY <1>5, <3>2 DEF IntentPending, TakesOut
    <3>3. CASE HolderOf[x] \in erased
      BY <3>2, <3>3 DEF ChangesInv, ErasedInv
    <3>4. CASE HolderOf[x] \notin erased /\ RemovalBlocks(HolderOf[x])
      <4>1. HolderOf[x] \in DOMAIN removals /\ ~HasApproved(applicants, HolderOf[x])
        BY <3>4 DEF RemovalBlocks, HasApproved
      <4> QED
        BY <3>2, <3>4, <4>1 DEF ChangesInv, BlockedInv
    <3>5. CASE x \in revoked
      <4>1. RetirementPending(x)
        BY <3>5 DEF ChangesInv, RevokedInv
      <4> QED
        BY <1>5, <4>1 DEF RetirementPending, TakesOut
    <3> QED
      BY <3>1, <3>3, <3>4, <3>5
  <2>2. ASSUME NEW x \in c.devices, NEW i \in Between(n)' PROVE ~TakesOut(journal[i], x)
    BY <1>5, <1>6
  <2>3. ASSUME NEW x \in HeadDevices
        PROVE  x \notin heads'[n].devices
                  <=> \E i \in Between(n)' : TakesOut(heads'[n].commit[i], x)
    BY <1>1, <2>1, <2>2
  <2> QED
    BY <1>2, <2>3 DEF LeavesAt, HeadDevices, TakesOut
<1>8. ComesAt(n)'
  <2>1. PICK j : j = journal
    OBVIOUS
  <2>2. PICK k : k = Top
    OBVIOUS
  <2>3. ASSUME NEW x \in c.devices \ HeadDevices PROVE ComesByRight(j, n - 1, x)'
    <3>1. ComesByRight(j, k, x) /\ Dated(j) /\ k \in Nat /\ k >= 1
      BY <1>1, <2>1, <2>2, PublishedReplays DEF c, Dated, DatedInv
    <3>2. OffersKept
      BY OffersStep DEF SpaceNext, Updating
    <3>3. ComesByRight(j, k, x)'
      BY <1>1, <2>2, <3>1, <3>2, RightKept
    <3>4. k = n - 1
      BY <1>2, <2>2
    <3> QED
      BY <3>3, <3>4
  <2>4. j = heads'[n].commit /\ HeadDevices = heads'[n - 1].devices
    BY <1>1, <1>2, <2>1 DEF HeadDevices
  <2>5. ASSUME NEW x \in c.devices
        PROVE  /\ ReadmittedBy(j, HolderOf[x])'
               /\ \A i \in DOMAIN j : /\ ~(j[i].act = "revoked" /\ j[i].by = x)
                                     /\ ~(j[i].act = "deletion" /\ j[i].obj = HolderOf[x])
    BY <1>6, <2>1 DEF ReadmittedBy
  <2> QED
    BY <1>1, <2>3, <2>4, <2>5 DEF ComesAt
<1>9. OwnsAt(n)'
  <2>1. c.owners = roles.owners
    BY <1>1 DEF Accepts
  <2>2. \A p \in (roles.owners \ heads[Top].owners) \cup (heads[Top].owners \ roles.owners) :
          \E i \in Between(n)' : /\ journal[i].act \in RoleKinds /\ journal[i].obj = p
                                 /\ HolderOf[journal[i].by] = Primary
    BY <1>5 DEF ChangesInv, OwnersInv, OwnerChangePending
  <2>3. Primary \in roles.owners
    BY DEF ChangesInv, OwnersInv
  <2> QED
    BY <1>1, <1>2, <2>1, <2>2, <2>3 DEF OwnsAt
<1> QED
  BY <1>7, <1>8, <1>9 DEF JustifiedAt

LEMMA JustifiedStep ==
    ASSUME SpaceTypes, LandingInv, GateInv, ChangesInv, DatedInv, DraftsInv, RolesInv,
           JustifiedInv, SpaceNext
    PROVE  JustifiedInv'
<1>1. Top \in Nat /\ Top >= 1 /\ OffersKept
  BY HeadFacts, OffersStep DEF SpaceTypes
<1>2. ASSUME NEW k \in 2..Top PROVE Dated(heads[k].commit)
  <2>1. k \in 1..Top
    BY <1>1
  <2>2. /\ heads[k].commit \in Seq(Intents) /\ Len(heads[k].commit) =< Len(journal)
        /\ \A i \in 1..Len(heads[k].commit) : heads[k].commit[i] = journal[i]
    BY <2>1, HeadFields DEF SpaceTypes, LandingInv, CommitsOK, Committing
  <2>3. Len(heads[k].commit) \in Nat /\ DOMAIN heads[k].commit = 1..Len(heads[k].commit)
        /\ Len(journal) \in Nat /\ DOMAIN journal = 1..Len(journal)
    BY <2>2, JournalFacts DEF SpaceTypes
  <2> QED
    BY <2>2, <2>3 DEF Dated, DatedInv
<1>3. ASSUME NEW k \in 2..Top, \A l \in 1..Top : heads'[l] = heads[l] PROVE JustifiedAt(k)'
  <2>1. k \in Nat /\ k >= 2 /\ \A l \in 1..k : heads'[l] = heads[l]
    BY <1>1, <1>3
  <2> QED
    BY <1>1, <1>2, <2>1, JustifiedKept DEF JustifiedInv
<1>4. CASE heads' = heads
  BY <1>3, <1>4 DEF JustifiedInv, Top
<1>5. ASSUME NEW d \in SpaceDevices, PublishAuthority(d) PROVE JustifiedInv'
  <2>1. Top' = Top + 1 /\ \A l \in 1..Top : heads'[l] = heads[l]
    BY <1>5, PublishFacts
  <2>2. ASSUME NEW k \in 2..Top' PROVE JustifiedAt(k)'
    <3>1. CASE k \in 2..Top
      BY <1>3, <2>1, <3>1
    <3>2. CASE k \notin 2..Top
      <4>1. k = Top + 1
        BY <1>1, <2>1, <3>2
      <4> QED
        BY <1>5, <4>1, JustifiedNew
    <3> QED
      BY <3>1, <3>2
  <2> QED
    BY <2>2 DEF JustifiedInv
<1> QED
  BY <1>4, <1>5, HeadsStep

-----------------------------------------------------------------------------
(* The inductive invariant of the owner-managed Space, and its theorems.    *)

ReplayInv == DatedInv /\ ProofsInv /\ RolesInv /\ DraftsInv /\ CommittedReplays

SpaceInv == SpaceTypes /\ LandingInv /\ GateInv /\ ChangesInv /\ ReplayInv /\ JustifiedInv

LEMMA SpaceInitTypes ==
    ASSUME SpaceInit
    PROVE  /\ SpaceTypes /\ Top = 1 /\ Len(journal) = 0 /\ DOMAIN journal = {}
           /\ heads[1].devices = {FirstDevice} /\ heads[1].owners = {Primary}
           /\ heads[1].commit = <<>> /\ DOMAIN applicants = {} /\ DOMAIN drafts = {}
           /\ DOMAIN removals = {} /\ DOMAIN offers = {FirstInvitation}
           /\ offers[FirstInvitation].proof = 0
<1> USE SpaceAssumption
<1> DEFINE c == [devices |-> {FirstDevice}, owners |-> {Primary}, commit |-> <<>>]
<1>1. Primary \in Persons
  OBVIOUS
<1>2. c \in Configurations /\ c.devices = {FirstDevice} /\ c.owners = {Primary} /\ c.commit = <<>>
  BY <1>1 DEF Configurations
<1>3. heads = <<c>>
  BY DEF SpaceInit
<1> HIDE DEF c
<1>4. HeadsOK /\ Top = 1 /\ heads[1] = c
  BY <1>2, <1>3 DEF HeadsOK, Top
<1>5. JournalOK /\ Len(journal) = 0 /\ DOMAIN journal = {}
  BY DEF SpaceInit, JournalOK
<1>6. DOMAIN Nobody = {}
  BY DEF Nobody
<1>7. RegistryOK
  BY <1>1, <1>6 DEF SpaceInit, RegistryOK
<1>8. RowsOK(applicants) /\ DraftsOK
  BY <1>6 DEF SpaceInit, RowsOK, DraftsOK
<1>9. /\ OffersOK(offers) /\ DOMAIN offers = {FirstInvitation}
      /\ offers[FirstInvitation].proof = 0
  <2>1. PICK asks \in BOOLEAN :
          offers = With(Nobody, FirstInvitation,
                        [asks |-> asks, revoked |-> FALSE, expired |-> FALSE, proof |-> 0])
    BY DEF SpaceInit
  <2> DEFINE o == [asks |-> asks, revoked |-> FALSE, expired |-> FALSE, proof |-> 0]
  <2>2. o \in Offers /\ o.proof = 0
    BY DEF Offers
  <2> HIDE DEF o
  <2>3. DOMAIN offers = {FirstInvitation} /\ offers[FirstInvitation] = o
    BY <1>6, <2>1 DEF With, o
  <2> QED
    BY <2>2, <2>3 DEF OffersOK
<1> QED
  BY <1>2, <1>4, <1>5, <1>6, <1>7, <1>8, <1>9 DEF SpaceTypes, SpaceInit

LEMMA SpaceInvInit ==
    ASSUME SpaceInit
    PROVE  SpaceInv
<1>1. /\ SpaceTypes /\ Top = 1 /\ Len(journal) = 0 /\ DOMAIN journal = {}
      /\ heads[1].devices = {FirstDevice} /\ heads[1].owners = {Primary}
      /\ heads[1].commit = <<>> /\ DOMAIN applicants = {} /\ DOMAIN drafts = {}
      /\ DOMAIN removals = {} /\ DOMAIN offers = {FirstInvitation}
      /\ offers[FirstInvitation].proof = 0
  BY SpaceInitTypes
<1>2. roles.owners = {Primary} /\ revoked = {} /\ erased = {}
  BY DEF SpaceInit
<1>3. Committed = <<>> /\ Len(Committed) = 0 /\ HeadDevices = {FirstDevice}
      /\ heads[Top].owners = {Primary}
  BY <1>1 DEF Committed, HeadDevices
<1>4. LandingInv
  <2>1. \A k \in 1..Top : k = 1 /\ Committing(k) = 0
    BY <1>1 DEF Committing
  <2> QED
    BY <1>1, <2>1 DEF LandingInv, CommitsOK
<1>5. GateInv
  BY <1>1, <1>3 DEF GateInv, KnownInv, FreshInv, ReadmissionInv, HeadInv, ReadmittedBy
<1>6. ChangesInv
  BY <1>1, <1>2, <1>3
  DEF ChangesInv, RequestsLive, LiveRows, RevokedInv, BlockedInv, ErasedInv, OwnersInv
<1>7. Replayed[0] = ReplayStart /\ ReplayStart.ok = TRUE /\ ReplayStart.owners = {Primary}
  BY <1>1, ReplayUnfolds, StartFacts DEF ReplayUnfolded
<1>8. ReplayInv
  BY <1>1, <1>2, <1>3, <1>7
  DEF ReplayInv, DatedInv, ProofsInv, RolesInv, DraftsInv, CommittedReplays
<1>9. JustifiedInv
  BY <1>1 DEF JustifiedInv
<1> QED
  BY <1>1, <1>4, <1>5, <1>6, <1>8, <1>9 DEF SpaceInv

LEMMA SpaceInvStep ==
    ASSUME SpaceInv, SpaceNext
    PROVE  SpaceInv'
<1>1. SpaceTypes' /\ LandingInv'
  BY SpaceTypesStep, LandingStep DEF SpaceInv
<1>2. GateInv'
  BY KnownStep, FreshStep, ReadmissionStep, HeadStep DEF SpaceInv, GateInv
<1>3. ChangesInv'
  BY LiveStep, RevokedStep, BlockedStep, ErasedStep, OwnersStep DEF SpaceInv, ChangesInv
<1>4. ReplayInv'
  BY DatedStep, ProofsStep, RolesStep, DraftsRightStep, CommittedStep DEF SpaceInv, ReplayInv
<1>5. JustifiedInv'
  BY JustifiedStep DEF SpaceInv, ReplayInv
<1> QED
  BY <1>1, <1>2, <1>3, <1>4, <1>5 DEF SpaceInv

\* Everything the invariant speaks of is one of the variables: a step that changes none
\* of them leaves it as it is.
LEMMA SpaceInvRests ==
    ASSUME SpaceInv, UNCHANGED spaceVars
    PROVE  SpaceInv'
<1> USE DEF spaceVars
<1>1. SpaceTypes'
  BY DEF SpaceInv, SpaceTypes, JournalOK, HeadsOK, RegistryOK, RowsOK, OffersOK, DraftsOK, Top
<1>2. LandingInv'
  BY DEF SpaceInv, LandingInv, CommitsOK, Landed, Committing, Top
<1>3. GateInv'
  BY DEF SpaceInv, GateInv, KnownInv, FreshInv, ReadmissionInv, HeadInv, ShutOut, Counts,
         ReadmittedBy, HeadDevices, Committed, Top
<1>4. ChangesInv'
  BY DEF SpaceInv, ChangesInv, RequestsLive, LiveRows, LiveOffer, RevokedInv, BlockedInv,
         ErasedInv, OwnersInv, RetirementPending, IntentPending, HasApproved, OwnerChangePending,
         HeadDevices, Committed, Top
<1>5. Replayed' = Replayed
  BY DEF Replayed, ReplayStart, Stands, Applied, CommandStands, EnrolledFor, EnrolledEver,
         EnrolledAt, OwnersAt, Committed, Top, Nobody, With
<1>6. \A j, k, x : ComesByRight(j, k, x)' <=> ComesByRight(j, k, x)
  BY DEF ComesByRight, Overruled, Approvals, Refusals, OpenDoor, EnrolledAt, OwnersAt
<1>7. ReplayInv'
  <2>1. PICK j : j = journal
    OBVIOUS
  <2>2. PICK t : t = Top
    OBVIOUS
  <2>3. j = journal' /\ t = Top' /\ Top' = Top /\ HeadDevices' = HeadDevices
        /\ Committed' = Committed
    BY <2>1, <2>2 DEF Top, HeadDevices, Committed
  <2>4. \A x : ComesByRight(journal, Top, x)' <=> ComesByRight(journal, Top, x)
    <3>1. ASSUME NEW x PROVE ComesByRight(journal, Top, x)' <=> ComesByRight(journal, Top, x)
      <4>1. ComesByRight(j, t, x)' <=> ComesByRight(journal, Top, x)'
        BY <2>3
      <4>2. ComesByRight(j, t, x) <=> ComesByRight(journal, Top, x)
        BY <2>1, <2>2
      <4> QED
        BY <1>6, <4>1, <4>2
    <3> QED
      BY <3>1
  <2>5. DatedInv' /\ ProofsInv' /\ RolesInv' /\ CommittedReplays'
    BY <1>5, <2>3 DEF SpaceInv, ReplayInv, DatedInv, ProofsInv, RolesInv, CommittedReplays
  <2>6. DraftsInv'
    BY <1>5, <2>3, <2>4 DEF SpaceInv, ReplayInv, DraftsInv, DraftRight
  <2> QED
    BY <2>5, <2>6 DEF ReplayInv
<1>8. JustifiedInv'
  <2>1. ASSUME NEW k, JustifiedAt(k) PROVE JustifiedAt(k)'
    <3>1. PICK j : j = heads[k].commit
      OBVIOUS
    <3>2. j = heads'[k].commit
      BY <3>1
    <3>3. LeavesAt(k)' /\ OwnsAt(k)'
      BY <2>1 DEF JustifiedAt, LeavesAt, OwnsAt, TakesOut, Between
    <3>4. \A x : ComesByRight(j, k - 1, x)' <=> ComesByRight(j, k - 1, x)
      BY <1>6
    <3>5. \A p : ReadmittedBy(j, p)' <=> ReadmittedBy(j, p)
      BY DEF ReadmittedBy
    <3>6. ComesAt(k)'
      BY <2>1, <3>1, <3>2, <3>4, <3>5 DEF JustifiedAt, ComesAt
    <3> QED
      BY <3>3, <3>6 DEF JustifiedAt
  <2> QED
    BY <2>1 DEF SpaceInv, JustifiedInv, Top
<1> QED
  BY <1>1, <1>2, <1>3, <1>4, <1>7, <1>8 DEF SpaceInv

\* The service of an owner-managed Space and its owners' devices keep the invariant,
\* whatever is delayed, repeated or raced (public_space.rs, owner_admission.rs).
THEOREM SpaceInvariant == SpaceSpec => []SpaceInv
<1>1. SpaceInit => SpaceInv
  BY SpaceInvInit
<1>2. SpaceInv /\ [SpaceNext]_spaceVars => SpaceInv'
  BY SpaceInvStep, SpaceInvRests
<1> QED
  BY <1>1, <1>2, PTL DEF SpaceSpec

\* An intent the service has journaled is committed by the configuration that follows
\* the one it was signed under, and what a configuration commits is a prefix of the
\* journal (`publish_authority`).
THEOREM IntentsAreCommitted == SpaceSpec => []IntentsLand
<1>1. SpaceInv => IntentsLand
  BY LandedFromInv DEF SpaceInv
<1> QED
  BY <1>1, SpaceInvariant, PTL

\* The gate refuses whom the journal has taken out, before General follows
\* (`removal_blocks`, `space_access_devices`).
THEOREM SpaceIsSound == SpaceSpec => []SpaceSound
<1>1. SpaceInv => SpaceSound
  BY GateFromInv DEF SpaceInv
<1> QED
  BY <1>1, SpaceInvariant, PTL

\* Every change of General rests on the intents it commits: who leaves was taken out,
\* who comes was let in, and the owners change by intents of the primary's devices
\* (`publish_authority`, `update_owner_general`).
THEOREM HeadsAreJustified == SpaceSpec => []HeadsJustified
<1>1. SpaceInv => HeadsJustified
  BY JustifiedFromInv DEF SpaceInv
<1> QED
  BY <1>1, SpaceInvariant, PTL

\* What is committed replays for ever to the owners General has, whoever has left since
\* (`verify_owner_policy`, `check_committed_owners`).
THEOREM CommittedAlwaysReplays == SpaceSpec => []CommittedReplays
<1>1. SpaceInv => CommittedReplays
  BY DEF SpaceInv, ReplayInv
<1> QED
  BY <1>1, SpaceInvariant, PTL
==============================================================================
